------------------------ MODULE CorpusReaders_proofs ------------------------
(***************************************************************************)
(* The writers and readers of a knowledge base, for any documents,         *)
(* builders, batch sizes and retrievals: the remembered hashes are true,   *)
(* and readers answer from finished writes.                                *)
(***************************************************************************)
EXTENDS CorpusReaders, TLAPS

-----------------------------------------------------------------------------
(* The inductive invariant of the writers.                                 *)

PCs == {"idle", "scan", "enter", "write", "save", "dump",
        "drop", "recreate", "clearLeave", "forget", "empty"}

BuilderRecords ==
    [pc : PCs, known : SUBSET Chunks, document : SUBSET Chunks, left : SUBSET Chunks,
     batch : SUBSET Chunks, writing : BOOLEAN, failed : BOOLEAN]

StoreTypes ==
    /\ exists \in BOOLEAN
    /\ generation \in Nat /\ revision \in Nat
    /\ stored \in SUBSET Chunks
    /\ hashFile \in SUBSET Chunks /\ torn \in BOOLEAN
    /\ halfWritten \in BOOLEAN /\ halfCleared \in BOOLEAN
    /\ builder \in [Builders -> BuilderRecords]
    /\ ingests \in 0..MaxIngests /\ kills \in 0..MaxKills

(* What a builder's record can be at each of its places.                   *)
Consistent(r) ==
    /\ r.pc = "idle" => r = Idle
    /\ r.pc \in {"drop", "recreate", "clearLeave", "forget", "empty"}
          => r.known = {} /\ ~r.writing
    /\ r.pc \notin {"enter", "write"} => r.batch = {}
    /\ r.batch \subseteq r.known
    /\ r.left \subseteq r.document
    /\ r.writing => r.pc \in {"scan", "write"}
    /\ r.pc = "write" => r.writing
    /\ ~r.failed /\ r.pc \in {"scan", "enter", "write"}
          => r.document \ Structural \subseteq r.known \cup r.left
    /\ ~r.failed /\ r.pc \in {"save", "dump"}
          => r.document \ Structural \subseteq r.known

BuildersAreConsistent == \A b \in Builders : Consistent(builder[b])

(* clear runs before the pool is started: nobody builds meanwhile.         *)
ClearsAreAlone ==
    \A a, b \in Builders : Clearing(a) /\ a # b => At(b, "idle")

(* A builder at work has a collection, but for the moment of a clear in    *)
(* which it is dropped.                                                    *)
CollectionExists ==
    /\ \A b \in Builders : builder[b].pc \notin {"idle", "recreate"} => exists
    /\ ~exists => stored = {}

(* RememberedChunksAreStored is what is wanted; that a clear is alone and   *)
(* that the batch in hand is not trusted make it inductive.                *)
StoreInv == StoreTypes /\ BuildersAreConsistent /\ ClearsAreAlone /\ CollectionExists
              /\ RememberedChunksAreStored

-----------------------------------------------------------------------------
(* The inductive invariant of the readers.                                 *)

ReaderTypes ==
    /\ corpus \in SUBSET Chunks
    /\ corpusRevision \in 0..revision \cup {None}
    /\ refresh \in [revision : 0..revision \cup {None}, attempt : 0..RefreshAttempts, handle : Nat]
    /\ service \in [up : BOOLEAN, handle : Nat, boot : SUBSET Chunks]
    /\ ask \in [Questions -> [revision : 0..revision \cup {None},
                              origin : {None, "index", "boot"}, found : SUBSET Chunks]]
    /\ \A q \in Questions : ask[q].origin # None => ask[q].revision # None
    /\ cache \subseteq [revision : 0..revision, origin : {"index", "boot"}, found : SUBSET Chunks]

(* A refresh whose handle is dead finds an empty store, or its revision is *)
(* already stale: what it will install as current is true.                 *)
RefreshSeesTheStore ==
    (Quiet /\ refresh # NoRefresh /\ refresh.handle # 0 /\ refresh.revision = revision)
       => (exists /\ refresh.handle = generation) \/ stored = {}

(* CachedResultsAreCurrent for results that are not in the cache yet.      *)
PendingResultsAreCurrent ==
    Quiet => \A q \in Questions :
                ask[q].revision = revision /\ ask[q].origin = "index" => ask[q].found = stored

ReaderInv == ReaderTypes /\ RefreshSeesTheStore /\ PendingResultsAreCurrent
               /\ LoadedCorpusIsCurrent /\ CachedResultsAreCurrent

IInv == StoreInv /\ ReaderInv

-----------------------------------------------------------------------------
(* The writers.                                                            *)

ClearingPCs == {"drop", "recreate", "clearLeave", "forget", "empty"}

(* A builder that moves to a consistent record, alone where it clears,     *)
(* keeps the builders consistent.                                          *)
LEMMA BecomeKeeps ==
    ASSUME StoreInv, NEW b \in Builders, NEW r, Become(b, r),
           r \in BuilderRecords, Consistent(r),
           /\ r.pc \in ClearingPCs => \A a \in Builders \ {b} : At(a, "idle")
           /\ r.pc # "idle" => \A a \in Builders \ {b} : ~Clearing(a)
    PROVE  /\ builder' \in [Builders -> BuilderRecords]
           /\ BuildersAreConsistent'
           /\ builder'[b] = r
           /\ \A a \in Builders \ {b} : builder'[a] = builder[a]
           /\ ClearsAreAlone'
  <1>1. /\ builder' = [builder EXCEPT ![b] = r]
        /\ builder \in [Builders -> BuilderRecords]
    BY DEF Become, StoreInv, StoreTypes
  <1>2. /\ builder' \in [Builders -> BuilderRecords]
        /\ builder'[b] = r
        /\ \A a \in Builders \ {b} : builder'[a] = builder[a]
    BY <1>1
  <1>3. BuildersAreConsistent'
    BY <1>2 DEF StoreInv, BuildersAreConsistent, Consistent
  <1>4. ClearsAreAlone'
    BY <1>2 DEF StoreInv, ClearsAreAlone, Clearing, At, ClearingPCs
  <1> QED BY <1>2, <1>3, <1>4

(* What a builder knows of its own record.                                 *)
LEMMA OwnRecord ==
    ASSUME StoreInv, NEW b \in Builders
    PROVE  /\ builder[b] \in BuilderRecords
           /\ Consistent(builder[b])
           /\ builder[b].pc \in ClearingPCs => \A a \in Builders \ {b} : At(a, "idle")
           /\ builder[b].pc # "idle" => \A a \in Builders \ {b} : ~Clearing(a)
           /\ builder[b].pc \notin {"idle", "recreate"} => exists
  BY DEF StoreInv, StoreTypes, BuildersAreConsistent, ClearsAreAlone, CollectionExists, Clearing,
         At, ClearingPCs

(* An idle builder is consistent.                                          *)
LEMMA IdleRecord == Idle \in BuilderRecords /\ Consistent(Idle)
  BY DEF Idle, BuilderRecords, PCs, Consistent

(* The steps of an ingestion: the builder stays outside a clear, the store *)
(* only grows and a hash file is emptied or holds what the builder trusts. *)
LEMMA IngestionSteps ==
    ASSUME StoreInv, NEW b \in Builders,
           \/ FillBatch(b) \/ Enter(b) \/ WriteBatch(b) \/ FailBatch(b)
           \/ LeaveWrite(b) \/ TruncateHashes(b) \/ DumpHashes(b)
    PROVE  StoreInv'
  <1> DEFINE r == builder[b]
             n == builder'[b]
  <1> USE StoreAssumption
  <1>1. /\ r \in BuilderRecords /\ Consistent(r)
        /\ r.pc # "idle" => \A a \in Builders \ {b} : ~Clearing(a)
        /\ r.pc \in {"scan", "enter", "write", "save", "dump"} => exists
    BY OwnRecord
  <1>2. /\ r.pc \in {"scan", "enter", "write", "save", "dump"}
        /\ UNCHANGED <<exists, generation, halfCleared, ingests, kills>>
    BY DEF FillBatch, Enter, WriteBatch, FailBatch, LeaveWrite, TruncateHashes, DumpHashes, At
  <1>3. /\ revision' \in Nat /\ halfWritten' \in BOOLEAN
        /\ stored' \in SUBSET Chunks /\ stored \subseteq stored'
        /\ hashFile' \in SUBSET Chunks /\ torn' \in BOOLEAN
        /\ hashFile' = hashFile \/ hashFile' = {}
             \/ (hashFile' = r.known /\ r.pc = "dump")
    <2>1. StoreTypes /\ r.batch \in SUBSET Chunks /\ r.known \in SUBSET Chunks
      BY <1>1 DEF StoreInv, BuilderRecords
    <2>2. /\ revision' = revision \/ revision' = revision + 1
          /\ halfWritten' = halfWritten \/ halfWritten' = FALSE
      BY DEF FillBatch, Enter, WriteBatch, FailBatch, LeaveWrite, TruncateHashes, DumpHashes,
             Publish
    <2>3. stored' = stored \/ stored' = stored \cup r.batch
      BY DEF FillBatch, Enter, WriteBatch, FailBatch, LeaveWrite, TruncateHashes, DumpHashes
    <2>4. /\ \/ UNCHANGED hashFile
             \/ hashFile' = {}
             \/ hashFile' = r.known /\ r.pc = "dump"
          /\ torn' = torn \/ torn' \in BOOLEAN
      BY DEF FillBatch, Enter, WriteBatch, FailBatch, LeaveWrite, TruncateHashes, DumpHashes, At
    <2>5. revision' \in Nat /\ halfWritten' \in BOOLEAN
      <3>1. revision' \in Nat
        BY <2>1, <2>2 DEF StoreTypes
      <3>2. halfWritten' \in BOOLEAN
        BY <2>1, <2>2 DEF StoreTypes
      <3> QED BY <3>1, <3>2
    <2>6. stored' \in SUBSET Chunks /\ stored \subseteq stored'
      BY <2>1, <2>3 DEF StoreTypes
    <2>7. hashFile' \in SUBSET Chunks /\ torn' \in BOOLEAN
      BY <2>1, <2>4 DEF StoreTypes
    <2> QED BY <2>4, <2>5, <2>6, <2>7
  <1>4. /\ n \in BuilderRecords /\ Consistent(n) /\ Become(b, n)
        /\ n.pc \in {"scan", "enter", "write", "save", "dump", "idle"}
        /\ n.known \ n.batch \subseteq (r.known \ r.batch) \cup stored'
    <2> DEFINE Good(x) == /\ x \in BuilderRecords /\ Consistent(x)
                          /\ x.pc \in {"scan", "enter", "write", "save", "dump", "idle"}
                          /\ x.known \ x.batch \subseteq (r.known \ r.batch) \cup stored'
    <2>1. ASSUME NEW x, Become(b, x), Good(x) PROVE Good(n) /\ Become(b, n)
      BY <2>1 DEF Become, StoreInv, StoreTypes
    <2>2. /\ r.pc \in PCs /\ r.known \in SUBSET Chunks /\ r.document \in SUBSET Chunks
          /\ r.left \in SUBSET Chunks /\ r.batch \in SUBSET Chunks
          /\ r.writing \in BOOLEAN /\ r.failed \in BOOLEAN
      BY <1>1 DEF BuilderRecords
    <2>3. ASSUME FillBatch(b) PROVE Good(n) /\ Become(b, n)
      <3>1. PICK batch \in SUBSET New(b) :
               Become(b, [r EXCEPT !.pc = IF r.writing THEN "write" ELSE "enter",
                                   !.known = @ \cup batch, !.left = @ \ batch, !.batch = batch])
        BY <2>3 DEF FillBatch
      <3> DEFINE x == [r EXCEPT !.pc = IF r.writing THEN "write" ELSE "enter",
                                !.known = @ \cup batch, !.left = @ \ batch, !.batch = batch]
      <3>2. batch \subseteq r.left /\ r.pc = "scan"
        BY <2>3 DEF New, FillBatch, At
      <3>3. /\ x \in BuilderRecords
            /\ x.pc = (IF r.writing THEN "write" ELSE "enter")
            /\ x.known = r.known \cup batch /\ x.left = r.left \ batch /\ x.batch = batch
            /\ x.document = r.document /\ x.writing = r.writing /\ x.failed = r.failed
        BY <1>1, <2>2, <3>2 DEF BuilderRecords, PCs
      <3> HIDE DEF x
      <3>4. Good(x)
        BY <1>1, <3>2, <3>3 DEF Consistent
      <3> QED BY <2>1, <3>1, <3>4 DEF x
    <2>4. ASSUME Enter(b) PROVE Good(n) /\ Become(b, n)
      <3> DEFINE x == [r EXCEPT !.pc = "write", !.writing = TRUE]
      <3>1. Become(b, x) /\ r.pc = "enter"
        BY <2>4 DEF Enter, At
      <3>2. /\ x \in BuilderRecords
            /\ x.pc = "write" /\ x.known = r.known /\ x.document = r.document /\ x.left = r.left
            /\ x.batch = r.batch /\ x.writing = TRUE /\ x.failed = r.failed
        BY <1>1, <2>2 DEF BuilderRecords, PCs
      <3> HIDE DEF x
      <3>3. Good(x)
        BY <1>1, <3>1, <3>2 DEF Consistent
      <3> QED BY <2>1, <3>1, <3>3
    <2>5. ASSUME WriteBatch(b) PROVE Good(n) /\ Become(b, n)
      <3> DEFINE x == [r EXCEPT !.pc = "scan", !.batch = {}]
      <3>1. Become(b, x) /\ r.pc = "write" /\ stored' = stored \cup r.batch
        BY <2>5 DEF WriteBatch, At
      <3>2. /\ x \in BuilderRecords
            /\ x.pc = "scan" /\ x.known = r.known /\ x.document = r.document /\ x.left = r.left
            /\ x.batch = {} /\ x.writing = r.writing /\ x.failed = r.failed
        BY <1>1, <2>2 DEF BuilderRecords, PCs
      <3> HIDE DEF x
      <3>3. Good(x)
        BY <1>1, <3>1, <3>2 DEF Consistent
      <3> QED BY <2>1, <3>1, <3>3
    <2>6. ASSUME FailBatch(b) PROVE Good(n) /\ Become(b, n)
      <3> DEFINE x == [r EXCEPT !.pc = "scan", !.batch = {}, !.known = @ \ r.batch,
                                !.failed = TRUE]
      <3>1. Become(b, x) /\ r.pc = "write"
        BY <2>6 DEF FailBatch, At
      <3>2. /\ x \in BuilderRecords
            /\ x.pc = "scan" /\ x.known = r.known \ r.batch /\ x.document = r.document /\ x.left = r.left
            /\ x.batch = {} /\ x.writing = r.writing /\ x.failed = TRUE
        BY <1>1, <2>2 DEF BuilderRecords, PCs
      <3> HIDE DEF x
      <3>3. Good(x)
        BY <1>1, <3>1, <3>2 DEF Consistent
      <3> QED BY <2>1, <3>1, <3>3
    <2>7. ASSUME LeaveWrite(b) PROVE Good(n) /\ Become(b, n)
      <3> DEFINE x == [r EXCEPT !.pc = "save", !.writing = FALSE]
      <3>1. Become(b, x) /\ r.pc = "scan" /\ r.left \ Structural \subseteq r.known
        BY <2>7 DEF LeaveWrite, At, New
      <3>2. /\ x \in BuilderRecords
            /\ x.pc = "save" /\ x.known = r.known /\ x.document = r.document /\ x.left = r.left
            /\ x.batch = r.batch /\ x.writing = FALSE /\ x.failed = r.failed
        BY <1>1, <2>2 DEF BuilderRecords, PCs
      <3> HIDE DEF x
      <3>3. Good(x)
        BY <1>1, <3>1, <3>2 DEF Consistent
      <3> QED BY <2>1, <3>1, <3>3
    <2>8. ASSUME TruncateHashes(b) PROVE Good(n) /\ Become(b, n)
      <3> DEFINE x == [r EXCEPT !.pc = "dump"]
      <3>1. Become(b, x) /\ r.pc = "save"
        BY <2>8 DEF TruncateHashes, At, Goto
      <3>2. /\ x \in BuilderRecords
            /\ x.pc = "dump" /\ x.known = r.known /\ x.document = r.document /\ x.left = r.left
            /\ x.batch = r.batch /\ x.writing = r.writing /\ x.failed = r.failed
        BY <1>1, <2>2 DEF BuilderRecords, PCs
      <3> HIDE DEF x
      <3>3. Good(x)
        BY <1>1, <3>1, <3>2 DEF Consistent
      <3> QED BY <2>1, <3>1, <3>3
    <2>9. ASSUME DumpHashes(b) PROVE Good(n) /\ Become(b, n)
      <3>1. Good(Idle)
        BY IdleRecord DEF Idle
      <3> QED BY <2>1, <2>9, <3>1 DEF DumpHashes
    <2> QED BY <2>3, <2>4, <2>5, <2>6, <2>7, <2>8, <2>9
  <1>5. /\ builder' \in [Builders -> BuilderRecords]
        /\ BuildersAreConsistent'
        /\ \A a \in Builders \ {b} : builder'[a] = builder[a]
        /\ ClearsAreAlone'
    BY <1>1, <1>2, <1>4, BecomeKeeps DEF ClearingPCs
  <1>6. StoreTypes'
    BY <1>2, <1>3, <1>5 DEF StoreInv, StoreTypes
  <1>7. CollectionExists'
    BY <1>1, <1>2, <1>3, <1>5 DEF StoreInv, CollectionExists
  <1>8. RememberedChunksAreStored'
    <2> SUFFICES ASSUME ~halfCleared
                 PROVE  hashFile' \subseteq stored' /\ \A a \in Builders : Trusted(a)' \subseteq stored'
      BY <1>2 DEF RememberedChunksAreStored
    <2>1. hashFile \subseteq stored /\ \A a \in Builders : Trusted(a) \subseteq stored
      <3>1. \A a \in Builders : builder[a].pc \notin {"recreate", "clearLeave", "forget"}
        BY <1>1, <1>2 DEF Clearing
      <3> QED BY <3>1 DEF StoreInv, RememberedChunksAreStored
    <2>2. r.pc = "dump" => r.known = Trusted(b)
      BY <1>1 DEF Consistent, Trusted
    <2>3. hashFile' \subseteq stored'
      BY <1>3, <2>1, <2>2
    <2>4. ASSUME NEW a \in Builders PROVE Trusted(a)' \subseteq stored'
      BY <1>3, <1>4, <1>5, <2>1 DEF Trusted
    <2> QED BY <2>3, <2>4
  <1> QED BY <1>5, <1>6, <1>7, <1>8 DEF StoreInv

(* A builder starts.                                                       *)
LEMMA OpenStep ==
    ASSUME StoreInv, NEW b \in Builders, NEW doc \in Documents, Open(b, doc)
    PROVE  StoreInv'
  <1> DEFINE x == [Idle EXCEPT !.pc = "scan", !.known = hashFile,
                               !.document = doc, !.left = doc]
  <1> USE StoreAssumption
  <1>1. /\ StoreTypes /\ doc \in SUBSET Chunks
        /\ At(b, "idle") /\ \A a \in Builders : ~Clearing(a)
        /\ Connect /\ ingests < MaxIngests /\ ingests' = ingests + 1
        /\ Become(b, x)
        /\ UNCHANGED <<stored, hashFile, torn, revision, halfWritten, halfCleared, kills>>
    BY DEF Open, StoreInv
  <1>2. /\ x \in BuilderRecords
        /\ x.pc = "scan" /\ x.known = hashFile /\ x.document = doc /\ x.left = doc
        /\ x.batch = {} /\ x.writing = FALSE /\ x.failed = FALSE
    BY <1>1 DEF Idle, BuilderRecords, PCs, StoreTypes
  <1> HIDE DEF x
  <1>3. Consistent(x)
    BY <1>2 DEF Consistent
  <1>4. /\ builder' \in [Builders -> BuilderRecords]
        /\ BuildersAreConsistent' /\ ClearsAreAlone'
        /\ builder'[b] = x
        /\ \A a \in Builders \ {b} : builder'[a] = builder[a]
    BY <1>1, <1>2, <1>3, BecomeKeeps DEF ClearingPCs
  <1>5. StoreTypes'
    <2>1. exists' \in BOOLEAN /\ generation' \in Nat
      BY <1>1 DEF Connect, StoreTypes
    <2>2. ingests' \in 0..MaxIngests
      BY <1>1 DEF StoreTypes
    <2> QED BY <1>1, <1>4, <2>1, <2>2 DEF StoreTypes
  <1>6. CollectionExists'
    BY <1>1, <1>4 DEF Connect, CollectionExists, StoreInv
  <1>7. RememberedChunksAreStored'
    BY <1>1, <1>2, <1>4 DEF StoreInv, RememberedChunksAreStored, Trusted, Clearing, At
  <1> QED BY <1>4, <1>5, <1>6, <1>7 DEF StoreInv

(* The steps of a clear.                                                   *)
LEMMA ClearSteps ==
    ASSUME StoreInv, NEW b \in Builders,
           \/ StartClear(b) \/ DropCollection(b) \/ Recreate(b) \/ LeaveClear(b)
           \/ ForgetHashes(b) \/ SaveEmpty(b) \/ Kill(b)
    PROVE  StoreInv'
  <1> DEFINE r == builder[b]
             n == builder'[b]
  <1> USE StoreAssumption
  <1>1. /\ r \in BuilderRecords /\ Consistent(r)
        /\ r.pc \in ClearingPCs => \A a \in Builders \ {b} : At(a, "idle")
        /\ r.pc # "idle" => \A a \in Builders \ {b} : ~Clearing(a)
        /\ r.pc \notin {"idle", "recreate"} => exists
    BY OwnRecord
  <1>2. \A a \in Builders : At(a, "idle") => builder[a] = Idle
    BY OwnRecord DEF At, Consistent
  <1>3. StoreTypes
    BY DEF StoreInv
  <1>4. ASSUME NEW p \in ClearingPCs, Goto(b, p),
               \A a \in Builders \ {b} : At(a, "idle"),
               r.known = {} /\ ~r.writing
        PROVE  /\ builder' \in [Builders -> BuilderRecords]
               /\ BuildersAreConsistent' /\ ClearsAreAlone'
               /\ builder'[b].pc = p /\ builder'[b].known = {}
               /\ \A a \in Builders \ {b} : builder'[a] = Idle
    <2> DEFINE x == [r EXCEPT !.pc = p]
    <2>1. /\ x \in BuilderRecords
          /\ x.pc = p /\ x.known = r.known /\ x.document = r.document /\ x.left = r.left
          /\ x.batch = r.batch /\ x.writing = r.writing /\ x.failed = r.failed
      BY <1>1 DEF BuilderRecords, PCs, ClearingPCs
    <2>2. Become(b, x)
      BY <1>4 DEF Goto
    <2> HIDE DEF x
    <2>3. Consistent(x)
      <3>1. r.batch = {}
        BY <1>1, <1>4 DEF Consistent
      <3> QED BY <1>1, <1>4, <2>1, <3>1 DEF Consistent, ClearingPCs
    <2>4. \A a \in Builders \ {b} : ~Clearing(a) /\ builder[a] = Idle
      BY <1>2, <1>4 DEF At, Clearing
    <2> QED BY <1>4, <2>1, <2>2, <2>3, <2>4, BecomeKeeps
  <1>5. ASSUME Become(b, Idle)
        PROVE  /\ builder' \in [Builders -> BuilderRecords]
               /\ BuildersAreConsistent' /\ ClearsAreAlone'
               /\ builder'[b] = Idle
               /\ \A a \in Builders \ {b} : builder'[a] = builder[a]
    BY <1>5, IdleRecord, BecomeKeeps DEF Idle, ClearingPCs
  <1>6. ASSUME StartClear(b) PROVE StoreInv'
    <2>1. /\ Goto(b, "drop") /\ r = Idle /\ \A a \in Builders : At(a, "idle")
          /\ Connect /\ Publish /\ ingests < MaxIngests /\ ingests' = ingests + 1
          /\ UNCHANGED <<stored, hashFile, torn, halfCleared, kills>>
      BY <1>2, <1>6 DEF StartClear
    <2>2. /\ builder' \in [Builders -> BuilderRecords]
          /\ BuildersAreConsistent' /\ ClearsAreAlone'
          /\ builder'[b].pc = "drop" /\ builder'[b].known = {}
          /\ \A a \in Builders \ {b} : builder'[a] = Idle
      BY <2>1, <1>4 DEF Idle, ClearingPCs
    <2>3. StoreTypes'
      <3>1. exists' \in BOOLEAN /\ generation' \in Nat
        BY <1>3, <2>1 DEF Connect, StoreTypes
      <3>2. revision' \in Nat /\ ingests' \in 0..MaxIngests
        BY <1>3, <2>1 DEF Publish, StoreTypes
      <3>3. halfWritten' \in BOOLEAN
        BY <2>1 DEF Publish
      <3> QED BY <1>3, <2>1, <2>2, <3>1, <3>2, <3>3 DEF StoreTypes
    <2>4. CollectionExists'
      BY <2>1, <2>2 DEF Connect, CollectionExists, Idle
    <2>5. RememberedChunksAreStored'
      BY <2>1, <2>2 DEF StoreInv, RememberedChunksAreStored, Trusted, At, Idle
    <2> QED BY <2>2, <2>3, <2>4, <2>5 DEF StoreInv
  <1>7. ASSUME DropCollection(b) \/ Recreate(b) \/ LeaveClear(b) \/ ForgetHashes(b)
        PROVE  StoreInv'
    <2>1. \E p \in {"recreate", "clearLeave", "forget", "empty"} :
             /\ Goto(b, p)
             /\ p # "recreate" => exists'
             /\ p = "empty" => hashFile' = {}
             /\ p # "empty" => UNCHANGED <<hashFile, halfCleared>>
             /\ stored' = {} \/ UNCHANGED <<exists, stored>> \/ (exists' /\ UNCHANGED stored)
      BY <1>1, <1>7 DEF DropCollection, Recreate, LeaveClear, ForgetHashes, At
    <2>2. /\ r.pc \in ClearingPCs /\ r.known = {} /\ ~r.writing
          /\ \A a \in Builders \ {b} : At(a, "idle")
      BY <1>1, <1>7 DEF DropCollection, Recreate, LeaveClear, ForgetHashes, At, ClearingPCs,
         Consistent
    <2>3. PICK p \in {"recreate", "clearLeave", "forget", "empty"} :
             /\ p # "recreate" => exists'
             /\ p = "empty" => hashFile' = {}
             /\ builder' \in [Builders -> BuilderRecords]
             /\ BuildersAreConsistent' /\ ClearsAreAlone'
             /\ builder'[b].pc = p /\ builder'[b].known = {}
             /\ \A a \in Builders \ {b} : builder'[a] = Idle
      BY <2>1, <2>2, <1>4 DEF ClearingPCs
    <2>4. StoreTypes'
      <3>1. revision' = revision \/ revision' = revision + 1
        BY <1>7 DEF DropCollection, Recreate, LeaveClear, ForgetHashes, Publish
      <3>2. halfWritten' = halfWritten \/ halfWritten' = FALSE
        BY <1>7 DEF DropCollection, Recreate, LeaveClear, ForgetHashes, Publish
      <3>3. /\ generation' = generation \/ generation' = generation + 1
            /\ stored' = stored \/ stored' = {}
            /\ hashFile' = hashFile \/ hashFile' = {}
            /\ UNCHANGED <<ingests, kills>>
        BY <1>7 DEF DropCollection, Recreate, LeaveClear, ForgetHashes
      <3>4. /\ exists' = exists \/ exists' = TRUE \/ exists' = FALSE
            /\ torn' = torn \/ torn' = TRUE
            /\ halfCleared' = halfCleared \/ halfCleared' = FALSE
        BY <1>7 DEF DropCollection, Recreate, LeaveClear, ForgetHashes
      <3>5. exists' \in BOOLEAN /\ torn' \in BOOLEAN /\ halfCleared' \in BOOLEAN
            /\ halfWritten' \in BOOLEAN
        BY <1>3, <3>2, <3>4 DEF StoreTypes
      <3>6. revision' \in Nat /\ generation' \in Nat
        BY <1>3, <3>1, <3>3 DEF StoreTypes
      <3> QED BY <1>3, <2>3, <3>3, <3>5, <3>6 DEF StoreTypes
    <2>5. CollectionExists'
      <3>1. ~exists' => stored' = {}
        BY <1>7 DEF DropCollection, Recreate, LeaveClear, ForgetHashes, StoreInv, CollectionExists
      <3> QED BY <2>3, <3>1 DEF CollectionExists, Idle
    <2>6. RememberedChunksAreStored'
      BY <2>3 DEF RememberedChunksAreStored, Trusted, Idle
    <2> QED BY <2>3, <2>4, <2>5, <2>6 DEF StoreInv
  <1>8. ASSUME SaveEmpty(b) PROVE StoreInv'
    <2>1. /\ Become(b, Idle) /\ r.pc = "empty" /\ hashFile' = {} /\ torn' = FALSE
          /\ UNCHANGED <<exists, generation, stored, revision, halfWritten, halfCleared,
                         ingests, kills>>
      BY <1>8 DEF SaveEmpty, At
    <2>2. StoreTypes'
      BY <1>3, <1>5, <2>1 DEF StoreTypes
    <2>3. CollectionExists'
      BY <1>5, <2>1 DEF CollectionExists, StoreInv, Idle
    <2>4. RememberedChunksAreStored'
      BY <1>5, <2>1 DEF StoreInv, RememberedChunksAreStored, Trusted, Idle
    <2> QED BY <1>5, <2>1, <2>2, <2>3, <2>4 DEF StoreInv
  <1>9. ASSUME Kill(b) PROVE StoreInv'
    <2>1. /\ Become(b, Idle) /\ kills < MaxKills /\ kills' = kills + 1
          /\ halfWritten' \in BOOLEAN /\ halfCleared' \in BOOLEAN
          /\ halfCleared' = (halfCleared \/ r.pc \in {"recreate", "clearLeave", "forget"})
          /\ UNCHANGED <<exists, generation, stored, hashFile, torn, revision, ingests>>
      BY <1>9 DEF Kill
    <2>2. StoreTypes'
      <3>1. kills' \in 0..MaxKills
        BY <1>3, <2>1 DEF StoreTypes
      <3> QED BY <1>3, <1>5, <2>1, <3>1 DEF StoreTypes
    <2>3. CollectionExists'
      BY <1>5, <2>1 DEF CollectionExists, StoreInv, Idle
    <2>4. RememberedChunksAreStored'
      <3> SUFFICES ASSUME ~halfCleared, r.pc \notin {"recreate", "clearLeave", "forget"}
                   PROVE  RememberedChunksAreStored'
        BY <2>1 DEF RememberedChunksAreStored
      <3>1. \/ hashFile \subseteq stored
            \/ \E a \in Builders \ {b} : builder[a].pc \in {"recreate", "clearLeave", "forget"}
        BY DEF StoreInv, RememberedChunksAreStored
      <3>2. \A a \in Builders : Trusted(a)' \subseteq stored
        <4>1. \A a \in Builders : Trusted(a) \subseteq stored
          BY DEF StoreInv, RememberedChunksAreStored
        <4>2. Trusted(b)' = {}
          BY <1>5, <2>1 DEF Trusted, Idle
        <4>3. \A a \in Builders \ {b} : Trusted(a)' = Trusted(a)
          BY <1>5, <2>1 DEF Trusted
        <4> QED BY <4>1, <4>2, <4>3
      <3> QED BY <1>5, <2>1, <3>1, <3>2 DEF RememberedChunksAreStored
    <2> QED BY <1>5, <2>1, <2>2, <2>3, <2>4 DEF StoreInv
  <1> QED BY <1>6, <1>7, <1>8, <1>9

(* A store starts with the hashes of what it holds.                        *)
LEMMA StoreInitEstablishes == StoreInit => StoreInv
  <1> SUFFICES ASSUME StoreInit PROVE StoreInv
    OBVIOUS
  <1>1. stored \in SUBSET Chunks /\ hashFile = stored
    BY StoreAssumption DEF StoreInit
  <1>2. StoreTypes
    <2>1. generation \in Nat /\ revision \in Nat /\ ingests \in 0..MaxIngests /\ kills \in 0..MaxKills
      BY StoreAssumption DEF StoreInit
    <2>2. exists \in BOOLEAN /\ torn \in BOOLEAN /\ halfWritten \in BOOLEAN /\ halfCleared \in BOOLEAN
      BY DEF StoreInit
    <2>3. builder \in [Builders -> BuilderRecords]
      BY IdleRecord DEF StoreInit
    <2> QED BY <1>1, <2>1, <2>2, <2>3 DEF StoreTypes
  <1>3. BuildersAreConsistent /\ ClearsAreAlone /\ CollectionExists
    BY IdleRecord DEF StoreInit, BuildersAreConsistent, ClearsAreAlone, CollectionExists,
       Clearing, At, Idle
  <1>4. RememberedChunksAreStored
    BY <1>1 DEF StoreInit, RememberedChunksAreStored, Trusted, Idle
  <1> QED BY <1>2, <1>3, <1>4 DEF StoreInv

(* Every step of the store preserves its invariant.                        *)
LEMMA StorePreserves == StoreInv /\ [StoreNext]_storeVars => StoreInv'
  <1> SUFFICES ASSUME StoreInv, [StoreNext]_storeVars PROVE StoreInv'
    OBVIOUS
  <1>1. CASE UNCHANGED storeVars
    BY <1>1 DEF storeVars, StoreInv, StoreTypes, BuildersAreConsistent, ClearsAreAlone,
       CollectionExists, RememberedChunksAreStored, Trusted, Clearing, At
  <1>2. CASE StoreNext
    BY <1>2, IngestionSteps, OpenStep, ClearSteps DEF StoreNext
  <1> QED BY <1>1, <1>2

(* What a step of a writer means to the readers: a publication makes every *)
(* older revision stale, and no other step changes the store and is quiet  *)
(* afterwards.                                                             *)
LEMMA QuietStoreIsUnwritten ==
    ASSUME StoreInv, [StoreNext]_storeVars
    PROVE  /\ revision' = revision \/ revision' = revision + 1
           /\ (Quiet' /\ revision' = revision) =>
                 /\ Quiet /\ stored' = stored
                 /\ UNCHANGED <<exists, generation>> \/ stored = {}
  <1> DEFINE Calm == (Quiet' /\ revision' = revision) =>
                 /\ Quiet /\ stored' = stored
                 /\ UNCHANGED <<exists, generation>> \/ stored = {}
             Told == revision' = revision \/ revision' = revision + 1
  <1>1. CASE UNCHANGED storeVars
    BY <1>1 DEF storeVars, Quiet, Inside
  <1>2. ASSUME NEW b \in Builders, Publish PROVE Told /\ Calm
    BY <1>2 DEF Publish, StoreInv, StoreTypes
  <1>3. ASSUME NEW b \in Builders, NEW x, Become(b, x), x.writing = builder[b].writing,
               \/ x.pc = builder[b].pc
               \/ {x.pc, builder[b].pc} \cap {"drop", "recreate", "clearLeave"} = {},
               UNCHANGED <<revision, halfWritten, stored>>,
               UNCHANGED <<exists, generation>> \/ stored = {}
        PROVE  Told /\ Calm
    BY <1>3 DEF Become, Quiet, Inside, StoreInv, StoreTypes
  <1>4. ASSUME NEW b \in Builders,
               \/ \E doc \in Documents : Open(b, doc)
               \/ FillBatch(b) \/ TruncateHashes(b) \/ DumpHashes(b)
               \/ ForgetHashes(b) \/ SaveEmpty(b)
        PROVE  Told /\ Calm
    <2>1. builder[b] \in BuilderRecords /\ Consistent(builder[b])
      BY OwnRecord
    <2>2. /\ UNCHANGED <<revision, halfWritten, stored>>
          /\ UNCHANGED <<exists, generation>> \/ stored = {}
      BY <1>4 DEF Open, Connect, FillBatch, TruncateHashes, DumpHashes, ForgetHashes, SaveEmpty,
         StoreInv, CollectionExists
    <2>3. /\ builder[b].pc \in {"idle", "scan", "save", "dump", "forget", "empty"}
          /\ builder[b].pc # "scan" => ~builder[b].writing
      BY <1>4, <2>1 DEF Open, FillBatch, TruncateHashes, DumpHashes, ForgetHashes, SaveEmpty, At,
         Consistent, Idle
    <2>4. \E x : /\ Become(b, x) /\ x.writing = builder[b].writing
                 /\ x.pc \in {"idle", "scan", "enter", "write", "dump", "empty"}
      <3> DEFINE Fits(x) == /\ x.writing = builder[b].writing
                            /\ x.pc \in {"idle", "scan", "enter", "write", "dump", "empty"}
      <3>1. CASE \E doc \in Documents : Open(b, doc)
        <4>1. PICK doc \in Documents :
                 Become(b, [Idle EXCEPT !.pc = "scan", !.known = hashFile,
                                        !.document = doc, !.left = doc])
          BY <3>1 DEF Open
        <4>2. Fits([Idle EXCEPT !.pc = "scan", !.known = hashFile,
                                !.document = doc, !.left = doc])
          BY <3>1, <2>1 DEF Open, At, Consistent, Idle
        <4> QED BY <4>1, <4>2
      <3>2. CASE FillBatch(b)
        <4> DEFINE r == builder[b]
        <4>1. PICK batch :
               Become(b, [r EXCEPT !.pc = IF r.writing THEN "write" ELSE "enter",
                                   !.known = @ \cup batch, !.left = @ \ batch, !.batch = batch])
          BY <3>2 DEF FillBatch
        <4>2. Fits([r EXCEPT !.pc = IF r.writing THEN "write" ELSE "enter",
                             !.known = @ \cup batch, !.left = @ \ batch, !.batch = batch])
          BY <2>1 DEF BuilderRecords
        <4> QED BY <4>1, <4>2
      <3>3. CASE TruncateHashes(b) \/ ForgetHashes(b)
        <4>1. PICK p \in {"dump", "empty"} : Become(b, [builder[b] EXCEPT !.pc = p])
          BY <3>3 DEF TruncateHashes, ForgetHashes, Goto
        <4>2. Fits([builder[b] EXCEPT !.pc = p])
          BY <2>1 DEF BuilderRecords
        <4> QED BY <4>1, <4>2
      <3>4. CASE DumpHashes(b) \/ SaveEmpty(b)
        <4>1. Become(b, Idle) /\ ~builder[b].writing
          BY <3>4, <2>3 DEF DumpHashes, SaveEmpty, At
        <4>2. Fits(Idle)
          BY <2>1, <4>1 DEF BuilderRecords, Idle
        <4> QED BY <4>1, <4>2
      <3> QED BY <1>4, <3>1, <3>2, <3>3, <3>4
    <2> QED BY <1>3, <2>2, <2>3, <2>4
  <1>5. ASSUME NEW b \in Builders, LeaveWrite(b) PROVE Told /\ Calm
    <2>1. CASE builder[b].writing
      BY <1>2, <1>5, <2>1 DEF LeaveWrite
    <2>2. CASE ~builder[b].writing
      <3> DEFINE x == [builder[b] EXCEPT !.pc = "save", !.writing = FALSE]
      <3>1. builder[b] \in BuilderRecords
        BY OwnRecord
      <3>2. x.pc = "save" /\ x.writing = builder[b].writing
        BY <2>2, <3>1 DEF BuilderRecords
      <3>3. Become(b, x) /\ builder[b].pc = "scan"
            /\ UNCHANGED <<revision, halfWritten, stored, exists, generation>>
        BY <1>5, <2>2 DEF LeaveWrite, At
      <3> HIDE DEF x
      <3> QED BY <1>3, <3>2, <3>3
    <2> QED BY <2>1, <2>2
  <1>6. ASSUME NEW b \in Builders,
               WriteBatch(b) \/ FailBatch(b) \/ DropCollection(b) \/ Recreate(b)
        PROVE Told /\ Calm
    <2>1. Inside(b)'
      <3>1. builder[b] \in BuilderRecords /\ Consistent(builder[b]) /\ builder' \in [Builders -> BuilderRecords]
        BY <1>6, OwnRecord, IngestionSteps, ClearSteps DEF StoreInv, StoreTypes
      <3>2. CASE WriteBatch(b)
        BY <3>1, <3>2 DEF WriteBatch, At, Consistent, Inside, Become, BuilderRecords, StoreInv,
           StoreTypes
      <3>3. CASE FailBatch(b)
        BY <3>1, <3>3 DEF FailBatch, At, Consistent, Inside, Become, BuilderRecords, StoreInv,
           StoreTypes
      <3>4. CASE DropCollection(b) \/ Recreate(b)
        BY <3>1, <3>4 DEF DropCollection, Recreate, Goto, Inside, Become, BuilderRecords, StoreInv,
           StoreTypes
      <3> QED BY <1>6, <3>2, <3>3, <3>4
    <2>2. revision' = revision
      BY <1>6 DEF WriteBatch, FailBatch, DropCollection, Recreate
    <2> QED BY <2>1, <2>2 DEF Quiet
  <1>7. ASSUME NEW b \in Builders, Enter(b) \/ StartClear(b) \/ LeaveClear(b)
        PROVE Told /\ Calm
    BY <1>2, <1>7 DEF Enter, StartClear, LeaveClear
  <1>8. ASSUME NEW b \in Builders, Kill(b) PROVE Told /\ Calm
    <2>1. /\ builder' = [builder EXCEPT ![b] = Idle]
          /\ halfWritten' = (halfWritten \/ Inside(b))
          /\ UNCHANGED <<exists, generation, stored, revision>>
      BY <1>8 DEF Kill, Become
    <2>2. ASSUME Quiet' PROVE Quiet
      <3>1. ~halfWritten /\ ~Inside(b)
        BY <2>1, <2>2 DEF Quiet
      <3>2. \A a \in Builders \ {b} : ~Inside(a)
        BY <2>1, <2>2 DEF Quiet, Inside, StoreInv, StoreTypes
      <3> QED BY <3>1, <3>2 DEF Quiet
    <2> QED BY <2>1, <2>2
  <1> QED BY <1>1, <1>4, <1>5, <1>6, <1>7, <1>8 DEF StoreNext

-----------------------------------------------------------------------------
(* The readers.                                                            *)

(* While writers step, readers keep what they have.                        *)
LEMMA WritersKeepReaders ==
    ASSUME StoreInv, ReaderInv, [StoreNext]_storeVars, UNCHANGED readerVars
    PROVE  ReaderInv'
  <1>1. /\ revision \in Nat /\ (revision' = revision \/ revision' = revision + 1)
        /\ (Quiet' /\ revision' = revision) =>
              /\ Quiet /\ stored' = stored
              /\ UNCHANGED <<exists, generation>> \/ stored = {}
    BY QuietStoreIsUnwritten DEF StoreInv, StoreTypes
  <1>2. 0..revision \subseteq 0..revision'
    BY <1>1
  <1>3. ReaderTypes'
    <2>1. ReaderTypes /\ UNCHANGED readerVars
      BY DEF ReaderInv
    <2>2. corpusRevision' \in 0..revision' \cup {None}
      BY <1>2, <2>1 DEF ReaderTypes, readerVars
    <2>3. refresh' \in [revision : 0..revision' \cup {None}, attempt : 0..RefreshAttempts,
                        handle : Nat]
      BY <1>2, <2>1 DEF ReaderTypes, readerVars
    <2>4. ask' \in [Questions -> [revision : 0..revision' \cup {None},
                                  origin : {None, "index", "boot"}, found : SUBSET Chunks]]
      BY <1>2, <2>1 DEF ReaderTypes, readerVars
    <2>5. cache' \subseteq [revision : 0..revision', origin : {"index", "boot"},
                            found : SUBSET Chunks]
      BY <1>2, <2>1 DEF ReaderTypes, readerVars
    <2> QED BY <2>1, <2>2, <2>3, <2>4, <2>5 DEF ReaderTypes, readerVars
  <1>4. CASE revision' = revision
    <2>1. RefreshSeesTheStore'
      BY <1>1, <1>4 DEF ReaderInv, RefreshSeesTheStore, readerVars
    <2>2. PendingResultsAreCurrent' /\ LoadedCorpusIsCurrent' /\ CachedResultsAreCurrent'
      BY <1>1, <1>4 DEF ReaderInv, PendingResultsAreCurrent, LoadedCorpusIsCurrent,
         CachedResultsAreCurrent, readerVars
    <2> QED BY <1>3, <2>1, <2>2 DEF ReaderInv
  <1>5. CASE revision' = revision + 1
    <2>1. \A x \in 0..revision \cup {None} : x # revision'
      BY <1>1, <1>5, ReadersAssumption
    <2>2. RefreshSeesTheStore' /\ LoadedCorpusIsCurrent'
      BY <2>1 DEF ReaderInv, ReaderTypes, RefreshSeesTheStore, LoadedCorpusIsCurrent, readerVars
    <2>3. PendingResultsAreCurrent' /\ CachedResultsAreCurrent'
      BY <2>1 DEF ReaderInv, ReaderTypes, PendingResultsAreCurrent, CachedResultsAreCurrent,
         readerVars
    <2> QED BY <1>3, <2>2, <2>3 DEF ReaderInv
  <1> QED BY <1>1, <1>4, <1>5

(* The refresh of the hybrid retriever.                                    *)
LEMMA RefreshKeepsReaders ==
    ASSUME StoreInv, ReaderInv,
           ReadRevision \/ GetCollection \/ LoadDocuments \/ CollectionIsMissing
    PROVE  ReaderInv'
  <1>1. /\ UNCHANGED storeVars /\ UNCHANGED <<service, ask, cache>>
        /\ Quiet' = Quiet
    BY DEF ReadRevision, GetCollection, LoadDocuments, CollectionIsMissing, storeVars, Quiet,
           Inside
  <1>2. PendingResultsAreCurrent' /\ CachedResultsAreCurrent'
    BY <1>1 DEF ReaderInv, PendingResultsAreCurrent, CachedResultsAreCurrent, storeVars
  <1>3. StoreTypes /\ ReaderTypes
    BY DEF StoreInv, ReaderInv
  <1>4. ASSUME /\ corpus' \in SUBSET Chunks
               /\ corpusRevision' \in 0..revision \cup {None}
               /\ refresh' \in [revision : 0..revision \cup {None},
                                 attempt : 0..RefreshAttempts, handle : Nat]
        PROVE  ReaderTypes'
    BY <1>1, <1>3, <1>4 DEF ReaderTypes, storeVars
  <1>5. CASE ReadRevision
    <2>1. /\ refresh' = [revision |-> revision, attempt |-> 1, handle |-> 0]
          /\ UNCHANGED <<corpus, corpusRevision>>
      BY <1>5 DEF ReadRevision
    <2>2. ReaderTypes'
      BY <1>3, <1>4, <2>1, ReadersAssumption DEF ReaderTypes, StoreTypes
    <2>3. RefreshSeesTheStore' /\ LoadedCorpusIsCurrent'
      BY <1>1, <2>1 DEF RefreshSeesTheStore, LoadedCorpusIsCurrent, ReaderInv, storeVars
    <2> QED BY <1>2, <2>2, <2>3 DEF ReaderInv
  <1>6. CASE GetCollection
    <2>1. /\ refresh' = [refresh EXCEPT !.handle = generation] /\ exists
          /\ UNCHANGED <<corpus, corpusRevision>>
      BY <1>6 DEF GetCollection
    <2>2. ReaderTypes' /\ refresh'.handle = generation
      BY <1>3, <1>4, <2>1 DEF ReaderTypes, StoreTypes
    <2>3. RefreshSeesTheStore' /\ LoadedCorpusIsCurrent'
      BY <1>1, <2>1, <2>2 DEF RefreshSeesTheStore, LoadedCorpusIsCurrent, ReaderInv, storeVars
    <2> QED BY <1>2, <2>2, <2>3 DEF ReaderInv
  <1>7. ASSUME corpus' \in SUBSET Chunks, refresh' = NoRefresh, refresh # NoRefresh,
               corpusRevision' = refresh.revision,
               Quiet /\ refresh.revision = revision => corpus' = stored
        PROVE  ReaderInv'
    <2>1. ReaderTypes'
      <3>1. NoRefresh \in [revision : 0..revision \cup {None}, attempt : 0..RefreshAttempts,
                           handle : Nat]
        BY ReadersAssumption DEF NoRefresh
      <3> QED BY <1>3, <1>4, <1>7, <3>1 DEF ReaderTypes
    <2>2. RefreshSeesTheStore'
      BY <1>7 DEF RefreshSeesTheStore
    <2>3. LoadedCorpusIsCurrent'
      BY <1>1, <1>7 DEF LoadedCorpusIsCurrent, storeVars
    <2> QED BY <1>2, <2>1, <2>2, <2>3 DEF ReaderInv
  <1>8. CASE LoadDocuments
    BY <1>3, <1>7, <1>8 DEF LoadDocuments, StoreTypes
  <1>9. CASE CollectionIsMissing /\ refresh.attempt < RefreshAttempts
    <2>1. /\ refresh' = [refresh EXCEPT !.attempt = @ + 1, !.handle = 0]
          /\ UNCHANGED <<corpus, corpusRevision>>
      BY <1>9 DEF CollectionIsMissing
    <2>2. refresh.attempt + 1 \in 0..RefreshAttempts
      BY <1>3, <1>9, ReadersAssumption DEF ReaderTypes
    <2>3. ReaderTypes' /\ refresh'.handle = 0
      BY <1>3, <1>4, <2>1, <2>2 DEF ReaderTypes
    <2>4. RefreshSeesTheStore' /\ LoadedCorpusIsCurrent'
      BY <1>1, <2>1, <2>3 DEF RefreshSeesTheStore, LoadedCorpusIsCurrent, ReaderInv, storeVars
    <2> QED BY <1>2, <2>3, <2>4 DEF ReaderInv
  <1>10. CASE CollectionIsMissing /\ ~(refresh.attempt < RefreshAttempts)
    <2>1. /\ corpus' = {} /\ corpusRevision' = refresh.revision
          /\ refresh' = NoRefresh /\ refresh # NoRefresh
          /\ IF refresh.handle = 0 THEN ~exists ELSE ~(exists /\ refresh.handle = generation)
      BY <1>10 DEF CollectionIsMissing
    <2>2. Quiet /\ refresh.revision = revision => stored = {}
      BY <2>1 DEF ReaderInv, RefreshSeesTheStore, StoreInv, CollectionExists
    <2> QED BY <1>7, <2>1, <2>2
  <1> QED BY <1>5, <1>6, <1>8, <1>9, <1>10

(* The service and its cache.                                              *)
LEMMA ServiceKeepsReaders ==
    ASSUME StoreInv, ReaderInv,
           \/ StartService \/ StopService
           \/ \E q \in Questions :
                 Ask(q) \/ QueryCollection(q) \/ LookUpAtBoot(q) \/ QueryFails(q)
                 \/ StoreResult(q)
           \/ \E e \in cache : Evict(e)
    PROVE  ReaderInv'
  <1> DEFINE Asks == [revision : 0..revision \cup {None},
                      origin : {None, "index", "boot"}, found : SUBSET Chunks]
             Results == [revision : 0..revision, origin : {"index", "boot"},
                         found : SUBSET Chunks]
  <1>1. /\ UNCHANGED storeVars /\ UNCHANGED <<corpus, corpusRevision, refresh>>
        /\ Quiet' = Quiet
    <2>1. UNCHANGED storeVars /\ UNCHANGED <<corpus, corpusRevision, refresh>>
      BY DEF StartService, StopService, Ask, QueryCollection, LookUpAtBoot, QueryFails,
             StoreResult, Evict
    <2> QED BY <2>1 DEF storeVars, Quiet, Inside
  <1>2. RefreshSeesTheStore' /\ LoadedCorpusIsCurrent'
    BY <1>1 DEF ReaderInv, RefreshSeesTheStore, LoadedCorpusIsCurrent, storeVars
  <1>3. /\ StoreTypes /\ ReaderTypes
        /\ service \in [up : BOOLEAN, handle : Nat, boot : SUBSET Chunks]
        /\ ask \in [Questions -> Asks] /\ cache \subseteq Results
    BY DEF StoreInv, ReaderInv, ReaderTypes
  <1>4. ASSUME service' \in [up : BOOLEAN, handle : Nat, boot : SUBSET Chunks],
               ask' \in [Questions -> Asks],
               \A q \in Questions : ask'[q] = ask[q] \/ ask'[q] = NoAsk \/
                  /\ ask'[q].revision # None
                  /\ Quiet => ask'[q].origin # "index" \/ ask'[q].found = stored,
               cache' \subseteq Results,
               \A e \in cache' : e \in cache \/ \E q \in Questions : e = ask[q]
        PROVE  ReaderInv'
    <2>1. NoAsk.revision = None /\ NoAsk.origin = None
      BY DEF NoAsk
    <2>2. ReaderTypes'
      BY <1>1, <1>3, <1>4, <2>1 DEF ReaderTypes, storeVars
    <2>3. PendingResultsAreCurrent'
      <3> SUFFICES ASSUME Quiet, NEW q \in Questions, ask'[q].revision = revision,
                          ask'[q].origin = "index"
                   PROVE  ask'[q].found = stored
        BY <1>1 DEF PendingResultsAreCurrent, storeVars
      <3>1. ask'[q] # NoAsk
        BY <2>1, ReadersAssumption
      <3> QED BY <1>4, <3>1 DEF ReaderInv, PendingResultsAreCurrent
    <2>4. CachedResultsAreCurrent'
      <3> SUFFICES ASSUME Quiet, NEW e \in cache', e.revision = revision, e.origin = "index"
                   PROVE  e.found = stored
        BY <1>1 DEF CachedResultsAreCurrent, storeVars
      <3> QED BY <1>4 DEF ReaderInv, PendingResultsAreCurrent, CachedResultsAreCurrent
    <2> QED BY <1>2, <2>2, <2>3, <2>4 DEF ReaderInv
  <1>5. NoAsk \in Asks
    BY DEF NoAsk
  <1>6. CASE StartService
    BY <1>3, <1>4, <1>6 DEF StartService, StoreTypes
  <1>7. CASE StopService
    <2>1. NoService \in [up : BOOLEAN, handle : Nat, boot : SUBSET Chunks]
      BY DEF NoService
    <2> QED BY <1>3, <1>4, <1>5, <1>7, <2>1 DEF StopService
  <1>8. ASSUME NEW q \in Questions, Ask(q) PROVE ReaderInv'
    <2> DEFINE a == [ask[q] EXCEPT !.revision = revision]
    <2>1. /\ ask' = [ask EXCEPT ![q].revision = revision] /\ UNCHANGED <<service, cache>>
          /\ ask[q] = NoAsk
      BY <1>8 DEF Ask
    <2>2. a \in Asks /\ a.revision # None /\ a.origin # "index"
      BY <1>3, <1>5, <2>1, ReadersAssumption DEF NoAsk, StoreTypes
    <2>3. ask'[q] = a /\ (\A p \in Questions \ {q} : ask'[p] = ask[p])
          /\ ask' \in [Questions -> Asks]
      BY <1>3, <2>1, <2>2
    <2> HIDE DEF a
    <2> QED BY <1>3, <1>4, <2>1, <2>2, <2>3
  <1>9. ASSUME NEW q \in Questions, NEW from \in {"index", "boot"}, NEW found \in SUBSET Chunks,
               ask[q].revision # None,
               ask' = [ask EXCEPT ![q].origin = from, ![q].found = found],
               from = "index" => found = stored,
               UNCHANGED <<service, cache>>
        PROVE  ReaderInv'
    <2> DEFINE a == [ask[q] EXCEPT !.origin = from, !.found = found]
    <2>1. a \in Asks /\ a.revision # None /\ (a.origin = "index" => a.found = stored)
      BY <1>3, <1>9
    <2>2. ask' = [ask EXCEPT ![q] = a]
      BY <1>3, <1>9
    <2> HIDE DEF a
    <2>3. ask'[q] = a /\ (\A p \in Questions \ {q} : ask'[p] = ask[p])
          /\ ask' \in [Questions -> Asks]
      BY <1>3, <2>1, <2>2
    <2> QED BY <1>3, <1>4, <1>9, <2>1, <2>3
  <1>10. ASSUME NEW q \in Questions, QueryCollection(q) \/ LookUpAtBoot(q) PROVE ReaderInv'
    BY <1>3, <1>9, <1>10 DEF QueryCollection, LookUpAtBoot, StoreTypes
  <1>11. ASSUME NEW q \in Questions, QueryFails(q) \/ StoreResult(q) PROVE ReaderInv'
    <2>1. /\ ask' = [ask EXCEPT ![q] = NoAsk] /\ UNCHANGED service
          /\ cache' = cache \/ (ask[q].origin # None /\ ask[q].revision = revision
                                   /\ cache' = {ask[q]})
      BY <1>11 DEF QueryFails, StoreResult
    <2>2. cache' \subseteq Results
      BY <1>3, <2>1 DEF StoreTypes
    <2> QED BY <1>3, <1>4, <1>5, <2>1, <2>2
  <1>12. ASSUME NEW e \in cache, Evict(e) PROVE ReaderInv'
    BY <1>3, <1>4, <1>12 DEF Evict
  <1> QED BY <1>6, <1>7, <1>8, <1>10, <1>11, <1>12

-----------------------------------------------------------------------------

(* The initial states satisfy the invariant.                               *)
LEMMA InitEstablishes == Init => IInv
  <1> SUFFICES ASSUME Init PROVE IInv
    OBVIOUS
  <1>1. StoreInv
    BY StoreInitEstablishes DEF Init
  <1>2. ReaderTypes
    BY ReadersAssumption, <1>1
       DEF Init, ReaderTypes, NoRefresh, NoService, NoAsk, StoreInv, StoreTypes
  <1>3. RefreshSeesTheStore /\ LoadedCorpusIsCurrent
    BY ReadersAssumption, <1>1 DEF Init, RefreshSeesTheStore, LoadedCorpusIsCurrent, StoreInv,
       StoreTypes
  <1>4. PendingResultsAreCurrent /\ CachedResultsAreCurrent
    BY ReadersAssumption DEF Init, PendingResultsAreCurrent, CachedResultsAreCurrent, NoAsk
  <1> QED BY <1>1, <1>2, <1>3, <1>4 DEF IInv, ReaderInv

(* Every step preserves the invariant.                                     *)
LEMMA StepPreserves == IInv /\ [Next]_vars => IInv'
  <1> SUFFICES ASSUME IInv, [Next]_vars PROVE IInv'
    OBVIOUS
  <1>1. CASE [StoreNext]_storeVars /\ UNCHANGED readerVars
    BY <1>1, StorePreserves, WritersKeepReaders DEF IInv
  <1>2. CASE ReaderNext
    <2>1. UNCHANGED storeVars
      BY <1>2 DEF ReaderNext, ReadRevision, GetCollection, LoadDocuments, CollectionIsMissing,
         StartService, StopService, Ask, QueryCollection, LookUpAtBoot, QueryFails, StoreResult,
         Evict
    <2>2. StoreInv'
      BY <2>1, StorePreserves DEF IInv
    <2>3. ReaderInv'
      BY <1>2, RefreshKeepsReaders, ServiceKeepsReaders DEF IInv, ReaderNext
    <2> QED BY <2>2, <2>3 DEF IInv
  <1> QED BY <1>1, <1>2 DEF Next, vars

(* The invariant holds in every reachable state.                           *)
LEMMA IInvHolds == Spec => []IInv
  BY InitEstablishes, StepPreserves, PTL DEF Spec

(* The remembered hashes are true and a clean ingestion is complete: a     *)
(* chunk that a hash file or a running builder would skip is stored,       *)
(* across batches that fail, builders that overwrite each other's file,    *)
(* clears and kills; for any documents, builders and batch size.           *)
THEOREM TrustedHashesAreTrue == Spec => HashesAreTrue
  <1>1. IInv => StoreTypeOK /\ RememberedChunksAreStored
    BY DEF IInv, StoreInv, StoreTypes, StoreTypeOK, BuilderRecords, PCs, BuildersAreConsistent,
           Consistent
  <1>2. ASSUME IInv, [Next]_vars, NEW b \in Builders,
               At(b, "dump") /\ builder'[b].pc = "idle" /\ kills' = kills,
               ~builder[b].failed /\ ~halfCleared
        PROVE  builder[b].document \ Structural \subseteq stored'
    <2>1. StoreInv /\ Consistent(builder[b]) /\ builder[b].pc = "dump"
      BY <1>2 DEF IInv, StoreInv, BuildersAreConsistent, At
    <2>2. builder[b].document \ Structural \subseteq Trusted(b)
      BY <1>2, <2>1 DEF Consistent, Trusted
    <2>3. Trusted(b) \subseteq stored
      BY <1>2, <2>1 DEF StoreInv, RememberedChunksAreStored
    <2>4. stored \subseteq stored'
      <3>1. stored' = stored \/ stored \subseteq stored'
              \/ \E a \in Builders : DropCollection(a)
        BY <1>2 DEF Next, vars, storeVars, ReaderNext, ReadRevision, GetCollection, LoadDocuments,
           CollectionIsMissing, StartService, StopService, Ask, QueryCollection, LookUpAtBoot,
           QueryFails, StoreResult, Evict, StoreNext, Open, FillBatch, Enter, WriteBatch,
           FailBatch, LeaveWrite, TruncateHashes, DumpHashes, StartClear, Recreate, LeaveClear,
           ForgetHashes, SaveEmpty, Kill
      <3>2. ASSUME NEW a \in Builders PROVE ~DropCollection(a)
        BY <2>1 DEF DropCollection, StoreInv, ClearsAreAlone, Clearing, At
      <3> QED BY <3>1, <3>2
    <2> QED BY <2>2, <2>3, <2>4
  <1>3. IInv /\ [Next]_vars =>
          [\A b \in Builders :
             At(b, "dump") /\ builder'[b].pc = "idle" /\ kills' = kills
             /\ ~builder[b].failed /\ ~halfCleared
             => builder[b].document \ Structural \subseteq stored']_storeVars
    BY <1>2
  <1> QED BY <1>1, <1>3, IInvHolds, PTL DEF Spec, HashesAreTrue, CleanIngestsAreComplete

(* Readers answer from finished writes: the corpus the hybrid retriever    *)
(* has loaded and the results the service has cached are, under the        *)
(* current revision and with no write under way or broken off, those of    *)
(* the store as it is.                                                     *)
THEOREM ReadersSeeFinishedWrites == Spec => []ReadersSeeTheCorpus
  <1>1. IInv => ReadersSeeTheCorpus
    BY DEF IInv, StoreInv, StoreTypes, StoreTypeOK, BuilderRecords, PCs, BuildersAreConsistent,
           Consistent, ReaderInv, ReaderTypes, TypeOK, ReadersSeeTheCorpus
  <1> QED BY <1>1, IInvHolds, PTL
=============================================================================
