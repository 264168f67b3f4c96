--------------------------- MODULE KnowledgeStore ---------------------------
(***************************************************************************)
(* The writers of one knowledge base: kb/store.py (CourseKnowledgeBase)    *)
(* under scripts/build_kb.py, whose pool builds several documents at once. *)
(*                                                                         *)
(* A knowledge base is a Chroma collection, a JSON file with the hashes of *)
(* the chunks that need not be written again, and a revision file that     *)
(* tells readers when to load anew (shared/kb_revision.py).  Every builder *)
(* is a process with its own copy of the hashes; nothing but the three     *)
(* stores is shared, and a builder may be killed between any two steps.    *)
(* A step is one operation on one of the stores.                           *)
(***************************************************************************)
EXTENDS Integers, FiniteSets

CONSTANTS Chunks,
          Structural,  \* struct and shadow chunks, which are never written
          Documents,   \* the sets of chunks a parsed document can have
          Builders,
          BatchSize,
          MaxIngests, MaxKills

ASSUME StoreAssumption ==
    /\ Structural \subseteq Chunks
    /\ Documents \subseteq SUBSET Chunks
    /\ BatchSize \in Nat \ {0}
    /\ MaxIngests \in Nat /\ MaxKills \in Nat

VARIABLES
    exists,      \* the collection is there
    generation,  \* its identity: a handle on an older one is dead
    stored,      \* the chunks it holds
    hashFile,    \* what _load_hashes makes of <collection>_hashes.json
    torn,        \* the file is not JSON, which loads as empty
    revision,    \* the revision file; every publication is a new value
    builder,     \* what each builder does, and its copy of the hashes
    halfWritten, \* history: a writer died between its two publications
    halfCleared, \* history: a clear died before it emptied the hash file
    ingests, kills

storeVars == <<exists, generation, stored, hashFile, torn, revision, builder,
               halfWritten, halfCleared, ingests, kills>>

Idle == [pc |-> "idle", known |-> {}, document |-> {}, left |-> {},
         batch |-> {}, writing |-> FALSE, failed |-> FALSE]

(* An empty base, or one that an earlier build has left.                  *)
StoreInit ==
    /\ stored \in {{}} \cup {doc \ Structural : doc \in Documents}
    /\ exists = (stored # {})
    /\ generation = IF exists THEN 1 ELSE 0
    /\ hashFile = stored
    /\ torn = FALSE
    /\ revision = 0
    /\ builder = [b \in Builders |-> Idle]
    /\ halfWritten = FALSE
    /\ halfCleared = FALSE
    /\ ingests = 0
    /\ kills = 0

-----------------------------------------------------------------------------

At(b, p) == builder[b].pc = p

Become(b, r) == builder' = [builder EXCEPT ![b] = r]

Goto(b, p) == Become(b, [builder[b] EXCEPT !.pc = p])

(* os.replace of a new uuid: whoever remembers an older one loads again.   *)
Publish ==
    /\ revision' = revision + 1
    /\ halfWritten' = FALSE

(* A builder is between the two publications of knowledge_base_write.      *)
Inside(b) ==
    \/ builder[b].writing
    \/ builder[b].pc \in {"drop", "recreate", "clearLeave"}

Clearing(b) ==
    builder[b].pc \in {"drop", "recreate", "clearLeave", "forget", "empty"}

(* The constructor opens the collection or creates it.                     *)
Connect ==
    /\ exists' = TRUE
    /\ generation' = IF exists THEN generation ELSE generation + 1

(* A document has been parsed, cleaned and chunked; the hashes are read    *)
(* with the collection.  main clears before the pool starts.               *)
Open(b, doc) ==
    /\ At(b, "idle")
    /\ ingests < MaxIngests
    /\ \A a \in Builders : ~Clearing(a)
    /\ Connect
    /\ ingests' = ingests + 1
    /\ Become(b, [Idle EXCEPT !.pc = "scan", !.known = hashFile,
                              !.document = doc, !.left = doc])
    /\ UNCHANGED <<stored, hashFile, torn, revision, halfWritten, halfCleared, kills>>

New(b) == (builder[b].left \ builder[b].known) \ Structural

(* The loop fills a batch: a chunk's hash is remembered as it is picked,   *)
(* before the batch is written.                                            *)
FillBatch(b) ==
    /\ At(b, "scan")
    /\ New(b) # {}
    /\ \E batch \in SUBSET New(b) :
          /\ Cardinality(batch) =
                IF Cardinality(New(b)) < BatchSize THEN Cardinality(New(b))
                                                   ELSE BatchSize
          /\ Become(b, [builder[b] EXCEPT
                !.pc = IF builder[b].writing THEN "write" ELSE "enter",
                !.known = @ \cup batch, !.left = @ \ batch, !.batch = batch])
    /\ UNCHANGED <<exists, generation, stored, hashFile, torn, revision, halfWritten,
                   halfCleared, ingests, kills>>

(* knowledge_base_write is entered once, before the first batch.           *)
Enter(b) ==
    /\ At(b, "enter")
    /\ Publish
    /\ Become(b, [builder[b] EXCEPT !.pc = "write", !.writing = TRUE])
    /\ UNCHANGED <<exists, generation, stored, hashFile, torn, halfCleared, ingests,
                   kills>>

WriteBatch(b) ==
    /\ At(b, "write")
    /\ stored' = stored \cup builder[b].batch
    /\ Become(b, [builder[b] EXCEPT !.pc = "scan", !.batch = {}])
    /\ UNCHANGED <<exists, generation, hashFile, torn, revision, halfWritten,
                   halfCleared, ingests, kills>>

(* Mutant of FailBatch: the except branch does not take the hashes back.   *)
FailBatchKeepingHashes(b) ==
    /\ At(b, "write")
    /\ stored' \in {stored, stored \cup builder[b].batch}
    /\ Become(b, [builder[b] EXCEPT !.pc = "scan", !.batch = {}, !.failed = TRUE])
    /\ UNCHANGED <<exists, generation, hashFile, torn, revision, halfWritten,
                   halfCleared, ingests, kills>>

(* The embedding or the upsert raises: the batch is forgotten, whether or  *)
(* not the store has taken it, and the loop goes on.                       *)
FailBatch(b) ==
    /\ At(b, "write")
    /\ stored' \in {stored, stored \cup builder[b].batch}
    /\ Become(b, [builder[b] EXCEPT !.pc = "scan", !.batch = {},
                     !.known = @ \ builder[b].batch, !.failed = TRUE])
    /\ UNCHANGED <<exists, generation, hashFile, torn, revision, halfWritten,
                   halfCleared, ingests, kills>>

(* Mutant of LeaveWrite: readers are told before the write only.           *)
LeaveSilently(b) ==
    /\ At(b, "scan") /\ New(b) = {}
    /\ Become(b, [builder[b] EXCEPT !.pc = "save", !.writing = FALSE])
    /\ UNCHANGED <<exists, generation, stored, hashFile, torn, revision, halfWritten,
                   halfCleared, ingests, kills>>

(* The end of the loop leaves knowledge_base_write, if it was entered.     *)
LeaveWrite(b) ==
    /\ At(b, "scan") /\ New(b) = {}
    /\ IF builder[b].writing THEN Publish ELSE UNCHANGED <<revision, halfWritten>>
    /\ Become(b, [builder[b] EXCEPT !.pc = "save", !.writing = FALSE])
    /\ UNCHANGED <<exists, generation, stored, hashFile, torn, halfCleared, ingests,
                   kills>>

(* open(.., "w") empties the file in place.                                *)
TruncateHashes(b) ==
    /\ At(b, "save")
    /\ hashFile' = {}
    /\ torn' = TRUE
    /\ Goto(b, "dump")
    /\ UNCHANGED <<exists, generation, stored, revision, halfWritten,
                   halfCleared, ingests, kills>>

(* json.dump; over what another process has dumped meanwhile the result    *)
(* may have a tail of the other's.                                         *)
DumpHashes(b) ==
    /\ At(b, "dump")
    /\ \/ hashFile' = builder[b].known /\ torn' = FALSE
       \/ ~torn /\ hashFile' = {} /\ torn' = TRUE
    /\ Become(b, Idle)
    /\ UNCHANGED <<exists, generation, stored, revision, halfWritten,
                   halfCleared, ingests, kills>>

-----------------------------------------------------------------------------

(* clear: one publication, delete the collection, create it, publish, then *)
(* empty the hash file.                                                    *)
StartClear(b) ==
    /\ \A a \in Builders : At(a, "idle")
    /\ ingests < MaxIngests
    /\ Connect
    /\ Publish
    /\ ingests' = ingests + 1
    /\ Goto(b, "drop")
    /\ UNCHANGED <<stored, hashFile, torn, halfCleared, kills>>

DropCollection(b) ==
    /\ At(b, "drop")
    /\ exists' = FALSE
    /\ stored' = {}
    /\ Goto(b, "recreate")
    /\ UNCHANGED <<generation, hashFile, torn, revision, halfWritten, halfCleared,
                   ingests, kills>>

Recreate(b) ==
    /\ At(b, "recreate")
    /\ exists' = TRUE
    /\ generation' = generation + 1
    /\ Goto(b, "clearLeave")
    /\ UNCHANGED <<stored, hashFile, torn, revision, halfWritten, halfCleared, ingests,
                   kills>>

LeaveClear(b) ==
    /\ At(b, "clearLeave")
    /\ Publish
    /\ Goto(b, "forget")
    /\ UNCHANGED <<exists, generation, stored, hashFile, torn, halfCleared, ingests,
                   kills>>

(* Mutant of ForgetHashes: only the builder's own copy is emptied.         *)
ForgetOwnCopy(b) ==
    /\ At(b, "forget")
    /\ halfCleared' = FALSE
    /\ Become(b, Idle)
    /\ UNCHANGED <<exists, generation, stored, hashFile, torn, revision, halfWritten,
                   ingests, kills>>

ForgetHashes(b) ==
    /\ At(b, "forget")
    /\ hashFile' = {}
    /\ torn' = TRUE
    /\ halfCleared' = FALSE
    /\ Goto(b, "empty")
    /\ UNCHANGED <<exists, generation, stored, revision, halfWritten, ingests,
                   kills>>

SaveEmpty(b) ==
    /\ At(b, "empty")
    /\ hashFile' = {}
    /\ torn' = FALSE
    /\ Become(b, Idle)
    /\ UNCHANGED <<exists, generation, stored, revision, halfWritten,
                   halfCleared, ingests, kills>>

(* The process dies: no finally runs and its hashes are gone.              *)
Kill(b) ==
    /\ ~At(b, "idle")
    /\ kills < MaxKills
    /\ kills' = kills + 1
    /\ halfWritten' = (halfWritten \/ Inside(b))
    /\ halfCleared' = (halfCleared \/
          builder[b].pc \in {"recreate", "clearLeave", "forget"})
    /\ Become(b, Idle)
    /\ UNCHANGED <<exists, generation, stored, hashFile, torn, revision, ingests>>

StoreNext ==
    \E b \in Builders :
       \/ \E doc \in Documents : Open(b, doc)
       \/ FillBatch(b) \/ Enter(b) \/ WriteBatch(b) \/ FailBatch(b)
       \/ LeaveWrite(b) \/ TruncateHashes(b) \/ DumpHashes(b)
       \/ StartClear(b) \/ DropCollection(b) \/ Recreate(b) \/ LeaveClear(b)
       \/ ForgetHashes(b) \/ SaveEmpty(b) \/ Kill(b)

-----------------------------------------------------------------------------

StoreTypeOK ==
    /\ exists \in BOOLEAN
    /\ generation \in Nat /\ revision \in Nat
    /\ stored \subseteq Chunks
    /\ hashFile \subseteq Chunks /\ torn \in BOOLEAN
    /\ halfWritten \in BOOLEAN /\ halfCleared \in BOOLEAN
    /\ \A b \in Builders :
          /\ builder[b].pc \in {"idle", "scan", "enter", "write", "save", "dump",
                "drop", "recreate", "clearLeave", "forget", "empty"}
          /\ builder[b].known \subseteq Chunks
          /\ builder[b].batch \subseteq builder[b].known
          /\ builder[b].left \subseteq builder[b].document
    /\ ingests \in 0..MaxIngests /\ kills \in 0..MaxKills

(* What a builder takes for written.  A hash is remembered before its      *)
(* batch is written, so the batch in hand is not counted.                  *)
Trusted(b) == builder[b].known \ builder[b].batch

(* A chunk that some hash file or running builder would skip is in the     *)
(* store: across batches that fail, builders that overwrite each other's   *)
(* file and processes that die, unless a clear died half-way.              *)
RememberedChunksAreStored ==
    ~halfCleared =>
       /\ hashFile \subseteq stored \/ \E b \in Builders : builder[b].pc \in
             {"recreate", "clearLeave", "forget"}
       /\ \A b \in Builders : Trusted(b) \subseteq stored

(* An ingestion that ends without an error has left every semantic chunk   *)
(* of its document in the store, whatever other builders and earlier       *)
(* attempts have done.                                                     *)
CleanIngestsAreComplete ==
    [][\A b \in Builders :
         At(b, "dump") /\ builder'[b].pc = "idle" /\ kills' = kills
         /\ ~builder[b].failed /\ ~halfCleared
         => builder[b].document \ Structural \subseteq stored']_storeVars

(* The hashes that kb/store.py trusts in order to skip a chunk are true:   *)
(* a remembered chunk is stored, and an ingestion that reports success     *)
(* has stored its document.                                                *)
HashesAreTrue == [](StoreTypeOK /\ RememberedChunksAreStored) /\ CleanIngestsAreComplete

=============================================================================
