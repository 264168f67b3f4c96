--------------------------- MODULE IndexPromotion ---------------------------
(***************************************************************************)
(* Promotion of the frozen retrieval candidate to a production index       *)
(* (scripts/promote_retrieval_index.py): the bundle of chunks and the      *)
(* manifest of its vector index are checked against hashes in the script,  *)
(* read again, joined with the source pages and the vectors, written to a  *)
(* temporary directory, read back, and renamed to the output directory.    *)
(* The files belong to other scripts, which may replace them meanwhile.    *)
(***************************************************************************)
EXTENDS Naturals, Sequences, FiniteSets

CONSTANTS Promoters,
          Bundles,      \* [hash, pages, chunks: sequence of [id, text]]
          Manifests,    \* [hash, bundle, count, frozen]
          Collections,  \* sets of ids, the rows of the candidate's vector index
          PageTexts,    \* PageTexts[v], the texts that occur in version v of the pages
          ExpectedBundle, ExpectedManifest, \* the hashes in the script
          BatchSize,
          MaxEdits,     \* bound on the replacements of files
          None

VARIABLES files,    \* bundle, manifest, rows and version of the pages on disk
          output,   \* the output directory, or None
          promoter, \* what each run of the script does
          edits

vars == <<files, output, promoter, edits>>

Ids(b) == {b.chunks[i].id : i \in DOMAIN b.chunks}

Resting == [at |-> "idle", bundle |-> None, manifest |-> None, rows |-> {},
            written |-> {}, next |-> 1, calm |-> TRUE]

Init == /\ \E b \in Bundles, m \in Manifests, rows \in Collections, v \in DOMAIN PageTexts :
              files = [bundle |-> b, manifest |-> m, rows |-> rows, pages |-> v]
        /\ output = None
        /\ promoter = [p \in Promoters |-> Resting]
        /\ edits = 0

Go(p, step) == promoter' = [promoter EXCEPT ![p] = step]

\* Whatever fails, the temporary directory is removed.
GiveUp(p) == Go(p, Resting)

-----------------------------------------------------------------------------
(* The output must not exist and the two files must have the frozen hashes. *)
Check(p) ==
    /\ promoter[p].at = "idle"
    /\ output = None
    /\ files.bundle.hash = ExpectedBundle /\ files.manifest.hash = ExpectedManifest
    /\ Go(p, [Resting EXCEPT !.at = "read"])
    /\ UNCHANGED <<files, output, edits>>

\* The files are read a second time and compared with each other.
Agree(b, m, v) == /\ m.bundle = ExpectedBundle
                  /\ m.count = Len(b.chunks)
                  /\ m.frozen
                  /\ b.pages = v

ReadFiles(p) ==
    /\ promoter[p].at = "read"
    /\ IF Agree(files.bundle, files.manifest, files.pages)
       THEN Go(p, [promoter[p] EXCEPT !.at = "rows", !.bundle = files.bundle,
                                      !.manifest = files.manifest])
       ELSE GiveUp(p)
    /\ UNCHANGED <<files, output, edits>>

ReadRows(p) ==
    /\ promoter[p].at = "rows"
    /\ IF files.rows = Ids(promoter[p].bundle)
       THEN Go(p, [promoter[p] EXCEPT !.at = "write", !.rows = files.rows])
       ELSE GiveUp(p)
    /\ UNCHANGED <<files, output, edits>>

(***************************************************************************)
(* A batch of chunks is added.  Each must be reproduced by its page; one   *)
(* id twice in a batch is refused by the store, and an id that is there    *)
(* already is passed over without a word.  The store may fail.             *)
(***************************************************************************)
Places(me) == {i \in DOMAIN me.bundle.chunks : me.next <= i /\ i < me.next + BatchSize}

Batch(me) == {me.bundle.chunks[i] : i \in Places(me)}

Reproduced(me) == \A c \in Batch(me) : c.text \in PageTexts[me.bundle.pages]

AddBatch(p) ==
    /\ promoter[p].at = "write"
    /\ promoter[p].next <= Len(promoter[p].bundle.chunks)
    /\ LET me == promoter[p]
           new == {c \in Batch(me) : \A old \in me.written : old.id # c.id}
       IN \/ /\ Reproduced(me)
             /\ Cardinality({c.id : c \in Batch(me)}) = Cardinality(Places(me))
             /\ Go(p, [me EXCEPT !.written = @ \cup new, !.next = @ + Cardinality(Places(me))])
          \/ GiveUp(p)
    /\ UNCHANGED <<files, output, edits>>

(***************************************************************************)
(* What was written is read back (SameNames: without the count).           *)
(***************************************************************************)
SameNames(me) == {c.id : c \in me.written} = me.rows

ReadsBack(me) == /\ Cardinality(me.written) = Len(me.bundle.chunks)
                 /\ {c.id : c \in me.written} = me.rows

(* The manifest names the rows' number and, hashed anew, the two files.    *)
Verify(p) ==
    /\ promoter[p].at = "write"
    /\ promoter[p].next > Len(promoter[p].bundle.chunks)
    /\ IF ReadsBack(promoter[p])
       THEN Go(p, [promoter[p] EXCEPT !.at = "rename",
                      !.manifest = [count |-> Len(promoter[p].bundle.chunks),
                                    bundle |-> files.bundle.hash, index |-> files.manifest.hash]])
       ELSE GiveUp(p)
    /\ UNCHANGED <<files, output, edits>>

\* A directory that is there already makes the rename fail.
Rename(p) ==
    /\ promoter[p].at = "rename"
    /\ output' = IF output # None THEN output
                 ELSE [bundle |-> promoter[p].bundle, manifest |-> promoter[p].manifest,
                       chunks |-> promoter[p].written, calm |-> promoter[p].calm]
    /\ GiveUp(p)
    /\ UNCHANGED <<files, edits>>

\* The process may stop at any time; its temporary directory stays behind.
Stop(p) == /\ promoter[p].at # "idle"
           /\ GiveUp(p)
           /\ UNCHANGED <<files, output, edits>>

-----------------------------------------------------------------------------
(* Another script writes a file anew while promotions may run.             *)
Exchange ==
    /\ edits < MaxEdits
    /\ edits' = edits + 1
    /\ \/ \E b \in Bundles : files' = [files EXCEPT !.bundle = b]
       \/ \E m \in Manifests : files' = [files EXCEPT !.manifest = m]
       \/ \E rows \in Collections : files' = [files EXCEPT !.rows = rows]
    /\ promoter' = [p \in Promoters |-> [promoter[p] EXCEPT !.calm = @ /\ promoter[p].at = "idle"]]
    /\ UNCHANGED output

Next == \/ \E p \in Promoters : \/ Check(p) \/ ReadFiles(p) \/ ReadRows(p) \/ AddBatch(p)
                                \/ Verify(p) \/ Rename(p) \/ Stop(p)
        \/ Exchange

Spec == Init /\ [][Next]_vars

-----------------------------------------------------------------------------
(***************************************************************************)
(* A promoted index is whole and is what it says it is, whatever stops or  *)
(* fails on the way and however many promotions run: it holds one row for  *)
(* each chunk its manifest counts and for each id of its bundle, each with *)
(* a text that its page reproduces; and if no file was exchanged while it  *)
(* was made, it is the frozen bundle's, under the frozen names.            *)
(***************************************************************************)
PromotedIndexIsWhole ==
    output # None =>
       /\ Cardinality(output.chunks) = output.manifest.count
       /\ {c.id : c \in output.chunks} = Ids(output.bundle)
       /\ \A c \in output.chunks : c.text \in PageTexts[output.bundle.pages]
       /\ output.calm => /\ output.bundle.hash = ExpectedBundle
                         /\ output.manifest.bundle = ExpectedBundle
                         /\ output.manifest.index = ExpectedManifest
=============================================================================
