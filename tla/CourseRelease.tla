--------------------------- MODULE CourseRelease ---------------------------
(***************************************************************************)
(* A course's index on its way to students.  Builders                      *)
(* (scripts/build_course_candidate.py) put the chunks of a parse into the  *)
(* candidate of one source version, then a bundle of them and a manifest.  *)
(* Promoters (scripts/promote_course_candidate.py) copy a candidate into a *)
(* temporary directory and rename it.  An operator binds the course to a   *)
(* revision (courses/resources.py), which the runtime checks against the   *)
(* manifest it opens (retrieval/index_manifest.py).                        *)
(*                                                                         *)
(* All are processes that share the files and nothing else; a step is one  *)
(* operation on them, and a process may stop between any two.  A revision  *)
(* is the digest of a parse's chunks, so it is that set of chunks.         *)
(***************************************************************************)
EXTENDS Naturals, FiniteSets

CONSTANTS Parses,      \* sets of chunks: what parsing the source may yield
          Builders, Promoters,
          MaxBuilds,
          None, Torn   \* no such file; a file whose writer stopped halfway

VARIABLES candidate,   \* the collection, its hashes, the bundle, the manifest
          output,      \* the promoted index, or None
          binding,     \* the revision in the course's resource manifest, or None
          builder, promoter,
          builds

vars == <<candidate, output, binding, builder, promoter, builds>>

Resting == [at |-> "idle", parse |-> {}, known |-> {}, left |-> {}, added |-> 0,
            failed |-> FALSE, count |-> 0]
Away == [at |-> "idle", revision |-> {}, bundle |-> {}]

Init ==
    /\ candidate = [rows |-> {}, hashes |-> {}, bundle |-> None, manifest |-> None]
    /\ output = None
    /\ binding = None
    /\ builder = [b \in Builders |-> Resting]
    /\ promoter = [p \in Promoters |-> Away]
    /\ builds = 0

Build(b, step) == builder' = [builder EXCEPT ![b] = step]
Promote(p, step) == promoter' = [promoter EXCEPT ![p] = step]

-----------------------------------------------------------------------------
(* build_candidate.                                                        *)

(* The source is parsed, cleaned and chunked, or a saved parse is loaded;  *)
(* the knowledge base is opened and reads its hashes.                      *)
StartBuild(b) ==
    /\ builder[b].at = "idle" /\ builds < MaxBuilds
    /\ \E parse \in Parses :
          Build(b, [Resting EXCEPT !.at = "ingest", !.parse = parse, !.left = parse,
                                   !.known = candidate.hashes])
    /\ builds' = builds + 1
    /\ UNCHANGED <<candidate, output, binding, promoter>>

(* A batch is embedded and upserted; chunks with a known hash are skipped. *)
(* A batch that raises may have been stored all the same.                  *)
IngestBatch(b) ==
    /\ builder[b].at = "ingest"
    /\ \E c \in builder[b].left \ builder[b].known :
          \/ /\ candidate' = [candidate EXCEPT !.rows = @ \cup {c}]
             /\ Build(b, [builder[b] EXCEPT !.left = @ \ {c}, !.known = @ \cup {c},
                                            !.added = @ + 1])
          \/ /\ candidate' \in {candidate, [candidate EXCEPT !.rows = @ \cup {c}]}
             /\ Build(b, [builder[b] EXCEPT !.left = @ \ {c}, !.failed = TRUE])
    /\ UNCHANGED <<output, binding, promoter, builds>>

SaveHashes(b) ==
    /\ builder[b].at = "ingest" /\ builder[b].left \subseteq builder[b].known
    /\ candidate' = [candidate EXCEPT !.hashes = builder[b].known]
    /\ Build(b, [builder[b] EXCEPT !.at = "count"])
    /\ UNCHANGED <<output, binding, promoter, builds>>

Count(b) ==
    /\ builder[b].at = "count"
    /\ Build(b, [builder[b] EXCEPT !.at = "readback", !.count = Cardinality(candidate.rows)])
    /\ UNCHANGED <<candidate, output, binding, promoter, builds>>

(* The checks on what was written: any mismatch ends the build.            *)
ReadBack(b) ==
    /\ builder[b].at = "readback"
    /\ LET me == builder[b]
       IN  Build(b, IF /\ Cardinality(candidate.rows) = Cardinality(me.parse)
                       /\ ~me.failed /\ me.added = me.count
                    THEN [me EXCEPT !.at = "bundle"] ELSE Resting)
    /\ UNCHANGED <<candidate, output, binding, promoter, builds>>

(* write_text empties the file, then fills it.                             *)
Fill(b, file, from, half, next) ==
    /\ \/ /\ builder[b].at = from
          /\ candidate' = [candidate EXCEPT ![file] = Torn]
          /\ Build(b, [builder[b] EXCEPT !.at = half])
       \/ /\ builder[b].at = half
          /\ candidate' = [candidate EXCEPT ![file] = builder[b].parse]
          /\ Build(b, next)
    /\ UNCHANGED <<output, binding, promoter, builds>>

WriteBundle(b) ==
    Fill(b, "bundle", "bundle", "halfBundle", [builder[b] EXCEPT !.at = "manifest"])
WriteManifest(b) == Fill(b, "manifest", "manifest", "halfManifest", Resting)

(* A builder stops; if it was writing its hashes they may be lost.         *)
StopBuild(b) ==
    /\ builder[b].at # "idle"
    /\ Build(b, Resting)
    /\ candidate' \in {candidate} \cup
          (IF builder[b].at = "ingest" THEN {[candidate EXCEPT !.hashes = {}]} ELSE {})
    /\ UNCHANGED <<output, binding, promoter, builds>>

-----------------------------------------------------------------------------
(* promote_course_candidate.                                               *)

Whole(file) == file \notin {None, Torn}

(* The output must not exist, the candidate is read, the course unbound.   *)
StartPromotion(p) ==
    /\ promoter[p].at = "idle"
    /\ output = None /\ Whole(candidate.manifest) /\ binding = None
    /\ Promote(p, [Away EXCEPT !.at = "bundle", !.revision = candidate.manifest])
    /\ UNCHANGED <<candidate, output, binding, builder, builds>>

(* Mutant of ReadBundle: the bundle is not counted.                        *)
ReadAnyBundle(p) ==
    /\ promoter[p].at = "bundle"
    /\ Promote(p, IF Whole(candidate.bundle)
                  THEN [promoter[p] EXCEPT !.at = "rows", !.bundle = candidate.bundle]
                  ELSE Away)
    /\ UNCHANGED <<candidate, output, binding, builder, builds>>

ReadBundle(p) ==
    /\ promoter[p].at = "bundle"
    /\ Promote(p, IF /\ Whole(candidate.bundle)
                     /\ Cardinality(candidate.bundle) = Cardinality(promoter[p].revision)
                  THEN [promoter[p] EXCEPT !.at = "rows", !.bundle = candidate.bundle]
                  ELSE Away)
    /\ UNCHANGED <<candidate, output, binding, builder, builds>>

(* The rows are joined with the bundle one to one, written to the          *)
(* temporary collection with the page each was found on, and read back; a  *)
(* chunk that is on no page of the saved parse ends the promotion.         *)
CopyRows(p) ==
    /\ promoter[p].at = "rows"
    /\ Promote(p, Away) \/ /\ candidate.rows = promoter[p].bundle
                           /\ Promote(p, [promoter[p] EXCEPT !.at = "rename"])
    /\ UNCHANGED <<candidate, output, binding, builder, builds>>

(* os.replace does not replace a directory that holds files.               *)
Rename(p) ==
    /\ promoter[p].at = "rename"
    /\ output' = IF output = None
                 THEN [revision |-> promoter[p].revision, rows |-> promoter[p].bundle]
                 ELSE output
    /\ Promote(p, Away)
    /\ UNCHANGED <<candidate, binding, builder, builds>>

StopPromotion(p) ==
    /\ promoter[p].at # "idle"
    /\ Promote(p, Away)
    /\ UNCHANGED <<candidate, output, binding, builder, builds>>

-----------------------------------------------------------------------------

(* The operator writes a binding into the course's manifest.               *)
Bind ==
    /\ binding' \in Parses
    /\ UNCHANGED <<candidate, output, builder, promoter, builds>>

(* load_and_validate_manifest and check_production_index_readiness.        *)
Opens == output # None /\ output.revision = binding

Next ==
    \/ \E b \in Builders :
          \/ StartBuild(b) \/ IngestBatch(b) \/ SaveHashes(b) \/ Count(b) \/ ReadBack(b)
          \/ WriteBundle(b) \/ WriteManifest(b) \/ StopBuild(b)
    \/ \E p \in Promoters :
          \/ StartPromotion(p) \/ ReadBundle(p) \/ CopyRows(p) \/ Rename(p)
          \/ StopPromotion(p)
    \/ Bind

Spec == Init /\ [][Next]_vars

-----------------------------------------------------------------------------

(* Whatever builders with other parses do to a candidate while it is read, *)
(* a promoted index holds exactly the chunks its revision is the digest    *)
(* of, so that a course that opens an index answers from the chunks it is  *)
(* bound to.                                                               *)
ReleaseIsSealed ==
    /\ output # None => output.rows = output.revision
    /\ Opens => output.rows = binding

=============================================================================
