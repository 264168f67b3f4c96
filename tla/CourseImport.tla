---------------------------- MODULE CourseImport ----------------------------
(***************************************************************************)
(* kb/ingestion.py: one import job of a course's source file.  The job is  *)
(* a JSON file that is always replaced whole; each stage leaves an         *)
(* artifact that is written in place.  A runner keeps the outputs of the   *)
(* stages in memory, may stop between any two steps, and may be run again. *)
(***************************************************************************)
EXTENDS Naturals

CONSTANTS Contents,        \* what the source file may hold
          Unreadable,      \* those of Contents no page can be read of
          Empty,           \* those whose pages hold no text
          MaxRuns, MaxEdits,
          None             \* no artifact yet

VARIABLES source,     \* the content of the source file
          job,        \* the saved job
          artifact,   \* stage -> whose content its file describes, or None
          runner,     \* the stage it is in, its step, its outputs
          runs, edits

vars == <<source, job, artifact, runner, runs, edits>>

(* ImportStage, in its order.                                              *)
Stages == 1 .. 4
Inspect == 1
Extract == 2
Chunk == 3
IndexReady == 4

Nobody == [at |-> "idle", stage |-> Inspect, output |-> None]

(* create_job: the job is named after the digest of the source.            *)
Init ==
    /\ source \in Contents
    /\ job = [status |-> "queued", hash |-> source, current |-> None,
              stages |-> [s \in Stages |-> "pending"]]
    /\ artifact = [s \in Stages |-> None]
    /\ runner = Nobody
    /\ runs = 0 /\ edits = 0

Save(saved) == job' = saved

(* Mutant of Begin: the new run is not saved before it starts.             *)
BeginQuietly ==
    /\ runner.at = "idle" /\ runs < MaxRuns
    /\ runner' = [Nobody EXCEPT !.at = "mark"]
    /\ runs' = runs + 1
    /\ UNCHANGED <<source, job, artifact, edits>>

(* run: what is known of earlier runs stays in the job's stages.           *)
Begin ==
    /\ runner.at = "idle" /\ runs < MaxRuns
    /\ Save([job EXCEPT !.status = "processing"])
    /\ runner' = [Nobody EXCEPT !.at = "mark"]
    /\ runs' = runs + 1
    /\ UNCHANGED <<source, artifact, edits>>

MarkRunning ==
    /\ runner.at = "mark"
    /\ Save([job EXCEPT !.stages[runner.stage] = "running", !.current = runner.stage])
    /\ runner' = [runner EXCEPT !.at = "handle"]
    /\ UNCHANGED <<source, artifact, runs, edits>>

(* The handlers: inspect compares the digest and counts the pages; extract *)
(* reads the file again; chunk and index_ready work on the output before.  *)
Succeeds ==
    CASE runner.stage = Inspect -> source = job.hash /\ source \notin Unreadable
      [] runner.stage = Extract -> source \notin Unreadable
      [] runner.stage = Chunk -> TRUE
      [] runner.stage = IndexReady -> runner.output \notin Empty

Handle ==
    /\ runner.at = "handle"
    /\ runner' = IF Succeeds
                 THEN [runner EXCEPT !.at = "write",
                          !.output = IF runner.stage \in {Inspect, Extract}
                                     THEN source ELSE @]
                 ELSE [runner EXCEPT !.at = "fail"]
    /\ UNCHANGED <<source, job, artifact, runs, edits>>

(* The artifact; an exception while it is written fails the stage too.     *)
WriteArtifact ==
    /\ runner.at = "write"
    /\ \/ /\ artifact' = [artifact EXCEPT ![runner.stage] = runner.output]
          /\ runner' = [runner EXCEPT !.at = "complete"]
       \/ /\ artifact' = [artifact EXCEPT ![runner.stage] = None]
          /\ runner' = [runner EXCEPT !.at = "fail"]
    /\ UNCHANGED <<source, job, runs, edits>>

Complete ==
    /\ runner.at = "complete"
    /\ Save([job EXCEPT !.stages[runner.stage] = "completed"])
    /\ runner' = [runner EXCEPT !.stage = @ + 1,
                     !.at = IF runner.stage = IndexReady THEN "finish" ELSE "mark"]
    /\ UNCHANGED <<source, artifact, runs, edits>>

Fail ==
    /\ runner.at = "fail"
    /\ Save([job EXCEPT !.stages[runner.stage] = "failed", !.status = "failed"])
    /\ runner' = Nobody
    /\ UNCHANGED <<source, artifact, runs, edits>>

Finish ==
    /\ runner.at = "finish"
    /\ Save([job EXCEPT !.status = "index_ready", !.current = IndexReady])
    /\ runner' = Nobody
    /\ UNCHANGED <<source, artifact, runs, edits>>

(* The process stops, perhaps with an artifact half written.               *)
Stop ==
    /\ runner.at # "idle"
    /\ runner' = Nobody
    /\ artifact' \in {artifact} \cup
          (IF runner.at = "write" THEN {[artifact EXCEPT ![runner.stage] = None]} ELSE {})
    /\ UNCHANGED <<source, job, runs, edits>>

Edit ==
    /\ edits < MaxEdits
    /\ source' \in Contents \ {source}
    /\ edits' = edits + 1
    /\ UNCHANGED <<job, artifact, runner, runs>>

Next == Begin \/ MarkRunning \/ Handle \/ WriteArtifact \/ Complete \/ Fail \/ Finish
        \/ Stop \/ Edit

Spec == Init /\ [][Next]_vars

-----------------------------------------------------------------------------

(* A job that reads index_ready has four completed stages whose artifacts  *)
(* one run has left: chunks of what was extracted, with text in them,      *)
(* after the source was seen unchanged.  A failed job names a stage that    *)
(* failed, and what comes before it is completed.                          *)
ImportIsWhole ==
    /\ job.status = "index_ready" =>
          /\ \A s \in Stages : job.stages[s] = "completed"
          /\ artifact[Inspect] = job.hash
          /\ artifact[Extract] \notin {None} \cup Empty
          /\ artifact[Chunk] = artifact[Extract]
          /\ artifact[IndexReady] = artifact[Chunk]
    /\ job.status = "failed" =>
          /\ job.stages[job.current] = "failed"
          /\ \A s \in 1 .. job.current - 1 :
                job.stages[s] = "completed" /\ artifact[s] # None

=============================================================================
