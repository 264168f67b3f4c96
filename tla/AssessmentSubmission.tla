------------------------ MODULE AssessmentSubmission ------------------------
(***************************************************************************)
(* One assigned assessment and the requests about it:                      *)
(*   api/routers/assessments.py         open, questions, submit, result    *)
(*   assessment/application.py          a service, and a lock, per request *)
(*   assessment/repository.py           the row, its answers, its version  *)
(*   teaching/assessment_evidence.py    what a submission teaches          *)
(* Only the versioned update joins two requests.  A record is read in two  *)
(* statements, the row first and its answers after it.                     *)
(***************************************************************************)
EXTENDS Naturals, FiniteSets

CONSTANTS Requests,   \* requests of one student about one assessment
          Complete,   \* answer sets that answer every question once
          None

VARIABLES row,       \* the stored assessment
          requests,  \* request -> how far it is
          evidence   \* answer facts, episode and snapshot

vars == <<row, requests, evidence>>

Incomplete == "incomplete"
NoRecord == [status |-> "none", opener |-> None, version |-> 0, answers |-> None]

Init ==
    /\ row = [status |-> "ready", opener |-> None, version |-> 1, answers |-> None]
    /\ requests = [r \in Requests |->
                     [at |-> "new", asks |-> "nothing", answers |-> None,
                      record |-> NoRecord, reply |-> "none"]]
    /\ evidence = [facts |-> None, episode |-> None, snapshot |-> FALSE]

At(r, step) == requests[r].at = step
Move(r, change) == requests' = [requests EXCEPT ![r] = change]
Reply(r, what) == Move(r, [requests[r] EXCEPT !.at = "replied", !.reply = what])

-----------------------------------------------------------------------------

Ask(r) ==
    /\ At(r, "new")
    /\ \E asks \in {"open", "get", "submit", "result"}, answers \in Complete \cup {Incomplete} :
          /\ asks # "submit" => answers = Incomplete
          /\ Move(r, [requests[r] EXCEPT !.at = "row", !.asks = asks, !.answers = answers])
    /\ UNCHANGED <<row, evidence>>

ReadRow(r) ==
    /\ At(r, "row")
    /\ Move(r, [requests[r] EXCEPT !.at = "answers", !.record = [row EXCEPT !.answers = None]])
    /\ UNCHANGED <<row, evidence>>

ReadAnswers(r) ==
    /\ At(r, "answers")
    /\ Move(r, [requests[r] EXCEPT !.at = "checked", !.record.answers = row.answers])
    /\ UNCHANGED <<row, evidence>>

(* get and result change nothing; open of an open assessment neither.      *)
Answer(r) ==
    LET q == requests[r]
        active == q.record.status \in {"ready", "in_progress"}
    IN  /\ At(r, "checked")
        /\ \/ q.asks = "get" /\ Reply(r, IF active THEN "questions" ELSE "conflict")
           \/ q.asks = "result" /\ Reply(r, IF active THEN "conflict" ELSE "result")
           \/ /\ q.asks = "open" /\ q.record.status # "ready"
              /\ Reply(r, IF active THEN "questions" ELSE "conflict")
        /\ UNCHANGED <<row, evidence>>

(* Everything submit refuses, and a submission repeated.                   *)
Check(r) ==
    LET q == requests[r]
    IN  /\ At(r, "checked") /\ q.asks = "submit"
        /\ \/ q.record.status = "ready" /\ Reply(r, "conflict")
           \/ q.record.status # "ready" /\ q.answers = Incomplete /\ Reply(r, "invalid")
           \/ /\ q.record.status = "submitted" /\ q.answers # Incomplete
              /\ IF q.answers = q.record.answers
                 THEN Move(r, [q EXCEPT !.at = "facts"])
                 ELSE Reply(r, "conflict")
        /\ UNCHANGED <<row, evidence>>

Updates(r) ==
    LET q == requests[r]
    IN  IF q.asks = "open" /\ q.record.status = "ready"
        THEN {[q.record EXCEPT !.status = "in_progress", !.opener = r, !.version = @ + 1]}
        ELSE IF /\ q.asks = "submit" /\ q.record.status = "in_progress"
                /\ q.answers # Incomplete
        THEN {[q.record EXCEPT !.status = "submitted", !.answers = q.answers,
                               !.version = @ + 1]}
        ELSE {}

Stored(r, record) ==
    /\ row' = record
    /\ Move(r, [requests[r] EXCEPT !.record = record,
                  !.at = IF @ = "checked" /\ requests[r].asks = "submit" THEN "facts" ELSE "replied",
                  !.reply = IF requests[r].asks = "open" THEN "questions" ELSE @])

(* Mutant of Replace: the update does not ask for the version it has read. *)
ReplaceAnyVersion(r) ==
    /\ At(r, "checked")
    /\ \E record \in Updates(r) : Stored(r, record)
    /\ UNCHANGED evidence

Replace(r) ==
    /\ At(r, "checked")
    /\ \E record \in Updates(r) :
          IF row.version = requests[r].record.version
          THEN Stored(r, record)
          ELSE Reply(r, "conflict") /\ UNCHANGED row
    /\ UNCHANGED evidence

-----------------------------------------------------------------------------
(* AssessmentEvidenceRecorder: three transactions, none with the update.   *)

(* append_many ignores a fact it has and refuses one that differs.         *)
RecordFacts(r) ==
    LET q == requests[r]
    IN  /\ At(r, "facts")
        /\ IF evidence.facts \in {None, q.record.answers}
           THEN /\ evidence' = [evidence EXCEPT !.facts = q.record.answers]
                /\ Move(r, [q EXCEPT !.at = "episode"])
           ELSE Reply(r, "error") /\ UNCHANGED evidence
        /\ UNCHANGED row

RecordEpisode(r) ==
    /\ At(r, "episode")
    /\ evidence' = [evidence EXCEPT !.episode = requests[r].record.answers]
    /\ Move(r, [requests[r] EXCEPT !.at = "snapshot"])
    /\ UNCHANGED row

Project(r) ==
    /\ At(r, "snapshot")
    /\ evidence' = [evidence EXCEPT !.snapshot = TRUE]
    /\ Reply(r, "result")
    /\ UNCHANGED row

(* Any of them raises: the score is stored, the request fails.             *)
RecordingFails(r) ==
    /\ requests[r].at \in {"facts", "episode", "snapshot"}
    /\ Reply(r, "error")
    /\ UNCHANGED <<row, evidence>>

Next == \E r \in Requests :
    \/ Ask(r) \/ ReadRow(r) \/ ReadAnswers(r) \/ Answer(r) \/ Check(r) \/ Replace(r)
    \/ RecordFacts(r) \/ RecordEpisode(r) \/ Project(r) \/ RecordingFails(r)

Spec == Init /\ [][Next]_vars

-----------------------------------------------------------------------------

(* The submission stored first stands: whatever requests race, repeat or   *)
(* fail, evidence and results are about the stored answers and the first   *)
(* opening, nothing is learned before they are stored, and once a submit   *)
(* has succeeded, at once or as a repetition that made good a failure, its *)
(* evidence is complete.                                                   *)
FirstSubmissionStands ==
    /\ evidence.facts \in {None, row.answers} /\ evidence.episode \in {None, evidence.facts}
    /\ row.answers # None <=> row.status = "submitted"
    /\ \A r \in Requests :
          LET q == requests[r]
          IN  /\ q.reply = "result" =>
                    /\ q.record.answers = row.answers /\ row.answers # None
                    /\ q.asks = "submit" => /\ q.answers = row.answers
                                            /\ evidence.facts = row.answers
                                            /\ evidence.episode = row.answers
                                            /\ evidence.snapshot
              /\ q.reply = "questions" => /\ q.record.opener \in {None, row.opener}
                                          /\ q.asks = "open" => q.record.opener = row.opener

=============================================================================
