--------------------------- MODULE SessionTitles ---------------------------
(***************************************************************************)
(* The title of one chat session: api/chat_sessions.py schedules a task    *)
(* that asks the model for one, api/routers/sessions.py creates, renames   *)
(* and deletes, api/title_generation.py makes titles by rule.              *)
(*                                                                         *)
(* Everything runs on one event loop, and an operation on the row is a     *)
(* step of its own: another runs only where the task waits for the model.  *)
(***************************************************************************)
EXTENDS Naturals, Sequences

CONSTANTS Messages,   \* what a student may send
          Topic,      \* message -> the title the rules make of it
          Default,    \* DEFAULT_SESSION_TITLE
          Manual,     \* titles a student may type
          Named,      \* titles of the model that read well
          Raw,        \* titles that look like a question; raw text of the model
          MaxSends, MaxTasks

VARIABLES row,      \* the session's row
          messages, \* its user messages
          tasks,    \* background tasks: id -> where each is
          pending,  \* _title_generation_pending holds the session
          sends

vars == <<row, messages, tasks, pending, sends>>

Given == {"manual", "llm"}

(* create_session                                                          *)
Init ==
    /\ \E title \in Manual \cup {Default} :
          row = [title |-> title, deleted |-> FALSE, attempts |-> 0, pending |-> FALSE,
                 source |-> IF title = Default THEN "default" ELSE "manual"]
    /\ messages = <<>>
    /\ tasks = <<>>
    /\ pending = FALSE
    /\ sends = 0

-----------------------------------------------------------------------------

(* looks_like_unprocessed_question_title                                   *)
Unprocessed(title) == title = Default \/ title \in Raw

(* _finalize_title: what the model said, or the rules where it said        *)
(* nothing or repeated the question.                                       *)
Finalize(seed, said) == IF Unprocessed(said) THEN Topic[seed] ELSE said

(* Mutant of Wanted: the tasks that run are not looked at.                 *)
WantedAgain(first) ==
    /\ row.source \notin Given
    /\ \/ row.title = Default
       \/ row.source \in {"default", "heuristic"} /\ row.attempts < 3
       \/ first /\ Unprocessed(row.title)

(* _should_schedule_title_generation, after the message is appended.       *)
Wanted(first) ==
    /\ ~pending
    /\ row.source \notin Given
    /\ \/ row.title = Default
       \/ row.source \in {"default", "heuristic"} /\ row.attempts < 3
       \/ first /\ Unprocessed(row.title)

(* _apply_immediate_fallback_title                                         *)
Interim(message, first) ==
    IF /\ row.title = Default \/ (first /\ Unprocessed(row.title))
       /\ Topic[message] # row.title
    THEN [row EXCEPT !.title = Topic[message], !.source = "heuristic", !.pending = TRUE]
    ELSE row

Send(message) ==
    /\ ~row.deleted /\ sends < MaxSends
    /\ sends' = sends + 1
    /\ messages' = Append(messages, message)
    /\ LET first == messages = <<>>
       IN  IF Wanted(first)
           THEN /\ Len(tasks) < MaxTasks
                /\ row' = Interim(message, first)
                /\ tasks' = Append(tasks, [at |-> "start", message |-> message,
                                           seed |-> message, renamed |-> FALSE])
                /\ pending' = TRUE
           ELSE UNCHANGED <<row, tasks, pending>>

(* The task reads the first message and waits for the model.               *)
Ask(t) ==
    /\ tasks[t].at = "start"
    /\ tasks' = [tasks EXCEPT ![t].at = "asking",
                              ![t].seed = IF messages = <<>> THEN @ ELSE Head(messages)]
    /\ UNCHANGED <<row, messages, pending, sends>>

Retitled(title, source) ==
    IF row.deleted THEN row
    ELSE [row EXCEPT !.title = title, !.source = source, !.pending = FALSE,
                     !.attempts = @ + 1]

Leave(t) ==
    /\ tasks' = [tasks EXCEPT ![t].at = "done"]
    /\ pending' = FALSE
    /\ UNCHANGED <<messages, sends>>

(* The model answers or fails, and the row is read again and written.      *)
Finish(t) ==
    /\ tasks[t].at = "asking"
    /\ \E said \in Named \cup Raw \cup {Default} :
          LET title == Finalize(tasks[t].seed, said)
          IN  row' = Retitled(title, IF title = Topic[tasks[t].seed] \/ Unprocessed(title)
                                     THEN "heuristic" ELSE "llm")
    /\ Leave(t)

(* The store fails under the task: the rules' title, if that can be saved. *)
FinishBadly(t) ==
    /\ tasks[t].at \in {"start", "asking"}
    /\ row' \in {row, Retitled(Topic[tasks[t].message], "heuristic")}
    /\ Leave(t)

-----------------------------------------------------------------------------

(* update_session; it does not look for a task.                            *)
Rename(title) ==
    /\ ~row.deleted
    /\ row' = [row EXCEPT !.title = title, !.source = "manual"]
    /\ tasks' = [t \in DOMAIN tasks |-> [tasks[t] EXCEPT !.renamed = TRUE]]
    /\ UNCHANGED <<messages, pending, sends>>

Delete ==
    /\ ~row.deleted
    /\ row' = [row EXCEPT !.deleted = TRUE]
    /\ messages' = <<>>
    /\ UNCHANGED <<tasks, pending, sends>>

ClearMessages ==
    /\ messages # <<>>
    /\ messages' = <<>>
    /\ UNCHANGED <<row, tasks, pending, sends>>

(* The process ends with its tasks; the row's pending stays as it is.      *)
Restart ==
    /\ tasks' = [t \in DOMAIN tasks |-> [tasks[t] EXCEPT !.at = "done"]]
    /\ pending' = FALSE
    /\ UNCHANGED <<row, messages, sends>>

Next ==
    \/ \E message \in Messages : Send(message)
    \/ \E t \in DOMAIN tasks : Ask(t) \/ Finish(t) \/ FinishBadly(t)
    \/ \E title \in Manual \cup {Default} : Rename(title)
    \/ Delete \/ ClearMessages \/ Restart

Spec == Init /\ [][Next]_vars

-----------------------------------------------------------------------------

(* A title the model or the student has given is changed by the student    *)
(* only, a deleted session's title by nobody; with one exception, the task *)
(* that was already running when the student renamed the session.          *)
GivenTitleStands ==
    row.title' # row.title =>
       /\ ~row.deleted
       /\ \/ row.source \notin Given
          \/ \E title \in Manual \cup {Default} : Rename(title)
          \/ \E t \in DOMAIN tasks :
                tasks[t].renamed /\ tasks[t].at # "done" /\ tasks'[t].at = "done"

GivenTitlesStand == [][GivenTitleStands]_vars

=============================================================================
