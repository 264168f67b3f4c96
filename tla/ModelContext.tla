---------------------------- MODULE ModelContext ----------------------------
(***************************************************************************)
(* What a model call is sent: shared/history.py folds a session's old      *)
(* messages into a summary, shared/context_governor.py folds more when the *)
(* list is over the budget.  The second summary may be asked of a model,   *)
(* in a thread that is waited for only so long and that nobody can stop;   *)
(* one guard, shared by all requests, keeps such threads from piling up.   *)
(*                                                                         *)
(* A message is its role, its estimated tokens and its place in the        *)
(* session (0 for what is not a message of the session).                   *)
(***************************************************************************)
EXTENDS Integers, Sequences, FiniteSets, SequencesExt, FiniteSetsExt

CONSTANTS Requests,
          Sessions,        \* sequences of the sizes of a session's messages
          MaxRecent, SummarizeAfter,   \* MemoryPolicy
          Budget,          \* ContextBudget.budget_tokens
          PreserveRecent,  \* SHORT_MEMORY_RECENT_MESSAGES
          SummarySizes,    \* what a summary may measure
          Short,           \* a summary of this size is not shrunk
          MaxCoolDowns, None

VARIABLES request,   \* request -> where it is, its list, its summaries
          thread,    \* request -> its latest thread: waited for, left behind, done
          strays,    \* threads left behind before those
          guard,     \* _SEMANTIC_SUMMARY_IN_FLIGHT and _RETRY_AFTER
          coolDowns

vars == <<request, thread, strays, guard, coolDowns>>

Idle == [at |-> "idle", list |-> <<>>, sent |-> <<>>, round |-> 0]

Init ==
    /\ request = [r \in Requests |-> Idle]
    /\ thread = [r \in Requests |-> "none"]
    /\ strays = 0
    /\ guard = [owner |-> None, retry |-> "unset"]
    /\ coolDowns = 0

-----------------------------------------------------------------------------
(* Folding.                                                                *)

Message(role, size, place) == [role |-> role, size |-> size, place |-> place]
Summary(size) == Message("summary", size, 0)
Tokens(list) == SumFunction([i \in DOMAIN list |-> list[i].size])

(* compact_messages: the summary of the rest and the last MaxRecent.       *)
Remembered(sizes) ==
    LET all == [i \in DOMAIN sizes |->
                  Message(IF i % 2 = 1 THEN "human" ELSE "ai", sizes[i], i)]
    IN  IF Len(all) <= SummarizeAfter THEN all
        ELSE <<Summary(1)>> \o SubSeq(all, Len(all) - MaxRecent + 1, Len(all))

(* build_chat_messages                                                     *)
Composed(sizes) ==
    <<Message("system", 1, 0)>> \o Remembered(sizes) \o <<Message("human", 1, Len(sizes) + 1)>>

Leading(list) == SelectInSeq(list, LAMBDA m : m.role # "system") - 1

(* The most recent messages stay as they are; where that would be all of   *)
(* them, only the last one does.                                           *)
TailCount(list) ==
    LET left == Len(list) - Leading(list)
    IN  IF PreserveRecent >= left /\ left > 1 THEN 1 ELSE Min({PreserveRecent, left})

Folded(list, size) ==
    SubSeq(list, 1, Leading(list)) \o <<Summary(size)>>
        \o SubSeq(list, Len(list) - TailCount(list) + 1, Len(list))

CanFold(list) == Tokens(list) > Budget /\ Leading(list) + TailCount(list) < Len(list)

-----------------------------------------------------------------------------
(* A request.                                                              *)

Set(r, to) == request' = [request EXCEPT ![r] = to]

(* The list within the budget, or with nothing to fold, is sent as it is.  *)
Compose(r) ==
    /\ request[r].at = "idle"
    /\ \E sizes \in Sessions :
          LET list == Composed(sizes)
          IN  Set(r, IF CanFold(list)
                     THEN [Idle EXCEPT !.at = "summarize", !.list = list, !.round = 1]
                     ELSE [Idle EXCEPT !.at = "sent", !.list = list, !.sent = list])
    /\ UNCHANGED <<thread, strays, guard, coolDowns>>

(* A summary that leaves too much is made once more, shorter; a list that  *)
(* has not become smaller is sent as it was.                               *)
Use(r, size) ==
    LET list == request[r].list
        folded == Folded(list, size)
    IN  Set(r, IF request[r].round = 1 /\ Tokens(folded) > Budget /\ size > Short
               THEN [request[r] EXCEPT !.at = "summarize", !.round = 2]
               ELSE [request[r] EXCEPT !.at = "sent",
                        !.sent = IF Tokens(folded) >= Tokens(list) THEN list ELSE folded])

Fallback(r) == \E size \in SummarySizes : Use(r, size)

(* Semantic summaries are off, or the rules' own is used.                  *)
SummarizeByRule(r) ==
    /\ request[r].at = "summarize"
    /\ Fallback(r)
    /\ UNCHANGED <<thread, strays, guard, coolDowns>>

InFlight == {r \in Requests : thread[r] \in {"waited", "left"}}
Running(o) == o # None /\ o \in InFlight

(* Under the lock: a call in flight refuses another until it is done or    *)
(* its cool-down is over.                                                  *)
EnterGuard(r) ==
    /\ request[r].at = "summarize"
    /\ IF Running(guard.owner) /\ guard.retry # "over"
       THEN Fallback(r) /\ UNCHANGED <<thread, strays, guard>>
       ELSE /\ guard' = [owner |-> r, retry |-> "unset"]
            /\ thread' = [thread EXCEPT ![r] = "waited"]
            /\ strays' = IF r \in InFlight THEN strays + 1 ELSE strays
            /\ Set(r, [request[r] EXCEPT !.at = "wait"])
    /\ UNCHANGED coolDowns

(* A thread ends, with an answer or an error.                              *)
EndThread(r) ==
    /\ r \in InFlight
    /\ thread' = [thread EXCEPT ![r] = "done"]
    /\ UNCHANGED <<request, strays, guard, coolDowns>>

EndStray ==
    /\ strays > 0
    /\ strays' = strays - 1
    /\ UNCHANGED <<request, thread, guard, coolDowns>>

(* The finally clause: the guard is let go if this call is done.           *)
LetGo(r) ==
    guard' = IF guard.owner = r /\ ~Running(r) THEN [owner |-> None, retry |-> "unset"] ELSE guard

Answered(r) ==
    /\ request[r].at = "wait" /\ thread[r] = "done"
    /\ LetGo(r)
    /\ Fallback(r)
    /\ UNCHANGED <<thread, strays, coolDowns>>

(* future.cancel() cannot stop what runs.                                  *)
TimeOut(r) ==
    /\ request[r].at = "wait" /\ thread[r] = "waited"
    /\ thread' = [thread EXCEPT ![r] = "left"]
    /\ Set(r, [request[r] EXCEPT !.at = "timedOut"])
    /\ UNCHANGED <<strays, guard, coolDowns>>

(* Mutant of Arm: the cool-down is not started.                            *)
ArmNothing(r) ==
    /\ request[r].at = "timedOut"
    /\ Set(r, [request[r] EXCEPT !.at = "leave"])
    /\ UNCHANGED <<thread, strays, guard, coolDowns>>

Arm(r) ==
    /\ request[r].at = "timedOut"
    /\ guard' = IF guard.owner = r /\ Running(r) THEN [guard EXCEPT !.retry = "armed"] ELSE guard
    /\ Set(r, [request[r] EXCEPT !.at = "leave"])
    /\ UNCHANGED <<thread, strays, coolDowns>>

Leave(r) ==
    /\ request[r].at = "leave"
    /\ LetGo(r)
    /\ Fallback(r)
    /\ UNCHANGED <<thread, strays, coolDowns>>

NextRequest(r) ==
    /\ request[r].at = "sent"
    /\ Set(r, Idle)
    /\ UNCHANGED <<thread, strays, guard, coolDowns>>

CoolDown ==
    /\ guard.retry = "armed" /\ coolDowns < MaxCoolDowns
    /\ guard' = [guard EXCEPT !.retry = "over"]
    /\ coolDowns' = coolDowns + 1
    /\ UNCHANGED <<request, thread, strays>>

Next ==
    \/ \E r \in Requests :
          \/ Compose(r) \/ SummarizeByRule(r) \/ EnterGuard(r) \/ EndThread(r)
          \/ Answered(r) \/ TimeOut(r) \/ Arm(r) \/ Leave(r) \/ NextRequest(r)
    \/ EndStray \/ CoolDown

Spec == Init /\ [][Next]_vars

-----------------------------------------------------------------------------

(* No two requests wait for a summary; a call in flight is waited for, is  *)
(* about to be given up, or will be retried, so that the guard never stays *)
(* shut; and all calls left behind are paid for with cool-downs.           *)
GuardNeverSticks ==
    /\ \A r, o \in Requests : thread[r] = "waited" /\ thread[o] = "waited" => r = o
    /\ Running(guard.owner) =>
          \/ guard.retry # "unset"
          \/ request[guard.owner].at \in {"wait", "timedOut"}
    /\ strays + Cardinality(InFlight) <= coolDowns + 1

(* A model call ends with the question and starts with this turn's         *)
(* context; between them stand the session's latest messages, without a    *)
(* gap, and at most one summary of all before.  A call over the budget is  *)
(* not sent as it is where what could be folded outweighs a summary, and   *)
(* folding never makes a call larger.                                      *)
CallsAreWhole ==
    \A r \in Requests :
        request[r].at = "sent" =>
            LET sent == request[r].sent
                list == request[r].list
                places == SelectSeq(sent, LAMBDA m : m.place > 0)
                last == Len(list) - (IF Len(list) - 1 > PreserveRecent THEN PreserveRecent ELSE 1)
            IN  /\ Last(sent) = Last(list) /\ Head(sent) = Head(list)
                /\ \A i \in 2 .. Len(places) : places[i].place = places[i - 1].place + 1
                /\ Cardinality({i \in DOMAIN sent : sent[i].role = "summary"}) <= 1
                /\ Tokens(sent) <= Tokens(list)
                /\ sent = list /\ Tokens(list) > Budget =>
                      Tokens(SubSeq(list, 2, last)) <= Max(SummarySizes)

=============================================================================
