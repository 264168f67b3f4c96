---------------------------- MODULE Conversation ----------------------------
(***************************************************************************)
(* What a chat session promises to its student, said without locks,        *)
(* threads or jobs: the stored messages are a log to which turns are added *)
(* one after the other.  A turn asks, the agent may leave a draft, the     *)
(* draft or the bare question is settled by one answer; only a stopped     *)
(* answer that is still the last message may be taken up again.            *)
(*                                                                         *)
(* Abstract specification; ChatTurns is shown to implement it.             *)
(***************************************************************************)
EXTENDS Naturals, Sequences

CONSTANTS Sessions, Turns

VARIABLES log,    \* the messages of every session, oldest first
          alive   \* FALSE once the session has been deleted

conversationVars == <<log, alive>>

Settled == {"completed", "stopped", "error"}

Question(t)    == [turn |-> t, role |-> "user", status |-> "asked"]
Answer(t, st)  == [turn |-> t, role |-> "assistant", status |-> st]
Draft(t)       == Answer(t, "draft")

Messages == {Question(t) : t \in Turns}
              \cup {Answer(t, st) : t \in Turns, st \in Settled \cup {"draft"}}

EndsWith(s, m) == log[s] # <<>> /\ log[s][Len(log[s])] = m

(* The last two messages of s are the question of t and its draft.         *)
EndsWithDraftOf(s, t) ==
    /\ Len(log[s]) > 1
    /\ log[s][Len(log[s]) - 1] = Question(t)
    /\ log[s][Len(log[s])] = Draft(t)

Mentions(s, t) == \E i \in DOMAIN log[s] : log[s][i].turn = t

Init == /\ log = [s \in Sessions |-> <<>>]
        /\ alive = [s \in Sessions |-> TRUE]

-----------------------------------------------------------------------------

Rewrite(s, messages) == /\ log' = [log EXCEPT ![s] = messages]
                        /\ UNCHANGED alive

Ask(s, t) ==
    /\ alive[s]
    /\ ~Mentions(s, t)
    /\ Rewrite(s, Append(log[s], Question(t)))

Sketch(s, t) ==
    /\ alive[s]
    /\ EndsWith(s, Question(t))
    /\ Rewrite(s, Append(log[s], Draft(t)))

SettleQuestion(s, t, st) ==
    /\ alive[s]
    /\ EndsWith(s, Question(t))
    /\ Rewrite(s, Append(log[s], Answer(t, st)))

SettleDraft(s, t, st) ==
    /\ EndsWithDraftOf(s, t)
    /\ Rewrite(s, [log[s] EXCEPT ![Len(log[s])] = Answer(t, st)])

Resume(s, t, st) ==
    /\ EndsWith(s, Answer(t, "stopped"))
    /\ Rewrite(s, [log[s] EXCEPT ![Len(log[s])] = Answer(t, st)])

(* A failed send takes its question back; a draft already stored stays.    *)
Withdraw(s, t) ==
    \/ /\ EndsWith(s, Question(t))
       /\ Rewrite(s, SubSeq(log[s], 1, Len(log[s]) - 1))
    \/ /\ EndsWithDraftOf(s, t)
       /\ Rewrite(s, Append(SubSeq(log[s], 1, Len(log[s]) - 2), Draft(t)))

Clear(s) == alive[s] /\ Rewrite(s, <<>>)

Delete(s) ==
    /\ alive[s]
    /\ log' = [log EXCEPT ![s] = <<>>]
    /\ alive' = [alive EXCEPT ![s] = FALSE]

Next == \E s \in Sessions :
            \/ Clear(s)
            \/ Delete(s)
            \/ \E t \in Turns : Ask(s, t) \/ Sketch(s, t) \/ Withdraw(s, t)
            \/ \E t \in Turns, st \in Settled :
                  SettleQuestion(s, t, st) \/ SettleDraft(s, t, st) \/ Resume(s, t, st)

Spec == Init /\ [][Next]_conversationVars

-----------------------------------------------------------------------------

TypeOK == /\ log \in [Sessions -> Seq(Messages)]
          /\ alive \in [Sessions -> BOOLEAN]

(* The messages of a turn stand together, its question first: a turn never *)
(* gets a second answer, nor a message in the middle of another turn.      *)
TurnsStandTogether ==
    \A s \in Sessions : \A i, j \in DOMAIN log[s] :
        (i < j /\ log[s][i].turn = log[s][j].turn)
            => j = i + 1 /\ log[s][i].role = "user" /\ log[s][j].role = "assistant"

(* An answer the student is shown as settled stands directly below the     *)
(* question of its own turn, whatever other turns were started meanwhile.  *)
AnswersFollowTheirQuestion ==
    \A s \in Sessions : \A i \in DOMAIN log[s] :
        (log[s][i].role = "assistant" /\ log[s][i].status \in Settled)
            => i > 1 /\ log[s][i - 1] = Question(log[s][i].turn)

(* Nothing is written to a deleted session: the route that deletes it takes *)
(* no lock, and a turn may still be running.                               *)
DeletedSessionsStayEmpty == \A s \in Sessions : ~alive[s] => log[s] = <<>>

(* A completed or failed answer is never edited: a step either leaves it   *)
(* in place or empties the session.                                        *)
FinishedAnswersAreFinal ==
    [][\A s \in Sessions : \A i \in DOMAIN log[s] :
          (log[s][i].role = "assistant" /\ log[s][i].status \in {"completed", "error"})
              => log'[s] = <<>> \/ (i \in DOMAIN log'[s] /\ log'[s][i] = log[s][i])
      ]_conversationVars

=============================================================================
