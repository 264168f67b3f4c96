----------------------------- MODULE WeakSpots ------------------------------
(***************************************************************************)
(* The weak spots of one student: what a turn records of what was asked    *)
(* (agent/hooks/learning_event.py), how teaching/memory_core.py replays    *)
(* the facts, and how the student closes a weak spot by hand               *)
(* (teaching/profile_snapshot_repository.py, api/routers/profile.py).      *)
(* Facts are stamped when they are built and stored some time after, so    *)
(* those of two sessions may be stored in the other order.                 *)
(***************************************************************************)
EXTENDS Integers, Sequences, FiniteSets, SequencesExt, FiniteSetsExt

CONSTANTS Sessions, Concepts, MaxTime, None

VARIABLES log,      \* learning_events, as they were stored
          turns,    \* session -> the facts its turn has built
          manual,   \* the request to close a weak spot
          clock

vars == <<log, turns, manual, clock>>

NoRequest == [at |-> "idle", concept |-> None, time |-> 0, outcome |-> "none"]

Init ==
    /\ log = <<>>
    /\ turns = [s \in Sessions |-> <<>>]
    /\ manual = NoRequest
    /\ clock = 0

-----------------------------------------------------------------------------
(* The replay.                                                             *)

Fact(kind, concept, session, time) ==
    [kind |-> kind, concept |-> concept, session |-> session, time |-> time]

(* Mutant of Replayed: the facts are replayed as they were stored.         *)
AsStored(facts) == facts

(* _prepare_events: by time, those of one time as they were stored.        *)
Replayed(facts) ==
    LET before(i) == {j \in DOMAIN facts :
            facts[j].time < facts[i].time \/ (facts[j].time = facts[i].time /\ j < i)}
    IN  [k \in DOMAIN facts |->
            facts[CHOOSE i \in DOMAIN facts : Cardinality(before(i)) = k - 1]]

FactsOf(c) == SelectSeq(Replayed(log), LAMBDA f : f.concept = c)

(* _detect_weak_spots, of one concept: the clarifications of the open      *)
(* cycle, those of each cycle resolved, and the misconceptions.            *)
NoSpot == [open |-> 0, resolved |-> <<>>, wrong |-> 0]

Detect(spot, fact) ==
    CASE fact.kind = "clarification" -> [spot EXCEPT !.open = @ + 1]
      [] fact.kind = "misconception" -> [spot EXCEPT !.wrong = @ + 1]
      [] fact.kind = "mastery" ->
            [spot EXCEPT !.open = 0, !.resolved = IF spot.open >= 2 THEN Append(@, spot.open) ELSE @]
      [] OTHER -> spot

Spot(c) == FoldLeft(Detect, NoSpot, FactsOf(c))
IsActive(spot) == spot.open >= 2 \/ spot.wrong > 0

-----------------------------------------------------------------------------
(* What a turn records.                                                    *)

(* get_recent_session_concept_event: the concept mentioned last in this    *)
(* session.                                                                *)
Recent(s) ==
    LET mentions == SelectSeq(Replayed(log), LAMBDA f : f.session = s /\ f.kind = "mention")
        others == SelectSeq(Replayed(log), LAMBDA f : f.session = s)
    IN  IF mentions # <<>> THEN Last(mentions).concept
        ELSE IF others # <<>> THEN Last(others).concept ELSE None

(* record_learning_events: every concept of the question is mentioned, the *)
(* cue goes to the first; a question that names none is about the recent   *)
(* one.  That something is understood is recorded of the recent one only:  *)
(* where the message names a concept the signal has no event to refer to.  *)
Build(s, named, cue) ==
    /\ turns[s] = <<>> /\ clock < MaxTime
    /\ LET about == IF named = <<>> THEN Recent(s) ELSE named[1]
           mentions == IF cue = "mastery" THEN <<>>
                       ELSE IF named = <<>> THEN <<about>> ELSE named
           cues == IF cue = "none" THEN <<>> ELSE <<Fact(cue, about, s, clock + 1)>>
           built == [i \in DOMAIN mentions |-> Fact("mention", mentions[i], s, clock + 1)] \o cues
       IN  /\ about # None
           /\ cue = "mastery" => named = <<>>
           /\ turns' = [turns EXCEPT ![s] = built]
    /\ clock' = clock + 1
    /\ UNCHANGED <<log, manual>>

(* A wrong answer to a judgement, in a course that keeps it here.          *)
BuildMisconception(s, c) ==
    /\ turns[s] = <<>> /\ clock < MaxTime
    /\ turns' = [turns EXCEPT ![s] = <<Fact("misconception", c, s, clock + 1)>>]
    /\ clock' = clock + 1
    /\ UNCHANGED <<log, manual>>

Store(s) ==
    /\ turns[s] # <<>>
    /\ log' = log \o turns[s]
    /\ turns' = [turns EXCEPT ![s] = <<>>]
    /\ UNCHANGED <<manual, clock>>

(* The turn fails before its facts are stored.                             *)
Forget(s) ==
    /\ turns[s] # <<>>
    /\ turns' = [turns EXCEPT ![s] = <<>>]
    /\ UNCHANGED <<log, manual, clock>>

-----------------------------------------------------------------------------
(* resolve_active_weak_spot, whose steps interleave with the turns.        *)

Look(c) ==
    /\ manual.at = "idle" /\ clock < MaxTime
    /\ manual' = IF IsActive(Spot(c))
                 THEN [at |-> "append", concept |-> c, time |-> clock + 1, outcome |-> "none"]
                 ELSE [at |-> "done", concept |-> c, time |-> 0, outcome |-> "not found"]
    /\ clock' = clock + 1
    /\ UNCHANGED <<log, turns>>

AppendMastery ==
    /\ manual.at = "append"
    /\ log' = Append(log, Fact("mastery", manual.concept, None, manual.time))
    /\ manual' = [manual EXCEPT !.at = "reread"]
    /\ UNCHANGED <<turns, clock>>

Reread ==
    /\ manual.at = "reread"
    /\ manual' = [manual EXCEPT !.at = "done",
            !.outcome = IF Spot(manual.concept).resolved # <<>> THEN "resolved" ELSE "failed"]
    /\ UNCHANGED <<log, turns, clock>>

Next ==
    \/ \E s \in Sessions :
          \/ \E named \in {<<>>} \cup {<<c>> : c \in Concepts} \cup SetToSeqs(Concepts) :
                \E cue \in {"none", "clarification", "mastery"} : Build(s, named, cue)
          \/ \E c \in Concepts : BuildMisconception(s, c)
          \/ Store(s) \/ Forget(s)
    \/ (\E c \in Concepts : Look(c)) \/ AppendMastery \/ Reread

Spec == Init /\ [][Next]_vars

-----------------------------------------------------------------------------

(* The facts of c and of one kind with a time after t.                     *)
After(c, kind, t) ==
    Cardinality({i \in DOMAIN log : log[i].concept = c /\ log[i].kind = kind /\ log[i].time > t})

(* A clarification weak spot is open exactly where two or more             *)
(* clarifications came after the last mastery signal, whatever order the   *)
(* facts were stored in.  A weak spot that the student is told to have     *)
(* closed stands in the history, and is open again only for two            *)
(* clarifications that came after; it is refused only for what a mastery   *)
(* signal does not close, a misconception, or where an older signal was    *)
(* stored late.                                                            *)
WeakSpotsAreEarned ==
    /\ \A c \in Concepts :
          LET signals == {log[i].time : i \in {j \in DOMAIN log :
                              log[j].concept = c /\ log[j].kind = "mastery"}}
          IN  Spot(c).open = After(c, "clarification", Max(signals \cup {0}))
    /\ manual.outcome = "resolved" =>
          /\ Spot(manual.concept).open >= 2 => After(manual.concept, "clarification", manual.time) >= 2
    /\ manual.outcome = "failed" =>
          \/ Spot(manual.concept).wrong > 0
          \/ \E i, j \in DOMAIN log : /\ log[i].kind = "mastery" /\ log[i].concept = manual.concept
                                      /\ j < i /\ log[i].time < log[j].time

=============================================================================
