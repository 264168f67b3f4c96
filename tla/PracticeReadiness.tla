------------------------- MODULE PracticeReadiness --------------------------
(***************************************************************************)
(* How far a student's answers to one concept carry: summarize_practice of *)
(* teaching/practice.py, which every replay of the profile runs over all   *)
(* of them.  A test may ask an item again that was answered before, and    *)
(* tests may be stored in another order than they were answered in.        *)
(***************************************************************************)
EXTENDS Integers, Sequences, FiniteSets, SequencesExt, FiniteSetsExt

CONSTANTS Items,
          Harder,      \* the items that are not basic
          MaxTests,
          BatchSizes   \* how many of its questions are about the concept

VARIABLES tests   \* the tests by the time they were answered: their answers

vars == <<tests>>

(* An answer: the item, and whether it was right.                          *)
Answers == [item : Items, right : BOOLEAN]

Init == tests = <<>>

-----------------------------------------------------------------------------

(* Mutant of Effective: every exposure counts.                             *)
EffectiveAlways(done) == done

(* Of every item the first exposure counts, in the test it was in; a test  *)
(* of which nothing counts is none.                                        *)
Effective(done) ==
    LET exposures(n) == {p \in (1 .. n) \X (1 .. Max(BatchSizes)) : p[2] \in DOMAIN done[p[1]]}
        seen(n) == {done[p[1]][p[2]].item : p \in exposures(n)}
    IN  SelectSeq([n \in DOMAIN done |-> SelectSeq(done[n], LAMBDA a : a.item \notin seen(n - 1))],
                  LAMBDA batch : batch # <<>>)

Latest(list, n) == SubSeq(list, Max({1, Len(list) - n + 1}), Len(list))
All(batches) == FlattenSeq(batches)
TestOf(batches, i) == CHOOSE n \in DOMAIN batches :
    Len(All(SubSeq(batches, 1, n - 1))) < i /\ i <= Len(All(SubSeq(batches, 1, n)))
Count(list, Is(_)) == Cardinality({i \in DOMAIN list : Is(list[i])})
IsRight(a) == a.right
IsHarderRight(a) == a.right /\ a.item \in Harder

Lowest == [level |-> 0, batches |-> <<>>, spent |-> {}]

(* One test at a time: two new errors among the last three lower the level *)
(* by one, a test without an error raises it.                              *)
Weigh(state, batch) ==
    LET batches == Append(state.batches, batch)
        evidence == All(batches)
        window == Latest(evidence, 4)
        errors == {a.item : a \in {b \in ToSet(Latest(evidence, 3)) : ~b.right}} \ state.spent
        failed == \E a \in ToSet(batch) : ~a.right
        origins == {TestOf(batches, i) : i \in (Len(evidence) - Len(window) + 1) .. Len(evidence)}
        harder == /\ Len(window) >= 4 /\ Count(window, IsRight) >= 3
                  /\ Cardinality(origins) >= 2 /\ Count(window, IsHarderRight) >= 2
    IN  IF Cardinality(errors) >= 2 /\ failed
        THEN [level |-> Max({0, state.level - 1}), batches |-> batches, spent |-> state.spent \cup errors]
        ELSE [state EXCEPT !.batches = batches,
                 !.level = IF failed \/ Len(batch) < 2 THEN @
                           ELSE IF @ = 0 THEN 1
                           ELSE IF harder THEN Min({2, @ + 1}) ELSE @]

Level(done) == FoldLeft(Weigh, Lowest, Effective(done)).level

(* needs_practice, practiced, ready_for_extension                          *)
Readiness(done) ==
    IF \E a \in ToSet(Latest(All(done), 6)) : ~a.right THEN 0 ELSE Level(done)

-----------------------------------------------------------------------------

(* A test of distinct items is answered.                                   *)
Submit ==
    /\ Len(tests) < MaxTests
    /\ \E size \in BatchSizes : \E test \in [1 .. size -> Answers] :
          /\ \A i, j \in 1 .. size : test[i].item = test[j].item => i = j
          /\ tests' = Append(tests, test)

(* A test is stored late: it was answered before the last one.             *)
SubmitLate ==
    /\ Len(tests) \in 1 .. MaxTests - 1
    /\ \E size \in BatchSizes : \E test \in [1 .. size -> Answers] :
          /\ \A i, j \in 1 .. size : test[i].item = test[j].item => i = j
          /\ tests' = Front(tests) \o <<test, Last(tests)>>

Next == Submit \/ SubmitLate

Spec == Init /\ [][Next]_vars

-----------------------------------------------------------------------------

RightFirst == {a.item : a \in {b \in ToSet(All(Effective(tests))) : b.right}}

(* Nobody is offered extension work who made an error in the last six      *)
(* answers, or who has not, in two tests, three items right at the first   *)
(* sight, two of them harder ones; a level above the lowest rests on two   *)
(* items right at the first sight; and a test that asks only what was      *)
(* asked before changes no level (summarize_practice).                     *)
ReadinessIsEarned ==
    /\ Level(tests) > 0 => Cardinality(RightFirst) >= 2
    /\ Level(tests) = 2 => /\ Cardinality(RightFirst) >= 3 /\ Cardinality(RightFirst \cap Harder) >= 2
                           /\ Len(tests) >= 2
    /\ Readiness(tests) = 2 => \A a \in ToSet(Latest(All(tests), 6)) : a.right
    /\ tests # <<>> =>
          LET before == Front(tests)
              asked == {a.item : a \in ToSet(All(before))}
          IN  {a.item : a \in ToSet(Last(tests))} \subseteq asked => Level(tests) = Level(before)

=============================================================================
