-------------------------- MODULE ContextAssembly --------------------------
(***************************************************************************)
(* retrieval/context_assembler.py: the passages a retriever has ranked     *)
(* become the context of the answer.  Passages overlap, because the        *)
(* chunker lets them; a character of the textbook goes to the model once.  *)
(* A passage is a page and a half-open interval of its characters.         *)
(***************************************************************************)
EXTENDS Integers, Sequences, SequencesExt, FiniteSets, FiniteSetsExt, Folds

CONSTANTS Pages, Length,   \* pages of the textbook, and characters of a page
          BlankAt,         \* the characters of a page that are white space
          Depth            \* candidate_depth

VARIABLES covered,     \* page -> the merged intervals the context holds
          fragments,   \* what the context holds, in order
          removed,     \* duplicate_characters_removed
          skipped,     \* skipped_fully_covered_count
          stopped,     \* stopped_on_overflow
          ranked       \* the candidates so far, with what became of them

vars == <<covered, fragments, removed, skipped, stopped, ranked>>

Intervals == {i \in (0 .. Length) \X (0 .. Length) : i[1] < i[2]}
Characters(interval) == interval[1] .. (interval[2] - 1)
Size(intervals) == FoldSet(LAMBDA i, n : n + i[2] - i[1], 0, intervals)
InOrder(intervals) == SetToSortSeq(intervals, LAMBDA i, j : i[1] < j[1])

(* _merge_intervals; no two of the given intervals start together.         *)
Merged(intervals) ==
    LET Join(done, i) ==
          IF done # <<>> /\ i[1] <= Last(done)[2]
          THEN Append(Front(done), <<Last(done)[1], Max({Last(done)[2], i[2]})>>)
          ELSE Append(done, i)
    IN  ToSet(FoldLeft(Join, <<>>, InOrder(intervals)))

(* subtract_interval: a cursor runs over the covered intervals in order.   *)
Subtract(interval, taken) ==
    LET Step(at, i) ==
          IF i[2] <= at.cursor \/ i[1] >= interval[2] THEN at
          ELSE [left   |-> IF i[1] > at.cursor
                           THEN at.left \cup {<<at.cursor, Min({i[1], interval[2]})>>}
                           ELSE at.left,
                cursor |-> Max({at.cursor, i[2]})]
        end == FoldLeft(Step, [left |-> {}, cursor |-> interval[1]], InOrder(taken))
    IN  IF end.cursor < interval[2] THEN end.left \cup {<<end.cursor, interval[2]>>}
        ELSE end.left

(* Mutant of Cover: the page keeps only the passage taken last.            *)
CoverAnew(page, remaining) == covered' = [covered EXCEPT ![page] = Merged(remaining)]

Cover(page, remaining) ==
    covered' = [covered EXCEPT ![page] = Merged(@ \cup remaining)]

Init ==
    /\ covered = [p \in Pages |-> {}]
    /\ fragments = <<>>
    /\ removed = 0 /\ skipped = 0
    /\ stopped = FALSE
    /\ ranked = <<>>

(* The next candidate: nothing of it is new, or only white space is and    *)
(* it is skipped; it is added; or it would exceed the budget of tokens,    *)
(* and no later candidate is looked at.                                    *)
Consider(page, interval) ==
    LET remaining == Subtract(interval, covered[page])
        new == {i \in remaining : ~(Characters(i) \subseteq BlankAt)}
        Rank(fate) == ranked' = Append(ranked, [page |-> page, interval |-> interval,
                                                fate |-> fate])
        Count == removed' = removed + Size({interval}) - Size(remaining)
    IN  IF new = {}
        THEN /\ skipped' = skipped + 1
             /\ Count /\ Rank("skipped")
             /\ UNCHANGED <<covered, fragments, stopped>>
        ELSE \/ /\ stopped' = TRUE
                /\ Rank("overflow")
                /\ UNCHANGED <<covered, fragments, removed, skipped>>
             \/ /\ fragments' = fragments \o
                     [k \in 1 .. Cardinality(new) |->
                        [page |-> page, interval |-> InOrder(new)[k]]]
                /\ Cover(page, remaining)
                /\ Count /\ Rank("selected")
                /\ UNCHANGED <<skipped, stopped>>

Next ==
    /\ ~stopped /\ Len(ranked) < Depth
    /\ \E page \in Pages, interval \in Intervals : Consider(page, interval)

Spec == Init /\ [][Next]_vars

-----------------------------------------------------------------------------

(* The characters that candidates up to the k-th have brought in, computed *)
(* without the cursor and the merged intervals.                            *)
Taken(page, k) ==
    UNION {Characters(ranked[j].interval) :
             j \in {n \in 1 .. k : ranked[n].page = page /\ ranked[n].fate = "selected"}}

(* The context repeats no character, holds every character of the          *)
(* candidates before the stop that is not white space and none of any      *)
(* other, and duplicate_characters_removed is exact.                       *)
ContextIsExact ==
    /\ \A m, n \in DOMAIN fragments :
          m # n /\ fragments[m].page = fragments[n].page
          => Characters(fragments[m].interval) \cap Characters(fragments[n].interval) = {}
    /\ \A page \in Pages :
          LET held == UNION {Characters(fragments[n].interval) :
                               n \in {k \in DOMAIN fragments : fragments[k].page = page}}
              asked == UNION {Characters(ranked[n].interval) :
                                n \in {k \in DOMAIN ranked : /\ ranked[k].page = page
                                                             /\ ranked[k].fate # "overflow"}}
          IN  /\ held \ BlankAt = asked \ BlankAt
              /\ held \subseteq asked
    /\ removed = FoldSet(LAMBDA k, n : n + Cardinality(Characters(ranked[k].interval)
                                                  \cap Taken(ranked[k].page, k - 1)),
                         0, {k \in DOMAIN ranked : ranked[k].fate # "overflow"})

=============================================================================
