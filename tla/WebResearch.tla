---------------------------- MODULE WebResearch -----------------------------
(***************************************************************************)
(* A web-research turn: research/pipeline.py searches, research/policy.py  *)
(* picks the pages worth reading, research/fetch.py (a streamed turn) or   *)
(* tools/web_fetch.py (a buffered one) reads them in a pool of threads     *)
(* until enough are read, the attempts are spent or the time is over, and  *)
(* the answer is asked for with what was read.  A thread that is too late  *)
(* cannot be stopped: it ends when it ends.                                *)
(*                                                                         *)
(* A page is known by its address; what it says is left out.               *)
(***************************************************************************)
EXTENDS Integers, Sequences, FiniteSets, SequencesExt, FiniteSetsExt

CONSTANTS Answers,      \* what a search may answer: sequences of addresses
          Domain,       \* address -> its domain
          Skipped,      \* addresses that are seldom readable
          Rank,         \* address -> what _fetch_candidate_score subtracts
          Leads,        \* address -> where it redirects, itself, or None
          MaxRedirects,
          Wanted,       \* target_success_count
          MaxAttempts, MaxWorkers, None

VARIABLES turn,    \* the turn: what it searched, submitted, recorded, cites
          reads    \* target -> how far its thread is

vars == <<turn, reads>>

NoTurn == [at |-> "idle", streamed |-> FALSE, results |-> <<>>, retried |-> FALSE,
           targets |-> <<>>, next |-> 1, pages |-> <<>>, over |-> FALSE, shown |-> {},
           cards |-> {}, fetched |-> {}, answer |-> "none"]

Init == turn = NoTurn /\ reads = <<>>

-----------------------------------------------------------------------------
(* Which pages are worth reading.                                          *)

(* One result of each domain, the first, as far as the attempts go ...     *)
Candidates(results) ==
    LET readable == {i \in DOMAIN results : results[i] \notin Skipped}
        first == {i \in readable : \A j \in readable :
                     Domain[results[j]] = Domain[results[i]] => i <= j}
    IN  {i \in first : Cardinality({j \in first : j < i}) < MaxAttempts}

(* ... the most readable first.  A target is the number of its result.     *)
TargetsOf(results) ==
    LET candidates == Candidates(results)
        score == [i \in candidates |-> i - Rank[results[i]]]
        place == [i \in candidates |-> Cardinality({j \in candidates :
                     score[j] < score[i] \/ (score[j] = score[i] /\ j <= i)})]
    IN  AntiFunction(place)

(* Where a request ends that follows at most MaxRedirects redirects.       *)
Ends(address) ==
    LET hop[n \in 0 .. MaxRedirects + 1] ==
            IF n = 0 THEN address
            ELSE IF hop[n - 1] = None THEN None ELSE Leads[hop[n - 1]]
    IN  IF hop[MaxRedirects + 1] = hop[MaxRedirects] THEN hop[MaxRedirects] ELSE None

(* A page keeps the number of its search result; beside it, its address    *)
(* and where it was found.                                                 *)
Page(i, final) == [cite |-> i, url |-> turn.results[i], final |-> final]
IsOk(page) == page.final # None

(* Which of the pages were read.                                           *)
Read(pages) == {n \in DOMAIN pages : IsOk(pages[n])}

-----------------------------------------------------------------------------
(* Searching.                                                              *)

Refused(why) == turn' = [turn EXCEPT !.at = "done", !.answer = why]

Ask(streamed) ==
    /\ turn.at = "idle"
    /\ turn' = [NoTurn EXCEPT !.at = "search", !.streamed = streamed]
    /\ UNCHANGED reads

(* Out of scope, out of quota, or the provider fails.                      *)
SearchFails ==
    /\ turn.at = "search"
    /\ Refused("fallback")
    /\ UNCHANGED reads

(* An empty answer is asked for once more.                                 *)
SearchIsEmpty ==
    /\ turn.at = "search"
    /\ IF turn.retried THEN Refused("fallback")
       ELSE turn' = [turn EXCEPT !.retried = TRUE]
    /\ UNCHANGED reads

SearchAnswers ==
    /\ turn.at = "search"
    /\ \E results \in Answers :
          LET targets == TargetsOf(results)
          IN  /\ turn' = [turn EXCEPT !.at = "read", !.results = results, !.targets = targets]
              /\ reads' = [k \in DOMAIN targets |-> "none"]

-----------------------------------------------------------------------------
(* Reading.                                                                *)

Enough == Cardinality(Read(turn.pages)) >= Wanted
Pending == {k \in DOMAIN reads : reads[k] \in {"running", "ok", "failed"}}
Finished == {k \in DOMAIN reads : reads[k] \in {"ok", "failed"}}

(* A streamed turn starts a batch when the last one is over; a buffered    *)
(* one keeps the pool full.                                                *)
Batch ==
    IF turn.streamed
    THEN IF Pending = {}
         THEN Min({MaxWorkers, MaxAttempts - Len(turn.pages), Len(turn.targets) - turn.next + 1})
         ELSE 0
    ELSE Min({MaxWorkers - Cardinality(Pending), Len(turn.targets) - turn.next + 1})

CanSubmit == ~Enough /\ ~turn.over /\ turn.next <= Len(turn.targets) /\ Batch > 0

Submit ==
    /\ turn.at = "read" /\ CanSubmit
    /\ LET batch == turn.next .. turn.next + Batch - 1
       IN  reads' = [k \in DOMAIN reads |-> IF k \in batch THEN "running" ELSE reads[k]]
    /\ turn' = [turn EXCEPT !.next = @ + Batch]

(* A thread ends: fetch_web_page captures its errors.  Even an address     *)
(* that leads to a page may fail.                                          *)
EndRead(k) ==
    /\ reads[k] \in {"running", "left"}
    /\ \E how \in {"ok", "failed"} :
          /\ how = "ok" => Ends(turn.results[turn.targets[k]]) # None
          /\ reads' = [reads EXCEPT ![k] = IF @ = "left" THEN "none" ELSE how]
    /\ UNCHANGED turn

(* wait returns what has finished, in any order.                           *)
Record ==
    /\ turn.at = "read" /\ ~turn.over /\ ~Enough
    /\ Finished # {} /\ ~CanSubmit
    /\ \E order \in SetToSeqs(Finished) :
          LET page(k) == Page(turn.targets[k],
                  IF reads[k] = "ok" THEN Ends(turn.results[turn.targets[k]]) ELSE None)
              come == [n \in DOMAIN order |-> page(order[n])]
          IN  turn' = [turn EXCEPT !.pages = @ \o come,
                  !.shown = IF turn.streamed THEN @ \cup {come[n].cite : n \in Read(come)} ELSE @]
    /\ reads' = [k \in DOMAIN reads |-> IF k \in Finished THEN "recorded" ELSE reads[k]]

TimeIsOver ==
    /\ turn.at = "read" /\ ~turn.over
    /\ turn' = [turn EXCEPT !.over = TRUE]
    /\ UNCHANGED reads

(* executor.shutdown(wait=False, cancel_futures=True)                      *)
Abandon == reads' = [k \in DOMAIN reads |-> IF reads[k] = "running" THEN "left" ELSE "none"]

(* Mutant of Marked: a source is looked up by where its page was found.    *)
MarkedByFinal(pages) ==
    {i \in DOMAIN turn.results : \E p \in ToSet(pages) : IsOk(p) /\ p.final = turn.results[i]}

(* enrich_sources_with_fetch_metadata: of the pages found at a source's    *)
(* address, asked for or arrived at, the last one tells.                   *)
Marked(pages) ==
    {i \in DOMAIN turn.results :
        LET at == {n \in DOMAIN pages : turn.results[i] \in {pages[n].url, pages[n].final}}
        IN  at # {} /\ IsOk(pages[Max(at)])}

(* A buffered turn orders the pages as their targets.                      *)
Ordered(pages) ==
    IF turn.streamed THEN pages
    ELSE LET target == AntiFunction(turn.targets)
             place == [n \in DOMAIN pages |-> Cardinality({m \in DOMAIN pages :
                          target[pages[m].cite] <= target[pages[n].cite]})]
             at == AntiFunction(place)
         IN  [n \in DOMAIN pages |-> pages[at[n]]]

(* The end of the reading; whatever breaks in it leaves the search's own   *)
(* summaries.                                                              *)
EndReading ==
    /\ turn.at = "read" /\ ~CanSubmit
    /\ Enough \/ turn.over \/ (Pending = {} /\ reads # <<>>) \/ reads = <<>>
    /\ LET pages == Ordered(turn.pages)
       IN  \/ turn' = [turn EXCEPT !.at = "answer", !.pages = pages,
                          !.cards = Read(pages), !.fetched = Marked(pages)]
           \/ turn' = [turn EXCEPT !.at = "answer", !.pages = <<>>]
    /\ Abandon

(* Reading is switched off.                                                *)
SkipReading ==
    /\ turn.at = "read" /\ turn.next = 1
    /\ turn' = [turn EXCEPT !.at = "answer"]
    /\ Abandon

Answer ==
    /\ turn.at = "answer"
    /\ turn' = [turn EXCEPT !.at = "done", !.answer = "grounded"]
    /\ UNCHANGED reads

NextTurn ==
    /\ turn.at = "done" /\ \A k \in DOMAIN reads : reads[k] = "none"
    /\ turn' = NoTurn /\ reads' = <<>>

Next ==
    \/ \E streamed \in BOOLEAN : Ask(streamed)
    \/ SearchFails \/ SearchIsEmpty \/ SearchAnswers
    \/ Submit \/ (\E k \in DOMAIN reads : EndRead(k)) \/ Record
    \/ TimeIsOver \/ EndReading \/ SkipReading \/ Answer \/ NextTurn

Spec == Init /\ [][Next]_vars

-----------------------------------------------------------------------------

(* Whatever order the pages come in and whatever redirects, what is cited  *)
(* as [n] was read at the address of search result n, once, and the list   *)
(* of sources says so; a reader is not shown a page as read that had       *)
(* failed; at most MaxAttempts pages are asked for, at most MaxWorkers at  *)
(* a time, no two of one domain; and reading ends with less than was       *)
(* wanted only when nothing was left to try or the time was over.          *)
CitationsNameWhatWasRead ==
    /\ \A k, l \in turn.cards :
          LET page == turn.pages[k]
          IN  /\ turn.results[page.cite] = page.url
              /\ page.cite \in turn.fetched
              /\ page.cite = turn.pages[l].cite => k = l
    /\ \A i \in turn.fetched : \E k \in turn.cards :
          turn.results[i] \in {turn.pages[k].url, turn.pages[k].final}
    /\ turn.at \in {"answer", "done"} /\ turn.pages # <<>> /\ turn.streamed =>
          turn.shown = {turn.pages[k].cite : k \in turn.cards}
    /\ turn.next - 1 <= MaxAttempts
    /\ Cardinality({k \in DOMAIN reads : reads[k] \in {"running", "left"}}) <= MaxWorkers
    /\ turn.at = "answer" /\ turn.pages # <<>> /\ Cardinality(turn.cards) < Wanted =>
          turn.over \/ Len(turn.pages) = Len(turn.targets)

=============================================================================
