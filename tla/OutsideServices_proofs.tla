------------------------- MODULE OutsideServices_proofs -------------------------
(***************************************************************************)
(* Proofs about the parts of a turn that ask a service outside: the pages  *)
(* of the web, read by several threads, and the embeddings, asked by       *)
(* several callers behind one breaker.                                     *)
(***************************************************************************)
EXTENDS Teaching, TLAPS, FiniteSetTheorems, SequenceTheorems, WellFoundedInduction

-----------------------------------------------------------------------------
(* Web research: every page is known by its search result.                  *)
WebAddresses == DOMAIN Domain

PageRecords == [cite : Nat, url : WebAddresses, final : {None} \cup {Web!Ends(a) : a \in WebAddresses}]

WebTurns ==
    [at : {"idle", "search", "read", "answer", "done"}, streamed : BOOLEAN,
     results : Seq(WebAddresses), retried : BOOLEAN, targets : Seq(Nat), next : Nat,
     pages : Seq(PageRecords), over : BOOLEAN, shown : SUBSET Nat, cards : SUBSET Nat,
     fetched : SUBSET Nat, answer : {"none", "fallback", "grounded"}]

ThreadStates == {"none", "running", "ok", "failed", "recorded", "left"}

(* Targets name results of distinct addresses and domains, and pages name  *)
(* targets, each once.                                                     *)
NamesTargets(pages, targets, results) ==
    /\ \A n \in DOMAIN pages :
          /\ \E k \in DOMAIN targets : pages[n].cite = targets[k]
          /\ pages[n].url = results[pages[n].cite]
    /\ \A m, n \in DOMAIN pages : pages[m].cite = pages[n].cite => m = n

AreTargets(targets, results) ==
    /\ Len(targets) <= MaxAttempts
    /\ \A k \in DOMAIN targets : targets[k] \in DOMAIN results
    /\ \A k, l \in DOMAIN targets : results[targets[k]] = results[targets[l]] => k = l

(* What is cited was read, in the words of the property.                   *)
CitesWhatWasRead(t) ==
    /\ t.cards \subseteq DOMAIN t.pages
    /\ \A k, l \in t.cards :
          /\ t.results[t.pages[k].cite] = t.pages[k].url
          /\ t.pages[k].cite \in t.fetched
          /\ t.pages[k].cite = t.pages[l].cite => k = l
    /\ \A i \in t.fetched : \E k \in t.cards :
          t.results[i] \in {t.pages[k].url, t.pages[k].final}

(* While pages are read, exactly the threads before the next target were   *)
(* started, and the recorded ones have their page.                         *)
ReadsInOrder(t, r) ==
    /\ \A k \in DOMAIN t.targets : r[k] = "none" <=> k >= t.next
    /\ \A k \in DOMAIN t.targets : r[k] # "left"
    /\ \A k \in DOMAIN t.targets :
          r[k] = "recorded" <=> \E n \in DOMAIN t.pages : t.pages[n].cite = t.targets[k]
    /\ t.streamed => t.shown = {t.pages[n].cite : n \in Web!Read(t.pages)}
    /\ t.cards = {} /\ t.fetched = {}

BusyReads(r) == {k \in DOMAIN r : r[k] \in {"running", "ok", "failed", "left"}}

WebInv ==
    /\ webTurn \in WebTurns
    /\ webReads \in [1 .. Len(webTurn.targets) -> ThreadStates]
    /\ AreTargets(webTurn.targets, webTurn.results)
    /\ webTurn.next \in 1 .. Len(webTurn.targets) + 1
    /\ NamesTargets(webTurn.pages, webTurn.targets, webTurn.results)
    /\ CitesWhatWasRead(webTurn)
    /\ webTurn.at \in {"idle", "search"} =>
          /\ webTurn.targets = <<>> /\ webTurn.pages = <<>> /\ webTurn.cards = {}
          /\ webTurn.fetched = {} /\ webTurn.shown = {} /\ webTurn.next = 1
    /\ webTurn.at = "read" => ReadsInOrder(webTurn, webReads)
    /\ webTurn.at # "read" => \A k \in DOMAIN webReads : webReads[k] \in {"none", "left"}
    /\ webTurn.at \in {"answer", "done"} /\ webTurn.pages # <<>> /\ webTurn.streamed =>
          webTurn.shown = {webTurn.pages[k].cite : k \in webTurn.cards}
    /\ webTurn.at = "answer" /\ webTurn.pages # <<>> /\ Cardinality(webTurn.cards) < Wanted =>
          webTurn.over \/ Len(webTurn.pages) = Len(webTurn.targets)
    /\ Cardinality(BusyReads(webReads)) <= MaxWorkers

(* The instance counts as the library does.                                *)
LEMMA WebCounts == \A S : Web!Cardinality(S) = Cardinality(S)
  BY DEF Web!Cardinality, Cardinality

-----------------------------------------------------------------------------
(* A nonempty set of natural numbers has a least member.                   *)
LEMMA LeastExists ==
    ASSUME NEW S \in SUBSET Nat, S # {}
    PROVE  \E x \in S : \A y \in S : x <= y
  <1> DEFINE Below == {0 .. x : x \in S}
  <1>1. Below \in SUBSET FiniteSubsetsOf(Nat) /\ Below # {}
    <2>1. ASSUME NEW x \in S PROVE 0 .. x \in FiniteSubsetsOf(Nat)
      <3>1. IsFiniteSet(0 .. x) /\ 0 .. x \subseteq Nat
        BY FS_Interval
      <3> QED BY <3>1 DEF FiniteSubsetsOf
    <2> QED BY <2>1
  <1>2. PICK B \in Below : \A C \in Below : ~(<<C, B>> \in StrictSubsetOrdering(Nat))
    BY <1>1, WFMin, FS_StrictSubsetOrderingWellFounded
  <1>3. PICK x \in S : B = 0 .. x
    BY <1>2
  <1>4. ASSUME NEW y \in S PROVE x <= y
    <2>1. SUFFICES ASSUME y < x PROVE FALSE
      OBVIOUS
    <2>2. 0 .. y \subseteq 0 .. x /\ x \in 0 .. x /\ x \notin 0 .. y
      BY <2>1
    <2>3. <<0 .. y, B>> \in StrictSubsetOrdering(Nat)
      BY <1>3, <2>2 DEF StrictSubsetOrdering
    <2> QED BY <1>2, <2>3
  <1> QED BY <1>4

(* A nonempty set of natural numbers with an upper bound has a greatest    *)
(* member.                                                                 *)
LEMMA GreatestExists ==
    ASSUME NEW n \in Nat, NEW S \in SUBSET (0 .. n), S # {}
    PROVE  \E x \in S : \A y \in S : y <= x
  <1> DEFINE Flipped == {n - x : x \in S}
  <1>1. Flipped \in SUBSET Nat /\ Flipped # {}
    <2>1. \A x \in S : n - x \in Nat
      OBVIOUS
    <2>2. \A z \in Flipped : z \in Nat
      BY <2>1
    <2>3. PICK x \in S : TRUE
      OBVIOUS
    <2>4. n - x \in Flipped
      BY <2>3
    <2> QED BY <2>2, <2>4
  <1>2. PICK z \in Flipped : \A y \in Flipped : z <= y
    <2> HIDE DEF Flipped
    <2> QED BY <1>1, LeastExists
  <1>3. PICK x \in S : z = n - x
    BY <1>2
  <1>4. ASSUME NEW y \in S PROVE y <= x
    <2>1. n - x <= n - y
      BY <1>2, <1>3
    <2> QED BY <2>1
  <1> QED BY <1>4

(* A chain of sets, one for each element, and how many each one has.       *)
Numbers(place, upTo, S) ==
    /\ IsFiniteSet(S) /\ upTo \in [S -> SUBSET S] /\ place \in [S -> Nat]
    /\ \A i \in S : i \in upTo[i]
    /\ \A i, j \in S : upTo[i] \subseteq upTo[j] \/ upTo[j] \subseteq upTo[i]
    /\ \A i, j \in S : upTo[i] = upTo[j] => i = j
    /\ \A i \in S : place[i] = Cardinality(upTo[i])

Arranges(at, S) ==
    /\ at \in [1 .. Cardinality(S) -> S]
    /\ \A i \in S : \E n \in 1 .. Cardinality(S) : at[n] = i
    /\ \A m, n \in 1 .. Cardinality(S) : at[m] = at[n] => m = n

(* Numbering by counting what is not after: a sequence of all elements.    *)
LEMMA Numbered ==
    ASSUME NEW S, NEW upTo, NEW place, Numbers(place, upTo, S)
    PROVE  Arranges(Web!AntiFunction(place), S)
  <1> DEFINE at == Web!AntiFunction(place)
  <1> USE DEF Numbers
  <1> DEFINE N == Cardinality(S)
  <1>0. N \in Nat
    BY FS_CardinalityType
  <1>1. ASSUME NEW i \in S
        PROVE  IsFiniteSet(upTo[i]) /\ Cardinality(upTo[i]) \in 1 .. N
    <2>1. IsFiniteSet(upTo[i]) /\ Cardinality(upTo[i]) <= N
      BY FS_Subset
    <2>2. Cardinality(upTo[i]) \in Nat /\ Cardinality(upTo[i]) # 0
      BY <2>1, FS_CardinalityType, FS_EmptySet
    <2> QED BY <2>1, <2>2, <1>0
  <1>2. place \in [S -> 1 .. N]
    BY <1>1
  <1>3. ASSUME NEW i \in S, NEW j \in S, place[i] = place[j] PROVE i = j
    <2>1. Cardinality(upTo[i]) = Cardinality(upTo[j])
      BY <1>3
    <2>2. upTo[i] = upTo[j]
      BY <2>1, <1>1, FS_Subset
    <2> QED BY <2>2
  <1>4. place \in Injection(S, 1 .. N)
    BY <1>2, <1>3 DEF Injection, IsInjective
  <1>5. IsFiniteSet(1 .. N) /\ Cardinality(1 .. N) = N
    <2>1. IsFiniteSet(1 .. N) /\ Cardinality(1 .. N) = IF 1 > N THEN 0 ELSE N - 1 + 1
      BY <1>0, FS_Interval
    <2> QED BY <2>1, <1>0
  <1>6. place \in Surjection(S, 1 .. N)
    BY <1>4, <1>5, FS_Injection
  <1>7. \A n \in 1 .. N : \E i \in S : place[i] = n
    BY <1>6 DEF Surjection
  <1>8. DOMAIN place = S /\ Web!Range(place) = 1 .. N
    BY <1>2, <1>7 DEF Web!Range
  <1>9. at = [n \in 1 .. N |-> CHOOSE i \in S : n \in 1 .. N => place[i] = n]
    <2>1. Web!AntiFunction(place) = [n \in 1 .. N |-> CHOOSE i \in S : n \in 1 .. N => place[i] = n]
      BY <1>8 DEF Web!AntiFunction, Web!Inverse
    <2> QED BY <2>1
  <1>10. ASSUME NEW n \in 1 .. N PROVE at[n] \in S /\ place[at[n]] = n
    BY <1>7, <1>9
  <1>11. at \in [1 .. N -> S]
    BY <1>9, <1>10
  <1>12. ASSUME NEW i \in S PROVE \E n \in 1 .. N : at[n] = i
    BY <1>2, <1>3, <1>10
  <1>13. \A m, n \in 1 .. N : at[m] = at[n] => m = n
    BY <1>10
  <1> QED BY <1>11, <1>12, <1>13 DEF Arranges

(* Min picks the member that no other is below.                            *)
LEMMA LeastOf ==
    ASSUME NEW S \in SUBSET Int, NEW x \in S, \A y \in S : x <= y
    PROVE  Web!Min(S) \in S /\ \A y \in S : Web!Min(S) <= y
  BY DEF Web!Min

(* The least of two numbers is one of them and above neither.              *)
LEMMA LeastOfPair ==
    ASSUME NEW a \in Int, NEW b \in Int
    PROVE  Web!Min({a, b}) \in {a, b} /\ Web!Min({a, b}) <= a /\ Web!Min({a, b}) <= b
  <1> DEFINE S == {a, b}
  <1>1. \E x \in S : \A y \in S : x <= y
    BY SMT
  <1>2. S \in SUBSET Int
    OBVIOUS
  <1>3. Web!Min(S) \in S /\ \A y \in S : Web!Min(S) <= y
    <2> HIDE DEF S
    <2> QED BY <1>1, <1>2, LeastOf
  <1> QED BY <1>3

(* The least of three numbers is one of them and above none.               *)
LEMMA LeastOfThree ==
    ASSUME NEW a \in Int, NEW b \in Int, NEW c \in Int
    PROVE  /\ Web!Min({a, b, c}) \in {a, b, c}
           /\ Web!Min({a, b, c}) <= a /\ Web!Min({a, b, c}) <= b /\ Web!Min({a, b, c}) <= c
  <1> DEFINE S == {a, b, c}
  <1>1. \E x \in S : \A y \in S : x <= y
    <2>1. CASE a <= b /\ a <= c
      BY <2>1
    <2>2. CASE b <= a /\ b <= c
      BY <2>2
    <2>3. CASE c <= a /\ c <= b
      BY <2>3
    <2> QED BY <2>1, <2>2, <2>3
  <1>2. S \in SUBSET Int
    OBVIOUS
  <1>3. Web!Min(S) \in S /\ \A y \in S : Web!Min(S) <= y
    <2> HIDE DEF S
    <2> QED BY <1>1, <1>2, LeastOf
  <1> QED BY <1>3

(* The greatest of a bounded set is a member and below none.               *)
LEMMA GreatestOf ==
    ASSUME NEW n \in Nat, NEW S \in SUBSET (0 .. n), S # {}
    PROVE  Web!Max(S) \in S /\ \A y \in S : Web!Max(S) >= y
  <1>1. PICK x \in S : \A y \in S : y <= x
    BY GreatestExists
  <1>2. \A y \in S : x >= y
    BY <1>1
  <1> QED BY <1>2 DEF Web!Max

-----------------------------------------------------------------------------
(* Targets.                                                                *)
LEMMA CandidatesAreFew ==
    ASSUME NEW results \in Seq(WebAddresses)
    PROVE  /\ Web!Candidates(results) \subseteq DOMAIN results
           /\ IsFiniteSet(Web!Candidates(results))
           /\ Cardinality(Web!Candidates(results)) <= MaxAttempts
           /\ \A i, j \in Web!Candidates(results) : results[i] = results[j] => i = j
  <1> DEFINE readable == {i \in DOMAIN results : results[i] \notin Skipped}
             first == {i \in readable : \A j \in readable :
                          Domain[results[j]] = Domain[results[i]] => i <= j}
             C == Web!Candidates(results)
  <1>1. C = {i \in first : Cardinality({j \in first : j < i}) < MaxAttempts}
    BY WebCounts DEF Web!Candidates
  <1>2. DOMAIN results = 1 .. Len(results) /\ Len(results) \in Nat
    OBVIOUS
  <1>3. C \subseteq first /\ first \subseteq DOMAIN results
    BY <1>1
  <1>4. IsFiniteSet(DOMAIN results)
    BY <1>2, FS_Interval
  <1>5. IsFiniteSet(first) /\ IsFiniteSet(C)
    BY <1>3, <1>4, FS_Subset
  <1>6. \A i, j \in C : results[i] = results[j] => i = j
    <2>1. \A i, j \in first : results[i] = results[j] => i <= j
      OBVIOUS
    <2>2. \A i, j \in first : i \in Nat /\ j \in Nat
      BY <1>2
    <2> HIDE DEF first
    <2> QED BY <2>1, <2>2, <1>3
  <1>7. Cardinality(C) <= MaxAttempts
    <2>1. CASE C = {}
      BY <2>1, FS_EmptySet, WebAssumption
    <2>2. CASE C # {}
      <3>1. PICK m \in C : \A i \in C : i <= m
        <4>1. C \in SUBSET (0 .. Len(results))
          BY <1>2, <1>3
        <4> HIDE DEF C
        <4> QED BY <4>1, <2>2, <1>2, GreatestExists
      <3> DEFINE before == {j \in first : j < m}
      <3>2. C \ {m} \subseteq before
        BY <3>1, <1>2, <1>3
      <3>3. IsFiniteSet(before) /\ Cardinality(before) < MaxAttempts
        <4>1. before \subseteq first
          OBVIOUS
        <4>2. IsFiniteSet(before)
          <5> HIDE DEF before, first
          <5> QED BY <4>1, <1>5, FS_Subset
        <4> QED BY <4>2, <1>1, <3>1
      <3> HIDE DEF before, C, first
      <3>4. Cardinality(C \ {m}) <= Cardinality(before)
        BY <3>2, <3>3, FS_Subset
      <3>5. Cardinality(C \ {m}) = Cardinality(C) - 1
        BY <3>1, <1>5, FS_RemoveElement
      <3>6. Cardinality(C) \in Nat /\ Cardinality(before) \in Nat
        BY <1>5, <3>3, FS_CardinalityType
      <3> QED BY <3>3, <3>4, <3>5, <3>6, WebAssumption
    <2> QED BY <2>1, <2>2
  <1> HIDE DEF C, first
  <1> QED BY <1>3, <1>5, <1>6, <1>7 DEF C

(* The pages chosen for reading are results of the search, each named      *)
(* once.                                                                   *)
LEMMA TargetsAreSound ==
    ASSUME NEW results \in Seq(WebAddresses)
    PROVE  /\ Web!TargetsOf(results) \in Seq(Nat)
           /\ AreTargets(Web!TargetsOf(results), results)
  <1> DEFINE C == Web!Candidates(results)
             score == [i \in C |-> i - PageRank[results[i]]]
             upTo == [i \in C |-> {j \in C :
                        score[j] < score[i] \/ (score[j] = score[i] /\ j <= i)}]
             targets == Web!TargetsOf(results)
  <1>1. /\ C \subseteq DOMAIN results /\ IsFiniteSet(C) /\ Cardinality(C) <= MaxAttempts
        /\ \A i, j \in C : results[i] = results[j] => i = j
    BY CandidatesAreFew
  <1>2. \A i \in C : i \in Nat /\ results[i] \in WebAddresses
    BY <1>1
  <1>3. \A i \in C : score[i] \in Int
    BY <1>2, WebAssumption DEF WebAddresses
  <1> DEFINE place == [i \in C |-> Cardinality(upTo[i])]
  <1>4. targets = Web!AntiFunction(place)
    <2>1. \A i \in C : upTo[i] = {j \in C :
              score[j] < score[i] \/ (score[j] = score[i] /\ j <= i)}
      OBVIOUS
    <2>2. [i \in C |-> Cardinality(upTo[i])] = [i \in C |-> Cardinality({j \in C :
              score[j] < score[i] \/ (score[j] = score[i] /\ j <= i)})]
      BY <2>1
    <2> QED BY <2>2, WebCounts DEF Web!TargetsOf
  <1>5. /\ upTo \in [C -> SUBSET C]
        /\ \A i \in C : i \in upTo[i]
        /\ \A i, j \in C : upTo[i] \subseteq upTo[j] \/ upTo[j] \subseteq upTo[i]
        /\ \A i, j \in C : upTo[i] = upTo[j] => i = j
    <2> HIDE DEF C, score
    <2>1. \A i, j \in C : j \in upTo[i] <=>
              score[j] < score[i] \/ (score[j] = score[i] /\ j <= i)
      OBVIOUS
    <2>2. upTo \in [C -> SUBSET C]
      OBVIOUS
    <2> HIDE DEF upTo
    <2>3. \A i \in C : i \in upTo[i]
      BY <2>1, <1>2, <1>3
    <2>4. ASSUME NEW i \in C, NEW j \in C
          PROVE  upTo[i] \subseteq upTo[j] \/ upTo[j] \subseteq upTo[i]
      <3>1. CASE j \in upTo[i]
        <4>1. \A l \in C : l \in upTo[j] => l \in upTo[i]
          BY <3>1, <2>1, <1>2, <1>3
        <4> QED BY <4>1, <2>2
      <3>2. CASE j \notin upTo[i]
        <4>1. \A l \in C : l \in upTo[i] => l \in upTo[j]
          BY <3>2, <2>1, <1>2, <1>3
        <4> QED BY <4>1, <2>2
      <3> QED BY <3>1, <3>2
    <2>5. ASSUME NEW i \in C, NEW j \in C, upTo[i] = upTo[j] PROVE i = j
      <3>1. i \in upTo[j] /\ j \in upTo[i]
        BY <2>3, <2>5
      <3> QED BY <3>1, <2>1, <1>2, <1>3
    <2> QED BY <2>2, <2>3, <2>4, <2>5
  <1>6. /\ targets \in [1 .. Cardinality(C) -> C]
        /\ \A m, n \in 1 .. Cardinality(C) : targets[m] = targets[n] => m = n
    <2>1. \A i \in C : place[i] = Cardinality(upTo[i])
      OBVIOUS
    <2>2. place \in [C -> Nat]
      <3> HIDE DEF C, upTo
      <3> QED BY <1>1, <1>5, FS_Subset, FS_CardinalityType
    <2> HIDE DEF C, upTo, targets, place
    <2>3. Numbers(place, upTo, C)
      BY <1>1, <1>5, <2>1, <2>2 DEF Numbers
    <2>4. Arranges(targets, C)
      BY <1>4, <2>3, Numbered
    <2> QED BY <2>4 DEF Arranges
  <1>7. Cardinality(C) \in Nat
    BY <1>1, FS_CardinalityType
  <1> HIDE DEF C, targets
  <1>8. targets \in Seq(Nat) /\ Len(targets) = Cardinality(C) /\ DOMAIN targets = 1 .. Cardinality(C)
    <2>1. targets \in [1 .. Cardinality(C) -> Nat]
      BY <1>6, <1>2
    <2>2. targets \in Seq(Nat)
      BY <2>1, <1>7, SeqDef
    <2>3. DOMAIN targets = 1 .. Cardinality(C) /\ DOMAIN targets = 1 .. Len(targets)
      BY <2>1, <2>2
    <2>4. Len(targets) = Cardinality(C)
      BY <2>2, <2>3, <1>7
    <2> QED BY <2>2, <2>3, <2>4
  <1>9. AreTargets(targets, results)
    <2>1. \A k \in DOMAIN targets : targets[k] \in C
      BY <1>6, <1>8
    <2>2. \A k, l \in DOMAIN targets : results[targets[k]] = results[targets[l]] => k = l
      BY <2>1, <1>1, <1>6, <1>8
    <2> QED BY <1>1, <1>8, <2>1, <2>2 DEF AreTargets
  <1> QED BY <1>8, <1>9 DEF targets

-----------------------------------------------------------------------------
(* Pages.                                                                  *)
LEMMA WebStarts == Web!Init => WebInv
  <1> SUFFICES ASSUME Web!Init PROVE WebInv
    OBVIOUS
  <1>1. webTurn = Web!NoTurn /\ webReads = <<>>
    BY DEF Web!Init
  <1>2. webTurn \in WebTurns
    BY <1>1 DEF Web!NoTurn, WebTurns
  <1>3. BusyReads(webReads) = {} /\ webReads \in [1 .. 0 -> ThreadStates]
    BY <1>1 DEF BusyReads
  <1>4. Cardinality(BusyReads(webReads)) <= MaxWorkers
    BY <1>3, FS_EmptySet, WebAssumption
  <1>5. /\ webTurn.targets = <<>> /\ webTurn.pages = <<>> /\ webTurn.cards = {} /\ webTurn.next = 1
        /\ webTurn.at = "idle" /\ webTurn.fetched = {} /\ webTurn.shown = {}
    BY <1>1 DEF Web!NoTurn
  <1>6. AreTargets(webTurn.targets, webTurn.results) /\ NamesTargets(webTurn.pages, webTurn.targets, webTurn.results)
    BY <1>5, WebAssumption DEF AreTargets, NamesTargets
  <1>7. CitesWhatWasRead(webTurn)
    BY <1>5 DEF CitesWhatWasRead
  <1>8. webTurn.next \in 1 .. Len(webTurn.targets) + 1 /\ webReads \in [1 .. Len(webTurn.targets) -> ThreadStates]
    BY <1>3, <1>5
  <1>9. \A k \in DOMAIN webReads : webReads[k] \in {"none", "left"}
    BY <1>1
  <1> QED BY <1>2, <1>4, <1>5, <1>6, <1>7, <1>8, <1>9 DEF WebInv

(* The invariant of a research turn implies that its citations name what   *)
(* was read.                                                               *)
LEMMA WebInvSuffices == WebInv => Web!CitationsNameWhatWasRead
  <1> SUFFICES ASSUME WebInv PROVE Web!CitationsNameWhatWasRead
    OBVIOUS
  <1>1. CitesWhatWasRead(webTurn) /\ AreTargets(webTurn.targets, webTurn.results)
    BY DEF WebInv
  <1>2. webTurn.next - 1 <= MaxAttempts
    <2>1. webTurn.targets \in Seq(Nat) /\ webTurn.next \in 1 .. Len(webTurn.targets) + 1
      BY DEF WebInv, WebTurns
    <2>2. Len(webTurn.targets) <= MaxAttempts
      BY <1>1 DEF AreTargets
    <2> QED BY <2>1, <2>2, WebAssumption
  <1>3. Cardinality({k \in DOMAIN webReads : webReads[k] \in {"running", "left"}}) <= MaxWorkers
    <2> DEFINE out == {k \in DOMAIN webReads : webReads[k] \in {"running", "left"}}
    <2>1. out \subseteq BusyReads(webReads)
      BY DEF BusyReads
    <2>2. IsFiniteSet(BusyReads(webReads))
      <3>1. webTurn.targets \in Seq(Nat) /\ DOMAIN webReads = 1 .. Len(webTurn.targets)
        BY DEF WebInv, WebTurns
      <3>2. IsFiniteSet(1 .. Len(webTurn.targets)) /\ BusyReads(webReads) \subseteq 1 .. Len(webTurn.targets)
        BY <3>1, FS_Interval DEF BusyReads
      <3> QED BY <3>2, FS_Subset
    <2> HIDE DEF out
    <2>3. Cardinality(out) <= Cardinality(BusyReads(webReads)) /\ IsFiniteSet(out)
      BY <2>1, <2>2, FS_Subset
    <2>4. Cardinality(out) \in Nat /\ Cardinality(BusyReads(webReads)) \in Nat
      BY <2>2, <2>3, FS_CardinalityType
    <2>5. Cardinality(out) <= MaxWorkers
      BY <2>3, <2>4, WebAssumption DEF WebInv
    <2> QED BY <2>5 DEF out
  <1>4. /\ webTurn.at \in {"answer", "done"} /\ webTurn.pages # <<>> /\ webTurn.streamed =>
             webTurn.shown = {webTurn.pages[k].cite : k \in webTurn.cards}
        /\ webTurn.at = "answer" /\ webTurn.pages # <<>> /\ Cardinality(webTurn.cards) < Wanted =>
             webTurn.over \/ Len(webTurn.pages) = Len(webTurn.targets)
    BY DEF WebInv
  <1>5. /\ Web!Cardinality({k \in DOMAIN webReads : webReads[k] \in {"running", "left"}}) <= MaxWorkers
        /\ webTurn.at = "answer" /\ webTurn.pages # <<>> /\ Web!Cardinality(webTurn.cards) < Wanted =>
             webTurn.over \/ Len(webTurn.pages) = Len(webTurn.targets)
    <2>1. /\ Web!Cardinality({k \in DOMAIN webReads : webReads[k] \in {"running", "left"}})
                = Cardinality({k \in DOMAIN webReads : webReads[k] \in {"running", "left"}})
          /\ Web!Cardinality(webTurn.cards) = Cardinality(webTurn.cards)
      BY WebCounts
    <2> QED BY <1>3, <1>4, <2>1
  <1> QED BY <1>1, <1>2, <1>4, <1>5 DEF Web!CitationsNameWhatWasRead, CitesWhatWasRead

(* The fields of a turn of which only the stage moves.                     *)
LEMMA WebTurnFields ==
    ASSUME webTurn \in WebTurns
    PROVE  /\ webTurn.at \in {"idle", "search", "read", "answer", "done"}
           /\ webTurn.streamed \in BOOLEAN /\ webTurn.results \in Seq(WebAddresses)
           /\ webTurn.retried \in BOOLEAN /\ webTurn.targets \in Seq(Nat) /\ webTurn.next \in Nat
           /\ webTurn.pages \in Seq(PageRecords) /\ webTurn.over \in BOOLEAN
           /\ webTurn.shown \in SUBSET Nat /\ webTurn.cards \in SUBSET Nat
           /\ webTurn.fetched \in SUBSET Nat /\ webTurn.answer \in {"none", "fallback", "grounded"}
           /\ webTurn = [at |-> webTurn.at, streamed |-> webTurn.streamed, results |-> webTurn.results,
                      retried |-> webTurn.retried, targets |-> webTurn.targets, next |-> webTurn.next,
                      pages |-> webTurn.pages, over |-> webTurn.over, shown |-> webTurn.shown,
                      cards |-> webTurn.cards, fetched |-> webTurn.fetched, answer |-> webTurn.answer]
  BY DEF WebTurns

(* A turn moves on without touching what it read.                          *)
LEMMA WebStageMoves ==
    ASSUME WebInv, NEW at \in {"search", "done"}, NEW retried \in BOOLEAN,
           NEW answer \in {"none", "fallback", "grounded"},
           webTurn.at = "search" \/ (webTurn.at = "answer" /\ at = "done"),
           webTurn' = [webTurn EXCEPT !.at = at, !.retried = retried, !.answer = answer],
           UNCHANGED webReads
    PROVE  WebInv'
  <1>1. webTurn \in WebTurns
    BY DEF WebInv
  <1>2. /\ webTurn' \in WebTurns /\ webTurn'.at = at /\ webTurn'.pages = webTurn.pages
        /\ webTurn'.targets = webTurn.targets /\ webTurn'.results = webTurn.results
        /\ webTurn'.next = webTurn.next /\ webTurn'.cards = webTurn.cards /\ webTurn'.fetched = webTurn.fetched
        /\ webTurn'.shown = webTurn.shown /\ webTurn'.streamed = webTurn.streamed /\ webTurn'.over = webTurn.over
    BY <1>1 DEF WebTurns
  <1>3. AreTargets(webTurn'.targets, webTurn'.results) /\ NamesTargets(webTurn'.pages, webTurn'.targets, webTurn'.results)
    BY <1>2 DEF WebInv
  <1>4. CitesWhatWasRead(webTurn')
    BY <1>2 DEF WebInv, CitesWhatWasRead
  <1>5. webReads' = webReads /\ \A k \in DOMAIN webReads : webReads[k] \in {"none", "left"}
    BY DEF WebInv
  <1>6. /\ webReads \in [1 .. Len(webTurn.targets) -> ThreadStates]
        /\ webTurn.next \in 1 .. Len(webTurn.targets) + 1 /\ Cardinality(BusyReads(webReads)) <= MaxWorkers
    BY DEF WebInv
  <1>7. at = "search" => webTurn.at = "search"
    OBVIOUS
  <1>8. webTurn.at = "search" => /\ webTurn.targets = <<>> /\ webTurn.pages = <<>> /\ webTurn.cards = {}
                               /\ webTurn.fetched = {} /\ webTurn.shown = {} /\ webTurn.next = 1
    BY DEF WebInv
  <1>9. webTurn.at = "answer" /\ webTurn.pages # <<>> /\ webTurn.streamed =>
             webTurn.shown = {webTurn.pages[k].cite : k \in webTurn.cards}
    BY DEF WebInv
  <1> QED BY <1>2, <1>3, <1>4, <1>5, <1>6, <1>7, <1>8, <1>9 DEF WebInv

(* Asking, and the next turn, start without targets, pages or citations.   *)
LEMMA BeginningKeeps ==
    ASSUME WebInv, (\E streamed \in BOOLEAN : Web!Ask(streamed)) \/ Web!NextTurn PROVE WebInv'
  <1>1. /\ webTurn' \in {Web!NoTurn} \cup {[Web!NoTurn EXCEPT !.at = "search", !.streamed = b] : b \in BOOLEAN}
        /\ webReads' = <<>>
    <2>1. CASE Web!NextTurn
      BY <2>1 DEF Web!NextTurn
    <2>2. CASE \E streamed \in BOOLEAN : Web!Ask(streamed)
      <3>1. webTurn.at = "idle" /\ webReads' = webReads
        BY <2>2 DEF Web!Ask
      <3>2. webTurn.targets = <<>> /\ DOMAIN webReads = 1 .. Len(webTurn.targets)
        BY <3>1 DEF WebInv
      <3>3. webReads = <<>>
        BY <3>2
      <3> QED BY <2>2, <3>1, <3>3 DEF Web!Ask
    <2> QED BY <2>1, <2>2
  <1>2. /\ webTurn'.targets = <<>> /\ webTurn'.pages = <<>> /\ webTurn'.cards = {} /\ webTurn'.next = 1
        /\ webTurn'.at \in {"idle", "search"} /\ webTurn'.fetched = {} /\ webTurn'.shown = {}
        /\ webTurn' \in WebTurns
    <2>1. CASE webTurn' = Web!NoTurn
      BY <2>1 DEF Web!NoTurn, WebTurns
    <2>2. ASSUME NEW b \in BOOLEAN, webTurn' = [Web!NoTurn EXCEPT !.at = "search", !.streamed = b]
          PROVE  /\ webTurn'.targets = <<>> /\ webTurn'.pages = <<>> /\ webTurn'.cards = {} /\ webTurn'.next = 1
                 /\ webTurn'.at \in {"idle", "search"} /\ webTurn'.fetched = {} /\ webTurn'.shown = {}
                 /\ webTurn' \in WebTurns
      <3>1. webTurn' = [at |-> "search", streamed |-> b, results |-> <<>>, retried |-> FALSE,
                     targets |-> <<>>, next |-> 1, pages |-> <<>>, over |-> FALSE, shown |-> {},
                     cards |-> {}, fetched |-> {}, answer |-> "none"]
        BY <2>2 DEF Web!NoTurn
      <3> QED BY <3>1 DEF WebTurns
    <2> QED BY <1>1, <2>1, <2>2
  <1>5. webReads' = <<>>
    BY <1>1
  <1>3. BusyReads(webReads') = {} /\ webReads' \in [1 .. 0 -> ThreadStates]
    BY <1>5 DEF BusyReads
  <1>4. Cardinality(BusyReads(webReads')) <= MaxWorkers
    BY <1>3, FS_EmptySet, WebAssumption
  <1>6. AreTargets(webTurn'.targets, webTurn'.results) /\ NamesTargets(webTurn'.pages, webTurn'.targets, webTurn'.results)
    BY <1>2, WebAssumption DEF AreTargets, NamesTargets
  <1>7. CitesWhatWasRead(webTurn')
    BY <1>2 DEF CitesWhatWasRead
  <1>8. webTurn'.next \in 1 .. Len(webTurn'.targets) + 1 /\ webReads' \in [1 .. Len(webTurn'.targets) -> ThreadStates]
    BY <1>2, <1>3
  <1>9. \A k \in DOMAIN webReads' : webReads'[k] \in {"none", "left"}
    BY <1>5
  <1> QED BY <1>2, <1>4, <1>6, <1>7, <1>8, <1>9 DEF WebInv

(* A search that fails or finds nothing, and the answer itself, cite       *)
(* nothing new.                                                            *)
LEMMA SearchingKeeps ==
    ASSUME WebInv, Web!SearchFails \/ Web!SearchIsEmpty \/ Web!Answer PROVE WebInv'
  <1>1. webTurn \in WebTurns
    BY DEF WebInv
  <1>2. CASE Web!SearchFails
    <2>1. webTurn' = [webTurn EXCEPT !.at = "done", !.retried = webTurn.retried, !.answer = "fallback"]
      BY <1>1, <1>2 DEF Web!SearchFails, Web!Refused, WebTurns
    <2> QED BY <1>1, <1>2, <2>1, WebStageMoves, WebTurnFields DEF Web!SearchFails
  <1>3. CASE Web!SearchIsEmpty
    <2>1. CASE webTurn.retried
      <3>1. webTurn' = [webTurn EXCEPT !.at = "done", !.retried = webTurn.retried, !.answer = "fallback"]
        BY <1>1, <1>3, <2>1 DEF Web!SearchIsEmpty, Web!Refused, WebTurns
      <3> QED BY <1>1, <1>3, <3>1, WebStageMoves, WebTurnFields DEF Web!SearchIsEmpty
    <2>2. CASE ~webTurn.retried
      <3>1. webTurn' = [webTurn EXCEPT !.at = "search", !.retried = TRUE, !.answer = webTurn.answer]
        BY <1>1, <1>3, <2>2 DEF Web!SearchIsEmpty, WebTurns
      <3> QED BY <1>1, <1>3, <3>1, WebStageMoves, WebTurnFields DEF Web!SearchIsEmpty
    <2> QED BY <2>1, <2>2
  <1>4. CASE Web!Answer
    <2>1. webTurn' = [webTurn EXCEPT !.at = "done", !.retried = webTurn.retried, !.answer = "grounded"]
      BY <1>1, <1>4 DEF Web!Answer, WebTurns
    <2> QED BY <1>1, <1>4, <2>1, WebStageMoves, WebTurnFields DEF Web!Answer
  <1> QED BY <1>2, <1>3, <1>4

(* A search that answers fixes the results, and with them what may be      *)
(* read.                                                                   *)
LEMMA SearchAnswersKeeps == ASSUME WebInv, Web!SearchAnswers PROVE WebInv'
  <1>1. webTurn \in WebTurns /\ webTurn.at = "search"
    BY DEF WebInv, Web!SearchAnswers
  <1>2. /\ webTurn.targets = <<>> /\ webTurn.pages = <<>> /\ webTurn.cards = {}
        /\ webTurn.fetched = {} /\ webTurn.shown = {} /\ webTurn.next = 1
    BY <1>1 DEF WebInv
  <1>3. PICK results \in Answers :
           /\ webTurn' = [webTurn EXCEPT !.at = "read", !.results = results, !.targets = Web!TargetsOf(results)]
           /\ webReads' = [k \in DOMAIN Web!TargetsOf(results) |-> "none"]
    BY DEF Web!SearchAnswers
  <1> DEFINE targets == Web!TargetsOf(results)
  <1>4. results \in Seq(WebAddresses) /\ targets \in Seq(Nat) /\ AreTargets(targets, results)
    BY TargetsAreSound, WebAssumption DEF WebAddresses
  <1> HIDE DEF targets
  <1>5. /\ webTurn' \in WebTurns /\ webTurn'.at = "read" /\ webTurn'.pages = <<>>
        /\ webTurn'.targets = targets /\ webTurn'.results = results
        /\ webTurn'.next = 1 /\ webTurn'.cards = {} /\ webTurn'.fetched = {}
        /\ webTurn'.shown = {} /\ webTurn'.streamed = webTurn.streamed /\ webTurn'.over = webTurn.over
    BY <1>1, <1>2, <1>3, <1>4 DEF WebTurns, targets
  <1>6. /\ webReads' \in [1 .. Len(targets) -> ThreadStates] /\ DOMAIN targets = 1 .. Len(targets)
        /\ Len(targets) \in Nat /\ \A k \in DOMAIN targets : webReads'[k] = "none"
    BY <1>3, <1>4 DEF targets, ThreadStates
  <1>7. BusyReads(webReads') = {}
    BY <1>6 DEF BusyReads
  <1>8. Cardinality(BusyReads(webReads')) <= MaxWorkers
    BY <1>7, FS_EmptySet, WebAssumption
  <1>9. NamesTargets(webTurn'.pages, webTurn'.targets, webTurn'.results) /\ CitesWhatWasRead(webTurn')
    BY <1>5 DEF NamesTargets, CitesWhatWasRead
  <1>10. ReadsInOrder(webTurn', webReads')
    <2>1. {webTurn'.pages[n].cite : n \in Web!Read(webTurn'.pages)} = {}
      BY <1>5 DEF Web!Read
    <2>2. webTurn'.shown = {webTurn'.pages[n].cite : n \in Web!Read(webTurn'.pages)}
      BY <1>5, <2>1
    <2>3. \A k \in DOMAIN targets : webReads'[k] = "none" /\ k >= 1
      BY <1>6
    <2>4. DOMAIN webTurn'.pages = {}
      BY <1>5
    <2> QED BY <1>5, <2>2, <2>3, <2>4 DEF ReadsInOrder
  <1> QED BY <1>4, <1>5, <1>6, <1>8, <1>9, <1>10 DEF WebInv

(* Fewer threads are busy.                                                 *)
LEMMA FewerBusy ==
    ASSUME WebInv, NEW r, BusyReads(r) \subseteq BusyReads(webReads)
    PROVE  Cardinality(BusyReads(r)) <= MaxWorkers
  <1>1. webTurn.targets \in Seq(Nat) /\ DOMAIN webReads = 1 .. Len(webTurn.targets)
    BY DEF WebInv, WebTurns
  <1>2. IsFiniteSet(1 .. Len(webTurn.targets)) /\ BusyReads(webReads) \subseteq 1 .. Len(webTurn.targets)
    BY <1>1, FS_Interval DEF BusyReads
  <1>3. IsFiniteSet(BusyReads(webReads))
    BY <1>2, FS_Subset
  <1>4. IsFiniteSet(BusyReads(r)) /\ Cardinality(BusyReads(r)) <= Cardinality(BusyReads(webReads))
    BY <1>3, FS_Subset
  <1>5. Cardinality(BusyReads(r)) \in Nat /\ Cardinality(BusyReads(webReads)) \in Nat
    BY <1>3, <1>4, FS_CardinalityType
  <1> QED BY <1>4, <1>5, WebAssumption DEF WebInv

(* Giving up leaves the threads that still run to themselves, and no more  *)
(* of them than before.                                                    *)
LEMMA AbandonKeeps ==
    ASSUME WebInv, Web!Abandon
    PROVE  /\ webReads' \in [1 .. Len(webTurn.targets) -> ThreadStates]
           /\ \A k \in DOMAIN webReads' : webReads'[k] \in {"none", "left"}
           /\ Cardinality(BusyReads(webReads')) <= MaxWorkers
  <1>1. webReads' = [k \in DOMAIN webReads |-> IF webReads[k] = "running" THEN "left" ELSE "none"]
    BY DEF Web!Abandon
  <1>2. webReads \in [1 .. Len(webTurn.targets) -> ThreadStates]
    BY DEF WebInv
  <1>3. webReads' \in [1 .. Len(webTurn.targets) -> ThreadStates]
    BY <1>1, <1>2 DEF ThreadStates
  <1>4. \A k \in DOMAIN webReads' : webReads'[k] \in {"none", "left"}
    BY <1>1
  <1>5. BusyReads(webReads') \subseteq BusyReads(webReads)
    BY <1>1 DEF BusyReads
  <1> QED BY <1>3, <1>4, <1>5, FewerBusy

(* Where reading is switched off the turn answers from the search alone.   *)
LEMMA SkipKeeps == ASSUME WebInv, Web!SkipReading PROVE WebInv'
  <1>1. webTurn \in WebTurns /\ webTurn.at = "read" /\ webTurn.next = 1 /\ Web!Abandon
    BY DEF WebInv, Web!SkipReading
  <1>2. webTurn' = [webTurn EXCEPT !.at = "answer"]
    BY DEF Web!SkipReading
  <1>3. /\ webTurn' \in WebTurns /\ webTurn'.at = "answer" /\ webTurn'.pages = webTurn.pages
        /\ webTurn'.targets = webTurn.targets /\ webTurn'.results = webTurn.results
        /\ webTurn'.next = webTurn.next /\ webTurn'.cards = webTurn.cards /\ webTurn'.fetched = webTurn.fetched
    BY <1>1, <1>2 DEF WebTurns
  <1>4. webTurn.pages = <<>>
    <2>1. ReadsInOrder(webTurn, webReads) /\ NamesTargets(webTurn.pages, webTurn.targets, webTurn.results)
      BY <1>1 DEF WebInv
    <2>2. webTurn.targets \in Seq(Nat) /\ webTurn.pages \in Seq(PageRecords)
      BY <1>1, WebTurnFields
    <2>3. \A k \in DOMAIN webTurn.targets : webReads[k] = "none"
      BY <1>1, <2>1, <2>2 DEF ReadsInOrder
    <2>4. DOMAIN webTurn.pages = {}
      BY <2>1, <2>3 DEF ReadsInOrder, NamesTargets
    <2>5. Len(webTurn.pages) = 0
      <3>1. DOMAIN webTurn.pages = 1 .. Len(webTurn.pages) /\ Len(webTurn.pages) \in Nat
        BY <2>2
      <3>2. Len(webTurn.pages) # 0 => 1 \in 1 .. Len(webTurn.pages)
        BY <3>1
      <3> QED BY <2>4, <3>1, <3>2
    <2> QED BY <2>2, <2>5, EmptySeq
  <1>5. /\ AreTargets(webTurn'.targets, webTurn'.results) /\ webTurn'.next \in 1 .. Len(webTurn'.targets) + 1
        /\ NamesTargets(webTurn'.pages, webTurn'.targets, webTurn'.results)
    BY <1>3 DEF WebInv
  <1>6. CitesWhatWasRead(webTurn')
    BY <1>3 DEF WebInv, CitesWhatWasRead
  <1> QED BY <1>1, <1>3, <1>4, <1>5, <1>6, AbandonKeeps DEF WebInv

(* Running out of time changes nothing that was read.                      *)
LEMMA TimeIsOverKeeps == ASSUME WebInv, Web!TimeIsOver PROVE WebInv'
  <1>1. webTurn \in WebTurns /\ webTurn.at = "read" /\ webReads' = webReads
    BY DEF WebInv, Web!TimeIsOver
  <1>2. webTurn' = [webTurn EXCEPT !.over = TRUE]
    BY DEF Web!TimeIsOver
  <1>3. /\ webTurn' \in WebTurns /\ webTurn'.at = "read" /\ webTurn'.pages = webTurn.pages
        /\ webTurn'.targets = webTurn.targets /\ webTurn'.results = webTurn.results
        /\ webTurn'.next = webTurn.next /\ webTurn'.cards = webTurn.cards /\ webTurn'.fetched = webTurn.fetched
        /\ webTurn'.streamed = webTurn.streamed /\ webTurn'.shown = webTurn.shown
    BY <1>1, <1>2 DEF WebTurns
  <1>4. /\ AreTargets(webTurn'.targets, webTurn'.results) /\ webTurn'.next \in 1 .. Len(webTurn'.targets) + 1
        /\ NamesTargets(webTurn'.pages, webTurn'.targets, webTurn'.results)
        /\ webReads' \in [1 .. Len(webTurn'.targets) -> ThreadStates]
        /\ Cardinality(BusyReads(webReads')) <= MaxWorkers
    BY <1>1, <1>3 DEF WebInv
  <1>5. CitesWhatWasRead(webTurn')
    BY <1>3 DEF WebInv, CitesWhatWasRead
  <1>6. ReadsInOrder(webTurn', webReads')
    <2>1. ReadsInOrder(webTurn, webReads)
      BY <1>1 DEF WebInv
    <2> QED BY <1>1, <1>3, <2>1 DEF ReadsInOrder
  <1> QED BY <1>3, <1>4, <1>5, <1>6 DEF WebInv

(* A thread that ends is read or failed, or was left and is gone.          *)
LEMMA EndReadKeeps == ASSUME WebInv, NEW k \in DOMAIN webReads, Web!EndRead(k) PROVE WebInv'
  <1>1. webTurn' = webTurn /\ webReads[k] \in {"running", "left"}
    BY DEF Web!EndRead
  <1>2. PICK how \in {"ok", "failed"} :
           webReads' = [webReads EXCEPT ![k] = IF webReads[k] = "left" THEN "none" ELSE how]
    BY DEF Web!EndRead
  <1>3. webReads \in [1 .. Len(webTurn.targets) -> ThreadStates]
    BY DEF WebInv
  <1>4. /\ DOMAIN webReads' = DOMAIN webReads
        /\ \A l \in DOMAIN webReads : l # k => webReads'[l] = webReads[l]
        /\ webReads'[k] = IF webReads[k] = "left" THEN "none" ELSE how
    BY <1>2, <1>3
  <1>5. webReads' \in [1 .. Len(webTurn.targets) -> ThreadStates]
    BY <1>2, <1>3 DEF ThreadStates
  <1>6. BusyReads(webReads') \subseteq BusyReads(webReads)
    BY <1>1, <1>4 DEF BusyReads
  <1>7. Cardinality(BusyReads(webReads')) <= MaxWorkers
    BY <1>6, FewerBusy
  <1>8. webTurn.at = "read" => ReadsInOrder(webTurn, webReads')
    <2> SUFFICES ASSUME webTurn.at = "read" PROVE ReadsInOrder(webTurn, webReads')
      OBVIOUS
    <2>1. ReadsInOrder(webTurn, webReads) /\ webTurn.targets \in Seq(Nat)
      BY WebTurnFields DEF WebInv
    <2>2. DOMAIN webTurn.targets = DOMAIN webReads
      BY <1>3, <2>1
    <2>3. webReads[k] = "running" /\ webReads'[k] = how
      BY <1>1, <1>4, <2>1, <2>2 DEF ReadsInOrder
    <2>4. \A l \in DOMAIN webReads :
             /\ webReads'[l] = "none" <=> webReads[l] = "none"
             /\ webReads'[l] = "left" <=> webReads[l] = "left"
             /\ webReads'[l] = "recorded" <=> webReads[l] = "recorded"
      BY <1>4, <2>3
    <2> QED BY <2>1, <2>2, <2>4 DEF ReadsInOrder
  <1>9. webTurn.at # "read" => \A l \in DOMAIN webReads' : webReads'[l] \in {"none", "left"}
    <2> SUFFICES ASSUME webTurn.at # "read" PROVE \A l \in DOMAIN webReads' : webReads'[l] \in {"none", "left"}
      OBVIOUS
    <2>1. \A l \in DOMAIN webReads : webReads[l] \in {"none", "left"}
      BY DEF WebInv
    <2> QED BY <1>1, <1>4, <2>1
  <1>10. /\ webTurn \in WebTurns /\ AreTargets(webTurn.targets, webTurn.results)
         /\ webTurn.next \in 1 .. Len(webTurn.targets) + 1
         /\ NamesTargets(webTurn.pages, webTurn.targets, webTurn.results) /\ CitesWhatWasRead(webTurn)
         /\ webTurn.at \in {"idle", "search"} =>
              /\ webTurn.targets = <<>> /\ webTurn.pages = <<>> /\ webTurn.cards = {}
              /\ webTurn.fetched = {} /\ webTurn.shown = {} /\ webTurn.next = 1
         /\ webTurn.at \in {"answer", "done"} /\ webTurn.pages # <<>> /\ webTurn.streamed =>
              webTurn.shown = {webTurn.pages[m].cite : m \in webTurn.cards}
         /\ webTurn.at = "answer" /\ webTurn.pages # <<>> /\ Cardinality(webTurn.cards) < Wanted =>
              webTurn.over \/ Len(webTurn.pages) = Len(webTurn.targets)
    BY DEF WebInv
  <1> QED BY <1>1, <1>5, <1>7, <1>8, <1>9, <1>10 DEF WebInv

(* The threads that are out while pages are read.                          *)
LEMMA PendingIsBusy ==
    ASSUME WebInv, webTurn.at = "read"
    PROVE  /\ Web!Pending = BusyReads(webReads) /\ IsFiniteSet(Web!Pending) /\ Cardinality(Web!Pending) \in Nat
           /\ Cardinality(Web!Pending) <= MaxWorkers
  <1>1. ReadsInOrder(webTurn, webReads) /\ webTurn.targets \in Seq(Nat)
    BY WebTurnFields DEF WebInv
  <1>2. DOMAIN webReads = DOMAIN webTurn.targets /\ DOMAIN webReads = 1 .. Len(webTurn.targets)
    BY <1>1 DEF WebInv
  <1>3. Web!Pending = BusyReads(webReads)
    BY <1>1, <1>2 DEF Web!Pending, BusyReads, ReadsInOrder
  <1>4. IsFiniteSet(Web!Pending)
    <2>1. IsFiniteSet(1 .. Len(webTurn.targets)) /\ Web!Pending \subseteq 1 .. Len(webTurn.targets)
      BY <1>1, <1>2, FS_Interval DEF Web!Pending
    <2> QED BY <2>1, FS_Subset
  <1> QED BY <1>3, <1>4, FS_CardinalityType DEF WebInv

(* Pages are asked for in the order of the targets, while workers and      *)
(* attempts are left.                                                      *)
LEMMA SubmitKeeps == ASSUME WebInv, Web!Submit PROVE WebInv'
  <1>1. webTurn \in WebTurns /\ webTurn.at = "read" /\ Web!CanSubmit
    BY DEF WebInv, Web!Submit
  <1> DEFINE b == Web!Batch
             batch == webTurn.next .. webTurn.next + b - 1
  <1>2. /\ webReads' = [k \in DOMAIN webReads |-> IF k \in batch THEN "running" ELSE webReads[k]]
        /\ webTurn' = [webTurn EXCEPT !.next = @ + b]
    BY DEF Web!Submit
  <1>3. /\ webTurn.targets \in Seq(Nat) /\ webTurn.pages \in Seq(PageRecords)
        /\ webTurn.next \in 1 .. Len(webTurn.targets) + 1 /\ Len(webTurn.targets) \in Nat
        /\ Len(webTurn.pages) \in Nat /\ webTurn.streamed \in BOOLEAN
    BY <1>1, WebTurnFields DEF WebInv
  <1>4. Web!Pending = BusyReads(webReads) /\ IsFiniteSet(Web!Pending) /\ Cardinality(Web!Pending) \in Nat
    BY <1>1, PendingIsBusy
  <1>5. /\ b \in Nat \ {0} /\ webTurn.next + b <= Len(webTurn.targets) + 1
        /\ Cardinality(Web!Pending) + b <= MaxWorkers
    <2>1. Web!Batch > 0
      BY <1>1 DEF Web!CanSubmit
    <2>2. CASE webTurn.streamed
      <3>1. Web!Pending = {} /\ b = Web!Min({MaxWorkers, MaxAttempts - Len(webTurn.pages),
                                     Len(webTurn.targets) - webTurn.next + 1})
        BY <2>1, <2>2, WebCounts DEF Web!Batch
      <3>2. /\ b \in {MaxWorkers, MaxAttempts - Len(webTurn.pages), Len(webTurn.targets) - webTurn.next + 1}
            /\ b <= MaxWorkers /\ b <= Len(webTurn.targets) - webTurn.next + 1
        <4> DEFINE x == MaxWorkers
                   y == MaxAttempts - Len(webTurn.pages)
                   z == Len(webTurn.targets) - webTurn.next + 1
        <4>1. x \in Int /\ y \in Int /\ z \in Int /\ b = Web!Min({x, y, z})
          BY <3>1, <1>3, WebAssumption
        <4> HIDE DEF b, x, y, z
        <4>2. b \in {x, y, z} /\ b <= x /\ b <= z
          BY <4>1, LeastOfThree
        <4> QED BY <4>2 DEF x, y, z
      <3>3. Cardinality(Web!Pending) = 0 /\ b > 0
        BY <2>1, <3>1, FS_EmptySet
      <3> HIDE DEF b
      <3> QED BY <3>2, <3>3, <1>3, WebAssumption
    <2>3. CASE ~webTurn.streamed
      <3>1. b = Web!Min({MaxWorkers - Cardinality(Web!Pending), Len(webTurn.targets) - webTurn.next + 1}) /\ b > 0
        BY <2>1, <2>3, WebCounts DEF Web!Batch
      <3> HIDE DEF b
      <3>2. /\ b \in {MaxWorkers - Cardinality(Web!Pending), Len(webTurn.targets) - webTurn.next + 1}
            /\ b <= MaxWorkers - Cardinality(Web!Pending) /\ b <= Len(webTurn.targets) - webTurn.next + 1
        <4> DEFINE x == MaxWorkers - Cardinality(Web!Pending)
                   z == Len(webTurn.targets) - webTurn.next + 1
        <4>1. x \in Int /\ z \in Int /\ b = Web!Min({x, z})
          BY <3>1, <1>3, <1>4, WebAssumption
        <4> HIDE DEF x, z
        <4>2. b \in {x, z} /\ b <= x /\ b <= z
          BY <4>1, LeastOfPair
        <4> QED BY <4>2 DEF x, z
      <3>3. MaxWorkers \in Nat /\ MaxWorkers - Cardinality(Web!Pending) \in Int
        BY <1>4, WebAssumption
      <3>4. b \in Int
        BY <3>2, <3>3, <1>3
      <3>5. b \in Nat \ {0}
        BY <3>1, <3>4
      <3>6. webTurn.next \in Int /\ Len(webTurn.targets) \in Int /\ Cardinality(Web!Pending) \in Int
        BY <1>3, <1>4
      <3>7. webTurn.next + b <= Len(webTurn.targets) + 1
        BY <3>2, <3>4, <3>6
      <3>8. Cardinality(Web!Pending) + b <= MaxWorkers
        BY <3>2, <3>3, <3>4, <3>6
      <3> QED BY <3>5, <3>7, <3>8
    <2> QED BY <2>2, <2>3, <1>3
  <1> HIDE DEF b
  <1>6. /\ webTurn' \in WebTurns /\ webTurn'.at = "read" /\ webTurn'.pages = webTurn.pages
        /\ webTurn'.targets = webTurn.targets /\ webTurn'.results = webTurn.results
        /\ webTurn'.next = webTurn.next + b /\ webTurn'.cards = webTurn.cards /\ webTurn'.fetched = webTurn.fetched
        /\ webTurn'.streamed = webTurn.streamed /\ webTurn'.shown = webTurn.shown
    <2>1. webTurn.next + b \in Nat
      BY <1>3, <1>5
    <2>2. webTurn' = [at |-> webTurn.at, streamed |-> webTurn.streamed, results |-> webTurn.results,
                   retried |-> webTurn.retried, targets |-> webTurn.targets, next |-> webTurn.next + b,
                   pages |-> webTurn.pages, over |-> webTurn.over, shown |-> webTurn.shown,
                   cards |-> webTurn.cards, fetched |-> webTurn.fetched, answer |-> webTurn.answer]
      BY <1>1, <1>2 DEF WebTurns
    <2> QED BY <1>1, <2>1, <2>2, WebTurnFields DEF WebTurns
  <1>7. webReads \in [1 .. Len(webTurn.targets) -> ThreadStates] /\ ReadsInOrder(webTurn, webReads)
    BY <1>1 DEF WebInv
  <1>8. DOMAIN webTurn.targets = 1 .. Len(webTurn.targets) /\ DOMAIN webReads = 1 .. Len(webTurn.targets)
    BY <1>3, <1>7
  <1>9. \A k \in 1 .. Len(webTurn.targets) :
           /\ k \in batch => webReads'[k] = "running" /\ webReads[k] = "none" /\ k < webTurn.next + b
           /\ k \notin batch => /\ webReads'[k] = webReads[k]
                                /\ webReads[k] = "none" <=> k >= webTurn.next + b
    <2>1. \A k \in 1 .. Len(webTurn.targets) :
             webReads'[k] = IF k \in batch THEN "running" ELSE webReads[k]
      BY <1>2, <1>8
    <2>2. \A k \in 1 .. Len(webTurn.targets) : webReads[k] = "none" <=> k >= webTurn.next
      BY <1>7, <1>8 DEF ReadsInOrder
    <2> QED BY <2>1, <2>2, <1>3, <1>5
  <1>10. webReads' \in [1 .. Len(webTurn.targets) -> ThreadStates]
    BY <1>2, <1>7 DEF ThreadStates
  <1>11. ReadsInOrder(webTurn', webReads')
    <2>1. \A k \in 1 .. Len(webTurn.targets) :
             /\ webReads'[k] = "none" <=> k >= webTurn.next + b
             /\ webReads'[k] # "left"
             /\ webReads'[k] = "recorded" <=> webReads[k] = "recorded"
      <3> SUFFICES ASSUME NEW k \in 1 .. Len(webTurn.targets)
                   PROVE  /\ webReads'[k] = "none" <=> k >= webTurn.next + b
                          /\ webReads'[k] # "left"
                          /\ webReads'[k] = "recorded" <=> webReads[k] = "recorded"
        OBVIOUS
      <3>1. webReads[k] # "left"
        BY <1>7, <1>8 DEF ReadsInOrder
      <3>2. CASE k \in batch
        <4>1. webReads'[k] = "running" /\ webReads[k] = "none" /\ k < webTurn.next + b
          BY <3>2, <1>9
        <4>2. ~(k >= webTurn.next + b)
          BY <4>1, <1>3, <1>5
        <4> QED BY <4>1, <4>2
      <3>3. CASE k \notin batch
        <4>1. webReads'[k] = webReads[k] /\ (webReads[k] = "none" <=> k >= webTurn.next + b)
          BY <3>3, <1>9
        <4> QED BY <3>1, <4>1
      <3> QED BY <3>2, <3>3
    <2> QED BY <2>1, <1>6, <1>7, <1>8 DEF ReadsInOrder
  <1>12. Cardinality(BusyReads(webReads')) <= MaxWorkers
    <2>1. BusyReads(webReads') \subseteq Web!Pending \cup batch
      BY <1>4, <1>9, <1>10, <1>8 DEF BusyReads
    <2>2. IsFiniteSet(batch) /\ Cardinality(batch) = b
      <3> DEFINE low == webTurn.next
                 high == webTurn.next + b - 1
      <3>1. low \in Int /\ high \in Int /\ ~(low > high) /\ high - low + 1 = b
        BY <1>3, <1>5
      <3>2. batch = low .. high
        BY DEF low, high
      <3> HIDE DEF low, high, batch
      <3>3. IsFiniteSet(low .. high) /\ Cardinality(low .. high) = IF low > high THEN 0 ELSE high - low + 1
        BY <3>1, FS_Interval
      <3> QED BY <3>1, <3>2, <3>3
    <2> HIDE DEF batch
    <2>3. /\ IsFiniteSet(Web!Pending \cup batch) /\ IsFiniteSet(Web!Pending \cap batch)
          /\ Cardinality(Web!Pending \cup batch) =
               Cardinality(Web!Pending) + Cardinality(batch) - Cardinality(Web!Pending \cap batch)
      BY <1>4, <2>2, FS_Union, FS_Intersection
    <2>4. IsFiniteSet(BusyReads(webReads')) /\ Cardinality(BusyReads(webReads')) <= Cardinality(Web!Pending \cup batch)
      BY <2>1, <2>3, FS_Subset
    <2>5. /\ Cardinality(Web!Pending \cap batch) \in Nat /\ Cardinality(BusyReads(webReads')) \in Nat
          /\ Cardinality(Web!Pending \cup batch) \in Nat
      BY <2>3, <2>4, FS_CardinalityType
    <2> QED BY <1>4, <1>5, <2>2, <2>3, <2>4, <2>5, WebAssumption
  <1>13. /\ AreTargets(webTurn'.targets, webTurn'.results) /\ webTurn'.next \in 1 .. Len(webTurn'.targets) + 1
         /\ NamesTargets(webTurn'.pages, webTurn'.targets, webTurn'.results)
    BY <1>3, <1>5, <1>6 DEF WebInv
  <1>14. CitesWhatWasRead(webTurn')
    BY <1>6 DEF WebInv, CitesWhatWasRead
  <1> QED BY <1>6, <1>10, <1>11, <1>12, <1>13, <1>14 DEF WebInv

(* A function on 1 .. n is a sequence of length n.                         *)
LEMMA LengthIs ==
    ASSUME NEW S, NEW n \in Nat, NEW s \in [1 .. n -> S]
    PROVE  s \in Seq(S) /\ Len(s) = n /\ DOMAIN s = 1 .. n
  OBVIOUS

(* What is at each place of two sequences put together.                    *)
LEMMA Joined ==
    ASSUME NEW S, NEW s \in Seq(S), NEW t \in Seq(S), NEW all, all = s \o t
    PROVE  /\ all \in Seq(S) /\ Len(all) = Len(s) + Len(t)
           /\ DOMAIN all = 1 .. Len(s) + Len(t)
           /\ DOMAIN s = 1 .. Len(s) /\ DOMAIN t = 1 .. Len(t) /\ Len(s) \in Nat
           /\ \A n \in 1 .. Len(s) : all[n] = s[n]
           /\ \A n \in 1 .. Len(t) : all[Len(s) + n] = t[n]
  <1>1. \A n \in 1 .. Len(t) : /\ Len(s) + n \in 1 .. Len(s) + Len(t)
                               /\ Len(s) + n - Len(s) = n /\ Len(s) + n > Len(s)
    OBVIOUS
  <1> QED BY <1>1, ConcatProperties

(* Recording appends one page for each thread that has ended, in any       *)
(* order.                                                                  *)
LEMMA RecordKeeps == ASSUME WebInv, Web!Record PROVE WebInv'
  <1>1. webTurn \in WebTurns /\ webTurn.at = "read"
    BY DEF WebInv, Web!Record
  <1> DEFINE page(k) == Web!Page(webTurn.targets[k],
                 IF webReads[k] = "ok" THEN Web!Ends(webTurn.results[webTurn.targets[k]]) ELSE None)
             F == Web!Finished
             N == Cardinality(F)
             pages == webTurn.pages
             L == Len(pages)
  <1>2. PICK order \in Web!SetToSeqs(Web!Finished) :
           webTurn' = [webTurn EXCEPT !.pages = @ \o [n \in DOMAIN order |-> page(order[n])],
                       !.shown = IF webTurn.streamed
                                 THEN @ \cup {[n \in DOMAIN order |-> page(order[n])][m].cite :
                                          m \in Web!Read([n \in DOMAIN order |-> page(order[n])])}
                                 ELSE @]
    BY DEF Web!Record
  <1> DEFINE come == [n \in DOMAIN order |-> page(order[n])]
             shown == IF webTurn.streamed THEN webTurn.shown \cup {come[n].cite : n \in Web!Read(come)}
                      ELSE webTurn.shown
  <1>3. webTurn' = [webTurn EXCEPT !.pages = pages \o come, !.shown = shown]
    BY <1>2
  <1>4. webReads' = [k \in DOMAIN webReads |-> IF k \in F THEN "recorded" ELSE webReads[k]]
    BY DEF Web!Record
  <1>5. /\ webReads \in [1 .. Len(webTurn.targets) -> ThreadStates] /\ ReadsInOrder(webTurn, webReads)
        /\ AreTargets(webTurn.targets, webTurn.results) /\ NamesTargets(pages, webTurn.targets, webTurn.results)
        /\ webTurn.targets \in Seq(Nat) /\ pages \in Seq(PageRecords) /\ webTurn.results \in Seq(WebAddresses)
        /\ webTurn.shown \in SUBSET Nat /\ webTurn.next \in 1 .. Len(webTurn.targets) + 1
    BY <1>1, WebTurnFields DEF WebInv
  <1>6. DOMAIN webReads = DOMAIN webTurn.targets /\ DOMAIN webTurn.targets = 1 .. Len(webTurn.targets)
    BY <1>5
  <1>7. /\ F \subseteq DOMAIN webTurn.targets /\ IsFiniteSet(F) /\ N \in Nat
        /\ \A k \in F : webReads[k] \in {"ok", "failed"}
    <2>1. F \subseteq DOMAIN webTurn.targets /\ \A k \in F : webReads[k] \in {"ok", "failed"}
      BY <1>6 DEF Web!Finished
    <2>2. IsFiniteSet(DOMAIN webTurn.targets)
      BY <1>5, <1>6, FS_Interval
    <2> QED BY <2>1, <2>2, FS_Subset, FS_CardinalityType
  <1>8. /\ order \in [1 .. N -> F] /\ DOMAIN order = 1 .. N
        /\ \A m, n \in 1 .. N : order[m] = order[n] => m = n
    BY <1>2, WebCounts DEF Web!SetToSeqs
  <1>9. \A k \in F : \E n \in 1 .. N : order[n] = k
    <2> HIDE DEF F, N
    <2>1. IsFiniteSet(1 .. N) /\ Cardinality(1 .. N) = N
      <3>1. IsFiniteSet(1 .. N) /\ Cardinality(1 .. N) = IF 1 > N THEN 0 ELSE N - 1 + 1
        BY <1>7, FS_Interval
      <3> QED BY <3>1, <1>7
    <2>2. order \in Injection(1 .. N, F)
      BY <1>8 DEF Injection, IsInjective
    <2>3. order \in Surjection(1 .. N, F)
      BY <2>1, <2>2, <1>7, FS_Injection DEF N
    <2> QED BY <2>3 DEF Surjection
  <1>10. ASSUME NEW k \in F
         PROVE  /\ page(k) \in PageRecords /\ page(k).cite = webTurn.targets[k]
                /\ page(k).url = webTurn.results[webTurn.targets[k]]
    <2>1. webTurn.targets[k] \in Nat /\ webTurn.targets[k] \in DOMAIN webTurn.results
      BY <1>5, <1>7 DEF AreTargets
    <2>2. webTurn.results[webTurn.targets[k]] \in WebAddresses
      BY <1>5, <2>1
    <2> DEFINE end == IF webReads[k] = "ok" THEN Web!Ends(webTurn.results[webTurn.targets[k]]) ELSE None
    <2>3. end \in {None} \cup {Web!Ends(a) : a \in WebAddresses}
      BY <2>2
    <2>4. page(k) = [cite |-> webTurn.targets[k], url |-> webTurn.results[webTurn.targets[k]], final |-> end]
      BY DEF Web!Page
    <2> HIDE DEF end, page
    <2> QED BY <2>1, <2>2, <2>3, <2>4 DEF PageRecords
  <1> HIDE DEF page, F
  <1>11. /\ come \in Seq(PageRecords) /\ Len(come) = N
         /\ \A n \in 1 .. N : come[n] = page(order[n])
    <2>1. come \in [1 .. N -> PageRecords]
      BY <1>8, <1>10
    <2>2. come \in Seq(PageRecords) /\ Len(come) = N
      <3> HIDE DEF come, N
      <3> QED BY <2>1, <1>7, LengthIs
    <2>4. \A n \in 1 .. N : come[n] = page(order[n])
      BY <1>8
    <2> QED BY <2>2, <2>4
  <1> HIDE DEF come, N
  <1> DEFINE all == pages \o come
  <1>12. /\ all \in Seq(PageRecords) /\ Len(all) = L + N /\ DOMAIN all = 1 .. L + N /\ L \in Nat
         /\ DOMAIN pages = 1 .. L /\ DOMAIN come = 1 .. N
         /\ \A n \in 1 .. L : all[n] = pages[n]
         /\ \A n \in 1 .. N : all[L + n] = come[n]
    <2> HIDE DEF all, pages
    <2>1. all = pages \o come
      BY DEF all
    <2> QED BY <2>1, <1>5, <1>11, Joined
  <1>23. \A m \in 1 .. N : /\ all[L + m].cite = webTurn.targets[order[m]]
                           /\ all[L + m].url = webTurn.results[webTurn.targets[order[m]]]
                           /\ order[m] \in F /\ order[m] \in DOMAIN webTurn.targets
    <2> SUFFICES ASSUME NEW m \in 1 .. N
                 PROVE  /\ all[L + m].cite = webTurn.targets[order[m]]
                        /\ all[L + m].url = webTurn.results[webTurn.targets[order[m]]]
                        /\ order[m] \in F /\ order[m] \in DOMAIN webTurn.targets
      OBVIOUS
    <2> HIDE DEF all, L
    <2>1. all[L + m] = come[m]
      BY <1>12
    <2>2. come[m] = page(order[m]) /\ order[m] \in F
      BY <1>8, <1>11
    <2>3. order[m] \in DOMAIN webTurn.targets
      BY <2>2, <1>7
    <2> QED BY <2>1, <2>2, <2>3, <1>10
  <1>13. \A n \in 1 .. L + N : n \in 1 .. L \/ \E m \in 1 .. N : n = L + m
    <2> SUFFICES ASSUME NEW n \in 1 .. L + N, n \notin 1 .. L PROVE \E m \in 1 .. N : n = L + m
      OBVIOUS
    <2>1. n - L \in 1 .. N /\ n = L + (n - L)
      BY <1>7, <1>12
    <2> QED BY <2>1
  <1>14. /\ \A n \in 1 .. L : n \in 1 .. L + N
         /\ \A n \in 1 .. N : L + n \in 1 .. L + N
    BY <1>7, <1>12
  <1> HIDE DEF all, L
  <1>15. NamesTargets(all, webTurn.targets, webTurn.results)
    <2>1. ASSUME NEW n \in DOMAIN all
          PROVE  /\ \E k \in DOMAIN webTurn.targets : all[n].cite = webTurn.targets[k]
                 /\ all[n].url = webTurn.results[all[n].cite]
      <3>1. CASE n \in 1 .. L
        BY <3>1, <1>5, <1>12 DEF NamesTargets
      <3>2. ASSUME NEW m \in 1 .. N, n = L + m 
            PROVE  /\ \E k \in DOMAIN webTurn.targets : all[n].cite = webTurn.targets[k]
                   /\ all[n].url = webTurn.results[all[n].cite]
        <4>1. all[n] = page(order[m]) /\ order[m] \in F
          BY <3>2, <1>8, <1>11, <1>12
        <4>2. all[n].cite = webTurn.targets[order[m]] /\ order[m] \in DOMAIN webTurn.targets
          BY <4>1, <1>7, <1>10
        <4>3. all[n].url = webTurn.results[webTurn.targets[order[m]]]
          BY <4>1, <1>10
        <4> QED BY <4>2, <4>3
      <3> QED BY <3>1, <3>2, <1>12, <1>13
    <2>2. ASSUME NEW i \in 1 .. L, NEW m \in 1 .. N PROVE all[i].cite # all[L + m].cite
      <3>1. all[L + m].cite = webTurn.targets[order[m]] /\ order[m] \in F
        BY <1>23
      <3>2. webReads[order[m]] # "recorded" /\ order[m] \in DOMAIN webTurn.targets
        BY <3>1, <1>7
      <3>3. pages[i].cite # webTurn.targets[order[m]]
        BY <3>2, <1>5, <1>12 DEF ReadsInOrder
      <3> QED BY <3>1, <3>3, <1>12
    <2>3. ASSUME NEW i \in 1 .. L, NEW j \in 1 .. L, all[i].cite = all[j].cite PROVE i = j
      BY <2>3, <1>5, <1>12 DEF NamesTargets
    <2>4. ASSUME NEW m \in 1 .. N, NEW n \in 1 .. N, all[L + m].cite = all[L + n].cite PROVE m = n
      <3>1. /\ webTurn.targets[order[m]] = webTurn.targets[order[n]]
            /\ order[m] \in DOMAIN webTurn.targets /\ order[n] \in DOMAIN webTurn.targets
        BY <2>4, <1>23
      <3>2. order[m] = order[n]
        BY <3>1, <1>5 DEF AreTargets
      <3> QED BY <3>2, <1>8
    <2>5. ASSUME NEW i \in DOMAIN all, NEW j \in DOMAIN all, all[i].cite = all[j].cite PROVE i = j
      <3>1. i \in 1 .. L \/ \E m \in 1 .. N : i = L + m
        BY <1>12, <1>13
      <3>2. j \in 1 .. L \/ \E m \in 1 .. N : j = L + m
        BY <1>12, <1>13
      <3> QED BY <2>5, <3>1, <3>2, <2>2, <2>3, <2>4
    <2> QED BY <2>1, <2>5 DEF NamesTargets
  <1>16. shown \in SUBSET Nat
    <2>1. \A n \in Web!Read(come) : come[n].cite \in Nat
      <3>1. \A n \in DOMAIN come : come[n] \in PageRecords
        BY <1>11
      <3> QED BY <3>1 DEF Web!Read, PageRecords
    <2> QED BY <2>1, <1>5
  <1>17. /\ webTurn' \in WebTurns /\ webTurn'.at = "read" /\ webTurn'.pages = all
         /\ webTurn'.targets = webTurn.targets /\ webTurn'.results = webTurn.results
         /\ webTurn'.next = webTurn.next /\ webTurn'.cards = webTurn.cards /\ webTurn'.fetched = webTurn.fetched
         /\ webTurn'.streamed = webTurn.streamed /\ webTurn'.shown = shown
    <2> HIDE DEF shown
    <2>1. webTurn' = [at |-> webTurn.at, streamed |-> webTurn.streamed, results |-> webTurn.results,
                   retried |-> webTurn.retried, targets |-> webTurn.targets, next |-> webTurn.next,
                   pages |-> all, over |-> webTurn.over, shown |-> shown,
                   cards |-> webTurn.cards, fetched |-> webTurn.fetched, answer |-> webTurn.answer]
      BY <1>1, <1>3 DEF WebTurns, all
    <2> QED BY <1>1, <1>12, <1>16, <2>1, WebTurnFields DEF WebTurns
  <1>18. \A k \in DOMAIN webTurn.targets :
            /\ k \in F => webReads'[k] = "recorded" /\ webReads[k] \in {"ok", "failed"}
            /\ k \notin F => webReads'[k] = webReads[k]
    BY <1>4, <1>6, <1>7
  <1>19. webReads' \in [1 .. Len(webTurn.targets) -> ThreadStates]
    BY <1>4, <1>5 DEF ThreadStates
  <1>20. Cardinality(BusyReads(webReads')) <= MaxWorkers
    <2>1. BusyReads(webReads') \subseteq BusyReads(webReads)
      BY <1>18, <1>19, <1>6 DEF BusyReads
    <2> QED BY <2>1, FewerBusy
  <1>21. ReadsInOrder(webTurn', webReads')
    <2>1. ASSUME NEW k \in DOMAIN webTurn.targets
          PROVE  /\ webReads'[k] = "none" <=> k >= webTurn.next
                 /\ webReads'[k] # "left"
                 /\ webReads'[k] = "recorded" <=> \E n \in DOMAIN all : all[n].cite = webTurn.targets[k]
      <3>1. /\ webReads[k] = "none" <=> k >= webTurn.next
            /\ webReads[k] # "left"
            /\ webReads[k] = "recorded" <=> \E n \in DOMAIN pages : pages[n].cite = webTurn.targets[k]
        BY <1>5 DEF ReadsInOrder
      <3>2. CASE k \in F
        <4>1. PICK m \in 1 .. N : order[m] = k
          BY <3>2, <1>9
        <4>2. all[L + m].cite = webTurn.targets[k] /\ L + m \in DOMAIN all
          BY <3>2, <4>1, <1>10, <1>11, <1>12, <1>14
        <4> QED BY <3>1, <3>2, <4>2, <1>18
      <3>3. CASE k \notin F
        <4>1. (\E n \in DOMAIN all : all[n].cite = webTurn.targets[k])
              <=> \E n \in DOMAIN pages : pages[n].cite = webTurn.targets[k]
          <5>1. ASSUME NEW m \in 1 .. N PROVE all[L + m].cite # webTurn.targets[k]
            <6>1. all[L + m].cite = webTurn.targets[order[m]] /\ order[m] \in F
              BY <1>23
            <6>2. order[m] # k /\ order[m] \in DOMAIN webTurn.targets
              BY <6>1, <3>3, <1>7
            <6>3. \A l \in DOMAIN webTurn.targets : webTurn.targets[l] = webTurn.targets[k] => l = k
              BY <1>5 DEF AreTargets
            <6> QED BY <6>1, <6>2, <6>3
          <5>2. \A n \in 1 .. L : all[n] = pages[n] /\ n \in DOMAIN all
            BY <1>12, <1>14
          <5>3. ASSUME NEW n \in DOMAIN all, all[n].cite = webTurn.targets[k]
                PROVE  \E i \in DOMAIN pages : pages[i].cite = webTurn.targets[k]
            <6>1. n \in 1 .. L \/ \E m \in 1 .. N : n = L + m
              BY <1>12, <1>13
            <6>2. n \in 1 .. L
              BY <5>1, <5>3, <6>1
            <6> QED BY <1>12, <5>2, <5>3, <6>2
          <5>4. ASSUME NEW n \in DOMAIN pages, pages[n].cite = webTurn.targets[k]
                PROVE  \E i \in DOMAIN all : all[i].cite = webTurn.targets[k]
            BY <1>12, <5>2, <5>4
          <5> QED BY <5>3, <5>4
        <4> QED BY <3>1, <3>3, <4>1, <1>18
      <3> QED BY <3>2, <3>3
    <2>2. webTurn.streamed => shown = {all[n].cite : n \in Web!Read(all)}
      <3> SUFFICES ASSUME webTurn.streamed PROVE shown = {all[n].cite : n \in Web!Read(all)}
        OBVIOUS
      <3>1. webTurn.shown = {pages[n].cite : n \in Web!Read(pages)}
        BY <1>5 DEF ReadsInOrder
      <3>2. \A n \in 1 .. L : n \in Web!Read(all) <=> n \in Web!Read(pages)
        BY <1>12, <1>14 DEF Web!Read
      <3>3. \A n \in 1 .. N : L + n \in Web!Read(all) <=> n \in Web!Read(come)
        BY <1>12, <1>14 DEF Web!Read
      <3>4. Web!Read(pages) \subseteq 1 .. L /\ Web!Read(come) \subseteq 1 .. N /\ Web!Read(all) \subseteq 1 .. L + N
        BY <1>12 DEF Web!Read
      <3>5. ASSUME NEW c \in shown PROVE c \in {all[n].cite : n \in Web!Read(all)}
        <4>1. CASE \E n \in Web!Read(pages) : c = pages[n].cite
          BY <4>1, <3>2, <3>4, <1>12
        <4>2. CASE \E n \in Web!Read(come) : c = come[n].cite
          BY <4>2, <3>3, <3>4, <1>12
        <4> QED BY <3>1, <3>5, <4>1, <4>2
      <3>6. ASSUME NEW n \in Web!Read(all) PROVE all[n].cite \in shown
        <4>1. CASE n \in 1 .. L
          BY <4>1, <3>1, <3>2, <1>12
        <4>2. ASSUME NEW m \in 1 .. N, n = L + m PROVE all[n].cite \in shown
          BY <4>2, <3>3, <1>12
        <4> QED BY <4>1, <4>2, <3>4, <1>13
      <3> HIDE DEF shown
      <3> QED BY <3>5, <3>6
    <2> HIDE DEF shown
    <2>3. webTurn.cards = {} /\ webTurn.fetched = {}
      BY <1>5 DEF ReadsInOrder
    <2> QED BY <1>17, <2>1, <2>2, <2>3 DEF ReadsInOrder
  <1>22. CitesWhatWasRead(webTurn')
    <2>1. webTurn.cards = {} /\ webTurn.fetched = {}
      BY <1>5 DEF ReadsInOrder
    <2> QED BY <1>17, <2>1 DEF CitesWhatWasRead
  <1> HIDE DEF shown
  <1> QED BY <1>5, <1>15, <1>17, <1>19, <1>20, <1>21, <1>22 DEF WebInv

(* The inverse of a numbering without repetition.                          *)
LEMMA Undone ==
    ASSUME NEW f, NEW x \in DOMAIN f, \A a, b \in DOMAIN f : f[a] = f[b] => a = b
    PROVE  Web!AntiFunction(f)[f[x]] = x
  <1>1. Web!AntiFunction(f) = [t \in Web!Range(f) |-> CHOOSE s \in DOMAIN f : t \in Web!Range(f) => f[s] = t]
    BY DEF Web!AntiFunction, Web!Inverse
  <1>2. f[x] \in Web!Range(f)
    BY DEF Web!Range
  <1>3. Web!AntiFunction(f)[f[x]] = CHOOSE s \in DOMAIN f : f[x] \in Web!Range(f) => f[s] = f[x]
    BY <1>1, <1>2
  <1>4. \E s \in DOMAIN f : f[x] \in Web!Range(f) => f[s] = f[x]
    OBVIOUS
  <1>5. f[Web!AntiFunction(f)[f[x]]] = f[x] /\ Web!AntiFunction(f)[f[x]] \in DOMAIN f
    BY <1>2, <1>3, <1>4
  <1> QED BY <1>5

(* Numbering by a key without repetition.                                  *)
LEMMA NumberedByKey ==
    ASSUME NEW D, IsFiniteSet(D), NEW key \in [D -> Int],
           \A m, n \in D : key[m] = key[n] => m = n,
           NEW place \in [D -> Nat],
           \A i \in D : place[i] = Cardinality({j \in D : key[j] <= key[i]})
    PROVE  Arranges(Web!AntiFunction(place), D)
  <1> DEFINE upTo == [n \in D |-> {m \in D : key[m] <= key[n]}]
  <1>1. \A i, j \in D : j \in upTo[i] <=> key[j] <= key[i]
    OBVIOUS
  <1>2. upTo \in [D -> SUBSET D]
    OBVIOUS
  <1>3. \A i \in D : place[i] = Cardinality(upTo[i])
    OBVIOUS
  <1> HIDE DEF upTo
  <1>4. \A i \in D : i \in upTo[i]
    BY <1>1
  <1>5. ASSUME NEW i \in D, NEW j \in D
        PROVE  upTo[i] \subseteq upTo[j] \/ upTo[j] \subseteq upTo[i]
    <2>1. CASE key[i] <= key[j]
      <3>1. \A l \in D : l \in upTo[i] => l \in upTo[j]
        BY <2>1, <1>1
      <3> QED BY <3>1, <1>2
    <2>2. CASE key[j] <= key[i]
      <3>1. \A l \in D : l \in upTo[j] => l \in upTo[i]
        BY <2>2, <1>1
      <3> QED BY <3>1, <1>2
    <2> QED BY <2>1, <2>2
  <1>6. ASSUME NEW i \in D, NEW j \in D, upTo[i] = upTo[j] PROVE i = j
    <2>1. key[i] = key[j]
      BY <1>1, <1>4, <1>6
    <2> QED BY <2>1
  <1>7. Numbers(place, upTo, D)
    BY <1>2, <1>3, <1>4, <1>5, <1>6 DEF Numbers
  <1> QED BY <1>7, Numbered

(* Pages in the order of their targets are the same pages.                 *)
LEMMA OrderedPages ==
    ASSUME WebInv
    PROVE  /\ Web!Ordered(webTurn.pages) \in Seq(PageRecords)
           /\ Len(Web!Ordered(webTurn.pages)) = Len(webTurn.pages)
           /\ webTurn.streamed => Web!Ordered(webTurn.pages) = webTurn.pages
           /\ \E at \in [1 .. Len(webTurn.pages) -> 1 .. Len(webTurn.pages)] :
                 /\ \A n \in 1 .. Len(webTurn.pages) : Web!Ordered(webTurn.pages)[n] = webTurn.pages[at[n]]
                 /\ \A m, n \in 1 .. Len(webTurn.pages) : at[m] = at[n] => m = n
                 /\ \A i \in 1 .. Len(webTurn.pages) : \E n \in 1 .. Len(webTurn.pages) : at[n] = i
  <1> DEFINE pages == webTurn.pages
             L == Len(pages)
             D == 1 .. L
  <1>1. /\ pages \in Seq(PageRecords) /\ L \in Nat /\ DOMAIN pages = D
        /\ webTurn.targets \in Seq(Nat) /\ AreTargets(webTurn.targets, webTurn.results)
        /\ NamesTargets(pages, webTurn.targets, webTurn.results)
    BY WebTurnFields DEF WebInv
  <1>2. CASE webTurn.streamed
    <2>1. Web!Ordered(pages) = pages
      BY <1>2, WebCounts DEF Web!Ordered
    <2> DEFINE at == [n \in D |-> n]
    <2>2. /\ at \in [D -> D] /\ \A n \in D : pages[n] = pages[at[n]]
          /\ \A m, n \in D : at[m] = at[n] => m = n
          /\ \A i \in D : \E n \in D : at[n] = i
      OBVIOUS
    <2> QED BY <1>1, <2>1, <2>2
  <1>3. CASE ~webTurn.streamed
    <2> DEFINE target == Web!AntiFunction(webTurn.targets)
               key == [n \in D |-> target[pages[n].cite]]
               place == [i \in D |-> Cardinality({j \in D : key[j] <= key[i]})]
               at == Web!AntiFunction(place)
    <2>1. Web!Ordered(pages) = [n \in D |-> pages[at[n]]]
      <3>1. \A n \in D : {m \in D : key[m] <= key[n]}
               = {m \in D : target[pages[m].cite] <= target[pages[n].cite]}
        OBVIOUS
      <3>3. [i \in D |-> Cardinality({j \in D : key[j] <= key[i]})] =
            [n \in D |-> Cardinality({m \in D : target[pages[m].cite] <= target[pages[n].cite]})]
        BY <3>1
      <3>2. Web!Ordered(pages) = [n \in DOMAIN pages |-> pages[Web!AntiFunction(
               [k \in DOMAIN pages |-> Cardinality({m \in DOMAIN pages :
                    target[pages[m].cite] <= target[pages[k].cite]})])[n]]]
        BY <1>3, WebCounts DEF Web!Ordered
      <3> QED BY <1>1, <3>3, <3>2
    <2>2. \A k, l \in DOMAIN webTurn.targets : webTurn.targets[k] = webTurn.targets[l] => k = l
      BY <1>1 DEF AreTargets
    <2>3. \A k \in DOMAIN webTurn.targets : target[webTurn.targets[k]] = k
      BY <2>2, Undone
    <2> HIDE DEF target, pages, L
    <2>4. \A n \in D : /\ target[pages[n].cite] \in DOMAIN webTurn.targets
                       /\ webTurn.targets[target[pages[n].cite]] = pages[n].cite
      <3>1. ASSUME NEW n \in D
            PROVE  \E k \in DOMAIN webTurn.targets : pages[n].cite = webTurn.targets[k]
        BY <1>1 DEF NamesTargets
      <3>2. ASSUME NEW n \in D
            PROVE  /\ target[pages[n].cite] \in DOMAIN webTurn.targets
                   /\ webTurn.targets[target[pages[n].cite]] = pages[n].cite
        <4>1. PICK k \in DOMAIN webTurn.targets : pages[n].cite = webTurn.targets[k]
          BY <3>1
        <4>2. target[webTurn.targets[k]] = k
          BY <2>3, <4>1
        <4> QED BY <4>1, <4>2
      <3> QED BY <3>2
    <2>5. \A n \in D : target[pages[n].cite] \in Nat
      BY <1>1, <2>4
    <2>6. ASSUME NEW m \in D, NEW n \in D, target[pages[m].cite] = target[pages[n].cite] PROVE m = n
      <3>1. pages[m].cite = pages[n].cite
        BY <2>4, <2>6
      <3> QED BY <3>1, <1>1 DEF NamesTargets
    <2>7. key \in [D -> Int] /\ \A m, n \in D : key[m] = key[n] => m = n
      BY <2>5, <2>6
    <2>8. IsFiniteSet(D) /\ Cardinality(D) = L
      <3>1. IsFiniteSet(1 .. L) /\ Cardinality(1 .. L) = IF 1 > L THEN 0 ELSE L - 1 + 1
        BY <1>1, FS_Interval
      <3> QED BY <3>1, <1>1
    <2>9. /\ at \in [1 .. Cardinality(D) -> D]
          /\ \A i \in D : \E n \in 1 .. Cardinality(D) : at[n] = i
          /\ \A m, n \in 1 .. Cardinality(D) : at[m] = at[n] => m = n
      <3>1. at = Web!AntiFunction(place) /\ \A i \in D : place[i] = Cardinality({j \in D : key[j] <= key[i]})
        OBVIOUS
      <3>2. ASSUME NEW i \in D PROVE Cardinality({j \in D : key[j] <= key[i]}) \in Nat
        <4> DEFINE upTo == {j \in D : key[j] <= key[i]}
        <4>1. upTo \subseteq D
          OBVIOUS
        <4> HIDE DEF upTo, D
        <4>2. Cardinality(upTo) \in Nat
          BY <4>1, <2>8, FS_Subset, FS_CardinalityType
        <4> QED BY <4>2 DEF upTo
      <3>3. place \in [D -> Nat]
        BY <3>2
      <3> HIDE DEF at, D, key, place
      <3>4. Arranges(Web!AntiFunction(place), D)
        BY <2>7, <2>8, <3>1, <3>3, NumberedByKey
      <3> QED BY <3>1, <3>4 DEF Arranges
    <2>10. /\ at \in [D -> D]
           /\ \A i \in D : \E n \in D : at[n] = i
           /\ \A m, n \in D : at[m] = at[n] => m = n
      <3> HIDE DEF at
      <3> QED BY <2>8, <2>9
    <2> HIDE DEF at
    <2>11. Web!Ordered(pages) \in [1 .. L -> PageRecords]
      BY <1>1, <2>1, <2>10
    <2>12. Web!Ordered(pages) \in Seq(PageRecords) /\ Len(Web!Ordered(pages)) = L
      BY <1>1, <2>11, LengthIs
    <2>13. \A n \in D : Web!Ordered(pages)[n] = pages[at[n]]
      BY <2>1
    <2> QED BY <1>3, <2>10, <2>12, <2>13 DEF pages, L
  <1> QED BY <1>2, <1>3

(* Every recorded thread has one page.                                     *)
LEMMA PagesCounted ==
    ASSUME WebInv, webTurn.at = "read", NEW recorded,
           recorded = {k \in DOMAIN webReads : webReads[k] = "recorded"}
    PROVE  IsFiniteSet(recorded) /\ Cardinality(recorded) = Len(webTurn.pages)
  <1> DEFINE pages == webTurn.pages
             L == Len(pages)
             of == [n \in 1 .. L |-> CHOOSE k \in recorded : webTurn.targets[k] = pages[n].cite]
  <1>1. /\ pages \in Seq(PageRecords) /\ L \in Nat /\ DOMAIN pages = 1 .. L
        /\ webTurn.targets \in Seq(Nat) /\ NamesTargets(pages, webTurn.targets, webTurn.results)
        /\ ReadsInOrder(webTurn, webReads) /\ DOMAIN webReads = 1 .. Len(webTurn.targets)
        /\ AreTargets(webTurn.targets, webTurn.results)
    BY WebTurnFields DEF WebInv
  <1>2. DOMAIN webReads = DOMAIN webTurn.targets
    BY <1>1
  <1> HIDE DEF pages, L
  <1>3. ASSUME NEW n \in 1 .. L PROVE \E k \in recorded : webTurn.targets[k] = pages[n].cite
    <2>1. PICK k \in DOMAIN webTurn.targets : pages[n].cite = webTurn.targets[k]
      BY <1>1 DEF NamesTargets
    <2>2. webReads[k] = "recorded"
      BY <1>1, <2>1 DEF ReadsInOrder, pages
    <2> QED BY <1>2, <2>1, <2>2
  <1>4. \A n \in 1 .. L : of[n] \in recorded /\ webTurn.targets[of[n]] = pages[n].cite
    BY <1>3
  <1>5. of \in [1 .. L -> recorded]
    BY <1>4
  <1>6. ASSUME NEW m \in 1 .. L, NEW n \in 1 .. L, of[m] = of[n] PROVE m = n
    <2>1. pages[m].cite = pages[n].cite
      BY <1>4, <1>6
    <2> QED BY <1>1, <2>1 DEF NamesTargets
  <1>7. ASSUME NEW k \in recorded PROVE \E n \in 1 .. L : of[n] = k
    <2>1. k \in DOMAIN webTurn.targets /\ webReads[k] = "recorded"
      BY <1>2
    <2>2. PICK n \in 1 .. L : pages[n].cite = webTurn.targets[k]
      BY <1>1, <2>1 DEF ReadsInOrder, pages
    <2>3. of[n] \in DOMAIN webTurn.targets /\ webTurn.targets[of[n]] = webTurn.targets[k]
      BY <1>2, <1>4, <2>2
    <2>4. of[n] = k
      BY <1>1, <2>1, <2>3 DEF AreTargets
    <2> QED BY <2>4
  <1> HIDE DEF of
  <1>8. of \in Bijection(1 .. L, recorded)
    BY <1>5, <1>6, <1>7 DEF Bijection, Injection, Surjection, IsInjective
  <1>9. IsFiniteSet(1 .. L) /\ Cardinality(1 .. L) = L
    <2>1. IsFiniteSet(1 .. L) /\ Cardinality(1 .. L) = IF 1 > L THEN 0 ELSE L - 1 + 1
      BY <1>1, FS_Interval
    <2> QED BY <2>1, <1>1
  <1>10. IsFiniteSet(recorded) /\ Cardinality(recorded) = L
    BY <1>8, <1>9, FS_Bijection DEF ExistsBijection
  <1> QED BY <1>10 DEF L, pages

(* Pages in another order are as many.                                     *)
Permutes(at, n, S, T) ==
    /\ n \in Nat /\ S \subseteq 1 .. n /\ T \subseteq 1 .. n
    /\ at \in [1 .. n -> 1 .. n]
    /\ \A i, j \in 1 .. n : at[i] = at[j] => i = j
    /\ \A j \in 1 .. n : \E i \in 1 .. n : at[i] = j
    /\ \A i \in 1 .. n : i \in S <=> at[i] \in T

(* Sets that a permutation maps onto each other have as many members.      *)
LEMMA AsMany ==
    ASSUME NEW at, NEW n, NEW S, NEW T, Permutes(at, n, S, T)
    PROVE  Cardinality(S) = Cardinality(T)
  <1> USE DEF Permutes
  <1> DEFINE f == [i \in S |-> at[i]]
  <1>1. f \in [S -> T] /\ \A i, j \in S : f[i] = f[j] => i = j
    OBVIOUS
  <1>2. \A j \in T : \E i \in S : f[i] = j
    OBVIOUS
  <1>3. IsFiniteSet(S)
    <2>1. IsFiniteSet(1 .. n)
      BY FS_Interval
    <2> QED BY <2>1, FS_Subset
  <1> HIDE DEF f
  <1>4. f \in Bijection(S, T)
    BY <1>1, <1>2 DEF Bijection, Injection, Surjection, IsInjective
  <1> QED BY <1>3, <1>4, FS_Bijection DEF ExistsBijection

(* The end of reading keeps the pages, sorted if the turn is buffered, or  *)
(* drops them all.                                                         *)
LEMMA EndReadingKeeps == ASSUME WebInv, Web!EndReading PROVE WebInv'
  <1>1. webTurn \in WebTurns /\ webTurn.at = "read" /\ ~Web!CanSubmit /\ Web!Abandon
    BY DEF WebInv, Web!EndReading
  <1> DEFINE old == webTurn.pages
             pages == Web!Ordered(webTurn.pages)
             L == Len(old)
  <1>2. \/ webTurn' = [webTurn EXCEPT !.at = "answer", !.pages = pages,
                       !.cards = Web!Read(pages), !.fetched = Web!Marked(pages)]
        \/ webTurn' = [webTurn EXCEPT !.at = "answer", !.pages = <<>>]
    BY DEF Web!EndReading
  <1>3. /\ old \in Seq(PageRecords) /\ L \in Nat /\ DOMAIN old = 1 .. L
        /\ webTurn.targets \in Seq(Nat) /\ webTurn.results \in Seq(WebAddresses)
        /\ AreTargets(webTurn.targets, webTurn.results) /\ NamesTargets(old, webTurn.targets, webTurn.results)
        /\ ReadsInOrder(webTurn, webReads) /\ webReads \in [1 .. Len(webTurn.targets) -> ThreadStates]
        /\ webTurn.next \in 1 .. Len(webTurn.targets) + 1
    BY <1>1, WebTurnFields DEF WebInv
  <1>4. webTurn.cards = {} /\ webTurn.fetched = {}
    BY <1>3 DEF ReadsInOrder
  <1>5. CASE webTurn' = [webTurn EXCEPT !.at = "answer", !.pages = <<>>]
    <2>1. webTurn' = [at |-> "answer", streamed |-> webTurn.streamed, results |-> webTurn.results,
                   retried |-> webTurn.retried, targets |-> webTurn.targets, next |-> webTurn.next,
                   pages |-> <<>>, over |-> webTurn.over, shown |-> webTurn.shown,
                   cards |-> webTurn.cards, fetched |-> webTurn.fetched, answer |-> webTurn.answer]
      BY <1>1, <1>5 DEF WebTurns
    <2>2. <<>> \in Seq(PageRecords)
      OBVIOUS
    <2>3. /\ webTurn' \in WebTurns /\ webTurn'.at = "answer" /\ webTurn'.pages = <<>>
          /\ webTurn'.targets = webTurn.targets /\ webTurn'.results = webTurn.results
          /\ webTurn'.next = webTurn.next /\ webTurn'.cards = {} /\ webTurn'.fetched = {}
      BY <1>1, <1>4, <2>1, <2>2, WebTurnFields DEF WebTurns
    <2>4. NamesTargets(webTurn'.pages, webTurn'.targets, webTurn'.results) /\ CitesWhatWasRead(webTurn')
      BY <2>3 DEF NamesTargets, CitesWhatWasRead
    <2> QED BY <1>1, <1>3, <2>3, <2>4, AbandonKeeps DEF WebInv
  <1>6. CASE webTurn' = [webTurn EXCEPT !.at = "answer", !.pages = pages,
                        !.cards = Web!Read(pages), !.fetched = Web!Marked(pages)]
    <2>1. /\ pages \in Seq(PageRecords) /\ Len(pages) = L
          /\ webTurn.streamed => pages = old
      BY OrderedPages
    <2>2. PICK at \in [1 .. L -> 1 .. L] :
             /\ \A n \in 1 .. L : pages[n] = old[at[n]]
             /\ \A m, n \in 1 .. L : at[m] = at[n] => m = n
             /\ \A i \in 1 .. L : \E n \in 1 .. L : at[n] = i
      BY OrderedPages
    <2> DEFINE marked == Web!Marked(pages)
               read == Web!Read(pages)
    <2>3. read = {n \in 1 .. L : pages[n].final # None} /\ DOMAIN pages = 1 .. L
      BY <2>1, <1>3 DEF Web!Read, Web!IsOk
    <2>4. \A i \in marked :
             LET found == {n \in DOMAIN pages : webTurn.results[i] \in {pages[n].url, pages[n].final}}
             IN  found # {} /\ pages[Web!Max(found)].final # None
      BY DEF Web!Marked, Web!IsOk
    <2>5. \A i \in DOMAIN webTurn.results :
             LET found == {n \in DOMAIN pages : webTurn.results[i] \in {pages[n].url, pages[n].final}}
             IN  found # {} /\ pages[Web!Max(found)].final # None => i \in marked
      BY DEF Web!Marked, Web!IsOk
    <2>6. marked \subseteq DOMAIN webTurn.results
      BY DEF Web!Marked
    <2> HIDE DEF marked, read, pages, old, L
    <2>7. /\ webTurn' \in WebTurns /\ webTurn'.at = "answer" /\ webTurn'.pages = pages
          /\ webTurn'.targets = webTurn.targets /\ webTurn'.results = webTurn.results
          /\ webTurn'.next = webTurn.next /\ webTurn'.cards = read /\ webTurn'.fetched = marked
          /\ webTurn'.streamed = webTurn.streamed /\ webTurn'.shown = webTurn.shown
          /\ webTurn'.over = webTurn.over
      <3>1. webTurn' = [at |-> "answer", streamed |-> webTurn.streamed, results |-> webTurn.results,
                     retried |-> webTurn.retried, targets |-> webTurn.targets, next |-> webTurn.next,
                     pages |-> pages, over |-> webTurn.over, shown |-> webTurn.shown,
                     cards |-> read, fetched |-> marked, answer |-> webTurn.answer]
        BY <1>1, <1>6 DEF WebTurns, read, marked
      <3>2. read \in SUBSET Nat /\ marked \in SUBSET Nat
        BY <1>3, <2>3, <2>6
      <3> QED BY <1>1, <2>1, <3>1, <3>2, WebTurnFields DEF WebTurns
    <2>8. \A n \in 1 .. L : pages[n] = old[at[n]] /\ at[n] \in 1 .. L
      BY <2>2
    <2>9. NamesTargets(pages, webTurn.targets, webTurn.results)
      <3>1. ASSUME NEW n \in DOMAIN pages
            PROVE  /\ \E k \in DOMAIN webTurn.targets : pages[n].cite = webTurn.targets[k]
                   /\ pages[n].url = webTurn.results[pages[n].cite]
        <4>1. pages[n] = old[at[n]] /\ at[n] \in DOMAIN old
          BY <1>3, <2>3, <2>8 DEF L
        <4>2. /\ \E k \in DOMAIN webTurn.targets : old[at[n]].cite = webTurn.targets[k]
              /\ old[at[n]].url = webTurn.results[old[at[n]].cite]
          BY <1>3, <4>1 DEF NamesTargets
        <4> QED BY <4>1, <4>2
      <3>2. ASSUME NEW m \in DOMAIN pages, NEW n \in DOMAIN pages, pages[m].cite = pages[n].cite
            PROVE  m = n
        <4>1. at[m] = at[n]
          <5>1. /\ pages[m] = old[at[m]] /\ at[m] \in DOMAIN old
                /\ pages[n] = old[at[n]] /\ at[n] \in DOMAIN old
            BY <1>3, <2>3, <2>8 DEF L
          <5>2. old[at[m]].cite = old[at[n]].cite
            BY <3>2, <5>1
          <5>3. \A i, j \in DOMAIN old : old[i].cite = old[j].cite => i = j
            BY <1>3 DEF NamesTargets
          <5> QED BY <5>1, <5>2, <5>3
        <4> QED BY <4>1, <2>2, <2>3
      <3> QED BY <3>1, <3>2 DEF NamesTargets
    <2>10. \A n \in 1 .. L : /\ pages[n].cite \in DOMAIN webTurn.results
                             /\ webTurn.results[pages[n].cite] = pages[n].url
                             /\ pages[n].url \in WebAddresses
      <3> SUFFICES ASSUME NEW n \in 1 .. L
                   PROVE  /\ pages[n].cite \in DOMAIN webTurn.results
                          /\ webTurn.results[pages[n].cite] = pages[n].url
                          /\ pages[n].url \in WebAddresses
        OBVIOUS
      <3>1. pages[n].cite \in DOMAIN webTurn.results /\ webTurn.results[pages[n].cite] = pages[n].url
        BY <1>3, <2>3, <2>9 DEF NamesTargets, AreTargets
      <3>2. pages[n] \in PageRecords
        BY <2>1, <2>3
      <3> QED BY <3>1, <3>2 DEF PageRecords
    <2>11. ASSUME NEW m \in 1 .. L, NEW n \in 1 .. L, pages[m].url = pages[n].url PROVE m = n
      <3>1. PICK k, l \in DOMAIN webTurn.targets :
               pages[m].cite = webTurn.targets[k] /\ pages[n].cite = webTurn.targets[l]
        BY <2>3, <2>9 DEF NamesTargets
      <3>2. webTurn.results[webTurn.targets[k]] = webTurn.results[webTurn.targets[l]]
        BY <2>10, <2>11, <3>1
      <3>3. k = l
        BY <1>3, <3>2 DEF AreTargets
      <3> QED BY <2>3, <2>9, <3>1, <3>3 DEF NamesTargets
    <2>12. ASSUME NEW k \in read PROVE pages[k].cite \in marked
      <3> DEFINE i == pages[k].cite
                 found == {n \in DOMAIN pages : webTurn.results[i] \in {pages[n].url, pages[n].final}}
      <3>1. k \in 1 .. L /\ pages[k].final # None
        BY <2>3, <2>12
      <3>2. i \in DOMAIN webTurn.results /\ webTurn.results[i] = pages[k].url /\ pages[k].url \in WebAddresses
        BY <2>10, <3>1
      <3>3. k \in found /\ found \in SUBSET (0 .. L) /\ found \subseteq DOMAIN pages
        BY <2>3, <3>1, <3>2
      <3>4. Web!Max(found) \in found
        <4> HIDE DEF found
        <4> QED BY <3>3, <1>3, GreatestOf DEF L
      <3> DEFINE m == Web!Max(found)
      <3>5. m \in 1 .. L /\ webTurn.results[i] \in {pages[m].url, pages[m].final}
        BY <2>3, <3>4
      <3> HIDE DEF m
      <3>6. CASE webTurn.results[i] = pages[m].url
        <4>1. m = k
          BY <3>1, <3>2, <3>5, <3>6, <2>11
        <4>2. pages[Web!Max(found)].final # None
          BY <3>1, <4>1 DEF m
        <4> QED BY <2>5, <3>2, <3>3, <4>2
      <3>7. CASE webTurn.results[i] = pages[m].final
        <4>1. pages[Web!Max(found)].final # None
          BY <3>2, <3>7, WebAssumption DEF m, WebAddresses
        <4> QED BY <2>5, <3>2, <3>3, <4>1
      <3> QED BY <3>5, <3>6, <3>7
    <2>13. ASSUME NEW i \in marked
           PROVE  \E k \in read : webTurn.results[i] \in {pages[k].url, pages[k].final}
      <3> DEFINE found == {n \in DOMAIN pages : webTurn.results[i] \in {pages[n].url, pages[n].final}}
      <3>1. found # {} /\ pages[Web!Max(found)].final # None
        BY <2>4, <2>13
      <3>2. found \in SUBSET (0 .. L)
        BY <2>3
      <3>3. Web!Max(found) \in found
        <4> HIDE DEF found
        <4> QED BY <3>1, <3>2, <1>3, GreatestOf DEF L
      <3>4. Web!Max(found) \in read
        BY <2>3, <3>1, <3>3
      <3> QED BY <3>3, <3>4
    <2>14. CitesWhatWasRead(webTurn')
      <3>1. read \subseteq DOMAIN pages
        BY <2>3
      <3>2. ASSUME NEW k \in read, NEW l \in read
            PROVE  /\ webTurn.results[pages[k].cite] = pages[k].url
                   /\ pages[k].cite \in marked
                   /\ pages[k].cite = pages[l].cite => k = l
        <4>1. k \in DOMAIN pages /\ l \in DOMAIN pages /\ k \in 1 .. L
          BY <2>3, <3>1
        <4> QED BY <4>1, <2>9, <2>10, <2>12 DEF NamesTargets
      <3> QED BY <2>7, <2>13, <3>1, <3>2 DEF CitesWhatWasRead
    <2>15. webTurn.streamed => webTurn.shown = {pages[k].cite : k \in read}
      <3> SUFFICES ASSUME webTurn.streamed PROVE webTurn.shown = {pages[k].cite : k \in read}
        OBVIOUS
      <3>1. pages = old
        BY <2>1
      <3>2. webTurn.shown = {old[n].cite : n \in Web!Read(old)}
        BY <1>3 DEF ReadsInOrder, old
      <3> QED BY <3>1, <3>2 DEF read
    <2>16. ASSUME Cardinality(read) < Wanted, ~webTurn.over PROVE Len(pages) = Len(webTurn.targets)
      <3>1. Cardinality(Web!Read(old)) = Cardinality(read)
        <4>1. Web!Read(old) = {n \in 1 .. L : old[n].final # None}
          BY <1>3 DEF Web!Read, Web!IsOk
        <4>2. \A n \in 1 .. L : n \in read <=> at[n] \in Web!Read(old)
          BY <2>3, <2>8, <4>1
        <4>3. read \in SUBSET (1 .. L) /\ Web!Read(old) \in SUBSET (1 .. L)
          BY <2>3, <4>1
        <4>4. Permutes(at, L, read, Web!Read(old))
          BY <1>3, <2>2, <4>2, <4>3 DEF Permutes, L
        <4> QED BY <4>4, AsMany
      <3>2. ~Web!Enough
        <4>1. IsFiniteSet(read)
          BY <1>3, <2>3, FS_Interval, FS_Subset
        <4>2. Cardinality(read) \in Nat
          BY <4>1, FS_CardinalityType
        <4> QED BY <2>16, <3>1, <4>2, WebAssumption, WebCounts DEF Web!Enough, old
      <3>3. (Web!Pending = {} /\ webReads # <<>>) \/ webReads = <<>>
        BY <3>2, <2>16 DEF Web!EndReading
      <3> DEFINE recorded == {k \in DOMAIN webReads : webReads[k] = "recorded"}
      <3>4. IsFiniteSet(recorded) /\ Cardinality(recorded) = L
        BY <1>1, PagesCounted DEF L, old
      <3>5. DOMAIN webReads = 1 .. Len(webTurn.targets) /\ DOMAIN webReads = DOMAIN webTurn.targets
            /\ Len(webTurn.targets) \in Nat
        BY <1>3
      <3>6. Web!Pending = {}
        BY <3>3 DEF Web!Pending
      <3>7. \A k \in DOMAIN webReads : k \in recorded <=> k < webTurn.next
        <4> SUFFICES ASSUME NEW k \in DOMAIN webReads PROVE k \in recorded <=> k < webTurn.next
          OBVIOUS
        <4>1. webReads[k] = "none" <=> k >= webTurn.next
          BY <1>3, <3>5 DEF ReadsInOrder
        <4>2. webReads[k] # "left" /\ webReads[k] \notin {"running", "ok", "failed"}
          BY <1>3, <3>5, <3>6 DEF ReadsInOrder, Web!Pending
        <4>3. webReads[k] \in ThreadStates
          BY <1>3
        <4>4. k \in recorded <=> ~(k >= webTurn.next)
          BY <4>1, <4>2, <4>3 DEF ThreadStates
        <4> QED BY <4>4, <1>3, <3>5
      <3>8. recorded = 1 .. webTurn.next - 1
        BY <3>5, <3>7, <1>3
      <3>9. L = webTurn.next - 1
        <4> HIDE DEF recorded
        <4> DEFINE high == webTurn.next - 1
        <4>1. high \in Nat
          BY <1>3
        <4> HIDE DEF high
        <4>2. IsFiniteSet(1 .. high) /\ Cardinality(1 .. high) = IF 1 > high THEN 0 ELSE high - 1 + 1
          BY <4>1, FS_Interval
        <4>3. Cardinality(1 .. high) = high
          BY <4>1, <4>2
        <4> QED BY <3>4, <3>8, <4>3 DEF high
      <3>10. webTurn.next > Len(webTurn.targets)
        <4> SUFFICES ASSUME webTurn.next <= Len(webTurn.targets) PROVE FALSE
          BY <1>3, <3>5
        <4>1. ~(Web!Batch > 0)
          BY <1>1, <2>16, <3>2 DEF Web!CanSubmit
        <4> DEFINE x == MaxWorkers - 0
                   y == MaxAttempts - L
                   z == Len(webTurn.targets) - webTurn.next + 1
        <4>2. x \in Int /\ y \in Int /\ z \in Int /\ x > 0 /\ y > 0 /\ z > 0
          <5>1. Len(webTurn.targets) <= MaxAttempts
            BY <1>3 DEF AreTargets
          <5> QED BY <5>1, <1>3, <3>5, <3>9, WebAssumption
        <4>3. x = MaxWorkers
          BY WebAssumption
        <4>4. CASE webTurn.streamed
          <5>1. Web!Batch = Web!Min({MaxWorkers, y, z})
            BY <4>4, <3>6, WebCounts DEF Web!Batch, L, old
          <5> HIDE DEF x, y, z
          <5>2. Web!Batch \in {x, y, z}
            BY <5>1, <4>2, <4>3, LeastOfThree
          <5> QED BY <5>2, <4>1, <4>2
        <4>5. CASE ~webTurn.streamed
          <5>1. Web!Batch = Web!Min({MaxWorkers - Cardinality(Web!Pending), z})
            BY <4>5, WebCounts DEF Web!Batch
          <5>2. MaxWorkers - Cardinality(Web!Pending) = x
            BY <3>6, FS_EmptySet
          <5> HIDE DEF x, y, z
          <5>3. Web!Batch \in {x, z}
            BY <5>1, <5>2, <4>2, LeastOfPair
          <5> QED BY <5>3, <4>1, <4>2
        <4> QED BY <4>4, <4>5
      <3> QED BY <2>1, <3>5, <3>9, <3>10, <1>3
    <2> QED BY <1>1, <1>3, <2>7, <2>9, <2>14, <2>15, <2>16, AbandonKeeps DEF WebInv
  <1> QED BY <1>2, <1>5, <1>6

(* Every step of a research turn keeps its invariant.                      *)
LEMMA WebSteps == WebInv /\ [Web!Next]_Web!vars => WebInv'
  <1> SUFFICES ASSUME WebInv, [Web!Next]_Web!vars PROVE WebInv'
    OBVIOUS
  <1>1. CASE (\E streamed \in BOOLEAN : Web!Ask(streamed)) \/ Web!NextTurn
    BY <1>1, BeginningKeeps
  <1>2. CASE Web!SearchFails \/ Web!SearchIsEmpty \/ Web!Answer
    BY <1>2, SearchingKeeps
  <1>3. CASE Web!SearchAnswers
    BY <1>3, SearchAnswersKeeps
  <1>4. CASE Web!Submit
    BY <1>4, SubmitKeeps
  <1>5. CASE \E k \in DOMAIN webReads : Web!EndRead(k)
    BY <1>5, EndReadKeeps
  <1>6. CASE Web!Record
    BY <1>6, RecordKeeps
  <1>7. CASE Web!TimeIsOver
    BY <1>7, TimeIsOverKeeps
  <1>8. CASE Web!EndReading
    BY <1>8, EndReadingKeeps
  <1>9. CASE Web!SkipReading
    BY <1>9, SkipKeeps
  <1>10. CASE UNCHANGED Web!vars
    <2>1. webTurn' = webTurn /\ webReads' = webReads
      BY <1>10 DEF Web!vars
    <2> QED BY <2>1 DEF WebInv, ReadsInOrder, CitesWhatWasRead, Web!Read, Web!IsOk
  <1> QED BY <1>1, <1>2, <1>3, <1>4, <1>5, <1>6, <1>7, <1>8, <1>9, <1>10 DEF Web!Next

-----------------------------------------------------------------------------
(* Embeddings: a breaker for failures in a row, and caches.                *)
VectorKeys == (Courses \cup {"retrieval"}) \X {q.text : q \in Questions}

CallRecords == [at : {"idle", "missed", "calling", "answered", "failed", "keep", "vector", "none"},
                managed : BOOLEAN, key : VectorKeys \cup {<<>>}, attempt : Nat]

MapKeys == [course : Courses, question : Questions, k : TopK]

RequestRecords == {Mapping!NoRequest} \cup [kind : {"retrieve"}] \cup [kind : {"map"}, key : MapKeys]

AnswerRecords == {[key |-> key, matches |-> Mapping!Mapped(key, embedded)] : key \in MapKeys, embedded \in BOOLEAN}

(* Nothing is kept twice.                                                  *)
EachOnce(s) == \A i, j \in DOMAIN s : s[i] = s[j] => i = j

EachKeyOnce(s) == \A i, j \in DOMAIN s : s[i].key = s[j].key => i = j

(* An answer is its question's, without the similar concepts only where    *)
(* the rules were enough or the embedding failed.                          *)
IsMapped(a) ==
    \/ a.matches = Mapping!Mapped(a.key, TRUE)
    \/ /\ a.matches = Mapping!Mapped(a.key, FALSE)
       /\ Mapping!SkipsEmbedding(a.key.course, a.key.question, a.key.k) \/ a.key \in conceptsUnlucky

RightAnswers == {a \in AnswerRecords : IsMapped(a)}

(* As many of the last requests failed as were counted, and the breaker    *)
(* opens at the threshold.                                                 *)
Counts(breaker, last) ==
    /\ breaker \in [failures : 0 .. Threshold, until : Nat]
    /\ last \in Seq(BOOLEAN) /\ Len(last) <= Threshold /\ breaker.failures <= Len(last)
    /\ \A n \in Len(last) - breaker.failures + 1 .. Len(last) : last[n] = FALSE
    /\ breaker.until # 0 => breaker.failures = Threshold

CircuitInv ==
    /\ Counts(conceptsCircuit, conceptsEnded) /\ conceptsClock \in Nat
    /\ conceptsVectors \in Seq(VectorKeys) /\ Len(conceptsVectors) <= VectorsKept /\ EachOnce(conceptsVectors)
    /\ conceptsCalls \in [Callers -> CallRecords]
    /\ \A c \in Callers : conceptsCalls[c].at # "idle" => conceptsCalls[c].key \in VectorKeys

AnswersInv ==
    /\ conceptsRequests \in [Callers -> RequestRecords]
    /\ conceptsAnswers \in Seq(RightAnswers) /\ Len(conceptsAnswers) <= AnswersKept /\ EachKeyOnce(conceptsAnswers)

MapInv == CircuitInv /\ AnswersInv

-----------------------------------------------------------------------------
(* Where the entries of a cache come from when another goes to its end.    *)
Moves(s, entry, r, from) ==
    /\ from \in [1 .. Len(r) - 1 -> DOMAIN s]
    /\ \A i \in 1 .. Len(r) - 1 : r[i] = s[from[i]] /\ s[from[i]] # entry
    /\ \A i, j \in 1 .. Len(r) - 1 : from[i] = from[j] => i = j
    /\ r[Len(r)] = entry

(* What is left of a sequence when one entry is taken out of it.           *)
LEMMA RemovedIs ==
    ASSUME NEW S, NEW s \in Seq(S), NEW x \in DOMAIN s
    PROVE  /\ Mapping!RemoveAt(s, x) \in Seq(S) /\ Len(Mapping!RemoveAt(s, x)) = Len(s) - 1
           /\ \A i \in 1 .. Len(s) - 1 : Mapping!RemoveAt(s, x)[i] = s[IF i < x THEN i ELSE i + 1]
  <1> DEFINE a == SubSeq(s, 1, x - 1)
             b == SubSeq(s, x + 1, Len(s))
  <1>1. x \in 1 .. Len(s) /\ Len(s) \in Nat
    OBVIOUS
  <1>2. a \in Seq(S) /\ Len(a) = x - 1 /\ \A i \in 1 .. x - 1 : a[i] = s[i]
    BY <1>1
  <1>3. b \in Seq(S) /\ Len(b) = Len(s) - x /\ \A i \in 1 .. Len(s) - x : b[i] = s[x + i]
    BY <1>1
  <1> HIDE DEF a, b
  <1>4. Mapping!RemoveAt(s, x) = a \o b
    BY DEF Mapping!RemoveAt, a, b
  <1>5. /\ a \o b \in Seq(S) /\ Len(a \o b) = Len(a) + Len(b)
        /\ \A i \in 1 .. Len(a) + Len(b) : (a \o b)[i] = IF i <= Len(a) THEN a[i] ELSE b[i - Len(a)]
    BY <1>2, <1>3, ConcatProperties
  <1>6. ASSUME NEW i \in 1 .. Len(s) - 1
        PROVE  (a \o b)[i] = s[IF i < x THEN i ELSE i + 1]
    <2>1. CASE i < x
      <3>1. i \in 1 .. Len(a) + Len(b) /\ i <= Len(a) /\ i \in 1 .. x - 1
        BY <1>1, <1>2, <1>3, <2>1
      <3>2. (a \o b)[i] = a[i] /\ a[i] = s[i]
        BY <1>2, <1>5, <3>1
      <3> QED BY <2>1, <3>2
    <2>2. CASE i >= x
      <3>1. /\ i \in 1 .. Len(a) + Len(b) /\ ~(i <= Len(a)) /\ Len(a) = x - 1
            /\ i - (x - 1) \in 1 .. Len(s) - x
        BY <1>1, <1>2, <1>3, <2>2
      <3>2. (a \o b)[i] = b[i - (x - 1)] /\ i - (x - 1) \in 1 .. Len(s) - x
        BY <1>5, <3>1
      <3>3. b[i - (x - 1)] = s[x + (i - (x - 1))] /\ x + (i - (x - 1)) = i + 1
        BY <1>1, <1>3, <3>2
      <3> QED BY <1>1, <2>2, <3>2, <3>3
    <2>3. i < x \/ i >= x
      BY <1>1
    <2> QED BY <2>1, <2>2, <2>3
  <1>7. a \o b \in Seq(S) /\ Len(a \o b) = Len(s) - 1
    BY <1>1, <1>2, <1>3, <1>5
  <1> QED BY <1>4, <1>6, <1>7

(* What is left of a cache without the entry.                              *)
LEMMA WithoutIs ==
    ASSUME NEW S, NEW s \in Seq(S), EachOnce(s), NEW entry
    PROVE  /\ Mapping!RemoveFirst(s, entry) \in Seq(S) /\ Len(Mapping!RemoveFirst(s, entry)) <= Len(s)
           /\ \E from \in [1 .. Len(Mapping!RemoveFirst(s, entry)) -> DOMAIN s] :
                 /\ \A i \in 1 .. Len(Mapping!RemoveFirst(s, entry)) :
                       Mapping!RemoveFirst(s, entry)[i] = s[from[i]] /\ s[from[i]] # entry
                 /\ \A i, j \in 1 .. Len(Mapping!RemoveFirst(s, entry)) : from[i] = from[j] => i = j
  <1> DEFINE r == Mapping!RemoveFirst(s, entry)
  <1>1. Len(s) \in Nat /\ DOMAIN s = 1 .. Len(s)
    OBVIOUS
  <1>2. CASE ~ \E i \in 1 .. Len(s) : s[i] = entry
    <2>1. r = s
      BY <1>2 DEF Mapping!RemoveFirst
    <2> DEFINE from == [i \in 1 .. Len(s) |-> i]
    <2>2. /\ from \in [1 .. Len(s) -> DOMAIN s]
          /\ \A i \in 1 .. Len(s) : s[i] = s[from[i]] /\ s[from[i]] # entry
          /\ \A i, j \in 1 .. Len(s) : from[i] = from[j] => i = j
      BY <1>1, <1>2
    <2> HIDE DEF r, from
    <2> QED BY <1>1, <2>1, <2>2 DEF r
  <1>3. CASE \E i \in 1 .. Len(s) : s[i] = entry
    <2> DEFINE I == {i \in 1 .. Len(s) : s[i] = entry}
    <2>1. PICK x \in I : \A y \in I : x <= y
      <3>1. I \in SUBSET Nat /\ I # {}
        BY <1>1, <1>3
      <3> QED BY <3>1, LeastExists
    <2>2. Mapping!Min(I) \in I
      BY <2>1 DEF Mapping!Min
    <2>3. Mapping!SelectInSeq(s, LAMBDA v : v = entry) = Mapping!Min(I)
      BY <2>1 DEF Mapping!SelectInSeq
    <2> DEFINE at == Mapping!Min(I)
    <2>4. r = Mapping!RemoveAt(s, at) /\ at \in DOMAIN s /\ s[at] = entry
      BY <1>1, <1>3, <2>2, <2>3 DEF Mapping!RemoveFirst
    <2> HIDE DEF at, I, r
    <2>5. /\ r \in Seq(S) /\ Len(r) = Len(s) - 1
          /\ \A i \in 1 .. Len(s) - 1 : r[i] = s[IF i < at THEN i ELSE i + 1]
      BY <2>4, RemovedIs
    <2> DEFINE from == [i \in 1 .. Len(r) |-> IF i < at THEN i ELSE i + 1]
    <2>6. from \in [1 .. Len(r) -> DOMAIN s]
      BY <1>1, <2>4, <2>5
    <2>7. ASSUME NEW i \in 1 .. Len(r)
          PROVE  r[i] = s[from[i]] /\ s[from[i]] # entry
      <3>1. r[i] = s[from[i]] /\ from[i] # at /\ from[i] \in DOMAIN s
        BY <1>1, <2>4, <2>5
      <3> QED BY <2>4, <3>1 DEF EachOnce
    <2>8. \A i, j \in 1 .. Len(r) : from[i] = from[j] => i = j
      BY <1>1, <2>4, <2>5
    <2> HIDE DEF from
    <2>9. r \in Seq(S) /\ Len(r) <= Len(s)
      BY <1>1, <2>5
    <2> QED BY <2>6, <2>7, <2>8, <2>9 DEF r
  <1> QED BY <1>2, <1>3

(* A cache of at least one place keeps the newest entry, holds nothing     *)
(* twice and stays within its size.                                        *)
LEMMA KeptIs ==
    ASSUME NEW S, NEW s \in Seq(S), EachOnce(s), NEW entry \in S,
           NEW size \in Nat \ {0}, Len(s) <= size
    PROVE  /\ Mapping!Kept(s, entry, size) \in Seq(S)
           /\ Len(Mapping!Kept(s, entry, size)) \in 1 .. size
           /\ \E from : Moves(s, entry, Mapping!Kept(s, entry, size), from)
  <1> DEFINE w == Mapping!RemoveFirst(s, entry)
             all == Append(w, entry)
             d == IF Len(all) > size THEN 1 ELSE 0
             r == Mapping!Kept(s, entry, size)
  <1>1. w \in Seq(S) /\ Len(w) <= Len(s)
    BY WithoutIs
  <1>2. PICK at \in [1 .. Len(w) -> DOMAIN s] :
           /\ \A i \in 1 .. Len(w) : w[i] = s[at[i]] /\ s[at[i]] # entry
           /\ \A i, j \in 1 .. Len(w) : at[i] = at[j] => i = j
    BY WithoutIs
  <1> HIDE DEF w
  <1>3. /\ all \in Seq(S) /\ Len(all) = Len(w) + 1 /\ all[Len(all)] = entry
        /\ \A i \in 1 .. Len(w) : all[i] = w[i]
    BY <1>1
  <1>4. r = SubSeq(all, IF Len(all) > size THEN 2 ELSE 1, Len(all))
    BY DEF Mapping!Kept, w
  <1> HIDE DEF all, r
  <1>5. /\ Len(all) \in Nat \ {0} /\ Len(all) - d <= size /\ Len(all) - d >= 1
        /\ d \in {0, 1} /\ Len(w) \in Nat
    BY <1>1, <1>3
  <1>6. r = SubSeq(all, 1 + d, Len(all))
    BY <1>4
  <1> HIDE DEF d
  <1>7. /\ r \in Seq(S) /\ Len(r) = Len(all) - d /\ \A i \in 1 .. Len(all) - d : r[i] = all[i + d]
    <2>1. \A i \in 1 + d .. Len(all) : all[i] \in S
      BY <1>3, <1>5
    <2>2. 1 + d \in Int /\ 1 + d <= Len(all)
      BY <1>3, <1>5
    <2>3. /\ r \in Seq(S) /\ Len(r) = Len(all) - (1 + d) + 1
          /\ \A i \in 1 .. Len(all) - (1 + d) + 1 : r[i] = all[1 + d + i - 1]
      BY <1>5, <1>6, <2>1, <2>2, SubSeqProperties
    <2>4. Len(all) - (1 + d) + 1 = Len(all) - d
      BY <1>5
    <2>5. ASSUME NEW i \in 1 .. Len(all) - d PROVE r[i] = all[i + d]
      <3>1. r[i] = all[1 + d + i - 1]
        BY <2>3, <2>4
      <3>2. 1 + d + i - 1 = i + d
        BY <1>5
      <3> QED BY <3>1, <3>2
    <2> QED BY <2>3, <2>4, <2>5
  <1>8. Len(r) \in 1 .. size /\ Len(r) - 1 = Len(w) - d
    BY <1>3, <1>5, <1>7
  <1> DEFINE from == [i \in 1 .. Len(r) - 1 |-> at[i + d]]
  <1>9. \A i \in 1 .. Len(r) - 1 : i + d \in 1 .. Len(w) /\ r[i] = w[i + d]
    BY <1>3, <1>5, <1>7, <1>8
  <1>10. r[Len(r)] = entry
    <2>1. Len(r) \in 1 .. Len(all) - d /\ Len(r) + d = Len(all)
      BY <1>5, <1>7, <1>8
    <2>2. r[Len(r)] = all[Len(r) + d]
      BY <1>7, <2>1
    <2> QED BY <1>3, <2>1, <2>2
  <1>11. from \in [1 .. Len(r) - 1 -> DOMAIN s]
    BY <1>2, <1>9
  <1>12. \A i \in 1 .. Len(r) - 1 : r[i] = s[from[i]] /\ s[from[i]] # entry
    BY <1>2, <1>9
  <1>13. \A i, j \in 1 .. Len(r) - 1 : from[i] = from[j] => i = j
    <2>1. ASSUME NEW i \in 1 .. Len(r) - 1, NEW j \in 1 .. Len(r) - 1, from[i] = from[j]
          PROVE  i = j
      <3>1. i + d = j + d
        BY <1>2, <1>9, <2>1
      <3> QED BY <1>5, <3>1
    <2> QED BY <2>1
  <1> HIDE DEF from
  <1>14. Moves(s, entry, r, from)
    BY <1>10, <1>11, <1>12, <1>13 DEF Moves
  <1> QED BY <1>7, <1>8, <1>14 DEF r

(* Nothing comes to be kept twice.                                         *)
LEMMA KeptOnce ==
    ASSUME NEW S, NEW s \in Seq(S), EachOnce(s), NEW entry \in S,
           NEW size \in Nat \ {0}, Len(s) <= size
    PROVE  EachOnce(Mapping!Kept(s, entry, size))
  <1> DEFINE r == Mapping!Kept(s, entry, size)
  <1>1. r \in Seq(S) /\ Len(r) \in 1 .. size /\ \E from : Moves(s, entry, r, from)
    BY KeptIs
  <1> HIDE DEF r
  <1>2. PICK from : Moves(s, entry, r, from)
    BY <1>1
  <1>3. ASSUME NEW i \in DOMAIN r, NEW j \in DOMAIN r, r[i] = r[j], i < j
        PROVE  FALSE
    <2>1. i \in 1 .. Len(r) - 1 /\ j \in 1 .. Len(r)
      BY <1>1, <1>3
    <2>2. r[i] = s[from[i]] /\ s[from[i]] # entry /\ from[i] \in DOMAIN s
      BY <1>2, <2>1 DEF Moves
    <2>3. CASE j = Len(r)
      BY <1>2, <1>3, <2>2, <2>3 DEF Moves
    <2>4. CASE j # Len(r)
      <3>1. j \in 1 .. Len(r) - 1
        BY <2>1, <2>4
      <3>2. r[j] = s[from[j]] /\ from[j] \in DOMAIN s
        BY <1>2, <3>1 DEF Moves
      <3>3. from[i] = from[j]
        BY <1>3, <2>2, <3>2 DEF EachOnce
      <3>4. i = j
        BY <1>2, <2>1, <3>1, <3>3 DEF Moves
      <3> QED BY <1>1, <1>3, <3>4
    <2> QED BY <2>3, <2>4
  <1>4. \A i, j \in DOMAIN r : i < j \/ j < i \/ i = j
    BY <1>1
  <1> QED BY <1>3, <1>4 DEF EachOnce, r

(* A cache of no size keeps nothing.                                       *)
LEMMA NothingIsKept ==
    ASSUME NEW S, NEW s \in Seq(S), Len(s) <= 0, NEW entry
    PROVE  Mapping!Kept(s, entry, 0) = <<>>
  <1>1. s = <<>> /\ Len(s) = 0
    BY EmptySeq
  <1>2. Mapping!RemoveFirst(s, entry) = s
    BY <1>1 DEF Mapping!RemoveFirst
  <1> DEFINE all == Append(s, entry)
  <1>3. Len(all) = 1
    BY <1>1
  <1>4. Mapping!Kept(s, entry, 0) = SubSeq(all, 2, 1)
    BY <1>2, <1>3 DEF Mapping!Kept
  <1>5. SubSeq(all, 2, 1) = <<>>
    BY <1>1, SubSeqProperties
  <1> QED BY <1>4, <1>5

(* A cache of any size stays a cache of that size.                         *)
LEMMA CacheIsKept ==
    ASSUME NEW S, NEW s \in Seq(S), EachOnce(s), NEW entry \in S,
           NEW size \in Nat, Len(s) <= size
    PROVE  /\ Mapping!Kept(s, entry, size) \in Seq(S)
           /\ Len(Mapping!Kept(s, entry, size)) <= size
           /\ EachOnce(Mapping!Kept(s, entry, size))
  <1>1. CASE size = 0
    <2>1. Mapping!Kept(s, entry, size) = <<>>
      BY <1>1, NothingIsKept
    <2> QED BY <1>1, <2>1, EmptySeq DEF EachOnce
  <1>2. CASE size # 0
    <2> DEFINE kept == Mapping!Kept(s, entry, size)
    <2>1. kept \in Seq(S) /\ Len(kept) \in 1 .. size /\ EachOnce(kept)
      BY <1>2, KeptIs, KeptOnce
    <2> HIDE DEF kept
    <2>2. Len(kept) <= size
      BY <2>1
    <2> QED BY <2>1, <2>2 DEF kept
  <1> QED BY <1>1, <1>2

-----------------------------------------------------------------------------
(* One more request has ended.                                             *)
LEMMA EndedIs ==
    ASSUME conceptsEnded \in Seq(BOOLEAN), Len(conceptsEnded) <= Threshold, NEW ok \in BOOLEAN
    PROVE  /\ Mapping!Ended(TRUE, ok) \in Seq(BOOLEAN) /\ Len(Mapping!Ended(TRUE, ok)) <= Threshold
           /\ Len(Mapping!Ended(TRUE, ok)) >= 1
           /\ Len(Mapping!Ended(TRUE, ok)) = IF Len(conceptsEnded) = Threshold THEN Threshold ELSE Len(conceptsEnded) + 1
           /\ Mapping!Ended(TRUE, ok)[Len(Mapping!Ended(TRUE, ok))] = ok
           /\ \A n \in 1 .. Len(Mapping!Ended(TRUE, ok)) - 1 :
                 Mapping!Ended(TRUE, ok)[n] = conceptsEnded[n + Len(conceptsEnded) + 1 - Len(Mapping!Ended(TRUE, ok))]
  <1> DEFINE all == Append(conceptsEnded, ok)
             d == IF Len(all) > Threshold THEN 1 ELSE 0
             r == Mapping!Ended(TRUE, ok)
  <1>1. /\ all \in Seq(BOOLEAN) /\ Len(all) = Len(conceptsEnded) + 1 /\ all[Len(all)] = ok
        /\ \A i \in 1 .. Len(conceptsEnded) : all[i] = conceptsEnded[i]
    OBVIOUS
  <1>2. r = SubSeq(all, IF Len(all) > Threshold THEN 2 ELSE 1, Len(all))
    BY DEF Mapping!Ended
  <1> HIDE DEF all, r
  <1>3. /\ Len(all) \in Nat \ {0} /\ Len(all) - d <= Threshold /\ Len(all) - d >= 1
        /\ Len(all) - d = IF Len(conceptsEnded) = Threshold THEN Threshold ELSE Len(conceptsEnded) + 1
        /\ d \in {0, 1} /\ Len(conceptsEnded) \in Nat
    <2>1. /\ Len(all) = Len(conceptsEnded) + 1 /\ Len(conceptsEnded) \in Nat /\ Len(conceptsEnded) <= Threshold
          /\ Threshold \in Nat \ {0}
      BY <1>1, MapAssumption
    <2>2. CASE Len(conceptsEnded) = Threshold
      BY <2>1, <2>2
    <2>3. CASE Len(conceptsEnded) < Threshold
      <3>1. Len(all) <= Threshold
        BY <2>1, <2>3
      <3>2. d = 0
        BY <2>1, <3>1
      <3> HIDE DEF d
      <3> QED BY <2>1, <2>3, <3>1, <3>2
    <2>4. Len(conceptsEnded) = Threshold \/ Len(conceptsEnded) < Threshold
      BY <2>1
    <2> QED BY <2>2, <2>3, <2>4
  <1>4. r = SubSeq(all, 1 + d, Len(all))
    BY <1>2
  <1> HIDE DEF d
  <1>5. /\ r \in Seq(BOOLEAN) /\ Len(r) = Len(all) - d /\ \A i \in 1 .. Len(all) - d : r[i] = all[i + d]
    <2>1. \A i \in 1 + d .. Len(all) : all[i] \in BOOLEAN
      BY <1>1, <1>3
    <2>2. 1 + d \in Int /\ 1 + d <= Len(all)
      BY <1>1, <1>3
    <2>3. /\ r \in Seq(BOOLEAN) /\ Len(r) = Len(all) - (1 + d) + 1
          /\ \A i \in 1 .. Len(all) - (1 + d) + 1 : r[i] = all[1 + d + i - 1]
      BY <1>3, <1>4, <2>1, <2>2, SubSeqProperties
    <2>4. Len(all) - (1 + d) + 1 = Len(all) - d
      BY <1>3
    <2>5. ASSUME NEW i \in 1 .. Len(all) - d PROVE r[i] = all[i + d]
      <3>1. r[i] = all[1 + d + i - 1]
        BY <2>3, <2>4
      <3>2. 1 + d + i - 1 = i + d
        BY <1>3
      <3> QED BY <3>1, <3>2
    <2> QED BY <2>3, <2>4, <2>5
  <1>6. r[Len(r)] = ok
    <2>1. Len(r) \in 1 .. Len(all) - d /\ Len(r) + d = Len(all)
      BY <1>3, <1>5
    <2>2. r[Len(r)] = all[Len(r) + d]
      BY <1>5, <2>1
    <2> QED BY <1>1, <2>1, <2>2
  <1>7. ASSUME NEW n \in 1 .. Len(r) - 1
        PROVE  r[n] = conceptsEnded[n + Len(conceptsEnded) + 1 - Len(r)]
    <2>1. /\ n \in 1 .. Len(all) - d /\ n + d \in 1 .. Len(conceptsEnded)
          /\ n + Len(conceptsEnded) + 1 - Len(r) = n + d
      BY <1>1, <1>3, <1>5
    <2>2. r[n] = all[n + d] /\ all[n + d] = conceptsEnded[n + d]
      BY <1>1, <1>5, <2>1
    <2> QED BY <2>1, <2>2
  <1>8. /\ Len(r) <= Threshold /\ Len(r) >= 1
        /\ Len(r) = IF Len(conceptsEnded) = Threshold THEN Threshold ELSE Len(conceptsEnded) + 1
    BY <1>3, <1>5
  <1>9. r \in Seq(BOOLEAN)
    BY <1>5
  <1> QED BY <1>6, <1>7, <1>8, <1>9 DEF r

(* A failure counts one more, a success none.                              *)
LEMMA FailureCounts ==
    ASSUME Counts(conceptsCircuit, conceptsEnded), conceptsClock \in Nat,
           NEW failures, failures = conceptsCircuit.failures + 1
    PROVE  Counts([failures |-> IF failures > Threshold THEN Threshold ELSE failures,
                   until |-> IF failures >= Threshold THEN conceptsClock + OpenFor ELSE conceptsCircuit.until],
                  Mapping!Ended(TRUE, FALSE))
  <1> DEFINE now == [failures |-> IF failures > Threshold THEN Threshold ELSE failures,
                     until |-> IF failures >= Threshold THEN conceptsClock + OpenFor ELSE conceptsCircuit.until]
             last == Mapping!Ended(TRUE, FALSE)
  <1>1. /\ conceptsCircuit.failures \in 0 .. Threshold /\ conceptsCircuit.until \in Nat
        /\ conceptsEnded \in Seq(BOOLEAN) /\ Len(conceptsEnded) <= Threshold /\ conceptsCircuit.failures <= Len(conceptsEnded)
        /\ \A n \in Len(conceptsEnded) - conceptsCircuit.failures + 1 .. Len(conceptsEnded) : conceptsEnded[n] = FALSE
        /\ conceptsCircuit.until # 0 => conceptsCircuit.failures = Threshold
    BY DEF Counts
  <1>2. /\ last \in Seq(BOOLEAN) /\ Len(last) <= Threshold /\ Len(last) >= 1
        /\ Len(last) = IF Len(conceptsEnded) = Threshold THEN Threshold ELSE Len(conceptsEnded) + 1
        /\ last[Len(last)] = FALSE
        /\ \A n \in 1 .. Len(last) - 1 : last[n] = conceptsEnded[n + Len(conceptsEnded) + 1 - Len(last)]
    BY <1>1, EndedIs
  <1> HIDE DEF last
  <1>3. /\ now.failures \in 0 .. Threshold /\ now.until \in Nat /\ now.failures <= Len(last)
        /\ now.failures <= conceptsCircuit.failures + 1
        /\ now.until # 0 => now.failures = Threshold
    BY <1>1, <1>2, MapAssumption
  <1>4. now \in [failures : 0 .. Threshold, until : Nat]
    BY <1>3
  <1> HIDE DEF now
  <1>5. ASSUME NEW n \in Len(last) - now.failures + 1 .. Len(last)
        PROVE  last[n] = FALSE
    <2>1. Len(last) \in Nat /\ Len(conceptsEnded) \in Nat
      BY <1>1, <1>2
    <2>2. CASE n = Len(last)
      BY <1>2, <2>2
    <2>3. CASE n # Len(last)
      <3>1. /\ n \in 1 .. Len(last) - 1
            /\ n + Len(conceptsEnded) + 1 - Len(last) \in Len(conceptsEnded) - conceptsCircuit.failures + 1 .. Len(conceptsEnded)
        <4>1. /\ conceptsCircuit.failures \in Nat /\ conceptsCircuit.failures <= Len(conceptsEnded) /\ Len(conceptsEnded) <= Threshold
              /\ Len(last) = (IF Len(conceptsEnded) = Threshold THEN Threshold ELSE Len(conceptsEnded) + 1)
              /\ now.failures \in Nat /\ now.failures <= Len(last) /\ now.failures <= conceptsCircuit.failures + 1
              /\ Threshold \in Nat
          BY <1>1, <1>2, <1>3, MapAssumption
        <4>2. Len(last) = Len(conceptsEnded) \/ Len(last) = Len(conceptsEnded) + 1
          BY <2>1, <4>1
        <4>3. n \in Int /\ n >= Len(last) - now.failures + 1 /\ n < Len(last)
          BY <2>1, <2>3, <4>1
        <4> DEFINE e == Len(conceptsEnded)
                   l == Len(last)
                   f == conceptsCircuit.failures
                   g == now.failures
        <4>4. /\ e \in Nat /\ l \in Nat /\ f \in Nat /\ g \in Nat /\ n \in Int
              /\ l = e \/ l = e + 1
              /\ g <= f + 1 /\ g <= l /\ n >= l - g + 1 /\ n < l
          BY <2>1, <4>1, <4>3, <4>2
        <4> HIDE DEF e, l, f, g
        <4>5. n \in 1 .. l - 1 /\ n + e + 1 - l \in e - f + 1 .. e
          BY <4>4
        <4> QED BY <4>5 DEF e, l, f
      <3>2. last[n] = conceptsEnded[n + Len(conceptsEnded) + 1 - Len(last)]
        BY <1>2, <3>1
      <3> QED BY <1>1, <3>1, <3>2
    <2> QED BY <2>2, <2>3
  <1>6. Counts(now, last)
    BY <1>2, <1>3, <1>4, <1>5 DEF Counts
  <1> QED BY <1>6 DEF now, last

(* A managed call that succeeds starts the count of failures anew.         *)
LEMMA SuccessCounts ==
    ASSUME Counts(conceptsCircuit, conceptsEnded)
    PROVE  Counts([failures |-> 0, until |-> 0], Mapping!Ended(TRUE, TRUE))
  <1>1. conceptsEnded \in Seq(BOOLEAN) /\ Len(conceptsEnded) <= Threshold
    BY DEF Counts
  <1> DEFINE last == Mapping!Ended(TRUE, TRUE)
  <1>2. last \in Seq(BOOLEAN) /\ Len(last) <= Threshold /\ Len(last) \in Nat
    <2>1. last \in Seq(BOOLEAN) /\ Len(last) <= Threshold
      BY <1>1, EndedIs
    <2> HIDE DEF last
    <2> QED BY <2>1
  <1> HIDE DEF last
  <1>3. Counts([failures |-> 0, until |-> 0], last)
    BY <1>2, MapAssumption DEF Counts
  <1> QED BY <1>3 DEF last

(* The invariant of the mapper implies that an open breaker was earned.    *)
LEMMA MapInvSuffices == MapInv => Mapping!BreakerIsEarned
  <1> SUFFICES ASSUME MapInv, Mapping!Open PROVE conceptsEnded = [n \in 1 .. Threshold |-> FALSE]
    BY DEF Mapping!BreakerIsEarned
  <1>1. Counts(conceptsCircuit, conceptsEnded) /\ conceptsClock \in Nat
    BY DEF MapInv, CircuitInv
  <1>2. conceptsCircuit.failures = Threshold /\ Len(conceptsEnded) = Threshold
    BY <1>1, MapAssumption DEF Mapping!Open, Counts
  <1>3. \A n \in 1 .. Threshold : conceptsEnded[n] = FALSE
    BY <1>1, <1>2, MapAssumption DEF Counts
  <1>4. DOMAIN conceptsEnded = 1 .. Threshold /\ conceptsEnded \in Seq(BOOLEAN)
    BY <1>1, <1>2 DEF Counts
  <1> QED BY <1>3, <1>4

(* The mapper starts with a closed breaker and empty caches.               *)
LEMMA MapStarts == Mapping!Init => MapInv
  <1> SUFFICES ASSUME Mapping!Init PROVE MapInv
    OBVIOUS
  <1>1. /\ conceptsCircuit = [failures |-> 0, until |-> 0] /\ conceptsVectors = <<>> /\ conceptsClock = 1
        /\ conceptsCalls = [c \in Callers |-> Mapping!Quiet] /\ conceptsEnded = <<>>
        /\ conceptsRequests = [c \in Callers |-> Mapping!NoRequest] /\ conceptsAnswers = <<>>
    BY DEF Mapping!Init, Mapping!InitCircuit
  <1>2. Counts(conceptsCircuit, conceptsEnded)
    BY <1>1, MapAssumption DEF Counts
  <1>3. CircuitInv
    BY <1>1, <1>2, MapAssumption DEF CircuitInv, CallRecords, EachOnce, Mapping!Quiet
  <1>4. AnswersInv
    BY <1>1, MapAssumption DEF AnswersInv, RequestRecords, EachKeyOnce
  <1> QED BY <1>3, <1>4 DEF MapInv

-----------------------------------------------------------------------------
(* The steps of the embedding service.                                     *)
LEMMA MovedCalls ==
    ASSUME conceptsCalls \in [Callers -> CallRecords], NEW c \in Callers,
           NEW at \in {"idle", "missed", "calling", "answered", "failed", "keep", "vector", "none"},
           Mapping!MoveTo(c, at), at # "idle" => conceptsCalls[c].at # "idle",
           \A b \in Callers : conceptsCalls[b].at # "idle" => conceptsCalls[b].key \in VectorKeys
    PROVE  /\ conceptsCalls' \in [Callers -> CallRecords]
           /\ \A b \in Callers : conceptsCalls'[b].at # "idle" => conceptsCalls'[b].key \in VectorKeys
  <1>1. conceptsCalls' = [conceptsCalls EXCEPT ![c].at = at]
    BY DEF Mapping!MoveTo
  <1> DEFINE moved == [conceptsCalls[c] EXCEPT !.at = at]
  <1>2. moved \in CallRecords /\ moved.at = at /\ moved.key = conceptsCalls[c].key
    BY DEF CallRecords
  <1>3. conceptsCalls' = [conceptsCalls EXCEPT ![c] = moved]
    BY <1>1
  <1> HIDE DEF moved
  <1> QED BY <1>2, <1>3

(* A call that returns leaves the breaker and the vectors as they are.     *)
LEMMA ReturnedCalls ==
    ASSUME CircuitInv, NEW c \in Callers, conceptsCalls' = [conceptsCalls EXCEPT ![c] = Mapping!Quiet],
           UNCHANGED <<conceptsCircuit, conceptsVectors, conceptsClock, conceptsEnded>>
    PROVE  CircuitInv'
  <1>1. Mapping!Quiet \in CallRecords /\ Mapping!Quiet.at = "idle"
    BY DEF Mapping!Quiet, CallRecords
  <1>2. /\ conceptsCalls' \in [Callers -> CallRecords]
        /\ \A b \in Callers : conceptsCalls'[b].at # "idle" => conceptsCalls'[b].key \in VectorKeys
    BY <1>1 DEF CircuitInv
  <1> QED BY <1>2 DEF CircuitInv, Counts, EachOnce

(* A caller finds its vector kept, or has missed it.                       *)
LEMMA AskKeeps ==
    ASSUME CircuitInv, NEW c \in Callers, NEW managed \in BOOLEAN, NEW key \in VectorKeys,
           Mapping!Ask(c, managed, key)
    PROVE  CircuitInv'
  <1>1. conceptsCalls \in [Callers -> CallRecords] /\ conceptsVectors \in Seq(VectorKeys)
        /\ Len(conceptsVectors) <= VectorsKept /\ EachOnce(conceptsVectors)
    BY DEF CircuitInv
  <1> DEFINE hit == Mapping!Contains(conceptsVectors, key)
             asked == [at |-> IF hit THEN "vector" ELSE "missed",
                       managed |-> managed, key |-> key, attempt |-> 1]
  <1>2. /\ conceptsCalls' = [conceptsCalls EXCEPT ![c] = asked]
        /\ conceptsVectors' = (IF hit THEN Mapping!Kept(conceptsVectors, key, VectorsKept) ELSE conceptsVectors)
        /\ UNCHANGED <<conceptsCircuit, conceptsClock, conceptsEnded>>
    BY DEF Mapping!Ask
  <1>3. asked \in CallRecords /\ asked.key = key
    BY DEF CallRecords
  <1> HIDE DEF asked, hit
  <1>4. /\ conceptsCalls' \in [Callers -> CallRecords]
        /\ \A b \in Callers : conceptsCalls'[b].at # "idle" => conceptsCalls'[b].key \in VectorKeys
    BY <1>1, <1>2, <1>3 DEF CircuitInv
  <1>5. conceptsVectors' \in Seq(VectorKeys) /\ Len(conceptsVectors') <= VectorsKept /\ EachOnce(conceptsVectors')
    <2>1. CASE hit
      <3> DEFINE kept == Mapping!Kept(conceptsVectors, key, VectorsKept)
      <3>1. kept \in Seq(VectorKeys) /\ Len(kept) <= VectorsKept /\ EachOnce(kept)
        BY <1>1, CacheIsKept, MapAssumption
      <3> HIDE DEF kept
      <3>2. conceptsVectors' = kept
        BY <1>2, <2>1 DEF kept
      <3> QED BY <3>1, <3>2
    <2>2. CASE ~hit
      BY <1>1, <1>2, <2>2
    <2> QED BY <2>1, <2>2
  <1> QED BY <1>2, <1>4, <1>5 DEF CircuitInv, Counts

(* Each later step of a call counts its end once and keeps its vector.     *)
LEMMA StepKeeps ==
    ASSUME CircuitInv, NEW c \in Callers, Mapping!Step(c)
    PROVE  CircuitInv'
  <1>1. /\ Counts(conceptsCircuit, conceptsEnded) /\ conceptsClock \in Nat
        /\ conceptsVectors \in Seq(VectorKeys) /\ Len(conceptsVectors) <= VectorsKept /\ EachOnce(conceptsVectors)
        /\ conceptsCalls \in [Callers -> CallRecords]
        /\ \A b \in Callers : conceptsCalls[b].at # "idle" => conceptsCalls[b].key \in VectorKeys
    BY DEF CircuitInv
  <1>2. SUFFICES /\ Counts(conceptsCircuit', conceptsEnded') /\ conceptsClock' \in Nat
                 /\ conceptsVectors' \in Seq(VectorKeys) /\ Len(conceptsVectors') <= VectorsKept /\ EachOnce(conceptsVectors')
                 /\ conceptsCalls' \in [Callers -> CallRecords]
                 /\ \A b \in Callers : conceptsCalls'[b].at # "idle" => conceptsCalls'[b].key \in VectorKeys
    BY DEF CircuitInv, EachOnce, Counts
  <1>3. CASE Mapping!PassCircuit(c) \/ Mapping!Answer(c) \/ Mapping!Fail(c)
    <2>1. PICK at \in {"none", "calling", "answered", "failed"} : Mapping!MoveTo(c, at)
      BY <1>3 DEF Mapping!PassCircuit, Mapping!Answer, Mapping!Fail
    <2>2. conceptsCalls[c].at # "idle" /\ UNCHANGED <<conceptsCircuit, conceptsVectors, conceptsClock, conceptsEnded>>
      BY <1>3 DEF Mapping!PassCircuit, Mapping!Answer, Mapping!Fail
    <2>3. /\ conceptsCalls' \in [Callers -> CallRecords]
          /\ \A b \in Callers : conceptsCalls'[b].at # "idle" => conceptsCalls'[b].key \in VectorKeys
      BY <1>1, <2>1, <2>2, MovedCalls
    <2> QED BY <1>1, <2>2, <2>3
  <1>4. CASE Mapping!Retry(c)
    <2> DEFINE again == [conceptsCalls[c] EXCEPT !.attempt = @ + 1]
    <2>1. again \in CallRecords /\ again.at = conceptsCalls[c].at /\ again.key = conceptsCalls[c].key
      BY <1>1 DEF CallRecords
    <2>2. conceptsCalls' = [conceptsCalls EXCEPT ![c] = again] /\ UNCHANGED <<conceptsCircuit, conceptsVectors, conceptsClock, conceptsEnded>>
      BY <1>4 DEF Mapping!Retry
    <2> HIDE DEF again
    <2> QED BY <1>1, <2>1, <2>2
  <1>5. CASE Mapping!RecordFailure(c) \/ Mapping!RecordSuccess(c)
    <2>1. PICK at \in {"none", "keep"} : Mapping!MoveTo(c, at)
      BY <1>5 DEF Mapping!RecordFailure, Mapping!RecordSuccess
    <2>2. conceptsCalls[c].at # "idle" /\ UNCHANGED <<conceptsVectors, conceptsClock>>
      BY <1>5 DEF Mapping!RecordFailure, Mapping!RecordSuccess
    <2>3. /\ conceptsCalls' \in [Callers -> CallRecords]
          /\ \A b \in Callers : conceptsCalls'[b].at # "idle" => conceptsCalls'[b].key \in VectorKeys
      BY <1>1, <2>1, <2>2, MovedCalls
    <2>4. Counts(conceptsCircuit', conceptsEnded')
      <3>1. CASE ~conceptsCalls[c].managed
        <4>1. conceptsCircuit' = conceptsCircuit /\ conceptsEnded' = conceptsEnded
          BY <1>5, <3>1 DEF Mapping!RecordFailure, Mapping!RecordSuccess, Mapping!Ended
        <4> QED BY <1>1, <4>1
      <3>2. CASE conceptsCalls[c].managed /\ Mapping!RecordFailure(c)
        <4> DEFINE failures == conceptsCircuit.failures + 1
                   now == [failures |-> IF failures > Threshold THEN Threshold ELSE failures,
                           until |-> IF failures >= Threshold THEN conceptsClock + OpenFor ELSE conceptsCircuit.until]
        <4>1. conceptsCalls[c].managed = TRUE
          BY <1>1, <3>2 DEF CallRecords
        <4>2. conceptsCircuit' = now /\ conceptsEnded' = Mapping!Ended(TRUE, FALSE)
          BY <3>2, <4>1 DEF Mapping!RecordFailure
        <4>3. Counts(now, Mapping!Ended(TRUE, FALSE))
          BY <1>1, FailureCounts
        <4> HIDE DEF now
        <4> QED BY <4>2, <4>3
      <3>3. CASE conceptsCalls[c].managed /\ Mapping!RecordSuccess(c)
        <4>1. conceptsCalls[c].managed = TRUE
          BY <1>1, <3>3 DEF CallRecords
        <4>2. conceptsCircuit' = [failures |-> 0, until |-> 0] /\ conceptsEnded' = Mapping!Ended(TRUE, TRUE)
          BY <3>3, <4>1 DEF Mapping!RecordSuccess
        <4> QED BY <1>1, <4>2, SuccessCounts
      <3> QED BY <1>5, <3>1, <3>2, <3>3
    <2> QED BY <1>1, <2>2, <2>3, <2>4
  <1>6. CASE Mapping!Keep(c)
    <2> DEFINE kept == Mapping!Kept(conceptsVectors, conceptsCalls[c].key, VectorsKept)
    <2>1. conceptsCalls[c].at = "keep" /\ Mapping!MoveTo(c, "vector") /\ conceptsVectors' = kept /\ UNCHANGED <<conceptsCircuit, conceptsClock, conceptsEnded>>
      BY <1>6 DEF Mapping!Keep
    <2>2. conceptsCalls[c].key \in VectorKeys
      BY <1>1, <2>1
    <2>3. kept \in Seq(VectorKeys) /\ Len(kept) <= VectorsKept /\ EachOnce(kept)
      BY <1>1, <2>2, CacheIsKept, MapAssumption
    <2> HIDE DEF kept
    <2>4. /\ conceptsCalls' \in [Callers -> CallRecords]
          /\ \A b \in Callers : conceptsCalls'[b].at # "idle" => conceptsCalls'[b].key \in VectorKeys
      BY <1>1, <2>1, MovedCalls
    <2> QED BY <1>1, <2>1, <2>3, <2>4, MapAssumption
  <1> QED BY <1>3, <1>4, <1>5, <1>6 DEF Mapping!Step

-----------------------------------------------------------------------------
(* The steps of the mapping.                                               *)
LEMMA StillRight ==
    ASSUME conceptsSettings' = conceptsSettings, conceptsUnlucky \subseteq conceptsUnlucky'
    PROVE  RightAnswers \subseteq RightAnswers'
  <1> SUFFICES ASSUME NEW a \in RightAnswers PROVE a \in RightAnswers'
    OBVIOUS
  <1>1. a \in AnswerRecords /\ IsMapped(a)
    BY DEF RightAnswers
  <1>2. Mapping!SkipsEmbedding(a.key.course, a.key.question, a.key.k) =>
           Mapping!SkipsEmbedding(a.key.course, a.key.question, a.key.k)'
    BY DEF Mapping!SkipsEmbedding
  <1> QED BY <1>1, <1>2 DEF RightAnswers, IsMapped

(* A step that keeps the settings and the answers keeps what the answers   *)
(* promise.                                                                *)
LEMMA SameAnswersKeep ==
    ASSUME AnswersInv, conceptsRequests' \in [Callers -> RequestRecords],
           conceptsSettings' = conceptsSettings, conceptsUnlucky \subseteq conceptsUnlucky', UNCHANGED conceptsAnswers
    PROVE  AnswersInv'
  <1>1. RightAnswers \subseteq RightAnswers'
    BY StillRight
  <1>2. conceptsAnswers \in Seq(RightAnswers) /\ Len(conceptsAnswers) <= AnswersKept /\ EachKeyOnce(conceptsAnswers)
    BY DEF AnswersInv
  <1>3. conceptsAnswers \in Seq(RightAnswers')
    BY <1>1, <1>2
  <1> QED BY <1>2, <1>3 DEF AnswersInv, EachKeyOnce

(* An answer is remembered: the one of its key, if there is one.           *)
LEMMA RememberKeeps ==
    ASSUME AnswersInv, conceptsRequests' \in [Callers -> RequestRecords],
           conceptsSettings' = conceptsSettings, conceptsUnlucky \subseteq conceptsUnlucky',
           NEW key \in MapKeys, NEW matches,
           [key |-> key, matches |-> matches] \in RightAnswers',
           Mapping!Remembered(key) = {} \/ [key |-> key, matches |-> matches] \in Mapping!Remembered(key),
           Mapping!Remember(key, matches)
    PROVE  AnswersInv'
  <1> DEFINE entry == [key |-> key, matches |-> matches]
             kept == Mapping!Kept(conceptsAnswers, entry, AnswersKept)
  <1>1. RightAnswers \subseteq RightAnswers' /\ entry \in RightAnswers'
    BY StillRight
  <1>2. conceptsAnswers \in Seq(RightAnswers) /\ Len(conceptsAnswers) <= AnswersKept /\ EachKeyOnce(conceptsAnswers)
    BY DEF AnswersInv
  <1>3. conceptsAnswers \in Seq(RightAnswers')
    BY <1>1, <1>2
  <1>4. EachOnce(conceptsAnswers)
    BY <1>2 DEF EachKeyOnce, EachOnce
  <1>5. conceptsAnswers' = kept
    BY DEF Mapping!Remember
  <1>6. entry.key = key
    OBVIOUS
  <1>7. ASSUME NEW i \in DOMAIN conceptsAnswers, conceptsAnswers[i].key = key PROVE conceptsAnswers[i] = entry
    <2>1. conceptsAnswers[i] \in Mapping!Remembered(key)
      BY <1>7 DEF Mapping!Remembered
    <2>2. entry \in Mapping!Remembered(key)
      BY <2>1
    <2>3. PICK j \in DOMAIN conceptsAnswers : conceptsAnswers[j] = entry /\ conceptsAnswers[j].key = key
      BY <2>2 DEF Mapping!Remembered
    <2> QED BY <1>2, <1>7, <2>3 DEF EachKeyOnce
  <1> HIDE DEF entry, kept
  <1>17. CASE AnswersKept = 0
    <2>1. kept = <<>>
      BY <1>2, <1>17, NothingIsKept DEF kept
    <2> QED BY <1>5, <1>17, <2>1, EmptySeq DEF AnswersInv, EachKeyOnce
  <1> SUFFICES ASSUME AnswersKept # 0 PROVE AnswersInv'
    BY <1>17
  <1>8. /\ kept \in Seq(RightAnswers') /\ Len(kept) \in 1 .. AnswersKept
        /\ \E from : Moves(conceptsAnswers, entry, kept, from)
    BY <1>1, <1>2, <1>3, <1>4, KeptIs, MapAssumption DEF kept
  <1>9. PICK from : Moves(conceptsAnswers, entry, kept, from)
    BY <1>8
  <1>10. Len(kept) \in Nat /\ DOMAIN kept = 1 .. Len(kept)
    BY <1>8
  <1>11. ASSUME NEW i \in 1 .. Len(kept) - 1
         PROVE  /\ kept[i] = conceptsAnswers[from[i]] /\ from[i] \in DOMAIN conceptsAnswers /\ kept[i].key # key
    <2>1. kept[i] = conceptsAnswers[from[i]] /\ from[i] \in DOMAIN conceptsAnswers /\ kept[i] # entry
      BY <1>9 DEF Moves
    <2> QED BY <1>7, <2>1
  <1>12. kept[Len(kept)] = entry
    BY <1>9 DEF Moves
  <1>13. ASSUME NEW i \in DOMAIN kept, NEW j \in DOMAIN kept, kept[i].key = kept[j].key, i < j
         PROVE  FALSE
    <2>1. i \in 1 .. Len(kept) - 1 /\ j \in 1 .. Len(kept)
      BY <1>10, <1>13
    <2>2. CASE j = Len(kept)
      BY <1>6, <1>11, <1>12, <1>13, <2>1, <2>2
    <2>3. CASE j # Len(kept)
      <3>1. j \in 1 .. Len(kept) - 1
        BY <2>1, <2>3
      <3>2. from[i] = from[j]
        BY <1>2, <1>11, <1>13, <2>1, <3>1 DEF EachKeyOnce
      <3>3. i = j
        BY <1>9, <2>1, <3>1, <3>2 DEF Moves
      <3> QED BY <1>10, <1>13, <3>3
    <2> QED BY <2>2, <2>3
  <1>14. \A i, j \in DOMAIN kept : i < j \/ j < i \/ i = j
    BY <1>10
  <1>15. EachKeyOnce(kept)
    BY <1>13, <1>14 DEF EachKeyOnce
  <1>16. Len(kept) <= AnswersKept
    BY <1>8, MapAssumption
  <1> QED BY <1>5, <1>8, <1>15, <1>16 DEF AnswersInv, EachKeyOnce

(* A question is answered from the cache or becomes a request under its    *)
(* own key.                                                                *)
LEMMA MapQuestionKeeps ==
    ASSUME MapInv, NEW c \in Callers, NEW course \in Courses, NEW question \in Questions,
           NEW k \in TopK, Mapping!MapQuestion(c, course, question, k)
    PROVE  MapInv'
  <1> DEFINE key == Mapping!Key(course, question, k)
  <1>1. key \in MapKeys /\ key.course = course /\ key.question = question /\ key.k = k
    BY DEF Mapping!Key, MapKeys
  <1>2. CircuitInv /\ AnswersInv /\ conceptsSettings' = conceptsSettings /\ conceptsUnlucky' = conceptsUnlucky
    BY DEF MapInv, Mapping!MapQuestion
  <1>3. CASE Mapping!Remembered(key) # {} \/ Mapping!SkipsEmbedding(course, question, k)
    <2> DEFINE matches == IF Mapping!Remembered(key) # {} THEN (CHOOSE a \in Mapping!Remembered(key) : TRUE).matches
                          ELSE Mapping!Mapped(key, FALSE)
    <2>1. Mapping!Remember(key, matches) /\ UNCHANGED <<Mapping!cvars, conceptsRequests>>
      BY <1>3 DEF Mapping!MapQuestion
    <2>2. CircuitInv'
      BY <1>2, <2>1 DEF CircuitInv, Counts, EachOnce, Mapping!cvars
    <2>3. conceptsRequests' \in [Callers -> RequestRecords] /\ conceptsAnswers \in Seq(RightAnswers)
      BY <1>2, <2>1 DEF AnswersInv
    <2>4. RightAnswers \subseteq RightAnswers'
      BY <1>2, StillRight
    <2>5. CASE Mapping!Remembered(key) # {}
      <3> DEFINE a == CHOOSE x \in Mapping!Remembered(key) : TRUE
      <3>1. a \in Mapping!Remembered(key)
        BY <2>5
      <3> HIDE DEF a
      <3>2. PICK n \in DOMAIN conceptsAnswers : conceptsAnswers[n] = a /\ a.key = key
        BY <3>1 DEF Mapping!Remembered
      <3>3. a \in RightAnswers
        BY <2>3, <3>2
      <3>4. a = [key |-> a.key, matches |-> a.matches]
        BY <3>3 DEF RightAnswers, AnswerRecords
      <3>5. matches = a.matches
        BY <2>5 DEF a
      <3> HIDE DEF matches, key
      <3>6. [key |-> key, matches |-> matches] = a
        BY <3>2, <3>4, <3>5
      <3> QED BY <1>1, <1>2, <2>1, <2>2, <2>3, <2>4, <3>1, <3>3, <3>6, RememberKeeps DEF MapInv
    <2>6. CASE Mapping!Remembered(key) = {}
      <3>1. matches = Mapping!Mapped(key, FALSE) /\ Mapping!SkipsEmbedding(course, question, k)
        BY <1>3, <2>6
      <3> DEFINE entry == [key |-> key, matches |-> Mapping!Mapped(key, FALSE)]
      <3>2. entry \in AnswerRecords /\ entry.key = key /\ entry.matches = Mapping!Mapped(key, FALSE)
        <4>1. \A embedded \in BOOLEAN :
                 [key |-> key, matches |-> Mapping!Mapped(key, embedded)] \in AnswerRecords
          BY <1>1 DEF AnswerRecords
        <4>2. entry \in AnswerRecords
          BY <4>1, Zenon
        <4> QED BY <4>2
      <3>3. IsMapped(entry)
        BY <1>1, <3>1, <3>2 DEF IsMapped
      <3> HIDE DEF matches, key
      <3>4. entry \in RightAnswers
        BY <3>2, <3>3 DEF RightAnswers
      <3> QED BY <1>1, <1>2, <2>1, <2>2, <2>3, <2>4, <2>6, <3>1, <3>4, RememberKeeps DEF MapInv
    <2> QED BY <2>5, <2>6
  <1>4. CASE ~(Mapping!Remembered(key) # {} \/ Mapping!SkipsEmbedding(course, question, k))
    <2>1. /\ Mapping!Ask(c, FALSE, <<course, question.text>>) /\ UNCHANGED conceptsAnswers
          /\ conceptsRequests' = [conceptsRequests EXCEPT ![c] = [kind |-> "map", key |-> key]]
      BY <1>4 DEF Mapping!MapQuestion
    <2>2. <<course, question.text>> \in VectorKeys
      BY DEF VectorKeys
    <2>3. CircuitInv'
      BY <1>2, <2>1, <2>2, AskKeeps
    <2> DEFINE request == [kind |-> "map", key |-> key]
    <2>4. request \in RequestRecords
      BY <1>1 DEF RequestRecords
    <2> HIDE DEF request
    <2>5. conceptsRequests' \in [Callers -> RequestRecords]
      BY <1>2, <2>1, <2>4 DEF AnswersInv, request
    <2> QED BY <1>2, <2>1, <2>3, <2>5, SameAnswersKeep DEF MapInv
  <1> QED BY <1>3, <1>4

(* A finished request is remembered under its key as what the mapper made  *)
(* of it.                                                                  *)
LEMMA FinishMapKeeps ==
    ASSUME MapInv, NEW c \in Callers, Mapping!FinishMap(c)
    PROVE  MapInv'
  <1> DEFINE key == conceptsRequests[c].key
             embedded == conceptsCalls[c].at = "vector"
             matches == Mapping!Mapped(key, embedded)
             entry == [key |-> key, matches |-> matches]
  <1>1. CircuitInv /\ AnswersInv /\ conceptsSettings' = conceptsSettings
    BY DEF MapInv, Mapping!FinishMap
  <1>2. /\ conceptsRequests[c].kind = "map"
        /\ Mapping!RememberNew(key, matches)
        /\ conceptsUnlucky' = IF embedded THEN conceptsUnlucky ELSE conceptsUnlucky \union {key}
        /\ conceptsCalls' = [conceptsCalls EXCEPT ![c] = Mapping!Quiet] /\ UNCHANGED <<conceptsCircuit, conceptsVectors, conceptsClock, conceptsEnded>>
        /\ conceptsRequests' = [conceptsRequests EXCEPT ![c] = Mapping!NoRequest]
    BY DEF Mapping!FinishMap
  <1>3. CircuitInv'
    BY <1>1, <1>2, ReturnedCalls
  <1>4. conceptsRequests[c] \in RequestRecords /\ conceptsRequests \in [Callers -> RequestRecords]
    BY <1>1 DEF AnswersInv
  <1>5. key \in MapKeys
    BY <1>2, <1>4 DEF RequestRecords, Mapping!NoRequest
  <1>6. conceptsRequests' \in [Callers -> RequestRecords]
    BY <1>2, <1>4 DEF RequestRecords
  <1>7. conceptsUnlucky \subseteq conceptsUnlucky' /\ (embedded \/ key \in conceptsUnlucky')
    BY <1>2
  <1>8. entry \in RightAnswers'
    <2>1. embedded \in BOOLEAN
      OBVIOUS
    <2> HIDE DEF embedded, key
    <2>2. entry \in AnswerRecords /\ entry.key = key /\ entry.matches = Mapping!Mapped(key, embedded)
      BY <1>5, <2>1 DEF AnswerRecords
    <2> HIDE DEF entry, matches
    <2>3. CASE embedded
      <3>1. embedded = TRUE
        BY <2>1, <2>3
      <3>2. entry.matches = Mapping!Mapped(entry.key, TRUE)
        BY <2>2, <3>1
      <3> QED BY <2>2, <3>2 DEF RightAnswers, IsMapped
    <2>4. CASE ~embedded
      <3>1. embedded = FALSE
        BY <2>1, <2>4
      <3>2. entry.matches = Mapping!Mapped(entry.key, FALSE) /\ entry.key \in conceptsUnlucky'
        BY <1>7, <2>2, <2>4, <3>1
      <3> QED BY <2>2, <3>2 DEF RightAnswers, IsMapped
    <2> QED BY <2>3, <2>4
  <1>9. AnswersInv'
    <2>1. CASE Mapping!Remembered(key) # {}
      <3>1. UNCHANGED conceptsAnswers
        BY <1>2, <2>1 DEF Mapping!RememberNew
      <3> HIDE DEF entry, matches, key, embedded
      <3> QED BY <1>1, <1>6, <1>7, <3>1, SameAnswersKeep
    <2>2. CASE Mapping!Remembered(key) = {}
      <3>1. Mapping!Remember(key, matches)
        BY <1>2, <2>2 DEF Mapping!RememberNew
      <3> HIDE DEF matches, key, embedded
      <3> QED BY <1>1, <1>5, <1>6, <1>7, <1>8, <2>2, <3>1, RememberKeeps
    <2> QED BY <2>1, <2>2
  <1> QED BY <1>3, <1>9 DEF MapInv

(* Every step of the mapper keeps its invariant.                           *)
LEMMA MapSteps == MapInv /\ [Mapping!Next]_Mapping!vars => MapInv'
  <1> SUFFICES ASSUME MapInv, [Mapping!Next]_Mapping!vars PROVE MapInv'
    OBVIOUS
  <1>1. CircuitInv /\ AnswersInv
    BY DEF MapInv
  <1>2. ASSUME NEW c \in Callers, NEW course \in Courses, NEW question \in Questions, NEW k \in TopK,
               Mapping!MapQuestion(c, course, question, k)
        PROVE  MapInv'
    BY <1>2, MapQuestionKeeps
  <1>3. ASSUME NEW c \in Callers, NEW question \in Questions, Mapping!Retrieve(c, question)
        PROVE  MapInv'
    <2>1. /\ Mapping!Ask(c, TRUE, <<"retrieval", question.text>>)
          /\ conceptsRequests' = [conceptsRequests EXCEPT ![c] = [kind |-> "retrieve"]]
          /\ UNCHANGED <<conceptsSettings, conceptsAnswers, conceptsUnlucky>>
      BY <1>3 DEF Mapping!Retrieve
    <2>2. <<"retrieval", question.text>> \in VectorKeys
      BY DEF VectorKeys
    <2>3. CircuitInv'
      BY <1>1, <2>1, <2>2, AskKeeps
    <2>4. conceptsRequests' \in [Callers -> RequestRecords]
      BY <1>1, <2>1 DEF AnswersInv, RequestRecords
    <2> QED BY <1>1, <2>1, <2>3, <2>4, SameAnswersKeep DEF MapInv
  <1>4. ASSUME NEW c \in Callers, Mapping!FinishMap(c) PROVE MapInv'
    BY <1>4, FinishMapKeeps
  <1>5. ASSUME NEW c \in Callers, Mapping!FinishRetrieve(c) PROVE MapInv'
    <2>1. /\ conceptsCalls' = [conceptsCalls EXCEPT ![c] = Mapping!Quiet]
          /\ conceptsRequests' = [conceptsRequests EXCEPT ![c] = Mapping!NoRequest]
          /\ UNCHANGED <<conceptsCircuit, conceptsVectors, conceptsClock, conceptsEnded, conceptsSettings, conceptsAnswers, conceptsUnlucky>>
      BY <1>5 DEF Mapping!FinishRetrieve
    <2>2. CircuitInv'
      BY <1>1, <2>1, ReturnedCalls
    <2>3. conceptsRequests' \in [Callers -> RequestRecords]
      BY <1>1, <2>1 DEF AnswersInv, RequestRecords
    <2> QED BY <1>1, <2>1, <2>2, <2>3, SameAnswersKeep DEF MapInv
  <1>6. ASSUME NEW c \in Callers, Mapping!Embedding(c) PROVE MapInv'
    <2>1. Mapping!Step(c) /\ UNCHANGED <<conceptsSettings, conceptsRequests, conceptsAnswers, conceptsUnlucky>>
      BY <1>6 DEF Mapping!Embedding
    <2>2. CircuitInv'
      BY <1>1, <2>1, StepKeeps
    <2>3. conceptsRequests' \in [Callers -> RequestRecords]
      BY <1>1, <2>1 DEF AnswersInv
    <2> QED BY <1>1, <2>1, <2>2, <2>3, SameAnswersKeep DEF MapInv
  <1>7. CASE Mapping!Time
    <2>1. /\ conceptsClock' = conceptsClock + 1
          /\ UNCHANGED <<conceptsCircuit, conceptsVectors, conceptsCalls, conceptsEnded, conceptsSettings, conceptsRequests, conceptsAnswers, conceptsUnlucky>>
      BY <1>7 DEF Mapping!Time, Mapping!Tick
    <2>2. CircuitInv'
      BY <1>1, <2>1 DEF CircuitInv, Counts, EachOnce
    <2>3. conceptsRequests' \in [Callers -> RequestRecords]
      BY <1>1, <2>1 DEF AnswersInv
    <2> QED BY <1>1, <2>1, <2>2, <2>3, SameAnswersKeep DEF MapInv
  <1>8. CASE UNCHANGED Mapping!vars
    <2>1. UNCHANGED <<conceptsCircuit, conceptsVectors, conceptsClock, conceptsCalls, conceptsEnded, conceptsSettings, conceptsRequests, conceptsAnswers, conceptsUnlucky>>
      BY <1>8 DEF Mapping!vars, Mapping!cvars
    <2>2. CircuitInv'
      BY <1>1, <2>1 DEF CircuitInv, Counts, EachOnce
    <2>3. conceptsRequests' \in [Callers -> RequestRecords]
      BY <1>1, <2>1 DEF AnswersInv
    <2> QED BY <1>1, <2>1, <2>2, <2>3, SameAnswersKeep DEF MapInv
  <1> QED BY <1>2, <1>3, <1>4, <1>5, <1>6, <1>7, <1>8 DEF Mapping!Next

-----------------------------------------------------------------------------

(* A citation [n] names search result n, which was read, once.             *)
THEOREM CitationsStayTrue == TeachingSpec => []CitationsNameWhatWasRead
  <1> DEFINE Kept == which = "web" => WebInv
  <1>1. TeachingInit => Kept
    BY WebStarts DEF TeachingInit
  <1>2. Kept /\ [TeachingNext]_teachingVars => Kept'
    <2> SUFFICES ASSUME Kept, [TeachingNext]_teachingVars, which' = "web" PROVE WebInv'
      OBVIOUS
    <2>1. which = "web" /\ [Web!Next]_Web!vars
      BY DEF TeachingNext, AgentStep, ContextStep, ModelStep, WebStep, MappingStep, CodeStep,
             SpotsStep, PracticeStep, teachingVars, webVars, Web!vars
    <2> QED BY <2>1, WebSteps
  <1>3. Kept => CitationsNameWhatWasRead
    BY WebInvSuffices DEF CitationsNameWhatWasRead
  <1> HIDE DEF Kept
  <1> QED BY <1>1, <1>2, <1>3, PTL DEF TeachingSpec

(* Whatever the callers do and however long the service is away: the       *)
(* breaker is open only where as many managed requests in a row as its     *)
(* threshold failed; and what is remembered of a question is its own       *)
(* answer, once, with the similar concepts unless the rules were enough or *)
(* the embedding failed.                                                   *)
AnswersAreMapped ==
    /\ Len(conceptsAnswers) <= AnswersKept /\ EachKeyOnce(conceptsAnswers)
    /\ \A n \in DOMAIN conceptsAnswers : IsMapped(conceptsAnswers[n])

(* The breaker counts failures in a row and opens only when they reach the *)
(* threshold, the caches keep to their sizes and hold nothing twice, and a *)
(* remembered mapping is one the mapper gives: for any questions, callers  *)
(* and sizes.                                                              *)
THEOREM MappingStaysSound ==
    TeachingSpec => [](which = "concepts" => Mapping!BreakerIsEarned /\ AnswersAreMapped)
  <1> DEFINE Kept == which = "concepts" => MapInv
             Sound == which = "concepts" => Mapping!BreakerIsEarned /\ AnswersAreMapped
  <1>1. TeachingInit => Kept
    BY MapStarts DEF TeachingInit
  <1>2. Kept /\ [TeachingNext]_teachingVars => Kept'
    <2> SUFFICES ASSUME Kept, [TeachingNext]_teachingVars, which' = "concepts" PROVE MapInv'
      OBVIOUS
    <2>1. which = "concepts" /\ [Mapping!Next]_Mapping!vars
      BY DEF TeachingNext, AgentStep, ContextStep, ModelStep, WebStep, MappingStep, CodeStep,
             SpotsStep, PracticeStep, teachingVars, conceptsVars, Mapping!vars, Mapping!cvars
    <2> QED BY <2>1, MapSteps
  <1>3. Kept => Sound
    BY MapInvSuffices DEF MapInv, AnswersInv, AnswersAreMapped, RightAnswers
  <1> HIDE DEF Kept, Sound
  <1>4. TeachingSpec => []Sound
    BY <1>1, <1>2, <1>3, PTL DEF TeachingSpec
  <1> QED BY <1>4 DEF Sound

=============================================================================
