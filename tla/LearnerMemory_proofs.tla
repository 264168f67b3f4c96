------------------------ MODULE LearnerMemory_proofs ------------------------
(***************************************************************************)
(* The projections of the learner memory agree with the facts for every    *)
(* number of threads, turns, assessments and notes.                        *)
(***************************************************************************)
EXTENDS LearnerMemory, TLAPS

(* Facts have an observation time of their own, up to the clock.           *)
Clocked ==
    /\ \A w \in Sources : observed[w] <= clock
    /\ \A v, w \in Sources : observed[v] = observed[w] /\ observed[v] # 0 => v = w
    /\ \A w \in known : observed[w] # 0

(* Which source a thread may be working on at each stage.                  *)
AtWork ==
    \A t \in Threads :
       /\ pc[t] = "append" => work[t] \in Sources /\ observed[work[t]] # 0
       /\ pc[t] \in {"relate", "save"} => work[t] \in Turns \cup Assessments

(* Everything read was stored once.                                        *)
ReadsAreKnown ==
    /\ facts \subseteq known
    /\ latest.facts \subseteq known
    /\ \A t \in Threads : seen[t] \subseteq known

(* What a replay of F misses is late if F holds something newer.           *)
MissesOnlyLate(F) == \A w \in facts \ F : Newer(w, F) # {} => w \in late

(* The cursor comparison looks at one fact; this says what it stands for,  *)
(* for the stored snapshot and for every replay still to be stored.        *)
GapsAreLate ==
    /\ MissesOnlyLate(latest.facts)
    /\ \A t \in Threads : MissesOnlyLate(seen[t])

ExtrasAreRemoved ==
    /\ ProfilesHoldOnlyFacts
    /\ \A t \in Threads : seen[t] \ facts \subseteq removed

IInv == /\ TypeOK
        /\ Clocked
        /\ AtWork
        /\ ReadsAreKnown
        /\ EpisodesRestOnFacts
        /\ RelatedEpisodesExist
        /\ CursorIsLastFact
        /\ GapsAreLate
        /\ ExtrasAreRemoved

(* The initial states satisfy the invariant.                               *)
LEMMA InitEstablishes == Init => IInv
  <1> SUFFICES ASSUME Init PROVE IInv
    OBVIOUS
  <1>1. TypeOK /\ Clocked /\ AtWork
    BY DEF Init, TypeOK, Clocked, AtWork, Empty, Snapshots, Stages, Sources
  <1>2. ReadsAreKnown /\ EpisodesRestOnFacts /\ RelatedEpisodesExist
    BY DEF Init, ReadsAreKnown, EpisodesRestOnFacts, RelatedEpisodesExist, Empty
  <1>3. CursorIsLastFact /\ GapsAreLate /\ ExtrasAreRemoved
    BY DEF Init, CursorIsLastFact, IsCursor, GapsAreLate, MissesOnlyLate, Empty,
           ExtrasAreRemoved, ProfilesHoldOnlyFacts
  <1>4. QED
    BY <1>1, <1>2, <1>3 DEF IInv

-----------------------------------------------------------------------------
(* The steps by what they leave alone.                                     *)

(* Only four kinds of step write the database or the clock.                *)
LEMMA Effects ==
    ASSUME Next
    PROVE  \/ \E t \in Threads, w \in Sources : Build(t, w) \/ Submit(t, w)
           \/ \E t \in Threads : AppendFacts(t) \/ SaveEpisode(t) \/ InsertSnapshot(t)
           \/ \E w \in Assessments : DeleteEvidence(w)
           \/ UNCHANGED <<clock, observed, storeVars, historyVars>>
  BY DEF Next, LookUpRelated, Fail, ReadProfile, ReadFacts, ReturnLatest, Replay

(* A thread either keeps what it has read, forgets it or reads the facts.  *)
LEMMA ReadEffects ==
    ASSUME TypeOK, Next, NEW t \in Threads
    PROVE  \/ seen'[t] \in {seen[t], {}}
           \/ seen'[t] = facts /\ UNCHANGED <<clock, observed, storeVars, historyVars>>
  <1>1. ASSUME NEW u \in Threads, Leave(u)
        PROVE  seen'[t] \in {seen[t], {}}
    BY <1>1 DEF Leave, TypeOK
  <1>2. ASSUME NEW u \in Threads, ReadFacts(u)
        PROVE  \/ seen'[t] = seen[t]
               \/ seen'[t] = facts /\ UNCHANGED <<clock, observed, storeVars, historyVars>>
    BY <1>2 DEF ReadFacts, TypeOK
  <1>3. QED
    BY <1>1, <1>2 DEF Next, Build, Submit, AppendFacts, LookUpRelated, SaveEpisode, Fail,
       ReadProfile, ReturnLatest, Replay, InsertSnapshot, DeleteEvidence, threadVars

-----------------------------------------------------------------------------
(* Types and the work of each thread.                                      *)

(* Every step keeps the types.                                             *)
LEMMA TypeStep == TypeOK /\ AtWork /\ [Next]_vars => TypeOK'
  <1> SUFFICES ASSUME TypeOK, AtWork, [Next]_vars PROVE TypeOK'
    OBVIOUS
  <1> USE DEF TypeOK, Stages, Sources, Goto, storeVars, threadVars, historyVars
  <1>1. ASSUME NEW t \in Threads, NEW w \in Sources, Build(t, w) \/ Submit(t, w)
        PROVE  TypeOK'
    BY <1>1 DEF Build, Submit
  <1>2. ASSUME NEW t \in Threads, AppendFacts(t) PROVE TypeOK'
    BY <1>2 DEF AppendFacts, AtWork
  <1>3. ASSUME NEW t \in Threads, LookUpRelated(t) PROVE TypeOK'
    BY <1>3 DEF LookUpRelated
  <1>4. ASSUME NEW t \in Threads, SaveEpisode(t) PROVE TypeOK'
    BY <1>4 DEF SaveEpisode, AtWork
  <1>5. ASSUME NEW t \in Threads, Fail(t) \/ ReturnLatest(t) PROVE TypeOK'
    BY <1>5 DEF Fail, ReturnLatest, Leave
  <1>6. ASSUME NEW t \in Threads, ReadProfile(t) \/ ReadFacts(t) \/ Replay(t) PROVE TypeOK'
    BY <1>6 DEF ReadProfile, ReadFacts, Replay
  <1>7. ASSUME NEW t \in Threads, InsertSnapshot(t) PROVE TypeOK'
    <2>1. latest' \in Snapshots
      BY <1>7 DEF InsertSnapshot, Snapshots
    <2>2. QED
      BY <1>7, <2>1 DEF InsertSnapshot, Leave
  <1>8. ASSUME NEW w \in Assessments, DeleteEvidence(w) PROVE TypeOK'
    BY <1>8 DEF DeleteEvidence
  <1>9. CASE UNCHANGED vars
    BY <1>9 DEF vars
  <1>10. QED
    BY <1>1, <1>2, <1>3, <1>4, <1>5, <1>6, <1>7, <1>8, <1>9 DEF Next

(* Every step keeps a thread's work one it can do.                         *)
LEMMA AtWorkStep == TypeOK /\ AtWork /\ [Next]_vars => AtWork'
  <1> SUFFICES ASSUME TypeOK, AtWork, [Next]_vars, NEW u \in Threads
               PROVE  /\ pc'[u] = "append" => work'[u] \in Sources /\ observed'[work'[u]] # 0
                      /\ pc'[u] \in {"relate", "save"} => work'[u] \in Turns \cup Assessments
    BY DEF AtWork
  <1> USE DEF TypeOK, AtWork, Goto, storeVars, threadVars, historyVars
  <1>1. ASSUME NEW t \in Threads, NEW w \in Sources, Build(t, w) \/ Submit(t, w)
        PROVE  /\ pc'[u] = "append" => work'[u] \in Sources /\ observed'[work'[u]] # 0
               /\ pc'[u] \in {"relate", "save"} => work'[u] \in Turns \cup Assessments
    <2>1. \A v \in Sources : observed[v] # 0 => observed'[v] # 0
      BY <1>1 DEF Build, Submit
    <2>2. observed'[w] # 0
      BY <1>1 DEF Build, Submit
    <2>3. QED
      BY <1>1, <2>1, <2>2 DEF Build, Submit
  <1>2. ASSUME NEW t \in Threads, AppendFacts(t) \/ LookUpRelated(t) \/ SaveEpisode(t)
        PROVE  /\ pc'[u] = "append" => work'[u] \in Sources /\ observed'[work'[u]] # 0
               /\ pc'[u] \in {"relate", "save"} => work'[u] \in Turns \cup Assessments
    BY <1>2 DEF AppendFacts, LookUpRelated, SaveEpisode
  <1>3. ASSUME NEW t \in Threads,
               Fail(t) \/ ReadProfile(t) \/ ReadFacts(t) \/ ReturnLatest(t) \/ Replay(t)
                 \/ InsertSnapshot(t)
        PROVE  /\ pc'[u] = "append" => work'[u] \in Sources /\ observed'[work'[u]] # 0
               /\ pc'[u] \in {"relate", "save"} => work'[u] \in Turns \cup Assessments
    BY <1>3 DEF Fail, ReadProfile, ReadFacts, ReturnLatest, Replay, InsertSnapshot, Leave
  <1>4. CASE UNCHANGED vars \/ \E w \in Assessments : DeleteEvidence(w)
    BY <1>4 DEF vars, DeleteEvidence
  <1>5. QED
    BY <1>1, <1>2, <1>3, <1>4 DEF Next

-----------------------------------------------------------------------------
(* Observation times.                                                      *)

(* A fact that was ever stored keeps its time.                             *)
LEMMA TimesOfFactsAreFixed ==
    ASSUME TypeOK, Clocked, [Next]_vars, NEW v \in known
    PROVE  observed'[v] = observed[v]
  <1>1. v \in Sources /\ observed[v] # 0
    BY DEF TypeOK, Clocked
  <1>2. ASSUME NEW t \in Threads, NEW w \in Sources, Build(t, w) \/ Submit(t, w)
        PROVE  observed'[v] = observed[v]
    BY <1>1, <1>2 DEF Build, Submit, TypeOK
  <1>3. CASE ~ \E t \in Threads, w \in Sources : Build(t, w) \/ Submit(t, w)
    BY <1>3, Effects DEF vars, AppendFacts, SaveEpisode, InsertSnapshot, DeleteEvidence
  <1>4. QED
    BY <1>2, <1>3

(* Every step keeps the order of the observations.                         *)
LEMMA ClockedStep == TypeOK /\ AtWork /\ Clocked /\ [Next]_vars => Clocked'
  <1> SUFFICES ASSUME TypeOK, AtWork, Clocked, [Next]_vars PROVE Clocked'
    OBVIOUS
  <1>1. ASSUME NEW t \in Threads, NEW w \in Sources, Build(t, w) \/ Submit(t, w)
        PROVE  Clocked'
    <2>1. \/ UNCHANGED <<clock, observed>>
          \/ /\ clock' = clock + 1
             /\ observed' = [observed EXCEPT ![w] = clock + 1]
             /\ observed[w] = 0
      BY <1>1 DEF Build, Submit
    <2>2. known' = known
      BY <1>1 DEF Build, Submit, historyVars
    <2>3. QED
      BY <2>1, <2>2 DEF Clocked, TypeOK
  <1>2. ASSUME NEW t \in Threads, AppendFacts(t) PROVE Clocked'
    BY <1>2 DEF AppendFacts, AtWork, Clocked
  <1>3. ASSUME NEW t \in Threads, SaveEpisode(t) \/ InsertSnapshot(t) PROVE Clocked'
    BY <1>3 DEF SaveEpisode, InsertSnapshot, Clocked, historyVars
  <1>4. ASSUME NEW w \in Assessments, DeleteEvidence(w) PROVE Clocked'
    BY <1>4 DEF DeleteEvidence, Clocked
  <1>5. CASE UNCHANGED <<clock, observed, storeVars, historyVars>>
    BY <1>5 DEF Clocked, historyVars
  <1>6. QED
    BY <1>1, <1>2, <1>3, <1>4, <1>5, Effects DEF vars, storeVars, historyVars

-----------------------------------------------------------------------------
(* Facts and episodes.                                                     *)

(* Every step keeps what was read among what was written.                  *)
LEMMA ReadsAreKnownStep == TypeOK /\ ReadsAreKnown /\ [Next]_vars => ReadsAreKnown'
  <1> SUFFICES ASSUME TypeOK, ReadsAreKnown, [Next]_vars PROVE ReadsAreKnown'
    OBVIOUS
  <1>1. known \subseteq known' /\ facts' \subseteq known' /\ latest'.facts \subseteq known'
    <2>1. ASSUME NEW t \in Threads, NEW w \in Sources, Build(t, w) \/ Submit(t, w)
          PROVE  UNCHANGED <<known, facts, latest>>
      BY <2>1 DEF Build, Submit, storeVars, historyVars
    <2>2. ASSUME NEW t \in Threads, AppendFacts(t) \/ SaveEpisode(t) \/ InsertSnapshot(t)
          PROVE  /\ known \subseteq known' /\ facts' \subseteq known'
                 /\ latest'.facts \subseteq known'
      BY <2>2 DEF AppendFacts, SaveEpisode, InsertSnapshot, ReadsAreKnown, historyVars
    <2>3. ASSUME NEW w \in Assessments, DeleteEvidence(w)
          PROVE  facts' \subseteq facts /\ UNCHANGED <<known, latest>>
      BY <2>3 DEF DeleteEvidence
    <2>4. QED
      BY <2>1, <2>2, <2>3, Effects DEF ReadsAreKnown, vars, storeVars, historyVars
  <1>2. ASSUME NEW t \in Threads PROVE seen'[t] \subseteq known'
    BY <1>1, ReadEffects DEF ReadsAreKnown, vars, historyVars
  <1>3. QED
    BY <1>1, <1>2 DEF ReadsAreKnown

(* Every step keeps the episodes on their facts.                           *)
LEMMA EpisodesStep ==
    TypeOK /\ EpisodesRestOnFacts /\ RelatedEpisodesExist /\ [Next]_vars
      => EpisodesRestOnFacts' /\ RelatedEpisodesExist'
  <1> SUFFICES ASSUME TypeOK, EpisodesRestOnFacts, RelatedEpisodesExist, [Next]_vars
               PROVE  EpisodesRestOnFacts' /\ RelatedEpisodesExist'
    OBVIOUS
  <1> USE DEF EpisodesRestOnFacts, RelatedEpisodesExist
  <1>1. ASSUME NEW t \in Threads, AppendFacts(t)
        PROVE  EpisodesRestOnFacts' /\ RelatedEpisodesExist'
    BY <1>1 DEF AppendFacts
  <1>2. ASSUME NEW t \in Threads, SaveEpisode(t)
        PROVE  EpisodesRestOnFacts' /\ RelatedEpisodesExist'
    BY <1>2 DEF SaveEpisode, TypeOK
  <1>3. ASSUME NEW w \in Assessments, DeleteEvidence(w)
        PROVE  EpisodesRestOnFacts' /\ RelatedEpisodesExist'
    BY <1>3 DEF DeleteEvidence, TypeOK
  <1>4. CASE UNCHANGED <<facts, episodes, related>>
    BY <1>4
  <1>5. QED
    BY <1>1, <1>2, <1>3, <1>4, Effects
    DEF vars, storeVars, Build, Submit, InsertSnapshot

-----------------------------------------------------------------------------
(* Snapshots.                                                              *)

(* A replay of stored facts sees the same order for ever.                  *)
LEMMA NewerIsFixed ==
    ASSUME TypeOK, Clocked, [Next]_vars, NEW F \in SUBSET known, NEW w \in known
    PROVE  {v \in F : observed'[v] > observed'[w]} = Newer(w, F)
  BY TimesOfFactsAreFixed DEF Newer

(* Every step keeps the cursor at the last fact.                           *)
LEMMA CursorStep ==
    TypeOK /\ Clocked /\ ReadsAreKnown /\ CursorIsLastFact /\ [Next]_vars => CursorIsLastFact'
  <1> SUFFICES ASSUME TypeOK, Clocked, ReadsAreKnown, CursorIsLastFact, [Next]_vars
               PROVE  CursorIsLastFact'
    OBVIOUS
  <1>1. ASSUME NEW t \in Threads, InsertSnapshot(t) PROVE CursorIsLastFact'
    <2>1. PICK c \in Sources \cup {None} :
             IsCursor(c, seen[t]) /\ latest' = [cursor |-> c, facts |-> seen[t]]
      BY <1>1 DEF InsertSnapshot
    <2>2. observed' = observed /\ latest'.cursor = c /\ latest'.facts = seen[t]
      BY <1>1, <2>1 DEF InsertSnapshot
    <2>3. QED
      BY <2>1, <2>2 DEF CursorIsLastFact, IsCursor, Newer
  <1>2. CASE latest' = latest
    <2>1. CASE latest.facts = {}
      BY <1>2, <2>1 DEF CursorIsLastFact, IsCursor
    <2>2. CASE latest.facts # {}
      <3>1. latest.cursor \in latest.facts /\ Newer(latest.cursor, latest.facts) = {}
        BY <2>2 DEF CursorIsLastFact, IsCursor
      <3>2. {v \in latest.facts : observed'[v] > observed'[latest.cursor]}
              = Newer(latest.cursor, latest.facts)
        BY <3>1, NewerIsFixed DEF ReadsAreKnown
      <3>3. QED
        BY <1>2, <2>2, <3>1, <3>2 DEF CursorIsLastFact, IsCursor, Newer
    <2>3. QED
      BY <2>1, <2>2
  <1>3. QED
    BY <1>1, <1>2, Effects
    DEF vars, storeVars, Build, Submit, AppendFacts, SaveEpisode, DeleteEvidence

(* What a replay misses stays late, whatever is stored or deleted.         *)
LEMMA MissesOnlyLateIsKept ==
    ASSUME TypeOK, Clocked, ReadsAreKnown, [Next]_vars, NEW F \in SUBSET known, MissesOnlyLate(F)
    PROVE  \A w \in facts' \ F : {v \in F : observed'[v] > observed'[w]} # {} => w \in late'
  <1>1. ASSUME NEW t \in Threads, AppendFacts(t),
               NEW w \in facts' \ F, {v \in F : observed'[v] > observed'[w]} # {}
        PROVE  w \in late'
    <2>1. observed' = observed /\ late \subseteq late' /\ Newer(w, F) # {}
      BY <1>1 DEF AppendFacts, Newer
    <2>2. CASE w \in facts
      BY <2>1, <2>2 DEF MissesOnlyLate
    <2>3. CASE w \notin facts
      <3>1. w = work[t] /\ Newer(w, known) # {}
        BY <1>1, <2>1, <2>3 DEF AppendFacts, Newer
      <3>2. QED
        BY <1>1, <2>3, <3>1 DEF AppendFacts
    <2>4. QED
      BY <2>2, <2>3
  <1>2. CASE facts' \subseteq facts /\ late' = late
    <2>1. \A w \in facts : {v \in F : observed'[v] > observed'[w]} = Newer(w, F)
      BY NewerIsFixed DEF ReadsAreKnown
    <2>2. QED
      BY <1>2, <2>1 DEF MissesOnlyLate
  <1>3. QED
    BY <1>1, <1>2, Effects
    DEF vars, storeVars, historyVars, Build, Submit, SaveEpisode, InsertSnapshot, DeleteEvidence

(* Every step keeps what a read misses to what came late.                  *)
LEMMA GapsStep ==
    TypeOK /\ Clocked /\ ReadsAreKnown /\ GapsAreLate /\ [Next]_vars => GapsAreLate'
  <1> SUFFICES ASSUME TypeOK, Clocked, ReadsAreKnown, GapsAreLate, [Next]_vars
               PROVE  GapsAreLate'
    OBVIOUS
  <1>1. MissesOnlyLate(latest.facts)'
    <2>1. latest'.facts \in {latest.facts} \cup {seen[t] : t \in Threads}
      BY Effects DEF vars, storeVars, Build, Submit, AppendFacts, SaveEpisode, InsertSnapshot,
                     DeleteEvidence
    <2>2. latest'.facts \in SUBSET known /\ MissesOnlyLate(latest'.facts)
      BY <2>1 DEF ReadsAreKnown, GapsAreLate
    <2>3. QED
      BY <2>2, MissesOnlyLateIsKept DEF MissesOnlyLate, Newer
  <1>2. ASSUME NEW t \in Threads PROVE MissesOnlyLate(seen[t])'
    <2>1. CASE seen'[t] = seen[t]
      <3>1. seen[t] \in SUBSET known /\ MissesOnlyLate(seen[t])
        BY DEF ReadsAreKnown, GapsAreLate
      <3>2. QED
        BY <2>1, <3>1, MissesOnlyLateIsKept DEF MissesOnlyLate, Newer
    <2>2. CASE seen'[t] = {}
      BY <2>2 DEF MissesOnlyLate, Newer
    <2>3. CASE seen'[t] = facts'
      BY <2>3 DEF MissesOnlyLate
    <2>4. QED
      BY <2>1, <2>2, <2>3, ReadEffects DEF vars, storeVars
  <1>3. QED
    BY <1>1, <1>2 DEF GapsAreLate

(* Every step keeps what a read has and the facts lack to what was         *)
(* removed.                                                                *)
LEMMA ExtrasStep == TypeOK /\ ExtrasAreRemoved /\ [Next]_vars => ExtrasAreRemoved'
  <1> SUFFICES ASSUME TypeOK, ExtrasAreRemoved, [Next]_vars PROVE ExtrasAreRemoved'
    OBVIOUS
  <1>1. facts \ facts' \subseteq removed' /\ removed \subseteq removed'
    BY Effects DEF vars, storeVars, historyVars, Build, Submit, AppendFacts, SaveEpisode,
                   InsertSnapshot, DeleteEvidence
  <1>2. latest'.facts \in {latest.facts} \cup {seen[t] : t \in Threads}
    BY Effects DEF vars, storeVars, Build, Submit, AppendFacts, SaveEpisode, InsertSnapshot,
                   DeleteEvidence
  <1>3. ProfilesHoldOnlyFacts'
    BY <1>1, <1>2 DEF ExtrasAreRemoved, ProfilesHoldOnlyFacts
  <1>4. ASSUME NEW t \in Threads PROVE seen'[t] \ facts' \subseteq removed'
    BY <1>1, ReadEffects DEF ExtrasAreRemoved, vars
  <1>5. QED
    BY <1>3, <1>4 DEF ExtrasAreRemoved

-----------------------------------------------------------------------------

(* Every step preserves the invariant.                                     *)
LEMMA StepPreserves == IInv /\ [Next]_vars => IInv'
  BY TypeStep, AtWorkStep, ClockedStep, ReadsAreKnownStep, EpisodesStep, CursorStep, GapsStep,
     ExtrasStep DEF IInv

(* The invariant holds in every reachable state.                           *)
LEMMA Invariance == Spec => []IInv
  BY InitEstablishes, StepPreserves, PTL DEF Spec

(* No interleaving takes a variable out of its type: notes never get an    *)
(* episode, and no snapshot refers to an unknown source.                   *)
THEOREM TypeCorrect == Spec => []TypeOK
  BY Invariance, PTL DEF IInv

(* The rows of interaction_episodes always rest on stored facts, although  *)
(* facts and episodes are written, and deleted, in separate transactions.  *)
THEOREM EpisodesAreGrounded == Spec => [](EpisodesRestOnFacts /\ RelatedEpisodesExist)
  BY Invariance, PTL DEF IInv

(* The cursor stored with a snapshot is the last fact of its replay.       *)
THEOREM CursorsAreExact == Spec => []CursorIsLastFact
  BY Invariance, PTL DEF IInv

(* Nothing but stored or deleted facts is ever in a profile.               *)
THEOREM ProfilesAreGrounded == Spec => []ProfilesHoldOnlyFacts
  BY Invariance, PTL DEF IInv, ExtrasAreRemoved

(* The whole of it: whatever the threads, their failures and the deletions *)
(* of the maintenance do, the projections rest on the facts.               *)
THEOREM MemoryStaysGrounded == Spec => []MemoryIsGrounded
  BY TypeCorrect, EpisodesAreGrounded, CursorsAreExact, ProfilesAreGrounded, PTL
     DEF MemoryIsGrounded

(* What comparing cursors is worth: a snapshot that project takes for      *)
(* current lacks at most facts stored after a newer one.                   *)
THEOREM CurrentProfilesAreNearlyComplete == Spec => []CurrentProfileMissesOnlyLateFacts
  <1>1. IInv => CurrentProfileMissesOnlyLateFacts
    <2> SUFFICES ASSUME IInv, IsCursor(latest.cursor, facts), NEW w \in facts \ latest.facts
                 PROVE  w \in late
      BY DEF CurrentProfileMissesOnlyLateFacts
    <2> DEFINE c == latest.cursor
    <2>1. c \in facts /\ Newer(c, facts) = {}
      BY DEF IsCursor
    <2>2. c \in latest.facts
      BY <2>1, SourcesAreDistinct DEF IInv, CursorIsLastFact, IsCursor, TypeOK
    <2>3. observed[w] # observed[c] /\ observed[w] \in Nat /\ observed[c] \in Nat
      BY <2>1, <2>2 DEF IInv, TypeOK, Clocked, ReadsAreKnown
    <2>4. observed[c] > observed[w]
      BY <2>1, <2>3 DEF Newer
    <2>5. Newer(w, latest.facts) # {}
      BY <2>2, <2>4 DEF Newer
    <2>6. QED
      BY <2>5 DEF IInv, GapsAreLate, MissesOnlyLate
  <1>2. QED
    BY <1>1, Invariance, PTL

=============================================================================
