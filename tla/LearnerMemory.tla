--------------------------- MODULE LearnerMemory ---------------------------
(***************************************************************************)
(* The durable learner memory of one student in one course (app.db):       *)
(*   learning_events             append-only facts                         *)
(*   interaction_episodes        one projection per turn or assessment     *)
(*   learner_profile_snapshots   the replayed profile with a source cursor *)
(* and the code in teaching/ that writes and reads them.                   *)
(*                                                                         *)
(* Every transaction is one step; threads (stream workers, the pool that   *)
(* serves assessments, the event loop, a maintenance script) interleave    *)
(* between transactions, and any of them can fail or die between two of    *)
(* them: nothing but the database is shared, so a crash is the failure of  *)
(* every thread.  The events of one source are stored in one transaction   *)
(* and are one fact here.                                                  *)
(***************************************************************************)
EXTENDS Integers

CONSTANTS Threads,
          Turns,        \* successful chat turns that teach something
          Assessments,  \* submitted assessments
          Notes,        \* manual resolutions and misconceptions: no episode
          None

Sources == Turns \cup Assessments \cup Notes

ASSUME SourcesAreDistinct ==
    /\ Turns \cap Assessments = {}
    /\ Notes \cap (Turns \cup Assessments) = {}
    /\ None \notin Sources

VARIABLES
    clock,
    observed,   \* observed_at of each fact, 0 before it exists
    facts,      \* learning_events: the sources whose fact is stored
    episodes,   \* interaction_episodes: the sources that have one
    related,    \* related_episode_id of each stored episode
    latest,     \* the newest snapshot: its cursor and the facts it replayed
    pc, work,   \* what each thread is doing, and for which source
    link,       \* the related episode a writer has looked up
    seen,       \* the facts a projection has read
    known,      \* history: facts that have ever been stored
    late,       \* history: facts stored after a newer one
    removed     \* history: facts deleted by the maintenance

storeVars   == <<facts, episodes, related, latest>>
threadVars  == <<pc, work, link, seen>>
historyVars == <<known, late, removed>>
vars == <<clock, observed, facts, episodes, related, latest, pc, work, link,
          seen, known, late, removed>>

Stages == {"idle", "append", "relate", "save", "read", "compare", "insert"}

Empty == [cursor |-> None, facts |-> {}]

Init ==
    /\ clock = 0
    /\ observed = [w \in Sources |-> 0]
    /\ facts = {}
    /\ episodes = {}
    /\ related = [w \in Sources |-> None]
    /\ latest = Empty
    /\ pc = [t \in Threads |-> "idle"]
    /\ work = [t \in Threads |-> None]
    /\ link = [t \in Threads |-> None]
    /\ seen = [t \in Threads |-> {}]
    /\ known = {}
    /\ late = {}
    /\ removed = {}

-----------------------------------------------------------------------------

Goto(t, p) == pc' = [pc EXCEPT ![t] = p]

(* The call of t returns or raises, and its locals are gone.               *)
Leave(t) ==
    /\ Goto(t, "idle")
    /\ work' = [work EXCEPT ![t] = None]
    /\ link' = [link EXCEPT ![t] = None]
    /\ seen' = [seen EXCEPT ![t] = {}]

(* The facts observed after w; observed_at orders the replay.              *)
Newer(w, F) == {v \in F : observed[v] > observed[w]}

(* The last event of a replay, which becomes the source_event_cursor.      *)
IsCursor(c, F) == IF F = {} THEN c = None ELSE c \in F /\ Newer(c, F) = {}

(* A turn is persisted once, under a turn id of its own; the lookups for   *)
(* that id find nothing.  A note is built once as well.                    *)
Build(t, w) ==
    /\ pc[t] = "idle"
    /\ w \in Turns \cup Notes
    /\ observed[w] = 0
    /\ clock' = clock + 1
    /\ observed' = [observed EXCEPT ![w] = clock + 1]
    /\ work' = [work EXCEPT ![t] = w]
    /\ Goto(t, "append")
    /\ UNCHANGED <<storeVars, link, seen, historyVars>>

(* A first submission is stamped with submitted_at; the recorder runs then *)
(* and again for every repeated submission and every rebuild.              *)
Submit(t, w) ==
    /\ pc[t] = "idle"
    /\ w \in Assessments
    /\ \/ /\ observed[w] = 0
          /\ clock' = clock + 1
          /\ observed' = [observed EXCEPT ![w] = clock + 1]
       \/ /\ observed[w] # 0
          /\ UNCHANGED <<clock, observed>>
    /\ work' = [work EXCEPT ![t] = w]
    /\ Goto(t, "append")
    /\ UNCHANGED <<storeVars, link, seen, historyVars>>

(* append_many: an identical fact is ignored.                              *)
AppendFacts(t) ==
    LET w == work[t] IN
    /\ pc[t] = "append"
    /\ facts' = facts \cup {w}
    /\ known' = known \cup {w}
    /\ late' = IF w \notin facts /\ Newer(w, known) # {} THEN late \cup {w} ELSE late
    /\ \/ w \in Turns       /\ Goto(t, "relate")
       \/ w \in Assessments /\ Goto(t, "save")
       \/ w \in Notes       /\ Goto(t, "read")
    /\ UNCHANGED <<clock, observed, episodes, related, latest, work, link, seen, removed>>

(* The newest episode about one of the concepts, whichever that is.        *)
LookUpRelated(t) ==
    /\ pc[t] = "relate"
    /\ \E e \in episodes \cup {None} : link' = [link EXCEPT ![t] = e]
    /\ Goto(t, "save")
    /\ UNCHANGED <<clock, observed, storeVars, work, seen, historyVars>>

(* Mutant of SaveEpisode: the evidence is trusted to be still there.       *)
SaveEpisodeUnproved(t) ==
    LET w == work[t] IN
    /\ pc[t] = "save"
    /\ link[t] # None => link[t] \in episodes
    /\ episodes' = episodes \cup {w}
    /\ related' = [related EXCEPT ![w] = link[t]]
    /\ Goto(t, "read")
    /\ UNCHANGED <<clock, observed, facts, latest, work, link, seen, historyVars>>

(* One transaction, which refuses evidence or a relation that is gone.     *)
SaveEpisode(t) ==
    LET w == work[t] IN
    /\ pc[t] = "save"
    /\ w \in facts
    /\ link[t] # None => link[t] \in episodes
    /\ episodes' = episodes \cup {w}
    /\ related' = [related EXCEPT ![w] = link[t]]
    /\ Goto(t, "read")
    /\ UNCHANGED <<clock, observed, facts, latest, work, link, seen, historyVars>>

(* Any transaction can raise, and any thread can die.                      *)
Fail(t) ==
    /\ pc[t] # "idle"
    /\ Leave(t)
    /\ UNCHANGED <<clock, observed, storeVars, historyVars>>

-----------------------------------------------------------------------------
(* project: the facts, the newest snapshot and the insert are read and     *)
(* written in three transactions.                                          *)

ReadProfile(t) ==
    /\ pc[t] = "idle"
    /\ Goto(t, "read")
    /\ UNCHANGED <<clock, observed, storeVars, work, link, seen, historyVars>>

ReadFacts(t) ==
    /\ pc[t] = "read"
    /\ seen' = [seen EXCEPT ![t] = facts]
    /\ Goto(t, "compare")
    /\ UNCHANGED <<clock, observed, storeVars, work, link, historyVars>>

(* The cursor of the newest snapshot is that of the facts read.  (Having   *)
(* no snapshot is having one of no facts, whose cursor is empty.)          *)
ReturnLatest(t) ==
    /\ pc[t] = "compare"
    /\ IsCursor(latest.cursor, seen[t])
    /\ Leave(t)
    /\ UNCHANGED <<clock, observed, storeVars, historyVars>>

Replay(t) ==
    /\ pc[t] = "compare"
    /\ ~IsCursor(latest.cursor, seen[t])
    /\ Goto(t, "insert")
    /\ UNCHANGED <<clock, observed, storeVars, work, link, seen, historyVars>>

(* Mutant of InsertSnapshot: the cursor is read again, after the replay.   *)
InsertWithNewCursor(t) ==
    /\ pc[t] = "insert"
    /\ \E c \in Sources \cup {None} : /\ IsCursor(c, facts)
                                     /\ latest' = [cursor |-> c, facts |-> seen[t]]
    /\ Leave(t)
    /\ UNCHANGED <<clock, observed, facts, episodes, related, historyVars>>

(* The new snapshot gets the highest version: it is the newest one.        *)
InsertSnapshot(t) ==
    /\ pc[t] = "insert"
    /\ \E c \in Sources \cup {None} : /\ IsCursor(c, seen[t])
                                     /\ latest' = [cursor |-> c, facts |-> seen[t]]
    /\ Leave(t)
    /\ UNCHANGED <<clock, observed, facts, episodes, related, historyVars>>

(* AssessmentEvidenceMaintenance.delete: one transaction that leaves the   *)
(* snapshots alone.                                                        *)
DeleteEvidence(w) ==
    /\ w \in Assessments
    /\ w \in facts
    /\ facts' = facts \ {w}
    /\ episodes' = episodes \ {w}
    /\ related' = [v \in Sources |-> IF related[v] = w \/ v = w THEN None ELSE related[v]]
    /\ removed' = removed \cup {w}
    /\ UNCHANGED <<clock, observed, latest, threadVars, known, late>>

Next ==
    \/ \E t \in Threads :
          \/ \E w \in Sources : Build(t, w) \/ Submit(t, w)
          \/ AppendFacts(t) \/ LookUpRelated(t) \/ SaveEpisode(t) \/ Fail(t)
          \/ ReadProfile(t) \/ ReadFacts(t) \/ ReturnLatest(t) \/ Replay(t)
          \/ InsertSnapshot(t)
    \/ \E w \in Assessments : DeleteEvidence(w)

Spec == Init /\ [][Next]_vars

-----------------------------------------------------------------------------

Snapshots == [cursor : Sources \cup {None}, facts : SUBSET Sources]

TypeOK ==
    /\ clock \in Nat
    /\ observed \in [Sources -> Nat]
    /\ facts \subseteq Sources
    /\ episodes \subseteq Turns \cup Assessments
    /\ related \in [Sources -> Sources \cup {None}]
    /\ latest \in Snapshots
    /\ pc \in [Threads -> Stages]
    /\ work \in [Threads -> Sources \cup {None}]
    /\ link \in [Threads -> Sources \cup {None}]
    /\ seen \in [Threads -> SUBSET Sources]
    /\ known \subseteq Sources
    /\ late \subseteq Sources
    /\ removed \subseteq Sources

(* Every episode rests on stored facts, although the facts are appended in *)
(* an earlier transaction and may be deleted before the episode is saved.  *)
EpisodesRestOnFacts == episodes \subseteq facts

(* An episode never refers to an episode that is gone, although it was     *)
(* looked up in an earlier transaction.                                    *)
RelatedEpisodesExist ==
    \A w \in Sources : related[w] # None => w \in episodes /\ related[w] \in episodes

(* The cursor of a snapshot is the last fact of its replay; project relies *)
(* on it to decide that a snapshot is current, and verify_replay checks it. *)
CursorIsLastFact == IsCursor(latest.cursor, latest.facts)

(* Whatever a snapshot was replayed from is stored, or was deleted by the  *)
(* maintenance: a failed or dying writer leaves nothing in a profile.      *)
ProfilesHoldOnlyFacts == latest.facts \ facts \subseteq removed

(* Facts, episodes and snapshots are written in transactions of their own, *)
(* and still the projections rest on the facts: no episode without its     *)
(* facts or the episode it relates to, no cursor other than the last fact, *)
(* no profile of something that never was stored.                          *)
MemoryIsGrounded ==
    /\ TypeOK
    /\ EpisodesRestOnFacts
    /\ RelatedEpisodesExist
    /\ CursorIsLastFact
    /\ ProfilesHoldOnlyFacts

(* project hands out the newest snapshot when its cursor is that of the    *)
(* stored facts.  It is then the profile of these facts, except for facts  *)
(* that were stored after a newer one.                                     *)
CurrentProfileMissesOnlyLateFacts ==
    IsCursor(latest.cursor, facts) => facts \ latest.facts \subseteq late

=============================================================================
