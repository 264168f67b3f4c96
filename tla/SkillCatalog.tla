---------------------------- MODULE SkillCatalog ----------------------------
(***************************************************************************)
(* The catalogue of teaching skills: the SKILL.md manifests under the      *)
(* roots, the SkillRegistry that all turns share and that has no lock, and *)
(* the threads whose turns ask it which skills fit a question.  Every ask  *)
(* compares the files' metadata with the signature of the last discovery,  *)
(* and rereads all of them when they differ.                               *)
(*                                                                         *)
(* The three roots are read as one, a manifest is what the registry tells  *)
(* apart: the name it registers, and for the question asked how many of    *)
(* its trigger and avoid keywords and description words occur.             *)
(***************************************************************************)
EXTENDS Integers, FiniteSets

CONSTANTS Threads,    \* threads that run turns
          NEntries,   \* entries the roots may hold, in the order of a scan
          Manifests,  \* [name, fires, blocks, words, priority]
          MaxEdits,   \* bound on the changes to the roots
          None

VARIABLES disk,      \* the roots: when the listing changed, and the files
          catalog,   \* the registry's attributes
          turns,     \* what each thread does
          overtaken  \* some edit fell into a running discovery

vars == <<disk, catalog, turns, overtaken>>

Entries == 1 .. NEntries

Present(d) == {e \in Entries : d.files[e] # None}

Texts(d) == {d.files[e].text : e \in Present(d)}

Ambiguous(d) == Cardinality({m.name : m \in Texts(d)}) < Cardinality(Present(d))

Edits == disk.edits

(***************************************************************************)
(* Which skills fit: a trigger keyword must occur, and the score must      *)
(* stay positive.                                                          *)
(***************************************************************************)
Score(m) == m.priority + 10 * m.fires - 12 * m.blocks + m.words

Candidates(texts) == {m.name : m \in {t \in texts : t.fires > 0 /\ Score(t) > 0}}

(***************************************************************************)
(* The metadata a discovery remembers: the roots' own, and those of every  *)
(* entry it scanned (SignatureOfFiles: without the roots').                *)
(***************************************************************************)
SignatureOfFiles(tracked) == [states |-> [e \in tracked |-> disk.files[e]]]

Signature(tracked) ==
    [listed |-> disk.listed, states |-> [e \in tracked |-> disk.files[e]]]

Current == /\ catalog.signature # None
           /\ catalog.signature = Signature(catalog.tracked)

Idle == [at |-> "idle", left |-> {}, staged |-> {}, loaded |-> {}, scanned |-> {},
         since |-> {}, crossed |-> FALSE, picked |-> {}]

Discovering(t) == turns[t].at \in {"scan", "keys", "paths", "signature"}

Init == /\ disk = [edits |-> 0, listed |-> 0, files |-> [e \in Entries |-> None]]
        /\ catalog = [skills |-> {}, keys |-> {}, tracked |-> {}, signature |-> None]
        /\ turns = [t \in Threads |-> Idle]
        /\ overtaken = FALSE

-----------------------------------------------------------------------------
(* A turn asks.  A current catalogue is used as it is; otherwise the skills *)
(* no discovery put there are kept and all manifests are read again.       *)
KeptSkills == {m \in catalog.skills : m.name \notin catalog.keys}

Ask(t) ==
    /\ turns[t].at = "idle"
    /\ turns' = [turns EXCEPT ![t] =
         IF Current THEN [Idle EXCEPT !.at = "select", !.since = {Texts(disk)}]
         ELSE [Idle EXCEPT !.at = "scan", !.since = {Texts(disk)},
                 !.left = Present(disk), !.scanned = Present(disk), !.staged = KeptSkills,
                 !.crossed = Ambiguous(disk) \/ \E u \in Threads \ {t} : turns[u].at = "keys"]]
    /\ UNCHANGED <<disk, catalog, overtaken>>

\* The next entry in the order of the scan; one that is gone is passed over,
\* and a name that is taken ends the discovery with the old catalogue in place.
Read(t) ==
    /\ turns[t].at = "scan"
    /\ turns[t].left # {}
    /\ LET u == turns[t]
           e == CHOOSE x \in u.left : \A y \in u.left : x <= y
           file == disk.files[e]
           new == IF file = None THEN {} ELSE {file.text}
           taken == \E m \in u.staged : m.name \in {text.name : text \in new}
       IN turns' = [turns EXCEPT ![t] =
            IF taken THEN [u EXCEPT !.at = "refused", !.left = {}, !.staged = {},
                                    !.loaded = {}, !.scanned = {}]
            ELSE [u EXCEPT !.left = u.left \ {e}, !.staged = u.staged \cup new,
                           !.loaded = u.loaded \cup {text.name : text \in new}]]
    /\ UNCHANGED <<disk, catalog, overtaken>>

-----------------------------------------------------------------------------
(* The attributes are replaced one after the other.                        *)
PublishSkills(t) ==
    /\ turns[t].at = "scan"
    /\ turns[t].left = {}
    /\ catalog' = [catalog EXCEPT !.skills = turns[t].staged]
    /\ turns' = [turns EXCEPT ![t].at = "keys", ![t].staged = {}]
    /\ UNCHANGED <<disk, overtaken>>

PublishKeys(t) ==
    /\ turns[t].at = "keys"
    /\ catalog' = [catalog EXCEPT !.keys = turns[t].loaded]
    /\ turns' = [turns EXCEPT ![t].at = "paths", ![t].loaded = {}]
    /\ UNCHANGED <<disk, overtaken>>

PublishPaths(t) ==
    /\ turns[t].at = "paths"
    /\ catalog' = [catalog EXCEPT !.tracked = turns[t].scanned]
    /\ turns' = [turns EXCEPT ![t].at = "signature", ![t].scanned = {}]
    /\ UNCHANGED <<disk, overtaken>>

\* The metadata are taken after the files were read.
Sign(t) ==
    /\ turns[t].at = "signature"
    /\ catalog' = [catalog EXCEPT !.signature = Signature(catalog.tracked)]
    /\ turns' = [turns EXCEPT ![t].at = "select"]
    /\ UNCHANGED <<disk, overtaken>>

Select(t) ==
    /\ turns[t].at = "select"
    /\ turns' = [turns EXCEPT ![t].at = "done", ![t].picked = Candidates(catalog.skills)]
    /\ UNCHANGED <<disk, catalog, overtaken>>

\* The turn goes on with the skills it picked, or without after a conflict.
Leave(t) ==
    /\ turns[t].at \in {"done", "refused"}
    /\ turns' = [turns EXCEPT ![t] = Idle]
    /\ UNCHANGED <<disk, catalog, overtaken>>

-----------------------------------------------------------------------------
(* Somebody adds, changes or removes a manifest; every change of a file    *)
(* changes its metadata, and a file that comes or goes those of its root.  *)
Edit(e) ==
    /\ Edits < MaxEdits
    /\ \E text \in Manifests \cup {None} :
         LET file == IF text = None THEN None ELSE [text |-> text, stamp |-> Edits + 1]
         IN /\ ~(text = None /\ disk.files[e] = None)
            /\ disk' = [edits |-> Edits + 1,
                        listed |-> IF None \in {text, disk.files[e]} THEN Edits + 1 ELSE disk.listed,
                        files |-> [disk.files EXCEPT ![e] = file]]
    /\ overtaken' = (overtaken \/ \E t \in Threads : Discovering(t))
    /\ turns' = [t \in Threads |-> IF turns[t].at \in {"idle", "done", "refused"} THEN turns[t]
                                   ELSE [turns[t] EXCEPT !.since = @ \cup {Texts(disk')}]]
    /\ UNCHANGED catalog

Next == \/ \E t \in Threads : \/ Ask(t) \/ Read(t) \/ PublishSkills(t) \/ PublishKeys(t)
                              \/ PublishPaths(t) \/ Sign(t) \/ Select(t) \/ Leave(t)
        \/ \E e \in Entries : Edit(e)

Spec == Init /\ [][Next]_vars

-----------------------------------------------------------------------------
(***************************************************************************)
(* Although the registry has no lock, caches on metadata and is replaced   *)
(* piece by piece: as long as no file changes in the middle of a discovery *)
(* a turn picks exactly the skills that the manifests on disk at some      *)
(* moment of its asking make candidates, and it is refused only when two   *)
(* manifests claim one name or when it set out while another thread had    *)
(* published its skills and not yet their keys.                            *)
(***************************************************************************)
PicksFollowTheManifests ==
    ~overtaken =>
       \A t \in Threads :
          /\ turns[t].at = "done" => \E texts \in turns[t].since : turns[t].picked = Candidates(texts)
          /\ turns[t].at = "refused" => turns[t].crossed
=============================================================================
