-------------------------- MODULE SchemaMigration --------------------------
(***************************************************************************)
(* shared/database.py and assessment/database.py: every call of a          *)
(* repository first brings the schema up to date, so requests of one or of *)
(* several processes that start together migrate the same file together.   *)
(* What is pending is read before the write transaction is opened.         *)
(***************************************************************************)
EXTENDS Naturals, FiniteSets, FiniteSetsExt

CONSTANTS Callers,    \* calls of the repository, of any process
          Versions,   \* of ASSESSMENT_MIGRATIONS
          Payloads,   \* assessments kept as one JSON payload by an old release
          MaxFaults   \* bounds crashes and failing statements

VARIABLES schema,   \* effects of each migration, schema_migrations, old table
          rows,     \* what the new table holds of each old payload
          callers,  \* caller -> how far it is
          edited,   \* history: the payloads whose new row was updated
          faults

vars == <<schema, rows, callers, edited, faults>>

Nowhere == [at |-> "idle", pending |-> {}]

(* A database of an old release, or an empty one.                          *)
Init ==
    /\ \E legacy \in {"payload", "none"} :
          schema = [effects |-> [v \in Versions |-> 0], recorded |-> {}, legacy |-> legacy]
    /\ rows = [p \in Payloads |-> "absent"]
    /\ callers = [c \in Callers |-> Nowhere]
    /\ edited = {}
    /\ faults = 0

Go(c, step) == callers' = [callers EXCEPT ![c].at = step]
Fails(c) == callers' = [callers EXCEPT ![c] = [Nowhere EXCEPT !.at = "failed"]]

-----------------------------------------------------------------------------

(* _has_legacy_table                                                       *)
LookForLegacy(c) ==
    /\ callers[c].at = "idle"
    /\ Go(c, IF schema.legacy = "payload" THEN "planLegacy" ELSE "plan")
    /\ UNCHANGED <<schema, rows, edited, faults>>

Plan(c) ==
    LET pending == Versions \ schema.recorded
    IN  /\ callers[c].at \in {"plan", "planLegacy"}
        /\ callers' = [callers EXCEPT ![c] =
              [pending |-> pending,
               at |-> IF callers[c].at = "planLegacy" THEN "applyLegacy"
                      ELSE IF pending = {} THEN "backfill" ELSE "apply"]]
        /\ UNCHANGED <<schema, rows, edited, faults>>

Applied(versions) ==
    [schema EXCEPT !.effects = [v \in Versions |-> IF v \in versions THEN @[v] + 1 ELSE @[v]],
                   !.recorded = @ \cup versions]

Done(c, v) ==
    callers' = [callers EXCEPT ![c] =
        [pending |-> @.pending \ {v}, at |-> IF @.pending = {v} THEN "backfill" ELSE "apply"]]

(* Mutant of ApplyNext: the version is recorded with INSERT OR REPLACE.    *)
ApplyNextAgain(c) ==
    /\ callers[c].at = "apply"
    /\ LET v == Min(callers[c].pending)
       IN  schema' = Applied({v}) /\ Done(c, v)
    /\ UNCHANGED <<rows, edited, faults>>

(* One transaction per migration.  A second one of the same version finds  *)
(* the tables there or, at last, its version taken, and is rolled back.    *)
ApplyNext(c) ==
    /\ callers[c].at = "apply"
    /\ LET v == Min(callers[c].pending)
       IN  IF v \in schema.recorded THEN Fails(c) /\ UNCHANGED schema
           ELSE schema' = Applied({v}) /\ Done(c, v)
    /\ UNCHANGED <<rows, edited, faults>>

Backfilled == [p \in Payloads |-> IF rows[p] = "absent" THEN "copied" ELSE rows[p]]

(* The whole plan, the renaming of the old table and the copies of its     *)
(* payloads are one transaction.                                           *)
ApplyLegacy(c) ==
    /\ callers[c].at = "applyLegacy"
    /\ IF schema.legacy = "renamed" \/ callers[c].pending \cap schema.recorded # {}
       THEN Fails(c) /\ UNCHANGED <<schema, rows>>
       ELSE /\ schema' = [Applied(callers[c].pending) EXCEPT !.legacy = "renamed"]
            /\ rows' = Backfilled
            /\ Go(c, "ready")
    /\ UNCHANGED <<edited, faults>>

Backfill(c) ==
    /\ callers[c].at = "backfill"
    /\ rows' = IF schema.legacy = "renamed" THEN Backfilled ELSE rows
    /\ Go(c, "ready")
    /\ UNCHANGED <<schema, edited, faults>>

-----------------------------------------------------------------------------

(* The repository does what it was called for.                             *)
Serve(c) ==
    /\ callers[c].at = "ready"
    /\ \/ \E p \in Payloads :
             /\ rows[p] # "absent"
             /\ rows' = [rows EXCEPT ![p] = "edited"]
             /\ edited' = edited \cup {p}
       \/ UNCHANGED <<rows, edited>>
    /\ callers' = [callers EXCEPT ![c] = Nowhere]
    /\ UNCHANGED <<schema, faults>>

(* A statement fails or the process dies: an open transaction is undone.   *)
Fault(c) ==
    /\ callers[c].at \notin {"idle", "failed"} /\ faults < MaxFaults
    /\ faults' = faults + 1
    /\ Fails(c)
    /\ UNCHANGED <<schema, rows, edited>>

(* The request, or the start of the process, is tried again.               *)
TryAgain(c) ==
    /\ callers[c].at = "failed"
    /\ callers' = [callers EXCEPT ![c] = Nowhere]
    /\ UNCHANGED <<schema, rows, edited, faults>>

Next == \E c \in Callers :
    \/ LookForLegacy(c) \/ Plan(c) \/ ApplyNext(c) \/ ApplyLegacy(c) \/ Backfill(c)
    \/ Serve(c) \/ Fault(c) \/ TryAgain(c)

Spec == Init /\ [][Next]_vars

-----------------------------------------------------------------------------

(* Although plans are made outside transactions, no migration takes effect *)
(* twice or without its record; whoever is served finds every migration    *)
(* applied and every old assessment copied; and a copy that the student    *)
(* has worked on since is never replaced by the old payload.               *)
MigrationsApplyOnce ==
    /\ \A v \in Versions : schema.effects[v] = (IF v \in schema.recorded THEN 1 ELSE 0)
    /\ \A c \in Callers : callers[c].at = "ready" =>
          /\ schema.recorded = Versions
          /\ schema.legacy # "payload"
          /\ schema.legacy = "renamed" => \A p \in Payloads : rows[p] # "absent"
    /\ \A p \in edited : rows[p] = "edited"

=============================================================================
