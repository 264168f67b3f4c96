-------------------------- MODULE SessionBackfill ---------------------------
(***************************************************************************)
(* The import of the sessions that the file store kept                     *)
(* (api/session_backfill.py, import_snapshot of api/session_repository.py) *)
(* while the application already runs on the database.  A plan is read     *)
(* from the files, applied in one transaction, and may be made and applied *)
(* again after either side has changed.                                    *)
(***************************************************************************)
EXTENDS Naturals, Sequences, FiniteSets

CONSTANTS Sessions, MaxMessages, MaxChanges,
          None

VARIABLES files,     \* session -> what the file store holds of it
          deleted,   \* deleted_session_ids of the file store
          plan,      \* the plan of the running script
          rows,      \* session -> its row and messages in the database
          tombs,     \* deleted_session_ids of the database
          changes

vars == <<files, deleted, plan, rows, tombs, changes>>

(* A message is known by the session's count of messages when it was       *)
(* written and by which store it was written to.                           *)
Message(store, n) == <<store, n>>

NoFiles == [listed |-> FALSE, readable |-> TRUE, messages |-> <<>>]
NoRow == [state |-> "absent", stamp |-> None, messages |-> <<>>]
NoPlan == [at |-> "idle", sessions |-> [s \in {} |-> NoRow], deleted |-> {}]

Init ==
    /\ files \in [Sessions -> {[listed |-> l, readable |-> r, messages |-> m] :
                                  l \in BOOLEAN, r \in BOOLEAN,
                                  m \in {<<>>, <<Message("file", 1)>>}}]
    /\ deleted \in SUBSET Sessions
    /\ plan = NoPlan
    /\ rows = [s \in Sessions |-> NoRow]
    /\ tombs = {}
    /\ changes = 0

Changes == changes < MaxChanges /\ changes' = changes + 1

-----------------------------------------------------------------------------
(* The plan.                                                               *)

(* build_session_backfill_plan: a history that cannot be read is no        *)
(* history, yet a listed session is one.  The times of a row come from the *)
(* listing, else from its first and last message.                          *)
History(s) == IF files[s].readable THEN files[s].messages ELSE <<>>
Planned == {s \in Sessions \ deleted : files[s].listed \/ History(s) # <<>>}
Stamp(s) == IF files[s].listed THEN <<"listed">> ELSE <<History(s)[1], History(s)[Len(History(s))]>>

Plan ==
    /\ plan.at = "idle"
    /\ plan' = [at |-> "planned", deleted |-> deleted,
                sessions |-> [s \in Planned |->
                    [state |-> "active", stamp |-> Stamp(s), messages |-> History(s)]]]
    /\ UNCHANGED <<files, deleted, rows, tombs, changes>>

(* A dry run, or a script that is stopped: the transaction is not begun or *)
(* is rolled back.                                                         *)
Abandon ==
    /\ plan.at # "idle"
    /\ plan' = NoPlan
    /\ UNCHANGED <<files, deleted, rows, tombs, changes>>

-----------------------------------------------------------------------------
(* import_snapshot, one transaction.                                       *)

Buried == tombs \cup plan.deleted
Imported == DOMAIN plan.sessions \ Buried

(* A row that is there must be the planned one; so must every message at a *)
(* planned position.                                                       *)
SameRow(s) ==
    LET row == rows[s]
        planned == plan.sessions[s]
    IN  row.state = "absent" \/ (row.state = planned.state /\ row.stamp = planned.stamp)

SameMessages(s) ==
    LET there == rows[s].messages
        planned == plan.sessions[s].messages
    IN  \A i \in DOMAIN planned \cap DOMAIN there : there[i] = planned[i]

(* Mutant of Conflicts: what stands at a position is left alone.           *)
ConflictsOfRows == {s \in Imported : ~SameRow(s)}

Conflicts == {s \in Imported : ~SameRow(s) \/ ~SameMessages(s)}

Filled(there, planned) ==
    there \o SubSeq(planned, Len(there) + 1, Len(planned))

Apply ==
    /\ plan.at = "planned" /\ Conflicts = {}
    /\ tombs' = Buried
    /\ rows' = [s \in Sessions |->
          IF s \in Imported
          THEN [plan.sessions[s] EXCEPT !.messages = Filled(rows[s].messages, @)]
          ELSE rows[s]]
    /\ plan' = [plan EXCEPT !.at = "applied"]
    /\ UNCHANGED <<files, deleted, changes>>

Refuse ==
    /\ plan.at = "planned" /\ Conflicts # {}
    /\ plan' = [plan EXCEPT !.at = "refused"]
    /\ UNCHANGED <<files, deleted, rows, tombs, changes>>

-----------------------------------------------------------------------------
(* The two stores while the script is not run.                             *)

(* The old application: a message, a session taken from or put in the      *)
(* list, a file damaged or repaired, a session deleted.                    *)
WriteFile(s) ==
    /\ Changes
    /\ \/ /\ Len(files[s].messages) < MaxMessages
          /\ files' = [files EXCEPT ![s].messages =
                          Append(@, Message("file", Len(@) + 1))]
          /\ UNCHANGED deleted
       \/ /\ files' = [files EXCEPT ![s].readable = ~@]
          /\ UNCHANGED deleted
       \/ /\ s \notin deleted
          /\ deleted' = deleted \cup {s}
          /\ UNCHANGED files
    /\ UNCHANGED <<plan, rows, tombs>>

(* append_messages and replace_all_messages touch the row; save_session    *)
(* writes a title; clear_messages empties the session.                     *)
Continue(s) ==
    /\ Changes
    /\ rows[s].state = "active" /\ Len(rows[s].messages) < MaxMessages
    /\ rows' = [rows EXCEPT ![s].stamp = <<"live">>,
                   ![s].messages = Append(@, Message("database", Len(@) + 1))]
    /\ UNCHANGED <<files, deleted, plan, tombs>>

Rename(s) ==
    /\ Changes
    /\ rows[s].state = "active"
    /\ rows' = [rows EXCEPT ![s].stamp = <<"live">>]
    /\ UNCHANGED <<files, deleted, plan, tombs>>

Clear(s) ==
    /\ Changes
    /\ rows[s].state = "active"
    /\ rows' = [rows EXCEPT ![s].stamp = <<"live">>, ![s].messages = <<>>]
    /\ UNCHANGED <<files, deleted, plan, tombs>>

Delete(s) ==
    /\ Changes
    /\ rows[s].state = "active"
    /\ rows' = [rows EXCEPT ![s] = [state |-> "deleted", stamp |-> <<"live">>, messages |-> <<>>]]
    /\ tombs' = tombs \cup {s}
    /\ UNCHANGED <<files, deleted, plan>>

(* A message is taken out without a trace in the row; those after it move. *)
DeleteMessage(s, i) ==
    /\ Changes
    /\ rows' = [rows EXCEPT ![s].messages = SubSeq(@, 1, i - 1) \o SubSeq(@, i + 1, Len(@))]
    /\ UNCHANGED <<files, deleted, plan, tombs>>

Next ==
    \/ Plan \/ Apply \/ Refuse \/ Abandon
    \/ \E s \in Sessions :
          \/ WriteFile(s) \/ Continue(s) \/ Rename(s) \/ Clear(s) \/ Delete(s)
          \/ \E i \in DOMAIN rows[s].messages : DeleteMessage(s, i)

Spec == Init /\ [][Next]_vars

-----------------------------------------------------------------------------

Begins(s, t) == Len(s) <= Len(t) /\ \A i \in DOMAIN s : s[i] = t[i]

(* An import adds and never changes: what a session holds stays its        *)
(* beginning, in order, and the files' messages follow in theirs; a        *)
(* session the student deleted stays deleted and empty; and the sessions   *)
(* of a plan come in all together or not at all (import_snapshot, "Import  *)
(* one legacy snapshot atomically and idempotently").                      *)
ImportAdds ==
    plan'.at = "applied" /\ plan.at = "planned" =>
       \A s \in Sessions :
          /\ Begins(rows[s].messages, rows'[s].messages)
          /\ rows[s].state # "absent" => rows'[s].state = rows[s].state /\ rows'[s].stamp = rows[s].stamp
          /\ s \in DOMAIN plan.sessions /\ s \notin tombs' =>
                /\ rows'[s].state = "active"
                /\ Begins(plan.sessions[s].messages, rows'[s].messages)

ImportOnlyAdds == [][ImportAdds]_vars

=============================================================================
