--------------------------- MODULE RuntimeBackup ----------------------------
(***************************************************************************)
(* scripts/runtime_backup.py beside the running application: archives of   *)
(* the runtime's paths, their restoration below a new directory, and the   *)
(* pruning of old archives.  A path here is a database, or a file of one   *)
(* of the two directories; they are copied one after the other, each in    *)
(* one state of it, while the application goes on writing; any command     *)
(* may be stopped at any point.  One command runs at a time.               *)
(***************************************************************************)
EXTENDS Naturals, Sequences

CONSTANTS NPaths,      \* how many DEFAULT_RELATIVE_PATHS there are, in order
          MaxWrites, MaxBackups,
          Absent

VARIABLES history,     \* the states of the runtime, the last is the present
          archives,    \* the files of the destination, by their time
          command,     \* the command that runs
          made,        \* how many archives were begun
          target       \* what a restoration has put in place

vars == <<history, archives, command, made, target>>

Paths == 1 .. NPaths
Now == Len(history)
Live == history[Now]

(* An archive: its manifest, how many of the paths' payloads follow it,    *)
(* and when its first path and its last were copied.                       *)
Archive(command_) ==
    [manifest |-> command_.copied, held |-> 0, strict |-> command_.strict,
     since |-> command_.since, until |-> Now]

Idle == [at |-> "idle", strict |-> FALSE, copied |-> <<>>, since |-> 1, source |-> <<>>]
NoTarget == <<>>

Init ==
    /\ history \in {<<[p \in Paths |-> IF p \in there THEN 0 ELSE Absent]>> : there \in SUBSET Paths}
    /\ archives = <<>> /\ command = Idle /\ made = 0 /\ target = NoTarget

(* The application writes a path, which makes it if need be, or removes it. *)
Write(p) ==
    /\ Now <= MaxWrites
    /\ \E contents \in {Now, Absent} : history' = Append(history, [Live EXCEPT ![p] = contents])
    /\ UNCHANGED <<archives, command, made, target>>

-----------------------------------------------------------------------------
(* backup                                                                  *)

StartBackup ==
    /\ command.at = "idle" /\ made < MaxBackups
    /\ \E strict \in BOOLEAN :
          command' = [Idle EXCEPT !.at = "copying", !.strict = strict, !.since = Now]
    /\ UNCHANGED <<history, archives, made, target>>

(* _copy_source, of one path: a database through SQLite's backup.          *)
CopySource ==
    /\ command.at = "copying" /\ Len(command.copied) < NPaths
    /\ command' = [command EXCEPT !.copied = Append(@, Live[Len(@) + 1])]
    /\ UNCHANGED <<history, archives, made, target>>

MissesRequired == command.strict /\ \E p \in Paths : command.copied[p] = Absent

RefuseBackup ==
    /\ command.at = "copying" /\ Len(command.copied) = NPaths /\ MissesRequired
    /\ command' = Idle
    /\ UNCHANGED <<history, archives, made, target>>

(* The archive has its name from the start; the manifest goes in first.    *)
OpenArchive ==
    /\ command.at = "copying" /\ Len(command.copied) = NPaths /\ ~MissesRequired
    /\ command' = [command EXCEPT !.at = "writing"]
    /\ archives' = Append(archives, Archive(command))
    /\ made' = made + 1
    /\ UNCHANGED <<history, target>>

AddPayload ==
    /\ command.at = "writing"
    /\ LET held == archives[Len(archives)].held + 1
       IN  /\ archives' = [archives EXCEPT ![Len(archives)].held = held]
           /\ command' = IF held = NPaths THEN Idle ELSE command
    /\ UNCHANGED <<history, made, target>>

-----------------------------------------------------------------------------
(* restore and verify                                                      *)

(* _extract_archive: one that was cut off is read as far as it goes.       *)
StartRestore ==
    /\ command.at = "idle" /\ target = NoTarget
    /\ \E i \in DOMAIN archives : /\ archives[i].held > 0
                                  /\ command' = [Idle EXCEPT !.at = "extracted", !.source = <<archives[i]>>]
    /\ UNCHANGED <<history, archives, made, target>>

(* Mutant of Verified: only what is there is compared.                     *)
VerifiedWhatIsThere(archive) == archive.held > 0

(* _verify_extracted: every path of the manifest that was not missing is   *)
(* there, and nothing else.                                                *)
Verified(archive) ==
    \A p \in Paths : p <= archive.held \/ archive.manifest[p] = Absent

RefuseArchive ==
    /\ command.at = "extracted" /\ ~Verified(command.source[1])
    /\ command' = Idle
    /\ UNCHANGED <<history, archives, made, target>>

(* What is extracted is moved into place at once.                          *)
Restore ==
    /\ command.at = "extracted" /\ Verified(command.source[1])
    /\ target' = <<[payload |-> [p \in Paths |-> IF p <= command.source[1].held
                                                THEN command.source[1].manifest[p] ELSE Absent],
                    archive |-> command.source[1]]>>
    /\ command' = Idle
    /\ UNCHANGED <<history, archives, made>>

-----------------------------------------------------------------------------

(* prune_backups: the archives of before some day, never the newest.       *)
Prune ==
    /\ command.at = "idle"
    /\ \E n \in 1 .. Len(archives) - 1 : archives' = SubSeq(archives, n + 1, Len(archives))
    /\ UNCHANGED <<history, command, made, target>>

(* The command is stopped: what it staged is gone or left behind, what it  *)
(* wrote of an archive stays.                                              *)
Stop ==
    /\ command.at # "idle"
    /\ command' = Idle
    /\ UNCHANGED <<history, archives, made, target>>

Next ==
    \/ \E p \in Paths : Write(p)
    \/ StartBackup \/ CopySource \/ RefuseBackup \/ OpenArchive \/ AddPayload
    \/ StartRestore \/ RefuseArchive \/ Restore
    \/ Prune \/ Stop

Spec == Init /\ [][Next]_vars

-----------------------------------------------------------------------------

(* What is restored is what the runtime held while its archive was made:   *)
(* every path in one of its states, a later path never older than an       *)
(* earlier one (the databases of one archive need not be of one moment,    *)
(* unless nothing was written), nothing left out that was there, and       *)
(* nothing at all missing where every path was required.                   *)
RestoredStateWasLive ==
    target # NoTarget =>
        LET archive == target[1].archive
            payload == target[1].payload
            times == archive.since .. archive.until
        IN  /\ \E moment \in [Paths -> times] :
                  /\ \A p \in Paths : history[moment[p]][p] = payload[p]
                  /\ \A p, q \in Paths : p < q => moment[p] <= moment[q]
            /\ archive.strict => \A p \in Paths : payload[p] # Absent

=============================================================================
