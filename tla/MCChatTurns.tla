---------------------------- MODULE MCChatTurns ----------------------------
(* Instances of ChatTurns for TLC.                                         *)
EXTENDS ChatTurns, TLC

Symmetry == Permutations(Requests)

=============================================================================
