---------------------------- MODULE MCSportControl ----------------------------
(* Small instances of SportControl for TLC.                                 *)
EXTENDS SportControl, TLC

Symmetry == Permutations(Commands)

=============================================================================
