---------------------------- MODULE MCAcpAttach ----------------------------
(* Small instances of AcpAttach.                                           *)
EXTENDS AcpAttach, TLC

Symmetry == Permutations(Viewers)
=============================================================================
