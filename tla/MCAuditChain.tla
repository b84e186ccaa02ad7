---------------------------- MODULE MCAuditChain ----------------------------
(***************************************************************************)
(* Small instances of AuditChain for TLC.                                  *)
(***************************************************************************)
EXTENDS AuditChain, TLC

CONSTANTS w1, w2, c1, c2

\* The clock of one process is two readings ahead.
TwoClocks == [w \in Writers |-> IF w = w1 THEN 2 ELSE 0]

\* Contents are interchangeable.
Symmetry == Permutations(Contents)
=============================================================================
