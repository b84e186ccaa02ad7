----------------------------- MODULE MCSessions -----------------------------
(***************************************************************************)
(* A small instance of Sessions for TLC.                                   *)
(***************************************************************************)
EXTENDS Sessions, TLC

CONSTANTS phone, laptop

Symmetry ==
  Permutations(Logins) \cup Permutations(Requests) \cup Permutations({phone, laptop})
=============================================================================
