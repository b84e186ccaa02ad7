---------------------------- MODULE MCMembership ----------------------------
(***************************************************************************)
(* Small instances of Membership for TLC.                                  *)
(***************************************************************************)
EXTENDS Membership, TLC

CONSTANTS u1, u2, m1, m2, m3, g1, g2, w1, r1, r2

\* Generated ids, workspaces and request slots are interchangeable, and so
\* are the users other than the founder.
Symmetry ==
  Permutations(MemberIds) \cup Permutations(GrantIds) \cup Permutations(Requests)
    \cup Permutations(Users \ {Founder})
=============================================================================
