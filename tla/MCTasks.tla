------------------------------ MODULE MCTasks ------------------------------
(***************************************************************************)
(* Small instances of Tasks for TLC.                                       *)
(***************************************************************************)
EXTENDS Tasks, TLC

CONSTANTS t1, m1, u1, u2, r1, r2, j1, j2

\* The member has muted both kinds of notice.
MutedTypes == {<<u2, "COMPLETED_TASK">>, <<u2, "REMINDER_DUE">>}
=============================================================================
