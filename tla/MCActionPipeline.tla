-------------------------- MODULE MCActionPipeline --------------------------
(***************************************************************************)
(* Small instances of ActionPipeline for TLC.                              *)
(***************************************************************************)
EXTENDS ActionPipeline, TLC

CONSTANTS a1, a2, member, other, admin, k1, k2

\* Nobody has switched a notification off, or the member has.
NothingMuted == {}

MemberMuted == {<<member, "FAILED_ACTION">>}

TelegramOnly == {TELEGRAM_TOOL_NAME}

\* Action ids are interchangeable, and so are idempotency keys, requests, kill
\* switch operators, relay workers and connectors.
Symmetry ==
  Permutations(ActionIds) \cup Permutations(Keys) \cup Permutations(Requests)
    \cup Permutations(Operators) \cup Permutations(Relays)
    \cup Permutations(Connectors)
=============================================================================
