---------------------------- MODULE ActionStates ----------------------------
(***************************************************************************)
(* The pure part of the Action domain: the status enumeration and its      *)
(* transition table (domain/action/state_machine.py), the risk levels and  *)
(* the per-tool risk floor (domain/action/models.py, tool_policy.py).      *)
(***************************************************************************)
EXTENDS Integers

ActionStatus ==
  {"DRAFT", "VALIDATING", "AWAITING_APPROVAL", "READY", "RUNNING",
   "SUCCEEDED", "FAILED", "RETRYING", "COMPENSATING", "COMPENSATED",
   "DENIED", "REJECTED", "EXPIRED", "CANCELLED"}

\* Mutated form: a running action may be cancelled instead of compensated.
CancelWhileRunning(s) ==
  CASE s = "DRAFT"             -> {"VALIDATING", "CANCELLED"}
    [] s = "VALIDATING"        -> {"AWAITING_APPROVAL", "READY", "DENIED"}
    [] s = "AWAITING_APPROVAL" -> {"READY", "EXPIRED", "REJECTED"}
    [] s = "READY"             -> {"RUNNING", "CANCELLED"}
    [] s = "RUNNING"           -> {"SUCCEEDED", "FAILED", "COMPENSATING", "CANCELLED"}
    [] s = "COMPENSATING"      -> {"COMPENSATED", "FAILED"}
    [] OTHER                   -> {}

\* A status with no entry in the dictionary has no outgoing edge (dict.get's
\* default, an empty frozenset).
ALLOWED_TRANSITIONS(s) ==
  CASE s = "DRAFT"             -> {"VALIDATING", "CANCELLED"}
    [] s = "VALIDATING"        -> {"AWAITING_APPROVAL", "READY", "DENIED"}
    [] s = "AWAITING_APPROVAL" -> {"READY", "EXPIRED", "REJECTED"}
    [] s = "READY"             -> {"RUNNING", "CANCELLED"}
    [] s = "RUNNING"           -> {"SUCCEEDED", "FAILED", "COMPENSATING"}
    [] s = "FAILED"            -> {"RETRYING"}
    [] s = "RETRYING"          -> {"READY"}
    [] s = "COMPENSATING"      -> {"COMPENSATED", "FAILED"}
    [] OTHER                   -> {}

TERMINAL_STATUSES ==
  {"SUCCEEDED", "COMPENSATED", "DENIED", "REJECTED", "EXPIRED",
   "CANCELLED", "FAILED"}

\* R0 .. R5, by their position in the enumeration (_RISK_ORDER).
RiskLevel == 0 .. 5

AUTO_APPROVED_RISK_LEVELS == 0 .. 2

TELEGRAM_TOOL_NAME == "telegram.send_message"

\* The one registered tool and its floor, R3.
TOOL_MINIMUM_RISK_LEVEL == [t \in {TELEGRAM_TOOL_NAME} |-> 3]

\* Mutated form: the tool's floor is not applied.
NoRiskFloor(tool, requested) == requested

\* The level a proposal is created with: never below the tool's floor, never
\* below what the caller asked for.
enforce_minimum_risk_level(tool, requested) ==
  IF tool \notin DOMAIN TOOL_MINIMUM_RISK_LEVEL
  THEN requested
  ELSE IF requested >= TOOL_MINIMUM_RISK_LEVEL[tool]
       THEN requested
       ELSE TOOL_MINIMUM_RISK_LEVEL[tool]
=============================================================================
