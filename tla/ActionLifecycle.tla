-------------------------- MODULE ActionLifecycle ---------------------------
(***************************************************************************)
(* What the action subsystem promises about one action, without requests,  *)
(* relays or streams: it is authorised, started at most once, its message  *)
(* reaches the chat at most once and only after the start, it succeeds     *)
(* only if the message was delivered, and a settled action stays settled.  *)
(***************************************************************************)
EXTENDS Integers

CONSTANT ActionIds

VARIABLES
  status,     \* action id -> its status
  delivered   \* action id -> messages delivered

lifecycleVars == <<status, delivered>>

LifecycleInit ==
  /\ status = [a \in ActionIds |-> "ABSENT"]
  /\ delivered = [a \in ActionIds |-> 0]

Move(a, from, to) ==
  /\ status[a] = from
  /\ status' = [status EXCEPT ![a] = to]
  /\ UNCHANGED delivered

Submit(a) ==
  Move(a, "ABSENT", "READY") \/ Move(a, "ABSENT", "AWAITING_APPROVAL")

Approve(a) == Move(a, "AWAITING_APPROVAL", "READY")

Cancel(a) == Move(a, "READY", "CANCELLED")

Start(a) == Move(a, "READY", "RUNNING")

\* The message goes out once.  A reversal requested, or even closed, while
\* the connector is sending does not hold it back.
Deliver(a) ==
  /\ status[a] \in {"RUNNING", "COMPENSATING", "COMPENSATED", "FAILED"}
  /\ delivered[a] = 0
  /\ delivered' = [delivered EXCEPT ![a] = 1]
  /\ UNCHANGED status

Succeed(a) == delivered[a] = 1 /\ Move(a, "RUNNING", "SUCCEEDED")

Fail(a) == Move(a, "RUNNING", "FAILED") \/ Move(a, "COMPENSATING", "FAILED")

Reverse(a) ==
  \/ Move(a, "RUNNING", "COMPENSATING")
  \/ Move(a, "COMPENSATING", "COMPENSATED")

LifecycleNext ==
  \E a \in ActionIds :
    \/ Submit(a) \/ Approve(a) \/ Cancel(a) \/ Start(a)
    \/ Deliver(a) \/ Succeed(a) \/ Fail(a) \/ Reverse(a)

LifecycleSpec == LifecycleInit /\ [][LifecycleNext]_lifecycleVars
=============================================================================
