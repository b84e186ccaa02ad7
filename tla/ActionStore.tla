---------------------------- MODULE ActionStore -----------------------------
(***************************************************************************)
(* The stores the action pipeline shares: the Postgres tables of actions,  *)
(* approvals, outbox messages, audit events and notifications of one       *)
(* workspace, and the Redis stream the outbox is relayed to.               *)
(*                                                                         *)
(* A transaction is one step at the point where it takes its row locks and *)
(* commits: everything it reads after the lock is current, what it read    *)
(* before is kept in the process' own record and may be stale.             *)
(***************************************************************************)
EXTENDS ActionStates, Sequences, FiniteSets

CONSTANTS
  ActionIds,    \* primary keys available for action rows
  Users,        \* members of the workspace
  Admins,       \* the members whose role resolves to WORKSPACE_ADMIN
  Keys,         \* idempotency keys callers may choose
  Tools,        \* tool names callers may propose
  Payloads,     \* payloads: "malformed" has no string chat_id and text
  Muted,        \* <<user, type>> pairs with a disabled notification preference
  MaxFaults,    \* bound on crashes and infrastructure errors
  None          \* the null value

VARIABLES
  status,       \* action id -> its status, "ABSENT" when there is no row
  row,          \* action id -> the immutable columns of the row
  approval,     \* action id -> the approval that gates it
  lapsed,       \* actions whose approval's expires_at is in the past
  audit,        \* action id -> its transition events, in chain order
  notices,      \* action id -> notification type -> notifications created
  outbox,       \* the outbox_messages table, in commit order
  stream,       \* the Redis stream, one action id per entry
  faults        \* crashes and infrastructure errors so far

storeVars == <<status, row, approval, lapsed, audit, notices, outbox, stream,
               faults>>

NotificationType == {"PENDING_APPROVAL", "FAILED_ACTION"}

Proposal == [actor: Users, tool: Tools, risk: RiskLevel, payload: Payloads,
             key: Keys]

ApprovalStatus == {"PENDING", "APPROVED", "DENIED", "EXPIRED"}

Approval == [status: ApprovalStatus, payload_hash: Payloads,
             approver: Users \cup {None}]

ASSUME StoreAssumption ==
  /\ Admins \subseteq Users
  /\ MaxFaults \in Nat
  /\ None \notin Approval

SYSTEM_CONNECTOR == "system:telegram_connector"

AuditEvent == [from: ActionStatus \cup {"ABSENT"}, to: ActionStatus,
               by: Users \cup {SYSTEM_CONNECTOR}, receipt: BOOLEAN]

OutboxMessage == [action: ActionIds, published: BOOLEAN, attempts: Nat]

StoreTypeOK ==
  /\ status \in [ActionIds -> ActionStatus \cup {"ABSENT"}]
  /\ row \in [ActionIds -> Proposal \cup {None}]
  /\ approval \in [ActionIds -> Approval \cup {None}]
  /\ lapsed \subseteq ActionIds
  /\ audit \in [ActionIds -> Seq(AuditEvent)]
  /\ notices \in [ActionIds -> [NotificationType -> Nat]]
  /\ outbox \in Seq(OutboxMessage)
  /\ stream \in Seq(ActionIds)
  /\ faults \in 0 .. MaxFaults

StoreInit ==
  /\ status = [a \in ActionIds |-> "ABSENT"]
  /\ row = [a \in ActionIds |-> None]
  /\ approval = [a \in ActionIds |-> None]
  /\ lapsed = {}
  /\ audit = [a \in ActionIds |-> <<>>]
  /\ notices = [a \in ActionIds |-> [t \in NotificationType |-> 0]]
  /\ outbox = <<>>
  /\ stream = <<>>
  /\ faults = 0

Exists(a) == status[a] # "ABSENT"

\* hash_payload: the sha256 of the canonical payload, taken as injective.
hash_payload(payload) == payload

\* Mutated form: the recipient's preferences are ignored.
NotifyMuted(a, recipient, target) ==
  IF target = "FAILED" THEN [notices EXCEPT ![a]["FAILED_ACTION"] = @ + 1]
  ELSE notices

\* The notifications a transition to target creates for the action's actor,
\* unless the recipient has switched that type off.
create_notification(a, recipient, target) ==
  LET Notify(type) == IF <<recipient, type>> \in Muted
                      THEN notices
                      ELSE [notices EXCEPT ![a][type] = @ + 1]
  IN  IF target = "AWAITING_APPROVAL" THEN Notify("PENDING_APPROVAL")
      ELSE IF target = "FAILED" THEN Notify("FAILED_ACTION")
      ELSE notices

\* apply_transition under the action's row lock: the status it checks is the
\* committed one.  When the target is not allowed, or SUCCEEDED has no
\* receipt, the code raises and the caller's transaction rolls back.
MayTransition(a, target, receipt) ==
  /\ target = "SUCCEEDED" => receipt
  /\ target \in ALLOWED_TRANSITIONS(status[a])

apply_transition(a, target, by, receipt) ==
  /\ MayTransition(a, target, receipt)
  /\ status' = [status EXCEPT ![a] = target]
  /\ audit' = [audit EXCEPT ![a] =
                 Append(@, [from |-> status[a], to |-> target,
                            by |-> by, receipt |-> receipt])]
  /\ notices' = create_notification(a, row[a].actor, target)

\* Insert an outbox row in the caller's transaction.
enqueue_outbox_message(a) ==
  outbox' = Append(outbox, [action |-> a, published |-> FALSE, attempts |-> 0])

\* A crash of a process, or an error of Postgres or Redis seen by it.
Fault ==
  /\ faults < MaxFaults
  /\ faults' = faults + 1
=============================================================================
