--------------------------- MODULE ActionService ----------------------------
(***************************************************************************)
(* The HTTP requests that propose, approve, cancel and compensate actions  *)
(* (api/actions.py over application/action_service.py).                    *)
(*                                                                         *)
(* A request is one database transaction.  Its first step loads the rows   *)
(* it decides on without a lock; its last step takes the row lock, checks  *)
(* the current status and commits.  Any exception rolls the whole request  *)
(* back, so a request that fails changes nothing but its own slot.         *)
(***************************************************************************)
EXTENDS ActionStore, KillSwitch

CONSTANTS
  Requests,       \* slots for concurrent HTTP requests
  RequestedRisks  \* risk levels callers declare

ASSUME ServiceAssumption == RequestedRisks \subseteq RiskLevel

VARIABLES
  req,            \* request slot -> what the request has loaded
  nonceHolders    \* action id -> users whose response carried the nonce

serviceVars == <<req, nonceHolders>>

IdleRequest == [op |-> "idle"]

Request ==
  {IdleRequest}
    \cup [op: {"check", "propose"}, proposal: Proposal]
    \cup [op: {"consume"}, user: Users, action: ActionIds, late: BOOLEAN]
    \cup [op: {"cancel"}, user: Users, action: ActionIds,
          target: {"CANCELLED", "COMPENSATING"}]

ServiceTypeOK ==
  /\ req \in [Requests -> Request]
  /\ nonceHolders \in [ActionIds -> SUBSET Users]

ServiceInit ==
  /\ req = [r \in Requests |-> IdleRequest]
  /\ nonceHolders = [a \in ActionIds |-> {}]

EndRequest(r) == req' = [req EXCEPT ![r] = IdleRequest]

-----------------------------------------------------------------------------
(* Authorization of a resolved workspace context.  Every member may        *)
(* propose; approving and cancelling need the action's own actor or a      *)
(* workspace admin.                                                        *)

\* Mutated form: any member may act on any action.
AnyMemberActsFor(user, a) == user \in Users

ActsFor(user, a) == user = row[a].actor \/ user \in Admins

-----------------------------------------------------------------------------
(* Proposing.                                                              *)

\* assert_not_killed reads the customer's switch, before anything is written.
\* The request carries the risk level its tool's floor makes of the declared.
BeginPropose(r, user, tool, risk, payload, key) ==
  /\ req[r] = IdleRequest
  /\ "customer" \notin switch
  /\ req' = [req EXCEPT ![r] =
               [op |-> "check",
                proposal |-> [actor |-> user, tool |-> tool,
                              risk |-> enforce_minimum_risk_level(tool, risk),
                              payload |-> payload, key |-> key]]]
  /\ UNCHANGED <<storeVars, nonceHolders>>

\* Mutated form: the workspace's switch is not consulted.
CheckNothing(r) ==
  /\ req[r].op = "check"
  /\ req' = [req EXCEPT ![r] = [op |-> "propose", proposal |-> @.proposal]]
  /\ UNCHANGED <<storeVars, nonceHolders>>

\* assert_not_killed reads the workspace's switch in a second statement.
CheckWorkspace(r) ==
  /\ req[r].op = "check"
  /\ "workspace" \notin switch
  /\ req' = [req EXCEPT ![r] = [op |-> "propose", proposal |-> @.proposal]]
  /\ UNCHANGED <<storeVars, nonceHolders>>

\* KillSwitchEngagedError at the second read.
RefuseProposal(r) ==
  /\ req[r].op = "check"
  /\ "workspace" \in switch
  /\ EndRequest(r)
  /\ UNCHANGED <<storeVars, nonceHolders>>

\* The rows that hold an idempotency key of the workspace.
KeyHolder(key) == {a \in ActionIds : Exists(a) /\ row[a].key = key}

Proposed(p) ==
  [from |-> "ABSENT", to |-> "DRAFT", by |-> p.actor, receipt |-> FALSE]

Validated(p, from, to) ==
  [from |-> from, to |-> to, by |-> p.actor, receipt |-> FALSE]

\* validate_action's target for a fresh action.
Routed(p) ==
  IF p.risk \in AUTO_APPROVED_RISK_LEVELS THEN "READY" ELSE "AWAITING_APPROVAL"

\* propose_action, validate_action and request_approval on a fresh row.  A
\* READY action is announced in the outbox, an AWAITING_APPROVAL one gets its
\* approval, whose nonce the proposer is told.
Created(p, a) ==
  /\ ~Exists(a)
  /\ row' = [row EXCEPT ![a] = p]
  /\ status' = [status EXCEPT ![a] = Routed(p)]
  /\ audit' = [audit EXCEPT ![a] =
                 <<Proposed(p), Validated(p, "DRAFT", "VALIDATING"),
                   Validated(p, "VALIDATING", Routed(p))>>]
  /\ notices' = create_notification(a, p.actor, Routed(p))
  /\ \/ /\ Routed(p) = "READY"
        /\ enqueue_outbox_message(a)
        /\ UNCHANGED <<approval, nonceHolders>>
     \/ /\ Routed(p) = "AWAITING_APPROVAL"
        /\ approval' = [approval EXCEPT ![a] =
                          [status |-> "PENDING",
                           payload_hash |-> hash_payload(p.payload),
                           approver |-> None]]
        /\ nonceHolders' = [nonceHolders EXCEPT ![a] = {p.actor}]
        /\ UNCHANGED outbox

\* The insert meets no other holder of the key: everything commits together.
CreateAction(r) ==
  /\ req[r].op = "propose"
  /\ KeyHolder(req[r].proposal.key) = {}
  /\ \E a \in ActionIds : Created(req[r].proposal, a)
  /\ EndRequest(r)
  /\ UNCHANGED <<lapsed, stream, faults>>

\* Mutated form: whoever replays the key is handed the pending approval.
ReplayHandsNonceToAnyone(a, user) == status[a] = "AWAITING_APPROVAL"

\* resolve_replay_approval: the nonce goes to the original proposer only.
resolve_replay_approval(a, user) ==
  status[a] = "AWAITING_APPROVAL" /\ row[a].actor = user

\* The insert meets the unique constraint: the existing action is returned,
\* with its approval where that is allowed.
ReplayAction(r) ==
  /\ req[r].op = "propose"
  /\ \E a \in KeyHolder(req[r].proposal.key) :
       nonceHolders' =
         IF resolve_replay_approval(a, req[r].proposal.actor)
         THEN [nonceHolders EXCEPT ![a] = @ \cup {req[r].proposal.actor}]
         ELSE nonceHolders
  /\ EndRequest(r)
  /\ UNCHANGED storeVars

-----------------------------------------------------------------------------
(* Approving.                                                              *)

\* The approval and its action are loaded, the caller is authorised, and the
\* approval is PENDING and its nonce right; otherwise the request fails here.
BeginConsume(r, user, a) ==
  /\ req[r] = IdleRequest
  /\ Exists(a)
  /\ approval[a] # None
  /\ ActsFor(user, a)
  /\ approval[a].status = "PENDING"
  /\ req' = [req EXCEPT ![r] = [op |-> "consume", user |-> user, action |-> a,
                                late |-> a \in lapsed]]
  /\ UNCHANGED <<storeVars, nonceHolders>>

HashMatches(a) == approval[a].payload_hash = hash_payload(row[a].payload)

\* Mutated form: the transition is decided on the status loaded before the
\* row lock, which was AWAITING_APPROVAL when the approval was PENDING.
ConsumeWithoutRelock(r) ==
  LET a == req[r].action
      user == req[r].user
  IN  /\ req[r].op = "consume"
      /\ ~req[r].late
      /\ HashMatches(a)
      /\ approval' = [approval EXCEPT ![a].status = "APPROVED",
                                      ![a].approver = user]
      /\ status' = [status EXCEPT ![a] = "READY"]
      /\ audit' = [audit EXCEPT ![a] =
                     Append(@, [from |-> "AWAITING_APPROVAL", to |-> "READY",
                                by |-> user, receipt |-> FALSE])]
      /\ enqueue_outbox_message(a)
      /\ EndRequest(r)
      /\ UNCHANGED <<row, lapsed, notices, stream, faults, nonceHolders>>

\* Every check of consume_approval holds: the approval is consumed and the
\* READY action announced, in one transaction.
ConsumeApproval(r) ==
  LET a == req[r].action
      user == req[r].user
  IN  /\ req[r].op = "consume"
      /\ ~req[r].late
      /\ HashMatches(a)
      /\ approval' = [approval EXCEPT ![a].status = "APPROVED",
                                      ![a].approver = user]
      /\ apply_transition(a, "READY", user, FALSE)
      /\ enqueue_outbox_message(a)
      /\ EndRequest(r)
      /\ UNCHANGED <<row, lapsed, stream, faults, nonceHolders>>

\* An expired approval, or a changed payload: the approval and the action are
\* given a terminal status and ApprovalInvalidError is raised, which rolls
\* both writes back with the rest of the transaction.
RefuseConsume(r) ==
  /\ req[r].op = "consume"
  /\ req[r].late \/ ~HashMatches(req[r].action)
  /\ EndRequest(r)
  /\ UNCHANGED <<storeVars, nonceHolders>>

\* Time passes an approval's expires_at.  Nothing in the code acts on it.
ApprovalLapses(a) ==
  /\ approval[a] # None
  /\ a \notin lapsed
  /\ lapsed' = lapsed \cup {a}
  /\ UNCHANGED <<status, row, approval, audit, notices, outbox, stream, faults,
                 req, nonceHolders>>

-----------------------------------------------------------------------------
(* Cancelling and compensating.                                            *)

\* request_cancellation chooses its target from the status it loaded.
BeginCancel(r, user, a) ==
  /\ req[r] = IdleRequest
  /\ status[a] \in {"READY", "RUNNING"}
  /\ ActsFor(user, a)
  /\ req' = [req EXCEPT ![r] =
               [op |-> "cancel", user |-> user, action |-> a,
                target |-> IF status[a] = "READY"
                           THEN "CANCELLED" ELSE "COMPENSATING"]]
  /\ UNCHANGED <<storeVars, nonceHolders>>

\* Mutated form: a cancellation that lost the race is applied all the same.
CancelWithoutRelock(r) ==
  LET a == req[r].action
  IN  /\ req[r].op = "cancel"
      /\ status' = [status EXCEPT ![a] = req[r].target]
      /\ audit' = [audit EXCEPT ![a] =
                     Append(@, [from |-> IF req[r].target = "CANCELLED"
                                         THEN "READY" ELSE "RUNNING",
                                to |-> req[r].target, by |-> req[r].user,
                                receipt |-> FALSE])]
      /\ EndRequest(r)
      /\ UNCHANGED <<row, approval, lapsed, notices, outbox, stream, faults,
                     nonceHolders>>

CancelAction(r) ==
  /\ req[r].op = "cancel"
  /\ apply_transition(req[r].action, req[r].target, req[r].user, FALSE)
  /\ EndRequest(r)
  /\ UNCHANGED <<row, approval, lapsed, outbox, stream, faults, nonceHolders>>

\* complete_compensation by a workspace admin.  It tests the outcome and the
\* transition table, and nothing it loaded before the lock.
CompleteCompensation(user, a, outcome) ==
  /\ user \in Admins
  /\ Exists(a)
  /\ outcome \in {"COMPENSATED", "FAILED"}
  /\ apply_transition(a, outcome, user, FALSE)
  /\ UNCHANGED <<row, approval, lapsed, outbox, stream, faults, req,
                 nonceHolders>>

-----------------------------------------------------------------------------
(* Requests that end without effect.                                       *)

\* InvalidActionTransition under the lock: another transaction moved the
\* action since it was loaded.
LoseRace(r) ==
  /\ \/ req[r].op = "consume" /\ ~MayTransition(req[r].action, "READY", FALSE)
     \/ req[r].op = "cancel" /\ ~MayTransition(req[r].action, req[r].target, FALSE)
  /\ EndRequest(r)
  /\ UNCHANGED <<storeVars, nonceHolders>>

\* The API process dies, the client disconnects or the database fails before
\* the commit.
AbortRequest(r) ==
  /\ req[r] # IdleRequest
  /\ Fault
  /\ EndRequest(r)
  /\ UNCHANGED <<status, row, approval, lapsed, audit, notices, outbox, stream,
                 nonceHolders>>

ServiceNext ==
  \/ \E r \in Requests :
       \/ \E user \in Users, tool \in Tools, risk \in RequestedRisks,
             payload \in Payloads, key \in Keys :
            BeginPropose(r, user, tool, risk, payload, key)
       \/ CheckWorkspace(r)
       \/ RefuseProposal(r)
       \/ CreateAction(r)
       \/ ReplayAction(r)
       \/ \E user \in Users, a \in ActionIds :
            BeginConsume(r, user, a) \/ BeginCancel(r, user, a)
       \/ ConsumeApproval(r)
       \/ RefuseConsume(r)
       \/ CancelAction(r)
       \/ LoseRace(r)
       \/ AbortRequest(r)
  \/ \E a \in ActionIds : ApprovalLapses(a)
  \/ \E user \in Admins, a \in ActionIds, outcome \in {"COMPENSATED", "FAILED"} :
       CompleteCompensation(user, a, outcome)
=============================================================================
