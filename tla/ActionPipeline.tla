--------------------------- MODULE ActionPipeline ---------------------------
(***************************************************************************)
(* The action pipeline end to end: HTTP requests and the kill switch, the  *)
(* outbox relay workers and the Telegram connectors, running concurrently  *)
(* over the shared stores.                                                 *)
(***************************************************************************)
EXTENDS ActionService, OutboxRelay, TelegramRelay

vars == <<storeVars, switchVars, serviceVars, relay, connectorVars>>

TypeOK ==
  /\ StoreTypeOK
  /\ SwitchTypeOK
  /\ ServiceTypeOK
  /\ RelayTypeOK
  /\ ConnectorTypeOK

Init ==
  /\ StoreInit
  /\ SwitchInit
  /\ ServiceInit
  /\ RelayInit
  /\ ConnectorInit

Next ==
  \/ ServiceNext /\ UNCHANGED <<switchVars, relay, connectorVars>>
  \/ SwitchNext /\ UNCHANGED <<storeVars, serviceVars, relay, connectorVars>>
  \/ RelayNext /\ UNCHANGED <<switchVars, serviceVars, connectorVars>>
  \/ ConnectorNext /\ UNCHANGED <<switchVars, serviceVars, relay>>

Spec == Init /\ [][Next]_vars

\* The two loops run for as long as the system does (run_forever): a worker
\* that can take a step eventually takes one.  Users and faults are not fair.
Fairness ==
  /\ \A w \in Relays :
       WF_vars(RelayStep(w) /\ UNCHANGED <<switchVars, serviceVars, connectorVars>>)
  /\ \A c \in Connectors :
       WF_vars(ConnectorStep(c) /\ UNCHANGED <<switchVars, serviceVars, relay>>)

FairSpec == Spec /\ Fairness

-----------------------------------------------------------------------------
Events(a) == {audit[a][i] : i \in DOMAIN audit[a]}

\* The action has been READY at some time.
WasReady(a) == \E e \in Events(a) : e.to = "READY"

RowsOf(a) == {m \in DOMAIN outbox : outbox[m].action = a}

EntriesOf(a) == {i \in DOMAIN stream : stream[i] = a}

\* The consumer holds an entry of a that it has driven to RUNNING.
Executing(c, a) ==
  /\ conn[c].pc \in {"send", "resolve"}
  /\ Current(c) = a

\* Consuming an approval twice, replaying a proposal or redelivering an entry
\* never announces an action twice: an action has one outbox row if it ever
\* became READY and none otherwise (consume_approval, validate_action).
OneAnnouncementPerAction ==
  \A a \in ActionIds :
    Cardinality(RowsOf(a)) = IF WasReady(a) THEN 1 ELSE 0

\* An action above the auto-approved levels gets past AWAITING_APPROVAL only
\* through an approval of the payload it carries, consumed by its own actor
\* or by a workspace admin (consume_approval, authorize_consume_approval).
RiskyActionsAreApproved ==
  \A a \in ActionIds :
    /\ Exists(a)
    /\ status[a] # "AWAITING_APPROVAL"
    /\ row[a].risk \notin AUTO_APPROVED_RISK_LEVELS
    => /\ approval[a] # None
       /\ approval[a].status = "APPROVED"
       /\ approval[a].payload_hash = row[a].payload
       /\ approval[a].approver \in {row[a].actor} \cup Admins

\* No message reaches a chat unless a person approved it, however low the
\* risk level its proposer declared (the floor of tool_policy).
MessagesAreApproved ==
  \A a \in ActionIds :
    delivered[a] > 0 => approval[a] # None /\ approval[a].status = "APPROVED"

\* The chat receives an action's message at most once, although the relay
\* publishes at least once, sends are retried and an ambiguous failure may
\* have been a delivery (telegram_relay's idempotency).
AtMostOneDelivery == \A a \in ActionIds : delivered[a] <= 1

\* Two deliveries of one action are never executed by two consumers at once
\* (the locked READY -> RUNNING transition).
OneExecutor ==
  \A c, d \in Connectors, a \in ActionIds :
    Executing(c, a) /\ Executing(d, a) => c = d

\* A cancelled action was never started: nothing was sent and nothing will
\* be (request_cancellation racing _drive_to_running).
CancelledIsNeverSent ==
  \A a \in ActionIds :
    status[a] = "CANCELLED" =>
      delivered[a] = 0 /\ \A c \in Connectors : ~Executing(c, a)

\* The audit events of an action are its history: they lead from its proposal
\* to its current status, each from where the one before ended and each along
\* an edge of the transition table.
AuditIsTheHistory ==
  \A a \in ActionIds :
    LET t == audit[a]
    IN  /\ status[a] = IF t = <<>> THEN "ABSENT" ELSE t[Len(t)].to
        /\ \A i \in 2 .. Len(t) :
             /\ t[i].from = t[i - 1].to
             /\ t[i].to \in ALLOWED_TRANSITIONS(t[i].from)

\* A proposer who did not mute it is told of a failure exactly once, whoever
\* reported it, and of nothing that did not happen (apply_transition).
FailureIsReportedOnce ==
  \A a \in ActionIds :
    notices[a]["FAILED_ACTION"] =
      IF status[a] = "FAILED" /\ <<row[a].actor, "FAILED_ACTION">> \notin Muted
      THEN 1 ELSE 0

\* The approval's nonce is shown to the action's own proposer and to no other
\* member, replays included (resolve_replay_approval).
NonceStaysWithProposer ==
  \A a \in ActionIds :
    nonceHolders[a] # {} => Exists(a) /\ nonceHolders[a] = {row[a].actor}

\* A READY action is never forgotten by the stores: an unpublished outbox
\* row, an unread stream entry or a pending entry still names it, whatever
\* crashed (outbox_relay's at-least-once publication, XACK after the work).
ReadyIsRecoverable ==
  \A a \in ActionIds :
    status[a] = "READY" /\ row[a].tool = TELEGRAM_TOOL_NAME =>
      \/ \E m \in RowsOf(a) : ~outbox[m].published
      \/ \E i \in EntriesOf(a) : i > cursor \/ i \in pel

\* The refinement mapping: an action's committed status and the messages the
\* chat has received are what the lifecycle speaks of; requests, outbox,
\* stream, workers and consumers are hidden.
Lifecycle == INSTANCE ActionLifecycle
  WITH ActionIds <- ActionIds, status <- status, delivered <- delivered

\* The pipeline implements the lifecycle it promises.
ImplementsLifecycle == Lifecycle!LifecycleSpec

\* The request has read the scope's switch in propose_action and found it off.
Passed(r, s) ==
  req[r].op = "propose" \/ (s = "customer" /\ req[r].op = "check")

\* While a kill switch is engaged no request gets past its check, so no more
\* actions are created than proposals had passed it when it was engaged (each
\* of which may still commit): the sum of the two never grows.  It is stated
\* switch by switch: assert_not_killed reads the two in two statements, and a
\* proposal may pass both while one or the other is always engaged.
EngagedSwitchDrains ==
  [][\A s \in switch :
       Cardinality({a \in ActionIds : Exists(a)'}) + Cardinality({r \in Requests : Passed(r, s)'})
         <= Cardinality({a \in ActionIds : Exists(a)}) + Cardinality({r \in Requests : Passed(r, s)})]_vars

\* Nobody will look at the action again: its rows are published, and all its
\* entries have been read, one of them by a consumer that failed and left it
\* in the pending list, which nothing reads.
Stranded(a) ==
  /\ \A m \in RowsOf(a) : outbox[m].published
  /\ EntriesOf(a) \cap pel # {}
  /\ \A i \in EntriesOf(a) :
       /\ i <= cursor
       /\ \A c \in Connectors : \A j \in DOMAIN conn[c].batch : conn[c].batch[j] # i

\* An action that became READY is started or cancelled, whatever fails in the
\* relay, unless the consumer that was given its entry fails over it ("the
\* promise to eventually cause a side effect", kept by the outbox and the
\* stream and not by the pending list).
ReadyIsTakenUp ==
  \A a \in ActionIds :
    (status[a] = "READY" /\ row[a].tool = TELEGRAM_TOOL_NAME)
      ~> (status[a] # "READY" \/ Stranded(a))

-----------------------------------------------------------------------------
(* The inductive invariant behind the safety properties above.             *)

\* The statuses an action can have between transactions: DRAFT and VALIDATING
\* never outlive one, and no code takes the edges to the others.
CommittedStatus ==
  {"ABSENT", "AWAITING_APPROVAL", "READY", "RUNNING", "SUCCEEDED", "FAILED",
   "COMPENSATING", "COMPENSATED", "CANCELLED"}

NotStarted(a) ==
  status[a] \in {"ABSENT", "AWAITING_APPROVAL", "READY", "CANCELLED"}

\* Announced: the action has been through READY.
Announced(a) == status[a] \notin {"ABSENT", "AWAITING_APPROVAL"}

NeedsConnector(a) == status[a] = "READY" /\ row[a].tool = TELEGRAM_TOOL_NAME

\* A request acts on what exists, and its user's right to approve stands.
RequestReferences ==
  \A r \in Requests :
    /\ req[r].op = "consume" => /\ approval[req[r].action] # None
                               /\ ActsFor(req[r].user, req[r].action)
    /\ req[r].op = "cancel" => Exists(req[r].action)

\* The outbox names announced actions, and workers lock rows it has.
OutboxReferences ==
  /\ \A m \in DOMAIN outbox : Announced(outbox[m].action)
  /\ \A w \in Relays :
       relay[w].todo \subseteq DOMAIN outbox /\ relay[w].added \subseteq DOMAIN outbox

StreamReferences == \A i \in DOMAIN stream : Announced(stream[i])

\* Approvals, requests, locked rows and entries refer to what exists.
References ==
  /\ \A a \in ActionIds :
       /\ status[a] \in CommittedStatus
       /\ Exists(a) => row[a] \in Proposal
       /\ approval[a] # None => Exists(a)
  /\ RequestReferences
  /\ OutboxReferences
  /\ StreamReferences

\* A consumer's batch holds delivered entries, and its place in the code says
\* what it knows of the entry in hand.
ConsumerOK(c) ==
  /\ conn[c].pc # "idle" => conn[c].batch # <<>>
  /\ \A i \in DOMAIN conn[c].batch : conn[c].batch[i] \in 1 .. cursor
  /\ conn[c].pc \in {"drive", "send", "resolve"} =>
       row[Current(c)].tool = TELEGRAM_TOOL_NAME
  /\ conn[c].pc = "resolve" => conn[c].target \in {"SUCCEEDED", "FAILED"}
  /\ conn[c].pc = "ack" => ~NeedsConnector(Current(c))

Consumers == cursor <= Len(stream) /\ \A c \in Connectors : ConsumerOK(c)

\* The risk floor holds from the proposal on, and a risky action has an
\* approval from the moment it exists.
Authorised ==
  /\ \A r \in Requests :
       req[r].op \in {"check", "propose"} /\ req[r].proposal.tool = TELEGRAM_TOOL_NAME =>
         req[r].proposal.risk >= 3
  /\ \A a \in ActionIds : Exists(a) =>
       /\ row[a].tool = TELEGRAM_TOOL_NAME => row[a].risk >= 3
       /\ row[a].risk \notin AUTO_APPROVED_RISK_LEVELS => approval[a] # None
  /\ RiskyActionsAreApproved

\* The one execution of an action: nothing is delivered before it starts, and
\* the consumer that has it in hand is the only one to deliver.
ActionExecution(a) ==
  /\ delivered[a] \in {0, 1}
  /\ NotStarted(a) => delivered[a] = 0
  /\ delivered[a] = 1 => row[a].tool = TELEGRAM_TOOL_NAME
  /\ status[a] = "SUCCEEDED" => delivered[a] = 1

ConsumerExecution(c) ==
  /\ conn[c].pc \in {"send", "resolve"} => ~NotStarted(Current(c))
  /\ conn[c].pc = "send" => delivered[Current(c)] = 0
  /\ conn[c].pc = "resolve" /\ conn[c].target = "SUCCEEDED" =>
       delivered[Current(c)] = 1

Execution ==
  /\ OneExecutor
  /\ \A a \in ActionIds : ActionExecution(a)
  /\ \A c \in Connectors : ConsumerExecution(c)

\* An entry that has not been read or acknowledged names the action.
Covered(a) == \E i \in EntriesOf(a) : i > cursor \/ i \in pel

\* A row that is published, or added to the stream by a worker that has yet to
\* commit, has a live entry for as long as its action waits.
RowLive(m) ==
  \/ ~outbox[m].published /\ \A w \in Relays : m \notin relay[w].added
  \/ ~NeedsConnector(outbox[m].action)
  \/ Covered(outbox[m].action)

\* A READY action has a row.
Recoverable ==
  /\ \A a \in ActionIds : status[a] = "READY" => RowsOf(a) # {}
  /\ \A m \in DOMAIN outbox : RowLive(m)

\* All of the above holds in every reachable state, and each step preserves
\* it: requests that decide on stale rows, relays that publish twice and
\* consumers that crash included.
PipelineInvariant ==
  TypeOK /\ References /\ Consumers /\ Authorised /\ Execution /\ Recoverable

-----------------------------------------------------------------------------
(* What the repository says of the program, and the program does not do.   *)

\* consume_approval: "A failed check denies/expires the approval and moves
\* the action to a terminal state rather than leaving it pending".
RefusalLeavesATrace ==
  [][\A r \in Requests :
       /\ req[r].op = "consume"
       /\ req[r].late
       /\ status[req[r].action] = "AWAITING_APPROVAL"
       /\ req'[r] = IdleRequest
       => status'[req[r].action] \in TERMINAL_STATUSES]_vars
=============================================================================
