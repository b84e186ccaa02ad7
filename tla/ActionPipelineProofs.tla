------------------------ MODULE ActionPipelineProofs ------------------------
(***************************************************************************)
(* The theorems about the action pipeline, for any number of actions, users, *)
(* requests, workers, connectors and faults: PipelineInvariant is inductive, *)
(* the safety properties follow from it, and the pipeline implements the   *)
(* lifecycle.                                                              *)
(***************************************************************************)
EXTENDS PipelineStepProofs

(* Execution.                                                              *)

\* An action is kept as it was executed when its step delivers nothing and
\* does not make it SUCCEEDED.
LEMMA ActionExecutionKept ==
  ASSUME Grows, NEW a \in ActionIds, ActionExecution(a), delivered'[a] = delivered[a],
         status'[a] = "SUCCEEDED" => status[a] = "SUCCEEDED" \/ delivered[a] = 1
  PROVE  ActionExecution(a)'
  BY DEF Grows, ActionExecution, NotStarted, Exists

\* Likewise a consumer that does not move, unless another one delivers the
\* message of the action it is about to send.
LEMMA ConsumerExecutionKept ==
  ASSUME TypeOK, References, Consumers, Grows, StreamGrows, NEW c \in Connectors,
         conn'[c] = conn[c], ConsumerExecution(c),
         conn[c].pc \in {"send", "resolve"} => delivered'[Current(c)] = delivered[Current(c)]
  PROVE  ConsumerExecution(c)'
  <1>1. CASE conn[c].pc \in {"send", "resolve"}
    <2>1. Current(c)' = Current(c) /\ Current(c) \in ActionIds
      BY <1>1, CurrentKept, EntryInHand
    <2>2. ~NotStarted(Current(c))
      BY <1>1 DEF ConsumerExecution
    <2>3. status'[Current(c)] \notin {"ABSENT", "AWAITING_APPROVAL", "READY", "CANCELLED"}
      BY <2>1, <2>2 DEF Grows, NotStarted
    <2>4. QED
      BY <1>1, <2>1, <2>3 DEF ConsumerExecution, NotStarted
  <1>2. CASE conn[c].pc \notin {"send", "resolve"}
    BY <1>2 DEF ConsumerExecution
  <1>3. QED
    BY <1>1, <1>2

\* No executor appears unless a consumer starts one.
LEMMA OneExecutorKept ==
  ASSUME TypeOK, References, Consumers, StreamGrows, OneExecutor,
         \A c \in Connectors :
           conn'[c].pc \in {"send", "resolve"} =>
             conn[c].pc \in {"send", "resolve"} /\ conn'[c].batch = conn[c].batch
  PROVE  OneExecutor'
  <1>1. ASSUME NEW c \in Connectors, NEW a \in ActionIds, Executing(c, a)'
        PROVE  Executing(c, a)
    BY <1>1, CurrentKept DEF Executing
  <1>2. QED
    BY <1>1 DEF OneExecutor

\* Requests neither deliver nor start an execution.
LEMMA ServiceExecution ==
  ASSUME TypeOK, References, Consumers, Execution, ServiceNext,
         UNCHANGED <<switchVars, relay, connectorVars>>
  PROVE  Execution'
  <1>0. StoreTypeOK /\ ServiceTypeOK /\ Grows
    BY ServiceGrows DEF TypeOK
  <1>1. stream' = stream /\ conn' = conn /\ delivered' = delivered
    BY DEF connectorVars, ServiceNext, BeginPropose, CheckWorkspace, RefuseProposal, CreateAction, ReplayAction, BeginConsume,
           BeginCancel, ConsumeApproval, RefuseConsume, CancelAction, LoseRace, AbortRequest,
           ApprovalLapses, CompleteCompensation, storeVars
  <1>2. StreamGrows
    BY <1>1 DEF StreamGrows
  <1>3. ASSUME NEW a \in ActionIds, status'[a] = "SUCCEEDED"
        PROVE  status[a] = "SUCCEEDED"
    <2>1. ASSUME NEW b \in ActionIds,
                 NEW target \in {"READY", "CANCELLED", "COMPENSATING", "COMPENSATED", "FAILED"},
                 status' = [status EXCEPT ![b] = target]
          PROVE  status[a] = "SUCCEEDED"
      BY <1>0, <1>3, <2>1 DEF StoreTypeOK
    <2>2. ASSUME NEW r \in Requests, CreateAction(r)
          PROVE  status[a] = "SUCCEEDED"
      BY <1>0, <1>3, <2>2 DEF CreateAction, Created, Routed, StoreTypeOK
    <2>3. ASSUME NEW r \in Requests, ConsumeApproval(r)
          PROVE  status[a] = "SUCCEEDED"
      <3>1. req[r].action \in ActionIds
        BY <2>3, Consumed
      <3>2. QED
        BY <2>1, <2>3, <3>1 DEF ConsumeApproval, apply_transition
    <2>4. ASSUME NEW r \in Requests, CancelAction(r)
          PROVE  status[a] = "SUCCEEDED"
      <3>1. req[r].action \in ActionIds /\ req[r].target \in {"CANCELLED", "COMPENSATING"}
        BY <1>0, <2>4, RequestFields DEF CancelAction, ServiceTypeOK
      <3>2. QED
        BY <2>1, <2>4, <3>1 DEF CancelAction, apply_transition
    <2>5. ASSUME NEW user \in Admins, NEW b \in ActionIds,
                 NEW outcome \in {"COMPENSATED", "FAILED"},
                 CompleteCompensation(user, b, outcome)
          PROVE  status[a] = "SUCCEEDED"
      BY <2>1, <2>5 DEF CompleteCompensation, apply_transition
    <2>6. QED
      BY <1>3, <2>2, <2>3, <2>4, <2>5
      DEF ServiceNext, BeginPropose, CheckWorkspace, RefuseProposal, ReplayAction, BeginConsume,
        BeginCancel, RefuseConsume,
          LoseRace, AbortRequest, ApprovalLapses, storeVars
  <1>4. \A a \in ActionIds : ActionExecution(a)'
    BY <1>0, <1>1, <1>3, ActionExecutionKept DEF Execution
  <1>5. \A c \in Connectors : ConsumerExecution(c)'
    BY <1>0, <1>1, <1>2, ConsumerExecutionKept DEF Execution
  <1>6. OneExecutor'
    BY <1>1, <1>2, OneExecutorKept DEF Execution
  <1>7. QED
    BY <1>4, <1>5, <1>6 DEF Execution

\* The relay neither delivers nor starts an execution.
LEMMA RelayExecution ==
  ASSUME TypeOK, References, Consumers, Execution, RelayNext,
         UNCHANGED <<switchVars, serviceVars, connectorVars>>
  PROVE  Execution'
  <1>1. /\ UNCHANGED <<status, row, approval>>
        /\ cursor' = cursor /\ conn' = conn /\ delivered' = delivered
    BY DEF connectorVars, RelayNext, RelayStep, SelectBatch, AddToStream, CommitBatch,
           RelayFails, storeVars
  <1>2. Grows /\ StreamGrows
    BY RelayGrows
  <1>3. \A a \in ActionIds : ActionExecution(a)'
    BY <1>1, <1>2, ActionExecutionKept DEF Execution
  <1>4. \A c \in Connectors : ConsumerExecution(c)'
    BY <1>1, <1>2, ConsumerExecutionKept DEF Execution
  <1>5. OneExecutor'
    BY <1>1, <1>2, OneExecutorKept DEF Execution
  <1>6. QED
    BY <1>3, <1>4, <1>5 DEF Execution

\* The connector: only a start makes an executor, of an action nobody was
\* executing, and only the executor delivers.
LEMMA ConnectorExecution ==
  ASSUME TypeOK, References, Consumers, Execution, ConnectorNext,
         UNCHANGED <<switchVars, serviceVars, relay>>
  PROVE  Execution'
  <1>0. StoreTypeOK /\ ConnectorTypeOK /\ stream' = stream
    BY DEF TypeOK, ConnectorNext, ConnectorStep, Send, ReadGroup, LoadAction, DriveToRunning,
           DriveRefused, SendSucceeds, SendTransient, SendFails, SendRaises, Resolve,
           ResolveRefused, Acknowledge, EntryFails, ConnectorCrashes, storeVars
  <1>a. Grows /\ StreamGrows
    BY <1>0, ConnectorGrows DEF StreamGrows
  \* Steps without a transition, a delivery or a new executor.
  <1>b. ASSUME NEW c \in Connectors, UNCHANGED <<status, delivered>>,
               \A d \in Connectors : d # c => conn'[d] = conn[d],
               \/ conn'[c].pc \notin {"send", "resolve"}
               \/ /\ conn[c].pc = "send" /\ conn'[c].batch = conn[c].batch
                  /\ \/ conn'[c].pc = "send"
                     \/ conn'[c].pc = "resolve" /\ conn'[c].target = "FAILED"
        PROVE  Execution'
    <2>1. \A a \in ActionIds : ActionExecution(a)'
      BY <1>a, <1>b, ActionExecutionKept DEF Execution
    <2>2. OneExecutor'
      <3>1. \A d \in Connectors :
              conn'[d].pc \in {"send", "resolve"} =>
                conn[d].pc \in {"send", "resolve"} /\ conn'[d].batch = conn[d].batch
        BY <1>b
      <3>2. QED
        BY <1>a, <3>1, OneExecutorKept DEF Execution
    <2>3. ConsumerExecution(c)'
      <3>1. CASE conn'[c].pc \notin {"send", "resolve"}
        BY <3>1 DEF ConsumerExecution
      <3>2. CASE conn[c].pc = "send" /\ conn'[c].batch = conn[c].batch
        <4>1. Current(c)' = Current(c)
          BY <1>a, <3>2, CurrentKept
        <4>2. QED
          BY <1>b, <3>2, <4>1 DEF Execution, ConsumerExecution, NotStarted
      <3>3. QED
        BY <1>b, <3>1, <3>2
    <2>4. \A d \in Connectors : ConsumerExecution(d)'
      BY <1>a, <1>b, <2>3, ConsumerExecutionKept DEF Execution
    <2>5. QED
      BY <2>1, <2>2, <2>4 DEF Execution
  <1>1. ASSUME NEW c \in Connectors, ReadGroup(c)
        PROVE  Execution'
    BY <1>1, <1>b, Reading DEF ReadGroup, storeVars
  <1>2. ASSUME NEW c \in Connectors, LoadAction(c)
        PROVE  Execution'
    BY <1>2, <1>b, GoingTo DEF LoadAction, storeVars
  <1>3. ASSUME NEW c \in Connectors, DriveToRunning(c)
        PROVE  Execution'
    <2>1. PICK a \in ActionIds : a = Current(c) /\ conn[c].pc = "drive"
      BY <1>3, EntryInHand DEF DriveToRunning, At
    <2>2. /\ status'[a] = "RUNNING" /\ NotStarted(a) /\ delivered' = delivered
          /\ \A b \in ActionIds : b # a => status'[b] = status[b]
      BY <1>0, <1>3, <2>1, Moved DEF DriveToRunning
    <2>3. /\ \A d \in Connectors : d # c => conn'[d] = conn[d]
          /\ conn'[c].batch = conn[c].batch
          /\ \/ conn'[c].pc = "send"
             \/ conn'[c].pc = "resolve" /\ conn'[c].target = "FAILED"
      <3>1. Goto(c, "send") \/ ResolveAs(c, "FAILED")
        BY <1>3 DEF DriveToRunning
      <3>2. CASE Goto(c, "send")
        BY <3>2, GoingTo
      <3>3. CASE ResolveAs(c, "FAILED")
        BY <3>3, ResolvingAs
      <3>4. QED
        BY <3>1, <3>2, <3>3
    <2>4. Current(c)' = a
      BY <1>a, <2>1, <2>3, CurrentKept
    <2>5. \A b \in ActionIds : ActionExecution(b)'
      BY <1>a, <2>2, ActionExecutionKept DEF Execution
    <2>6. ConsumerExecution(c)'
      BY <2>2, <2>3, <2>4 DEF Execution, ActionExecution, ConsumerExecution, NotStarted
    <2>7. \A d \in Connectors : ConsumerExecution(d)'
      BY <1>a, <2>2, <2>3, <2>6, ConsumerExecutionKept DEF Execution
    <2>8. ASSUME NEW d \in Connectors, NEW b \in ActionIds, d # c, Executing(d, b)'
          PROVE  Executing(d, b) /\ b # a
      <3>1. conn'[d] = conn[d]
        BY <2>3, <2>8
      <3>2. Executing(d, b)
        BY <1>a, <2>8, <3>1, CurrentKept DEF Executing
      <3>3. QED
        BY <2>2, <3>2 DEF Executing, Execution, ConsumerExecution
    <2>9. OneExecutor'
      <3>1. ASSUME NEW b \in ActionIds, Executing(c, b)'
            PROVE  b = a
        BY <2>4, <3>1 DEF Executing
      <3>2. QED
        BY <2>8, <3>1 DEF OneExecutor, Execution
    <2>10. QED
      BY <2>5, <2>7, <2>9 DEF Execution
  <1>4. ASSUME NEW c \in Connectors, NextEntry(c), conn[c].pc # "idle",
               UNCHANGED <<status, delivered>>
        PROVE  Execution'
    <2>1. conn[c].batch # <<>>
      BY <1>4, EntryInHand
    <2>2. QED
      BY <1>4, <1>b, <2>1, MovingOn
  \* A message that goes out, whatever is made of it.
  <1>5. ASSUME NEW c \in Connectors, At(c, "send"), status' = status, Reaches(Current(c)),
               \A d \in Connectors : d # c => conn'[d] = conn[d],
               \/ conn'[c].pc \in {"idle", "load"}
               \/ conn'[c].pc = "resolve" /\ conn'[c].batch = conn[c].batch
        PROVE  Execution'
    <2>1. PICK a \in ActionIds : a = Current(c) /\ conn[c].pc = "send"
      BY <1>5, EntryInHand DEF At
    <2>2. /\ delivered[a] = 0 /\ ~NotStarted(a) /\ delivered'[a] = 1
          /\ \A b \in ActionIds : b # a => delivered'[b] = delivered[b]
          /\ row[a].tool = TELEGRAM_TOOL_NAME
      BY <1>0, <1>5, <2>1
      DEF Reaches, ConnectorTypeOK, Execution, ConsumerExecution, Consumers, ConsumerOK
    <2>3. ActionExecution(a)'
      BY <1>a, <1>5, <2>2 DEF ActionExecution, NotStarted, Grows, Exists
    <2>4. \A b \in ActionIds : ActionExecution(b)'
      BY <1>a, <1>5, <2>2, <2>3, ActionExecutionKept DEF Execution
    <2>5. OneExecutor'
      <3>1. \A d \in Connectors :
              conn'[d].pc \in {"send", "resolve"} =>
                conn[d].pc \in {"send", "resolve"} /\ conn'[d].batch = conn[d].batch
        BY <1>5, <2>1
      <3>2. QED
        BY <1>a, <3>1, OneExecutorKept DEF Execution
    <2>6. ConsumerExecution(c)'
      <3>1. CASE conn'[c].pc \in {"idle", "load"}
        BY <3>1 DEF ConsumerExecution
      <3>2. CASE conn'[c].pc = "resolve" /\ conn'[c].batch = conn[c].batch
        <4>1. Current(c)' = a
          BY <1>a, <2>1, <3>2, CurrentKept
        <4>2. QED
          BY <1>5, <2>2, <3>2, <4>1 DEF ConsumerExecution, NotStarted
      <3>3. QED
        BY <1>5, <3>1, <3>2
    <2>7. ASSUME NEW d \in Connectors, d # c
          PROVE  ConsumerExecution(d)'
      <3>1. conn[d].pc \in {"send", "resolve"} => Current(d) \in ActionIds /\ Current(d) # a
        BY <2>1, <2>7, EntryInHand DEF Execution, OneExecutor, Executing
      <3>2. QED
        BY <1>a, <1>5, <2>2, <2>7, <3>1, ConsumerExecutionKept DEF Execution
    <2>8. QED
      BY <2>4, <2>5, <2>6, <2>7 DEF Execution
  <1>6. ASSUME NEW c \in Connectors, Resolve(c)
        PROVE  Execution'
    <2>1. PICK a \in ActionIds : a = Current(c) /\ conn[c].pc = "resolve"
      BY <1>6, EntryInHand DEF Resolve, At
    <2>2. PICK t \in {"SUCCEEDED", "FAILED"} : t = conn[c].target
      BY <2>1 DEF Consumers, ConsumerOK
    <2>3. /\ status'[a] = t /\ delivered' = delivered
          /\ \A b \in ActionIds : b # a => status'[b] = status[b]
      BY <1>0, <1>6, <2>1, <2>2, Moved DEF Resolve
    <2>4. t = "SUCCEEDED" => delivered[a] = 1
      BY <2>1, <2>2 DEF Execution, ConsumerExecution
    <2>5. \A b \in ActionIds : ActionExecution(b)'
      BY <1>a, <2>3, <2>4, ActionExecutionKept DEF Execution
    <2>6. /\ \A d \in Connectors : d # c => conn'[d] = conn[d]
          /\ conn'[c].pc = "ack"
      BY <1>6, GoingTo DEF Resolve
    <2>7. \A d \in Connectors : ConsumerExecution(d)'
      <3>1. ConsumerExecution(c)'
        BY <2>6 DEF ConsumerExecution
      <3>2. QED
        BY <1>a, <2>3, <2>6, <3>1, ConsumerExecutionKept DEF Execution
    <2>8. OneExecutor'
      <3>1. \A d \in Connectors :
              conn'[d].pc \in {"send", "resolve"} =>
                conn[d].pc \in {"send", "resolve"} /\ conn'[d].batch = conn[d].batch
        BY <2>6
      <3>2. QED
        BY <1>a, <3>1, OneExecutorKept DEF Execution
    <2>9. QED
      BY <2>5, <2>7, <2>8 DEF Execution
  <1>7. ASSUME NEW c \in Connectors, ConnectorCrashes(c)
        PROVE  Execution'
    <2>1. conn'[c] = IdleConn /\ \A d \in Connectors : d # c => conn'[d] = conn[d]
      BY <1>0, <1>7 DEF ConnectorCrashes, ConnectorTypeOK
    <2>2. conn'[c].pc = "idle"
      BY <2>1 DEF IdleConn
    <2>3. QED
      BY <1>7, <1>b, <2>1, <2>2 DEF ConnectorCrashes
  <1>8. ASSUME NEW c \in Connectors, Send(c)
        PROVE  Execution'
    <2>1. CASE SendSucceeds(c)
      BY <1>5, <2>1, ResolvingAs DEF SendSucceeds, storeVars
    <2>2. CASE SendTransient(c)
      BY <1>b, <2>2, Retrying DEF SendTransient, At, storeVars
    <2>3. CASE SendFails(c)
      <3>1. CASE Reaches(Current(c))
        BY <1>5, <2>3, <3>1, ResolvingAs DEF SendFails, storeVars
      <3>2. CASE UNCHANGED delivered
        BY <1>b, <2>3, <3>2, ResolvingAs DEF SendFails, At, storeVars
      <3>3. QED
        BY <2>3, <3>1, <3>2 DEF SendFails
    <2>4. CASE SendRaises(c)
      <3>1. At(c, "send") /\ NextEntry(c) /\ status' = status
        BY <2>4 DEF SendRaises, storeVars
      <3>2. conn[c].batch # <<>> /\ conn[c].pc # "idle"
        BY <3>1, EntryInHand DEF At
      <3>3. CASE Reaches(Current(c))
        BY <1>5, <3>1, <3>2, <3>3, MovingOn
      <3>4. CASE UNCHANGED delivered
        BY <1>4, <3>1, <3>2, <3>4
      <3>5. QED
        BY <2>4, <3>3, <3>4 DEF SendRaises
    <2>5. QED
      BY <1>8, <2>1, <2>2, <2>3, <2>4 DEF Send
  <1>9. QED
    BY <1>1, <1>2, <1>3, <1>4, <1>6, <1>7, <1>8
    DEF ConnectorNext, ConnectorStep, DriveRefused, ResolveRefused, Acknowledge, EntryFails, At,
        storeVars

-----------------------------------------------------------------------------
(* Recoverability.                                                         *)

\* A row that is live stays so while no worker adds it, what is published was
\* added, and the live entries of its action are kept.
LEMMA RowKept ==
  ASSUME StoreTypeOK, References, Recoverable, Grows, NEW m \in DOMAIN outbox,
         outbox'[m].action = outbox[m].action,
         \A w \in Relays : m \in relay'[w].added => m \in relay[w].added,
         \/ outbox'[m].published = outbox[m].published
         \/ \E w \in Relays : m \in relay[w].added,
         \A a \in ActionIds :
           a = outbox[m].action /\ NeedsConnector(a)' /\ Covered(a) => Covered(a)'
  PROVE  RowLive(m)'
  <1>1. PICK a \in ActionIds : a = outbox[m].action /\ Announced(a)
    BY RowsAndEntries DEF References, OutboxReferences
  <1>2. NeedsConnector(a)' => NeedsConnector(a)
    BY <1>1 DEF Grows, Announced, Exists, NeedsConnector
  <1>3. RowLive(m)
    BY DEF Recoverable
  <1>4. QED
    BY <1>1, <1>2, <1>3 DEF RowLive

\* An action that was READY keeps its row.
LEMMA ReadyKeepsRow ==
  ASSUME Recoverable, NEW a \in ActionIds, status[a] = "READY",
         DOMAIN outbox \subseteq DOMAIN outbox',
         \A m \in DOMAIN outbox : outbox'[m].action = outbox[m].action
  PROVE  RowsOf(a)' # {}
  BY DEF Recoverable, RowsOf

\* Requests that make an action READY give it its outbox row.
LEMMA ServiceRecoverable ==
  ASSUME TypeOK, References, Recoverable, ServiceNext,
         UNCHANGED <<switchVars, relay, connectorVars>>
  PROVE  Recoverable'
  <1>0. StoreTypeOK /\ ServiceTypeOK /\ Grows /\ outbox \in Seq(OutboxMessage)
    BY ServiceGrows DEF TypeOK, StoreTypeOK
  <1>1. stream' = stream /\ cursor' = cursor /\ pel' = pel /\ relay' = relay
    BY DEF connectorVars, ServiceNext, BeginPropose, CheckWorkspace, RefuseProposal, CreateAction, ReplayAction, BeginConsume,
           BeginCancel, ConsumeApproval, RefuseConsume, CancelAction, LoseRace, AbortRequest,
           ApprovalLapses, CompleteCompensation, storeVars
  <1>2. \A a \in ActionIds : Covered(a)' = Covered(a)
    BY <1>1 DEF Covered, EntriesOf
  \* Requests that announce nothing make nothing READY.
  <1>3. ASSUME outbox' = outbox,
               \A a \in ActionIds : status'[a] = "READY" => status[a] = "READY"
        PROVE  Recoverable'
    <2>1. \A m \in DOMAIN outbox : RowLive(m)'
      BY <1>0, <1>1, <1>2, <1>3, RowKept
    <2>2. \A a \in ActionIds : status'[a] = "READY" => RowsOf(a)' # {}
      BY <1>3, ReadyKeepsRow
    <2>3. QED
      BY <1>3, <2>1, <2>2 DEF Recoverable
  \* Requests that announce the action they make READY.
  <1>4. ASSUME NEW a \in ActionIds, enqueue_outbox_message(a),
               \A b \in ActionIds : b # a /\ status'[b] = "READY" => status[b] = "READY"
        PROVE  Recoverable'
    <2> DEFINE new == Len(outbox) + 1
    <2>1. /\ DOMAIN outbox' = DOMAIN outbox \cup {new}
          /\ new \notin DOMAIN outbox
          /\ \A m \in DOMAIN outbox : outbox'[m] = outbox[m]
          /\ outbox'[new].action = a
          /\ outbox'[new].published = FALSE
      BY <1>0, <1>4, Enqueued
    <2> HIDE DEF new
    <2>2. \A m \in DOMAIN outbox : RowLive(m)'
      BY <1>0, <1>1, <1>2, <2>1, RowKept
    <2>3. ~outbox'[new].published /\ \A w \in Relays : new \notin relay'[w].added
      BY <1>1, <2>1 DEF References, OutboxReferences
    <2>4. \A m \in DOMAIN outbox' : RowLive(m)'
      BY <2>1, <2>2, <2>3 DEF RowLive
    <2>5. RowsOf(a)' # {}
      BY <2>1 DEF RowsOf
    <2>6. \A b \in ActionIds : status'[b] = "READY" => RowsOf(b)' # {}
      BY <1>4, <2>1, <2>5, ReadyKeepsRow
    <2>7. QED
      BY <2>4, <2>6 DEF Recoverable
  <1>5. ASSUME NEW r \in Requests, CreateAction(r)
        PROVE  Recoverable'
    <2>1. PICK a \in ActionIds : Created(req[r].proposal, a)
      BY <1>5 DEF CreateAction
    <2>2. \A b \in ActionIds : b # a => status'[b] = status[b]
      BY <1>0, <2>1 DEF Created, StoreTypeOK
    <2>3. CASE enqueue_outbox_message(a)
      BY <1>4, <2>2, <2>3
    <2>4. CASE outbox' = outbox /\ Routed(req[r].proposal) = "AWAITING_APPROVAL"
      <3>1. status'[a] = "AWAITING_APPROVAL"
        BY <1>0, <2>1, <2>4 DEF Created, StoreTypeOK
      <3>2. QED
        BY <1>3, <2>2, <2>4, <3>1
    <2>5. QED
      BY <2>1, <2>3, <2>4 DEF Created
  <1>6. ASSUME NEW r \in Requests, ConsumeApproval(r)
        PROVE  Recoverable'
    <2>1. PICK a \in ActionIds : a = req[r].action
      BY <1>6, Consumed
    <2>2. \A b \in ActionIds : b # a => status'[b] = status[b]
      BY <1>0, <1>6, <2>1, Moved DEF ConsumeApproval
    <2>3. QED
      BY <1>4, <1>6, <2>1, <2>2 DEF ConsumeApproval
  <1>7. ASSUME NEW r \in Requests, CancelAction(r)
        PROVE  Recoverable'
    <2>1. req[r].action \in ActionIds /\ req[r].target \in {"CANCELLED", "COMPENSATING"}
      BY <1>0, <1>7, RequestFields DEF CancelAction, ServiceTypeOK
    <2>2. \A a \in ActionIds : status'[a] = "READY" => status[a] = "READY"
      <3>1. status' = [status EXCEPT ![req[r].action] = req[r].target]
        BY <1>7 DEF CancelAction, apply_transition
      <3>2. QED
        BY <1>0, <2>1, <3>1 DEF StoreTypeOK
    <2>3. QED
      BY <1>3, <1>7, <2>2 DEF CancelAction
  <1>8. ASSUME NEW user \in Admins, NEW a \in ActionIds,
               NEW outcome \in {"COMPENSATED", "FAILED"},
               CompleteCompensation(user, a, outcome)
        PROVE  Recoverable'
    <2>1. \A b \in ActionIds : status'[b] = "READY" => status[b] = "READY"
      <3>1. status' = [status EXCEPT ![a] = outcome]
        BY <1>8 DEF CompleteCompensation, apply_transition
      <3>2. QED
        BY <1>0, <3>1 DEF StoreTypeOK
    <2>2. QED
      BY <1>3, <1>8, <2>1 DEF CompleteCompensation
  <1>9. QED
    BY <1>3, <1>5, <1>6, <1>7, <1>8
    DEF ServiceNext, BeginPropose, CheckWorkspace, RefuseProposal, ReplayAction, BeginConsume,
        BeginCancel, RefuseConsume,
        LoseRace, AbortRequest, ApprovalLapses, storeVars

\* The relay publishes a row only after its entry is in the stream.
LEMMA RelayRecoverable ==
  ASSUME TypeOK, References, Consumers, Recoverable, RelayNext,
         UNCHANGED <<switchVars, serviceVars, connectorVars>>
  PROVE  Recoverable'
  <1>0. /\ StoreTypeOK /\ RelayTypeOK /\ Grows /\ StreamGrows
        /\ cursor' = cursor /\ pel' = pel /\ cursor \in Nat
    BY RelayGrows DEF TypeOK, ConnectorTypeOK, connectorVars
  <1>1. status' = status
    BY DEF RelayNext, RelayStep, SelectBatch, AddToStream, CommitBatch, RelayFails, storeVars
  <1>2. \A a \in ActionIds : Covered(a) => Covered(a)'
    BY <1>0 DEF Covered, EntriesOf, StreamGrows
  <1>3. ASSUME DOMAIN outbox' = DOMAIN outbox,
               \A m \in DOMAIN outbox : outbox'[m].action = outbox[m].action /\ RowLive(m)'
        PROVE  Recoverable'
    BY <1>1, <1>3, ReadyKeepsRow DEF Recoverable
  <1>4. ASSUME NEW w \in Relays, SelectBatch(w)
        PROVE  Recoverable'
    <2>1. outbox' = outbox /\ \A v \in Relays : relay'[v].added = relay[v].added
      BY <1>0, <1>4 DEF SelectBatch, RelayTypeOK, storeVars
    <2>2. QED
      BY <1>0, <1>2, <1>3, <2>1, RowKept
  <1>5. ASSUME NEW w \in Relays, AddToStream(w)
        PROVE  Recoverable'
    <2>1. PICK n \in relay[w].todo :
            /\ stream' = Append(stream, outbox[n].action)
            /\ relay' = [relay EXCEPT ![w] = [todo |-> @.todo \ {n},
                                             added |-> @.added \cup {n}]]
            /\ outbox' = outbox
      BY <1>5 DEF AddToStream
    <2>2. PICK a \in ActionIds : a = outbox[n].action
      BY <1>0, RowsAndEntries DEF References, OutboxReferences
    <2>3. Covered(a)'
      <3>1. stream \in Seq(ActionIds) /\ cursor <= Len(stream)
        BY <1>0 DEF StoreTypeOK, Consumers
      <3>2. /\ Len(stream) + 1 \in DOMAIN stream'
            /\ stream'[Len(stream) + 1] = a
            /\ Len(stream) + 1 > cursor'
        BY <1>0, <2>1, <2>2, <3>1
      <3>3. QED
        BY <3>2 DEF Covered, EntriesOf
    <2>4. RowLive(n)'
      BY <2>1, <2>2, <2>3 DEF RowLive
    <2>5. \A m \in DOMAIN outbox : \A v \in Relays :
            m # n /\ m \in relay'[v].added => m \in relay[v].added
      BY <1>0, <2>1 DEF RelayTypeOK
    <2>6. \A m \in DOMAIN outbox : m # n => RowLive(m)'
      BY <1>0, <1>2, <2>1, <2>5, RowKept
    <2>7. QED
      BY <1>3, <2>1, <2>4, <2>6
  <1>6. ASSUME NEW w \in Relays, CommitBatch(w)
        PROVE  Recoverable'
    <2>1. /\ DOMAIN outbox' = DOMAIN outbox
          /\ \A m \in DOMAIN outbox :
               /\ outbox'[m].action = outbox[m].action
               /\ m \in relay[w].added \/ outbox'[m].published = outbox[m].published
      BY <1>0, <1>6, Published
    <2>2. \A v \in Relays : relay'[v].added \subseteq relay[v].added
      BY <1>0, <1>6 DEF CommitBatch, RelayTypeOK, IdleRelay
    <2>3. \A m \in DOMAIN outbox : RowLive(m)'
      BY <1>0, <1>2, <2>1, <2>2, RowKept
    <2>4. QED
      BY <1>3, <2>1, <2>3
  <1>7. ASSUME NEW w \in Relays, RelayFails(w)
        PROVE  Recoverable'
    <2>1. outbox' = outbox /\ \A v \in Relays : relay'[v].added \subseteq relay[v].added
      BY <1>0, <1>7 DEF RelayFails, RelayTypeOK, IdleRelay
    <2>2. \A m \in DOMAIN outbox : RowLive(m)'
      BY <1>0, <1>2, <2>1, RowKept
    <2>3. QED
      BY <1>3, <2>1, <2>2
  <1>8. QED
    BY <1>4, <1>5, <1>6, <1>7 DEF RelayNext, RelayStep

\* Connectors acknowledge only entries whose action is done with.
LEMMA ConnectorRecoverable ==
  ASSUME TypeOK, References, Consumers, Recoverable, ConnectorNext,
         UNCHANGED <<switchVars, serviceVars, relay>>
  PROVE  Recoverable'
  <1>0. /\ StoreTypeOK /\ Grows
        /\ outbox' = outbox /\ stream' = stream /\ relay' = relay
    BY ConnectorGrows
    DEF TypeOK, ConnectorNext, ConnectorStep, Send, ReadGroup, LoadAction, DriveToRunning,
        DriveRefused, SendSucceeds, SendTransient, SendFails, SendRaises, Resolve,
        ResolveRefused, Acknowledge, EntryFails, ConnectorCrashes, storeVars
  <1>1. ASSUME NEW a \in ActionIds, status'[a] = "READY"
        PROVE  status[a] = "READY"
    <2>1. ASSUME NEW c \in Connectors, DriveToRunning(c)
          PROVE  status[a] = "READY"
      <3>1. Current(c) \in ActionIds
        BY <2>1, EntryInHand DEF DriveToRunning, At
      <3>2. QED
        BY <1>0, <1>1, <2>1, <3>1, Moved DEF DriveToRunning
    <2>2. ASSUME NEW c \in Connectors, Resolve(c)
          PROVE  status[a] = "READY"
      <3>1. Current(c) \in ActionIds /\ conn[c].target \in {"SUCCEEDED", "FAILED"}
        BY <2>2, EntryInHand DEF Resolve, At, Consumers, ConsumerOK
      <3>2. QED
        BY <1>0, <1>1, <2>2, <3>1, Moved DEF Resolve
    <2>3. QED
      BY <1>1, <2>1, <2>2
      DEF ConnectorNext, ConnectorStep, Send, ReadGroup, LoadAction, DriveRefused, SendSucceeds,
          SendTransient, SendFails, SendRaises, ResolveRefused, Acknowledge, EntryFails,
          ConnectorCrashes, storeVars
  <1>2. ASSUME \A a \in ActionIds : NeedsConnector(a)' /\ Covered(a) => Covered(a)'
        PROVE  Recoverable'
    <2>1. \A m \in DOMAIN outbox : RowLive(m)'
      BY <1>0, <1>2, RowKept
    <2>2. \A a \in ActionIds : status'[a] = "READY" => RowsOf(a)' # {}
      BY <1>0, <1>1, ReadyKeepsRow
    <2>3. QED
      BY <1>0, <2>1, <2>2 DEF Recoverable
  \* An entry that is read becomes pending.
  <1>3. ASSUME NEW c \in Connectors, ReadGroup(c)
        PROVE  Recoverable'
    <2>1. cursor \in Nat /\ cursor' \in Nat /\ pel' = pel \cup (cursor + 1 .. cursor')
      BY <1>3, Reading DEF TypeOK, ConnectorTypeOK
    <2>2. stream \in Seq(ActionIds)
      BY <1>0 DEF StoreTypeOK
    <2>3. ASSUME NEW i \in DOMAIN stream, i > cursor \/ i \in pel
          PROVE  i > cursor' \/ i \in pel'
      BY <2>1, <2>2, <2>3
    <2>4. QED
      BY <1>0, <1>2, <2>3 DEF Covered, EntriesOf
  \* Only entries whose action does not wait are acknowledged.
  <1>4. ASSUME NEW c \in Connectors, Acknowledge(c)
        PROVE  Recoverable'
    <2>1. /\ cursor' = cursor /\ pel' = pel \ {Entry(c)} /\ UNCHANGED <<status, row>>
          /\ ~NeedsConnector(Current(c))
      BY <1>4 DEF Acknowledge, At, Consumers, ConsumerOK, storeVars
    <2>2. ASSUME NEW a \in ActionIds, NeedsConnector(a)', Covered(a)
          PROVE  Covered(a)'
      <3>1. a # stream[Entry(c)]
        BY <2>1, <2>2 DEF NeedsConnector, Current
      <3>2. QED
        BY <1>0, <2>1, <2>2, <3>1 DEF Covered, EntriesOf
    <2>3. QED
      BY <1>2, <2>2
  <1>5. ASSUME UNCHANGED <<cursor, pel>>
        PROVE  Recoverable'
    BY <1>0, <1>2, <1>5 DEF Covered, EntriesOf
  <1>6. QED
    BY <1>3, <1>4, <1>5
    DEF ConnectorNext, ConnectorStep, Send, LoadAction, DriveToRunning, DriveRefused,
        SendSucceeds, SendTransient, SendFails, SendRaises, Resolve, ResolveRefused, EntryFails,
        ConnectorCrashes

-----------------------------------------------------------------------------
(* The inductive invariant and what follows from it.                       *)

\* The initial state has the invariant: the stores are empty and all are idle.
LEMMA Initially ==
  ASSUME Init
  PROVE  PipelineInvariant
  <1> USE DEF Init, StoreInit, SwitchInit, ServiceInit, RelayInit, ConnectorInit
  <1>1. TypeOK
    <2>1. IdleConn \in ConnState
      BY DEF IdleConn, ConnState
    <2>2. StoreTypeOK
      BY StoreAssumption DEF StoreTypeOK
    <2>3. SwitchTypeOK /\ RelayTypeOK
      BY DEF SwitchTypeOK, RelayTypeOK, IdleRelay
    <2>4. ServiceTypeOK
      BY DEF ServiceTypeOK, Request
    <2>5. ConnectorTypeOK
      BY <2>1 DEF ConnectorTypeOK
    <2>6. QED
      BY <2>2, <2>3, <2>4, <2>5 DEF TypeOK
  <1>2. References
    BY DEF References, RequestReferences, OutboxReferences, StreamReferences, CommittedStatus,
           Exists, IdleRequest, IdleRelay
  <1>3. \A c \in Connectors : conn[c].pc = "idle" /\ DOMAIN conn[c].batch = {}
    BY DEF IdleConn
  <1>4. Consumers
    BY <1>3 DEF Consumers, ConsumerOK
  <1>5. Authorised
    BY DEF Authorised, RiskyActionsAreApproved, Exists, IdleRequest
  <1>6. Execution
    BY <1>3 DEF Execution, OneExecutor, Executing, ActionExecution, ConsumerExecution
  <1>7. Recoverable
    BY DEF Recoverable
  <1>8. QED
    BY <1>1, <1>2, <1>4, <1>5, <1>6, <1>7 DEF PipelineInvariant

\* Nothing of the invariant but its type part speaks of the kill switch.
LEMMA SwitchStep ==
  ASSUME PipelineInvariant, TypeOK', UNCHANGED <<storeVars, serviceVars, relay, connectorVars>>
  PROVE  PipelineInvariant'
  <1>1. /\ UNCHANGED <<status, row, approval, outbox, stream, req, relay>>
        /\ UNCHANGED <<conn, cursor, pel, delivered>>
    BY DEF storeVars, serviceVars, connectorVars
  <1>2. \A c \in Connectors : Current(c)' = Current(c)
    BY <1>1 DEF Current, Entry
  <1>3. References'
    BY <1>1
    DEF PipelineInvariant, References, RequestReferences, OutboxReferences, StreamReferences,
        Announced, Exists, ActsFor
  <1>4. Consumers'
    BY <1>1, <1>2 DEF PipelineInvariant, Consumers, ConsumerOK, NeedsConnector
  <1>5. Authorised'
    BY <1>1 DEF PipelineInvariant, Authorised, RiskyActionsAreApproved, Exists
  <1>6. Execution'
    BY <1>1, <1>2
    DEF PipelineInvariant, Execution, OneExecutor, Executing, ActionExecution,
        ConsumerExecution, NotStarted
  <1>7. Recoverable'
    BY <1>1
    DEF PipelineInvariant, Recoverable, RowLive, RowsOf, Covered, EntriesOf, NeedsConnector
  <1>8. QED
    BY <1>3, <1>4, <1>5, <1>6, <1>7 DEF PipelineInvariant

\* Each step of the pipeline preserves the invariant.
LEMMA Inductive ==
  ASSUME PipelineInvariant, [Next]_vars
  PROVE  PipelineInvariant'
  <1>0. TypeOK /\ References /\ Consumers /\ Authorised /\ Execution /\ Recoverable
    BY DEF PipelineInvariant
  <1>1. CASE ServiceNext /\ UNCHANGED <<switchVars, relay, connectorVars>>
    BY <1>0, <1>1, ServiceTypes, ServiceReferences, ServiceConsumers, ServiceAuthorised,
       ServiceExecution, ServiceRecoverable
    DEF PipelineInvariant
  <1>2. CASE SwitchNext /\ UNCHANGED <<storeVars, serviceVars, relay, connectorVars>>
    BY <1>0, <1>2, SwitchTypes, SwitchStep
  <1>3. CASE RelayNext /\ UNCHANGED <<switchVars, serviceVars, connectorVars>>
    <2>1. Authorised'
      <3>1. UNCHANGED <<status, row, approval, req>>
        BY <1>3
        DEF serviceVars, RelayNext, RelayStep, SelectBatch, AddToStream, CommitBatch,
            RelayFails, storeVars
      <3>2. QED
        BY <1>0, <3>1 DEF Authorised, RiskyActionsAreApproved, Exists
    <2>2. QED
      BY <1>0, <1>3, <2>1, RelayTypes, RelayReferences, RelayConsumers, RelayExecution,
         RelayRecoverable
      DEF PipelineInvariant
  <1>4. CASE ConnectorNext /\ UNCHANGED <<switchVars, serviceVars, relay>>
    BY <1>0, <1>4, ConnectorTypes, ConnectorReferences, ConnectorConsumers,
       ConnectorAuthorised, ConnectorExecution, ConnectorRecoverable
    DEF PipelineInvariant
  <1>5. CASE UNCHANGED vars
    <2>1. UNCHANGED <<storeVars, switchVars, serviceVars, relay, connectorVars>>
      BY <1>5 DEF vars
    <2>2. TypeOK'
      BY <1>0, <2>1
      DEF TypeOK, StoreTypeOK, storeVars, SwitchTypeOK, switchVars, ServiceTypeOK, serviceVars,
          RelayTypeOK, ConnectorTypeOK, connectorVars
    <2>3. QED
      BY <2>1, <2>2, SwitchStep
  <1>6. QED
    BY <1>1, <1>2, <1>3, <1>4, <1>5 DEF Next

\* Every reachable state of the pipeline satisfies the inductive invariant,
\* for any number of actions, members, requests, workers and connectors.
THEOREM PipelineInvariantHolds == Spec => []PipelineInvariant
  <1>1. Init => PipelineInvariant
    BY Initially
  <1>2. PipelineInvariant /\ [Next]_vars => PipelineInvariant'
    BY Inductive
  <1>3. QED
    BY <1>1, <1>2, PTL DEF Spec

\* Type correctness of the pipeline: every row, queue entry, request, worker
\* and consumer keeps its type.
THEOREM TypeCorrect == Spec => []TypeOK
  <1>1. PipelineInvariant => TypeOK
    BY DEF PipelineInvariant
  <1>2. QED
    BY <1>1, PipelineInvariantHolds, PTL

\* The chat receives an action's message at most once, whatever is published
\* twice, retried or ambiguous, and wherever processes crash.
THEOREM DeliveredAtMostOnce == Spec => []AtMostOneDelivery
  <1>1. PipelineInvariant => AtMostOneDelivery
    BY DEF PipelineInvariant, Execution, ActionExecution, AtMostOneDelivery
  <1>2. QED
    BY <1>1, PipelineInvariantHolds, PTL

\* No two consumers execute one action.
THEOREM ExecutedByOne == Spec => []OneExecutor
  <1>1. PipelineInvariant => OneExecutor
    BY DEF PipelineInvariant, Execution
  <1>2. QED
    BY <1>1, PipelineInvariantHolds, PTL

\* A cancellation that was accepted holds: nothing was and nothing is sent.
THEOREM CancellationHolds == Spec => []CancelledIsNeverSent
  <1>1. ASSUME PipelineInvariant
        PROVE  CancelledIsNeverSent
    <2>1. ASSUME NEW a \in ActionIds, status[a] = "CANCELLED"
          PROVE  delivered[a] = 0 /\ \A c \in Connectors : ~Executing(c, a)
      BY <1>1, <2>1
      DEF PipelineInvariant, Execution, ActionExecution, ConsumerExecution, NotStarted, Executing
    <2>2. QED
      BY <2>1 DEF CancelledIsNeverSent
  <1>2. QED
    BY <1>1, PipelineInvariantHolds, PTL

\* An action above the auto-approved levels passes only with an approval of
\* its payload by its actor or an admin.
THEOREM ApprovalIsEnforced == Spec => []RiskyActionsAreApproved
  <1>1. PipelineInvariant => RiskyActionsAreApproved
    BY DEF PipelineInvariant, Authorised
  <1>2. QED
    BY <1>1, PipelineInvariantHolds, PTL

\* No message goes out without an approval, whatever risk its proposer
\* declared.
THEOREM NothingIsSentUnapproved == Spec => []MessagesAreApproved
  <1>1. ASSUME PipelineInvariant
        PROVE  MessagesAreApproved
    <2>1. ASSUME NEW a \in ActionIds, delivered[a] > 0
          PROVE  approval[a] # None /\ approval[a].status = "APPROVED"
      <3>1. delivered[a] = 1 /\ ~NotStarted(a) /\ row[a].tool = TELEGRAM_TOOL_NAME
        BY <1>1, <2>1 DEF PipelineInvariant, Execution, ActionExecution
      <3>2. Exists(a) /\ status[a] # "AWAITING_APPROVAL"
        BY <3>1 DEF NotStarted, Exists
      <3>3. row[a].risk \notin AUTO_APPROVED_RISK_LEVELS
        BY <1>1, <3>1, <3>2 DEF PipelineInvariant, Authorised, AUTO_APPROVED_RISK_LEVELS
      <3>4. QED
        BY <1>1, <3>2, <3>3 DEF PipelineInvariant, Authorised, RiskyActionsAreApproved
    <2>2. QED
      BY <2>1 DEF MessagesAreApproved
  <1>2. QED
    BY <1>1, PipelineInvariantHolds, PTL

\* A READY action is never forgotten by the outbox, the stream and the
\* pending entries together, whatever crashed.
THEOREM ReadyStaysRecoverable == Spec => []ReadyIsRecoverable
  <1>1. ASSUME PipelineInvariant
        PROVE  ReadyIsRecoverable
    <2>1. ASSUME NEW a \in ActionIds, NeedsConnector(a)
          PROVE  \/ \E m \in RowsOf(a) : ~outbox[m].published
                 \/ \E i \in EntriesOf(a) : i > cursor \/ i \in pel
      <3>1. PICK m \in DOMAIN outbox : outbox[m].action = a
        BY <1>1, <2>1 DEF PipelineInvariant, Recoverable, RowsOf, NeedsConnector
      <3>2. ~outbox[m].published \/ Covered(a)
        BY <1>1, <2>1, <3>1 DEF PipelineInvariant, Recoverable, RowLive
      <3>3. QED
        BY <3>1, <3>2 DEF Covered, RowsOf
    <2>2. QED
      BY <2>1 DEF ReadyIsRecoverable, NeedsConnector
  <1>2. QED
    BY <1>1, PipelineInvariantHolds, PTL

-----------------------------------------------------------------------------
(* The lifecycle: each step of the pipeline is a step of the abstract      *)
(* specification, or leaves an action's status and deliveries alone.       *)

LifecycleStep == [Lifecycle!LifecycleNext]_(Lifecycle!lifecycleVars)

\* An allowed transition is one of the lifecycle's.
LEMMA MovedInLifecycle ==
  ASSUME StoreTypeOK, References, NEW a \in ActionIds,
         NEW target \in {"READY", "RUNNING", "CANCELLED", "COMPENSATING",
                         "COMPENSATED", "SUCCEEDED", "FAILED"},
         NEW by, NEW receipt, apply_transition(a, target, by, receipt),
         delivered' = delivered, target = "SUCCEEDED" => delivered[a] = 1
  PROVE  LifecycleStep
  <1>1. status' = [status EXCEPT ![a] = target] /\ target \in ALLOWED_TRANSITIONS(status[a])
    BY Moved
  <1>2. status[a] \in CommittedStatus
    BY DEF References
  <1>3. /\ target = "READY" => status[a] = "AWAITING_APPROVAL"
        /\ target = "RUNNING" => status[a] = "READY"
        /\ target = "CANCELLED" => status[a] = "READY"
        /\ target = "SUCCEEDED" => status[a] = "RUNNING"
        /\ target = "COMPENSATING" => status[a] = "RUNNING"
        /\ target = "COMPENSATED" => status[a] = "COMPENSATING"
        /\ target = "FAILED" => status[a] \in {"RUNNING", "COMPENSATING"}
    BY <1>1, <1>2, Transitions
  <1>4. \/ Lifecycle!Approve(a) \/ Lifecycle!Cancel(a) \/ Lifecycle!Start(a)
        \/ Lifecycle!Succeed(a) \/ Lifecycle!Fail(a) \/ Lifecycle!Reverse(a)
    BY <1>1, <1>3
    DEF Lifecycle!Approve, Lifecycle!Cancel, Lifecycle!Start, Lifecycle!Succeed,
        Lifecycle!Fail, Lifecycle!Reverse, Lifecycle!Move
  <1>5. QED
    BY <1>4 DEF LifecycleStep, Lifecycle!LifecycleNext

\* A step of a request is a step of the lifecycle or leaves it alone.
LEMMA ServiceImplements ==
  ASSUME PipelineInvariant, ServiceNext, UNCHANGED connectorVars
  PROVE  LifecycleStep
  <1>0. StoreTypeOK /\ ServiceTypeOK /\ TypeOK /\ References /\ delivered' = delivered
    BY DEF PipelineInvariant, TypeOK, connectorVars
  <1>1. ASSUME NEW r \in Requests, CreateAction(r)
        PROVE  LifecycleStep
    <2>1. PICK a \in ActionIds : Created(req[r].proposal, a)
      BY <1>1 DEF CreateAction
    <2>2. Lifecycle!Submit(a)
      BY <1>0, <2>1 DEF Created, Exists, Lifecycle!Submit, Lifecycle!Move
    <2>3. QED
      BY <2>2 DEF LifecycleStep, Lifecycle!LifecycleNext
  <1>2. ASSUME NEW r \in Requests, ConsumeApproval(r)
        PROVE  LifecycleStep
    <2>1. req[r].action \in ActionIds
      BY <1>0, <1>2, Consumed
    <2>2. QED
      BY <1>0, <1>2, <2>1, MovedInLifecycle DEF ConsumeApproval
  <1>3. ASSUME NEW r \in Requests, CancelAction(r)
        PROVE  LifecycleStep
    <2>1. req[r].action \in ActionIds /\ req[r].target \in {"CANCELLED", "COMPENSATING"}
      BY <1>0, <1>3, RequestFields DEF CancelAction, ServiceTypeOK
    <2>2. QED
      BY <1>0, <1>3, <2>1, MovedInLifecycle DEF CancelAction
  <1>4. ASSUME NEW user \in Admins, NEW a \in ActionIds,
               NEW outcome \in {"COMPENSATED", "FAILED"},
               CompleteCompensation(user, a, outcome)
        PROVE  LifecycleStep
    BY <1>0, <1>4, MovedInLifecycle DEF CompleteCompensation
  <1>5. ASSUME status' = status
        PROVE  LifecycleStep
    BY <1>0, <1>5 DEF LifecycleStep, Lifecycle!lifecycleVars
  <1>6. QED
    BY <1>1, <1>2, <1>3, <1>4, <1>5
    DEF ServiceNext, BeginPropose, CheckWorkspace, RefuseProposal, ReplayAction, BeginConsume,
        BeginCancel, RefuseConsume,
        LoseRace, AbortRequest, ApprovalLapses, storeVars

\* A step of a connector is a step of the lifecycle or leaves it alone.
LEMMA ConnectorImplements ==
  ASSUME PipelineInvariant, ConnectorNext
  PROVE  LifecycleStep
  <1>0. /\ StoreTypeOK /\ ConnectorTypeOK /\ TypeOK /\ References /\ Consumers /\ Execution
    BY DEF PipelineInvariant, TypeOK
  <1>1. ASSUME NEW c \in Connectors, DriveToRunning(c)
        PROVE  LifecycleStep
    <2>1. Current(c) \in ActionIds
      BY <1>0, <1>1, EntryInHand DEF DriveToRunning, At
    <2>2. QED
      BY <1>0, <1>1, <2>1, MovedInLifecycle DEF DriveToRunning
  <1>2. ASSUME NEW c \in Connectors, Resolve(c)
        PROVE  LifecycleStep
    <2>1. /\ Current(c) \in ActionIds /\ conn[c].target \in {"SUCCEEDED", "FAILED"}
          /\ conn[c].target = "SUCCEEDED" => delivered[Current(c)] = 1
      BY <1>0, <1>2, EntryInHand
      DEF Resolve, At, Consumers, ConsumerOK, Execution, ConsumerExecution
    <2>2. QED
      BY <1>0, <1>2, <2>1, MovedInLifecycle DEF Resolve
  <1>3. ASSUME NEW c \in Connectors, At(c, "send"), Reaches(Current(c)), status' = status
        PROVE  LifecycleStep
    <2>1. PICK a \in ActionIds : a = Current(c) /\ conn[c].pc = "send"
      BY <1>0, <1>3, EntryInHand DEF At
    <2>2. delivered[a] = 0 /\ ~NotStarted(a) /\ status[a] # "SUCCEEDED"
      BY <1>0, <2>1 DEF Execution, ActionExecution, ConsumerExecution
    <2>3. status[a] \in {"RUNNING", "COMPENSATING", "COMPENSATED", "FAILED"}
      BY <1>0, <2>2 DEF References, CommittedStatus, NotStarted
    <2>4. delivered' = [delivered EXCEPT ![a] = 1]
      BY <1>0, <1>3, <2>1, <2>2 DEF Reaches, ConnectorTypeOK
    <2>5. Lifecycle!Deliver(a)
      BY <1>3, <2>2, <2>3, <2>4 DEF Lifecycle!Deliver
    <2>6. QED
      BY <2>5 DEF LifecycleStep, Lifecycle!LifecycleNext
  <1>4. ASSUME UNCHANGED <<status, delivered>>
        PROVE  LifecycleStep
    BY <1>4 DEF LifecycleStep, Lifecycle!lifecycleVars
  <1>5. ASSUME NEW c \in Connectors, Send(c)
        PROVE  LifecycleStep
    BY <1>3, <1>4, <1>5
    DEF Send, SendSucceeds, SendTransient, SendFails, SendRaises, storeVars
  <1>6. QED
    BY <1>1, <1>2, <1>4, <1>5
    DEF ConnectorNext, ConnectorStep, ReadGroup, LoadAction, DriveRefused, ResolveRefused,
        Acknowledge, EntryFails, ConnectorCrashes, storeVars

\* The pipeline implements the lifecycle: an action is authorised, started,
\* delivered and settled at most once, in that order.
THEOREM LifecycleIsImplemented == Spec => ImplementsLifecycle
  <1>1. Init => Lifecycle!LifecycleInit
    BY DEF Init, StoreInit, ConnectorInit, Lifecycle!LifecycleInit
  <1>2. PipelineInvariant /\ [Next]_vars => [Lifecycle!LifecycleNext]_(Lifecycle!lifecycleVars)
    <2> SUFFICES ASSUME PipelineInvariant, [Next]_vars
                 PROVE  LifecycleStep
      BY DEF LifecycleStep
    <2>1. CASE ServiceNext /\ UNCHANGED <<switchVars, relay, connectorVars>>
      BY <2>1, ServiceImplements
    <2>2. CASE ConnectorNext
      BY <2>2, ConnectorImplements
    <2>3. CASE UNCHANGED <<status, delivered>>
      BY <2>3 DEF LifecycleStep, Lifecycle!lifecycleVars
    <2>4. QED
      BY <2>1, <2>2, <2>3
      DEF Next, vars, storeVars, connectorVars, RelayNext, RelayStep, SelectBatch, AddToStream,
          CommitBatch, RelayFails
  <1>3. QED
    BY <1>1, <1>2, PipelineInvariantHolds, PTL DEF Spec, ImplementsLifecycle, Lifecycle!LifecycleSpec

-----------------------------------------------------------------------------
(* The kill switch inside the pipeline.                                    *)

\* No other part of the pipeline touches the switch's state.
LEMMA PipelineRunsTheSwitch == Spec => SwitchSpec
  <1>1. Init => SwitchInit
    BY DEF Init
  <1>2. [Next]_vars => [SwitchNext]_switchVars
    BY DEF Next, vars
  <1>3. QED
    BY <1>1, <1>2, PTL DEF Spec, SwitchSpec

\* A switch that is off has never been engaged or is audited as disengaged,
\* whatever engagements and disengagements race, late ones included.
THEOREM TrailTellsOfDisengagement == Spec => []OffIsAudited
  BY PipelineRunsTheSwitch, SwitchInvariantHolds, PTL

\* Concurrent engagements of one switch make one incident: one audited event
\* and one round of alerts.
THEOREM IncidentsAreCounted == Spec => []OneIncidentPerEngagement
  BY PipelineRunsTheSwitch, SwitchInvariantHolds, PTL

-----------------------------------------------------------------------------
(* What an action's audit events, notifications, outbox rows and nonce     *)
(* holders say of it.  For these, a step of the pipeline creates an action, *)
(* moves one along the transition table, or changes none.                  *)

Targets == {"READY", "RUNNING", "CANCELLED", "COMPENSATING", "COMPENSATED", "SUCCEEDED", "FAILED"}

Submission == \E p \in Proposal, a \in ActionIds : Created(p, a)

Transition ==
  \E a \in ActionIds, target \in Targets, by \in Users \cup {SYSTEM_CONNECTOR},
     receipt \in BOOLEAN :
    /\ apply_transition(a, target, by, receipt)
    /\ IF target = "READY" THEN enqueue_outbox_message(a) ELSE outbox' = outbox
    /\ UNCHANGED <<row, nonceHolders>>

\* Nothing but the publication of rows, and a replay that hands out a nonce.
Rest ==
  /\ UNCHANGED <<status, row, audit, notices>>
  /\ DOMAIN outbox' = DOMAIN outbox
  /\ \A m \in DOMAIN outbox : outbox'[m].action = outbox[m].action
  /\ \/ nonceHolders' = nonceHolders
     \/ \E a \in ActionIds, user \in Users :
          /\ Exists(a) /\ row[a].actor = user
          /\ nonceHolders' = [nonceHolders EXCEPT ![a] = @ \cup {user}]

\* Each step of the pipeline is of one of the three kinds.
LEMMA KindsOfStep ==
  ASSUME PipelineInvariant, [Next]_vars
  PROVE  Submission \/ Transition \/ Rest
  <1> USE StoreAssumption
  <1>0. TypeOK /\ StoreTypeOK /\ ServiceTypeOK /\ References /\ Consumers
    BY DEF PipelineInvariant, TypeOK
  <1>a. ASSUME UNCHANGED <<storeVars, nonceHolders>> PROVE Rest
    BY <1>a DEF Rest, storeVars
  <1>b. ASSUME UNCHANGED <<status, row, audit, notices, outbox, nonceHolders>> PROVE Rest
    BY <1>b DEF Rest
  <1>1. ASSUME NEW r \in Requests, CreateAction(r)
        PROVE  Submission
    BY <1>0, <1>1, RequestFields DEF CreateAction, ServiceTypeOK, Submission
  <1>2. ASSUME NEW r \in Requests, ConsumeApproval(r)
        PROVE  Transition
    <2>1. /\ req[r].action \in ActionIds /\ req[r].user \in Users
      BY <1>0, <1>2, Consumed
    <2>2. /\ apply_transition(req[r].action, "READY", req[r].user, FALSE)
          /\ enqueue_outbox_message(req[r].action)
          /\ UNCHANGED <<row, nonceHolders>>
      BY <1>2 DEF ConsumeApproval
    <2>3. QED
      BY <2>1, <2>2 DEF Transition, Targets
  <1>3. ASSUME NEW r \in Requests, CancelAction(r)
        PROVE  Transition
    <2>1. /\ req[r].action \in ActionIds /\ req[r].user \in Users
          /\ req[r].target \in {"CANCELLED", "COMPENSATING"}
      BY <1>0, <1>3, RequestFields DEF CancelAction, ServiceTypeOK
    <2>2. /\ apply_transition(req[r].action, req[r].target, req[r].user, FALSE)
          /\ UNCHANGED <<row, nonceHolders, outbox>>
      BY <1>3 DEF CancelAction
    <2>3. QED
      BY <2>1, <2>2 DEF Transition, Targets
  <1>4. ASSUME NEW user \in Admins, NEW a \in ActionIds,
               NEW outcome \in {"COMPENSATED", "FAILED"},
               CompleteCompensation(user, a, outcome)
        PROVE  Transition
    <2>1. /\ apply_transition(a, outcome, user, FALSE)
          /\ UNCHANGED <<row, nonceHolders, outbox>>
      BY <1>4 DEF CompleteCompensation
    <2>2. QED
      BY <2>1 DEF Transition, Targets
  <1>5. ASSUME NEW r \in Requests, ReplayAction(r)
        PROVE  Rest
    <2>1. req[r].proposal \in Proposal
      BY <1>0, <1>5, RequestFields DEF ReplayAction, ServiceTypeOK
    <2>2. PICK a \in KeyHolder(req[r].proposal.key) :
            nonceHolders' =
              IF resolve_replay_approval(a, req[r].proposal.actor)
              THEN [nonceHolders EXCEPT ![a] = @ \cup {req[r].proposal.actor}]
              ELSE nonceHolders
      BY <1>5 DEF ReplayAction
    <2>3. a \in ActionIds /\ Exists(a) /\ req[r].proposal.actor \in Users
      BY <2>1, <2>2 DEF KeyHolder, Proposal
    <2>4. \/ nonceHolders' = nonceHolders
          \/ \E b \in ActionIds, user \in Users :
               /\ Exists(b) /\ row[b].actor = user
               /\ nonceHolders' = [nonceHolders EXCEPT ![b] = @ \cup {user}]
      BY <2>2, <2>3 DEF resolve_replay_approval
    <2>5. UNCHANGED <<status, row, audit, notices, outbox>>
      BY <1>5 DEF ReplayAction, storeVars
    <2>6. QED
      BY <2>4, <2>5 DEF Rest
  <1>6. ASSUME NEW w \in Relays, RelayStep(w) \/ RelayFails(w), UNCHANGED serviceVars
        PROVE  Rest
    <2>1. CASE CommitBatch(w)
      BY <1>0, <1>6, <2>1, Published DEF Rest, CommitBatch, serviceVars
    <2>2. CASE SelectBatch(w)
      BY <1>6, <1>a, <2>2 DEF SelectBatch, serviceVars
    <2>3. CASE AddToStream(w) \/ RelayFails(w)
      BY <1>6, <1>b, <2>3 DEF AddToStream, RelayFails, serviceVars
    <2>4. QED
      BY <1>6, <2>1, <2>2, <2>3 DEF RelayStep
  <1>7. ASSUME NEW c \in Connectors, DriveToRunning(c), UNCHANGED serviceVars
        PROVE  Transition
    <2>1. Current(c) \in ActionIds
      BY <1>0, <1>7, EntryInHand DEF DriveToRunning, At
    <2>2. /\ apply_transition(Current(c), "RUNNING", SYSTEM_CONNECTOR, FALSE)
          /\ UNCHANGED <<row, nonceHolders, outbox>>
      BY <1>7 DEF DriveToRunning, serviceVars
    <2>3. QED
      BY <2>1, <2>2 DEF Transition, Targets
  <1>8. ASSUME NEW c \in Connectors, Resolve(c), UNCHANGED serviceVars
        PROVE  Transition
    <2>1. /\ Current(c) \in ActionIds /\ conn[c].target \in {"SUCCEEDED", "FAILED"}
      BY <1>0, <1>8, EntryInHand DEF Resolve, At, Consumers, ConsumerOK
    <2>2. /\ apply_transition(Current(c), conn[c].target, SYSTEM_CONNECTOR,
                              conn[c].target = "SUCCEEDED")
          /\ UNCHANGED <<row, nonceHolders, outbox>>
      BY <1>8 DEF Resolve, serviceVars
    <2>3. (conn[c].target = "SUCCEEDED") \in BOOLEAN
      OBVIOUS
    <2>4. QED
      BY <2>1, <2>2, <2>3 DEF Transition, Targets
  <1>9. CASE ServiceNext
    BY <1>9, <1>a, <1>b, <1>1, <1>2, <1>3, <1>4, <1>5
    DEF ServiceNext, BeginPropose, CheckWorkspace, RefuseProposal, BeginConsume, BeginCancel,
        RefuseConsume, LoseRace,
        AbortRequest, ApprovalLapses
  <1>10. CASE RelayNext /\ UNCHANGED serviceVars
    BY <1>6, <1>10 DEF RelayNext
  <1>11. CASE ConnectorNext /\ UNCHANGED serviceVars
    <2>1. ASSUME NEW c \in Connectors,
                 \/ ReadGroup(c) \/ LoadAction(c) \/ DriveRefused(c) \/ Send(c)
                 \/ ResolveRefused(c) \/ Acknowledge(c)
          PROVE  Rest
      BY <1>11, <2>1, <1>a
      DEF ReadGroup, LoadAction, DriveRefused, ResolveRefused, Acknowledge, Send, SendSucceeds,
          SendTransient, SendFails, SendRaises, serviceVars
    <2>2. ASSUME NEW c \in Connectors, EntryFails(c) \/ ConnectorCrashes(c)
          PROVE  Rest
      BY <1>11, <2>2, <1>b DEF EntryFails, ConnectorCrashes, serviceVars
    <2>3. QED
      BY <1>11, <1>7, <1>8, <2>1, <2>2 DEF ConnectorNext, ConnectorStep
  <1>12. QED
    BY <1>9, <1>10, <1>11, <1>a DEF Next, vars, serviceVars

\* What a submission writes, and that it leaves the other actions alone.
LEMMA Submitted ==
  ASSUME StoreTypeOK, NEW p, NEW a \in ActionIds, Created(p, a)
  PROVE  /\ status[a] = "ABSENT"
         /\ status'[a] = Routed(p) /\ Routed(p) \in {"READY", "AWAITING_APPROVAL"}
         /\ row'[a] = p
         /\ audit'[a] = <<Proposed(p), Validated(p, "DRAFT", "VALIDATING"),
                          Validated(p, "VALIDATING", Routed(p))>>
         /\ notices'[a]["FAILED_ACTION"] = notices[a]["FAILED_ACTION"]
         /\ \A b \in ActionIds : b # a =>
              /\ status'[b] = status[b] /\ row'[b] = row[b] /\ audit'[b] = audit[b]
              /\ notices'[b] = notices[b]
  <1>1. Routed(p) \in {"READY", "AWAITING_APPROVAL"}
    BY DEF Routed
  <1>2. notices' = create_notification(a, p.actor, Routed(p))
    BY DEF Created
  <1>3. /\ notices'[a]["FAILED_ACTION"] = notices[a]["FAILED_ACTION"]
        /\ \A b \in ActionIds : b # a => notices'[b] = notices[b]
    BY <1>1, <1>2 DEF create_notification, StoreTypeOK, NotificationType
  <1>4. QED
    BY <1>1, <1>3 DEF Created, StoreTypeOK, Exists

\* What a transition writes, and that it leaves the other actions alone.
LEMMA Transitioned ==
  ASSUME StoreTypeOK, References, NEW a \in ActionIds, NEW target \in Targets, NEW by,
         NEW receipt, apply_transition(a, target, by, receipt)
  PROVE  /\ status'[a] = target /\ Exists(a)
         /\ target \in ALLOWED_TRANSITIONS(status[a])
         /\ status[a] # "FAILED"
         /\ target = "READY" <=> ~Announced(a)
         /\ audit'[a] = Append(audit[a], [from |-> status[a], to |-> target,
                                          by |-> by, receipt |-> receipt])
         /\ notices'[a]["FAILED_ACTION"] =
              IF target = "FAILED" /\ <<row[a].actor, "FAILED_ACTION">> \notin Muted
              THEN notices[a]["FAILED_ACTION"] + 1 ELSE notices[a]["FAILED_ACTION"]
         /\ \A b \in ActionIds : b # a =>
              /\ status'[b] = status[b] /\ audit'[b] = audit[b] /\ notices'[b] = notices[b]
  <1>1. /\ status'[a] = target /\ Exists(a)
        /\ target \in ALLOWED_TRANSITIONS(status[a])
        /\ target = "READY" <=> ~Announced(a)
        /\ \A b \in ActionIds : b # a => status'[b] = status[b]
    BY Moved DEF Targets
  <1>2. status[a] # "FAILED"
    BY <1>1 DEF ALLOWED_TRANSITIONS, Targets
  <1>3. notices' = create_notification(a, row[a].actor, target)
    BY DEF apply_transition
  <1>4. /\ notices'[a]["FAILED_ACTION"] =
             IF target = "FAILED" /\ <<row[a].actor, "FAILED_ACTION">> \notin Muted
             THEN notices[a]["FAILED_ACTION"] + 1 ELSE notices[a]["FAILED_ACTION"]
        /\ \A b \in ActionIds : b # a => notices'[b] = notices[b]
    BY <1>3 DEF create_notification, StoreTypeOK, NotificationType, Targets
  <1>5. QED
    BY <1>1, <1>2, <1>4 DEF apply_transition, StoreTypeOK

\* One action's audit events are its history.
History(a) ==
  LET t == audit[a]
  IN  /\ status[a] = IF t = <<>> THEN "ABSENT" ELSE t[Len(t)].to
      /\ \A i \in 2 .. Len(t) :
           /\ t[i].from = t[i - 1].to
           /\ t[i].to \in ALLOWED_TRANSITIONS(t[i].from)

LEMMA HistoryKept ==
  ASSUME PipelineInvariant, AuditIsTheHistory, [Next]_vars
  PROVE  AuditIsTheHistory'
  <1>0. StoreTypeOK /\ References
    BY DEF PipelineInvariant, TypeOK
  <1>a. \A a \in ActionIds : History(a)
    BY DEF AuditIsTheHistory, History
  <1> SUFFICES \A a \in ActionIds : History(a)'
    BY DEF AuditIsTheHistory, History
  <1>b. ASSUME NEW a \in ActionIds, status'[a] = status[a], audit'[a] = audit[a]
        PROVE  History(a)'
    BY <1>a, <1>b DEF History
  <1>1. CASE Submission
    <2>1. PICK p \in Proposal, a \in ActionIds : Created(p, a)
      BY <1>1 DEF Submission
    <2>2. History(a)'
      <3> DEFINE e1 == Proposed(p)
                 e2 == Validated(p, "DRAFT", "VALIDATING")
                 e3 == Validated(p, "VALIDATING", Routed(p))
      <3>1. /\ e1.to = "DRAFT" /\ e2.from = "DRAFT" /\ e2.to = "VALIDATING"
            /\ e3.from = "VALIDATING" /\ e3.to = Routed(p)
        BY DEF Proposed, Validated
      <3>2. /\ e2.to \in ALLOWED_TRANSITIONS(e2.from)
            /\ e3.to \in ALLOWED_TRANSITIONS(e3.from)
        BY <3>1 DEF ALLOWED_TRANSITIONS, Routed
      <3>3. audit'[a] = <<e1, e2, e3>> /\ status'[a] = e3.to
        BY <1>0, <2>1, <3>1, Submitted
      <3> HIDE DEF e1, e2, e3
      <3>4. QED
        BY <3>1, <3>2, <3>3 DEF History
    <2>3. \A b \in ActionIds : b # a => status'[b] = status[b] /\ audit'[b] = audit[b]
      BY <1>0, <2>1, Submitted
    <2>4. QED
      BY <1>b, <2>2, <2>3
  <1>2. CASE Transition
    <2>1. PICK a \in ActionIds, target \in Targets, by \in Users \cup {SYSTEM_CONNECTOR},
               receipt \in BOOLEAN : apply_transition(a, target, by, receipt)
      BY <1>2 DEF Transition
    <2> DEFINE e == [from |-> status[a], to |-> target, by |-> by, receipt |-> receipt]
               t == audit[a]
    <2>2. /\ audit'[a] = Append(t, e) /\ status'[a] = target /\ Exists(a)
          /\ target \in ALLOWED_TRANSITIONS(status[a])
      BY <1>0, <2>1, Transitioned
    <2>3. e.from = status[a] /\ e.to = target
      OBVIOUS
    <2>4. t \in Seq(AuditEvent)
      BY <1>0 DEF StoreTypeOK
    <2> HIDE DEF e, t
    <2>5. /\ t # <<>> /\ status[a] = t[Len(t)].to
          /\ \A i \in 2 .. Len(t) :
               /\ t[i].from = t[i - 1].to
               /\ t[i].to \in ALLOWED_TRANSITIONS(t[i].from)
      BY <1>a, <2>2 DEF History, Exists, t
    <2>6. History(a)'
      <3>1. Append(t, e) # <<>> /\ Append(t, e)[Len(Append(t, e))] = e
        BY <2>4
      <3>2. ASSUME NEW i \in 2 .. Len(Append(t, e))
            PROVE  /\ Append(t, e)[i].from = Append(t, e)[i - 1].to
                   /\ Append(t, e)[i].to \in ALLOWED_TRANSITIONS(Append(t, e)[i].from)
        <4>1. CASE i = Len(t) + 1
          <5>1. Append(t, e)[i] = e /\ Append(t, e)[i - 1] = t[Len(t)]
            BY <2>4, <2>5, <4>1
          <5>2. QED
            BY <2>2, <2>3, <2>5, <5>1
        <4>2. CASE i \in 2 .. Len(t)
          <5>1. Append(t, e)[i] = t[i] /\ Append(t, e)[i - 1] = t[i - 1]
            BY <2>4, <4>2
          <5>2. QED
            BY <2>5, <4>2, <5>1
        <4>3. QED
          BY <2>4, <4>1, <4>2
      <3>3. QED
        BY <2>2, <2>3, <3>1, <3>2 DEF History
    <2>7. \A b \in ActionIds : b # a => status'[b] = status[b] /\ audit'[b] = audit[b]
      BY <1>0, <2>1, Transitioned
    <2>8. QED
      BY <1>b, <2>6, <2>7
  <1>3. CASE Rest
    BY <1>b, <1>3 DEF Rest
  <1>4. QED
    BY <1>1, <1>2, <1>3, KindsOfStep

\* The audit events of an action lead from its proposal to its status along
\* the edges of the transition table, whatever requests and consumers race.
THEOREM HistoryIsAudited == Spec => []AuditIsTheHistory
  <1>1. Init => AuditIsTheHistory
    BY DEF Init, StoreInit, AuditIsTheHistory
  <1>2. PipelineInvariant /\ AuditIsTheHistory /\ [Next]_vars => AuditIsTheHistory'
    BY HistoryKept
  <1>3. QED
    BY <1>1, <1>2, PipelineInvariantHolds, PTL DEF Spec

\* A failure is reported by the one transition that reaches FAILED.
LEMMA ReportsKept ==
  ASSUME PipelineInvariant, FailureIsReportedOnce, [Next]_vars
  PROVE  FailureIsReportedOnce'
  <1>0. StoreTypeOK /\ References
    BY DEF PipelineInvariant, TypeOK
  <1>1. CASE Submission
    <2>1. PICK p \in Proposal, a \in ActionIds : Created(p, a)
      BY <1>1 DEF Submission
    <2>2. /\ status[a] = "ABSENT" /\ status'[a] \in {"READY", "AWAITING_APPROVAL"}
          /\ notices'[a]["FAILED_ACTION"] = notices[a]["FAILED_ACTION"]
          /\ \A b \in ActionIds : b # a =>
               status'[b] = status[b] /\ row'[b] = row[b] /\ notices'[b] = notices[b]
      BY <1>0, <2>1, Submitted
    <2>3. notices[a]["FAILED_ACTION"] = 0
      BY <2>2 DEF FailureIsReportedOnce
    <2>4. QED
      BY <2>2, <2>3 DEF FailureIsReportedOnce
  <1>2. CASE Transition
    <2>1. PICK a \in ActionIds, target \in Targets, by \in Users \cup {SYSTEM_CONNECTOR},
               receipt \in BOOLEAN : apply_transition(a, target, by, receipt) /\ row' = row
      BY <1>2 DEF Transition
    <2>2. notices[a]["FAILED_ACTION"] = 0
      BY <1>0, <2>1, Transitioned DEF FailureIsReportedOnce
    <2>3. notices'[a]["FAILED_ACTION"] =
            IF status'[a] = "FAILED" /\ <<row'[a].actor, "FAILED_ACTION">> \notin Muted
            THEN 1 ELSE 0
      <3>1. /\ status'[a] = target
            /\ notices'[a]["FAILED_ACTION"] =
                 IF target = "FAILED" /\ <<row[a].actor, "FAILED_ACTION">> \notin Muted
                 THEN notices[a]["FAILED_ACTION"] + 1 ELSE notices[a]["FAILED_ACTION"]
        BY <1>0, <2>1, Transitioned
      <3>2. QED
        BY <2>1, <2>2, <3>1
    <2>4. \A b \in ActionIds : b # a =>
            status'[b] = status[b] /\ row'[b] = row[b] /\ notices'[b] = notices[b]
      BY <1>0, <2>1, Transitioned
    <2>5. QED
      BY <2>3, <2>4 DEF FailureIsReportedOnce
  <1>3. CASE Rest
    BY <1>3 DEF Rest, FailureIsReportedOnce
  <1>4. QED
    BY <1>1, <1>2, <1>3, KindsOfStep

\* The proposer who did not mute it is told of a failure exactly once,
\* whichever of the connectors and admins reported it.
THEOREM FailureReported == Spec => []FailureIsReportedOnce
  <1>1. Init => FailureIsReportedOnce
    BY DEF Init, StoreInit, FailureIsReportedOnce, NotificationType
  <1>2. PipelineInvariant /\ FailureIsReportedOnce /\ [Next]_vars => FailureIsReportedOnce'
    BY ReportsKept
  <1>3. QED
    BY <1>1, <1>2, PipelineInvariantHolds, PTL DEF Spec

\* The nonce is handed to the proposer when the approval is made, and by a
\* replay to the proposer again.
LEMMA NonceKept ==
  ASSUME PipelineInvariant, NonceStaysWithProposer, [Next]_vars
  PROVE  NonceStaysWithProposer'
  <1>0. StoreTypeOK /\ References /\ nonceHolders \in [ActionIds -> SUBSET Users]
    BY DEF PipelineInvariant, TypeOK, ServiceTypeOK
  <1>1. CASE Submission
    <2>1. PICK p \in Proposal, a \in ActionIds : Created(p, a)
      BY <1>1 DEF Submission
    <2>2. \/ nonceHolders' = nonceHolders
          \/ nonceHolders' = [nonceHolders EXCEPT ![a] = {p.actor}]
      BY <2>1 DEF Created
    <2>3. Exists(a)' /\ row'[a] = p /\ nonceHolders[a] = {}
      BY <1>0, <2>1, Submitted DEF NonceStaysWithProposer, Exists
    <2>4. QED
      BY <1>0, <2>1, <2>2, <2>3, Submitted DEF NonceStaysWithProposer, Exists
  <1>2. CASE Transition
    <2>1. PICK a \in ActionIds, target \in Targets, by \in Users \cup {SYSTEM_CONNECTOR},
               receipt \in BOOLEAN :
            apply_transition(a, target, by, receipt) /\ UNCHANGED <<row, nonceHolders>>
      BY <1>2 DEF Transition
    <2>2. QED
      BY <1>0, <2>1, Transitioned DEF NonceStaysWithProposer, Exists, Targets
  <1>3. CASE Rest
    BY <1>0, <1>3 DEF Rest, NonceStaysWithProposer, Exists
  <1>4. QED
    BY <1>1, <1>2, <1>3, KindsOfStep

\* No member but the proposer is ever shown the nonce of an approval.
THEOREM NonceIsConfined == Spec => []NonceStaysWithProposer
  <1>1. Init => NonceStaysWithProposer
    BY DEF Init, ServiceInit, NonceStaysWithProposer
  <1>2. PipelineInvariant /\ NonceStaysWithProposer /\ [Next]_vars => NonceStaysWithProposer'
    BY NonceKept
  <1>3. QED
    BY <1>1, <1>2, PipelineInvariantHolds, PTL DEF Spec

\* An action is announced, by its status and by its audit events alike, when
\* it has one row in the outbox; before that it has none.
AnnouncedByOneRow(a) ==
  /\ WasReady(a) <=> Announced(a)
  /\ Announced(a) => \E m \in DOMAIN outbox : RowsOf(a) = {m}
  /\ ~Announced(a) => RowsOf(a) = {}

\* The rows after an insert.
LEMMA RowInserted ==
  ASSUME StoreTypeOK, NEW a \in ActionIds, enqueue_outbox_message(a)
  PROVE  /\ Len(outbox) + 1 \in DOMAIN outbox'
         /\ DOMAIN outbox \subseteq DOMAIN outbox'
         /\ RowsOf(a)' = RowsOf(a) \cup {Len(outbox) + 1}
         /\ \A b \in ActionIds : b # a => RowsOf(b)' = RowsOf(b)
  <1>1. /\ DOMAIN outbox' = DOMAIN outbox \cup {Len(outbox) + 1}
        /\ Len(outbox) + 1 \notin DOMAIN outbox
        /\ \A m \in DOMAIN outbox : outbox'[m] = outbox[m]
        /\ outbox'[Len(outbox) + 1].action = a
    BY Enqueued DEF StoreTypeOK
  <1>2. QED
    BY <1>1 DEF RowsOf

\* An event more in an action's audit trail.
LEMMA EventAdded ==
  ASSUME StoreTypeOK, NEW a \in ActionIds, NEW e, audit'[a] = Append(audit[a], e)
  PROVE  WasReady(a)' <=> WasReady(a) \/ e.to = "READY"
  <1> DEFINE t == audit[a]
  <1>1. t \in Seq(AuditEvent)
    BY DEF StoreTypeOK
  <1>2. audit'[a] = Append(t, e)
    OBVIOUS
  <1> HIDE DEF t
  <1>3. /\ DOMAIN Append(t, e) = DOMAIN t \cup {Len(t) + 1}
        /\ \A i \in DOMAIN t : Append(t, e)[i] = t[i]
        /\ Append(t, e)[Len(t) + 1] = e
    BY <1>1
  <1>4. WasReady(a) <=> \E i \in DOMAIN t : t[i].to = "READY"
    BY DEF WasReady, Events, t
  <1>5. WasReady(a)' <=> \E i \in DOMAIN Append(t, e) : Append(t, e)[i].to = "READY"
    BY <1>2 DEF WasReady, Events
  <1>6. QED
    BY <1>3, <1>4, <1>5

LEMMA AnnouncementsKept ==
  ASSUME PipelineInvariant, \A a \in ActionIds : AnnouncedByOneRow(a), [Next]_vars
  PROVE  \A a \in ActionIds : AnnouncedByOneRow(a)'
  <1>0. StoreTypeOK /\ References
    BY DEF PipelineInvariant, TypeOK
  <1>a. ASSUME NEW a \in ActionIds, status'[a] = status[a], audit'[a] = audit[a],
               RowsOf(a)' = RowsOf(a), DOMAIN outbox \subseteq DOMAIN outbox'
        PROVE  AnnouncedByOneRow(a)'
    BY <1>a DEF AnnouncedByOneRow, WasReady, Events, Announced
  <1>1. CASE Submission
    <2>1. PICK p \in Proposal, a \in ActionIds : Created(p, a)
      BY <1>1 DEF Submission
    <2>2. WasReady(a)' <=> Routed(p) = "READY"
      <3> DEFINE e1 == Proposed(p)
                 e2 == Validated(p, "DRAFT", "VALIDATING")
                 e3 == Validated(p, "VALIDATING", Routed(p))
      <3>1. e1.to = "DRAFT" /\ e2.to = "VALIDATING" /\ e3.to = Routed(p)
        BY DEF Proposed, Validated
      <3>2. audit'[a] = <<e1, e2, e3>>
        BY <1>0, <2>1, Submitted
      <3> HIDE DEF e1, e2, e3
      <3>3. Events(a)' = {e1, e2, e3}
        BY <3>2 DEF Events
      <3>4. QED
        BY <3>1, <3>3 DEF WasReady
    <2>3. /\ RowsOf(a) = {} /\ status'[a] = Routed(p)
          /\ Routed(p) \in {"READY", "AWAITING_APPROVAL"}
          /\ \A b \in ActionIds : b # a => status'[b] = status[b] /\ audit'[b] = audit[b]
      BY <1>0, <2>1, Submitted DEF AnnouncedByOneRow, Announced
    <2>4. CASE Routed(p) = "READY"
      <3>1. enqueue_outbox_message(a)
        BY <2>1, <2>4 DEF Created
      <3>2. QED
        BY <1>0, <1>a, <2>2, <2>3, <2>4, <3>1, RowInserted DEF AnnouncedByOneRow, Announced
    <2>5. CASE Routed(p) = "AWAITING_APPROVAL"
      <3>1. outbox' = outbox
        BY <2>1, <2>5 DEF Created
      <3>2. \A b \in ActionIds : RowsOf(b)' = RowsOf(b)
        BY <3>1 DEF RowsOf
      <3>3. QED
        BY <1>a, <2>2, <2>3, <2>5, <3>1, <3>2 DEF AnnouncedByOneRow, Announced
    <2>6. QED
      BY <2>3, <2>4, <2>5
  <1>2. CASE Transition
    <2>1. PICK a \in ActionIds, target \in Targets, by \in Users \cup {SYSTEM_CONNECTOR},
               receipt \in BOOLEAN :
            /\ apply_transition(a, target, by, receipt)
            /\ IF target = "READY" THEN enqueue_outbox_message(a) ELSE outbox' = outbox
      BY <1>2 DEF Transition
    <2> DEFINE e == [from |-> status[a], to |-> target, by |-> by, receipt |-> receipt]
    <2>m. apply_transition(a, target, by, receipt)
      BY <2>1
    <2>2. /\ audit'[a] = Append(audit[a], e) /\ status'[a] = target
          /\ \A b \in ActionIds : b # a => status'[b] = status[b] /\ audit'[b] = audit[b]
      BY <1>0, <2>m, Transitioned
    <2>a. target = "READY" <=> ~Announced(a)
      BY <1>0, <2>m, Transitioned
    <2>3. e.to = target
      OBVIOUS
    <2> HIDE DEF e
    <2>4. WasReady(a)' /\ Announced(a)'
      BY <1>0, <2>2, <2>3, <2>a, EventAdded DEF AnnouncedByOneRow, Announced, Targets
    <2>5. CASE target = "READY"
      BY <1>0, <1>a, <2>1, <2>2, <2>a, <2>4, <2>5, RowInserted DEF AnnouncedByOneRow
    <2>6. CASE target # "READY"
      <3>1. outbox' = outbox
        BY <2>1, <2>6
      <3>2. \A b \in ActionIds : RowsOf(b)' = RowsOf(b)
        BY <3>1 DEF RowsOf
      <3>3. QED
        BY <1>a, <2>2, <2>a, <2>4, <2>6, <3>1, <3>2 DEF AnnouncedByOneRow
    <2>7. QED
      BY <2>5, <2>6
  <1>3. CASE Rest
    <2>1. \A a \in ActionIds : RowsOf(a)' = RowsOf(a)
      BY <1>3 DEF Rest, RowsOf
    <2>2. QED
      BY <1>3, <1>a, <2>1 DEF Rest
  <1>4. QED
    BY <1>1, <1>2, <1>3, KindsOfStep

\* An action has one outbox row if it ever became READY and none otherwise:
\* approvals consumed at once, replays and redeliveries announce nothing twice.
THEOREM AnnouncedOnce == Spec => []OneAnnouncementPerAction
  <1> DEFINE Inv == \A a \in ActionIds : AnnouncedByOneRow(a)
  <1>1. Init => Inv
    BY DEF Init, StoreInit, AnnouncedByOneRow, WasReady, Events, Announced, RowsOf
  <1>2. PipelineInvariant /\ Inv /\ [Next]_vars => Inv'
    BY AnnouncementsKept
  <1>3. ASSUME Inv
        PROVE  OneAnnouncementPerAction
    <2>1. ASSUME NEW a \in ActionIds
          PROVE  Cardinality(RowsOf(a)) = IF WasReady(a) THEN 1 ELSE 0
      BY <1>3, FS_EmptySet, FS_Singleton DEF AnnouncedByOneRow
    <2>2. QED
      BY <2>1 DEF OneAnnouncementPerAction
  <1>4. QED
    BY <1>1, <1>2, <1>3, PipelineInvariantHolds, PTL DEF Spec

-----------------------------------------------------------------------------
(* The drain of an engaged kill switch: the actions there are, and the     *)
(* proposals that have passed the check of that switch.                    *)

Existing == {a \in ActionIds : Exists(a)}

Underway(s) == {r \in Requests : Passed(r, s)}

\* A step takes a proposal to an action, ends proposals, or, with the switch
\* disengaged, lets one past it.
LEMMA ProposalsMove ==
  ASSUME PipelineInvariant, [Next]_vars, NEW s \in {"customer", "workspace"}
  PROVE  \/ Existing' = Existing /\ Underway(s)' \subseteq Underway(s)
         \/ \E a \in ActionIds \ Existing, r \in Underway(s) :
              Existing' = Existing \cup {a} /\ Underway(s)' = Underway(s) \ {r}
         \/ /\ s \notin switch /\ Existing' = Existing
            /\ \E r \in Requests : Underway(s)' = Underway(s) \cup {r}
  <1>0. TypeOK /\ StoreTypeOK /\ ServiceTypeOK /\ References /\ Consumers
    BY DEF PipelineInvariant, TypeOK
  <1>a. ASSUME NEW r \in Requests, NEW q, req' = [req EXCEPT ![r] = q]
        PROVE  IF q.op = "propose" \/ (s = "customer" /\ q.op = "check")
               THEN Underway(s)' = Underway(s) \cup {r}
               ELSE Underway(s)' = Underway(s) \ {r}
    BY <1>0, <1>a DEF Underway, Passed, ServiceTypeOK
  <1>b. ASSUME status' = status
        PROVE  Existing' = Existing
    BY <1>b DEF Existing, Exists
  <1>c. ASSUME req' = req
        PROVE  Underway(s)' = Underway(s)
    BY <1>c DEF Underway, Passed
  <1>d. ASSUME NEW a \in ActionIds, NEW target \in Targets, NEW by, NEW receipt,
               apply_transition(a, target, by, receipt)
        PROVE  Existing' = Existing
    BY <1>0, <1>d, Transitioned DEF Existing, Exists, Targets
  <1>e. ASSUME NEW r \in Requests, EndRequest(r)
        PROVE  Underway(s)' = Underway(s) \ {r}
    <2>1. IdleRequest.op \notin {"check", "propose"}
      BY DEF IdleRequest
    <2>2. QED
      BY <1>a, <1>e, <2>1 DEF EndRequest
  <1>1. ASSUME NEW r \in Requests, CreateAction(r)
        PROVE  \E a \in ActionIds \ Existing :
                 r \in Underway(s) /\ Existing' = Existing \cup {a} /\ Underway(s)' = Underway(s) \ {r}
    <2>1. PICK a \in ActionIds : Created(req[r].proposal, a)
      BY <1>1 DEF CreateAction
    <2>2. a \notin Existing /\ Existing' = Existing \cup {a}
      BY <1>0, <2>1, Submitted DEF Existing, Exists
    <2>3. r \in Underway(s) /\ Underway(s)' = Underway(s) \ {r}
      BY <1>1, <1>e DEF CreateAction, Underway, Passed
    <2>4. QED
      BY <2>2, <2>3
  <1>2. ASSUME NEW r \in Requests, ConsumeApproval(r)
        PROVE  Existing' = Existing /\ Underway(s)' \subseteq Underway(s)
    <2>1. req[r].action \in ActionIds
      BY <1>0, <1>2, Consumed
    <2>2. QED
      BY <1>2, <1>d, <1>e, <2>1 DEF ConsumeApproval, Targets
  <1>3. ASSUME NEW r \in Requests, CancelAction(r)
        PROVE  Existing' = Existing /\ Underway(s)' \subseteq Underway(s)
    <2>1. req[r].action \in ActionIds /\ req[r].target \in {"CANCELLED", "COMPENSATING"}
      BY <1>0, <1>3, RequestFields DEF CancelAction, ServiceTypeOK
    <2>2. req[r].target \in Targets
      BY <2>1 DEF Targets
    <2>3. QED
      BY <1>3, <1>d, <1>e, <2>1, <2>2 DEF CancelAction
  <1>4. ASSUME NEW user \in Admins, NEW a \in ActionIds,
               NEW outcome \in {"COMPENSATED", "FAILED"},
               CompleteCompensation(user, a, outcome)
        PROVE  Existing' = Existing /\ Underway(s)' \subseteq Underway(s)
    BY <1>4, <1>c, <1>d DEF CompleteCompensation, Targets
  <1>5. ASSUME NEW r \in Requests,
               \/ RefuseProposal(r) \/ ReplayAction(r) \/ RefuseConsume(r)
               \/ LoseRace(r) \/ AbortRequest(r)
        PROVE  Existing' = Existing /\ Underway(s)' \subseteq Underway(s)
    BY <1>5, <1>b, <1>e
    DEF RefuseProposal, ReplayAction, RefuseConsume, LoseRace, AbortRequest, storeVars
  <1>6. ASSUME NEW r \in Requests, NEW user \in Users, NEW a \in ActionIds,
               BeginConsume(r, user, a) \/ BeginCancel(r, user, a)
        PROVE  Existing' = Existing /\ Underway(s)' \subseteq Underway(s)
    <2>1. status' = status /\ \E q : q.op \notin {"check", "propose"} /\ req' = [req EXCEPT ![r] = q]
      BY <1>6 DEF BeginConsume, BeginCancel, storeVars
    <2>2. PICK q : q.op \notin {"check", "propose"} /\ req' = [req EXCEPT ![r] = q]
      BY <2>1
    <2>3. QED
      BY <1>a, <1>b, <2>1, <2>2
  <1>7. ASSUME NEW a \in ActionIds, ApprovalLapses(a)
        PROVE  Existing' = Existing /\ Underway(s)' \subseteq Underway(s)
    BY <1>7, <1>b, <1>c DEF ApprovalLapses
  <1>8. ASSUME NEW r \in Requests, NEW user \in Users, NEW tool \in Tools,
               NEW risk \in RequestedRisks, NEW payload \in Payloads, NEW key \in Keys,
               BeginPropose(r, user, tool, risk, payload, key)
        PROVE  /\ Existing' = Existing
               /\ \/ s \notin switch /\ Underway(s)' = Underway(s) \cup {r}
                  \/ Underway(s)' \subseteq Underway(s)
    <2>1. /\ "customer" \notin switch /\ status' = status
          /\ \E q : q.op = "check" /\ req' = [req EXCEPT ![r] = q]
      BY <1>8 DEF BeginPropose, storeVars
    <2>2. PICK q : q.op = "check" /\ req' = [req EXCEPT ![r] = q]
      BY <2>1
    <2>3. QED
      BY <1>a, <1>b, <2>1, <2>2
  <1>9. ASSUME NEW r \in Requests, CheckWorkspace(r)
        PROVE  /\ Existing' = Existing
               /\ \/ s \notin switch /\ Underway(s)' = Underway(s) \cup {r}
                  \/ Underway(s)' \subseteq Underway(s)
    <2>1. /\ "workspace" \notin switch /\ status' = status /\ req[r].op = "check"
          /\ \E q : q.op = "propose" /\ req' = [req EXCEPT ![r] = q]
      BY <1>9 DEF CheckWorkspace, storeVars
    <2>2. PICK q : q.op = "propose" /\ req' = [req EXCEPT ![r] = q]
      BY <2>1
    <2>3. Underway(s)' = Underway(s) \cup {r}
      BY <1>a, <2>2
    <2>4. CASE s = "customer"
      <3>1. r \in Underway(s)
        BY <2>1, <2>4 DEF Underway, Passed
      <3>2. QED
        BY <1>b, <2>1, <2>3, <3>1
    <2>5. CASE s = "workspace"
      BY <1>b, <2>1, <2>3, <2>5
    <2>6. QED
      BY <2>4, <2>5
  <1>10. CASE ServiceNext
    BY <1>10, <1>1, <1>2, <1>3, <1>4, <1>5, <1>6, <1>7, <1>8, <1>9 DEF ServiceNext
  <1>11. CASE ~ServiceNext
    <2>1. req' = req
      BY <1>11 DEF Next, vars, serviceVars
    <2>2. Existing' = Existing
      <3>1. ASSUME NEW c \in Connectors, DriveToRunning(c)
            PROVE  Existing' = Existing
        BY <1>0, <1>d, <3>1, EntryInHand DEF DriveToRunning, At, Targets
      <3>2. ASSUME NEW c \in Connectors, Resolve(c)
            PROVE  Existing' = Existing
        <4>1. Current(c) \in ActionIds /\ conn[c].target \in {"SUCCEEDED", "FAILED"}
          BY <1>0, <3>2, EntryInHand DEF Resolve, At, Consumers, ConsumerOK
        <4>2. QED
          BY <1>d, <3>2, <4>1 DEF Resolve, Targets
      <3>3. CASE ConnectorNext
        BY <3>1, <3>2, <3>3, <1>b
        DEF ConnectorNext, ConnectorStep, ReadGroup, LoadAction, DriveRefused, ResolveRefused,
            Acknowledge, EntryFails, ConnectorCrashes, Send, SendSucceeds, SendTransient,
            SendFails, SendRaises, storeVars
      <3>4. QED
        BY <1>11, <1>b, <3>3
        DEF Next, vars, storeVars, RelayNext, RelayStep, SelectBatch, AddToStream, CommitBatch,
            RelayFails
    <2>3. QED
      BY <1>c, <2>1, <2>2
  <1>12. QED
    BY <1>10, <1>11

\* While a kill switch is engaged, the actions and the proposals past it do
\* not grow in number: only the proposals it let through can still commit.
THEOREM SwitchDrains == Spec => EngagedSwitchDrains
  <1> DEFINE Fin == /\ IsFiniteSet(Existing)
                    /\ \A s \in {"customer", "workspace"} : IsFiniteSet(Underway(s))
             Drains == \A s \in switch :
               Cardinality({a \in ActionIds : Exists(a)'}) + Cardinality({r \in Requests : Passed(r, s)'})
                 <= Cardinality({a \in ActionIds : Exists(a)})
                      + Cardinality({r \in Requests : Passed(r, s)})
  <1>1. Init => Fin
    <2>1. Init => Existing = {} /\ \A s \in {"customer", "workspace"} : Underway(s) = {}
      BY DEF Init, StoreInit, ServiceInit, Existing, Exists, Underway, Passed, IdleRequest
    <2>2. QED
      BY <2>1, FS_EmptySet
  <1>2. PipelineInvariant /\ Fin /\ [Next]_vars => Fin'
    <2> SUFFICES ASSUME PipelineInvariant, Fin, [Next]_vars,
                        NEW s \in {"customer", "workspace"}
                 PROVE  IsFiniteSet(Existing') /\ IsFiniteSet(Underway(s)')
      OBVIOUS
    <2>1. QED
      BY ProposalsMove, FS_Subset, FS_AddElement, FS_RemoveElement
  <1>3. ASSUME PipelineInvariant, Fin, [Next]_vars,
               NEW s \in {"customer", "workspace"}, s \in switch
        PROVE  Cardinality(Existing') + Cardinality(Underway(s)')
                 <= Cardinality(Existing) + Cardinality(Underway(s))
    <2>1. Cardinality(Existing) \in Nat /\ Cardinality(Underway(s)) \in Nat
      BY <1>3, FS_CardinalityType
    <2>2. CASE Existing' = Existing /\ Underway(s)' \subseteq Underway(s)
      <3>1. /\ Cardinality(Underway(s)') \in Nat
            /\ Cardinality(Underway(s)') <= Cardinality(Underway(s))
        BY <1>3, <2>2, FS_Subset, FS_CardinalityType
      <3>2. QED
        BY <2>1, <2>2, <3>1
    <2>3. ASSUME NEW a \in ActionIds \ Existing, NEW r \in Underway(s),
                 Existing' = Existing \cup {a}, Underway(s)' = Underway(s) \ {r}
          PROVE  Cardinality(Existing') + Cardinality(Underway(s)')
                   <= Cardinality(Existing) + Cardinality(Underway(s))
      <3>1. Cardinality(Existing') = Cardinality(Existing) + 1
        BY <1>3, <2>3, FS_AddElement
      <3>2. Cardinality(Underway(s)') = Cardinality(Underway(s)) - 1
        BY <1>3, <2>3, FS_RemoveElement
      <3>3. QED
        BY <2>1, <3>1, <3>2
    <2>4. QED
      BY <1>3, <2>2, <2>3, ProposalsMove
  <1>4. PipelineInvariant /\ Fin /\ [Next]_vars => [Drains]_vars
    <2> SUFFICES ASSUME PipelineInvariant, Fin, [Next]_vars PROVE Drains
      OBVIOUS
    <2>1. \A s \in switch : s \in {"customer", "workspace"}
      BY SwitchAssumption DEF PipelineInvariant, TypeOK, SwitchTypeOK
    <2>2. ASSUME NEW s \in switch
          PROVE  Cardinality(Existing') + Cardinality(Underway(s)')
                   <= Cardinality(Existing) + Cardinality(Underway(s))
      BY <1>3, <2>1
    <2>3. QED
      BY <2>2 DEF Existing, Underway
  <1>5. QED
    BY <1>1, <1>2, <1>4, PipelineInvariantHolds, PTL DEF Spec, EngagedSwitchDrains
=============================================================================
