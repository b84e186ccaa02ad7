------------------------ MODULE PipelineStepProofs ------------------------
(***************************************************************************)
(* What each step of the action pipeline does: the kill switch, the types  *)
(* of the stores and of the consumers, the references between the stores,  *)
(* what a consumer knows of the entry it has in hand, and the              *)
(* authorisation of actions.                                               *)
(***************************************************************************)
EXTENDS ActionPipeline, FiniteSetTheorems, TLAPS

(* The kill switch, for any number of requests and scopes.                 *)

\* A request that is not idle works on a scope.
LEMMA ScopeOfOperation ==
  ASSUME SwitchTypeOK, NEW o \in Operators,
         operator[o].op \in {"insert", "refetch", "assert_failed", "delete", "deleted", "late"}
  PROVE  operator[o].scope \in Scopes
  BY DEF SwitchTypeOK, Operation, IdleOperator

\* A kill-switch request keeps the types of the switch's state.
LEMMA SwitchTypeKept ==
  ASSUME SwitchTypeOK, SwitchNext
  PROVE  SwitchTypeOK'
  <1>1. ASSUME NEW o \in Operators, NEW s \in Scopes, BeginEngage(o, s)
        PROVE  SwitchTypeOK'
    BY <1>1 DEF SwitchTypeOK, BeginEngage, Continue, Operation
  <1>2. ASSUME NEW o \in Operators, NEW s \in Scopes, BeginDisengage(o, s)
        PROVE  SwitchTypeOK'
    BY <1>2 DEF SwitchTypeOK, BeginDisengage, Continue, Operation
  <1>3. ASSUME NEW o \in Operators, Engage(o)
        PROVE  SwitchTypeOK'
    <2>1. operator[o].scope \in Scopes
      BY <1>3, ScopeOfOperation DEF Engage
    <2>2. QED
      BY <1>3, <2>1 DEF SwitchTypeOK, Engage, Finish
  <1>4. ASSUME NEW o \in Operators, EngageConflict(o)
        PROVE  SwitchTypeOK'
    <2>1. operator[o].scope \in Scopes
      BY <1>4, ScopeOfOperation DEF EngageConflict
    <2>2. QED
      BY <1>4, <2>1 DEF SwitchTypeOK, EngageConflict, Continue, Operation
  <1>5. ASSUME NEW o \in Operators, EngageRefetch(o)
        PROVE  SwitchTypeOK'
    <2>1. operator[o].scope \in Scopes
      BY <1>5, ScopeOfOperation DEF EngageRefetch
    <2>2. CASE Finish(o)
      BY <1>5, <2>2 DEF SwitchTypeOK, EngageRefetch, Finish
    <2>3. CASE Continue(o, "assert_failed", operator[o].scope)
      BY <1>5, <2>1, <2>3 DEF SwitchTypeOK, EngageRefetch, Continue, Operation
    <2>4. QED
      BY <1>5, <2>2, <2>3 DEF EngageRefetch
  <1>6. ASSUME NEW o \in Operators, ReportAssertion(o)
        PROVE  SwitchTypeOK'
    BY <1>6 DEF SwitchTypeOK, ReportAssertion, Finish
  <1>7. ASSUME NEW o \in Operators, Disengage(o)
        PROVE  SwitchTypeOK'
    <2>1. operator[o].scope \in Scopes
      BY <1>7, ScopeOfOperation DEF Disengage
    <2>2. QED
      BY <1>7, <2>1 DEF SwitchTypeOK, Disengage, Finish
  <1>8. ASSUME NEW o \in Operators, DeleteRow(o) \/ DeleteNothing(o)
        PROVE  SwitchTypeOK'
    <2>1. operator[o].scope \in Scopes
      BY <1>8, ScopeOfOperation DEF DeleteRow, DeleteNothing
    <2>2. QED
      BY <1>8, <2>1 DEF SwitchTypeOK, DeleteRow, DeleteNothing, Continue, Operation
  <1>9. ASSUME NEW o \in Operators, DisengageLate(o)
        PROVE  SwitchTypeOK'
    <2>1. operator[o].scope \in Scopes
      BY <1>9, ScopeOfOperation DEF DisengageLate
    <2>2. QED
      BY <1>9, <2>1 DEF SwitchTypeOK, DisengageLate, Finish
  <1>10. QED
    BY <1>1, <1>2, <1>3, <1>4, <1>5, <1>6, <1>7, <1>8, <1>9 DEF SwitchNext

\* An event appended to the trail of one scope is its last one, and the other
\* trails stay.
LEMMA Appended ==
  ASSUME SwitchTypeOK, NEW s \in Scopes, NEW e \in {"engaged", "disengaged"},
         switchTrail' = [switchTrail EXCEPT ![s] = Append(@, e)]
  PROVE  /\ switchTrail'[s] # <<>>
         /\ switchTrail'[s][Len(switchTrail'[s])] = e
         /\ \A t \in Scopes : t # s => switchTrail'[t] = switchTrail[t]
  <1>1. switchTrail[s] \in Seq({"engaged", "disengaged"})
    BY DEF SwitchTypeOK
  <1>2. switchTrail'[s] = Append(switchTrail[s], e)
    BY DEF SwitchTypeOK
  <1>3. \A t \in Scopes : t # s => switchTrail'[t] = switchTrail[t]
    BY DEF SwitchTypeOK
  <1>4. QED
    BY <1>1, <1>2, <1>3

\* The engagements a trail records: an event more is one more, if it is one.
Engagements(t) == {i \in DOMAIN t : t[i] = "engaged"}

LEMMA EngagementsCounted ==
  ASSUME NEW t \in Seq({"engaged", "disengaged"}), NEW e \in {"engaged", "disengaged"}
  PROVE  /\ Cardinality(Engagements(t)) \in Nat
         /\ Cardinality(Engagements(Append(t, e))) =
              Cardinality(Engagements(t)) + (IF e = "engaged" THEN 1 ELSE 0)
  <1>1. IsFiniteSet(Engagements(t)) /\ Len(t) + 1 \notin Engagements(t)
    <2>1. IsFiniteSet(1 .. Len(t)) /\ Engagements(t) \subseteq 1 .. Len(t)
      BY FS_Interval DEF Engagements
    <2>2. QED
      BY <2>1, FS_Subset
  <1>2. Engagements(Append(t, e)) =
          IF e = "engaged" THEN Engagements(t) \cup {Len(t) + 1} ELSE Engagements(t)
    BY DEF Engagements
  <1>3. Cardinality(Engagements(t)) \in Nat
    BY <1>1, FS_CardinalityType
  <1>4. Cardinality(Engagements(t) \cup {Len(t) + 1}) = Cardinality(Engagements(t)) + 1
    BY <1>1, FS_AddElement
  <1>5. CASE e = "engaged"
    BY <1>2, <1>3, <1>4, <1>5
  <1>6. CASE e # "engaged"
    BY <1>2, <1>3, <1>6
  <1>7. QED
    BY <1>3, <1>5, <1>6

\* The trail tells of every switch that is off and counts the incidents: each
\* request that engages, disengages or comes late to disengage keeps both.
LEMMA SwitchInvariantKept ==
  ASSUME SwitchTypeOK, OffIsAudited, OneIncidentPerEngagement, SwitchNext
  PROVE  OffIsAudited' /\ OneIncidentPerEngagement'
  <1>1. ASSUME UNCHANGED <<switch, switchTrail, alerts>>
        PROVE  OffIsAudited' /\ OneIncidentPerEngagement'
    BY <1>1 DEF OffIsAudited, OneIncidentPerEngagement
  <1>2. ASSUME NEW s \in Scopes, NEW e \in {"engaged", "disengaged"},
               e = "engaged" => s \notin switch,
               switch' \in IF e = "engaged" THEN {switch \cup {s}} ELSE {switch, switch \ {s}},
               switchTrail' = [switchTrail EXCEPT ![s] = Append(@, e)],
               alerts' = IF e = "engaged" THEN [alerts EXCEPT ![s] = @ + 1] ELSE alerts
        PROVE  OffIsAudited' /\ OneIncidentPerEngagement'
    <2>1. OffIsAudited'
      <3>1. ASSUME NEW u \in Scopes, u \notin switch'
            PROVE  switchTrail'[u] = <<>> \/ switchTrail'[u][Len(switchTrail'[u])] = "disengaged"
        <4>1. CASE u = s
          <5>1. e = "disengaged"
            BY <1>2, <3>1, <4>1
          <5>2. switchTrail'[s][Len(switchTrail'[s])] = e
            BY <1>2, Appended
          <5>3. QED
            BY <4>1, <5>1, <5>2
        <4>2. CASE u # s
          <5>1. switchTrail'[u] = switchTrail[u]
            BY <1>2, <4>2, Appended
          <5>2. u \notin switch
            BY <1>2, <3>1, <4>2
          <5>3. switchTrail[u] = <<>> \/ switchTrail[u][Len(switchTrail[u])] = "disengaged"
            BY <5>2 DEF OffIsAudited
          <5>4. QED
            BY <5>1, <5>3
        <4>3. QED
          BY <4>1, <4>2
      <3>2. QED
        BY <3>1 DEF OffIsAudited
    <2> DEFINE t == switchTrail[s]
    <2>2. t \in Seq({"engaged", "disengaged"}) /\ switchTrail'[s] = Append(t, e)
      BY <1>2 DEF SwitchTypeOK
    <2>3. /\ \A i \in 1 .. Len(t) - 1 : t[i] = "engaged" => t[i + 1] = "disengaged"
          /\ alerts[s] = Cardinality(Engagements(t))
      BY DEF OneIncidentPerEngagement, Engagements
    <2>4. e = "engaged" /\ t # <<>> => t[Len(t)] = "disengaged"
      BY <1>2, <2>2 DEF OffIsAudited
    <2> HIDE DEF t
    <2>5. \A i \in 1 .. Len(Append(t, e)) - 1 :
            Append(t, e)[i] = "engaged" => Append(t, e)[i + 1] = "disengaged"
      <3> SUFFICES ASSUME NEW i \in 1 .. Len(t), t[i] = "engaged"
                   PROVE  Append(t, e)[i + 1] = "disengaged"
        BY <2>2
      <3>1. CASE i = Len(t)
        BY <2>2, <2>4, <3>1
      <3>2. CASE i \in 1 .. Len(t) - 1
        BY <2>2, <2>3, <3>2
      <3>3. QED
        BY <2>2, <3>1, <3>2
    <2>6. alerts'[s] = Cardinality(Engagements(Append(t, e)))
      BY <1>2, <2>2, <2>3, EngagementsCounted DEF SwitchTypeOK
    <2>7. \A u \in Scopes : u # s => switchTrail'[u] = switchTrail[u] /\ alerts'[u] = alerts[u]
      BY <1>2, Appended DEF SwitchTypeOK
    <2>8. ASSUME NEW u \in Scopes, NEW v, v = switchTrail'[u]
          PROVE  /\ \A i \in 1 .. Len(v) - 1 : v[i] = "engaged" => v[i + 1] = "disengaged"
                 /\ alerts'[u] = Cardinality(Engagements(v))
      <3>1. CASE u = s
        BY <2>2, <2>5, <2>6, <2>8, <3>1
      <3>2. CASE u # s
        <4>1. /\ \A i \in 1 .. Len(switchTrail[u]) - 1 :
                   switchTrail[u][i] = "engaged" => switchTrail[u][i + 1] = "disengaged"
              /\ alerts[u] = Cardinality(Engagements(switchTrail[u]))
          BY DEF OneIncidentPerEngagement, Engagements
        <4>2. v = switchTrail[u] /\ alerts'[u] = alerts[u]
          BY <2>7, <2>8, <3>2
        <4>3. QED
          BY <4>1, <4>2
      <3>3. QED
        BY <3>1, <3>2
    <2>9. QED
      BY <2>1, <2>8 DEF OneIncidentPerEngagement, Engagements
  <1>3. ASSUME NEW o \in Operators, Engage(o)
        PROVE  OffIsAudited' /\ OneIncidentPerEngagement'
    <2>1. PICK s \in Scopes : s = operator[o].scope
      BY <1>3, ScopeOfOperation DEF Engage
    <2>2. QED
      BY <1>2, <1>3, <2>1 DEF Engage
  <1>4. ASSUME NEW o \in Operators, Disengage(o)
        PROVE  OffIsAudited' /\ OneIncidentPerEngagement'
    <2>1. PICK s \in Scopes : s = operator[o].scope
      BY <1>4, ScopeOfOperation DEF Disengage
    <2>2. QED
      BY <1>2, <1>4, <2>1 DEF Disengage
  <1>5. ASSUME NEW o \in Operators, DisengageLate(o)
        PROVE  OffIsAudited' /\ OneIncidentPerEngagement'
    <2>1. PICK s \in Scopes : s = operator[o].scope
      BY <1>5, ScopeOfOperation DEF DisengageLate
    <2>2. QED
      BY <1>2, <1>5, <2>1 DEF DisengageLate
  <1>6. QED
    BY <1>1, <1>3, <1>4, <1>5
    DEF SwitchNext, BeginEngage, BeginDisengage, EngageConflict, EngageRefetch, ReportAssertion,
        DeleteRow, DeleteNothing

\* The kill switch by itself keeps its invariant, whatever requests race.
LEMMA SwitchInvariantHolds ==
  SwitchSpec => [](OffIsAudited /\ OneIncidentPerEngagement)
  <1> DEFINE Inv == SwitchTypeOK /\ OffIsAudited /\ OneIncidentPerEngagement
  <1>1. SwitchInit => Inv
    <2> SUFFICES ASSUME SwitchInit PROVE Inv
      OBVIOUS
    <2>1. SwitchTypeOK /\ OffIsAudited
      BY DEF SwitchInit, SwitchTypeOK, OffIsAudited
    <2>2. \A s \in Scopes : switchTrail[s] = <<>> /\ alerts[s] = 0
      BY DEF SwitchInit
    <2>3. DOMAIN <<>> = {} /\ Len(<<>>) = 0 /\ Engagements(<<>>) = {}
      BY DEF Engagements
    <2>4. OneIncidentPerEngagement
      <3>1. ASSUME NEW s \in Scopes
            PROVE  /\ \A i \in 1 .. Len(switchTrail[s]) - 1 :
                        switchTrail[s][i] = "engaged" => switchTrail[s][i + 1] = "disengaged"
                   /\ alerts[s] = Cardinality(Engagements(switchTrail[s]))
        <4>1. switchTrail[s] = <<>> /\ alerts[s] = 0 /\ 1 .. 0 - 1 = {}
          BY <2>2
        <4>2. Cardinality(Engagements(<<>>)) = 0
          BY <2>3, FS_EmptySet
        <4>3. QED
          BY <2>3, <4>1, <4>2
      <3>2. QED
        BY <3>1 DEF OneIncidentPerEngagement, Engagements
    <2>5. QED
      BY <2>1, <2>4
  <1>2. Inv /\ [SwitchNext]_switchVars => Inv'
    <2>1. Inv /\ UNCHANGED switchVars => Inv'
      BY DEF switchVars, SwitchTypeOK, OffIsAudited, OneIncidentPerEngagement
    <2>2. QED
      BY <2>1, SwitchTypeKept, SwitchInvariantKept
  <1>3. Inv => OffIsAudited /\ OneIncidentPerEngagement
    OBVIOUS
  <1>4. QED
    BY <1>1, <1>2, <1>3, PTL DEF SwitchSpec

-----------------------------------------------------------------------------
(* Types.                                                                  *)

\* What the transition table allows from the statuses actions really have:
\* each target has the sources the code relies on.
LEMMA Transitions ==
  ASSUME NEW s \in CommittedStatus, NEW t \in ALLOWED_TRANSITIONS(s)
  PROVE  /\ t \in ActionStatus
         /\ s # "ABSENT"
         /\ t = "READY" => s = "AWAITING_APPROVAL"
         /\ t = "RUNNING" => s = "READY"
         /\ t = "CANCELLED" => s = "READY"
         /\ t = "SUCCEEDED" => s = "RUNNING"
         /\ t = "COMPENSATING" => s = "RUNNING"
         /\ t = "COMPENSATED" => s = "COMPENSATING"
         /\ t = "FAILED" => s \in {"RUNNING", "COMPENSATING"}
  BY DEF CommittedStatus, ALLOWED_TRANSITIONS, ActionStatus

\* A notification keeps the counters counters.
LEMMA NoticesType ==
  ASSUME notices \in [ActionIds -> [NotificationType -> Nat]],
         NEW a \in ActionIds, NEW recipient, NEW target
  PROVE  create_notification(a, recipient, target)
           \in [ActionIds -> [NotificationType -> Nat]]
  BY DEF create_notification, NotificationType

\* apply_transition keeps the types of what it writes.
LEMMA TransitionType ==
  ASSUME StoreTypeOK, NEW a \in ActionIds, status[a] \in CommittedStatus,
         NEW target, NEW by \in Users \cup {SYSTEM_CONNECTOR},
         NEW receipt \in BOOLEAN,
         apply_transition(a, target, by, receipt)
  PROVE  /\ target \in ALLOWED_TRANSITIONS(status[a])
         /\ status' = [status EXCEPT ![a] = target]
         /\ target \in ActionStatus
         /\ status' \in [ActionIds -> ActionStatus \cup {"ABSENT"}]
         /\ audit' \in [ActionIds -> Seq(AuditEvent)]
         /\ notices' \in [ActionIds -> [NotificationType -> Nat]]
  <1>1. target \in ALLOWED_TRANSITIONS(status[a])
    BY DEF apply_transition, MayTransition
  <1>2. target \in ActionStatus
    BY <1>1, Transitions
  <1>3. status' = [status EXCEPT ![a] = target]
    BY DEF apply_transition
  <1>4. notices' \in [ActionIds -> [NotificationType -> Nat]]
    BY NoticesType DEF apply_transition, StoreTypeOK
  <1> DEFINE e == [from |-> status[a], to |-> target, by |-> by, receipt |-> receipt]
  <1>5. e \in AuditEvent
    BY <1>2 DEF AuditEvent, StoreTypeOK
  <1>6. audit' = [audit EXCEPT ![a] = Append(@, e)]
    BY DEF apply_transition
  <1>7. audit' \in [ActionIds -> Seq(AuditEvent)]
    <2> HIDE DEF e
    <2> QED BY <1>5, <1>6 DEF StoreTypeOK
  <1>8. QED
    BY <1>1, <1>2, <1>3, <1>4, <1>7 DEF StoreTypeOK

\* What a request slot holds, by the operation it is carrying out.
LEMMA RequestFields ==
  ASSUME NEW q \in Request
  PROVE  /\ q.op \in {"check", "propose"} => q.proposal \in Proposal
         /\ q.op \in {"consume", "cancel"} => q.user \in Users /\ q.action \in ActionIds
         /\ q.op = "consume" => q.late \in BOOLEAN
         /\ q.op = "cancel" => q.target \in {"CANCELLED", "COMPENSATING"}
  BY DEF Request, IdleRequest

\* The outbox after an insert: the old rows, and one unpublished row more.
LEMMA Enqueued ==
  ASSUME outbox \in Seq(OutboxMessage), NEW a \in ActionIds,
         enqueue_outbox_message(a)
  PROVE  /\ outbox' \in Seq(OutboxMessage)
         /\ DOMAIN outbox' = DOMAIN outbox \cup {Len(outbox) + 1}
         /\ Len(outbox) + 1 \notin DOMAIN outbox
         /\ \A m \in DOMAIN outbox : outbox'[m] = outbox[m]
         /\ outbox'[Len(outbox) + 1].action = a
         /\ outbox'[Len(outbox) + 1].published = FALSE
  <1> DEFINE e == [action |-> a, published |-> FALSE, attempts |-> 0]
  <1>1. e \in OutboxMessage /\ e.action = a /\ e.published = FALSE
    BY DEF OutboxMessage
  <1>2. outbox' = Append(outbox, e)
    BY DEF enqueue_outbox_message
  <1> HIDE DEF e
  <1>3. QED
    BY <1>1, <1>2

\* Publishing a batch keeps the outbox's type and its actions.
LEMMA PublishedRow ==
  ASSUME NEW m \in OutboxMessage
  PROVE  LET n == [m EXCEPT !.published = TRUE, !.attempts = @ + 1]
         IN  n \in OutboxMessage /\ n.action = m.action /\ n.published = TRUE
  <1> DEFINE k == [m EXCEPT !.published = TRUE]
  <1>1. k \in OutboxMessage /\ k.action = m.action /\ k.published = TRUE
    BY DEF OutboxMessage
  <1> HIDE DEF k
  <1>2. LET n == [k EXCEPT !.attempts = @ + 1]
        IN  n \in OutboxMessage /\ n.action = k.action /\ n.published = k.published
    BY <1>1 DEF OutboxMessage
  <1>3. QED
    BY <1>1, <1>2 DEF k

\* A commit of the relay changes no row's action, and publishes what the
\* worker had added.
LEMMA Published ==
  ASSUME StoreTypeOK, NEW w \in Relays, CommitBatch(w)
  PROVE  /\ outbox' \in Seq(OutboxMessage)
         /\ DOMAIN outbox' = DOMAIN outbox
         /\ \A m \in DOMAIN outbox :
              /\ outbox'[m].action = outbox[m].action
              /\ outbox'[m].published =
                   IF m \in relay[w].added THEN TRUE ELSE outbox[m].published
  <1> DEFINE f(m) == IF m \in relay[w].added
                     THEN [outbox[m] EXCEPT !.published = TRUE, !.attempts = @ + 1]
                     ELSE outbox[m]
  <1>1. outbox' = [m \in DOMAIN outbox |-> f(m)]
    BY DEF CommitBatch
  <1>2. outbox \in Seq(OutboxMessage)
    BY DEF StoreTypeOK
  <1>3. ASSUME NEW m \in DOMAIN outbox
        PROVE  /\ f(m) \in OutboxMessage
               /\ f(m).action = outbox[m].action
               /\ f(m).published =
                    IF m \in relay[w].added THEN TRUE ELSE outbox[m].published
    <2>1. outbox[m] \in OutboxMessage
      BY <1>2, <1>3
    <2>2. CASE m \in relay[w].added
      <3>1. f(m) = [outbox[m] EXCEPT !.published = TRUE, !.attempts = @ + 1]
        BY <2>2
      <3>2. QED
        BY <2>1, <2>2, <3>1, PublishedRow
    <2>3. QED
      BY <2>1, <2>2
  <1> HIDE DEF f
  <1>4. outbox' \in Seq(OutboxMessage) /\ DOMAIN outbox' = DOMAIN outbox
    <2>1. DOMAIN outbox = 1 .. Len(outbox) /\ Len(outbox) \in Nat
      BY <1>2
    <2>2. outbox' \in [1 .. Len(outbox) -> OutboxMessage]
      BY <1>1, <1>3, <2>1
    <2>3. QED
      BY <2>1, <2>2
  <1>5. QED
    BY <1>1, <1>3, <1>4

\* Outbox rows and stream entries name actions.
LEMMA RowsAndEntries ==
  ASSUME StoreTypeOK
  PROVE  /\ \A m \in DOMAIN outbox : outbox[m] \in OutboxMessage /\ outbox[m].action \in ActionIds
         /\ \A i \in DOMAIN stream : stream[i] \in ActionIds
  <1>1. outbox \in Seq(OutboxMessage) /\ stream \in Seq(ActionIds)
    BY DEF StoreTypeOK
  <1>2. \A m \in DOMAIN outbox : outbox[m] \in OutboxMessage
    BY <1>1
  <1>3. QED
    BY <1>1, <1>2 DEF OutboxMessage

-----------------------------------------------------------------------------
(* Type correctness.                                                       *)

\* Requests keep the types of the stores and of their own slots.
LEMMA ServiceTypes ==
  ASSUME TypeOK, References, ServiceNext, UNCHANGED <<switchVars, relay, connectorVars>>
  PROVE  TypeOK'
  <1> USE StoreAssumption, ServiceAssumption
  <1>0. /\ StoreTypeOK /\ ServiceTypeOK
        /\ UNCHANGED switchVars /\ UNCHANGED relay /\ UNCHANGED connectorVars
    BY DEF TypeOK
  <1>a. SwitchTypeOK' /\ RelayTypeOK' /\ ConnectorTypeOK'
    BY DEF TypeOK, SwitchTypeOK, switchVars, RelayTypeOK, ConnectorTypeOK, connectorVars
  <1> SUFFICES StoreTypeOK' /\ ServiceTypeOK'
    BY <1>a DEF TypeOK
  <1>b. \A a \in ActionIds : status[a] \in CommittedStatus
    BY DEF References
  <1>1. ASSUME NEW r \in Requests, NEW user \in Users, NEW tool \in Tools,
               NEW risk \in RequestedRisks, NEW payload \in Payloads, NEW key \in Keys,
               BeginPropose(r, user, tool, risk, payload, key)
        PROVE  StoreTypeOK' /\ ServiceTypeOK'
    <2>1. enforce_minimum_risk_level(tool, risk) \in RiskLevel
      BY DEF enforce_minimum_risk_level, RiskLevel, TOOL_MINIMUM_RISK_LEVEL
    <2>2. [op |-> "check",
           proposal |-> [actor |-> user, tool |-> tool,
                         risk |-> enforce_minimum_risk_level(tool, risk),
                         payload |-> payload, key |-> key]] \in Request
      BY <2>1 DEF Request, Proposal
    <2>3. QED
      BY <1>0, <1>1, <2>2 DEF BeginPropose, StoreTypeOK, ServiceTypeOK, storeVars
  <1>2. ASSUME NEW r \in Requests, CreateAction(r)
        PROVE  StoreTypeOK' /\ ServiceTypeOK'
    <2> DEFINE p == req[r].proposal
    <2>1. p \in Proposal /\ p.actor \in Users
      BY <1>0, <1>2, RequestFields DEF CreateAction, ServiceTypeOK, Proposal
    <2>2. PICK a \in ActionIds : Created(p, a)
      BY <1>2 DEF CreateAction, Created
    <2> HIDE DEF p
    <2>3. Routed(p) \in {"READY", "AWAITING_APPROVAL"}
      BY DEF Routed
    <2>4. <<Proposed(p), Validated(p, "DRAFT", "VALIDATING"),
            Validated(p, "VALIDATING", Routed(p))>> \in Seq(AuditEvent)
      <3>1. /\ Proposed(p) \in AuditEvent
            /\ Validated(p, "DRAFT", "VALIDATING") \in AuditEvent
            /\ Validated(p, "VALIDATING", Routed(p)) \in AuditEvent
        BY <2>1, <2>3 DEF Proposed, Validated, AuditEvent, ActionStatus
      <3>2. QED
        BY <3>1
    <2>5. audit' \in [ActionIds -> Seq(AuditEvent)]
      BY <1>0, <2>2, <2>4 DEF Created, StoreTypeOK
    <2>6. notices' \in [ActionIds -> [NotificationType -> Nat]]
      BY <1>0, <2>2, NoticesType DEF Created, StoreTypeOK
    <2>7. approval' \in [ActionIds -> Approval \cup {None}]
      <3> DEFINE x == [status |-> "PENDING", payload_hash |-> hash_payload(p.payload),
                       approver |-> None]
      <3>1. x \in Approval
        BY <2>1 DEF Approval, ApprovalStatus, Proposal, hash_payload
      <3>2. approval' = approval \/ approval' = [approval EXCEPT ![a] = x]
        BY <2>2 DEF Created
      <3>3. approval \in [ActionIds -> Approval \cup {None}]
        BY <1>0 DEF StoreTypeOK
      <3> HIDE DEF x
      <3>4. QED
        BY <3>1, <3>2, <3>3
    <2>8. outbox' \in Seq(OutboxMessage)
      BY <1>0, <2>2, Enqueued DEF Created, StoreTypeOK
    <2>9. nonceHolders' \in [ActionIds -> SUBSET Users]
      BY <1>0, <2>1, <2>2 DEF Created, ServiceTypeOK
    <2>10. QED
      BY <1>0, <1>2, <2>1, <2>2, <2>3, <2>5, <2>6, <2>7, <2>8, <2>9
      DEF CreateAction, Created, EndRequest, Request, StoreTypeOK, ServiceTypeOK, ActionStatus
  <1>3. ASSUME NEW r \in Requests, ReplayAction(r)
        PROVE  StoreTypeOK' /\ ServiceTypeOK'
    <2>1. req[r].proposal.actor \in Users
      BY <1>0, <1>3, RequestFields DEF ReplayAction, ServiceTypeOK, Proposal
    <2>2. PICK a \in ActionIds :
            \/ nonceHolders' = nonceHolders
            \/ nonceHolders' = [nonceHolders EXCEPT ![a] = @ \cup {req[r].proposal.actor}]
      BY <1>3 DEF ReplayAction, KeyHolder
    <2>3. nonceHolders' \in [ActionIds -> SUBSET Users]
      BY <1>0, <2>1, <2>2 DEF ServiceTypeOK
    <2>4. QED
      BY <1>0, <1>3, <2>3
      DEF ReplayAction, EndRequest, Request, StoreTypeOK, ServiceTypeOK, storeVars
  <1>4. ASSUME NEW r \in Requests, NEW user \in Users, NEW a \in ActionIds,
               BeginConsume(r, user, a)
        PROVE  StoreTypeOK' /\ ServiceTypeOK'
    <2>1. [op |-> "consume", user |-> user, action |-> a, late |-> a \in lapsed] \in Request
      BY DEF Request
    <2>2. QED
      BY <1>0, <1>4, <2>1 DEF BeginConsume, StoreTypeOK, ServiceTypeOK, storeVars
  <1>5. ASSUME NEW r \in Requests, NEW user \in Users, NEW a \in ActionIds,
               BeginCancel(r, user, a)
        PROVE  StoreTypeOK' /\ ServiceTypeOK'
    BY <1>0, <1>5 DEF BeginCancel, Request, StoreTypeOK, ServiceTypeOK, storeVars
  <1>6. ASSUME NEW r \in Requests, ConsumeApproval(r)
        PROVE  StoreTypeOK' /\ ServiceTypeOK'
    <2>1. /\ req[r].action \in ActionIds
          /\ req[r].user \in Users
          /\ approval[req[r].action] \in Approval
      BY <1>0, <1>6, RequestFields
      DEF ConsumeApproval, ServiceTypeOK, StoreTypeOK, References, RequestReferences
    <2>2. /\ status' \in [ActionIds -> ActionStatus \cup {"ABSENT"}]
          /\ audit' \in [ActionIds -> Seq(AuditEvent)]
          /\ notices' \in [ActionIds -> [NotificationType -> Nat]]
      BY <1>0, <1>b, <1>6, <2>1, TransitionType DEF ConsumeApproval
    <2>3. approval' \in [ActionIds -> Approval \cup {None}]
      BY <1>0, <1>6, <2>1 DEF ConsumeApproval, StoreTypeOK, Approval, ApprovalStatus
    <2>4. outbox' \in Seq(OutboxMessage)
      BY <1>0, <1>6, <2>1, Enqueued DEF ConsumeApproval, StoreTypeOK
    <2>5. QED
      BY <1>0, <1>6, <2>2, <2>3, <2>4
      DEF ConsumeApproval, EndRequest, Request, StoreTypeOK, ServiceTypeOK
  <1>7. ASSUME NEW r \in Requests, RefuseConsume(r)
        PROVE  StoreTypeOK' /\ ServiceTypeOK'
    BY <1>0, <1>7 DEF RefuseConsume, EndRequest, Request, StoreTypeOK, ServiceTypeOK, storeVars
  <1>8. ASSUME NEW r \in Requests, CancelAction(r)
        PROVE  StoreTypeOK' /\ ServiceTypeOK'
    <2>1. /\ req[r].action \in ActionIds
          /\ req[r].user \in Users
      BY <1>0, <1>8, RequestFields DEF CancelAction, ServiceTypeOK
    <2>2. /\ status' \in [ActionIds -> ActionStatus \cup {"ABSENT"}]
          /\ audit' \in [ActionIds -> Seq(AuditEvent)]
          /\ notices' \in [ActionIds -> [NotificationType -> Nat]]
      BY <1>0, <1>b, <1>8, <2>1, TransitionType DEF CancelAction
    <2>3. QED
      BY <1>0, <1>8, <2>2 DEF CancelAction, EndRequest, Request, StoreTypeOK, ServiceTypeOK
  <1>9. ASSUME NEW user \in Admins, NEW a \in ActionIds,
               NEW outcome \in {"COMPENSATED", "FAILED"},
               CompleteCompensation(user, a, outcome)
        PROVE  StoreTypeOK' /\ ServiceTypeOK'
    <2>2. /\ status' \in [ActionIds -> ActionStatus \cup {"ABSENT"}]
          /\ audit' \in [ActionIds -> Seq(AuditEvent)]
          /\ notices' \in [ActionIds -> [NotificationType -> Nat]]
      BY <1>0, <1>b, <1>9, TransitionType DEF CompleteCompensation
    <2>3. QED
      BY <1>0, <1>9, <2>2 DEF CompleteCompensation, StoreTypeOK, ServiceTypeOK
  <1>10. ASSUME NEW r \in Requests, LoseRace(r)
        PROVE  StoreTypeOK' /\ ServiceTypeOK'
    BY <1>0, <1>10 DEF LoseRace, EndRequest, Request, StoreTypeOK, ServiceTypeOK, storeVars
  <1>11. ASSUME NEW r \in Requests, AbortRequest(r)
        PROVE  StoreTypeOK' /\ ServiceTypeOK'
    BY <1>0, <1>11 DEF AbortRequest, Fault, EndRequest, Request, StoreTypeOK, ServiceTypeOK
  <1>12. ASSUME NEW a \in ActionIds, ApprovalLapses(a)
        PROVE  StoreTypeOK' /\ ServiceTypeOK'
    BY <1>0, <1>12 DEF ApprovalLapses, StoreTypeOK, ServiceTypeOK
  <1>13. ASSUME NEW r \in Requests, CheckWorkspace(r)
        PROVE  StoreTypeOK' /\ ServiceTypeOK'
    <2>1. req[r].proposal \in Proposal
      BY <1>0, <1>13, RequestFields DEF CheckWorkspace, ServiceTypeOK
    <2>2. [op |-> "propose", proposal |-> req[r].proposal] \in Request
      BY <2>1 DEF Request
    <2>3. QED
      BY <1>0, <1>13, <2>2 DEF CheckWorkspace, StoreTypeOK, ServiceTypeOK, storeVars
  <1>14. ASSUME NEW r \in Requests, RefuseProposal(r)
        PROVE  StoreTypeOK' /\ ServiceTypeOK'
    BY <1>0, <1>14 DEF RefuseProposal, EndRequest, Request, StoreTypeOK, ServiceTypeOK, storeVars
  <1>15. QED
    BY <1>1, <1>2, <1>3, <1>4, <1>5, <1>6, <1>7, <1>8, <1>9, <1>10, <1>11, <1>12, <1>13, <1>14
    DEF ServiceNext

\* Kill-switch requests keep every type.
LEMMA SwitchTypes ==
  ASSUME TypeOK, SwitchNext, UNCHANGED <<storeVars, serviceVars, relay, connectorVars>>
  PROVE  TypeOK'
  <1>1. StoreTypeOK' /\ ServiceTypeOK' /\ RelayTypeOK' /\ ConnectorTypeOK'
    BY DEF TypeOK, StoreTypeOK, storeVars, ServiceTypeOK, serviceVars, RelayTypeOK,
           ConnectorTypeOK, connectorVars
  <1>2. SwitchTypeOK'
    BY SwitchTypeKept DEF TypeOK
  <1>3. QED
    BY <1>1, <1>2 DEF TypeOK

\* The relay keeps the types of the stores and of its batches.
LEMMA RelayTypes ==
  ASSUME TypeOK, References, RelayNext,
         UNCHANGED <<switchVars, serviceVars, connectorVars>>
  PROVE  TypeOK'
  <1> USE StoreAssumption
  <1>0. StoreTypeOK /\ RelayTypeOK
    BY DEF TypeOK
  <1>a. SwitchTypeOK' /\ ServiceTypeOK' /\ ConnectorTypeOK'
    BY DEF TypeOK, SwitchTypeOK, switchVars, ServiceTypeOK, serviceVars,
           ConnectorTypeOK, connectorVars
  <1> SUFFICES StoreTypeOK' /\ RelayTypeOK'
    BY <1>a DEF TypeOK
  <1>1. ASSUME NEW w \in Relays, SelectBatch(w)
        PROVE  StoreTypeOK' /\ RelayTypeOK'
    <2>1. PICK batch \in SUBSET Unpublished : relay' = [relay EXCEPT ![w].todo = batch]
      BY <1>1 DEF SelectBatch
    <2>2. batch \subseteq Nat
      BY <1>0 DEF Unpublished, StoreTypeOK
    <2>3. RelayTypeOK'
      BY <1>0, <2>1, <2>2 DEF RelayTypeOK
    <2>4. QED
      BY <1>0, <1>1, <2>3 DEF SelectBatch, StoreTypeOK, storeVars
  <1>2. ASSUME NEW w \in Relays, AddToStream(w)
        PROVE  StoreTypeOK' /\ RelayTypeOK'
    <2>1. PICK m \in relay[w].todo :
            /\ stream' = Append(stream, outbox[m].action)
            /\ relay' = [relay EXCEPT ![w] = [todo |-> @.todo \ {m},
                                             added |-> @.added \cup {m}]]
      BY <1>2 DEF AddToStream
    <2>2. m \in DOMAIN outbox
      BY DEF References, OutboxReferences
    <2>3. m \in Nat /\ outbox[m].action \in ActionIds
      <3>1. outbox \in Seq(OutboxMessage)
        BY <1>0 DEF StoreTypeOK
      <3>2. m \in Nat /\ outbox[m] \in OutboxMessage
        BY <2>2, <3>1
      <3>3. QED
        BY <3>2 DEF OutboxMessage
    <2>4. stream' \in Seq(ActionIds)
      BY <1>0, <2>1, <2>3 DEF StoreTypeOK
    <2>5. RelayTypeOK'
      BY <1>0, <2>1, <2>3 DEF RelayTypeOK
    <2>6. QED
      BY <1>0, <1>2, <2>4, <2>5 DEF AddToStream, StoreTypeOK
  <1>3. ASSUME NEW w \in Relays, CommitBatch(w)
        PROVE  StoreTypeOK' /\ RelayTypeOK'
    <2>1. RelayTypeOK'
      BY <1>0, <1>3 DEF CommitBatch, IdleRelay, RelayTypeOK
    <2>2. outbox' \in Seq(OutboxMessage)
      BY <1>0, <1>3, Published
    <2>3. QED
      BY <1>0, <1>3, <2>1, <2>2 DEF CommitBatch, StoreTypeOK
  <1>4. ASSUME NEW w \in Relays, RelayFails(w)
        PROVE  StoreTypeOK' /\ RelayTypeOK'
    BY <1>0, <1>4 DEF RelayFails, Fault, IdleRelay, StoreTypeOK, RelayTypeOK
  <1>5. QED
    BY <1>1, <1>2, <1>3, <1>4 DEF RelayNext, RelayStep

\* The entry a busy consumer has in hand was delivered to it, and names an
\* action that exists.
LEMMA EntryInHand ==
  ASSUME TypeOK, References, Consumers, NEW c \in Connectors, conn[c].pc # "idle"
  PROVE  /\ conn[c].batch \in Seq(Nat) /\ conn[c].batch # <<>>
         /\ Entry(c) \in 1 .. cursor
         /\ Entry(c) \in DOMAIN stream
         /\ Current(c) \in ActionIds
         /\ Announced(Current(c))
         /\ row[Current(c)] \in Proposal
  <1>1. conn[c].batch \in Seq(Nat) /\ conn[c].batch # <<>>
    BY DEF TypeOK, ConnectorTypeOK, ConnState, Consumers, ConsumerOK
  <1>2. Entry(c) \in 1 .. cursor
    <2>1. 1 \in DOMAIN conn[c].batch /\ Entry(c) = conn[c].batch[1]
      BY <1>1 DEF Entry
    <2>2. QED
      BY <2>1 DEF Consumers, ConsumerOK
  <1>3. stream \in Seq(ActionIds) /\ cursor \in Nat /\ cursor <= Len(stream)
    BY DEF TypeOK, StoreTypeOK, ConnectorTypeOK, Consumers
  <1>4. Entry(c) \in DOMAIN stream
    BY <1>2, <1>3
  <1>5. Current(c) \in ActionIds
    BY <1>3, <1>4 DEF Current
  <1>6. Announced(Current(c))
    BY <1>4 DEF References, StreamReferences, Current
  <1>7. QED
    BY <1>1, <1>2, <1>4, <1>5, <1>6 DEF References, Announced, Exists

\* Moving on leaves the other consumers alone, and the rest of the batch is
\* made of entries it already held.
LEMMA MovingOn ==
  ASSUME TypeOK, NEW c \in Connectors, conn[c].batch # <<>>, NextEntry(c)
  PROVE  /\ conn' \in [Connectors -> ConnState]
         /\ \A d \in Connectors : d # c => conn'[d] = conn[d]
         /\ conn'[c].pc \in {"idle", "load"}
         /\ conn'[c].pc # "idle" => conn'[c].batch # <<>>
         /\ \A i \in DOMAIN conn'[c].batch :
              \E j \in DOMAIN conn[c].batch : conn'[c].batch[i] = conn[c].batch[j]
  <1> DEFINE b == conn[c].batch
             next == [pc |-> "load", batch |-> Tail(b), attempt |-> 0, target |-> None]
  <1>1. conn \in [Connectors -> ConnState] /\ b \in Seq(Nat)
    BY DEF TypeOK, ConnectorTypeOK, ConnState
  <1>2. /\ Tail(b) \in Seq(Nat)
        /\ \A i \in DOMAIN Tail(b) : i + 1 \in DOMAIN b /\ Tail(b)[i] = b[i + 1]
    BY <1>1
  <1>3. conn' = [conn EXCEPT ![c] = IF Tail(b) = <<>> THEN IdleConn ELSE next]
    BY DEF NextEntry
  <1>4. IdleConn \in ConnState /\ IdleConn.pc = "idle" /\ DOMAIN IdleConn.batch = {}
    BY DEF IdleConn, ConnState
  <1>5. next \in ConnState /\ next.pc = "load" /\ next.batch = Tail(b)
    BY <1>2 DEF ConnState
  <1> HIDE DEF b, next
  <1>6. conn' \in [Connectors -> ConnState] /\ \A d \in Connectors : d # c => conn'[d] = conn[d]
    BY <1>1, <1>3, <1>4, <1>5
  <1>7. CASE Tail(b) = <<>>
    BY <1>1, <1>3, <1>4, <1>6, <1>7
  <1>8. CASE Tail(b) # <<>>
    <2>1. conn'[c] = next
      BY <1>1, <1>3, <1>8
    <2>2. QED
      BY <1>2, <1>5, <1>6, <1>8, <2>1 DEF b
  <1>9. QED
    BY <1>7, <1>8

\* A consumer that goes to another place keeps its batch.
LEMMA GoingTo ==
  ASSUME TypeOK, NEW c \in Connectors,
         NEW pc \in {"load", "drive", "send", "resolve", "ack"}, Goto(c, pc)
  PROVE  /\ conn' \in [Connectors -> ConnState]
         /\ \A d \in Connectors : d # c => conn'[d] = conn[d]
         /\ conn'[c].pc = pc
         /\ conn'[c].batch = conn[c].batch
         /\ conn'[c].target = conn[c].target
  BY DEF TypeOK, ConnectorTypeOK, ConnState, Goto

\* The state of a consumer about to resolve its action.
LEMMA ResolvingAs ==
  ASSUME TypeOK, NEW c \in Connectors, NEW t \in {"SUCCEEDED", "FAILED"},
         ResolveAs(c, t)
  PROVE  /\ conn' \in [Connectors -> ConnState]
         /\ \A d \in Connectors : d # c => conn'[d] = conn[d]
         /\ conn'[c].pc = "resolve"
         /\ conn'[c].batch = conn[c].batch
         /\ conn'[c].target = t
  BY DEF TypeOK, ConnectorTypeOK, ConnState, ResolveAs

\* A transient error leads to another attempt, or to a failure.
LEMMA Retrying ==
  ASSUME TypeOK, NEW c \in Connectors, At(c, "send"), Retry(c)
  PROVE  /\ conn' \in [Connectors -> ConnState]
         /\ \A d \in Connectors : d # c => conn'[d] = conn[d]
         /\ \/ conn'[c].pc = "send"
            \/ conn'[c].pc = "resolve" /\ conn'[c].target = "FAILED"
         /\ conn'[c].batch = conn[c].batch
  <1>1. CASE ResolveAs(c, "FAILED")
    BY <1>1, ResolvingAs
  <1>2. CASE conn' = [conn EXCEPT ![c].attempt = @ + 1]
    <2>1. conn \in [Connectors -> ConnState] /\ conn[c] \in ConnState
      BY DEF TypeOK, ConnectorTypeOK
    <2> DEFINE n == conn[c].attempt + 1
    <2>2. n \in Nat
      BY <2>1 DEF ConnState
    <2>3. conn' = [conn EXCEPT ![c] = [conn[c] EXCEPT !.attempt = n]]
      BY <1>2
    <2> HIDE DEF n
    <2>4. QED
      BY <2>1, <2>2, <2>3 DEF ConnState, At
  <1>3. QED
    BY <1>1, <1>2 DEF Retry

\* What a consumer reads: the entries after the group's cursor.
LEMMA Reading ==
  ASSUME TypeOK, Consumers, NEW c \in Connectors, ReadGroup(c)
  PROVE  /\ conn' \in [Connectors -> ConnState]
         /\ \A d \in Connectors : d # c => conn'[d] = conn[d]
         /\ conn'[c].pc = "load"
         /\ conn'[c].batch # <<>>
         /\ \A i \in DOMAIN conn'[c].batch : conn'[c].batch[i] \in 1 .. cursor'
         /\ cursor' \in Nat /\ cursor <= cursor' /\ cursor' <= Len(stream)
         /\ pel' = pel \cup (cursor + 1 .. cursor')
  <1> DEFINE last == IF Len(stream) < cursor + ReadCount
                     THEN Len(stream) ELSE cursor + ReadCount
             b == [i \in 1 .. last - cursor |-> cursor + i]
             next == [pc |-> "load", attempt |-> 0, target |-> None, batch |-> b]
  <1>1. /\ cursor \in Nat /\ Len(stream) \in Nat /\ cursor < Len(stream)
        /\ conn \in [Connectors -> ConnState]
    BY DEF TypeOK, StoreTypeOK, ConnectorTypeOK, ReadGroup
  <1>2. last \in Nat /\ cursor < last /\ last <= Len(stream)
    BY <1>1, ConnectorAssumption
  <1>3. cursor' = last /\ pel' = pel \cup (cursor + 1 .. last) /\ conn' = [conn EXCEPT ![c] = next]
    BY DEF ReadGroup
  <1> HIDE DEF last
  <1>4. b \in Seq(Nat) /\ b # <<>> /\ \A i \in DOMAIN b : b[i] \in 1 .. last
    BY <1>1, <1>2
  <1>5. next \in ConnState /\ next.pc = "load" /\ next.batch = b
    BY <1>4 DEF ConnState
  <1> HIDE DEF b, next
  <1>6. QED
    BY <1>1, <1>2, <1>3, <1>4, <1>5

\* Connectors keep the types of the stores and of their own state.
LEMMA ConnectorTypes ==
  ASSUME TypeOK, References, Consumers, ConnectorNext,
         UNCHANGED <<switchVars, serviceVars, relay>>
  PROVE  TypeOK'
  <1> USE StoreAssumption
  <1>0. StoreTypeOK /\ ConnectorTypeOK
    BY DEF TypeOK
  <1>a. SwitchTypeOK' /\ ServiceTypeOK' /\ RelayTypeOK'
    BY DEF TypeOK, SwitchTypeOK, switchVars, ServiceTypeOK, serviceVars, RelayTypeOK
  <1> SUFFICES StoreTypeOK' /\ ConnectorTypeOK'
    BY <1>a DEF TypeOK
  <1>b. \A a \in ActionIds : status[a] \in CommittedStatus
    BY DEF References
  <1>c. ASSUME NEW c \in Connectors, conn[c].pc # "idle"
        PROVE  Current(c) \in ActionIds /\ conn[c].batch # <<>>
    BY <1>c, EntryInHand
  <1>d. ASSUME NEW c \in Connectors, conn[c].pc # "idle",
               NEW target, NEW receipt \in BOOLEAN,
               apply_transition(Current(c), target, SYSTEM_CONNECTOR, receipt),
               UNCHANGED <<row, approval, lapsed, outbox, stream, faults>>
        PROVE  StoreTypeOK'
    <2>1. /\ status' \in [ActionIds -> ActionStatus \cup {"ABSENT"}]
          /\ audit' \in [ActionIds -> Seq(AuditEvent)]
          /\ notices' \in [ActionIds -> [NotificationType -> Nat]]
      BY <1>0, <1>b, <1>c, <1>d, TransitionType
    <2>2. QED
      BY <1>0, <1>d, <2>1 DEF StoreTypeOK
  <1>e. ASSUME NEW c \in Connectors, conn[c].pc # "idle",
               Reaches(Current(c)) \/ UNCHANGED delivered
        PROVE  delivered' \in [ActionIds -> Nat]
    BY <1>0, <1>c, <1>e DEF Reaches, ConnectorTypeOK
  <1>1. ASSUME NEW c \in Connectors, ReadGroup(c)
        PROVE  StoreTypeOK' /\ ConnectorTypeOK'
    <2>1. /\ conn' \in [Connectors -> ConnState]
          /\ cursor \in Nat /\ cursor' \in Nat
          /\ pel' = pel \cup (cursor + 1 .. cursor')
      BY <1>0, <1>1, Reading DEF ConnectorTypeOK
    <2>2. pel' \subseteq Nat
      BY <1>0, <2>1 DEF ConnectorTypeOK
    <2>3. StoreTypeOK' /\ delivered' \in [ActionIds -> Nat]
      BY <1>0, <1>1 DEF ReadGroup, StoreTypeOK, ConnectorTypeOK, storeVars
    <2>4. QED
      BY <2>1, <2>2, <2>3 DEF ConnectorTypeOK
  <1>2. ASSUME NEW c \in Connectors, LoadAction(c)
        PROVE  StoreTypeOK' /\ ConnectorTypeOK'
    BY <1>0, <1>2, GoingTo DEF LoadAction, StoreTypeOK, ConnectorTypeOK, storeVars
  <1>3. ASSUME NEW c \in Connectors, DriveToRunning(c)
        PROVE  StoreTypeOK' /\ ConnectorTypeOK'
    <2>1. StoreTypeOK'
      BY <1>3, <1>d DEF DriveToRunning, At
    <2>2. QED
      BY <1>0, <1>3, <2>1, GoingTo, ResolvingAs DEF DriveToRunning, ConnectorTypeOK
  <1>4. ASSUME NEW c \in Connectors, DriveRefused(c)
        PROVE  StoreTypeOK' /\ ConnectorTypeOK'
    BY <1>0, <1>4, <1>c, MovingOn DEF DriveRefused, At, StoreTypeOK, ConnectorTypeOK, storeVars
  <1>5. ASSUME NEW c \in Connectors, SendSucceeds(c)
        PROVE  StoreTypeOK' /\ ConnectorTypeOK'
    BY <1>0, <1>5, <1>e, ResolvingAs DEF SendSucceeds, At, StoreTypeOK, ConnectorTypeOK, storeVars
  <1>6. ASSUME NEW c \in Connectors, SendTransient(c)
        PROVE  StoreTypeOK' /\ ConnectorTypeOK'
    BY <1>0, <1>6, Retrying DEF SendTransient, StoreTypeOK, ConnectorTypeOK, storeVars
  <1>7. ASSUME NEW c \in Connectors, SendFails(c)
        PROVE  StoreTypeOK' /\ ConnectorTypeOK'
    BY <1>0, <1>7, <1>e, ResolvingAs DEF SendFails, At, StoreTypeOK, ConnectorTypeOK, storeVars
  <1>8. ASSUME NEW c \in Connectors, SendRaises(c)
        PROVE  StoreTypeOK' /\ ConnectorTypeOK'
    BY <1>0, <1>8, <1>c, <1>e, MovingOn DEF SendRaises, At, StoreTypeOK, ConnectorTypeOK, storeVars
  <1>9. ASSUME NEW c \in Connectors, Resolve(c)
        PROVE  StoreTypeOK' /\ ConnectorTypeOK'
    <2>1. StoreTypeOK'
      BY <1>9, <1>d DEF Resolve, At
    <2>2. QED
      BY <1>0, <1>9, <2>1, GoingTo DEF Resolve, ConnectorTypeOK
  <1>10. ASSUME NEW c \in Connectors, ResolveRefused(c)
        PROVE  StoreTypeOK' /\ ConnectorTypeOK'
    BY <1>0, <1>10, <1>c, MovingOn DEF ResolveRefused, At, StoreTypeOK, ConnectorTypeOK, storeVars
  <1>11. ASSUME NEW c \in Connectors, Acknowledge(c)
        PROVE  StoreTypeOK' /\ ConnectorTypeOK'
    BY <1>0, <1>11, <1>c, MovingOn DEF Acknowledge, At, StoreTypeOK, ConnectorTypeOK, storeVars
  <1>12. ASSUME NEW c \in Connectors, EntryFails(c)
        PROVE  StoreTypeOK' /\ ConnectorTypeOK'
    BY <1>0, <1>12, <1>c, MovingOn DEF EntryFails, Fault, StoreTypeOK, ConnectorTypeOK
  <1>13. ASSUME NEW c \in Connectors, ConnectorCrashes(c)
        PROVE  StoreTypeOK' /\ ConnectorTypeOK'
    <2>1. IdleConn \in ConnState
      BY DEF IdleConn, ConnState
    <2>2. QED
      BY <1>0, <1>13, <2>1 DEF ConnectorCrashes, Fault, StoreTypeOK, ConnectorTypeOK
  <1>14. QED
    BY <1>1, <1>2, <1>3, <1>4, <1>5, <1>6, <1>7, <1>8, <1>9, <1>10, <1>11, <1>12, <1>13
    DEF ConnectorNext, ConnectorStep, Send

-----------------------------------------------------------------------------
(* References.                                                             *)

\* What no step takes back: rows and approvals stay, and an action that was
\* announced stays announced and does not become READY a second time, and an action
\* that was started stays started.
Grows ==
  \A a \in ActionIds :
    /\ status'[a] \in CommittedStatus
    /\ Exists(a) => Exists(a)' /\ row'[a] = row[a]
    /\ Announced(a) => Announced(a)'
    /\ Announced(a) /\ status'[a] = "READY" => status[a] = "READY"
    /\ NotStarted(a)' => NotStarted(a)
    /\ approval[a] # None => approval'[a] # None
    /\ approval'[a] # None => Exists(a)'
    /\ Exists(a)' => row'[a] \in Proposal

\* The targets of the code's transitions.
LEMMA Moved ==
  ASSUME StoreTypeOK, References, NEW a \in ActionIds,
         NEW target \in {"READY", "RUNNING", "CANCELLED", "COMPENSATING",
                         "COMPENSATED", "SUCCEEDED", "FAILED"},
         NEW by, NEW receipt, apply_transition(a, target, by, receipt)
  PROVE  /\ status' = [status EXCEPT ![a] = target]
         /\ status'[a] = target
         /\ \A b \in ActionIds : b # a => status'[b] = status[b]
         /\ Exists(a)
         /\ target \in ALLOWED_TRANSITIONS(status[a])
         /\ target # "READY" => Announced(a)
         /\ target = "READY" => ~Announced(a)
         /\ target \in {"READY", "CANCELLED", "RUNNING"} => NotStarted(a)
  <1>1. status' = [status EXCEPT ![a] = target] /\ target \in ALLOWED_TRANSITIONS(status[a])
    BY DEF apply_transition, MayTransition
  <1>2. status[a] \in CommittedStatus
    BY DEF References
  <1>3. QED
    BY <1>1, <1>2, Transitions DEF StoreTypeOK, Exists, Announced, NotStarted

\* A transition under the lock keeps what exists and what has started.
LEMMA MovedGrows ==
  ASSUME StoreTypeOK, References, NEW a \in ActionIds,
         NEW target \in {"READY", "RUNNING", "CANCELLED", "COMPENSATING",
                         "COMPENSATED", "SUCCEEDED", "FAILED"},
         NEW by, NEW receipt, apply_transition(a, target, by, receipt),
         row' = row,
         approval' = approval
  PROVE  Grows
  BY Moved DEF Grows, References, Exists, Announced, NotStarted, CommittedStatus

\* The approval after it was consumed.
LEMMA Consumed ==
  ASSUME TypeOK, References, NEW r \in Requests, ConsumeApproval(r)
  PROVE  LET a == req[r].action IN
         /\ a \in ActionIds
         /\ req[r].user \in Users
         /\ \A b \in ActionIds : b # a => approval'[b] = approval[b]
         /\ approval[a] \in Approval
         /\ approval'[a] \in Approval
         /\ approval'[a].status = "APPROVED"
         /\ approval'[a].payload_hash = approval[a].payload_hash
         /\ approval'[a].approver = req[r].user
  <1> DEFINE a == req[r].action
             user == req[r].user
             x == [approval[a] EXCEPT !.status = "APPROVED"]
             y == [x EXCEPT !.approver = user]
  <1>1. a \in ActionIds /\ user \in Users /\ approval[a] # None
    BY RequestFields DEF TypeOK, ServiceTypeOK, ConsumeApproval, References, RequestReferences
  <1>2. approval \in [ActionIds -> Approval \cup {None}] /\ approval[a] \in Approval
    BY <1>1 DEF TypeOK, StoreTypeOK
  <1>3. approval' = [approval EXCEPT ![a].status = "APPROVED", ![a].approver = user]
    BY DEF ConsumeApproval
  <1> HIDE DEF a, user
  <1>4. /\ x \in Approval /\ x.status = "APPROVED"
        /\ x.payload_hash = approval[a].payload_hash
    BY <1>2 DEF Approval, ApprovalStatus
  <1>5. [approval EXCEPT ![a].status = "APPROVED"] = [approval EXCEPT ![a] = x]
    BY <1>1, <1>2
  <1> HIDE DEF x
  <1>6. approval' = [approval EXCEPT ![a] = y]
    BY <1>1, <1>2, <1>3, <1>5
  <1>7. /\ y \in Approval /\ y.status = x.status /\ y.payload_hash = x.payload_hash
        /\ y.approver = user
    BY <1>1, <1>4 DEF Approval
  <1> HIDE DEF y
  <1>8. approval'[a] = y /\ \A b \in ActionIds : b # a => approval'[b] = approval[b]
    BY <1>1, <1>2, <1>6
  <1>9. QED
    BY <1>1, <1>2, <1>4, <1>7, <1>8 DEF a, user

\* No request removes an action, un-announces it or undoes its start.
LEMMA ServiceGrows ==
  ASSUME TypeOK, References, ServiceNext
  PROVE  Grows
  <1> USE StoreAssumption
  <1>0. StoreTypeOK /\ ServiceTypeOK
    BY DEF TypeOK
  <1>a. ASSUME UNCHANGED <<status, row, approval>>
        PROVE  Grows
    BY <1>a DEF Grows, References, Exists, Announced, NotStarted
  <1>1. ASSUME NEW r \in Requests, CreateAction(r)
        PROVE  Grows
    <2> DEFINE p == req[r].proposal
    <2>1. p \in Proposal
      BY <1>0, <1>1, RequestFields DEF CreateAction, ServiceTypeOK
    <2>2. PICK a \in ActionIds : Created(p, a)
      BY <1>1 DEF CreateAction
    <2> HIDE DEF p
    <2>3. Routed(p) \in {"READY", "AWAITING_APPROVAL"}
      BY DEF Routed
    <2>4. /\ ~Exists(a) /\ status'[a] \in {"READY", "AWAITING_APPROVAL"} /\ row'[a] = p
          /\ \A b \in ActionIds : b # a =>
               status'[b] = status[b] /\ row'[b] = row[b] /\ approval'[b] = approval[b]
      BY <1>0, <2>2, <2>3 DEF Created, StoreTypeOK
    <2>5. approval[a] = None
      BY <2>4 DEF References
    <2>6. QED
      BY <2>1, <2>4, <2>5 DEF Grows, References, Exists, Announced, NotStarted, CommittedStatus
  <1>2. ASSUME NEW r \in Requests, ConsumeApproval(r)
        PROVE  Grows
    <2>1. req[r].action \in ActionIds
      BY <1>2, Consumed
    <2>2. /\ \A a \in ActionIds : a # req[r].action => approval'[a] = approval[a]
          /\ approval'[req[r].action] # None
      BY <1>2, Consumed
    <2>3. /\ status'[req[r].action] = "READY" /\ row' = row
          /\ ~Announced(req[r].action) /\ Exists(req[r].action)
          /\ \A b \in ActionIds : b # req[r].action => status'[b] = status[b]
      BY <1>0, <1>2, <2>1, Moved DEF ConsumeApproval
    <2>4. QED
      BY <2>1, <2>2, <2>3
      DEF Grows, References, Exists, Announced, NotStarted, CommittedStatus
  <1>3. ASSUME NEW r \in Requests, CancelAction(r)
        PROVE  Grows
    <2>1. /\ req[r].action \in ActionIds
          /\ req[r].target \in {"CANCELLED", "COMPENSATING"}
      BY <1>0, <1>3, RequestFields DEF CancelAction, ServiceTypeOK
    <2>2. QED
      BY <1>0, <1>3, <2>1, MovedGrows DEF CancelAction
  <1>4. ASSUME NEW user \in Admins, NEW a \in ActionIds,
               NEW outcome \in {"COMPENSATED", "FAILED"},
               CompleteCompensation(user, a, outcome)
        PROVE  Grows
    BY <1>0, <1>4, MovedGrows DEF CompleteCompensation
  <1>5. QED
    BY <1>a, <1>1, <1>2, <1>3, <1>4
    DEF ServiceNext, BeginPropose, CheckWorkspace, RefuseProposal, ReplayAction, BeginConsume,
        BeginCancel, RefuseConsume,
        LoseRace, AbortRequest, ApprovalLapses, storeVars

\* No connector removes an action, un-announces it or undoes its start.
LEMMA ConnectorGrows ==
  ASSUME TypeOK, References, Consumers, ConnectorNext
  PROVE  Grows
  <1>0. StoreTypeOK
    BY DEF TypeOK
  <1>a. ASSUME UNCHANGED <<status, row, approval>>
        PROVE  Grows
    BY <1>a DEF Grows, References, Exists, Announced, NotStarted
  <1>1. ASSUME NEW c \in Connectors, DriveToRunning(c)
        PROVE  Grows
    <2>1. Current(c) \in ActionIds
      BY <1>1, EntryInHand DEF DriveToRunning, At
    <2>2. QED
      BY <1>0, <1>1, <2>1, MovedGrows DEF DriveToRunning
  <1>2. ASSUME NEW c \in Connectors, Resolve(c)
        PROVE  Grows
    <2>1. Current(c) \in ActionIds /\ conn[c].target \in {"SUCCEEDED", "FAILED"}
      BY <1>2, EntryInHand DEF Resolve, At, Consumers, ConsumerOK
    <2>2. QED
      BY <1>0, <1>2, <2>1, MovedGrows DEF Resolve
  <1>3. QED
    BY <1>a, <1>1, <1>2
    DEF ConnectorNext, ConnectorStep, Send, ReadGroup, LoadAction, DriveRefused, SendSucceeds,
        SendTransient, SendFails, SendRaises, ResolveRefused, Acknowledge, EntryFails,
        ConnectorCrashes, storeVars

\* Requests refer to rows that exist, and write only such references.
LEMMA ServiceReferences ==
  ASSUME TypeOK, References, ServiceNext, UNCHANGED <<switchVars, relay, connectorVars>>
  PROVE  References'
  <1>0. /\ StoreTypeOK /\ ServiceTypeOK /\ Grows
        /\ UNCHANGED relay
    BY ServiceGrows DEF TypeOK
  <1>a. ASSUME NEW r \in Requests
        PROVE  /\ req[r].op = "consume" =>
                    /\ approval'[req[r].action] # None
                    /\ row'[req[r].action] = row[req[r].action]
                    /\ ActsFor(req[r].user, req[r].action)
               /\ req[r].op = "cancel" => status'[req[r].action] # "ABSENT"
    <2>1. req[r] \in Request
      BY <1>0 DEF ServiceTypeOK
    <2>2. req[r].op \in {"consume", "cancel"} => req[r].action \in ActionIds
      BY <2>1, RequestFields
    <2>3. QED
      BY <1>0, <2>2 DEF References, RequestReferences, Grows, Exists
  <1>1. RequestReferences'
    <2>1. ASSUME NEW r \in Requests, EndRequest(r)
          PROVE  RequestReferences'
      BY <1>0, <1>a, <2>1
      DEF EndRequest, IdleRequest, ServiceTypeOK, RequestReferences, ActsFor, Exists
    <2>2. ASSUME NEW r \in Requests, NEW user \in Users, NEW a \in ActionIds,
                 BeginConsume(r, user, a)
          PROVE  RequestReferences'
      BY <1>0, <1>a, <2>2 DEF BeginConsume, storeVars, ServiceTypeOK,
          RequestReferences, ActsFor, Exists
    <2>3. ASSUME NEW r \in Requests, NEW user \in Users, NEW a \in ActionIds,
                 BeginCancel(r, user, a)
          PROVE  RequestReferences'
      BY <1>0, <1>a, <2>3 DEF BeginCancel, storeVars, ServiceTypeOK,
          RequestReferences, ActsFor, Exists
    <2>4. ASSUME NEW r \in Requests, NEW user \in Users, NEW tool \in Tools,
                 NEW risk \in RequestedRisks, NEW payload \in Payloads, NEW key \in Keys,
                 BeginPropose(r, user, tool, risk, payload, key)
          PROVE  RequestReferences'
      BY <1>0, <1>a, <2>4 DEF BeginPropose, storeVars, ServiceTypeOK,
          RequestReferences, ActsFor, Exists
    <2>5. ASSUME req' = req
          PROVE  RequestReferences'
      BY <1>0, <1>a, <2>5 DEF RequestReferences, ActsFor, Exists
    <2>6. ASSUME NEW r \in Requests, CheckWorkspace(r)
          PROVE  RequestReferences'
      BY <1>0, <1>a, <2>6 DEF CheckWorkspace, storeVars, ServiceTypeOK,
          RequestReferences, ActsFor, Exists
    <2>7. QED
      BY <2>1, <2>2, <2>3, <2>4, <2>5, <2>6
      DEF ServiceNext, RefuseProposal, CreateAction, ReplayAction, ConsumeApproval, RefuseConsume, CancelAction,
          LoseRace, AbortRequest, ApprovalLapses, CompleteCompensation
  <1>2. OutboxReferences' /\ stream' = stream
    <2>1. \A m \in DOMAIN outbox : outbox[m].action \in ActionIds
      BY <1>0, RowsAndEntries
    <2>2. \A m \in DOMAIN outbox : status'[outbox[m].action] \notin {"ABSENT", "AWAITING_APPROVAL"}
      BY <1>0, <2>1 DEF References, OutboxReferences, Grows, Announced
    <2>3. CASE UNCHANGED <<outbox, stream>>
      BY <1>0, <2>2, <2>3 DEF References, OutboxReferences, Announced
    <2>4. ASSUME NEW a \in ActionIds, enqueue_outbox_message(a), status'[a] = "READY",
                 UNCHANGED stream
          PROVE  OutboxReferences' /\ stream' = stream
      <3>1. outbox \in Seq(OutboxMessage)
        BY <1>0 DEF StoreTypeOK
      <3>2. /\ DOMAIN outbox' = DOMAIN outbox \cup {Len(outbox) + 1}
            /\ \A m \in DOMAIN outbox : outbox'[m] = outbox[m]
            /\ outbox'[Len(outbox) + 1].action = a
        BY <2>4, <3>1, Enqueued
      <3>3. \A m \in DOMAIN outbox' : status'[outbox'[m].action] \notin {"ABSENT", "AWAITING_APPROVAL"}
        BY <2>2, <2>4, <3>2
      <3>4. QED
        BY <1>0, <2>4, <3>2, <3>3 DEF References, OutboxReferences, Announced
    <2>5. ASSUME NEW r \in Requests, CreateAction(r)
          PROVE  OutboxReferences' /\ stream' = stream
      <3>1. PICK a \in ActionIds : Created(req[r].proposal, a)
        BY <2>5 DEF CreateAction
      <3>2. CASE enqueue_outbox_message(a) /\ Routed(req[r].proposal) = "READY"
        BY <1>0, <2>4, <2>5, <3>1, <3>2 DEF Created, CreateAction, StoreTypeOK
      <3>3. CASE UNCHANGED outbox
        BY <2>3, <2>5, <3>3 DEF CreateAction
      <3>4. QED
        BY <3>1, <3>2, <3>3 DEF Created
    <2>6. ASSUME NEW r \in Requests, ConsumeApproval(r)
          PROVE  OutboxReferences' /\ stream' = stream
      <3>1. req[r].action \in ActionIds
        BY <2>6, Consumed
      <3>2. status'[req[r].action] = "READY"
        BY <1>0, <2>6, <3>1, Moved DEF ConsumeApproval
      <3>3. QED
        BY <2>4, <2>6, <3>1, <3>2 DEF ConsumeApproval
    <2>7. QED
      BY <2>3, <2>5, <2>6
      DEF ServiceNext, BeginPropose, CheckWorkspace, RefuseProposal, ReplayAction, BeginConsume,
        BeginCancel, RefuseConsume,
          CancelAction, LoseRace, AbortRequest, ApprovalLapses, CompleteCompensation, storeVars
  <1>3. StreamReferences'
    BY <1>0, <1>2, RowsAndEntries DEF References, StreamReferences, Grows, Announced
  <1>4. QED
    BY <1>0, <1>1, <1>2, <1>3 DEF References, Grows

\* The relay locks rows of the outbox and adds the actions they name.
LEMMA RelayReferences ==
  ASSUME TypeOK, References, RelayNext, UNCHANGED <<switchVars, serviceVars, connectorVars>>
  PROVE  References'
  <1>0. StoreTypeOK /\ RelayTypeOK /\ OutboxReferences /\ StreamReferences
    BY DEF TypeOK, References
  <1>a. UNCHANGED <<status, row, approval, req>>
    BY DEF serviceVars, RelayNext, RelayStep, SelectBatch, AddToStream, CommitBatch, RelayFails,
           storeVars
  <1> SUFFICES OutboxReferences' /\ StreamReferences'
    BY <1>a DEF References, RequestReferences, Exists, ActsFor
  <1>1. ASSUME NEW w \in Relays, SelectBatch(w)
        PROVE  OutboxReferences' /\ StreamReferences'
    <2>1. PICK batch \in SUBSET Unpublished : relay' = [relay EXCEPT ![w].todo = batch]
      BY <1>1 DEF SelectBatch
    <2>2. UNCHANGED <<status, outbox, stream>>
      BY <1>1 DEF SelectBatch, storeVars
    <2>3. \A v \in Relays : relay'[v].todo \subseteq DOMAIN outbox
                           /\ relay'[v].added \subseteq DOMAIN outbox
      BY <1>0, <2>1 DEF RelayTypeOK, OutboxReferences, Unpublished
    <2>4. QED
      BY <1>0, <2>2, <2>3 DEF OutboxReferences, StreamReferences, Announced
  <1>2. ASSUME NEW w \in Relays, AddToStream(w)
        PROVE  OutboxReferences' /\ StreamReferences'
    <2>1. PICK m \in relay[w].todo :
            /\ stream' = Append(stream, outbox[m].action)
            /\ relay' = [relay EXCEPT ![w] = [todo |-> @.todo \ {m},
                                             added |-> @.added \cup {m}]]
      BY <1>2 DEF AddToStream
    <2>2. UNCHANGED <<status, outbox>>
      BY <1>2 DEF AddToStream
    <2>3. m \in DOMAIN outbox /\ outbox[m].action \in ActionIds
      BY <1>0, RowsAndEntries DEF OutboxReferences
    <2>4. \A v \in Relays : relay'[v].todo \subseteq DOMAIN outbox
                           /\ relay'[v].added \subseteq DOMAIN outbox
      BY <1>0, <2>1, <2>3 DEF RelayTypeOK, OutboxReferences
    <2>5. stream \in Seq(ActionIds)
      BY <1>0 DEF StoreTypeOK
    <2>6. \A i \in DOMAIN stream' :
            \/ i \in DOMAIN stream /\ stream'[i] = stream[i]
            \/ stream'[i] = outbox[m].action
      BY <2>1, <2>3, <2>5
    <2>7. QED
      BY <1>0, <2>2, <2>3, <2>4, <2>6 DEF OutboxReferences, StreamReferences, Announced
  <1>3. ASSUME NEW w \in Relays, CommitBatch(w)
        PROVE  OutboxReferences' /\ StreamReferences'
    <2>1. /\ DOMAIN outbox' = DOMAIN outbox
          /\ \A m \in DOMAIN outbox : outbox'[m].action = outbox[m].action
      BY <1>0, <1>3, Published
    <2>2. UNCHANGED <<status, stream>> /\ relay' = [relay EXCEPT ![w] = IdleRelay]
      BY <1>3 DEF CommitBatch
    <2>3. QED
      BY <1>0, <2>1, <2>2
      DEF OutboxReferences, StreamReferences, Announced, RelayTypeOK, IdleRelay
  <1>4. ASSUME NEW w \in Relays, RelayFails(w)
        PROVE  OutboxReferences' /\ StreamReferences'
    BY <1>0, <1>4
    DEF RelayFails, OutboxReferences, StreamReferences, Announced, RelayTypeOK, IdleRelay
  <1>5. QED
    BY <1>1, <1>2, <1>3, <1>4 DEF RelayNext, RelayStep

\* Connectors keep every reference valid.
LEMMA ConnectorReferences ==
  ASSUME TypeOK, References, Consumers, ConnectorNext,
         UNCHANGED <<switchVars, serviceVars, relay>>
  PROVE  References'
  <1>0. StoreTypeOK /\ ServiceTypeOK /\ Grows
    BY ConnectorGrows DEF TypeOK
  <1>1. UNCHANGED <<row, approval, outbox, stream>> /\ UNCHANGED <<req, relay>>
    BY DEF serviceVars, ConnectorNext, ConnectorStep, Send, ReadGroup, LoadAction, DriveToRunning,
           DriveRefused, SendSucceeds, SendTransient, SendFails, SendRaises, Resolve,
           ResolveRefused, Acknowledge, EntryFails, ConnectorCrashes, storeVars
  <1>2. RequestReferences'
    <2>1. ASSUME NEW r \in Requests, req[r].op \in {"consume", "cancel"}
          PROVE  req[r].action \in ActionIds
      BY <1>0, <2>1, RequestFields DEF ServiceTypeOK
    <2>2. QED
      BY <1>0, <1>1, <2>1 DEF References, RequestReferences, Grows, Exists, ActsFor
  <1>3. OutboxReferences' /\ StreamReferences'
    BY <1>0, <1>1, RowsAndEntries
    DEF References, OutboxReferences, StreamReferences, Grows, Announced
  <1>4. QED
    BY <1>0, <1>2, <1>3 DEF References, Grows

-----------------------------------------------------------------------------
(* Consumers.                                                              *)

\* The stream only grows.
StreamGrows ==
  \A i \in DOMAIN stream : i \in DOMAIN stream' /\ stream'[i] = stream[i]

\* A consumer that keeps its batch keeps the action in hand.
LEMMA CurrentKept ==
  ASSUME TypeOK, References, Consumers, StreamGrows, NEW c \in Connectors,
         conn[c].pc # "idle", conn'[c].batch = conn[c].batch
  PROVE  Current(c)' = Current(c)
  BY EntryInHand DEF StreamGrows, Current, Entry

\* What a consumer that does not move knows stays true.
LEMMA ConsumerKept ==
  ASSUME TypeOK, References, Consumers, Grows, StreamGrows, NEW c \in Connectors,
         conn'[c] = conn[c], cursor' \in Nat, cursor <= cursor'
  PROVE  ConsumerOK(c)'
  <1>1. ConsumerOK(c) /\ cursor \in Nat
    BY DEF Consumers, TypeOK, ConnectorTypeOK
  <1>2. \A i \in DOMAIN conn[c].batch : conn[c].batch[i] \in 1 .. cursor'
    BY <1>1 DEF ConsumerOK
  <1>3. CASE conn[c].pc = "idle"
    BY <1>2, <1>3 DEF ConsumerOK
  <1>4. CASE conn[c].pc # "idle"
    <2>1. Current(c)' = Current(c) /\ Current(c) \in ActionIds /\ Announced(Current(c))
      BY <1>4, EntryInHand, CurrentKept
    <2>2. /\ row'[Current(c)] = row[Current(c)]
          /\ status'[Current(c)] = "READY" => status[Current(c)] = "READY"
      BY <2>1 DEF Grows, Announced, Exists
    <2>3. NeedsConnector(Current(c))' => NeedsConnector(Current(c))
      BY <2>1, <2>2 DEF NeedsConnector
    <2>4. QED
      BY <1>1, <1>2, <2>1, <2>2, <2>3 DEF ConsumerOK
  <1>5. QED
    BY <1>3, <1>4

\* What consumers know of their entry survives the steps of requests.
LEMMA ServiceConsumers ==
  ASSUME TypeOK, References, Consumers, ServiceNext,
         UNCHANGED <<switchVars, relay, connectorVars>>
  PROVE  Consumers'
  <1>1. stream' = stream /\ cursor' = cursor /\ conn' = conn
    BY DEF connectorVars, ServiceNext, BeginPropose, CheckWorkspace, RefuseProposal,
           CreateAction, ReplayAction, BeginConsume,
           BeginCancel, ConsumeApproval, RefuseConsume, CancelAction, LoseRace, AbortRequest,
           ApprovalLapses, CompleteCompensation, storeVars
  <1>2. Grows /\ StreamGrows /\ cursor' \in Nat /\ cursor <= cursor'
    BY <1>1, ServiceGrows DEF StreamGrows, TypeOK, ConnectorTypeOK
  <1>3. QED
    BY <1>1, <1>2, ConsumerKept DEF Consumers

\* The relay leaves actions and approvals alone and only adds entries.
LEMMA RelayGrows ==
  ASSUME TypeOK, References, RelayNext
  PROVE  Grows /\ StreamGrows /\ Len(stream) <= Len(stream') /\ Len(stream') \in Nat
  <1>0. StoreTypeOK /\ stream \in Seq(ActionIds)
    BY DEF TypeOK, StoreTypeOK
  <1>1. UNCHANGED <<status, row, approval>>
    BY DEF RelayNext, RelayStep, SelectBatch, AddToStream, CommitBatch, RelayFails, storeVars
  <1>2. Grows
    BY <1>1 DEF Grows, References, Exists, Announced, NotStarted
  <1>3. stream' = stream \/ \E a \in ActionIds : stream' = Append(stream, a)
    <2>1. ASSUME NEW w \in Relays, AddToStream(w)
          PROVE  \E a \in ActionIds : stream' = Append(stream, a)
      BY <1>0, <2>1, RowsAndEntries DEF AddToStream, References, OutboxReferences
    <2>2. QED
      BY <2>1 DEF RelayNext, RelayStep, SelectBatch, CommitBatch, RelayFails, storeVars
  <1>4. StreamGrows /\ Len(stream) <= Len(stream') /\ Len(stream') \in Nat
    BY <1>0, <1>3 DEF StreamGrows
  <1>5. QED
    BY <1>2, <1>4

\* What consumers know of their entry survives the steps of the relay.
LEMMA RelayConsumers ==
  ASSUME TypeOK, References, Consumers, RelayNext,
         UNCHANGED <<switchVars, serviceVars, connectorVars>>
  PROVE  Consumers'
  <1>0. stream \in Seq(ActionIds) /\ cursor \in Nat /\ cursor' = cursor /\ conn' = conn
    BY DEF TypeOK, StoreTypeOK, ConnectorTypeOK, connectorVars
  <1>1. cursor' <= Len(stream')
    BY <1>0, RelayGrows DEF Consumers
  <1>2. QED
    BY <1>0, <1>1, RelayGrows, ConsumerKept DEF Consumers

\* A consumer that has moved on knows nothing of its next entry yet.
LEMMA ConsumerMovedOn ==
  ASSUME TypeOK, Consumers, NEW c \in Connectors, conn[c].batch # <<>>, NextEntry(c),
         cursor' = cursor
  PROVE  ConsumerOK(c)'
  <1>1. ConsumerOK(c)
    BY DEF Consumers
  <1>2. \A i \in DOMAIN conn'[c].batch : conn'[c].batch[i] \in 1 .. cursor'
    BY <1>1, MovingOn DEF ConsumerOK
  <1>3. QED
    BY <1>2, MovingOn DEF ConsumerOK

\* Each consumer's place in the code tells what it knows of its entry.
LEMMA ConnectorConsumers ==
  ASSUME TypeOK, References, Consumers, ConnectorNext,
         UNCHANGED <<switchVars, serviceVars, relay>>
  PROVE  Consumers'
  <1>0. StoreTypeOK /\ stream' = stream /\ row' = row
    BY DEF TypeOK, ConnectorNext, ConnectorStep, Send, ReadGroup, LoadAction, DriveToRunning,
           DriveRefused, SendSucceeds, SendTransient, SendFails, SendRaises, Resolve,
           ResolveRefused, Acknowledge, EntryFails, ConnectorCrashes, storeVars
  <1>a. Grows /\ StreamGrows /\ cursor \in Nat
    BY <1>0, ConnectorGrows DEF StreamGrows, TypeOK, ConnectorTypeOK
  <1>b. ASSUME NEW c \in Connectors, cursor' = cursor, ConsumerOK(c)',
               \A d \in Connectors : d # c => conn'[d] = conn[d]
        PROVE  Consumers'
    BY <1>0, <1>a, <1>b, ConsumerKept DEF Consumers
  <1>c. ASSUME NEW c \in Connectors, conn[c].pc # "idle", conn'[c].batch = conn[c].batch,
               cursor' = cursor,
               conn'[c].pc \in {"drive", "send", "resolve"} =>
                 row[Current(c)].tool = TELEGRAM_TOOL_NAME,
               conn'[c].pc = "resolve" => conn'[c].target \in {"SUCCEEDED", "FAILED"},
               conn'[c].pc = "ack" =>
                 status'[Current(c)] # "READY" \/ row[Current(c)].tool # TELEGRAM_TOOL_NAME
        PROVE  ConsumerOK(c)'
    <2>1. Current(c)' = Current(c)
      BY <1>a, <1>c, CurrentKept
    <2>2. QED
      BY <1>0, <1>c, <2>1 DEF Consumers, ConsumerOK, NeedsConnector
  <1>1. ASSUME NEW c \in Connectors, ReadGroup(c)
        PROVE  Consumers'
    <2>1. ConsumerOK(c)'
      BY <1>1, Reading DEF ConsumerOK
    <2>2. cursor' \in Nat /\ cursor <= cursor' /\ cursor' <= Len(stream')
      BY <1>0, <1>1, Reading
    <2>3. QED
      BY <1>a, <1>1, <2>1, <2>2, ConsumerKept, Reading DEF Consumers
  <1>2. ASSUME NEW c \in Connectors, LoadAction(c)
        PROVE  Consumers'
    <2>1. cursor' = cursor /\ status' = status /\ conn[c].pc = "load"
      BY <1>2 DEF LoadAction, At, storeVars
    <2>2. CASE Goto(c, "drive") /\ row[Current(c)].tool = TELEGRAM_TOOL_NAME
      BY <1>b, <1>c, <2>1, <2>2, GoingTo
    <2>3. CASE Goto(c, "ack") /\ ~(/\ row[Current(c)].tool = TELEGRAM_TOOL_NAME
                                   /\ status[Current(c)] = "READY")
      BY <1>b, <1>c, <2>1, <2>3, GoingTo
    <2>4. QED
      BY <1>2, <2>2, <2>3 DEF LoadAction
  <1>3. ASSUME NEW c \in Connectors, DriveToRunning(c)
        PROVE  Consumers'
    <2>1. cursor' = cursor /\ conn[c].pc = "drive" /\ row[Current(c)].tool = TELEGRAM_TOOL_NAME
      BY <1>3 DEF DriveToRunning, At, Consumers, ConsumerOK
    <2>2. CASE Goto(c, "send")
      BY <1>b, <1>c, <2>1, <2>2, GoingTo
    <2>3. CASE ResolveAs(c, "FAILED")
      BY <1>b, <1>c, <2>1, <2>3, ResolvingAs
    <2>4. QED
      BY <1>3, <2>2, <2>3 DEF DriveToRunning
  <1>4. ASSUME NEW c \in Connectors, NextEntry(c), conn[c].pc # "idle", cursor' = cursor
        PROVE  Consumers'
    <2>1. conn[c].batch # <<>>
      BY <1>4, EntryInHand
    <2>2. QED
      BY <1>4, <1>b, <2>1, MovingOn, ConsumerMovedOn
  <1>5. ASSUME NEW c \in Connectors, At(c, "send"), cursor' = cursor,
               \/ ResolveAs(c, "SUCCEEDED") \/ ResolveAs(c, "FAILED") \/ Retry(c)
        PROVE  Consumers'
    <2>1. conn[c].pc = "send" /\ row[Current(c)].tool = TELEGRAM_TOOL_NAME
      BY <1>5 DEF At, Consumers, ConsumerOK
    <2>2. CASE ResolveAs(c, "SUCCEEDED") \/ ResolveAs(c, "FAILED")
      BY <1>5, <1>b, <1>c, <2>1, <2>2, ResolvingAs
    <2>3. CASE Retry(c)
      BY <1>5, <1>b, <1>c, <2>1, <2>3, Retrying
    <2>4. QED
      BY <1>5, <2>2, <2>3
  <1>6. ASSUME NEW c \in Connectors, Resolve(c)
        PROVE  Consumers'
    <2>1. /\ cursor' = cursor /\ conn[c].pc = "resolve" /\ Goto(c, "ack")
          /\ conn[c].target \in {"SUCCEEDED", "FAILED"}
      BY <1>6 DEF Resolve, At, Consumers, ConsumerOK
    <2>2. Current(c) \in ActionIds
      BY <2>1, EntryInHand
    <2>3. status'[Current(c)] # "READY"
      BY <1>0, <1>6, <2>1, <2>2, Moved DEF Resolve
    <2>4. QED
      BY <1>b, <1>c, <2>1, <2>3, GoingTo
  <1>7. ASSUME NEW c \in Connectors, ConnectorCrashes(c)
        PROVE  Consumers'
    <2>1. /\ cursor' = cursor
          /\ conn' = [conn EXCEPT ![c] = IdleConn]
          /\ conn \in [Connectors -> ConnState]
      BY <1>7 DEF ConnectorCrashes, TypeOK, ConnectorTypeOK
    <2>2. conn'[c] = IdleConn /\ \A d \in Connectors : d # c => conn'[d] = conn[d]
      BY <2>1
    <2>3. conn'[c].pc = "idle" /\ DOMAIN conn'[c].batch = {}
      BY <2>2 DEF IdleConn
    <2>4. ConsumerOK(c)'
      BY <2>3 DEF ConsumerOK
    <2>5. QED
      BY <1>b, <2>1, <2>2, <2>4
  <1>8. QED
    BY <1>1, <1>2, <1>3, <1>4, <1>5, <1>6, <1>7
    DEF ConnectorNext, ConnectorStep, Send, DriveRefused, SendSucceeds, SendTransient, SendFails,
        SendRaises, ResolveRefused, Acknowledge, EntryFails, At

-----------------------------------------------------------------------------
(* Authorisation.                                                          *)

\* A transition other than an approval needs none.
LEMMA AuthorisedMoved ==
  ASSUME StoreTypeOK, References, Authorised, NEW a \in ActionIds,
         NEW target \in {"RUNNING", "CANCELLED", "COMPENSATING",
                         "COMPENSATED", "SUCCEEDED", "FAILED"},
         NEW by, NEW receipt, apply_transition(a, target, by, receipt),
         row' = row, approval' = approval, req' = req \/ \E r \in Requests : EndRequest(r),
         ServiceTypeOK
  PROVE  Authorised'
  <1>1. Announced(a) /\ \A b \in ActionIds : b # a => status'[b] = status[b]
    BY Moved
  <1>2. \A r \in Requests : req'[r] = req[r] \/ req'[r].op = "idle"
    BY DEF EndRequest, IdleRequest, ServiceTypeOK
  <1>3. RiskyActionsAreApproved'
    BY <1>1 DEF Authorised, RiskyActionsAreApproved, Announced, Exists
  <1>4. QED
    BY <1>1, <1>2, <1>3 DEF Authorised, Announced, Exists

\* The floor of the one registered tool.
LEMMA RiskFloor ==
  ASSUME NEW tool, NEW risk \in RiskLevel
  PROVE  /\ enforce_minimum_risk_level(tool, risk) \in RiskLevel
         /\ tool = TELEGRAM_TOOL_NAME => enforce_minimum_risk_level(tool, risk) >= 3
  BY DEF enforce_minimum_risk_level, TOOL_MINIMUM_RISK_LEVEL, RiskLevel

\* Requests keep the risk floor and the approvals of risky actions.
LEMMA ServiceAuthorised ==
  ASSUME TypeOK, References, Authorised, ServiceNext
  PROVE  Authorised'
  <1>0. StoreTypeOK /\ ServiceTypeOK
    BY DEF TypeOK
  <1>a. ASSUME UNCHANGED <<status, row, approval>>,
               req' = req \/ \E r \in Requests :
                 \/ EndRequest(r)
                 \/ \E x : /\ req' = [req EXCEPT ![r] = x]
                          /\ \/ x.op \notin {"check", "propose"}
                             \/ x.proposal.tool # TELEGRAM_TOOL_NAME
                             \/ x.proposal.risk >= 3
        PROVE  Authorised'
    <2>1. \A r \in Requests :
            req'[r].op \in {"check", "propose"} /\ req'[r].proposal.tool = TELEGRAM_TOOL_NAME =>
              req'[r].proposal.risk >= 3
      BY <1>0, <1>a DEF Authorised, EndRequest, IdleRequest, ServiceTypeOK
    <2>2. QED
      BY <1>a, <2>1 DEF Authorised, RiskyActionsAreApproved, Exists
  <1>b. ASSUME NEW r \in Requests, EndRequest(r)
        PROVE  \A q \in Requests : req'[q] = req[q] \/ req'[q].op = "idle"
    BY <1>0, <1>b DEF EndRequest, IdleRequest, ServiceTypeOK
  <1>1. ASSUME NEW r \in Requests, NEW user \in Users, NEW tool \in Tools,
               NEW risk \in RequestedRisks, NEW payload \in Payloads, NEW key \in Keys,
               BeginPropose(r, user, tool, risk, payload, key)
        PROVE  Authorised'
    <2> DEFINE p == [actor |-> user, tool |-> tool,
                     risk |-> enforce_minimum_risk_level(tool, risk),
                     payload |-> payload, key |-> key]
               x == [op |-> "check", proposal |-> p]
    <2>1. tool = TELEGRAM_TOOL_NAME => enforce_minimum_risk_level(tool, risk) >= 3
      BY RiskFloor, ServiceAssumption
    <2>2. x.proposal.tool # TELEGRAM_TOOL_NAME \/ x.proposal.risk >= 3
      BY <2>1
    <2>3. req' = [req EXCEPT ![r] = x] /\ UNCHANGED <<status, row, approval>>
      BY <1>1 DEF BeginPropose, storeVars
    <2> HIDE DEF x
    <2>4. QED
      BY <1>a, <2>2, <2>3
  <1>2. ASSUME NEW r \in Requests, CreateAction(r)
        PROVE  Authorised'
    <2> DEFINE p == req[r].proposal
    <2>1. p \in Proposal /\ (p.tool = TELEGRAM_TOOL_NAME => p.risk >= 3)
      BY <1>0, <1>2, RequestFields DEF CreateAction, ServiceTypeOK, Authorised
    <2>2. PICK a \in ActionIds : Created(p, a)
      BY <1>2 DEF CreateAction
    <2>3. \A q \in Requests : req'[q] = req[q] \/ req'[q].op = "idle"
      BY <1>b, <1>2 DEF CreateAction
    <2> HIDE DEF p
    <2>4. /\ row'[a] = p /\ status'[a] = Routed(p)
          /\ \A b \in ActionIds : b # a =>
               status'[b] = status[b] /\ row'[b] = row[b] /\ approval'[b] = approval[b]
      BY <1>0, <2>2 DEF Created, StoreTypeOK
    <2>5. CASE p.risk \in AUTO_APPROVED_RISK_LEVELS
      BY <2>1, <2>3, <2>4, <2>5 DEF Authorised, RiskyActionsAreApproved, Exists
    <2>6. CASE p.risk \notin AUTO_APPROVED_RISK_LEVELS
      <3>1. status'[a] = "AWAITING_APPROVAL" /\ Routed(p) # "READY"
        BY <2>4, <2>6 DEF Routed
      <3>2. approval'[a] # None
        <4>1. [status |-> "PENDING", payload_hash |-> hash_payload(p.payload), approver |-> None]
                \in Approval
          BY <2>1 DEF Approval, ApprovalStatus, hash_payload, Proposal
        <4>2. approval' = [approval EXCEPT ![a] =
                 [status |-> "PENDING", payload_hash |-> hash_payload(p.payload), approver |-> None]]
          BY <2>2, <3>1 DEF Created
        <4>3. QED
          BY <1>0, <4>1, <4>2, StoreAssumption DEF StoreTypeOK
      <3>3. QED
        BY <2>1, <2>3, <2>4, <3>1, <3>2 DEF Authorised, RiskyActionsAreApproved, Exists
    <2>7. QED
      BY <2>5, <2>6
  <1>3. ASSUME NEW r \in Requests, ConsumeApproval(r)
        PROVE  Authorised'
    <2>1. PICK a \in ActionIds : a = req[r].action
      BY <1>3, Consumed
    <2>2. /\ status'[a] = "READY" /\ row' = row /\ Exists(a)
          /\ \A b \in ActionIds : b # a => status'[b] = status[b] /\ approval'[b] = approval[b]
      BY <1>0, <1>3, <2>1, Moved, Consumed DEF ConsumeApproval
    <2>3. \A q \in Requests : req'[q] = req[q] \/ req'[q].op = "idle"
      BY <1>b, <1>3 DEF ConsumeApproval
    <2>4. /\ approval'[a] # None
          /\ approval'[a].status = "APPROVED"
          /\ approval'[a].payload_hash = row[a].payload
          /\ approval'[a].approver \in {row[a].actor} \cup Admins
      BY <1>3, <2>1, Consumed, StoreAssumption
      DEF ConsumeApproval, HashMatches, hash_payload, References, RequestReferences, ActsFor
    <2>5. RiskyActionsAreApproved'
      BY <2>2, <2>4 DEF Authorised, RiskyActionsAreApproved, Exists
    <2>6. QED
      BY <2>2, <2>3, <2>4, <2>5 DEF Authorised, Exists
  <1>4. ASSUME NEW r \in Requests, CancelAction(r)
        PROVE  Authorised'
    <2>1. req[r].action \in ActionIds /\ req[r].target \in {"CANCELLED", "COMPENSATING"}
      BY <1>0, <1>4, RequestFields DEF CancelAction, ServiceTypeOK
    <2>2. QED
      BY <1>0, <1>4, <2>1, AuthorisedMoved DEF CancelAction
  <1>5. ASSUME NEW user \in Admins, NEW a \in ActionIds,
               NEW outcome \in {"COMPENSATED", "FAILED"},
               CompleteCompensation(user, a, outcome)
        PROVE  Authorised'
    BY <1>0, <1>5, AuthorisedMoved DEF CompleteCompensation
  <1>6. ASSUME NEW r \in Requests, NEW user \in Users, NEW a \in ActionIds,
               BeginConsume(r, user, a) \/ BeginCancel(r, user, a)
        PROVE  Authorised'
    <2> DEFINE consume == [op |-> "consume", user |-> user, action |-> a, late |-> a \in lapsed]
               cancel == [op |-> "cancel", user |-> user, action |-> a,
                          target |-> IF status[a] = "READY"
                                     THEN "CANCELLED" ELSE "COMPENSATING"]
    <2>1. PICK x : req' = [req EXCEPT ![r] = x] /\ x.op \notin {"check", "propose"}
      <3>1. consume.op \notin {"check", "propose"} /\ cancel.op \notin {"check", "propose"}
        OBVIOUS
      <3>2. req' = [req EXCEPT ![r] = consume] \/ req' = [req EXCEPT ![r] = cancel]
        BY <1>6 DEF BeginConsume, BeginCancel
      <3> HIDE DEF consume, cancel
      <3>3. QED
        BY <3>1, <3>2
    <2>2. QED
      BY <1>6, <1>a, <2>1 DEF BeginConsume, BeginCancel, storeVars
  <1>7. ASSUME NEW r \in Requests, CheckWorkspace(r)
        PROVE  Authorised'
    <2> DEFINE x == [op |-> "propose", proposal |-> req[r].proposal]
    <2>1. req[r].proposal.tool # TELEGRAM_TOOL_NAME \/ req[r].proposal.risk >= 3
      BY <1>7 DEF CheckWorkspace, Authorised
    <2>2. x.proposal.tool # TELEGRAM_TOOL_NAME \/ x.proposal.risk >= 3
      BY <2>1
    <2>3. req' = [req EXCEPT ![r] = x] /\ UNCHANGED <<status, row, approval>>
      BY <1>7 DEF CheckWorkspace, storeVars
    <2> HIDE DEF x
    <2>4. QED
      BY <1>a, <2>2, <2>3
  <1>8. QED
    BY <1>a, <1>1, <1>2, <1>3, <1>4, <1>5, <1>6, <1>7
    DEF ServiceNext, RefuseProposal, ReplayAction, RefuseConsume, LoseRace, AbortRequest, ApprovalLapses, storeVars

\* Connectors start and settle only what is authorised already.
LEMMA ConnectorAuthorised ==
  ASSUME TypeOK, References, Consumers, Authorised, ConnectorNext,
         UNCHANGED <<switchVars, serviceVars, relay>>
  PROVE  Authorised'
  <1>0. StoreTypeOK /\ ServiceTypeOK /\ req' = req
    BY DEF TypeOK, serviceVars
  <1>a. ASSUME UNCHANGED <<status, row, approval>>
        PROVE  Authorised'
    BY <1>0, <1>a DEF Authorised, RiskyActionsAreApproved, Exists
  <1>1. ASSUME NEW c \in Connectors, DriveToRunning(c)
        PROVE  Authorised'
    <2>1. Current(c) \in ActionIds
      BY <1>1, EntryInHand DEF DriveToRunning, At
    <2>2. QED
      BY <1>0, <1>1, <2>1, AuthorisedMoved DEF DriveToRunning
  <1>2. ASSUME NEW c \in Connectors, Resolve(c)
        PROVE  Authorised'
    <2>1. Current(c) \in ActionIds /\ conn[c].target \in {"SUCCEEDED", "FAILED"}
      BY <1>2, EntryInHand DEF Resolve, At, Consumers, ConsumerOK
    <2>2. QED
      BY <1>0, <1>2, <2>1, AuthorisedMoved DEF Resolve
  <1>3. QED
    BY <1>a, <1>1, <1>2
    DEF ConnectorNext, ConnectorStep, Send, ReadGroup, LoadAction, DriveRefused, SendSucceeds,
        SendTransient, SendFails, SendRaises, ResolveRefused, Acknowledge, EntryFails,
        ConnectorCrashes, storeVars
=============================================================================
