----------------------------- MODULE KillSwitch -----------------------------
(***************************************************************************)
(* The kill switch (application/kill_switch_service.py): one row per       *)
(* engaged scope, engaged and disengaged by concurrent HTTP requests, read *)
(* by propose_action before it creates anything.                           *)
(*                                                                         *)
(* A request first reads the row (session.get), then inserts or deletes by *)
(* primary key in the same transaction.  An insert that meets a committed  *)
(* row fails, and the request reads the row again.  A DELETE that finds    *)
(* the row holds its lock until the commit; one that finds none holds      *)
(* nothing and is no error, and its request goes on to audit all the same. *)
(***************************************************************************)
EXTENDS Integers, Sequences, FiniteSets

CONSTANTS
  Operators,      \* request slots of the users allowed to operate a switch
  Scopes,         \* the switches that are operated
  MaxIncidents    \* bound on the engagements of all switches: none is begun
                  \* after that many

ASSUME SwitchAssumption ==
  /\ MaxIncidents \in Nat
  /\ Scopes \subseteq {"customer", "workspace"}

VARIABLES
  switch,         \* the scopes whose row exists
  operator,       \* request slot -> what it is doing
  switchTrail,    \* scope -> its audited events
  alerts          \* scope -> rounds of SECURITY_ALERT notifications

switchVars == <<switch, operator, switchTrail, alerts>>

IdleOperator == [op |-> "idle"]

Operation ==
  [op: {"insert", "refetch", "assert_failed", "delete", "deleted", "late"},
   scope: Scopes]

SwitchTypeOK ==
  /\ switch \subseteq Scopes
  /\ operator \in [Operators -> Operation \cup {IdleOperator}]
  /\ switchTrail \in [Scopes -> Seq({"engaged", "disengaged"})]
  /\ alerts \in [Scopes -> Nat]

SwitchInit ==
  /\ switch = {}
  /\ operator = [o \in Operators |-> IdleOperator]
  /\ switchTrail = [s \in Scopes |-> <<>>]
  /\ alerts = [s \in Scopes |-> 0]

Continue(o, op, s) ==
  operator' = [operator EXCEPT ![o] = [op |-> op, scope |-> s]]

Finish(o) == operator' = [operator EXCEPT ![o] = IdleOperator]

\* A request has deleted the row and not committed: others still read it, and
\* an insert or a DELETE of it waits.
RowLocked(s) ==
  \E o \in Operators : operator[o] = [op |-> "deleted", scope |-> s]

\* The engagements that have been alerted, numbered by scope.
Incidents == {i \in Scopes \X (1 .. MaxIncidents) : i[2] <= alerts[i[1]]}

\* engage_*_kill_switch, the first read.  A row that is already there ends
\* the request without any effect.
BeginEngage(o, s) ==
  /\ operator[o] = IdleOperator
  /\ s \notin switch
  /\ Cardinality(Incidents) < MaxIncidents
  /\ Continue(o, "insert", s)
  /\ UNCHANGED <<switch, switchTrail, alerts>>

\* Mutated form: the insert does not meet the primary key of another request.
EngageUnchecked(o) ==
  LET s == operator[o].scope
  IN  /\ operator[o].op = "insert"
      /\ switch' = switch \cup {s}
      /\ switchTrail' = [switchTrail EXCEPT ![s] = Append(@, "engaged")]
      /\ alerts' = [alerts EXCEPT ![s] = @ + 1]
      /\ Finish(o)

\* The insert succeeds: the row, its audit event and one alert per member
\* commit together.
Engage(o) ==
  LET s == operator[o].scope
  IN  /\ operator[o].op = "insert"
      /\ s \notin switch
      /\ switch' = switch \cup {s}
      /\ switchTrail' = [switchTrail EXCEPT ![s] = Append(@, "engaged")]
      /\ alerts' = [alerts EXCEPT ![s] = @ + 1]
      /\ Finish(o)

\* The insert meets the row of a request that committed meanwhile: the
\* savepoint is rolled back and the existing row is fetched.
EngageConflict(o) ==
  /\ operator[o].op = "insert"
  /\ operator[o].scope \in switch
  /\ ~RowLocked(operator[o].scope)
  /\ Continue(o, "refetch", operator[o].scope)
  /\ UNCHANGED <<switch, switchTrail, alerts>>

\* "assert existing is not None", then the existing row is returned.  When
\* the row is gone the assertion error ends the request with a rollback.
EngageRefetch(o) ==
  /\ operator[o].op = "refetch"
  /\ IF operator[o].scope \in switch
     THEN Finish(o)
     ELSE Continue(o, "assert_failed", operator[o].scope)
  /\ UNCHANGED <<switch, switchTrail, alerts>>

\* The error response of a failed assertion has been sent.
ReportAssertion(o) ==
  /\ operator[o].op = "assert_failed"
  /\ Finish(o)
  /\ UNCHANGED <<switch, switchTrail, alerts>>

\* disengage_*_kill_switch, the first read.  No row, no effect.
BeginDisengage(o, s) ==
  /\ operator[o] = IdleOperator
  /\ s \in switch
  /\ Continue(o, "delete", s)
  /\ UNCHANGED <<switch, switchTrail, alerts>>

\* The DELETE by primary key finds the row, or waits for a request that
\* deletes it.
DeleteRow(o) ==
  /\ operator[o].op = "delete"
  /\ operator[o].scope \in switch
  /\ ~RowLocked(operator[o].scope)
  /\ Continue(o, "deleted", operator[o].scope)
  /\ UNCHANGED <<switch, switchTrail, alerts>>

\* The row the request read is gone when the DELETE runs, or when it has
\* waited for the commit that deleted it.
DeleteNothing(o) ==
  /\ operator[o].op = "delete"
  /\ operator[o].scope \notin switch
  /\ Continue(o, "late", operator[o].scope)
  /\ UNCHANGED <<switch, switchTrail, alerts>>

\* Mutated form: the row is deleted without an audit event.
DisengageUnaudited(o) ==
  LET s == operator[o].scope
  IN  /\ operator[o].op = "deleted"
      /\ switch' = switch \ {s}
      /\ Finish(o)
      /\ UNCHANGED <<switchTrail, alerts>>

\* The deletion commits with its audit event.
Disengage(o) ==
  LET s == operator[o].scope
  IN  /\ operator[o].op = "deleted"
      /\ switch' = switch \ {s}
      /\ switchTrail' = [switchTrail EXCEPT ![s] = Append(@, "disengaged")]
      /\ Finish(o)
      /\ UNCHANGED alerts

\* The request that deleted nothing audits a disengagement too, whatever has
\* become of the switch since.
DisengageLate(o) ==
  LET s == operator[o].scope
  IN  /\ operator[o].op = "late"
      /\ switchTrail' = [switchTrail EXCEPT ![s] = Append(@, "disengaged")]
      /\ Finish(o)
      /\ UNCHANGED <<switch, alerts>>

SwitchNext ==
  \E o \in Operators :
     \/ \E s \in Scopes : BeginEngage(o, s) \/ BeginDisengage(o, s)
     \/ Engage(o)
     \/ EngageConflict(o)
     \/ EngageRefetch(o)
     \/ ReportAssertion(o)
     \/ DeleteRow(o)
     \/ DeleteNothing(o)
     \/ Disengage(o)
     \/ DisengageLate(o)

SwitchSpec == SwitchInit /\ [][SwitchNext]_switchVars

-----------------------------------------------------------------------------
\* A switch is never off behind the trail's back: one that is off was never
\* engaged, or its last audited event is a disengagement, whatever requests
\* raced.  (The converse fails: a request that deleted nothing audits its
\* disengagement after a new engagement.)
OffIsAudited ==
  \A s \in Scopes :
    LET t == switchTrail[s]
    IN  s \notin switch => t = <<>> \/ t[Len(t)] = "disengaged"

\* Requests that engage one switch at the same moment make one incident of
\* it: no two engagements in a row are audited, and the members are alerted
\* once for each of them.
OneIncidentPerEngagement ==
  \A s \in Scopes :
    LET t == switchTrail[s]
    IN  /\ \A i \in 1 .. Len(t) - 1 : t[i] = "engaged" => t[i + 1] = "disengaged"
        /\ alerts[s] = Cardinality({i \in DOMAIN t : t[i] = "engaged"})
=============================================================================
