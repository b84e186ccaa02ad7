--------------------------- MODULE SessionsProofs ---------------------------
(***************************************************************************)
(* The theorems about sessions, for any number of browsers, callbacks at a *)
(* time, requests and customers, any headers and any timeouts.             *)
(***************************************************************************)
EXTENDS Sessions, TLAPS

LoginRecord ==
  [pc : {"idle", "user", "insert", "device", "match", "commit", "answer"},
   browser : Browsers \cup {None}, agent : Agents \cup {None},
   baseline : BOOLEAN, new : BOOLEAN, at : 0 .. MaxTime,
   session : Nat, todo : SUBSET Customers]

RequestRecord ==
  [pc : {"idle", "touch", "work"}, session : Nat, at : 0 .. MaxTime]

-----------------------------------------------------------------------------
(* The rows of sessions.                                                   *)

\* What a touch or a revocation leaves of a row.
LEMMA TouchedRow ==
  ASSUME NEW s \in SessionRecord, NEW t \in Nat
  PROVE  LET n == [s EXCEPT !.last_seen_at = t]
         IN  /\ n \in SessionRecord
             /\ n.agent = s.agent /\ n.baseline = s.baseline /\ n.new = s.new
             /\ n.revoked = s.revoked /\ n.expires_at = s.expires_at /\ n.last_seen_at = t
  BY DEF SessionRecord

LEMMA RevokedRow ==
  ASSUME NEW s \in SessionRecord
  PROVE  LET n == [s EXCEPT !.revoked = TRUE]
         IN  /\ n \in SessionRecord
             /\ n.agent = s.agent /\ n.baseline = s.baseline /\ n.new = s.new
             /\ n.revoked = TRUE /\ n.expires_at = s.expires_at
             /\ n.last_seen_at = s.last_seen_at
  BY DEF SessionRecord

\* The rows keep who logged in, with what, and what was made of it.
SameLogins ==
  /\ DOMAIN session' = DOMAIN session
  /\ Len(session') = Len(session)
  /\ session' \in Seq(SessionRecord)
  /\ \A i \in DOMAIN session :
       /\ session'[i].agent = session[i].agent
       /\ session'[i].baseline = session[i].baseline
       /\ session'[i].new = session[i].new

LEMMA RowReplaced ==
  ASSUME session \in Seq(SessionRecord), NEW i \in DOMAIN session, NEW n \in SessionRecord,
         n.agent = session[i].agent, n.baseline = session[i].baseline, n.new = session[i].new,
         session' = [session EXCEPT ![i] = n]
  PROVE  SameLogins /\ session'[i] = n /\ \A j \in DOMAIN session : j # i => session'[j] = session[j]
  BY DEF SameLogins

LEMMA Touched ==
  ASSUME SessionInvariant, NEW r \in Requests, Touch(r)
  PROVE  LET i == request[r].session IN
         /\ i \in DOMAIN session
         /\ SameLogins
         /\ session'[i].revoked = session[i].revoked
         /\ session'[i].expires_at = session[i].expires_at
         /\ \A j \in DOMAIN session : j # i => session'[j] = session[j]
  <1> DEFINE i == request[r].session
             n == [session[i] EXCEPT !.last_seen_at = request[r].at]
  <1>1. i \in DOMAIN session /\ session \in Seq(SessionRecord) /\ request[r].at \in Nat
    BY SessionAssumption DEF SessionInvariant, RequestOK, TypeOK, Touch
  <1>2. session[i] \in SessionRecord
    BY <1>1
  <1>3. session' = [session EXCEPT ![i] = n]
    BY DEF Touch
  <1>4. /\ n \in SessionRecord
        /\ n.agent = session[i].agent /\ n.baseline = session[i].baseline
        /\ n.new = session[i].new /\ n.revoked = session[i].revoked
        /\ n.expires_at = session[i].expires_at
    BY <1>1, <1>2, TouchedRow
  <1> HIDE DEF n, i
  <1>5. QED
    BY <1>1, <1>3, <1>4, RowReplaced DEF i

LEMMA Revoked ==
  ASSUME SessionInvariant, NEW r \in Requests, NEW i \in DOMAIN session, Revoke(r, i)
  PROVE  /\ SameLogins
         /\ session'[i].revoked = TRUE
         /\ \A j \in DOMAIN session : j # i => session'[j] = session[j]
  <1> DEFINE n == [session[i] EXCEPT !.revoked = TRUE]
  <1>1. session \in Seq(SessionRecord)
    BY DEF SessionInvariant, TypeOK
  <1>2. session[i] \in SessionRecord
    BY <1>1
  <1>3. session' = [session EXCEPT ![i] = n]
    BY DEF Revoke
  <1>4. /\ n \in SessionRecord
        /\ n.agent = session[i].agent /\ n.baseline = session[i].baseline
        /\ n.new = session[i].new /\ n.revoked = TRUE
    BY <1>2, RevokedRow
  <1> HIDE DEF n
  <1>5. QED
    BY <1>1, <1>3, <1>4, RowReplaced

\* A committed login: the row it adds, after the rows there were.
LEMMA Committed ==
  ASSUME SessionInvariant, NEW l \in Logins, CommitLogin(l)
  PROVE  LET i == Len(session) + 1 IN
         /\ session' \in Seq(SessionRecord)
         /\ Len(session') = i /\ Len(session) \in Nat
         /\ DOMAIN session' = DOMAIN session \cup {i} /\ DOMAIN session = 1 .. Len(session)
         /\ \A j \in DOMAIN session : session'[j] = session[j]
         /\ session'[i].agent = login[l].agent /\ session'[i].baseline = login[l].baseline
         /\ session'[i].new = login[l].new
         /\ alerts' \in Seq(SUBSET Customers) /\ Len(alerts') = i
         /\ \A j \in DOMAIN session : alerts'[j] = alerts[j]
         /\ alerts'[i] = {}
  <1> DEFINE n == [agent |-> login[l].agent, last_seen_at |-> login[l].at,
                   expires_at |-> login[l].at + ABSOLUTE_TIMEOUT, revoked |-> FALSE,
                   baseline |-> login[l].baseline, new |-> login[l].new]
  <1>1. login[l] \in LoginRecord
    BY DEF SessionInvariant, TypeOK, LoginRecord
  <1>2. login[l].agent \in Agents \cup {None}
    BY <1>1 DEF LoginRecord
  <1>3. /\ n \in SessionRecord
        /\ n.agent = login[l].agent /\ n.baseline = login[l].baseline /\ n.new = login[l].new
    BY <1>1, <1>2, SessionAssumption DEF SessionRecord, LoginRecord
  <1>4. session' = Append(session, n) /\ alerts' = Append(alerts, {})
    BY DEF CommitLogin
  <1>5. /\ session \in Seq(SessionRecord) /\ alerts \in Seq(SUBSET Customers)
        /\ Len(alerts) = Len(session)
    BY DEF SessionInvariant, TypeOK
  <1> HIDE DEF n
  <1>6. QED
    BY <1>3, <1>4, <1>5

-----------------------------------------------------------------------------
(* The logins.                                                             *)

\* A login moves to its next step.
LEMMA WentTo ==
  ASSUME TypeOK, NEW l \in Logins,
         NEW pc \in {"idle", "user", "insert", "device", "match", "commit", "answer"}, Goto(l, pc)
  PROVE  /\ login' \in [Logins -> LoginRecord]
         /\ login'[l].pc = pc /\ login'[l].baseline = login[l].baseline
         /\ login'[l].agent = login[l].agent
         /\ \A m \in Logins : m # l => login'[m] = login[m]
  <1> DEFINE n == [login[l] EXCEPT !.pc = pc]
  <1>1. login \in [Logins -> LoginRecord]
    BY DEF TypeOK, LoginRecord
  <1>2. /\ n \in LoginRecord /\ n.pc = pc /\ n.baseline = login[l].baseline
        /\ n.agent = login[l].agent
    BY <1>1 DEF LoginRecord
  <1>3. login' = [login EXCEPT ![l] = n]
    BY DEF Goto
  <1> HIDE DEF n
  <1>4. QED
    BY <1>1, <1>2, <1>3

\* The login has looked for other devices and has made its session.
LEMMA SessionMade ==
  ASSUME TypeOK, NEW l \in Logins, CreateSession(l)
  PROVE  /\ login' \in [Logins -> LoginRecord]
         /\ login'[l].pc = "commit" /\ login'[l].baseline = login[l].baseline
         /\ login'[l].agent = login[l].agent
         /\ login'[l].new = (login[l].pc = "match" /\ login[l].agent \notin KnownAgents)
         /\ \A m \in Logins : m # l => login'[m] = login[m]
  <1> DEFINE v == login[l].pc = "match" /\ login[l].agent \notin KnownAgents
             n == [login[l] EXCEPT !.pc = "commit", !.at = now, !.new = v]
  <1>1. login \in [Logins -> LoginRecord] /\ login[l] \in LoginRecord /\ now \in 0 .. MaxTime
    BY DEF TypeOK, LoginRecord
  <1>2. v \in BOOLEAN
    OBVIOUS
  <1>3. login' = [login EXCEPT ![l] = n]
    BY <1>1 DEF CreateSession
  <1> HIDE DEF v
  <1>4. /\ n \in LoginRecord /\ n.pc = "commit" /\ n.baseline = login[l].baseline
        /\ n.agent = login[l].agent /\ n.new = v
    BY <1>1, <1>2 DEF LoginRecord
  <1> HIDE DEF n
  <1>5. QED
    BY <1>1, <1>3, <1>4 DEF v

\* A committed login has its session to answer with, and to report if it is a
\* new device's.
LEMMA LoginCommitted ==
  ASSUME TypeOK, NEW l \in Logins, CommitLogin(l)
  PROVE  /\ login' \in [Logins -> LoginRecord]
         /\ \A m \in Logins : m # l => login'[m] = login[m]
         /\ login'[l].pc = "answer" /\ login'[l].session = Len(session) + 1
         /\ login'[l].baseline = login[l].baseline
         /\ login'[l].todo # {} => login[l].new
  <1> DEFINE k == Len(session) + 1
             t == IF login[l].new THEN Customers ELSE {}
             n == [login[l] EXCEPT !.pc = "answer", !.session = k, !.todo = t]
  <1>1. /\ login \in [Logins -> LoginRecord] /\ login[l] \in LoginRecord
        /\ session \in Seq(SessionRecord)
    BY DEF TypeOK, LoginRecord
  <1>2. k \in Nat /\ t \in SUBSET Customers /\ (t # {} => login[l].new)
    BY <1>1
  <1>3. login' = [login EXCEPT ![l] = n]
    BY <1>1 DEF CommitLogin
  <1> HIDE DEF k, t
  <1>4. /\ n \in LoginRecord /\ n.pc = "answer" /\ n.baseline = login[l].baseline
        /\ n.session = k /\ n.todo = t
    BY <1>1, <1>2 DEF LoginRecord
  <1> HIDE DEF n
  <1>5. QED
    BY <1>1, <1>2, <1>3, <1>4 DEF k

\* One customer was told.
LEMMA CustomerTold ==
  ASSUME TypeOK, NEW l \in Logins, NEW c \in Customers, NotifyCustomer(l, c),
         login[l].session \in DOMAIN session
  PROVE  /\ login' \in [Logins -> LoginRecord]
         /\ login'[l].pc = login[l].pc /\ login'[l].baseline = login[l].baseline
         /\ login'[l].session = login[l].session
         /\ login'[l].todo \subseteq login[l].todo
         /\ \A m \in Logins : m # l => login'[m] = login[m]
         /\ alerts' \in Seq(SUBSET Customers) /\ Len(alerts') = Len(alerts)
         /\ \A i \in DOMAIN session : i # login[l].session => alerts'[i] = alerts[i]
  <1> DEFINE n == [login[l] EXCEPT !.todo = @ \ {c}]
             k == login[l].session
  <1>1. login \in [Logins -> LoginRecord] /\ login[l] \in LoginRecord
    BY DEF TypeOK, LoginRecord
  <1>2. n \in LoginRecord /\ n.pc = login[l].pc /\ n.baseline = login[l].baseline
        /\ n.session = login[l].session /\ n.todo \subseteq login[l].todo
    BY <1>1 DEF LoginRecord
  <1>3. login' = [login EXCEPT ![l] = n]
    BY DEF NotifyCustomer
  <1> HIDE DEF n
  <1>4. /\ alerts' = [alerts EXCEPT ![k] = @ \cup {c}]
        /\ alerts \in Seq(SUBSET Customers) /\ session \in Seq(SessionRecord)
        /\ Len(alerts) = Len(session)
    BY DEF NotifyCustomer, TypeOK
  <1>5. k \in DOMAIN alerts /\ DOMAIN alerts = DOMAIN session
    BY <1>4
  <1>6. alerts[k] \cup {c} \in SUBSET Customers
    BY <1>4, <1>5
  <1>7. /\ alerts' \in Seq(SUBSET Customers) /\ Len(alerts') = Len(alerts)
        /\ \A i \in DOMAIN session : i # k => alerts'[i] = alerts[i]
    <2> HIDE DEF k
    <2> QED BY <1>4, <1>5, <1>6
  <1>8. QED
    BY <1>1, <1>2, <1>3, <1>7

\* The login is over.
LEMMA LoginOver ==
  ASSUME TypeOK, NEW l \in Logins, login' = [login EXCEPT ![l] = IdleLogin]
  PROVE  /\ login' \in [Logins -> LoginRecord]
         /\ login'[l].pc = "idle" /\ login'[l].baseline = FALSE
         /\ \A m \in Logins : m # l => login'[m] = login[m]
  <1>1. login \in [Logins -> LoginRecord]
    BY DEF TypeOK, LoginRecord
  <1>2. IdleLogin \in LoginRecord /\ IdleLogin.pc = "idle" /\ IdleLogin.baseline = FALSE
    BY SessionAssumption DEF IdleLogin, LoginRecord
  <1>3. QED
    BY <1>1, <1>2

\* A callback was accepted.
LEMMA CalledBack ==
  ASSUME TypeOK, NEW l \in Logins, NEW b \in Browsers, NEW h \in Agents \cup {None},
         Callback(l, b, h)
  PROVE  /\ login' \in [Logins -> LoginRecord]
         /\ login'[l].pc = "user" /\ login'[l].baseline = (KnownAgents # {})
         /\ \A m \in Logins : m # l => login'[m] = login[m]
  <1> DEFINE v == KnownAgents # {}
             n == [IdleLogin EXCEPT !.pc = "user", !.browser = b, !.agent = h, !.baseline = v]
  <1>1. login \in [Logins -> LoginRecord] /\ login' = [login EXCEPT ![l] = n]
    BY DEF TypeOK, LoginRecord, Callback
  <1>2. v \in BOOLEAN
    OBVIOUS
  <1> HIDE DEF v
  <1>3. n \in LoginRecord /\ n.pc = "user" /\ n.baseline = v
    <2>1. IdleLogin \in LoginRecord
      BY SessionAssumption DEF IdleLogin, LoginRecord
    <2>2. b \in Browsers \cup {None} /\ h \in Agents \cup {None}
      OBVIOUS
    <2>3. QED
      BY <1>2, <2>1, <2>2 DEF LoginRecord
  <1> HIDE DEF n
  <1>4. QED
    BY <1>1, <1>3 DEF v

-----------------------------------------------------------------------------
(* Each step preserves the invariant.                                      *)

\* The variables keep their types.
LEMMA TypesKept ==
  ASSUME SessionInvariant, [Next]_vars
  PROVE  TypeOK'
  <1>0. TypeOK /\ \A l \in Logins : LoginOK(l)
    BY DEF SessionInvariant
  <1>a. /\ now \in 0 .. MaxTime /\ cookies \subseteq Browsers
        /\ session \in Seq(SessionRecord) /\ Len(session) \in Nat
        /\ login \in [Logins -> LoginRecord] /\ request \in [Requests -> RequestRecord]
    BY <1>0 DEF TypeOK, LoginRecord, RequestRecord
  <1>b. IdleRequest \in RequestRecord
    BY SessionAssumption DEF IdleRequest, RequestRecord
  <1> USE SessionAssumption
  <1>1. ASSUME NEW b \in Browsers, StartLogin(b) \/ CookieExpires(b)
        PROVE  TypeOK'
    BY <1>0, <1>1 DEF StartLogin, CookieExpires, TypeOK
  <1>2. ASSUME NEW l \in Logins, NEW b \in Browsers, NEW h \in Agents \cup {None},
               Callback(l, b, h)
        PROVE  TypeOK'
    <2>1. login' \in [Logins -> LoginRecord]
      BY <1>0, <1>2, CalledBack
    <2>2. QED
      BY <1>0, <1>2, <2>1 DEF Callback, TypeOK, LoginRecord
  <1>3. ASSUME NEW l \in Logins, ReadUser(l) \/ FindBaseline(l)
        PROVE  TypeOK'
    <2>1. login' \in [Logins -> LoginRecord]
      BY <1>0, <1>3, WentTo DEF ReadUser, FindBaseline
    <2>2. QED
      BY <1>0, <1>3, <2>1 DEF ReadUser, FindBaseline, TypeOK, LoginRecord
  <1>4. ASSUME NEW l \in Logins, InsertUser(l)
        PROVE  TypeOK'
    <2>1. login' \in [Logins -> LoginRecord]
      BY <1>0, <1>4, WentTo DEF InsertUser
    <2>2. QED
      BY <1>0, <1>4, <2>1 DEF InsertUser, TypeOK, LoginRecord
  <1>5. ASSUME NEW l \in Logins, CreateSession(l)
        PROVE  TypeOK'
    <2>1. login' \in [Logins -> LoginRecord]
      BY <1>0, <1>5, SessionMade
    <2>2. QED
      BY <1>0, <1>5, <2>1 DEF CreateSession, TypeOK, LoginRecord
  <1>6. ASSUME NEW l \in Logins, CommitLogin(l)
        PROVE  TypeOK'
    <2>1. login' \in [Logins -> LoginRecord]
      BY <1>0, <1>6, LoginCommitted
    <2>2. /\ session' \in Seq(SessionRecord)
          /\ alerts' \in Seq(SUBSET Customers) /\ Len(alerts') = Len(session')
      BY <1>6, Committed
    <2>3. UNCHANGED <<now, cookies, request>> /\ user' = "committed"
      BY <1>6 DEF CommitLogin
    <2>4. QED
      BY <1>0, <2>1, <2>2, <2>3 DEF TypeOK, LoginRecord
  <1>7. ASSUME NEW l \in Logins, NEW c \in Customers, NotifyCustomer(l, c)
        PROVE  TypeOK'
    <2>1. login[l].session \in DOMAIN session
      BY <1>0, <1>7 DEF LoginOK, NotifyCustomer
    <2>2. /\ login' \in [Logins -> LoginRecord]
          /\ alerts' \in Seq(SUBSET Customers) /\ Len(alerts') = Len(alerts)
      BY <1>0, <1>7, <2>1, CustomerTold
    <2>3. UNCHANGED <<now, user, session, cookies, request>>
      BY <1>7 DEF NotifyCustomer
    <2>4. QED
      BY <1>0, <2>2, <2>3 DEF TypeOK, LoginRecord
  <1>8. ASSUME NEW l \in Logins, EndLogin(l) \/ LoginFails(l)
        PROVE  TypeOK'
    <2>1. login' \in [Logins -> LoginRecord]
      BY <1>0, <1>8, LoginOver DEF EndLogin, LoginFails
    <2>2. /\ cookies' \subseteq Browsers /\ UNCHANGED <<now, session, alerts, request>>
          /\ user' \in {user, "absent"}
      BY <1>a, <1>8 DEF EndLogin, LoginFails
    <2>3. QED
      BY <1>0, <2>1, <2>2 DEF TypeOK, LoginRecord
  <1>9. ASSUME NEW r \in Requests, NEW i \in DOMAIN session, Resolve(r, i)
        PROVE  TypeOK'
    <2>1. [pc |-> "touch", session |-> i, at |-> now] \in RequestRecord
      BY <1>a DEF RequestRecord
    <2>2. request' \in [Requests -> RequestRecord]
      BY <1>9, <1>a, <2>1 DEF Resolve
    <2>3. QED
      BY <1>0, <1>9, <2>2 DEF Resolve, TypeOK, RequestRecord
  <1>10. ASSUME NEW r \in Requests, Touch(r)
         PROVE  TypeOK'
    <2>1. session' \in Seq(SessionRecord) /\ Len(session') = Len(session)
      BY <1>10, Touched DEF SameLogins
    <2>2. [IdleRequest EXCEPT !.pc = "work"] \in RequestRecord
      BY DEF IdleRequest, RequestRecord
    <2>3. request' \in [Requests -> RequestRecord]
      BY <1>10, <1>a, <2>2 DEF Touch
    <2>4. QED
      BY <1>0, <1>10, <2>1, <2>3 DEF Touch, TypeOK, RequestRecord
  <1>11. ASSUME NEW r \in Requests, NEW i \in DOMAIN session, Revoke(r, i)
         PROVE  TypeOK'
    <2>1. session' \in Seq(SessionRecord) /\ Len(session') = Len(session)
      BY <1>11, Revoked DEF SameLogins
    <2>2. request' \in [Requests -> RequestRecord]
      BY <1>11, <1>a, <1>b DEF Revoke
    <2>3. QED
      BY <1>0, <1>11, <2>1, <2>2 DEF Revoke, TypeOK, RequestRecord
  <1>12. ASSUME NEW r \in Requests, EndRequest(r)
         PROVE  TypeOK'
    <2>1. request' \in [Requests -> RequestRecord]
      BY <1>12, <1>a, <1>b DEF EndRequest
    <2>2. QED
      BY <1>0, <1>12, <2>1 DEF EndRequest, TypeOK, RequestRecord
  <1>13. CASE Tick
    BY <1>0, <1>13 DEF Tick, TypeOK
  <1>14. CASE UNCHANGED vars
    BY <1>0, <1>14 DEF vars, TypeOK
  <1>15. QED
    BY <1>1, <1>2, <1>3, <1>4, <1>5, <1>6, <1>7, <1>8, <1>9, <1>10, <1>11, <1>12, <1>13, <1>14
    DEF Next

-----------------------------------------------------------------------------
(* Devices.                                                                *)

\* A row keeps its device, and so the devices that are known.
LEMMA KnownKept ==
  ASSUME SameLogins
  PROVE  KnownAgents' = KnownAgents
  BY DEF SameLogins, KnownAgents

LEMMA KnownGrows ==
  ASSUME SessionInvariant, NEW l \in Logins, CommitLogin(l)
  PROVE  KnownAgents \subseteq KnownAgents'
  BY Committed DEF KnownAgents

\* What a login that has yet to check or to answer knew is still so when more
\* sessions are there; what one about to commit decided is so, too, as a
\* device can only have become known.
LEMMA LoginKept ==
  ASSUME NEW l \in Logins, LoginOK(l), login'[l] = login[l],
         KnownAgents \subseteq KnownAgents', DOMAIN session \subseteq DOMAIN session',
         \A i \in DOMAIN session : session'[i].new = session[i].new
  PROVE  LoginOK(l)'
  BY DEF LoginOK, Comparable

\* Each login's knowledge is kept.
LEMMA LoginsKept ==
  ASSUME SessionInvariant, [Next]_vars
  PROVE  \A l \in Logins : LoginOK(l)'
  <1>0. TypeOK /\ \A l \in Logins : LoginOK(l)
    BY DEF SessionInvariant
  <1>a. ASSUME login' = login, SameLogins
        PROVE  \A l \in Logins : LoginOK(l)'
    BY <1>0, <1>a, KnownKept, LoginKept DEF SameLogins
  <1>b. ASSUME session' = session
        PROVE  SameLogins /\ KnownAgents' = KnownAgents
    BY <1>0, <1>b DEF TypeOK, SameLogins, KnownAgents
  <1>c. ASSUME NEW l \in Logins, session' = session, LoginOK(l)',
               \A m \in Logins : m # l => login'[m] = login[m]
        PROVE  \A m \in Logins : LoginOK(m)'
    BY <1>0, <1>b, <1>c, LoginKept DEF SameLogins
  <1>1. ASSUME NEW l \in Logins, NEW b \in Browsers, NEW h \in Agents \cup {None},
               Callback(l, b, h)
        PROVE  \A m \in Logins : LoginOK(m)'
    <2>1. /\ login'[l].pc = "user" /\ login'[l].baseline = (KnownAgents # {})
          /\ session' = session /\ \A m \in Logins : m # l => login'[m] = login[m]
      BY <1>0, <1>1, CalledBack DEF Callback
    <2>2. LoginOK(l)'
      BY <1>b, <2>1 DEF LoginOK
    <2>3. QED
      BY <1>c, <2>1, <2>2
  <1>2. ASSUME NEW l \in Logins, ReadUser(l) \/ InsertUser(l)
        PROVE  \A m \in Logins : LoginOK(m)'
    <2>1. /\ login'[l].pc \in {"device", "insert"} /\ login'[l].baseline = login[l].baseline
          /\ session' = session /\ \A m \in Logins : m # l => login'[m] = login[m]
      BY <1>0, <1>2, WentTo DEF ReadUser, InsertUser
    <2>2. LoginOK(l)'
      BY <1>0, <1>b, <2>1 DEF LoginOK
    <2>3. QED
      BY <1>c, <2>1, <2>2
  <1>3. ASSUME NEW l \in Logins, FindBaseline(l)
        PROVE  \A m \in Logins : LoginOK(m)'
    <2>1. /\ login'[l].pc = "match" /\ login'[l].baseline = login[l].baseline
          /\ login'[l].agent = login[l].agent /\ Comparable(l)
          /\ session' = session /\ \A m \in Logins : m # l => login'[m] = login[m]
      BY <1>0, <1>3, WentTo DEF FindBaseline
    <2>2. LoginOK(l)'
      BY <1>0, <1>b, <2>1 DEF LoginOK, Comparable
    <2>3. QED
      BY <1>c, <2>1, <2>2
  <1>4. ASSUME NEW l \in Logins, CreateSession(l)
        PROVE  \A m \in Logins : LoginOK(m)'
    <2>1. /\ login'[l].pc = "commit" /\ login'[l].baseline = login[l].baseline
          /\ login'[l].agent = login[l].agent
          /\ login'[l].new = (login[l].pc = "match" /\ login[l].agent \notin KnownAgents)
          /\ session' = session /\ \A m \in Logins : m # l => login'[m] = login[m]
      BY <1>0, <1>4, SessionMade DEF CreateSession
    <2>2. /\ login[l].baseline => KnownAgents # {}
          /\ login[l].pc = "match" => Comparable(l)
          /\ login[l].pc # "match" => ~Comparable(l)
      BY <1>0, <1>4 DEF LoginOK, CreateSession
    <2>3. LoginOK(l)'
      BY <1>b, <2>1, <2>2 DEF LoginOK, Comparable
    <2>4. QED
      BY <1>c, <2>1, <2>3
  <1>5. ASSUME NEW l \in Logins, CommitLogin(l)
        PROVE  \A m \in Logins : LoginOK(m)'
    <2>1. KnownAgents \subseteq KnownAgents'
      BY <1>5, KnownGrows
    <2>2. /\ DOMAIN session' = DOMAIN session \cup {Len(session) + 1}
          /\ \A i \in DOMAIN session : session'[i] = session[i]
          /\ session'[Len(session) + 1].new = login[l].new
      BY <1>5, Committed
    <2>3. /\ \A m \in Logins : m # l => login'[m] = login[m]
          /\ login'[l].pc = "answer" /\ login'[l].session = Len(session) + 1
          /\ login'[l].baseline = login[l].baseline
          /\ login'[l].todo # {} => login[l].new
      BY <1>0, <1>5, LoginCommitted
    <2>4. LoginOK(l)'
      BY <1>0, <2>1, <2>2, <2>3 DEF LoginOK
    <2>5. QED
      BY <1>0, <2>1, <2>2, <2>3, <2>4, LoginKept
  <1>6. ASSUME NEW l \in Logins, NEW c \in Customers, NotifyCustomer(l, c)
        PROVE  \A m \in Logins : LoginOK(m)'
    <2>1. /\ login[l].session \in DOMAIN session /\ login[l].pc = "answer"
          /\ session[login[l].session].new
      BY <1>0, <1>6 DEF LoginOK, NotifyCustomer
    <2>2. /\ login'[l].pc = login[l].pc /\ login'[l].baseline = login[l].baseline
          /\ login'[l].session = login[l].session /\ session' = session
          /\ \A m \in Logins : m # l => login'[m] = login[m]
      BY <1>0, <1>6, <2>1, CustomerTold DEF NotifyCustomer
    <2>3. LoginOK(l)'
      BY <1>0, <1>b, <2>1, <2>2 DEF LoginOK
    <2>4. QED
      BY <1>c, <2>2, <2>3
  <1>7. ASSUME NEW l \in Logins, EndLogin(l) \/ LoginFails(l)
        PROVE  \A m \in Logins : LoginOK(m)'
    <2>1. /\ login'[l].pc = "idle" /\ login'[l].baseline = FALSE /\ session' = session
          /\ \A m \in Logins : m # l => login'[m] = login[m]
      BY <1>0, <1>7, LoginOver DEF EndLogin, LoginFails
    <2>2. LoginOK(l)'
      BY <2>1 DEF LoginOK
    <2>3. QED
      BY <1>c, <2>1, <2>2
  <1>8. ASSUME NEW r \in Requests, NEW i \in DOMAIN session, Revoke(r, i)
        PROVE  \A l \in Logins : LoginOK(l)'
    BY <1>8, <1>a, Revoked DEF Revoke
  <1>9. ASSUME NEW r \in Requests, Touch(r)
        PROVE  \A l \in Logins : LoginOK(l)'
    BY <1>9, <1>a, Touched DEF Touch
  <1>10. QED
    BY <1>1, <1>2, <1>3, <1>4, <1>5, <1>6, <1>7, <1>8, <1>9, <1>a, <1>b
    DEF Next, vars, StartLogin, CookieExpires, Resolve, EndRequest, Tick

\* A request works with a session there is.
LEMMA RequestsKept ==
  ASSUME SessionInvariant, [Next]_vars
  PROVE  \A r \in Requests : RequestOK(r)'
  <1>0. /\ TypeOK /\ request \in [Requests -> RequestRecord]
        /\ \A r \in Requests : RequestOK(r)
    BY DEF SessionInvariant, TypeOK, RequestRecord
  <1>a. ASSUME request' = request, DOMAIN session \subseteq DOMAIN session'
        PROVE  \A r \in Requests : RequestOK(r)'
    BY <1>0, <1>a DEF RequestOK
  <1>1. ASSUME NEW r \in Requests, NEW i \in DOMAIN session, Resolve(r, i)
        PROVE  \A q \in Requests : RequestOK(q)'
    BY <1>0, <1>1 DEF Resolve, RequestOK
  <1>2. ASSUME NEW r \in Requests, Touch(r)
        PROVE  \A q \in Requests : RequestOK(q)'
    <2>1. DOMAIN session' = DOMAIN session /\ request[r].session \in DOMAIN session
      BY <1>2, Touched DEF SameLogins
    <2> DEFINE w == [IdleRequest EXCEPT !.pc = "work"]
    <2>2. request' = [request EXCEPT ![r] = w] /\ w.pc = "work"
      BY <1>2 DEF Touch, IdleRequest
    <2> HIDE DEF w
    <2>3. QED
      BY <1>0, <2>1, <2>2 DEF RequestOK
  <1>3. ASSUME NEW r \in Requests, request' = [request EXCEPT ![r] = IdleRequest],
               DOMAIN session' = DOMAIN session
        PROVE  \A q \in Requests : RequestOK(q)'
    BY <1>0, <1>3 DEF RequestOK, IdleRequest
  <1>4. ASSUME NEW r \in Requests, NEW i \in DOMAIN session, Revoke(r, i)
        PROVE  \A q \in Requests : RequestOK(q)'
    BY <1>3, <1>4, Revoked DEF Revoke, SameLogins
  <1>5. ASSUME NEW r \in Requests, EndRequest(r)
        PROVE  \A q \in Requests : RequestOK(q)'
    BY <1>3, <1>5 DEF EndRequest
  <1>6. ASSUME NEW l \in Logins, CommitLogin(l)
        PROVE  \A q \in Requests : RequestOK(q)'
    BY <1>6, <1>a, Committed DEF CommitLogin
  <1>7. QED
    BY <1>1, <1>2, <1>4, <1>5, <1>6, <1>a
    DEF Next, vars, StartLogin, CookieExpires, Callback, ReadUser, InsertUser, FindBaseline,
        CreateSession, NotifyCustomer,
        EndLogin, LoginFails, Tick

\* The devices of the sessions before one.
Before(i) == {session[j].agent : j \in 1 .. i - 1} \ {None}

\* One session's report is as it should be.
Reported(i) ==
  /\ Named(session[i].agent) /\ session[i].baseline /\ session[i].agent \notin Before(i) =>
       session[i].new
  /\ session[i].new => Named(session[i].agent) /\ Before(i) \ {session[i].agent} # {}
  /\ alerts[i] # {} => session[i].new

\* New devices are reported, and nothing else is.
LEMMA ReportsKept ==
  ASSUME SessionInvariant, [Next]_vars
  PROVE  NewDeviceIsReported'
  <1>0. /\ TypeOK /\ session \in Seq(SessionRecord) /\ DOMAIN session = 1 .. Len(session)
        /\ Len(session) \in Nat /\ \A l \in Logins : LoginOK(l)
    BY DEF SessionInvariant, TypeOK
  <1>1. \A i \in DOMAIN session : Reported(i)
    BY DEF SessionInvariant, NewDeviceIsReported, Reported, Before
  <1> SUFFICES \A i \in DOMAIN session' : Reported(i)'
    BY DEF NewDeviceIsReported, Reported, Before
  <1>a. ASSUME SameLogins,
               \A i \in DOMAIN session : alerts'[i] # {} => alerts[i] # {} \/ session[i].new
        PROVE  \A i \in DOMAIN session' : Reported(i)'
    <2>1. ASSUME NEW i \in DOMAIN session
          PROVE  Before(i)' = Before(i)
      <3>1. \A j \in 1 .. i - 1 : session'[j].agent = session[j].agent
        BY <1>0, <1>a, <2>1 DEF SameLogins
      <3>2. QED
        BY <3>1 DEF Before
    <2>2. ASSUME NEW i \in DOMAIN session
          PROVE  Reported(i)'
      BY <1>1, <1>a, <2>1, <2>2 DEF Reported, SameLogins
    <2>3. QED
      BY <1>a, <2>2 DEF SameLogins
  <1>b. ASSUME session' = session
        PROVE  SameLogins
    BY <1>0, <1>b DEF SameLogins
  <1>2. ASSUME NEW l \in Logins, CommitLogin(l)
        PROVE  \A i \in DOMAIN session' : Reported(i)'
    <2>k. PICK k \in Nat : k = Len(session) + 1
      BY <1>0
    <2>1. /\ DOMAIN session' = DOMAIN session \cup {k}
          /\ \A j \in DOMAIN session : session'[j] = session[j] /\ alerts'[j] = alerts[j]
          /\ session'[k].agent = login[l].agent /\ session'[k].baseline = login[l].baseline
          /\ session'[k].new = login[l].new /\ alerts'[k] = {}
      BY <1>2, <2>k, Committed
    <2>2. ASSUME NEW i \in DOMAIN session
          PROVE  Reported(i)'
      <3>1. \A j \in 1 .. i - 1 : session'[j].agent = session[j].agent
        BY <1>0, <2>1, <2>2
      <3>2. Before(i)' = Before(i)
        BY <3>1 DEF Before
      <3>3. QED
        BY <1>1, <2>1, <2>2, <3>2 DEF Reported
    <2>3. Before(k)' = KnownAgents
      <3>1. 1 .. k - 1 = DOMAIN session
        BY <1>0, <2>k
      <3>2. \A j \in DOMAIN session : session'[j].agent = session[j].agent
        BY <2>1
      <3>3. QED
        BY <3>1, <3>2 DEF Before, KnownAgents
    <2>4. /\ Named(login[l].agent) /\ login[l].baseline /\ login[l].agent \notin KnownAgents =>
               login[l].new
          /\ login[l].new => Named(login[l].agent) /\ KnownAgents \ {login[l].agent} # {}
      BY <1>0, <1>2 DEF LoginOK, CommitLogin
    <2>5. Reported(k)'
      BY <2>1, <2>3, <2>4 DEF Reported
    <2>6. QED
      BY <2>1, <2>2, <2>5
  <1>3. ASSUME NEW l \in Logins, NEW c \in Customers, NotifyCustomer(l, c)
        PROVE  \A i \in DOMAIN session' : Reported(i)'
    <2>1. login[l].session \in DOMAIN session /\ session[login[l].session].new
      BY <1>0, <1>3 DEF LoginOK, NotifyCustomer
    <2>2. \A i \in DOMAIN session : i # login[l].session => alerts'[i] = alerts[i]
      BY <1>0, <1>3, <2>1, CustomerTold
    <2>3. session' = session
      BY <1>3 DEF NotifyCustomer
    <2>4. QED
      BY <1>a, <1>b, <2>1, <2>2, <2>3
  <1>4. ASSUME NEW r \in Requests, NEW i \in DOMAIN session, Revoke(r, i)
        PROVE  \A j \in DOMAIN session' : Reported(j)'
    BY <1>4, <1>a, Revoked DEF Revoke
  <1>5. ASSUME NEW r \in Requests, Touch(r)
        PROVE  \A j \in DOMAIN session' : Reported(j)'
    BY <1>5, <1>a, Touched DEF Touch
  <1>6. ASSUME UNCHANGED <<session, alerts>>
        PROVE  \A i \in DOMAIN session' : Reported(i)'
    BY <1>6, <1>a, <1>b
  <1>7. QED
    BY <1>2, <1>3, <1>4, <1>5, <1>6
    DEF Next, vars, StartLogin, CookieExpires, Callback, ReadUser, InsertUser, FindBaseline,
        CreateSession, EndLogin,
        LoginFails, Resolve, EndRequest, Tick

-----------------------------------------------------------------------------
(* The theorems.                                                           *)

\* Every reachable state satisfies the inductive invariant: types, the
\* reports of new devices, and what logins and requests rely on.
THEOREM SessionInvariantHolds == Spec => []SessionInvariant
  <1>1. Init => SessionInvariant
    <2> SUFFICES ASSUME Init PROVE SessionInvariant
      OBVIOUS
    <2> USE SessionAssumption DEF Init
    <2>1. TypeOK
      BY DEF TypeOK, IdleLogin, IdleRequest
    <2>3. \A l \in Logins : LoginOK(l)
      BY DEF LoginOK, IdleLogin
    <2>4. \A r \in Requests : RequestOK(r)
      BY DEF RequestOK, IdleRequest
    <2>5. NewDeviceIsReported
      BY DEF NewDeviceIsReported
    <2>6. QED
      BY <2>1, <2>3, <2>4, <2>5 DEF SessionInvariant
  <1>2. SessionInvariant /\ [Next]_vars => SessionInvariant'
    <2> SUFFICES ASSUME SessionInvariant, [Next]_vars PROVE SessionInvariant'
      OBVIOUS
    <2>1. QED
      BY TypesKept, LoginsKept, RequestsKept, ReportsKept DEF SessionInvariant
  <1>3. QED
    BY <1>1, <1>2, PTL DEF Spec

\* A device that no session had when its login began, and that none has got
\* since, is reported if there is another to compare with, and nothing else is.
THEOREM NewDevicesAreReported == Spec => []NewDeviceIsReported
  <1>1. SessionInvariant => NewDeviceIsReported
    BY DEF SessionInvariant
  <1>2. QED
    BY <1>1, SessionInvariantHolds, PTL

\* The listed sessions are the usable ones, but for the instants at which a
\* timeout is reached, for any timeouts.
THEOREM ListingIsOfUsableSessions == Spec => []ListingMatchesUse
  <1>1. SessionInvariant => ListingMatchesUse
    <2> SUFFICES ASSUME SessionInvariant, NEW i \in DOMAIN session
                 PROVE  LET s == session[i]
                        IN  /\ Listed(s, now) => Usable(s, now)
                            /\ Usable(s, now) /\ ~Listed(s, now) =>
                                 now = s.expires_at \/ now = s.last_seen_at + IDLE_TIMEOUT
      BY DEF ListingMatchesUse
    <2>1. session[i] \in SessionRecord /\ now \in Nat
      BY SessionAssumption DEF SessionInvariant, TypeOK
    <2>2. QED
      BY <2>1, SessionAssumption DEF Listed, Usable, SessionRecord
  <1>2. QED
    BY <1>1, SessionInvariantHolds, PTL

\* A session that is revoked or expired never becomes usable again, and one
\* that went idle only by a request that was let in while it was not.
THEOREM DeadSessionsStayDead == Spec => DeadStaysDead
  <1> USE SessionAssumption
  <1>1. ASSUME SessionInvariant, [Next]_vars, NEW i \in DOMAIN session,
               ~Usable(session[i], now),
               session[i].revoked \/ now > session[i].expires_at \/ ~InFlight(i)
        PROVE  ~Usable(session'[i], now')
    <2>1. /\ now \in Nat /\ session \in Seq(SessionRecord) /\ session[i] \in SessionRecord
      BY <1>1 DEF SessionInvariant, TypeOK
    <2>2. /\ session[i].last_seen_at \in Nat /\ session[i].expires_at \in Nat
          /\ session[i].revoked \in BOOLEAN
      BY <2>1 DEF SessionRecord
    <2>3. ASSUME session'[i] = session[i], now' \in {now, now + 1}
          PROVE  ~Usable(session'[i], now')
      BY <1>1, <2>1, <2>2, <2>3 DEF Usable
    <2>4. ASSUME NEW l \in Logins, CommitLogin(l)
          PROVE  ~Usable(session'[i], now')
      BY <1>1, <2>3, <2>4, Committed DEF CommitLogin
    <2>5. ASSUME NEW r \in Requests, Touch(r)
          PROVE  ~Usable(session'[i], now')
      <3>1. CASE i = request[r].session
        <4>1. session[i].revoked \/ now > session[i].expires_at
          BY <1>1, <2>5, <3>1 DEF InFlight, Touch
        <4>2. /\ session'[i].revoked = session[i].revoked /\ now' = now
              /\ session'[i].expires_at = session[i].expires_at
          BY <1>1, <2>5, <3>1, Touched DEF Touch
        <4>3. QED
          BY <2>1, <2>2, <4>1, <4>2 DEF Usable
      <3>2. CASE i # request[r].session
        BY <1>1, <2>3, <2>5, <3>2, Touched DEF Touch
      <3>3. QED
        BY <3>1, <3>2
    <2>6. ASSUME NEW r \in Requests, NEW j \in DOMAIN session, Revoke(r, j)
          PROVE  ~Usable(session'[i], now')
      <3>1. CASE i = j
        BY <1>1, <2>6, <3>1, Revoked DEF Usable
      <3>2. CASE i # j
        BY <1>1, <2>3, <2>6, <3>2, Revoked DEF Revoke
      <3>3. QED
        BY <3>1, <3>2
    <2>7. QED
      BY <1>1, <2>3, <2>4, <2>5, <2>6
      DEF Next, vars, StartLogin, CookieExpires, Callback, ReadUser, InsertUser, FindBaseline,
        CreateSession, NotifyCustomer,
          EndLogin, LoginFails, Resolve, EndRequest, Tick
  <1>2. SessionInvariant /\ [Next]_vars =>
          [\A i \in DOMAIN session :
             /\ ~Usable(session[i], now)
             /\ session[i].revoked \/ now > session[i].expires_at \/ ~InFlight(i)
             => ~Usable(session[i], now)']_vars
    BY <1>1 DEF Usable
  <1>3. QED
    BY <1>2, SessionInvariantHolds, PTL DEF Spec, DeadStaysDead
=============================================================================
