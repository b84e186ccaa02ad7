------------------------------ MODULE Sessions ------------------------------
(***************************************************************************)
(* The sessions of one user: Google logins that create them, requests that *)
(* are authenticated by them and touch them, their listing and their       *)
(* revocation.  A login and the check of a request are transactions of     *)
(* their own; time is counted in units.                                    *)
(*                                                                         *)
(* The state of a login is kept in the browser's cookie alone, so that     *)
(* nothing stops two callbacks that carry it with a code each: those of a  *)
(* consent page opened twice, or of one tried again since the answer that  *)
(* deletes the cookie was lost.  A callback whose state is not the         *)
(* cookie's is refused before anything is read, and is not modelled.       *)
(***************************************************************************)
EXTENDS Integers, Sequences, FiniteSets

CONSTANTS
  Browsers,
  Headers,         \* the User-Agent headers a callback may come with
  None,            \* in Headers: no such header
  Empty,           \* in Headers: one that is the empty string
  Logins,          \* callbacks that are handled at the same time
  Requests,
  Customers,       \* the customers the user is a member of
  IDLE_TIMEOUT, ABSOLUTE_TIMEOUT,
  MaxTime,         \* bound on the time that passes
  MaxLogins        \* bound on the sessions made or being made

ASSUME SessionAssumption ==
  /\ IDLE_TIMEOUT \in Nat /\ ABSOLUTE_TIMEOUT \in Nat
  /\ MaxTime \in Nat /\ MaxLogins \in Nat

\* What a row may hold as its user_agent that is not NULL.
Agents == Headers \ {None}

\* The header says something: what "if user_agent" asks.
Named(header) == header \notin {None, Empty}

VARIABLES
  now,
  user,      \* the User row: "absent", "committed", or the login inserting it
  session,   \* the committed rows in the order of their commits
  alerts,    \* session number -> customers whose inbox has its alert
  cookies,   \* the browsers with a state cookie
  login,
  request

vars == <<now, user, session, alerts, cookies, login, request>>

IdleLogin ==
  [pc |-> "idle", browser |-> None, agent |-> None, baseline |-> FALSE, new |-> FALSE,
   at |-> 0, session |-> 0, todo |-> {}]

IdleRequest == [pc |-> "idle", session |-> 0, at |-> 0]

SessionRecord ==
  [agent : Agents \cup {None}, last_seen_at : Nat, expires_at : Nat,
   revoked : BOOLEAN,
   baseline : BOOLEAN,          \* a device was known when its login began
   new : BOOLEAN]               \* its login was taken for a new device's

TypeOK ==
  /\ now \in 0 .. MaxTime
  /\ user \in {"absent", "committed"} \cup Logins
  /\ session \in Seq(SessionRecord)
  /\ alerts \in Seq(SUBSET Customers) /\ Len(alerts) = Len(session)
  /\ cookies \subseteq Browsers
  /\ login \in [Logins ->
       [pc : {"idle", "user", "insert", "device", "match", "commit", "answer"},
        browser : Browsers \cup {None}, agent : Agents \cup {None},
        baseline : BOOLEAN, new : BOOLEAN, at : 0 .. MaxTime,
        session : Nat, todo : SUBSET Customers]]
  /\ request \in [Requests ->
       [pc : {"idle", "touch", "work"}, session : Nat, at : 0 .. MaxTime]]

Init ==
  /\ now = 0
  /\ user = "absent"
  /\ session = <<>>
  /\ alerts = <<>>
  /\ cookies = {}
  /\ login = [l \in Logins |-> IdleLogin]
  /\ request = [r \in Requests |-> IdleRequest]

KnownAgents == {session[i].agent : i \in DOMAIN session} \ {None}

-----------------------------------------------------------------------------
(* Login.                                                                  *)

\* start_google_login: the redirect to Google sets the cookie, anew where
\* there is one.
StartLogin(b) ==
  /\ b \notin cookies
  /\ cookies' = cookies \cup {b}
  /\ UNCHANGED <<now, user, session, alerts, login, request>>

\* The browser drops the cookie at its max_age.
CookieExpires(b) ==
  /\ b \in cookies
  /\ cookies' = cookies \ {b}
  /\ UNCHANGED <<now, user, session, alerts, login, request>>

\* The logins that have yet to commit.
Underway == {l \in Logins : login[l].pc \notin {"idle", "answer"}}

\* A callback arrives with the state of the browser's cookie and a code that
\* no callback came with before, which is exchanged with Google.
Callback(l, b, header) ==
  /\ login[l].pc = "idle"
  /\ b \in cookies
  /\ Len(session) + Cardinality(Underway) < MaxLogins
  /\ login' = [login EXCEPT ![l] = [IdleLogin EXCEPT !.pc = "user", !.browser = b,
                                    !.agent = header, !.baseline = KnownAgents # {}]]
  /\ UNCHANGED <<now, user, session, alerts, cookies, request>>

Goto(l, pc) == login' = [login EXCEPT ![l].pc = pc]

\* get_or_create_user: the row is there, or has to be inserted.
ReadUser(l) ==
  /\ login[l].pc = "user"
  /\ Goto(l, IF user = "committed" THEN "device" ELSE "insert")
  /\ UNCHANGED <<now, user, session, alerts, cookies, request>>

\* The insert waits for another login that is inserting the row.  It succeeds
\* where that one rolled back; otherwise the winner's row is read.
InsertUser(l) ==
  /\ login[l].pc = "insert"
  /\ user \in {"absent", "committed"}
  /\ user' = IF user = "absent" THEN l ELSE user
  /\ Goto(l, "device")
  /\ UNCHANGED <<now, session, alerts, cookies, request>>

\* A named device can be compared with one: the first SELECT of
\* is_new_device_login, which counts an empty user_agent as known.
Comparable(l) == Named(login[l].agent) /\ KnownAgents # {}

FindBaseline(l) ==
  /\ login[l].pc = "device"
  /\ Comparable(l)
  /\ Goto(l, "match")
  /\ UNCHANGED <<now, user, session, alerts, cookies, request>>

\* Mutated form: the new row is inserted before the check and found by it.
CreateBeforeCheck(l) ==
  /\ \/ login[l].pc = "device" /\ ~Comparable(l)
     \/ login[l].pc = "match"
  /\ login' = [login EXCEPT ![l].pc = "commit", ![l].at = now,
                 ![l].new = login[l].pc = "match" /\
                               login[l].agent \notin KnownAgents \cup {login[l].agent}]
  /\ UNCHANGED <<now, user, session, alerts, cookies, request>>

\* The second SELECT, where there is something to compare, and create_session.
CreateSession(l) ==
  /\ \/ login[l].pc = "device" /\ ~Comparable(l)
     \/ login[l].pc = "match"
  /\ login' = [login EXCEPT ![l].pc = "commit", ![l].at = now,
                 ![l].new = login[l].pc = "match" /\ login[l].agent \notin KnownAgents]
  /\ UNCHANGED <<now, user, session, alerts, cookies, request>>

\* The login commits.  The browser is answered once the user was told of a
\* new device.
CommitLogin(l) ==
  /\ login[l].pc = "commit"
  /\ session' = Append(session,
       [agent |-> login[l].agent, last_seen_at |-> login[l].at,
        expires_at |-> login[l].at + ABSOLUTE_TIMEOUT, revoked |-> FALSE,
        baseline |-> login[l].baseline, new |-> login[l].new])
  /\ alerts' = Append(alerts, {})
  /\ user' = "committed"
  /\ login' = [login EXCEPT ![l].pc = "answer", ![l].session = Len(session) + 1,
                 ![l].todo = IF login[l].new THEN Customers ELSE {}]
  /\ UNCHANGED <<now, cookies, request>>

\* notify_new_device_login: one transaction per customer.
NotifyCustomer(l, c) ==
  /\ login[l].pc = "answer"
  /\ c \in login[l].todo
  /\ alerts' = [alerts EXCEPT ![login[l].session] = @ \cup {c}]
  /\ login' = [login EXCEPT ![l].todo = @ \ {c}]
  /\ UNCHANGED <<now, user, session, cookies, request>>

\* All customers were told, or one of the transactions failed, which is logged
\* and ends the loop; the answer deletes the cookie, whatever state it holds
\* by now, unless it is lost.
EndLogin(l) ==
  /\ login[l].pc = "answer"
  /\ login' = [login EXCEPT ![l] = IdleLogin]
  /\ cookies' \in {cookies, cookies \ {login[l].browser}}
  /\ UNCHANGED <<now, user, session, alerts, request>>

\* Google refuses the code, or the transaction fails: it is rolled back, and
\* the cookie stays.
LoginFails(l) ==
  /\ login[l].pc \in {"user", "insert", "device", "match", "commit"}
  /\ login' = [login EXCEPT ![l] = IdleLogin]
  /\ user' = IF user = l THEN "absent" ELSE user
  /\ UNCHANGED <<now, session, alerts, cookies, request>>

-----------------------------------------------------------------------------
(* Requests.                                                               *)

\* Mutated form: an idle session is let in.
UsableWithoutIdle(s, time) ==
  ~s.revoked /\ time <= s.expires_at

\* The checks of resolve_session.
Usable(s, time) ==
  /\ ~s.revoked
  /\ time <= s.expires_at
  /\ time - s.last_seen_at <= IDLE_TIMEOUT

\* resolve_session reads the row and the clock.  A session that is not usable
\* ends the request.
Resolve(r, i) ==
  /\ request[r].pc = "idle"
  /\ Usable(session[i], now)
  /\ request' = [request EXCEPT ![r] = [pc |-> "touch", session |-> i, at |-> now]]
  /\ UNCHANGED <<now, user, session, alerts, cookies, login>>

\* Mutated form: the whole row is written back as it was read.
TouchWholeRow(r) ==
  /\ request[r].pc = "touch"
  /\ session' = [session EXCEPT ![request[r].session].last_seen_at = request[r].at,
                                ![request[r].session].revoked = FALSE]
  /\ request' = [request EXCEPT ![r] = [IdleRequest EXCEPT !.pc = "work"]]
  /\ UNCHANGED <<now, user, alerts, cookies, login>>

\* The touch writes last_seen_at, the column that was changed, and commits;
\* the handler runs with the identity in a transaction of its own.
Touch(r) ==
  /\ request[r].pc = "touch"
  /\ session' = [session EXCEPT ![request[r].session].last_seen_at = request[r].at]
  /\ request' = [request EXCEPT ![r] = [IdleRequest EXCEPT !.pc = "work"]]
  /\ UNCHANGED <<now, user, alerts, cookies, login>>

\* revoke_my_session of any session of the user, once more or not.
Revoke(r, target) ==
  /\ request[r].pc = "work"
  /\ session' = [session EXCEPT ![target].revoked = TRUE]
  /\ request' = [request EXCEPT ![r] = IdleRequest]
  /\ UNCHANGED <<now, user, alerts, cookies, login>>

\* Any other handler, or a failure of this one or of the touch.
EndRequest(r) ==
  /\ request[r].pc # "idle"
  /\ request' = [request EXCEPT ![r] = IdleRequest]
  /\ UNCHANGED <<now, user, session, alerts, cookies, login>>

Tick ==
  /\ now < MaxTime
  /\ now' = now + 1
  /\ UNCHANGED <<user, session, alerts, cookies, login, request>>

Next ==
  \/ \E b \in Browsers : StartLogin(b) \/ CookieExpires(b)
  \/ \E l \in Logins :
       \/ \E b \in Browsers, header \in Agents \cup {None} : Callback(l, b, header)
       \/ ReadUser(l)
       \/ InsertUser(l)
       \/ FindBaseline(l)
       \/ CreateSession(l)
       \/ CommitLogin(l)
       \/ \E c \in Customers : NotifyCustomer(l, c)
       \/ EndLogin(l)
       \/ LoginFails(l)
  \/ \E r \in Requests :
       \/ \E i \in DOMAIN session : Resolve(r, i)
       \/ Touch(r)
       \/ \E i \in DOMAIN session : Revoke(r, i)
       \/ EndRequest(r)
  \/ Tick

Spec == Init /\ [][Next]_vars

-----------------------------------------------------------------------------
\* list_active_sessions_for_user.
Listed(s, time) ==
  /\ ~s.revoked
  /\ s.expires_at > time
  /\ s.last_seen_at > time - IDLE_TIMEOUT

\* The list shows the sessions that a request would be let in with, but for
\* the instants at which a timeout is reached, where it is a moment early.
ListingMatchesUse ==
  \A i \in DOMAIN session :
    LET s == session[i]
    IN  /\ Listed(s, now) => Usable(s, now)
        /\ Usable(s, now) /\ ~Listed(s, now) =>
             now = s.expires_at \/ now = s.last_seen_at + IDLE_TIMEOUT

\* A request has been let in with the session and has yet to touch it.
InFlight(i) == \E r \in Requests : request[r].pc = "touch" /\ request[r].session = i

\* A session that is revoked or expired is never usable again, whatever
\* requests were let in before; one that went idle is not revived except by a
\* request that was let in while it was not.
DeadStaysDead ==
  [][\A i \in DOMAIN session :
       /\ ~Usable(session[i], now)
       /\ session[i].revoked \/ now > session[i].expires_at \/ ~InFlight(i)
       => ~Usable(session[i], now)']_vars

\* A device that none of the user's sessions had when its login began, and
\* that none has got since, is reported, if there was a device to compare it
\* with; nothing is reported without another device before it (the docstring
\* of is_new_device_login), and nothing of a login that named no device.  The
\* report itself may be lost to a failure.
NewDeviceIsReported ==
  \A i \in DOMAIN session :
    LET s == session[i]
        before == {session[j].agent : j \in 1 .. i - 1} \ {None}
    IN  /\ Named(s.agent) /\ s.baseline /\ s.agent \notin before => s.new
        /\ s.new => Named(s.agent) /\ before \ {s.agent} # {}
        /\ alerts[i] # {} => s.new

-----------------------------------------------------------------------------
(* The inductive invariant behind the safety properties above.             *)

\* What a login knows: a device that was known still is, its
\* decision is right for the sessions there are now, and the session it
\* reports on is a new device's.
LoginOK(l) ==
  /\ login[l].baseline => KnownAgents # {}
  /\ login[l].pc = "match" => Comparable(l)
  /\ login[l].pc = "commit" =>
       /\ Named(login[l].agent) /\ login[l].baseline /\ login[l].agent \notin KnownAgents =>
            login[l].new
       /\ login[l].new => Named(login[l].agent) /\ KnownAgents \ {login[l].agent} # {}
  /\ login[l].pc = "answer" =>
       /\ login[l].session \in DOMAIN session
       /\ login[l].todo # {} => session[login[l].session].new

\* A request that is to touch a session was let in with it.
RequestOK(r) == request[r].pc = "touch" => request[r].session \in DOMAIN session

SessionInvariant ==
  /\ TypeOK
  /\ \A l \in Logins : LoginOK(l)
  /\ \A r \in Requests : RequestOK(r)
  /\ NewDeviceIsReported
=============================================================================
