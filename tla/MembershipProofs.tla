-------------------------- MODULE MembershipProofs --------------------------
(***************************************************************************)
(* Proofs about Membership, for any number of users, rows and requests.    *)
(***************************************************************************)
EXTENDS Membership, FiniteSetTheorems, TLAPS

\* The fields that a request of each kind has.
LEMMA RequestFields ==
  ASSUME TypeOK, NEW r \in Requests
  PROVE  /\ request[r].op = "invite" =>
              request[r].user \in Users /\ request[r].role \in CustomerRole
         /\ request[r].op = "change" =>
              /\ request[r].member \in MemberIds
              /\ request[r].role \in CustomerRole
              /\ request[r].loaded \in CustomerRole
         /\ request[r].op = "remove" =>
              /\ request[r].member \in MemberIds
              /\ request[r].user \in Users
              /\ request[r].loaded \in CustomerRole
         /\ request[r].op = "delete" =>
              /\ request[r].member \in MemberIds
              /\ request[r].user \in Users
              /\ request[r].loaded \in CustomerRole
              /\ request[r].seen \subseteq GrantIds
              /\ request[r].held \subseteq MemberIds
         /\ request[r].op = "add" =>
              /\ request[r].member \in MemberIds
              /\ request[r].workspace \in Workspaces
              /\ request[r].role \in WorkspaceRole
         /\ request[r].op = "regrant" =>
              request[r].grant \in GrantIds /\ request[r].role \in WorkspaceRole
         /\ request[r].op = "revoke" => request[r].grant \in GrantIds
         /\ request[r].op = "archive" => request[r].workspace \in Workspaces
         /\ request[r].op = "restore" => request[r].workspace \in Workspaces
  <1>1. request[r] \in Request \cup {IdleRequest}
    BY DEF TypeOK
  <1>2. QED
    BY <1>1 DEF Request, IdleRequest

\* A row that is live has the fields of a row.
LEMMA RowFields ==
  ASSUME TypeOK
  PROVE  /\ \A m \in MemberIds : Live(m) => members[m] \in Member
         /\ \A g \in GrantIds : LiveGrant(g) => grants[g] \in Grant
  BY DEF TypeOK, Live, LiveGrant, Fresh, Gone

\* A beginning request keeps the types.
LEMMA BeginTypes ==
  ASSUME TypeOK, NEW r \in Requests, BeginNext(r)
  PROVE  TypeOK'
  <1>1. ASSUME NEW operation \in Request, Begin(r, operation)
        PROVE  TypeOK'
    BY <1>1 DEF TypeOK, Begin
  <1>2. AssignableRoles \subseteq CustomerRole
    BY MembershipAssumption
  <1>3. PICK caller \in Users :
    \/ \E u \in Users, role \in AssignableRoles : BeginInvite(r, caller, u, role)
    \/ \E m \in MemberIds, role \in AssignableRoles : BeginChange(r, caller, m, role)
    \/ \E m \in MemberIds : BeginRemove(r, caller, m)
    \/ \E m \in MemberIds, w \in Workspaces, role \in WorkspaceRole :
         BeginAdd(r, caller, m, w, role)
    \/ \E g \in GrantIds, role \in WorkspaceRole : BeginRegrant(r, caller, g, role)
    \/ \E g \in GrantIds : BeginRevoke(r, caller, g)
    \/ \E w \in Workspaces : BeginArchive(r, caller, w) \/ BeginRestore(r, caller, w)
    BY DEF BeginNext
  <1>4. ASSUME NEW u \in Users, NEW role \in AssignableRoles, BeginInvite(r, caller, u, role)
        PROVE  TypeOK'
    <2>1. [op |-> "invite", user |-> u, role |-> role] \in Request
      BY <1>2 DEF Request
    <2>2. QED
      BY <1>1, <1>4, <2>1 DEF BeginInvite
  <1>5. ASSUME NEW m \in MemberIds, NEW role \in AssignableRoles, BeginChange(r, caller, m, role)
        PROVE  TypeOK'
    <2>1. members[m].role \in CustomerRole
      BY <1>5, RowFields DEF BeginChange, Member
    <2>2. [op |-> "change", member |-> m, loaded |-> members[m].role, role |-> role] \in Request
      BY <1>2, <2>1 DEF Request
    <2>3. QED
      BY <1>1, <1>5, <2>2 DEF BeginChange
  <1>6. ASSUME NEW m \in MemberIds, BeginRemove(r, caller, m)
        PROVE  TypeOK'
    <2>1. members[m].role \in CustomerRole /\ members[m].user \in Users
      BY <1>6, RowFields DEF BeginRemove, Member
    <2>2. [op |-> "remove", member |-> m, user |-> members[m].user,
           loaded |-> members[m].role] \in Request
      BY <2>1 DEF Request
    <2>3. QED
      BY <1>1, <1>6, <2>2 DEF BeginRemove
  <1>7. ASSUME NEW m \in MemberIds, NEW w \in Workspaces, NEW role \in WorkspaceRole,
               BeginAdd(r, caller, m, w, role)
        PROVE  TypeOK'
    <2>1. [op |-> "add", member |-> m, workspace |-> w, role |-> role] \in Request
      BY DEF Request
    <2>2. QED
      BY <1>1, <1>7, <2>1 DEF BeginAdd
  <1>8. ASSUME NEW g \in GrantIds, NEW role \in WorkspaceRole, BeginRegrant(r, caller, g, role)
        PROVE  TypeOK'
    <2>1. grants[g].role \in WorkspaceRole
      BY <1>8, RowFields DEF BeginRegrant, Grant
    <2>2. [op |-> "regrant", grant |-> g, loaded |-> grants[g].role, role |-> role] \in Request
      BY <2>1 DEF Request
    <2>3. QED
      BY <1>1, <1>8, <2>2 DEF BeginRegrant
  <1>9. ASSUME NEW g \in GrantIds, BeginRevoke(r, caller, g)
        PROVE  TypeOK'
    <2>1. [op |-> "revoke", grant |-> g] \in Request
      BY DEF Request
    <2>2. QED
      BY <1>1, <1>9, <2>1 DEF BeginRevoke
  <1>10. ASSUME NEW w \in Workspaces, BeginArchive(r, caller, w) \/ BeginRestore(r, caller, w)
         PROVE  TypeOK'
    <2>1. [op |-> "archive", workspace |-> w] \in Request
      BY DEF Request
    <2>2. [op |-> "restore", workspace |-> w, loaded |-> w \in archived] \in Request
      BY DEF Request
    <2>3. QED
      BY <1>1, <1>10, <2>1, <2>2 DEF BeginArchive, BeginRestore
  <1>11. QED
    BY <1>3, <1>4, <1>5, <1>6, <1>7, <1>8, <1>9, <1>10

\* A request that ends keeps the type of the request slots.
LEMMA EndTypes ==
  ASSUME TypeOK, NEW r \in Requests, EndRequest(r)
  PROVE  request' \in [Requests -> Request \cup {IdleRequest}]
  BY DEF TypeOK, EndRequest

\* A committing transaction keeps the types.
LEMMA CommitTypes ==
  ASSUME TypeOK, NEW r \in Requests, CommitNext(r)
  PROVE  TypeOK'
  <1>1. CASE Invite(r)
    <2>1. PICK m \in MemberIds :
            members' = [members EXCEPT ![m] = MemberRow(request[r].user, request[r].role)]
      BY <1>1 DEF Invite
    <2>2. request[r].user \in Users /\ request[r].role \in CustomerRole
      BY <1>1, RequestFields DEF Invite
    <2>3. MemberRow(request[r].user, request[r].role) \in Member
      BY <2>2 DEF MemberRow, Member
    <2>4. QED
      BY <1>1, <2>1, <2>2, <2>3, EndTypes DEF Invite, TypeOK
  <1>2. CASE ChangeRole(r)
    <2>1. request[r].member \in MemberIds /\ request[r].role \in CustomerRole
      BY <1>2, RequestFields DEF ChangeRole
    <2>2. Live(request[r].member) =>
            [members[request[r].member] EXCEPT !.role = request[r].role] \in Member
      BY <2>1, RowFields DEF Member
    <2>3. members' \in [MemberIds -> Member \cup {Fresh, Gone}]
      BY <1>2, <2>1, <2>2 DEF ChangeRole, TypeOK
    <2>4. QED
      BY <1>2, <2>3, EndTypes DEF ChangeRole, TypeOK
  <1>3. CASE Remove(r)
    <2>1. request[r].member \in MemberIds
      BY <1>3, RequestFields DEF Remove
    <2>2. /\ members' \in [MemberIds -> Member \cup {Fresh, Gone}]
          /\ grants' \in [GrantIds -> Grant \cup {Fresh, Gone}]
          /\ index' \subseteq Users
      BY <1>3, <2>1 DEF Remove, TypeOK
    <2>3. QED
      BY <1>3, <2>2, EndTypes DEF Remove, TypeOK
  <1>4. CASE AddToWorkspace(r)
    <2>1. PICK g \in GrantIds :
            grants' = [grants EXCEPT ![g] =
                         GrantRow(request[r].member, request[r].workspace, request[r].role)]
      BY <1>4 DEF AddToWorkspace
    <2>2. GrantRow(request[r].member, request[r].workspace, request[r].role) \in Grant
      BY <1>4, RequestFields DEF AddToWorkspace, GrantRow, Grant
    <2>3. QED
      BY <1>4, <2>1, <2>2, EndTypes DEF AddToWorkspace, TypeOK
  <1>5. CASE Regrant(r)
    <2>1. request[r].grant \in GrantIds /\ request[r].role \in WorkspaceRole
      BY <1>5, RequestFields DEF Regrant
    <2>2. LiveGrant(request[r].grant) =>
            [grants[request[r].grant] EXCEPT !.role = request[r].role] \in Grant
      BY <2>1, RowFields DEF Grant
    <2>3. grants' \in [GrantIds -> Grant \cup {Fresh, Gone}]
      BY <1>5, <2>1, <2>2 DEF Regrant, TypeOK
    <2>4. QED
      BY <1>5, <2>3, EndTypes DEF Regrant, TypeOK
  <1>6. CASE Revoke(r)
    BY <1>6, EndTypes DEF Revoke, TypeOK
  <1>7. CASE Archive(r)
    BY <1>7, EndTypes, RequestFields DEF Archive, TypeOK
  <1>8. CASE Restore(r)
    BY <1>8, EndTypes DEF Restore, TypeOK
  <1>9. QED
    BY <1>1, <1>2, <1>3, <1>4, <1>5, <1>6, <1>7, <1>8 DEF CommitNext

\* Every step keeps the types.
LEMMA TypesKept ==
  ASSUME TypeOK, [Next]_vars
  PROVE  TypeOK'
  <1>1. CASE UNCHANGED vars
    BY <1>1 DEF vars, TypeOK
  <1>2. ASSUME NEW r \in Requests, SelectOrphans(r)
        PROVE  TypeOK'
    <2>1. /\ request[r].member \in MemberIds
          /\ request[r].user \in Users
          /\ request[r].loaded \in CustomerRole
      BY <1>2, RequestFields DEF SelectOrphans
    <2>2. PICK operation :
            /\ operation = [op |-> "delete", member |-> request[r].member,
                            user |-> request[r].user, loaded |-> request[r].loaded,
                            seen |-> GrantsOf(request[r].member),
                            held |-> IF request[r].loaded = "customer_owner"
                                     THEN Owners ELSE {}]
            /\ request' = [request EXCEPT ![r] = operation]
      BY <1>2 DEF SelectOrphans
    <2>3. operation \in Request
      BY <2>1, <2>2 DEF Request, GrantsOf, Owners
    <2>4. QED
      BY <1>2, <2>2, <2>3 DEF SelectOrphans, TypeOK
  <1>3. ASSUME NEW r \in Requests, AbortRequest(r)
        PROVE  TypeOK'
    BY <1>3, EndTypes DEF AbortRequest, TypeOK
  <1>4. QED
    BY <1>1, <1>2, <1>3, BeginTypes, CommitTypes DEF Next

-----------------------------------------------------------------------------
(* What a step does to the rows.                                           *)

\* The steps that change no row and no index.
LEMMA QuietSteps ==
  ASSUME [Next]_vars
  PROVE  \/ UNCHANGED <<members, grants, index>>
         \/ \E r \in Requests :
              Invite(r) \/ ChangeRole(r) \/ Remove(r) \/ AddToWorkspace(r)
                \/ Regrant(r) \/ Revoke(r)
  <1>1. ASSUME NEW r \in Requests, BeginNext(r)
        PROVE  UNCHANGED <<members, grants, index>>
    BY <1>1 DEF BeginNext, BeginInvite, BeginChange, BeginRemove, BeginAdd,
                BeginRegrant, BeginRevoke, BeginArchive, BeginRestore, Begin
  <1>2. ASSUME NEW r \in Requests, SelectOrphans(r) \/ AbortRequest(r) \/ Archive(r) \/ Restore(r)
        PROVE  UNCHANGED <<members, grants, index>>
    BY <1>2 DEF SelectOrphans, AbortRequest, Archive, Restore
  <1>3. QED
    BY <1>1, <1>2 DEF Next, CommitNext, vars

\* What each step does to one membership row: a fresh row is inserted, a row
\* gets another role or is deleted, and a deleted row never comes back.
LEMMA MemberSteps ==
  ASSUME TypeOK, [Next]_vars, NEW m \in MemberIds
  PROVE  \/ members'[m] = members[m]
         \/ \E r \in Requests :
              /\ Invite(r)
              /\ members[m] = Fresh
              /\ members'[m] = MemberRow(request[r].user, request[r].role)
              /\ \A n \in MemberIds \ {m} : members'[n] = members[n]
         \/ \E r \in Requests :
              /\ ChangeRole(r)
              /\ m = request[r].member
              /\ Live(m) /\ Live(m)'
              /\ members'[m].user = members[m].user
              /\ Unlocked(r, {m})
         \/ \E r \in Requests :
              /\ Remove(r)
              /\ m = request[r].member
              /\ members'[m] = Gone
              /\ Unlocked(r, {m})
  <1>1. ASSUME NEW r \in Requests, Invite(r), members'[m] # members[m]
        PROVE  /\ members[m] = Fresh
               /\ members'[m] = MemberRow(request[r].user, request[r].role)
               /\ \A n \in MemberIds \ {m} : members'[n] = members[n]
    BY <1>1 DEF Invite, TypeOK
  <1>2. ASSUME NEW r \in Requests, ChangeRole(r), members'[m] # members[m]
        PROVE  /\ m = request[r].member
               /\ Live(m) /\ Live(m)'
               /\ members'[m].user = members[m].user
               /\ Unlocked(r, {m})
    <2>1. /\ Live(request[r].member)
          /\ Unlocked(r, {request[r].member})
          /\ members' = [members EXCEPT ![request[r].member].role = request[r].role]
      BY <1>2 DEF ChangeRole
    <2>2. m = request[r].member
      BY <1>2, <2>1 DEF TypeOK
    <2>3. members[m] \in Member
      BY <2>1, <2>2, RowFields
    <2>4. members'[m] = [members[m] EXCEPT !.role = request[r].role]
      BY <2>1, <2>2 DEF TypeOK
    <2>5. members'[m].user = members[m].user /\ members'[m].state = members[m].state
      BY <2>3, <2>4 DEF Member
    <2>6. QED
      BY <2>1, <2>2, <2>5 DEF Live
  <1>3. ASSUME NEW r \in Requests, Remove(r), members'[m] # members[m]
        PROVE  m = request[r].member /\ members'[m] = Gone /\ Unlocked(r, {m})
    BY <1>3 DEF Remove, TypeOK
  <1>4. ASSUME NEW r \in Requests, AddToWorkspace(r) \/ Regrant(r) \/ Revoke(r)
        PROVE  members'[m] = members[m]
    BY <1>4 DEF AddToWorkspace, Regrant, Revoke
  <1>5. QED
    BY <1>1, <1>2, <1>3, <1>4, QuietSteps

\* A generated id is never fresh again, a deleted row never live again, and a
\* row stays its user's.
LEMMA RowsPersist ==
  ASSUME TypeOK, [Next]_vars, NEW m \in MemberIds, members[m] # Fresh
  PROVE  /\ members'[m] # Fresh
         /\ Live(m)' => Live(m) /\ members'[m].user = members[m].user
  <1>1. \/ members'[m] = members[m]
        \/ Live(m) /\ Live(m)' /\ members'[m].user = members[m].user
        \/ members'[m] = Gone
    BY MemberSteps
  <1>2. QED
    BY <1>1 DEF Live, Fresh, Gone

\* A request goes on, ends, begins on a live row, or selects the orphans.
LEMMA RequestSteps ==
  ASSUME TypeOK, [Next]_vars, NEW r \in Requests
  PROVE  \/ request'[r] = request[r]
         \/ request'[r] = IdleRequest
         \/ request'[r].op \notin {"change", "remove", "delete", "add"}
         \/ /\ request'[r].op \in {"change", "add"}
            /\ Live(request'[r].member)
            /\ request'[r].member \in MemberIds
            /\ members' = members
         \/ /\ request'[r].op = "remove"
            /\ Live(request'[r].member)
            /\ request'[r].member \in MemberIds
            /\ members[request'[r].member].user = request'[r].user
            /\ members' = members
         \/ /\ SelectOrphans(r)
            /\ request'[r].op = "delete"
            /\ request'[r].member = request[r].member
            /\ request'[r].user = request[r].user
            /\ request'[r].loaded = request[r].loaded
            /\ request'[r].held = IF request[r].loaded = "customer_owner" THEN Owners ELSE {}
            /\ members' = members
  <1>1. ASSUME NEW q \in Requests, BeginNext(q)
        PROVE  \/ request'[r] = request[r]
               \/ request'[r].op \notin {"change", "remove", "delete", "add"}
               \/ /\ request'[r].op \in {"change", "add"}
                  /\ Live(request'[r].member)
                  /\ request'[r].member \in MemberIds
                  /\ members' = members
               \/ /\ request'[r].op = "remove"
                  /\ Live(request'[r].member)
                  /\ request'[r].member \in MemberIds
                  /\ members[request'[r].member].user = request'[r].user
                  /\ members' = members
    <2>1. ASSUME NEW operation, Begin(q, operation)
          PROVE  members' = members /\ (request'[r] = request[r] \/ request'[r] = operation)
      BY <2>1 DEF Begin, TypeOK
    <2>2. ASSUME NEW caller \in Users, NEW u \in Users, NEW role \in AssignableRoles,
                 BeginInvite(q, caller, u, role)
          PROVE  request'[r] = request[r] \/ request'[r].op = "invite"
      BY <2>2, <2>1 DEF BeginInvite
    <2>3. ASSUME NEW caller \in Users, NEW m \in MemberIds, NEW role \in AssignableRoles,
                 BeginChange(q, caller, m, role)
          PROVE  /\ members' = members
                 /\ \/ request'[r] = request[r]
                    \/ /\ request'[r].op = "change"
                       /\ request'[r].member = m
                       /\ Live(m)
      BY <2>3, <2>1 DEF BeginChange
    <2>4. ASSUME NEW caller \in Users, NEW m \in MemberIds, BeginRemove(q, caller, m)
          PROVE  /\ members' = members
                 /\ \/ request'[r] = request[r]
                    \/ /\ request'[r].op = "remove"
                       /\ request'[r].member = m
                       /\ request'[r].user = members[m].user
                       /\ Live(m)
      BY <2>4, <2>1 DEF BeginRemove
    <2>5. ASSUME NEW caller \in Users, NEW m \in MemberIds, NEW w \in Workspaces,
                 NEW role \in WorkspaceRole, BeginAdd(q, caller, m, w, role)
          PROVE  /\ members' = members
                 /\ \/ request'[r] = request[r]
                    \/ /\ request'[r].op = "add"
                       /\ request'[r].member = m
                       /\ Live(m)
      BY <2>5, <2>1 DEF BeginAdd
    <2>6. ASSUME NEW caller \in Users, NEW g \in GrantIds, NEW role \in WorkspaceRole,
                 BeginRegrant(q, caller, g, role) \/ BeginRevoke(q, caller, g)
          PROVE  request'[r] = request[r] \/ request'[r].op \in {"regrant", "revoke"}
      BY <2>6, <2>1 DEF BeginRegrant, BeginRevoke
    <2>7. ASSUME NEW caller \in Users, NEW w \in Workspaces,
                 BeginArchive(q, caller, w) \/ BeginRestore(q, caller, w)
          PROVE  request'[r] = request[r] \/ request'[r].op \in {"archive", "restore"}
      BY <2>7, <2>1 DEF BeginArchive, BeginRestore
    <2>8. PICK caller \in Users :
      \/ \E u \in Users, role \in AssignableRoles : BeginInvite(q, caller, u, role)
      \/ \E m \in MemberIds, role \in AssignableRoles : BeginChange(q, caller, m, role)
      \/ \E m \in MemberIds : BeginRemove(q, caller, m)
      \/ \E m \in MemberIds, w \in Workspaces, role \in WorkspaceRole :
           BeginAdd(q, caller, m, w, role)
      \/ \E g \in GrantIds, role \in WorkspaceRole : BeginRegrant(q, caller, g, role)
      \/ \E g \in GrantIds : BeginRevoke(q, caller, g)
      \/ \E w \in Workspaces : BeginArchive(q, caller, w) \/ BeginRestore(q, caller, w)
      BY <1>1 DEF BeginNext
    <2>9. CASE \E u \in Users, role \in AssignableRoles : BeginInvite(q, caller, u, role)
      BY <2>2, <2>9
    <2>10. CASE \E m \in MemberIds, role \in AssignableRoles : BeginChange(q, caller, m, role)
      BY <2>3, <2>10
    <2>11. CASE \E m \in MemberIds : BeginRemove(q, caller, m)
      BY <2>4, <2>11
    <2>12. CASE \E m \in MemberIds, w \in Workspaces, role \in WorkspaceRole :
                  BeginAdd(q, caller, m, w, role)
      BY <2>5, <2>12
    <2>13. CASE \/ \E g \in GrantIds, role \in WorkspaceRole : BeginRegrant(q, caller, g, role)
                \/ \E g \in GrantIds : BeginRevoke(q, caller, g)
      <3>1. "member" \in WorkspaceRole
        BY DEF WorkspaceRole
      <3>2. request'[r] = request[r] \/ request'[r].op \in {"regrant", "revoke"}
        BY <2>6, <2>13, <3>1
      <3>3. QED
        BY <3>2
    <2>14. CASE \E w \in Workspaces : BeginArchive(q, caller, w) \/ BeginRestore(q, caller, w)
      <3>1. request'[r] = request[r] \/ request'[r].op \in {"archive", "restore"}
        BY <2>7, <2>14
      <3>2. QED
        BY <3>1
    <2>15. QED
      BY <2>8, <2>9, <2>10, <2>11, <2>12, <2>13, <2>14
  <1>2. ASSUME NEW q \in Requests, EndRequest(q)
        PROVE  request'[r] = request[r] \/ request'[r] = IdleRequest
    BY <1>2 DEF EndRequest, TypeOK
  <1>3. ASSUME NEW q \in Requests, SelectOrphans(q), request'[r] # request[r]
        PROVE  /\ SelectOrphans(r)
               /\ request'[r].op = "delete"
               /\ request'[r].member = request[r].member
               /\ request'[r].user = request[r].user
               /\ request'[r].loaded = request[r].loaded
               /\ request'[r].held =
                    IF request[r].loaded = "customer_owner" THEN Owners ELSE {}
               /\ members' = members
    <2>1. q = r
      BY <1>3 DEF SelectOrphans, TypeOK
    <2>2. request'[r] =
            [op |-> "delete", member |-> request[r].member, user |-> request[r].user,
             loaded |-> request[r].loaded, seen |-> GrantsOf(request[r].member),
             held |-> IF request[r].loaded = "customer_owner" THEN Owners ELSE {}]
      BY <1>3, <2>1 DEF SelectOrphans, TypeOK
    <2>3. QED
      BY <1>3, <2>1, <2>2 DEF SelectOrphans
  <1>4. ASSUME NEW q \in Requests, CommitNext(q) \/ AbortRequest(q)
        PROVE  EndRequest(q)
    BY <1>4 DEF CommitNext, AbortRequest, Invite, ChangeRole, Remove, AddToWorkspace,
                Regrant, Revoke, Archive, Restore
  <1>5. QED
    BY <1>1, <1>2, <1>3, <1>4 DEF Next, vars

\* A workspace membership that exists after a step existed before it, or has
\* just been added for the member its request names.
LEMMA GrantSteps ==
  ASSUME TypeOK, [Next]_vars, NEW g \in GrantIds, LiveGrant(g)'
  PROVE  \/ /\ LiveGrant(g)
            /\ grants'[g].member = grants[g].member
            /\ grants'[g].workspace = grants[g].workspace
         \/ \E r \in Requests :
              /\ AddToWorkspace(r)
              /\ grants'[g].member = request[r].member
              /\ grants'[g].workspace = request[r].workspace
              /\ \A h \in GrantIds \ {g} : grants'[h] = grants[h]
              /\ members' = members
  <1>1. CASE grants' = grants
    BY <1>1 DEF LiveGrant
  <1>2. ASSUME NEW r \in Requests, AddToWorkspace(r), grants'[g] # grants[g]
        PROVE  /\ grants'[g].member = request[r].member
               /\ grants'[g].workspace = request[r].workspace
               /\ \A h \in GrantIds \ {g} : grants'[h] = grants[h]
               /\ members' = members
    <2>1. PICK h \in GrantIds :
            grants' = [grants EXCEPT ![h] =
                         GrantRow(request[r].member, request[r].workspace, request[r].role)]
      BY <1>2 DEF AddToWorkspace
    <2>2. g = h
      BY <1>2, <2>1 DEF TypeOK
    <2>3. QED
      BY <1>2, <2>1, <2>2 DEF AddToWorkspace, GrantRow, TypeOK
  <1>3. ASSUME NEW r \in Requests, Regrant(r)
        PROVE  /\ LiveGrant(g)
               /\ grants'[g].member = grants[g].member
               /\ grants'[g].workspace = grants[g].workspace
    <2>1. CASE grants' = grants
      BY <2>1 DEF LiveGrant
    <2>2. CASE /\ LiveGrant(request[r].grant)
               /\ grants' = [grants EXCEPT ![request[r].grant].role = request[r].role]
      <3>1. CASE g # request[r].grant
        BY <2>2, <3>1 DEF TypeOK, LiveGrant
      <3>2. CASE g = request[r].grant
        <4>1. grants'[g] = [grants[g] EXCEPT !.role = request[r].role] /\ grants[g] \in Grant
          BY <2>2, <3>2, RowFields DEF TypeOK
        <4>2. QED
          BY <2>2, <3>2, <4>1 DEF Grant
      <3>3. QED
        BY <3>1, <3>2
    <2>3. QED
      BY <1>3, <2>1, <2>2 DEF Regrant
  <1>4. ASSUME NEW r \in Requests, Revoke(r) \/ Remove(r)
        PROVE  /\ LiveGrant(g)
               /\ grants'[g].member = grants[g].member
               /\ grants'[g].workspace = grants[g].workspace
    <2>1. grants'[g] = grants[g] \/ grants'[g] = Gone
      BY <1>4 DEF Revoke, Remove, TypeOK
    <2>2. QED
      BY <2>1 DEF LiveGrant, Gone
  <1>5. ASSUME NEW r \in Requests, Invite(r) \/ ChangeRole(r)
        PROVE  grants' = grants
    BY <1>5 DEF Invite, ChangeRole
  <1>6. ASSUME grants'[g] = grants[g]
        PROVE  /\ LiveGrant(g)
               /\ grants'[g].member = grants[g].member
               /\ grants'[g].workspace = grants[g].workspace
    BY <1>6 DEF LiveGrant
  <1>7. QED
    BY <1>1, <1>2, <1>3, <1>4, <1>5, <1>6, QuietSteps

-----------------------------------------------------------------------------
(* The parts of the invariant.                                             *)

\* Rows and requests keep naming ids that have been generated.
LEMMA ReferencesKept ==
  ASSUME TypeOK, References, [Next]_vars
  PROVE  References'
  <1>1. ASSUME NEW g \in GrantIds, LiveGrant(g)'
        PROVE  members'[grants'[g].member] # Fresh
    <2>1. CASE LiveGrant(g) /\ grants'[g].member = grants[g].member
      <3>1. grants[g].member \in MemberIds /\ members[grants[g].member] # Fresh
        BY <2>1, RowFields DEF References, Grant
      <3>2. QED
        BY <2>1, <3>1, RowsPersist
    <2>2. ASSUME NEW r \in Requests, AddToWorkspace(r),
                 grants'[g].member = request[r].member, members' = members
          PROVE  members'[grants'[g].member] # Fresh
      BY <2>2 DEF AddToWorkspace, References
    <2>3. QED
      BY <1>1, <2>1, <2>2, GrantSteps
  <1>2. ASSUME NEW r \in Requests, request'[r].op \in {"change", "remove", "delete", "add"}
        PROVE  /\ members'[request'[r].member] # Fresh
               /\ request'[r].op \in {"remove", "delete"} /\ members'[request'[r].member].state = "row" =>
                    members'[request'[r].member].user = request'[r].user
    <2>1. ASSUME request'[r] = request[r]
          PROVE  /\ members'[request'[r].member] # Fresh
                 /\ request'[r].op \in {"remove", "delete"} /\ members'[request'[r].member].state = "row" =>
                      members'[request'[r].member].user = request'[r].user
      <3>1. request[r].member \in MemberIds /\ members[request[r].member] # Fresh
        BY <1>2, <2>1, RequestFields DEF References
      <3>2. PICK m \in MemberIds : m = request[r].member
        BY <3>1
      <3>3. members'[m] # Fresh /\ (Live(m)' => Live(m) /\ members'[m].user = members[m].user)
        BY <3>1, <3>2, RowsPersist
      <3>4. request[r].op \in {"remove", "delete"} /\ Live(m) => members[m].user = request[r].user
        BY <3>2 DEF References
      <3>5. QED
        BY <2>1, <3>2, <3>3, <3>4 DEF Live
    <2>2. ASSUME members' = members, Live(request'[r].member)
          PROVE  members'[request'[r].member] # Fresh
      BY <2>2 DEF Live, Fresh
    <2>3. ASSUME SelectOrphans(r), members' = members,
                 request'[r].member = request[r].member, request'[r].user = request[r].user
          PROVE  /\ members'[request'[r].member] # Fresh
                 /\ members'[request'[r].member].state = "row" =>
                      members'[request'[r].member].user = request'[r].user
      BY <2>3 DEF SelectOrphans, References, Live
    <2>4. request'[r] # IdleRequest
      BY <1>2 DEF IdleRequest
    <2>5. QED
      BY <1>2, <2>1, <2>2, <2>3, <2>4, RequestSteps
  <1>3. QED
    BY <1>1, <1>2 DEF References, Live, LiveGrant

\* No step makes a second row for a user, or a second role for a member.
LEMMA UniqueKept ==
  ASSUME TypeOK, References, RowsAreUnique, [Next]_vars
  PROVE  RowsAreUnique'
  <1>1. ASSUME NEW m \in MemberIds, NEW n \in MemberIds, Live(m)', Live(n)',
               members'[m].user = members'[n].user, m # n
        PROVE  FALSE
    <2>1. ASSUME NEW i \in MemberIds, Live(i)', members[i] # Fresh
          PROVE  Live(i) /\ members'[i].user = members[i].user
      BY <2>1, RowsPersist
    <2>2. ASSUME NEW i \in MemberIds, Live(i)', members[i] = Fresh
          PROVE  \E r \in Requests :
                   /\ Invite(r)
                   /\ members'[i] = MemberRow(request[r].user, request[r].role)
                   /\ \A j \in MemberIds \ {i} : members'[j] = members[j]
      <3>1. members'[i] # members[i] /\ members'[i] # Gone /\ ~Live(i)
        BY <2>2 DEF Live, Fresh, Gone
      <3>2. QED
        BY <3>1, MemberSteps
    <2>3. ASSUME NEW i \in MemberIds, NEW j \in MemberIds, i # j, Live(i)', Live(j)',
                 members'[i].user = members'[j].user, members[i] = Fresh
          PROVE  FALSE
      <3>1. PICK r \in Requests :
              /\ Invite(r)
              /\ members'[i] = MemberRow(request[r].user, request[r].role)
              /\ members'[j] = members[j]
        BY <2>2, <2>3
      <3>2. j \in MembershipsOf(request[r].user)
        BY <2>3, <3>1 DEF MembershipsOf, Live, MemberRow
      <3>3. QED
        BY <3>1, <3>2 DEF Invite
    <2>4. members[m] # Fresh /\ members[n] # Fresh
      BY <1>1, <2>3
    <2>5. QED
      BY <1>1, <2>1, <2>4 DEF RowsAreUnique
  <1>2. ASSUME NEW g \in GrantIds, NEW h \in GrantIds, LiveGrant(g)', LiveGrant(h)',
               grants'[g].member = grants'[h].member,
               grants'[g].workspace = grants'[h].workspace, g # h
        PROVE  FALSE
    <2>1. ASSUME NEW i \in GrantIds, NEW j \in GrantIds, i # j, LiveGrant(j)', 
                 grants'[i].member = grants'[j].member,
                 grants'[i].workspace = grants'[j].workspace,
                 NEW r \in Requests, AddToWorkspace(r),
                 grants'[i].member = request[r].member,
                 grants'[i].workspace = request[r].workspace,
                 grants'[j] = grants[j]
          PROVE  FALSE
      <3>1. j \in GrantsOf(request[r].member)
        BY <2>1 DEF GrantsOf, LiveGrant
      <3>2. QED
        BY <2>1, <3>1 DEF AddToWorkspace
    <2>2. /\ LiveGrant(g) /\ grants'[g].member = grants[g].member
          /\ grants'[g].workspace = grants[g].workspace
      BY <1>2, <2>1, GrantSteps
    <2>3. /\ LiveGrant(h) /\ grants'[h].member = grants[h].member
          /\ grants'[h].workspace = grants[h].workspace
      BY <1>2, <2>1, GrantSteps
    <2>4. QED
      BY <1>2, <2>2, <2>3 DEF RowsAreUnique
  <1>3. QED
    BY <1>1, <1>2 DEF RowsAreUnique

\* The index keeps mirroring the memberships.
LEMMA IndexKept ==
  ASSUME TypeOK, References, RowsAreUnique, IndexMirrorsMemberships, [Next]_vars
  PROVE  IndexMirrorsMemberships'
  <1>1. \A u : u \in index <=> \E m \in MemberIds : Live(m) /\ members[m].user = u
    BY DEF IndexMirrorsMemberships
  <1>2. SUFFICES \A u : u \in index' <=>
                   \E m \in MemberIds : members'[m].state = "row" /\ members'[m].user = u
    BY DEF IndexMirrorsMemberships, Live
  <1>3. ASSUME index' = index,
               \A m \in MemberIds : /\ members'[m].state = members[m].state
                                    /\ Live(m) => members'[m].user = members[m].user
        PROVE  \A u : u \in index' <=>
                 \E m \in MemberIds : members'[m].state = "row" /\ members'[m].user = u
    <2>1. \A u : \A m \in MemberIds :
            members'[m].state = "row" /\ members'[m].user = u
              <=> Live(m) /\ members[m].user = u
      BY <1>3 DEF Live
    <2>2. QED
      BY <1>1, <1>3, <2>1
  <1>4. ASSUME NEW r \in Requests, Invite(r)
        PROVE  \A u : u \in index' <=>
                 \E m \in MemberIds : members'[m].state = "row" /\ members'[m].user = u
    <2>1. PICK i \in MemberIds :
            /\ members[i] = Fresh
            /\ members' = [members EXCEPT ![i] = MemberRow(request[r].user, request[r].role)]
      BY <1>4 DEF Invite
    <2>2. /\ members'[i].state = "row" /\ members'[i].user = request[r].user
          /\ \A m \in MemberIds \ {i} : members'[m] = members[m]
          /\ ~Live(i)
      BY <2>1 DEF TypeOK, MemberRow, Live, Fresh
    <2>3. index' = index \cup {request[r].user}
      BY <1>4 DEF Invite
    <2>4. QED
      BY <1>1, <2>2, <2>3 DEF Live
  <1>5. ASSUME NEW r \in Requests, ChangeRole(r)
        PROVE  \A u : u \in index' <=>
                 \E m \in MemberIds : members'[m].state = "row" /\ members'[m].user = u
    <2>1. index' = index
      BY <1>5 DEF ChangeRole
    <2>2. request[r].member \in MemberIds
      BY <1>5, RequestFields DEF ChangeRole
    <2>3. CASE members' = members
      BY <1>3, <2>1, <2>3
    <2>4. CASE /\ Live(request[r].member)
               /\ members' = [members EXCEPT ![request[r].member].role = request[r].role]
      <3>1. \A m \in MemberIds \ {request[r].member} : members'[m] = members[m]
        BY <2>4 DEF TypeOK
      <3>2. /\ members[request[r].member] \in Member
            /\ members'[request[r].member] =
                 [members[request[r].member] EXCEPT !.role = request[r].role]
        BY <2>2, <2>4, RowFields DEF TypeOK
      <3>3. /\ members'[request[r].member].state = members[request[r].member].state
            /\ members'[request[r].member].user = members[request[r].member].user
        BY <3>2 DEF Member
      <3>4. QED
        BY <1>3, <2>1, <3>1, <3>3
    <2>5. QED
      BY <1>5, <2>3, <2>4 DEF ChangeRole
  <1>6. ASSUME NEW r \in Requests, Remove(r)
        PROVE  \A u : u \in index' <=>
                 \E m \in MemberIds : members'[m].state = "row" /\ members'[m].user = u
    <2>1. PICK i \in MemberIds : i = request[r].member
      BY <1>6, RequestFields DEF Remove
    <2>2. PICK v : v = request[r].user
      OBVIOUS
    <2>3. /\ members'[i] = Gone
          /\ \A m \in MemberIds \ {i} : members'[m] = members[m]
          /\ index' = IF MembershipsOf(v) \ {i} = {} THEN index \ {v} ELSE index
      BY <1>6, <2>1, <2>2 DEF Remove, TypeOK
    <2>4. Live(i) => members[i].user = v
      BY <1>6, <2>1, <2>2 DEF Remove, References
    <2>5. MembershipsOf(v) = {m \in MemberIds : Live(m) /\ members[m].user = v}
      BY DEF MembershipsOf
    <2>6. \A m \in MemberIds \ {i} : members'[m].state = "row" <=> Live(m)
      BY <2>3 DEF Live
    <2>7. members'[i].state # "row"
      BY <2>3 DEF Gone
    <2>8. QED
      BY <1>1, <2>3, <2>4, <2>5, <2>6, <2>7
  <1>7. ASSUME NEW r \in Requests, AddToWorkspace(r) \/ Regrant(r) \/ Revoke(r)
        PROVE  members' = members /\ index' = index
    BY <1>7 DEF AddToWorkspace, Regrant, Revoke
  <1>8. QED
    BY <1>3, <1>4, <1>5, <1>6, <1>7, QuietSteps

\* Owner rows that a removal has locked are changed by no other request.
LEMMA LocksKept ==
  ASSUME TypeOK, LocksProtectOwners, [Next]_vars
  PROVE  LocksProtectOwners'
  <1>1. SUFFICES ASSUME NEW r \in Requests, request'[r].op = "delete",
                        request'[r].loaded = "customer_owner"
                 PROVE  /\ \A m \in request'[r].held :
                             m \in MemberIds /\ members'[m].state = "row"
                               /\ members'[m].role = "customer_owner"
                        /\ Cardinality(request'[r].held) > 1
    BY DEF LocksProtectOwners, Owners, Live
  <1>2. CASE request'[r] = request[r]
    <2>1. /\ request[r].held \subseteq Owners
          /\ Cardinality(request[r].held) > 1
      BY <1>1, <1>2 DEF LocksProtectOwners
    <2>2. ASSUME NEW m \in request[r].held
          PROVE  members'[m] = members[m] /\ m \in MemberIds
      <3>1. m \in MemberIds /\ Live(m)
        BY <2>1 DEF Owners
      <3>2. ASSUME NEW q \in Requests, Unlocked(q, {m})
            PROVE  q = r
        BY <1>1, <1>2, <3>2 DEF Unlocked
      <3>3. ASSUME NEW q \in Requests, ChangeRole(q) \/ Remove(q)
            PROVE  q # r
        <4>1. ASSUME ChangeRole(r)
              PROVE  FALSE
          BY <1>1, <1>2, <4>1 DEF ChangeRole
        <4>2. ASSUME Remove(r)
              PROVE  FALSE
          <5>1. request'[r] = IdleRequest
            BY <4>2 DEF Remove, EndRequest, TypeOK
          <5>2. QED
            BY <1>1, <5>1 DEF IdleRequest
        <4>3. QED
          BY <3>3, <4>1, <4>2
      <3>4. members[m] # Fresh
        BY <3>1 DEF Live, Fresh
      <3>5. QED
        BY <3>1, <3>2, <3>3, <3>4, MemberSteps
    <2>3. QED
      BY <1>2, <2>1, <2>2 DEF Owners, Live
  <1>3. CASE /\ SelectOrphans(r)
             /\ request'[r].loaded = request[r].loaded
             /\ request'[r].held =
                  IF request[r].loaded = "customer_owner" THEN Owners ELSE {}
             /\ members' = members
    BY <1>1, <1>3 DEF SelectOrphans, AnotherOwner, Owners, Live
  <1>4. request'[r] # IdleRequest
    BY <1>1 DEF IdleRequest
  <1>5. QED
    BY <1>1, <1>2, <1>3, <1>4, RequestSteps

\* The invariant is inductive.
LEMMA Inductive ==
  ASSUME MembershipInvariant, [Next]_vars
  PROVE  MembershipInvariant'
  BY TypesKept, ReferencesKept, UniqueKept, IndexKept, LocksKept DEF MembershipInvariant

\* Initially there is the founder's row and nothing else.
LEMMA Initially == Init => MembershipInvariant
  <1> SUFFICES ASSUME Init PROVE MembershipInvariant
    OBVIOUS
  <1>1. PICK i \in MemberIds :
          members = [m \in MemberIds |->
                       IF m = i THEN MemberRow(Founder, "customer_owner") ELSE Fresh]
    BY DEF Init
  <1>2. MemberRow(Founder, "customer_owner") \in Member
    BY MembershipAssumption DEF MemberRow, Member, CustomerRole
  <1>3. TypeOK
    BY <1>1, <1>2, MembershipAssumption DEF Init, TypeOK
  <1>4. /\ Live(i) /\ members[i].user = Founder
        /\ \A m \in MemberIds \ {i} : ~Live(m)
    BY <1>1 DEF Live, MemberRow, Fresh
  <1>5. References /\ RowsAreUnique /\ LocksProtectOwners
    BY <1>4 DEF Init, References, RowsAreUnique, LocksProtectOwners, LiveGrant, Fresh,
                IdleRequest
  <1>6. IndexMirrorsMemberships
    BY <1>4 DEF Init, IndexMirrorsMemberships
  <1>7. QED
    BY <1>3, <1>5, <1>6 DEF MembershipInvariant

-----------------------------------------------------------------------------
(* The theorems.                                                           *)

\* The invariant of the membership tables holds, for any number of users,
\* rows and concurrent requests.
THEOREM MembershipInvariantHolds == Spec => []MembershipInvariant
  BY Initially, Inductive, PTL DEF Spec

\* A set of rows with more than one owner keeps one when one row goes.
LEMMA OneRemains ==
  ASSUME NEW S \in SUBSET MemberIds, NEW m, Cardinality(S) > 1
  PROVE  \E n \in S : n # m
  <1>1. SUFFICES ASSUME \A n \in S : n = m PROVE FALSE
    OBVIOUS
  <1>2. S \subseteq {m}
    BY <1>1
  <1>3. IsFiniteSet({m}) /\ Cardinality({m}) = 1
    BY FS_Singleton
  <1>4. Cardinality(S) <= 1 /\ Cardinality(S) \in Nat
    BY <1>2, <1>3, FS_Subset, FS_CardinalityType
  <1>5. QED
    BY <1>4

\* No request that knew its target for an owner leaves the customer without
\* one, however removals and demotions of owners race.
THEOREM OwnersSurviveKnownRoles == Spec => OwnerIsLostOnlyToAStaleRole
  <1>1. ASSUME MembershipInvariant, [Next]_vars, Owners # {}, Owners' = {}
        PROVE  \E r \in Requests :
                 /\ request[r].op \in {"change", "delete"}
                 /\ request[r].loaded # "customer_owner"
                 /\ request'[r] = IdleRequest
    <2>1. TypeOK /\ LocksProtectOwners
      BY <1>1 DEF MembershipInvariant
    <2>2. \A n \in MemberIds :
            ~(members'[n].state = "row" /\ members'[n].role = "customer_owner")
      BY <1>1 DEF Owners, Live
    <2>3. ASSUME NEW n \in Owners, members'[n] = members[n]
          PROVE  FALSE
      BY <2>2, <2>3 DEF Owners, Live
    <2>4. PICK o \in MemberIds : o \in Owners
      BY <1>1 DEF Owners
    <2>5. ASSUME NEW r \in Requests, ChangeRole(r)
          PROVE  /\ request[r].op \in {"change", "delete"}
                 /\ request[r].loaded # "customer_owner"
                 /\ request'[r] = IdleRequest
      <3>1. request[r].member \in MemberIds
        BY <2>1, <2>5, RequestFields DEF ChangeRole
      <3>2. \A n \in MemberIds \ {request[r].member} : members'[n] = members[n]
        BY <2>1, <2>5 DEF ChangeRole, TypeOK
      <3>3. ASSUME Cardinality(Owners) > 1
            PROVE  FALSE
        <4>1. PICK n \in Owners : n # request[r].member
          BY <3>3, OneRemains DEF Owners
        <4>2. QED
          BY <2>3, <3>2, <4>1 DEF Owners
      <3>4. ASSUME request[r].loaded = "customer_owner", request[r].role = "customer_owner"
            PROVE  FALSE
        BY <2>3, <2>4, <2>5, <3>4 DEF ChangeRole
      <3>5. request[r].loaded # "customer_owner"
        BY <2>5, <3>3, <3>4 DEF ChangeRole, AnotherOwner
      <3>6. QED
        BY <2>1, <2>5, <3>5 DEF ChangeRole, EndRequest, TypeOK
    <2>6. ASSUME NEW r \in Requests, Remove(r)
          PROVE  /\ request[r].op \in {"change", "delete"}
                 /\ request[r].loaded # "customer_owner"
                 /\ request'[r] = IdleRequest
      <3>1. \A n \in MemberIds \ {request[r].member} : members'[n] = members[n]
        BY <2>1, <2>6 DEF Remove, TypeOK
      <3>2. ASSUME request[r].loaded = "customer_owner"
            PROVE  FALSE
        <4>1. request[r].held \subseteq Owners /\ Cardinality(request[r].held) > 1
          BY <2>1, <2>6, <3>2 DEF Remove, LocksProtectOwners
        <4>2. PICK n \in request[r].held : n # request[r].member
          BY <4>1, OneRemains DEF Owners
        <4>3. QED
          BY <2>3, <3>1, <4>1, <4>2 DEF Owners
      <3>3. QED
        BY <2>1, <2>6, <3>2 DEF Remove, EndRequest, TypeOK
    <2>7. ASSUME NEW r \in Requests, Invite(r)
          PROVE  FALSE
      <3>1. members'[o] = members[o]
        BY <2>1, <2>4, <2>7 DEF Invite, TypeOK, Owners, Live, Fresh
      <3>2. QED
        BY <2>3, <2>4, <3>1
    <2>8. members' # members
      BY <2>3, <2>4
    <2>9. ASSUME NEW r \in Requests, AddToWorkspace(r) \/ Regrant(r) \/ Revoke(r)
          PROVE  members' = members
      BY <2>9 DEF AddToWorkspace, Regrant, Revoke
    <2>10. QED
      BY <1>1, <2>5, <2>6, <2>7, <2>8, <2>9, QuietSteps
  <1>2. MembershipInvariant /\ [Next]_vars =>
          [Owners # {} /\ Owners' = {} =>
             \E r \in Requests :
               /\ request[r].op \in {"change", "delete"}
               /\ request[r].loaded # "customer_owner"
               /\ request'[r] = IdleRequest]_vars
    BY <1>1
  <1>3. QED
    BY <1>2, MembershipInvariantHolds, PTL DEF Spec, OwnerIsLostOnlyToAStaleRole

\* A user who is invited has no right in a workspace, whatever workspace
\* memberships their earlier membership has left behind.
THEOREM InvitationsGrantNothing == Spec => InvitationRestoresNoRight
  <1>1. ASSUME MembershipInvariant, [Next]_vars, NEW u \in index' \ index
        PROVE  (\A w \in Workspaces : ResolvedRole(u, w)' = NoRole) \/ IsOwner(u)'
    <2>1. TypeOK /\ References /\ IndexMirrorsMemberships
      BY <1>1 DEF MembershipInvariant
    <2>2. PICK r \in Requests : Invite(r) /\ u = request[r].user
      <3>1. ASSUME NEW r \in Requests, ChangeRole(r) \/ Remove(r) \/ AddToWorkspace(r)
                                        \/ Regrant(r) \/ Revoke(r)
            PROVE  index' \subseteq index
        BY <3>1 DEF ChangeRole, Remove, AddToWorkspace, Regrant, Revoke
      <3>2. QED
        BY <1>1, <3>1, QuietSteps DEF Invite
    <2>3. PICK i \in MemberIds :
            /\ members[i] = Fresh
            /\ members' = [members EXCEPT ![i] = MemberRow(u, request[r].role)]
      BY <2>2 DEF Invite
    <2>4. \A m \in MemberIds \ {i} : members'[m] = members[m]
      BY <2>1, <2>3 DEF TypeOK
    <2>5. \A m \in MemberIds : Live(m) => members[m].user # u
      BY <1>1, <2>1 DEF IndexMirrorsMemberships
    <2>6. \A m \in MembershipsOf(u)' : m = i
      BY <2>4, <2>5 DEF MembershipsOf, Live
    <2>7. grants' = grants
      BY <2>2 DEF Invite
    <2>8. \A g \in GrantIds : LiveGrant(g) => grants[g].member # i
      BY <2>1, <2>3 DEF References
    <2>9. ASSUME NEW w \in Workspaces
          PROVE  \A g \in GrantIds : g \notin RoleRows(u, w)'
      <3>1. ASSUME NEW g \in GrantIds, g \in RoleRows(u, w)'
            PROVE  LiveGrant(g) /\ grants[g].member \in MembershipsOf(u)'
        BY <2>7, <3>1 DEF RoleRows, LiveGrant
      <3>2. QED
        BY <2>6, <2>8, <3>1
    <2>10. ASSUME NEW w \in Workspaces, ~IsOwner(u)'
           PROVE  ResolvedRole(u, w)' = NoRole
      <3>1. RoleRows(u, w)' \subseteq GrantIds
        BY DEF RoleRows
      <3>2. RoleRows(u, w)' = {}
        BY <2>9, <3>1
      <3>3. QED
        BY <2>10, <3>2 DEF ResolvedRole
    <2>11. QED
      BY <2>10
  <1>2. MembershipInvariant /\ [Next]_vars =>
          [\A u \in index' \ index :
             (\A w \in Workspaces : ResolvedRole(u, w)' = NoRole) \/ IsOwner(u)']_vars
    BY <1>1
  <1>3. QED
    BY <1>2, MembershipInvariantHolds, PTL DEF Spec, InvitationRestoresNoRight

\* What a user's listing shows is what their requests resolve.
THEOREM ListingIsResolution == Spec => []ListingMatchesResolution
  <1>1. ASSUME MembershipInvariant, NEW u \in Users
        PROVE  list_my_workspaces(u) =
                 {<<w, get_workspace_context(u, w)>> :
                    w \in {v \in Workspaces : get_workspace_context(u, v) # NoRole}}
    <2> DEFINE open == Workspaces \ archived
    <2>1. TypeOK /\ RowsAreUnique /\ IndexMirrorsMemberships
      BY <1>1 DEF MembershipInvariant
    <2>2. \A m, n \in MembershipsOf(u) : m = n
      BY <2>1 DEF MembershipsOf, RowsAreUnique
    <2>3. u \in index <=> MembershipsOf(u) # {}
      BY <2>1 DEF MembershipsOf, IndexMirrorsMemberships
    <2>4. \A w \in Workspaces : \A g, h \in RoleRows(u, w) : g = h
      BY <2>1, <2>2 DEF RoleRows, RowsAreUnique
    <2>5. \A w \in Workspaces : \A g \in RoleRows(u, w) :
            /\ grants[g].member \in MembershipsOf(u)
            /\ grants[g].workspace = w
            /\ grants[g].role \in WorkspaceRole
      BY <2>1, RowFields DEF RoleRows, Grant
    <2>6. \A w \in Workspaces : w \in archived => get_workspace_context(u, w) = NoRole
      BY DEF get_workspace_context
    <2>7. \A w \in open : get_workspace_context(u, w) = ResolvedRole(u, w)
      BY DEF get_workspace_context
    <2>8. NoRole \notin WorkspaceRole /\ "workspace_admin" # NoRole
      BY DEF NoRole, WorkspaceRole
    <2>9. CASE u \notin index \/ \E m \in MembershipsOf(u) : members[m].role = "auditor"
      <3>1. list_my_workspaces(u) = {}
        BY <2>9 DEF list_my_workspaces
      <3>2. ~IsOwner(u)
        BY <2>2, <2>3, <2>9 DEF IsOwner
      <3>3. \A w \in Workspaces : \A g \in RoleRows(u, w) :
              members[grants[g].member].role = "auditor"
        BY <2>2, <2>3, <2>5, <2>9
      <3>4. \A w \in Workspaces : ResolvedRole(u, w) = NoRole
        BY <3>2, <3>3 DEF ResolvedRole
      <3>5. {v \in Workspaces : get_workspace_context(u, v) # NoRole} = {}
        BY <2>6, <2>7, <3>4
      <3>6. QED
        BY <3>1, <3>5
    <2>10. CASE /\ u \in index
                /\ ~\E m \in MembershipsOf(u) : members[m].role = "auditor"
                /\ IsOwner(u)
      <3>1. list_my_workspaces(u) = {<<w, "workspace_admin">> : w \in open}
        BY <2>10 DEF list_my_workspaces
      <3>2. \A w \in open : get_workspace_context(u, w) = "workspace_admin"
        BY <2>7, <2>10 DEF ResolvedRole
      <3>3. {v \in Workspaces : get_workspace_context(u, v) # NoRole} = open
        BY <2>6, <2>8, <3>2
      <3>4. QED
        BY <3>1, <3>2, <3>3
    <2>11. CASE /\ u \in index
                /\ ~\E m \in MembershipsOf(u) : members[m].role = "auditor"
                /\ ~IsOwner(u)
      <3> DEFINE rows == UNION {RoleRows(u, w) : w \in open}
      <3>1. list_my_workspaces(u) = {<<grants[g].workspace, grants[g].role>> : g \in rows}
        BY <2>11 DEF list_my_workspaces
      <3>2. \A w \in open : RoleRows(u, w) = {} => get_workspace_context(u, w) = NoRole
        BY <2>7, <2>11 DEF ResolvedRole
      <3>3. \A w \in open : \A g \in RoleRows(u, w) :
              get_workspace_context(u, w) = grants[g].role
        <4>1. SUFFICES ASSUME NEW w \in open, NEW g \in RoleRows(u, w)
                       PROVE  ResolvedRole(u, w) = grants[g].role
          BY <2>7
        <4>2. members[grants[g].member].role # "auditor"
          BY <2>5, <2>11, <4>1
        <4>3. (CHOOSE h \in RoleRows(u, w) : TRUE) = g
          BY <2>4, <4>1
        <4>4. QED
          BY <2>11, <4>1, <4>2, <4>3 DEF ResolvedRole
      <3>4. \A w \in Workspaces :
              get_workspace_context(u, w) # NoRole <=> w \in open /\ RoleRows(u, w) # {}
        BY <2>5, <2>6, <2>8, <3>2, <3>3
      <3>5. ASSUME NEW g \in rows
            PROVE  /\ grants[g].workspace \in Workspaces
                   /\ get_workspace_context(u, grants[g].workspace) = grants[g].role
                   /\ grants[g].role # NoRole
        BY <2>5, <2>8, <3>3, <3>5
      <3>6. ASSUME NEW w \in Workspaces, get_workspace_context(u, w) # NoRole
            PROVE  \E g \in rows :
                     grants[g].workspace = w /\ grants[g].role = get_workspace_context(u, w)
        BY <2>5, <3>3, <3>4, <3>6
      <3>7. QED
        BY <3>1, <3>5, <3>6
    <2>12. QED
      BY <2>9, <2>10, <2>11
  <1>2. MembershipInvariant => ListingMatchesResolution
    BY <1>1 DEF ListingMatchesResolution
  <1>3. QED
    BY <1>2, MembershipInvariantHolds, PTL
=============================================================================
