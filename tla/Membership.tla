----------------------------- MODULE Membership -----------------------------
(***************************************************************************)
(* Who belongs to a customer and to its workspaces, and with which role    *)
(* (application/customer_service.py, workspace_service.py,                 *)
(* authz_service.py and the endpoints over them).                          *)
(*                                                                         *)
(* A request resolves its caller's role and loads the row it is about      *)
(* without a lock; its transaction then writes and commits.  Nothing it    *)
(* loaded is read again: a role that changed meanwhile is the old one to   *)
(* it.  A transaction takes the audit tip's lock before it commits, so     *)
(* transactions commit one after the other; remove_customer_member takes   *)
(* it before it deletes the membership.                                    *)
(***************************************************************************)
EXTENDS Integers, FiniteSets

CONSTANTS
  Users,
  Founder,          \* the first owner (create_customer_with_owner)
  MemberIds,        \* primary keys of customer_memberships
  GrantIds,         \* primary keys of workspace_memberships
  Workspaces,       \* the workspaces provisioned for the customer
  Requests,         \* request slots
  AssignableRoles   \* the roles that invitations and role changes ask for

CustomerRole == {"customer_owner", "member", "auditor"}

WorkspaceRole == {"workspace_admin", "member"}

NoRole == "none"

ASSUME MembershipAssumption ==
  /\ Founder \in Users
  /\ AssignableRoles \subseteq CustomerRole
  /\ MemberIds # {}
  /\ IsFiniteSet(MemberIds)

VARIABLES
  members,    \* customer_memberships
  grants,     \* workspace_memberships
  index,      \* user_customer_index
  archived,   \* the workspaces with archived_at
  request     \* request slot -> what its transaction holds in memory

vars == <<members, grants, index, archived, request>>

-----------------------------------------------------------------------------
(* Rows.  An id is fresh (never generated), or a row, or gone (deleted).   *)

Fresh == [state |-> "fresh"]
Gone == [state |-> "gone"]

Member == [state: {"row"}, user: Users, role: CustomerRole]

Grant == [state: {"row"}, member: MemberIds, workspace: Workspaces, role: WorkspaceRole]

MemberRow(u, role) == [state |-> "row", user |-> u, role |-> role]

GrantRow(m, w, role) ==
  [state |-> "row", member |-> m, workspace |-> w, role |-> role]

Live(m) == members[m].state = "row"

LiveGrant(g) == grants[g].state = "row"

MembershipsOf(u) == {m \in MemberIds : Live(m) /\ members[m].user = u}

Owners == {m \in MemberIds : Live(m) /\ members[m].role = "customer_owner"}

GrantsOf(m) == {g \in GrantIds : LiveGrant(g) /\ grants[g].member = m}

IdleRequest == [op |-> "idle"]

\* "loaded" is the role of the target as the request read it, "seen" the
\* workspace memberships it is going to delete, "held" the rows it has locked.
Request ==
  [op: {"invite"}, user: Users, role: CustomerRole]
    \cup [op: {"change"}, member: MemberIds, loaded: CustomerRole, role: CustomerRole]
    \cup [op: {"remove"}, member: MemberIds, user: Users, loaded: CustomerRole]
    \cup [op: {"delete"}, member: MemberIds, user: Users, loaded: CustomerRole,
          seen: SUBSET GrantIds, held: SUBSET MemberIds]
    \cup [op: {"add"}, member: MemberIds, workspace: Workspaces, role: WorkspaceRole]
    \cup [op: {"regrant"}, grant: GrantIds, loaded: WorkspaceRole, role: WorkspaceRole]
    \cup [op: {"revoke"}, grant: GrantIds]
    \cup [op: {"archive"}, workspace: Workspaces]
    \cup [op: {"restore"}, workspace: Workspaces, loaded: BOOLEAN]

TypeOK ==
  /\ members \in [MemberIds -> Member \cup {Fresh, Gone}]
  /\ grants \in [GrantIds -> Grant \cup {Fresh, Gone}]
  /\ index \subseteq Users
  /\ archived \subseteq Workspaces
  /\ request \in [Requests -> Request \cup {IdleRequest}]

\* create_customer_with_owner, and create_workspace for each workspace.
Init ==
  /\ \E m \in MemberIds :
       members = [i \in MemberIds |->
                    IF i = m THEN MemberRow(Founder, "customer_owner") ELSE Fresh]
  /\ grants = [g \in GrantIds |-> Fresh]
  /\ index = {Founder}
  /\ archived = {}
  /\ request = [r \in Requests |-> IdleRequest]

-----------------------------------------------------------------------------
(* Authorization.                                                          *)

IsOwner(u) == \E m \in MembershipsOf(u) : members[m].role = "customer_owner"

\* The row of the join of workspace and customer memberships.
RoleRows(u, w) ==
  {g \in GrantIds : /\ LiveGrant(g)
                    /\ grants[g].workspace = w
                    /\ grants[g].member \in MembershipsOf(u)}

\* get_workspace_context, apart from its test of archived_at.
ResolvedRole(u, w) ==
  IF IsOwner(u) THEN "workspace_admin"
  ELSE IF \E g \in RoleRows(u, w) : members[grants[g].member].role # "auditor"
  THEN grants[CHOOSE g \in RoleRows(u, w) : TRUE].role
  ELSE NoRole

\* get_workspace_context of an ordinary request.
get_workspace_context(u, w) == IF w \in archived THEN NoRole ELSE ResolvedRole(u, w)

\* Mutated form: the listing does not skip an auditor's leftover rows.
ListAuditorsToo(u) ==
  LET open == Workspaces \ archived
  IN  IF u \notin index THEN {}
      ELSE IF IsOwner(u) THEN {<<w, "workspace_admin">> : w \in open}
      ELSE {<<grants[g].workspace, grants[g].role>> : g \in
              UNION {RoleRows(u, w) : w \in open}}

\* list_my_workspaces: by way of the index, in the branches of the code.
list_my_workspaces(u) ==
  LET open == Workspaces \ archived
      auditor == \E m \in MembershipsOf(u) : members[m].role = "auditor"
  IN  IF u \notin index \/ auditor THEN {}
      ELSE IF IsOwner(u) THEN {<<w, "workspace_admin">> : w \in open}
      ELSE {<<grants[g].workspace, grants[g].role>> : g \in
              UNION {RoleRows(u, w) : w \in open}}

ManagesCustomer(u) == IsOwner(u)

ManagesWorkspace(u, w) == get_workspace_context(u, w) = "workspace_admin"

-----------------------------------------------------------------------------
(* Requests.                                                               *)

Begin(r, operation) ==
  /\ request[r] = IdleRequest
  /\ request' = [request EXCEPT ![r] = operation]
  /\ UNCHANGED <<members, grants, index, archived>>

EndRequest(r) == request' = [request EXCEPT ![r] = IdleRequest]

\* Any failure rolls the transaction back: a refusal (the last owner, a
\* duplicate row), an UPDATE that meets no row, a deadlock that Postgres
\* breaks, a lost connection.
AbortRequest(r) ==
  /\ request[r] # IdleRequest
  /\ EndRequest(r)
  /\ UNCHANGED <<members, grants, index, archived>>

\* Row locks held by the other requests keep this one waiting.
Unlocked(r, rows) ==
  \A q \in Requests \ {r} : request[q].op = "delete" => request[q].held \cap rows = {}

BeginInvite(r, caller, u, role) ==
  /\ ManagesCustomer(caller)
  /\ Begin(r, [op |-> "invite", user |-> u, role |-> role])

\* Mutated form: an invitation revives the membership of a removed user.
InviteRevived(r) ==
  LET u == request[r].user
  IN  /\ request[r].op = "invite"
      /\ MembershipsOf(u) = {}
      /\ \E m \in MemberIds :
           /\ members[m] \in {Fresh, Gone}
           /\ members' = [members EXCEPT ![m] = MemberRow(u, request[r].role)]
      /\ index' = index \cup {u}
      /\ EndRequest(r)
      /\ UNCHANGED <<grants, archived>>

\* invite_customer_member.
Invite(r) ==
  LET u == request[r].user
  IN  /\ request[r].op = "invite"
      /\ MembershipsOf(u) = {}
      /\ \E m \in MemberIds :
           /\ members[m] = Fresh
           /\ members' = [members EXCEPT ![m] = MemberRow(u, request[r].role)]
      /\ index' = index \cup {u}
      /\ EndRequest(r)
      /\ UNCHANGED <<grants, archived>>

BeginChange(r, caller, m, role) ==
  /\ ManagesCustomer(caller)
  /\ Live(m)
  /\ Begin(r, [op |-> "change", member |-> m, loaded |-> members[m].role, role |-> role])

\* _count_customer_owners: all owner rows are locked, and more than one remains.
AnotherOwner(r) == Unlocked(r, Owners) /\ Cardinality(Owners) > 1

\* change_customer_member_role.  The UPDATE is sent only if the role differs
\* from the loaded one.
ChangeRole(r) ==
  LET m == request[r].member
      role == request[r].role
      loaded == request[r].loaded
  IN  /\ request[r].op = "change"
      /\ loaded = "customer_owner" /\ role # "customer_owner" => AnotherOwner(r)
      /\ \/ /\ role # loaded
            /\ Live(m)
            /\ Unlocked(r, {m})
            /\ members' = [members EXCEPT ![m].role = role]
         \/ /\ role = loaded
            /\ UNCHANGED members
      /\ EndRequest(r)
      /\ UNCHANGED <<grants, index, archived>>

BeginRemove(r, caller, m) ==
  /\ ManagesCustomer(caller)
  /\ Live(m)
  /\ Begin(r, [op |-> "remove", member |-> m, user |-> members[m].user,
               loaded |-> members[m].role])

\* Mutated form: the owners are counted without their rows' locks.
SelectOrphansUnlocked(r) ==
  LET m == request[r].member
  IN  /\ request[r].op = "remove"
      /\ request[r].loaded = "customer_owner" => Cardinality(Owners) > 1
      /\ request' = [request EXCEPT ![r] =
           [op |-> "delete", member |-> m, user |-> request[r].user,
            loaded |-> request[r].loaded, seen |-> GrantsOf(m), held |-> {}]]
      /\ UNCHANGED <<members, grants, index, archived>>

\* remove_customer_member as far as the select of the orphaned rows.  An
\* owner's removal keeps the owner rows locked until it commits.
SelectOrphans(r) ==
  LET m == request[r].member
      owner == request[r].loaded = "customer_owner"
  IN  /\ request[r].op = "remove"
      /\ owner => AnotherOwner(r)
      /\ request' = [request EXCEPT ![r] =
           [op |-> "delete", member |-> m, user |-> request[r].user,
            loaded |-> request[r].loaded, seen |-> GrantsOf(m),
            held |-> IF owner THEN Owners ELSE {}]]
      /\ UNCHANGED <<members, grants, index, archived>>

\* Mutated form: the index row goes without a look at the user's other rows.
RemoveIndexAlways(r) ==
  LET m == request[r].member
      u == request[r].user
  IN  /\ request[r].op = "delete"
      /\ Unlocked(r, {m})
      /\ members' = [members EXCEPT ![m] = Gone]
      /\ grants' = [g \in GrantIds |-> IF g \in request[r].seen THEN Gone ELSE grants[g]]
      /\ index' = index \ {u}
      /\ EndRequest(r)
      /\ UNCHANGED archived

\* The rest of remove_customer_member, under the audit tip's lock.  A DELETE
\* that meets no row is no error.
Remove(r) ==
  LET m == request[r].member
      u == request[r].user
  IN  /\ request[r].op = "delete"
      /\ Unlocked(r, {m})
      /\ members' = [members EXCEPT ![m] = Gone]
      /\ grants' = [g \in GrantIds |-> IF g \in request[r].seen THEN Gone ELSE grants[g]]
      /\ index' = IF MembershipsOf(u) \ {m} = {} THEN index \ {u} ELSE index
      /\ EndRequest(r)
      /\ UNCHANGED archived

BeginAdd(r, caller, m, w, role) ==
  /\ ManagesWorkspace(caller, w)
  /\ Live(m)
  /\ members[m].role # "auditor"
  /\ Begin(r, [op |-> "add", member |-> m, workspace |-> w, role |-> role])

\* add_workspace_member: no foreign key ties the row to the customer
\* membership, only the pair is unique.
AddToWorkspace(r) ==
  LET m == request[r].member
      w == request[r].workspace
  IN  /\ request[r].op = "add"
      /\ \A g \in GrantsOf(m) : grants[g].workspace # w
      /\ \E g \in GrantIds :
           /\ grants[g] = Fresh
           /\ grants' = [grants EXCEPT ![g] = GrantRow(m, w, request[r].role)]
      /\ EndRequest(r)
      /\ UNCHANGED <<members, index, archived>>

BeginRegrant(r, caller, g, role) ==
  /\ LiveGrant(g)
  /\ ManagesWorkspace(caller, grants[g].workspace)
  /\ Begin(r, [op |-> "regrant", grant |-> g, loaded |-> grants[g].role, role |-> role])

\* change_workspace_member_role.
Regrant(r) ==
  LET g == request[r].grant
  IN  /\ request[r].op = "regrant"
      /\ \/ /\ request[r].role # request[r].loaded
            /\ LiveGrant(g)
            /\ grants' = [grants EXCEPT ![g].role = request[r].role]
         \/ /\ request[r].role = request[r].loaded
            /\ UNCHANGED grants
      /\ EndRequest(r)
      /\ UNCHANGED <<members, index, archived>>

BeginRevoke(r, caller, g) ==
  /\ LiveGrant(g)
  /\ ManagesWorkspace(caller, grants[g].workspace)
  /\ Begin(r, [op |-> "revoke", grant |-> g])

\* remove_workspace_member.
Revoke(r) ==
  /\ request[r].op = "revoke"
  /\ grants' = [grants EXCEPT ![request[r].grant] = Gone]
  /\ EndRequest(r)
  /\ UNCHANGED <<members, index, archived>>

BeginArchive(r, caller, w) ==
  /\ ManagesWorkspace(caller, w)
  /\ Begin(r, [op |-> "archive", workspace |-> w])

\* archive_workspace.
Archive(r) ==
  /\ request[r].op = "archive"
  /\ archived' = archived \cup {request[r].workspace}
  /\ EndRequest(r)
  /\ UNCHANGED <<members, grants, index>>

\* The only request that resolves a role in an archived workspace.
BeginRestore(r, caller, w) ==
  /\ ResolvedRole(caller, w) = "workspace_admin"
  /\ Begin(r, [op |-> "restore", workspace |-> w, loaded |-> w \in archived])

\* restore_workspace: the UPDATE is sent only if the workspace was loaded archived.
Restore(r) ==
  /\ request[r].op = "restore"
  /\ archived' = IF request[r].loaded THEN archived \ {request[r].workspace} ELSE archived
  /\ EndRequest(r)
  /\ UNCHANGED <<members, grants, index>>

BeginNext(r) ==
  \E caller \in Users :
    \/ \E u \in Users, role \in AssignableRoles : BeginInvite(r, caller, u, role)
    \/ \E m \in MemberIds, role \in AssignableRoles : BeginChange(r, caller, m, role)
    \/ \E m \in MemberIds : BeginRemove(r, caller, m)
    \/ \E m \in MemberIds, w \in Workspaces, role \in WorkspaceRole :
         BeginAdd(r, caller, m, w, role)
    \/ \E g \in GrantIds, role \in WorkspaceRole : BeginRegrant(r, caller, g, role)
    \/ \E g \in GrantIds : BeginRevoke(r, caller, g)
    \/ \E w \in Workspaces : BeginArchive(r, caller, w) \/ BeginRestore(r, caller, w)

CommitNext(r) ==
  \/ Invite(r)
  \/ ChangeRole(r)
  \/ Remove(r)
  \/ AddToWorkspace(r)
  \/ Regrant(r)
  \/ Revoke(r)
  \/ Archive(r)
  \/ Restore(r)

Next == \E r \in Requests : BeginNext(r) \/ SelectOrphans(r) \/ CommitNext(r) \/ AbortRequest(r)

Spec == Init /\ [][Next]_vars

-----------------------------------------------------------------------------
(* Properties.                                                             *)

\* A user is in the bootstrap index exactly while a membership of theirs
\* exists, whatever removals of an old row race with a new invitation.
IndexMirrorsMemberships == index = {members[m].user : m \in {i \in MemberIds : Live(i)}}

\* A user has one membership, and a member one role in a workspace.
RowsAreUnique ==
  /\ \A m, n \in MemberIds : Live(m) /\ Live(n) /\ members[m].user = members[n].user => m = n
  /\ \A g, h \in GrantIds :
       /\ LiveGrant(g) /\ LiveGrant(h)
       /\ grants[g].member = grants[h].member
       /\ grants[g].workspace = grants[h].workspace
       => g = h

\* What GET /v1/me/workspaces advertises is what an authorized request
\* resolves, although the two read different tables.
ListingMatchesResolution ==
  \A u \in Users :
    list_my_workspaces(u) =
      {<<w, get_workspace_context(u, w)>> :
         w \in {v \in Workspaces : get_workspace_context(u, v) # NoRole}}

\* The owner rows that a removal has locked stay owner rows, and they are
\* more than the one that is removed.
LocksProtectOwners ==
  \A r \in Requests :
    request[r].op = "delete" /\ request[r].loaded = "customer_owner" =>
      request[r].held \subseteq Owners /\ Cardinality(request[r].held) > 1

\* Rows and requests name ids that have been generated, and a removal knows
\* whose row it removes.
References ==
  /\ \A g \in GrantIds : LiveGrant(g) => members[grants[g].member] # Fresh
  /\ \A r \in Requests :
       request[r].op \in {"change", "remove", "delete", "add"} =>
         members[request[r].member] # Fresh
  /\ \A r \in Requests :
       request[r].op \in {"remove", "delete"} /\ Live(request[r].member) =>
         members[request[r].member].user = request[r].user

\* The inductive invariant.
MembershipInvariant ==
  /\ TypeOK
  /\ References
  /\ RowsAreUnique
  /\ IndexMirrorsMemberships
  /\ LocksProtectOwners

\* A user who is invited, and was perhaps a member before, has no right in any
\* workspace until one is given, unless the invitation makes them an owner.
InvitationRestoresNoRight ==
  [][\A u \in index' \ index :
       (\A w \in Workspaces : ResolvedRole(u, w)' = NoRole) \/ IsOwner(u)']_vars

\* The customer is left without an owner only by a request that had loaded
\* the role of its target before the target became an owner: concurrent
\* owners who remove or demote each other never do it.
OwnerIsLostOnlyToAStaleRole ==
  [][Owners # {} /\ Owners' = {} =>
       \E r \in Requests :
         /\ request[r].op \in {"change", "delete"}
         /\ request[r].loaded # "customer_owner"
         /\ request'[r] = IdleRequest]_vars

\* What customer_service.py says of its locks: a customer keeps an owner.
CustomerKeepsAnOwner == Owners # {}
=============================================================================
