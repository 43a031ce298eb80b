-------------------------------- MODULE Access --------------------------------
(***************************************************************************)
(* Who may use a workspace.  The rows tenant_members and workspace_members *)
(* are the source of truth, OpenFGA's tuples are what every request is     *)
(* checked against, and the two are written one after the other: the row   *)
(* in the request's transaction, which the RLS middleware commits when the *)
(* handler is done, the tuple by a call in between.                        *)
(*                                                                         *)
(* One tenant with one workspace.  A request runs the handler it was made  *)
(* for statement by statement under READ COMMITTED; an uncommitted insert, *)
(* and the rows a SELECT ... FOR UPDATE has locked, are known by the step  *)
(* its request is at.                                                      *)
(***************************************************************************)
EXTENDS Naturals, FiniteSets

CONSTANTS
  Users,
  Requests,       \* bound: requests under way at once
  MaxLateFaults   \* bound: requests that fail after their call to OpenFGA took effect

ASSUME UsersAssumption == IsFiniteSet(Users) /\ "none" \notin Users
ASSUME FaultAssumption == MaxLateFaults \in Nat

VARIABLES
  tenantRole,     \* committed tenant_members rows
  workspace,      \* committed workspaces row: "absent", "live", "gone"
  workspaceRole,  \* committed workspace_members rows
  tuples,         \* OpenFGA
  req,            \* the requests under way
  faults

rowVars == <<tenantRole, workspace, workspaceRole>>
vars    == <<rowVars, tuples, req, faults>>

Roles      == {"owner", "admin", "member"}
Managing   == {"owner", "admin"}
RoleTuples == Users \X Roles \X {"tenant", "workspace"}
Link       == <<"tenant", "tenant", "workspace">>
Tuples     == RoleTuples \cup {Link}

\* Steps whose request has an uncommitted workspace_members row, holds the row
\* locks of the workspace's members, or has already changed OpenFGA.
Inserted == {"inserted", "granted"}
Creating == {"created", "createGranted"}
Locking  == {"locked", "revoked"}
Late     == {"granted", "createGranted", "revoked", "cleared", "untied"}
Early    == {"adding", "inserted", "created", "removing", "locked", "deleting", "listed",
             "leaving", "read", "counted"}
Steps    == Early \cup Late \cup {"idle"}

Idle == [step |-> "idle", target |-> "none", role |-> "none", seen |-> {}]

\* Where the request is, the member it is about, the role it names or has read,
\* and the tuples it has listed.
RequestState == [step : Steps, target : Users \cup {"none"}, role : Roles \cup {"none"},
                 seen : SUBSET Tuples]

TypeOK ==
  /\ tenantRole \in [Users -> Roles \cup {"none"}]
  /\ workspace \in {"absent", "live", "gone"}
  /\ workspaceRole \in [Users -> Roles \cup {"none"}]
  /\ tuples \subseteq Tuples
  /\ req \in [Requests -> RequestState]
  /\ faults \in 0..MaxLateFaults

Owners        == {u \in Users : tenantRole[u] = "owner"}
Managers      == {u \in Users : workspaceRole[u] \in Managing}
RolesOf(u, o) == {r \in Roles : <<u, r, o>> \in tuples}

\* The structural tuples of the committed rows.
Expected ==
  {t \in RoleTuples : \/ t[3] = "tenant" /\ tenantRole[t[1]] = t[2]
                      \/ t[3] = "workspace" /\ workspaceRole[t[1]] = t[2]}
  \cup {t \in {Link} : workspace = "live"}

\* Rows and tuples of any past that agree: the seed and the backfill make them so.
Init ==
  /\ tenantRole \in [Users -> Roles \cup {"none"}]
  /\ workspace \in {"absent", "live"}
  /\ workspaceRole \in [Users -> Roles \cup {"none"}]
  /\ Owners # {}
  /\ IF workspace = "live" THEN Managers # {} ELSE \A u \in Users : workspaceRole[u] = "none"
  /\ tuples = Expected
  /\ req = [r \in Requests |-> Idle]
  /\ faults = 0

-------------------------------------------------------------------------------
(* The relations of the authorization model, and the checks of a request.      *)

TenantMember(u) == RolesOf(u, "tenant") # {}
TenantOwner(u)  == "owner" \in RolesOf(u, "tenant")
Manager(u)      == \/ RolesOf(u, "workspace") \cap Managing # {}
                   \/ Link \in tuples /\ TenantOwner(u)

RequireManager(c) == TenantMember(c) /\ workspace = "live" /\ Manager(c)

\* The roles a request may name: others are refused before anything is read.
RequestedRoles == Roles

At(r, s)            == req[r].step = s
Others(r)           == Requests \ {r}
Begin(r, s, u, role) ==
  /\ At(r, "idle")
  /\ req' = [req EXCEPT ![r] = [step |-> s, target |-> u, role |-> role, seen |-> {}]]
Go(r, s)            == req' = [req EXCEPT ![r].step = s]
End(r)              == req' = [req EXCEPT ![r] = Idle]

\* The request fails and its transaction with it: it is refused, a statement or
\* the COMMIT fails, OpenFGA is unavailable, the client hangs up, the process dies.
Abort(r) ==
  /\ req[r].step \in Early
  /\ End(r)
  /\ UNCHANGED <<rowVars, tuples>>

\* After its call to OpenFGA that leaves the two stores apart, as does a call that
\* timed out and took effect all the same.
AbortLate(r) ==
  /\ req[r].step \in Late
  /\ faults < MaxLateFaults
  /\ faults' = faults + 1
  /\ End(r)
  /\ UNCHANGED <<rowVars, tuples>>

-------------------------------------------------------------------------------
(* POST .../workspaces *)

CreateBegin(r, c) ==
  /\ TenantMember(c) /\ workspace = "absent"
  /\ \A o \in Others(r) : req[o].step \notin Creating
  /\ Begin(r, "created", c, "owner")
  /\ UNCHANGED <<rowVars, tuples>>

CreateGrant(r) ==
  /\ At(r, "created")
  /\ tuples' = tuples \cup {Link, <<req[r].target, "owner", "workspace">>}
  /\ Go(r, "createGranted")
  /\ UNCHANGED rowVars

\* The compensation deletes both rows (cascade) before the middleware commits.
CreateGrantFails(r) ==
  /\ At(r, "created")
  /\ End(r)
  /\ UNCHANGED <<rowVars, tuples>>

CreateCommit(r) ==
  /\ At(r, "createGranted")
  /\ workspace' = "live"
  /\ workspaceRole' = [workspaceRole EXCEPT ![req[r].target] = "owner"]
  /\ End(r)
  /\ UNCHANGED <<tenantRole, tuples>>

-------------------------------------------------------------------------------
(* POST .../workspaces/{wid}/members *)

AddBegin(r, c, u, role) ==
  /\ RequireManager(c)
  /\ tenantRole[u] # "none"
  /\ Begin(r, "adding", u, role)
  /\ UNCHANGED <<rowVars, tuples>>

\* An insert waits for an uncommitted one of the same key, and fails on a
\* committed row or without the workspace.
AddInsert(r) ==
  /\ At(r, "adding")
  /\ \A o \in Others(r) : ~(req[o].step \in Inserted /\ req[o].target = req[r].target)
  /\ workspace = "live" /\ workspaceRole[req[r].target] = "none"
  /\ Go(r, "inserted")
  /\ UNCHANGED <<rowVars, tuples>>

AddGrant(r) ==
  /\ At(r, "inserted")
  /\ tuples' = tuples \cup {<<req[r].target, req[r].role, "workspace">>}
  /\ Go(r, "granted")
  /\ UNCHANGED rowVars

AddGrantFailsKeepingRow(r) ==
  /\ At(r, "inserted")
  /\ workspaceRole' = [workspaceRole EXCEPT ![req[r].target] = req[r].role]
  /\ End(r)
  /\ UNCHANGED <<tenantRole, workspace, tuples>>

\* The middleware commits whatever the handler answered: the insert is undone by
\* the handler's own DELETE.
AddGrantFails(r) ==
  /\ At(r, "inserted")
  /\ End(r)
  /\ UNCHANGED <<rowVars, tuples>>

AddCommit(r) ==
  /\ At(r, "granted")
  /\ workspaceRole' = [workspaceRole EXCEPT ![req[r].target] = req[r].role]
  /\ End(r)
  /\ UNCHANGED <<tenantRole, workspace, tuples>>

-------------------------------------------------------------------------------
(* DELETE .../workspaces/{wid}/members/{user_id} *)

RemoveBegin(r, c, u) ==
  /\ RequireManager(c)
  /\ Begin(r, "removing", u, "none")
  /\ UNCHANGED <<rowVars, tuples>>

RemoveLockUnlocked(r) ==
  LET u == req[r].target IN
  /\ At(r, "removing")
  /\ workspaceRole[u] # "none"
  /\ workspaceRole[u] \in Managing => Cardinality(Managers) > 1
  /\ req' = [req EXCEPT ![r].step = "locked", ![r].role = workspaceRole[u]]
  /\ UNCHANGED <<rowVars, tuples>>

\* SELECT ... FOR UPDATE of all members, then the count.
RemoveLock(r) ==
  LET u == req[r].target IN
  /\ At(r, "removing")
  /\ \A o \in Others(r) : req[o].step \notin Locking
  /\ workspaceRole[u] # "none"
  /\ workspaceRole[u] \in Managing => Cardinality(Managers) > 1
  /\ req' = [req EXCEPT ![r].step = "locked", ![r].role = workspaceRole[u]]
  /\ UNCHANGED <<rowVars, tuples>>

RemoveRevoke(r) ==
  /\ At(r, "locked")
  /\ tuples' = tuples \ {<<req[r].target, req[r].role, "workspace">>}
  /\ Go(r, "revoked")
  /\ UNCHANGED rowVars

RemoveCommit(r) ==
  /\ At(r, "revoked")
  /\ workspaceRole' = [workspaceRole EXCEPT ![req[r].target] = "none"]
  /\ End(r)
  /\ UNCHANGED <<tenantRole, workspace, tuples>>

-------------------------------------------------------------------------------
(* DELETE .../workspaces/{wid} *)

DeleteBegin(r, c) ==
  /\ RequireManager(c)
  /\ Begin(r, "deleting", "none", "none")
  /\ UNCHANGED <<rowVars, tuples>>

DeleteRead(r) ==
  /\ At(r, "deleting")
  /\ req' = [req EXCEPT ![r].step = "listed", ![r].seen = {t \in tuples : t[3] = "workspace"}]
  /\ UNCHANGED <<rowVars, tuples>>

DeleteRevoke(r) ==
  /\ At(r, "listed")
  /\ tuples' = tuples \ req[r].seen
  /\ req' = [req EXCEPT ![r].step = "cleared", ![r].seen = {}]
  /\ UNCHANGED rowVars

\* The DELETE and its cascade wait for inserts (their foreign key shares the
\* workspaces row) and for locked members.
DeleteCommit(r) ==
  /\ At(r, "cleared")
  /\ \A o \in Others(r) : req[o].step \notin Inserted \cup Locking
  /\ workspace' = "gone"
  /\ workspaceRole' = [u \in Users |-> "none"]
  /\ End(r)
  /\ UNCHANGED <<tenantRole, tuples>>

-------------------------------------------------------------------------------
(* DELETE .../members/{user_id} *)

LeaveBegin(r, c, u) ==
  /\ TenantMember(c) /\ TenantOwner(c)
  /\ Begin(r, "leaving", u, "none")
  /\ UNCHANGED <<rowVars, tuples>>

LeaveRead(r) ==
  /\ At(r, "leaving")
  /\ tenantRole[req[r].target] # "none"
  /\ req' = [req EXCEPT ![r].step = "read", ![r].role = tenantRole[req[r].target]]
  /\ UNCHANGED <<rowVars, tuples>>

LeaveCount(r) ==
  /\ At(r, "read")
  /\ req[r].role = "owner" => Cardinality(Owners) > 1
  /\ Go(r, "counted")
  /\ UNCHANGED <<rowVars, tuples>>

LeaveRevoke(r) ==
  /\ At(r, "counted")
  /\ tuples' = tuples \ ({req[r].target} \X Roles \X {"tenant"})
  /\ Go(r, "untied")
  /\ UNCHANGED rowVars

LeaveCommit(r) ==
  /\ At(r, "untied")
  /\ tenantRole' = [tenantRole EXCEPT ![req[r].target] = "none"]
  /\ End(r)
  /\ UNCHANGED <<workspace, workspaceRole, tuples>>

-------------------------------------------------------------------------------
CreateWorkspace(r) ==
  \/ \E c \in Users : CreateBegin(r, c)
  \/ CreateGrant(r) \/ CreateGrantFails(r) \/ CreateCommit(r)

AddMember(r) ==
  \/ \E c, u \in Users, role \in RequestedRoles : AddBegin(r, c, u, role)
  \/ AddInsert(r) \/ AddGrant(r) \/ AddGrantFails(r) \/ AddCommit(r)

RemoveMember(r) ==
  \/ \E c, u \in Users : RemoveBegin(r, c, u)
  \/ RemoveLock(r) \/ RemoveRevoke(r) \/ RemoveCommit(r)

DeleteWorkspace(r) ==
  \/ \E c \in Users : DeleteBegin(r, c)
  \/ DeleteRead(r) \/ DeleteRevoke(r) \/ DeleteCommit(r)

RemoveTenantMember(r) ==
  \/ \E c, u \in Users : LeaveBegin(r, c, u)
  \/ LeaveRead(r) \/ LeaveCount(r) \/ LeaveRevoke(r) \/ LeaveCommit(r)

Request(r) ==
  \/ CreateWorkspace(r) \/ AddMember(r) \/ RemoveMember(r)
  \/ DeleteWorkspace(r) \/ RemoveTenantMember(r) \/ Abort(r)

Next == \E r \in Requests : (Request(r) /\ UNCHANGED faults) \/ AbortLate(r)

Spec == Init /\ [][Next]_vars

-------------------------------------------------------------------------------
\* A workspace keeps an owner or an admin whatever requests remove at the same
\* time and wherever they fail: the count is taken under the row locks
\* (remove_member of ws_members.rs).
LastManagerKept == workspace = "live" => Managers # {}

\* The rows one of the requests under way may still change.
Touched(u, s) == \E r \in Requests : req[r].target = u /\ req[r].step \in s
Clearing      == \E r \in Requests : At(r, "cleared")

\* As long as no request failed after its tuple call, a user whom no request is just
\* adding or removing holds in OpenFGA the role of the row and no other, however
\* requests overlapped, were refused and retried: the tuple is written and removed
\* under the lock of its row, and a failed write takes the row back.
RowsAndTuplesAgree ==
  faults = 0 => \A u \in Users :
    /\ ~Touched(u, {"untied"}) => RolesOf(u, "tenant") = {tenantRole[u]} \ {"none"}
    /\ (workspace = "live" /\ ~Clearing /\ ~Touched(u, {"granted", "revoked"}))
         => RolesOf(u, "workspace") = {workspaceRole[u]} \ {"none"}

\* Then at no moment, not even between a tuple's removal and its row's, is a live
\* workspace that is not being deleted without a user OpenFGA lets manage it.
AlwaysManageable ==
  faults = 0 /\ workspace = "live" /\ ~Clearing =>
    \E u \in Users : RolesOf(u, "workspace") \cap Managing # {}

\* Not true of the code, which answers "refusing to remove the tenant's last `owner`"
\* (tenant_members.rs:228-257): two owners may remove one another at the same time.
LastOwnerKept == Owners # {}

===============================================================================
