------------------------------ MODULE AccessProofs ------------------------------
(***************************************************************************)
(* Proofs about Access, for any finite set of users and any requests.      *)
(***************************************************************************)
EXTENDS Access, FiniteSetTheorems, TLAPS

-------------------------------------------------------------------------------
(* Types.  A request past its first step is about a user, and one that adds    *)
(* names a role: else its tuple would not be one.                              *)

Targeted == Steps \ {"idle", "deleting", "listed", "cleared"}
Adding   == {"adding", "inserted", "granted"}

Fit(q) ==
  /\ q \in RequestState
  /\ q.step \in Targeted => q.target \in Users
  /\ q.step \in Adding => q.role \in Roles
  /\ \A t \in q.seen : t[3] = "workspace"

RowsTyped ==
  /\ tenantRole \in [Users -> Roles \cup {"none"}]
  /\ workspace \in {"absent", "live", "gone"}
  /\ workspaceRole \in [Users -> Roles \cup {"none"}]
  /\ faults \in 0..MaxLateFaults

ReqTyped == req \in [Requests -> RequestState] /\ \A r \in Requests : Fit(req[r])

TypeInv == RowsTyped /\ tuples \subseteq Tuples /\ ReqTyped

\* A step replaces the state of one request and leaves the others'.
LEMMA UpdateFacts ==
  ASSUME NEW r \in Requests, NEW q, ReqTyped, req' = [req EXCEPT ![r] = q]
  PROVE  req'[r] = q /\ \A o \in Others(r) : req'[o] = req[o]
  BY DEF ReqTyped, Others

\* A fit state keeps the table of requests typed.
LEMMA UpdateTyped ==
  ASSUME NEW r \in Requests, NEW q, Fit(q), ReqTyped, req' = [req EXCEPT ![r] = q]
  PROVE  ReqTyped'
  BY DEF ReqTyped, Fit

\* Go changes the step and nothing else.
LEMMA GoFacts ==
  ASSUME NEW r \in Requests, NEW s \in Steps, ReqTyped, Go(r, s)
  PROVE  /\ req' = [req EXCEPT ![r] = [req[r] EXCEPT !.step = s]]
         /\ req'[r].step = s /\ req'[r].target = req[r].target
         /\ req'[r].role = req[r].role /\ req'[r].seen = req[r].seen
         /\ req'[r] \in RequestState
         /\ \A o \in Others(r) : req'[o] = req[o]
<1>1. req[r] \in RequestState
  BY DEF ReqTyped
<1>2. req' = [req EXCEPT ![r] = [req[r] EXCEPT !.step = s]]
  BY DEF Go
<1>3. req'[r] = [req[r] EXCEPT !.step = s] /\ \A o \in Others(r) : req'[o] = req[o]
  BY <1>2 DEF ReqTyped, Others
<1>. QED
  BY <1>1, <1>2, <1>3 DEF RequestState

\* Go keeps the types if the target and the role fit the next step.
LEMMA GoTyped ==
  ASSUME NEW r \in Requests, NEW s \in Steps, ReqTyped, Go(r, s),
         s \in Targeted => req[r].target \in Users, s \in Adding => req[r].role \in Roles
  PROVE  ReqTyped'
<1>1. Fit([req[r] EXCEPT !.step = s])
  BY DEF Fit, ReqTyped, RequestState
<1>. QED
  BY <1>1, GoFacts, UpdateTyped

\* Begin starts an idle request.
LEMMA BeginFacts ==
  ASSUME NEW r \in Requests, NEW s \in Steps, NEW u \in Users \cup {"none"},
         NEW role \in Roles \cup {"none"}, ReqTyped, Begin(r, s, u, role)
  PROVE  /\ req[r].step = "idle"
         /\ req' = [req EXCEPT ![r] = [step |-> s, target |-> u, role |-> role, seen |-> {}]]
         /\ req'[r].step = s /\ req'[r].target = u /\ req'[r].role = role
         /\ \A o \in Others(r) : req'[o] = req[o]
  BY DEF ReqTyped, Begin, Others, At

\* A request that begins is typed if its target and role fit its first step.
LEMMA BeginTyped ==
  ASSUME NEW r \in Requests, NEW s \in Steps, NEW u \in Users \cup {"none"},
         NEW role \in Roles \cup {"none"}, ReqTyped, Begin(r, s, u, role),
         s \in Targeted => u \in Users, s \in Adding => role \in Roles
  PROVE  ReqTyped'
<1>1. Fit([step |-> s, target |-> u, role |-> role, seen |-> {}])
  BY DEF Fit, RequestState
<1>. QED
  BY <1>1, BeginFacts, UpdateTyped

\* An ended request is idle.
LEMMA EndFacts ==
  ASSUME NEW r \in Requests, ReqTyped, End(r)
  PROVE  /\ ReqTyped'
         /\ req'[r].step = "idle"
         /\ \A o \in Others(r) : req'[o] = req[o]
<1>1. Fit(Idle)
  BY DEF Fit, Idle, RequestState, Steps, Targeted, Adding
<1>2. req' = [req EXCEPT ![r] = Idle]
  BY DEF End
<1>3. ReqTyped'
  BY <1>1, <1>2, UpdateTyped
<1>4. req'[r] = Idle /\ \A o \in Others(r) : req'[o] = req[o]
  BY <1>2, UpdateFacts
<1>. QED
  BY <1>3, <1>4 DEF Idle

\* Any initial rows and their tuples are typed.
LEMMA TypeInit == Init => TypeInv
<1>. SUFFICES ASSUME Init PROVE TypeInv
  OBVIOUS
<1>1. Expected \subseteq Tuples
  BY DEF Expected, Tuples
<1>2. Fit(Idle)
  BY DEF Fit, Idle, RequestState, Steps, Targeted, Adding
<1>3. ReqTyped
  BY <1>2 DEF Init, ReqTyped, Fit
<1>. QED
  BY <1>1, <1>3, FaultAssumption DEF Init, TypeInv, RowsTyped

\* Every step keeps the types: a tuple is written for a user and a role.
LEMMA TypeStep == TypeInv /\ [Next]_vars => TypeInv'
<1>. SUFFICES ASSUME RowsTyped, tuples \subseteq Tuples, ReqTyped, [Next]_vars PROVE TypeInv'
  BY DEF TypeInv
<1>. USE DEF TypeInv, rowVars
<1>1. ASSUME NEW r \in Requests, NEW c \in Users, CreateBegin(r, c), faults' = faults PROVE TypeInv'
  <2>1. ReqTyped'
    BY <1>1, BeginTyped DEF CreateBegin, Steps, Early, Targeted, Adding, Roles
  <2>. QED
    BY <1>1, <2>1 DEF CreateBegin, RowsTyped
<1>2. ASSUME NEW r \in Requests, CreateGrant(r), faults' = faults PROVE TypeInv'
  <2>1. Fit(req[r])
    BY DEF ReqTyped
  <2>2. tuples' \subseteq Tuples
    BY <1>2, <2>1
    DEF CreateGrant, Fit, At, Tuples, RoleTuples, Roles, Targeted, Adding, Steps, Early, Late
  <2>3. ReqTyped'
    BY <1>2, <2>1, GoTyped DEF CreateGrant, Fit, At, Steps, Early, Late, Targeted, Adding
  <2>. QED
    BY <1>2, <2>2, <2>3 DEF CreateGrant, RowsTyped
<1>3. ASSUME NEW r \in Requests, CreateGrantFails(r), faults' = faults PROVE TypeInv'
  BY <1>3, EndFacts DEF CreateGrantFails, RowsTyped
<1>4. ASSUME NEW r \in Requests, CreateCommit(r), faults' = faults PROVE TypeInv'
  <2>1. Fit(req[r])
    BY DEF ReqTyped
  <2>2. RowsTyped'
    BY <1>4, <2>1 DEF CreateCommit, RowsTyped, At, Fit, RequestState, Roles, Adding
  <2>3. ReqTyped'
    BY <1>4, EndFacts DEF CreateCommit
  <2>. QED
    BY <1>4, <2>2, <2>3 DEF CreateCommit
<1>5. ASSUME NEW r \in Requests, NEW c \in Users, NEW u \in Users, NEW role \in Roles,
            AddBegin(r, c, u, role), faults' = faults
     PROVE TypeInv'
  <2>1. ReqTyped'
    BY <1>5, BeginTyped DEF AddBegin, Steps, Early, Targeted, Adding, Roles
  <2>. QED
    BY <1>5, <2>1 DEF AddBegin, RowsTyped
<1>6. ASSUME NEW r \in Requests, AddInsert(r), faults' = faults PROVE TypeInv'
  <2>1. Fit(req[r])
    BY DEF ReqTyped
  <2>2. ReqTyped'
    BY <1>6, <2>1, GoTyped DEF AddInsert, Fit, At, Steps, Early, Late, Targeted, Adding
  <2>. QED
    BY <1>6, <2>2 DEF AddInsert, RowsTyped
<1>7. ASSUME NEW r \in Requests, AddGrant(r), faults' = faults PROVE TypeInv'
  <2>1. Fit(req[r])
    BY DEF ReqTyped
  <2>2. tuples' \subseteq Tuples
    BY <1>7, <2>1
    DEF AddGrant, Fit, At, Tuples, RoleTuples, Roles, Targeted, Adding, Steps, Early, Late
  <2>3. ReqTyped'
    BY <1>7, <2>1, GoTyped DEF AddGrant, Fit, At, Steps, Early, Late, Targeted, Adding
  <2>. QED
    BY <1>7, <2>2, <2>3 DEF AddGrant, RowsTyped
<1>8. ASSUME NEW r \in Requests, AddGrantFails(r), faults' = faults PROVE TypeInv'
  BY <1>8, EndFacts DEF AddGrantFails, RowsTyped
<1>9. ASSUME NEW r \in Requests, AddCommit(r), faults' = faults PROVE TypeInv'
  <2>1. Fit(req[r])
    BY DEF ReqTyped
  <2>2. RowsTyped'
    BY <1>9, <2>1 DEF AddCommit, RowsTyped, At, Fit, RequestState, Roles, Adding
  <2>3. ReqTyped'
    BY <1>9, EndFacts DEF AddCommit
  <2>. QED
    BY <1>9, <2>2, <2>3 DEF AddCommit
<1>10. ASSUME NEW r \in Requests, NEW c \in Users, NEW u \in Users, RemoveBegin(r, c, u), faults' = faults
     PROVE TypeInv'
  <2>1. ReqTyped'
    BY <1>10, BeginTyped DEF RemoveBegin, Steps, Early, Targeted, Adding, Roles
  <2>. QED
    BY <1>10, <2>1 DEF RemoveBegin, RowsTyped
<1>11. ASSUME NEW r \in Requests, RemoveLock(r), faults' = faults PROVE TypeInv'
  <2>. DEFINE q == [req[r] EXCEPT !.step = "locked", !.role = workspaceRole[req[r].target]]
  <2>1. Fit(req[r])
    BY DEF ReqTyped
  <2>2. Fit(q)
    BY <1>11, <2>1
    DEF RemoveLock, Fit, At, RequestState, Steps, Early, Late, Targeted, Adding, RowsTyped
  <2>3. req' = [req EXCEPT ![r] = q]
    BY <1>11 DEF RemoveLock
  <2>4. ReqTyped'
    BY <2>2, <2>3, UpdateTyped
  <2>. QED
    BY <1>11, <2>4 DEF RemoveLock, RowsTyped
<1>12. ASSUME NEW r \in Requests, RemoveRevoke(r), faults' = faults PROVE TypeInv'
  <2>1. Fit(req[r])
    BY DEF ReqTyped
  <2>2. tuples' \subseteq Tuples
    BY <1>12, <2>1
    DEF RemoveRevoke, Fit, At, Tuples, RoleTuples, Roles, Targeted, Adding, Steps, Early, Late
  <2>3. ReqTyped'
    BY <1>12, <2>1, GoTyped DEF RemoveRevoke, Fit, At, Steps, Early, Late, Targeted, Adding
  <2>. QED
    BY <1>12, <2>2, <2>3 DEF RemoveRevoke, RowsTyped
<1>13. ASSUME NEW r \in Requests, RemoveCommit(r), faults' = faults PROVE TypeInv'
  <2>1. Fit(req[r])
    BY DEF ReqTyped
  <2>2. RowsTyped'
    BY <1>13, <2>1 DEF RemoveCommit, RowsTyped, At, Fit, RequestState, Roles, Adding
  <2>3. ReqTyped'
    BY <1>13, EndFacts DEF RemoveCommit
  <2>. QED
    BY <1>13, <2>2, <2>3 DEF RemoveCommit
<1>14. ASSUME NEW r \in Requests, NEW c \in Users, DeleteBegin(r, c), faults' = faults
     PROVE TypeInv'
  <2>1. ReqTyped'
    BY <1>14, BeginTyped DEF DeleteBegin, Steps, Early, Targeted, Adding, Roles
  <2>. QED
    BY <1>14, <2>1 DEF DeleteBegin, RowsTyped
<1>15. ASSUME NEW r \in Requests, DeleteRead(r), faults' = faults PROVE TypeInv'
  <2>. DEFINE q == [req[r] EXCEPT !.step = "listed", !.seen = {t \in tuples : t[3] = "workspace"}]
  <2>1. Fit(req[r])
    BY DEF ReqTyped
  <2>2. Fit(q)
    BY <1>15, <2>1
    DEF DeleteRead, Fit, At, RequestState, Steps, Early, Late, Targeted, Adding, RowsTyped
  <2>3. req' = [req EXCEPT ![r] = q]
    BY <1>15 DEF DeleteRead
  <2>4. ReqTyped'
    BY <2>2, <2>3, UpdateTyped
  <2>. QED
    BY <1>15, <2>4 DEF DeleteRead, RowsTyped
<1>16. ASSUME NEW r \in Requests, DeleteRevoke(r), faults' = faults PROVE TypeInv'
  <2>. DEFINE q == [req[r] EXCEPT !.step = "cleared", !.seen = {}]
  <2>1. Fit(req[r])
    BY DEF ReqTyped
  <2>2. Fit(q)
    BY <1>16, <2>1
    DEF DeleteRevoke, Fit, At, RequestState, Steps, Early, Late, Targeted, Adding, RowsTyped
  <2>3. req' = [req EXCEPT ![r] = q]
    BY <1>16 DEF DeleteRevoke
  <2>4. ReqTyped'
    BY <2>2, <2>3, UpdateTyped
  <2>. QED
    BY <1>16, <2>4 DEF DeleteRevoke, RowsTyped
<1>17. ASSUME NEW r \in Requests, DeleteCommit(r), faults' = faults PROVE TypeInv'
  <2>1. Fit(req[r])
    BY DEF ReqTyped
  <2>2. RowsTyped'
    BY <1>17, <2>1 DEF DeleteCommit, RowsTyped, At, Fit, RequestState, Roles, Adding
  <2>3. ReqTyped'
    BY <1>17, EndFacts DEF DeleteCommit
  <2>. QED
    BY <1>17, <2>2, <2>3 DEF DeleteCommit
<1>18. ASSUME NEW r \in Requests, NEW c \in Users, NEW u \in Users, LeaveBegin(r, c, u), faults' = faults
     PROVE TypeInv'
  <2>1. ReqTyped'
    BY <1>18, BeginTyped DEF LeaveBegin, Steps, Early, Targeted, Adding, Roles
  <2>. QED
    BY <1>18, <2>1 DEF LeaveBegin, RowsTyped
<1>19. ASSUME NEW r \in Requests, LeaveRead(r), faults' = faults PROVE TypeInv'
  <2>. DEFINE q == [req[r] EXCEPT !.step = "read", !.role = tenantRole[req[r].target]]
  <2>1. Fit(req[r])
    BY DEF ReqTyped
  <2>2. Fit(q)
    BY <1>19, <2>1
    DEF LeaveRead, Fit, At, RequestState, Steps, Early, Late, Targeted, Adding, RowsTyped
  <2>3. req' = [req EXCEPT ![r] = q]
    BY <1>19 DEF LeaveRead
  <2>4. ReqTyped'
    BY <2>2, <2>3, UpdateTyped
  <2>. QED
    BY <1>19, <2>4 DEF LeaveRead, RowsTyped
<1>20. ASSUME NEW r \in Requests, LeaveCount(r), faults' = faults PROVE TypeInv'
  <2>1. Fit(req[r])
    BY DEF ReqTyped
  <2>2. ReqTyped'
    BY <1>20, <2>1, GoTyped DEF LeaveCount, Fit, At, Steps, Early, Late, Targeted, Adding
  <2>. QED
    BY <1>20, <2>2 DEF LeaveCount, RowsTyped
<1>21. ASSUME NEW r \in Requests, LeaveRevoke(r), faults' = faults PROVE TypeInv'
  <2>1. Fit(req[r])
    BY DEF ReqTyped
  <2>2. tuples' \subseteq Tuples
    BY <1>21, <2>1
    DEF LeaveRevoke, Fit, At, Tuples, RoleTuples, Roles, Targeted, Adding, Steps, Early, Late
  <2>3. ReqTyped'
    BY <1>21, <2>1, GoTyped DEF LeaveRevoke, Fit, At, Steps, Early, Late, Targeted, Adding
  <2>. QED
    BY <1>21, <2>2, <2>3 DEF LeaveRevoke, RowsTyped
<1>22. ASSUME NEW r \in Requests, LeaveCommit(r), faults' = faults PROVE TypeInv'
  <2>1. Fit(req[r])
    BY DEF ReqTyped
  <2>2. RowsTyped'
    BY <1>22, <2>1 DEF LeaveCommit, RowsTyped, At, Fit, RequestState, Roles, Adding
  <2>3. ReqTyped'
    BY <1>22, EndFacts DEF LeaveCommit
  <2>. QED
    BY <1>22, <2>2, <2>3 DEF LeaveCommit
<1>23. ASSUME NEW r \in Requests, Abort(r), faults' = faults PROVE TypeInv'
  BY <1>23, EndFacts DEF Abort, RowsTyped
<1>24. ASSUME NEW r \in Requests, AbortLate(r) PROVE TypeInv'
  BY <1>24, EndFacts, FaultAssumption DEF AbortLate, RowsTyped
<1>25. CASE UNCHANGED vars
  BY <1>25 DEF vars, RowsTyped, ReqTyped, Fit
<1>. QED
  BY <1>1, <1>2, <1>3, <1>4, <1>5, <1>6, <1>7, <1>8, <1>9, <1>10, <1>11, <1>12, <1>13, <1>14,
     <1>15, <1>16, <1>17, <1>18, <1>19, <1>20, <1>21, <1>22, <1>23, <1>24, <1>25
  DEF Next, Request, CreateWorkspace, AddMember, RemoveMember, DeleteWorkspace, RemoveTenantMember,
      RequestedRoles

-------------------------------------------------------------------------------
(* What an open transaction knows, wherever requests failed.  Who has inserted *)
(* knows that there is no other row of its target; who has locked the members  *)
(* knows its target's role, and that somebody else is left to manage.  Neither *)
(* can be undone by another request: that needs the same row, or the whole     *)
(* workspace.                                                                  *)

DeleteSteps == {"deleting", "listed", "cleared"}

SomeManager(S) == \E u \in S : workspaceRole[u] \in Managing

RowsFit ==
  /\ workspace # "live" => \A u \in Users : workspaceRole[u] = "none"
  /\ workspace = "live" => SomeManager(Users)

Holds(r) ==
  /\ req[r].step \in Inserted => workspace = "live" /\ workspaceRole[req[r].target] = "none"
  /\ req[r].step \in Locking =>
       /\ workspace = "live"
       /\ req[r].role \in Roles /\ workspaceRole[req[r].target] = req[r].role
       /\ req[r].role \in Managing => SomeManager(Users \ {req[r].target})
  /\ req[r].step \in Creating => workspace = "absent"
  /\ req[r].step \in DeleteSteps => workspace # "absent"

Apart(r, o) ==
  /\ req[r].step \in Inserted /\ req[o].step \in Inserted => req[r].target # req[o].target
  /\ ~(req[r].step \in Locking /\ req[o].step \in Locking)
  /\ ~(req[r].step \in Creating /\ req[o].step \in Creating)

LockInv ==
  /\ RowsFit
  /\ \A r \in Requests : Holds(r)
  /\ \A r \in Requests : \A o \in Others(r) : Apart(r, o)

\* More than one manager: another one besides the target.
LEMMA AnotherManager ==
  ASSUME NEW u \in Users, Cardinality(Managers) > 1
  PROVE  SomeManager(Users \ {u})
<1>1. IsFiniteSet(Managers)
  BY FS_Subset, UsersAssumption DEF Managers
<1>2. Cardinality({}) = 0 /\ Cardinality({u}) = 1
  BY FS_EmptySet, FS_Singleton
<1>3. Managers # {} /\ Managers # {u}
  BY <1>2
<1>. QED
  BY <1>3 DEF SomeManager, Managers

\* A request that gains no lock leaves everything as it was.
LEMMA LockKept ==
  ASSUME LockInv, NEW r \in Requests, UNCHANGED <<workspace, workspaceRole>>,
         \A o \in Others(r) : req'[o] = req[o],
         req'[r].step \in Inserted => req[r].step \in Inserted /\ req'[r].target = req[r].target,
         req'[r].step \in Locking =>
           req[r].step \in Locking /\ req'[r].target = req[r].target /\ req'[r].role = req[r].role,
         req'[r].step \in Creating => req[r].step \in Creating,
         req'[r].step \in DeleteSteps => req[r].step \in DeleteSteps
  PROVE  LockInv'
<1>1. RowsFit'
  BY DEF LockInv, RowsFit, SomeManager
<1>2. \A o \in Others(r) : Holds(o)'
  BY DEF LockInv, Holds, SomeManager, Others
<1>3. Holds(r)'
  BY DEF LockInv, Holds, SomeManager
<1>4. ASSUME NEW a \in Requests, NEW b \in Others(a) PROVE Apart(a, b)'
  <2>1. Apart(a, b)
    BY DEF LockInv
  <2>2. CASE a = r
    BY <2>1, <2>2 DEF Apart, Others
  <2>3. CASE b = r
    BY <2>1, <2>3 DEF Apart, Others
  <2>4. CASE a # r /\ b # r
    BY <2>1, <2>4 DEF Apart, Others
  <2>. QED
    BY <2>2, <2>3, <2>4
<1>. QED
  BY <1>1, <1>2, <1>3, <1>4 DEF LockInv, Others

\* At first nobody holds a lock.
LEMMA LockInit == Init => LockInv
<1>. SUFFICES ASSUME Init PROVE LockInv
  OBVIOUS
<1>1. \A r \in Requests : req[r].step = "idle"
  BY DEF Init, Idle
<1>2. \A r \in Requests : Holds(r) /\ \A o \in Others(r) : Apart(r, o)
  BY <1>1 DEF Holds, Apart, Inserted, Locking, Creating, DeleteSteps, Others
<1>3. RowsFit
  BY DEF Init, RowsFit, SomeManager, Managers
<1>. QED
  BY <1>2, <1>3 DEF LockInv

\* The row of r's target is written, and r is done: what others know is untouched.
LEMMA LockWritten ==
  ASSUME LockInv, NEW r \in Requests, req'[r].step = "idle", \A o \in Others(r) : req'[o] = req[o],
         RowsFit', \A o \in Others(r) : Holds(o)'
  PROVE  LockInv'
<1>1. Holds(r)'
  BY DEF Holds, Inserted, Locking, Creating, DeleteSteps
<1>2. ASSUME NEW a \in Requests, NEW b \in Others(a) PROVE Apart(a, b)'
  <2>1. Apart(a, b)
    BY DEF LockInv
  <2>. QED
    BY <2>1 DEF Apart, Others, Inserted, Locking, Creating
<1>. QED
  BY <1>1, <1>2 DEF LockInv, Others

\* Every step keeps what the lock holders know.
LEMMA LockStep == TypeInv /\ LockInv /\ [Next]_vars => LockInv'
<1>. SUFFICES ASSUME RowsTyped, ReqTyped, LockInv, [Next]_vars PROVE LockInv'
  BY DEF TypeInv
<1>. USE DEF rowVars
<1>1. ASSUME NEW r \in Requests, NEW c \in Users, CreateBegin(r, c) PROVE LockInv'
  <2>1. /\ req'[r].step = "created" /\ \A o \in Others(r) : req'[o] = req[o]
        /\ workspace = "absent" /\ \A o \in Others(r) : req[o].step \notin Creating
        /\ UNCHANGED <<workspace, workspaceRole>>
    BY <1>1, BeginFacts DEF CreateBegin, Steps, Early, Roles
  <2>2. Holds(r)'
    BY <2>1 DEF Holds, Inserted, Locking, Creating, DeleteSteps
  <2>3. \A o \in Others(r) : Holds(o)'
    BY <2>1 DEF LockInv, Holds, SomeManager, Others
  <2>4. ASSUME NEW a \in Requests, NEW b \in Others(a) PROVE Apart(a, b)'
    <3>1. Apart(a, b)
      BY DEF LockInv
    <3>. QED
      BY <2>1, <3>1 DEF Apart, Others, Inserted, Locking, Creating, DeleteSteps
  <2>. QED
    BY <2>1, <2>2, <2>3, <2>4 DEF LockInv, RowsFit, SomeManager, Others
<1>2. ASSUME NEW r \in Requests, CreateGrant(r) PROVE LockInv'
  BY <1>2, GoFacts, LockKept
  DEF CreateGrant, At, Inserted, Locking, Creating, DeleteSteps, Steps, Early, Late
<1>3. ASSUME NEW r \in Requests, CreateGrantFails(r) PROVE LockInv'
  BY <1>3, EndFacts, LockKept DEF CreateGrantFails, Inserted, Locking, Creating, DeleteSteps
<1>4. ASSUME NEW r \in Requests, CreateCommit(r) PROVE LockInv'
  <2>1. /\ req'[r].step = "idle" /\ \A o \in Others(r) : req'[o] = req[o]
        /\ req[r].step = "createGranted" /\ req[r].target \in Users
        /\ workspace' = "live"
        /\ workspaceRole' = [workspaceRole EXCEPT ![req[r].target] = "owner"]
    BY <1>4, EndFacts DEF CreateCommit, At, ReqTyped, Fit, Targeted, Steps, Late
  <2>2. workspace = "absent"
    BY <2>1 DEF LockInv, Holds, Creating
  <2>3. RowsFit'
    BY <2>1 DEF RowsFit, SomeManager, RowsTyped, Managing
  <2>4. \A o \in Others(r) : Holds(o)'
    <3>. TAKE o \in Others(r)
    <3>1. Holds(o) /\ Apart(r, o)
      BY DEF LockInv, Others
    <3>. QED
      BY <2>1, <2>2, <3>1 DEF Holds, Apart, Creating
  <2>. QED
    BY <2>1, <2>3, <2>4, LockWritten
<1>5. ASSUME NEW r \in Requests, NEW c \in Users, NEW u \in Users, NEW role \in Roles, AddBegin(r, c, u, role)
     PROVE LockInv'
  BY <1>5, BeginFacts, LockKept DEF AddBegin, Inserted, Locking, Creating, DeleteSteps, Steps, Early
<1>6. ASSUME NEW r \in Requests, AddInsert(r) PROVE LockInv'
  <2>1. /\ req'[r].step = "inserted" /\ req'[r].target = req[r].target
        /\ \A o \in Others(r) : req'[o] = req[o]
        /\ \A o \in Others(r) : ~(req[o].step \in Inserted /\ req[o].target = req[r].target)
        /\ workspace = "live" /\ workspaceRole[req[r].target] = "none"
        /\ UNCHANGED <<workspace, workspaceRole>>
    BY <1>6, GoFacts DEF AddInsert, Steps, Early
  <2>2. Holds(r)'
    BY <2>1 DEF Holds, Inserted, Locking, Creating, DeleteSteps
  <2>3. \A o \in Others(r) : Holds(o)'
    BY <2>1 DEF LockInv, Holds, SomeManager, Others
  <2>4. ASSUME NEW a \in Requests, NEW b \in Others(a) PROVE Apart(a, b)'
    <3>1. Apart(a, b)
      BY DEF LockInv
    <3>. QED
      BY <2>1, <3>1 DEF Apart, Others, Inserted, Locking, Creating, DeleteSteps
  <2>. QED
    BY <2>1, <2>2, <2>3, <2>4 DEF LockInv, RowsFit, SomeManager, Others
<1>7. ASSUME NEW r \in Requests, AddGrant(r) PROVE LockInv'
  BY <1>7, GoFacts, LockKept
  DEF AddGrant, At, Inserted, Locking, Creating, DeleteSteps, Steps, Early, Late
<1>8. ASSUME NEW r \in Requests, AddGrantFails(r) PROVE LockInv'
  BY <1>8, EndFacts, LockKept DEF AddGrantFails, Inserted, Locking, Creating, DeleteSteps
<1>9. ASSUME NEW r \in Requests, AddCommit(r) PROVE LockInv'
  <2>1. /\ req'[r].step = "idle" /\ \A o \in Others(r) : req'[o] = req[o]
        /\ req[r].step = "granted" /\ req[r].target \in Users /\ req[r].role \in Roles
        /\ workspace' = workspace
        /\ workspaceRole' = [workspaceRole EXCEPT ![req[r].target] = req[r].role]
    BY <1>9, EndFacts DEF AddCommit, At, ReqTyped, Fit, Targeted, Adding, Steps, Late
  <2>2. workspace = "live" /\ workspaceRole[req[r].target] = "none"
    BY <2>1 DEF LockInv, Holds, Inserted
  <2>3. \A u \in Users : workspaceRole[u] \in Managing => workspaceRole'[u] = workspaceRole[u]
    BY <2>1, <2>2 DEF RowsTyped, Managing
  <2>4. RowsFit'
    BY <2>1, <2>2, <2>3 DEF LockInv, RowsFit, SomeManager
  <2>5. \A o \in Others(r) : Holds(o)'
    <3>. TAKE o \in Others(r)
    <3>1. Holds(o) /\ Apart(r, o)
      BY DEF LockInv, Others
    <3>2. req[o].step \in Inserted \cup Locking => req[o].target \in Users
      BY DEF ReqTyped, Fit, Targeted, Inserted, Locking, Others, Steps, Early, Late
    <3>3. req[o].step \in Inserted \cup Locking => req[o].target # req[r].target
      BY <2>1, <2>2, <3>1 DEF Holds, Apart, Inserted, Locking, Roles
    <3>4. req[o].step \in Inserted \cup Locking
            => workspaceRole'[req[o].target] = workspaceRole[req[o].target]
      BY <2>1, <3>2, <3>3 DEF RowsTyped
    <3>. QED
      BY <2>1, <2>3, <3>1, <3>4 DEF Holds, SomeManager
  <2>. QED
    BY <2>1, <2>4, <2>5, LockWritten
<1>10. ASSUME NEW r \in Requests, NEW c \in Users, NEW u \in Users, RemoveBegin(r, c, u)
     PROVE LockInv'
  BY <1>10, BeginFacts, LockKept
  DEF RemoveBegin, Inserted, Locking, Creating, DeleteSteps, Steps, Early
<1>11. ASSUME NEW r \in Requests, RemoveLock(r) PROVE LockInv'
  <2>. DEFINE u == req[r].target
  <2>1. u \in Users
    BY <1>11 DEF RemoveLock, At, ReqTyped, Fit, Targeted, Steps, Early
  <2>. DEFINE q == [req[r] EXCEPT !.step = "locked", !.role = workspaceRole[req[r].target]]
  <2>0. req' = [req EXCEPT ![r] = q]
    BY <1>11 DEF RemoveLock
  <2>2. req'[r] = q /\ \A o \in Others(r) : req'[o] = req[o]
    BY <2>0, UpdateFacts
  <2>3. req[r] \in RequestState
    BY DEF ReqTyped
  <2>4. req'[r].step = "locked" /\ req'[r].target = u /\ req'[r].role = workspaceRole[u]
    BY <2>2, <2>3 DEF RequestState
  <2>5. /\ workspaceRole[u] # "none"
        /\ workspaceRole[u] \in Managing => SomeManager(Users \ {u})
        /\ \A o \in Others(r) : req[o].step \notin Locking
        /\ UNCHANGED <<workspace, workspaceRole>>
    BY <1>11, <2>1, AnotherManager DEF RemoveLock
  <2>6. workspace = "live"
    BY <2>1, <2>5 DEF LockInv, RowsFit
  <2>7. Holds(r)'
    <3>1. SomeManager(Users \ {u})' <=> SomeManager(Users \ {u})
      BY <2>5, <2>4 DEF SomeManager
    <3>2. workspaceRole[u] \in Roles
      BY <2>1, <2>5 DEF RowsTyped
    <3>. QED
      BY <2>4, <2>5, <2>6, <3>2 DEF Holds, Inserted, Locking, Creating, DeleteSteps, SomeManager
  <2>8. \A o \in Others(r) : Holds(o)'
    BY <2>2, <2>5 DEF LockInv, Holds, SomeManager, Others
  <2>9. ASSUME NEW a \in Requests, NEW b \in Others(a) PROVE Apart(a, b)'
    <3>1. Apart(a, b)
      BY DEF LockInv
    <3>. QED
      BY <2>2, <2>4, <2>5, <3>1 DEF Apart, Others, Inserted, Locking, Creating, DeleteSteps
  <2>. QED
    BY <2>5, <2>7, <2>8, <2>9 DEF LockInv, RowsFit, SomeManager, Others
<1>12. ASSUME NEW r \in Requests, RemoveRevoke(r) PROVE LockInv'
  BY <1>12, GoFacts, LockKept
  DEF RemoveRevoke, At, Inserted, Locking, Creating, DeleteSteps, Steps, Early, Late
<1>13. ASSUME NEW r \in Requests, RemoveCommit(r) PROVE LockInv'
  <2>. DEFINE u == req[r].target
  <2>1. /\ req'[r].step = "idle" /\ \A o \in Others(r) : req'[o] = req[o]
        /\ req[r].step = "revoked" /\ u \in Users
        /\ workspace' = workspace
        /\ workspaceRole' = [workspaceRole EXCEPT ![u] = "none"]
    BY <1>13, EndFacts DEF RemoveCommit, At, ReqTyped, Fit, Targeted, Steps, Late
  <2>2. /\ workspace = "live" /\ workspaceRole[u] \in Roles
        /\ workspaceRole[u] \in Managing => SomeManager(Users \ {u})
    BY <2>1 DEF LockInv, Holds, Locking
  <2>3. SomeManager(Users \ {u})
    BY <2>2 DEF LockInv, RowsFit, SomeManager
  <2>4. RowsFit'
    BY <2>1, <2>2, <2>3 DEF RowsFit, SomeManager, RowsTyped
  <2>5. \A o \in Others(r) : Holds(o)'
    <3>. TAKE o \in Others(r)
    <3>1. Holds(o) /\ Apart(r, o)
      BY DEF LockInv, Others
    <3>2. req[o].step \in Inserted => req[o].target \in Users
      BY DEF ReqTyped, Fit, Targeted, Inserted, Others, Steps, Early, Late
    <3>3. req[o].step \notin Locking
      BY <2>1, <3>1 DEF Apart, Locking
    <3>. QED
      BY <2>1, <3>1, <3>2, <3>3 DEF Holds, RowsTyped
  <2>. QED
    BY <2>1, <2>4, <2>5, LockWritten
<1>14. ASSUME NEW r \in Requests, NEW c \in Users, DeleteBegin(r, c) PROVE LockInv'
  <2>1. /\ req'[r].step = "deleting" /\ \A o \in Others(r) : req'[o] = req[o]
        /\ workspace = "live" /\ UNCHANGED <<workspace, workspaceRole>>
    BY <1>14, BeginFacts DEF DeleteBegin, RequireManager, Steps, Early
  <2>2. Holds(r)'
    BY <2>1 DEF Holds, Inserted, Locking, Creating, DeleteSteps
  <2>3. \A o \in Others(r) : Holds(o)'
    BY <2>1 DEF LockInv, Holds, SomeManager, Others
  <2>4. ASSUME NEW a \in Requests, NEW b \in Others(a) PROVE Apart(a, b)'
    <3>1. Apart(a, b)
      BY DEF LockInv
    <3>. QED
      BY <2>1, <3>1 DEF Apart, Others, Inserted, Locking, Creating, DeleteSteps
  <2>. QED
    BY <2>1, <2>2, <2>3, <2>4 DEF LockInv, RowsFit, SomeManager, Others
<1>15. ASSUME NEW r \in Requests, DeleteRead(r) PROVE LockInv'
  <2>. DEFINE q == [req[r] EXCEPT !.step = "listed", !.seen = {t \in tuples : t[3] = "workspace"}]
  <2>0. req' = [req EXCEPT ![r] = q]
    BY <1>15 DEF DeleteRead
  <2>1. req'[r] = q /\ \A o \in Others(r) : req'[o] = req[o]
    BY <2>0, UpdateFacts
  <2>2. req[r] \in RequestState
    BY DEF ReqTyped
  <2>3. req'[r].step = "listed"
    BY <2>1, <2>2 DEF RequestState
  <2>. QED
    BY <1>15, <2>1, <2>3, LockKept DEF DeleteRead, At, Inserted, Locking, Creating, DeleteSteps
<1>16. ASSUME NEW r \in Requests, DeleteRevoke(r) PROVE LockInv'
  <2>. DEFINE q == [req[r] EXCEPT !.step = "cleared", !.seen = {}]
  <2>0. req' = [req EXCEPT ![r] = q]
    BY <1>16 DEF DeleteRevoke
  <2>1. req'[r] = q /\ \A o \in Others(r) : req'[o] = req[o]
    BY <2>0, UpdateFacts
  <2>2. req[r] \in RequestState
    BY DEF ReqTyped
  <2>3. req'[r].step = "cleared"
    BY <2>1, <2>2 DEF RequestState
  <2>. QED
    BY <1>16, <2>1, <2>3, LockKept DEF DeleteRevoke, At, Inserted, Locking, Creating, DeleteSteps
<1>17. ASSUME NEW r \in Requests, DeleteCommit(r) PROVE LockInv'
  <2>1. /\ req'[r].step = "idle" /\ \A o \in Others(r) : req'[o] = req[o]
        /\ req[r].step = "cleared"
        /\ \A o \in Others(r) : req[o].step \notin Inserted \cup Locking
        /\ workspace' = "gone" /\ workspaceRole' = [u \in Users |-> "none"]
    BY <1>17, EndFacts DEF DeleteCommit, At
  <2>2. workspace # "absent"
    BY <2>1 DEF LockInv, Holds, DeleteSteps
  <2>3. \A o \in Others(r) : Holds(o)'
    BY <2>1, <2>2 DEF LockInv, Holds, Others
  <2>. QED
    BY <2>1, <2>3, LockWritten DEF RowsFit
<1>18. ASSUME NEW r \in Requests, NEW c \in Users, NEW u \in Users, LeaveBegin(r, c, u)
     PROVE LockInv'
  BY <1>18, BeginFacts, LockKept
  DEF LeaveBegin, Inserted, Locking, Creating, DeleteSteps, Steps, Early
<1>19. ASSUME NEW r \in Requests, LeaveRead(r) PROVE LockInv'
  <2>. DEFINE q == [req[r] EXCEPT !.step = "read", !.role = tenantRole[req[r].target]]
  <2>0. req' = [req EXCEPT ![r] = q]
    BY <1>19 DEF LeaveRead
  <2>1. req'[r] = q /\ \A o \in Others(r) : req'[o] = req[o]
    BY <2>0, UpdateFacts
  <2>2. req[r] \in RequestState
    BY DEF ReqTyped
  <2>3. req'[r].step = "read"
    BY <2>1, <2>2 DEF RequestState
  <2>. QED
    BY <1>19, <2>1, <2>3, LockKept DEF LeaveRead, At, Inserted, Locking, Creating, DeleteSteps
<1>20. ASSUME NEW r \in Requests, LeaveCount(r) PROVE LockInv'
  BY <1>20, GoFacts, LockKept
  DEF LeaveCount, At, Inserted, Locking, Creating, DeleteSteps, Steps, Early, Late
<1>21. ASSUME NEW r \in Requests, LeaveRevoke(r) PROVE LockInv'
  BY <1>21, GoFacts, LockKept
  DEF LeaveRevoke, At, Inserted, Locking, Creating, DeleteSteps, Steps, Early, Late
<1>22. ASSUME NEW r \in Requests, LeaveCommit(r) PROVE LockInv'
  BY <1>22, EndFacts, LockKept DEF LeaveCommit, Inserted, Locking, Creating, DeleteSteps
<1>23. ASSUME NEW r \in Requests, Abort(r) PROVE LockInv'
  BY <1>23, EndFacts, LockKept DEF Abort, Inserted, Locking, Creating, DeleteSteps
<1>24. ASSUME NEW r \in Requests, AbortLate(r) PROVE LockInv'
  BY <1>24, EndFacts, LockKept DEF AbortLate, Inserted, Locking, Creating, DeleteSteps
<1>25. CASE UNCHANGED vars
  BY <1>25 DEF vars, LockInv, RowsFit, SomeManager, Holds, Apart
<1>. QED
  BY <1>1, <1>2, <1>3, <1>4, <1>5, <1>6, <1>7, <1>8, <1>9, <1>10, <1>11, <1>12, <1>13, <1>14,
     <1>15, <1>16, <1>17, <1>18, <1>19, <1>20, <1>21, <1>22, <1>23, <1>24, <1>25
  DEF Next, Request, CreateWorkspace, AddMember, RemoveMember, DeleteWorkspace, RemoveTenantMember,
      RequestedRoles

-------------------------------------------------------------------------------
(* Rows and tuples, as long as no request failed after its tuple call: every   *)
(* difference between them is that of a request under way.                     *)

Granted(u, role) == \E r \in Requests : At(r, "granted") /\ req[r].target = u /\ req[r].role = role

TenantAgree ==
  \A u \in Users, role \in Roles :
    <<u, role, "tenant">> \in tuples <=> tenantRole[u] = role /\ ~Touched(u, {"untied"})

LiveAgree ==
  workspace = "live" /\ ~Clearing =>
    \A u \in Users, role \in Roles :
      <<u, role, "workspace">> \in tuples <=>
        (workspaceRole[u] = role /\ ~Touched(u, {"revoked"})) \/ Granted(u, role)

AbsentAgree ==
  workspace = "absent" =>
    \A u \in Users, role \in Roles :
      <<u, role, "workspace">> \in tuples <=> role = "owner" /\ Touched(u, {"createGranted"})

Agree    == TenantAgree /\ LiveAgree /\ AbsentAgree
AgreeInv == faults = 0 => Agree

\* Tenant tuples and rows agree as before if neither is touched.
LEMMA TenantKept ==
  ASSUME TenantAgree, NEW r \in Requests, UNCHANGED tenantRole,
         \A o \in Others(r) : req'[o] = req[o],
         req[r].step # "untied", req'[r].step # "untied",
         \A u \in Users, role \in Roles : <<u, role, "tenant">> \in tuples' <=>
           <<u, role, "tenant">> \in tuples
  PROVE  TenantAgree'
<1>1. \A u \in Users : Touched(u, {"untied"})' <=> Touched(u, {"untied"})
  BY DEF Touched, Others
<1>. QED
  BY <1>1 DEF TenantAgree

\* So do those of the workspace if no request enters or leaves a late step.
LEMMA WorkspaceKept ==
  ASSUME LiveAgree, AbsentAgree, NEW r \in Requests, UNCHANGED <<workspace, workspaceRole>>,
         \A o \in Others(r) : req'[o] = req[o],
         req[r].step \notin {"granted", "revoked", "cleared", "createGranted"},
         req'[r].step \notin {"granted", "revoked", "cleared", "createGranted"},
         \A u \in Users, role \in Roles :
           <<u, role, "workspace">> \in tuples' <=> <<u, role, "workspace">> \in tuples
  PROVE  LiveAgree' /\ AbsentAgree'
<1>1. \A u \in Users : /\ Touched(u, {"revoked"})' <=> Touched(u, {"revoked"})
                       /\ Touched(u, {"createGranted"})' <=> Touched(u, {"createGranted"})
  BY DEF Touched, Others
<1>2. \A u \in Users, role \in Roles : Granted(u, role)' <=> Granted(u, role)
  BY DEF Granted, At, Others
<1>3. Clearing' <=> Clearing
  BY DEF Clearing, At, Others
<1>4. LiveAgree'
  BY <1>1, <1>2, <1>3 DEF LiveAgree
<1>5. AbsentAgree'
  BY <1>1 DEF AbsentAgree
<1>. QED
  BY <1>4, <1>5

\* A step that writes neither rows nor tuples keeps them in agreement.
LEMMA AgreeKept ==
  ASSUME Agree, NEW r \in Requests, UNCHANGED <<tenantRole, workspace, workspaceRole, tuples>>,
         \A o \in Others(r) : req'[o] = req[o],
         req[r].step \notin Late, req'[r].step \notin Late
  PROVE  Agree'
<1>1. TenantAgree'
  BY TenantKept DEF Agree, Late
<1>2. LiveAgree' /\ AbsentAgree'
  BY WorkspaceKept DEF Agree, Late
<1>. QED
  BY <1>1, <1>2 DEF Agree

\* Rows and tuples agree at first.
LEMMA AgreeInit == Init => AgreeInv
<1>. SUFFICES ASSUME Init PROVE Agree
  BY DEF AgreeInv
<1>1. \A r \in Requests : req[r].step = "idle"
  BY DEF Init, Idle
<1>2. /\ ~Clearing
      /\ \A u \in Users : \A S \in {{"untied"}, {"revoked"}, {"createGranted"}} : ~Touched(u, S)
      /\ \A u \in Users, role \in Roles : ~Granted(u, role)
  BY <1>1 DEF Clearing, Touched, Granted, At
<1>3. \A u \in Users, role \in Roles :
        /\ <<u, role, "tenant">> \in tuples <=> tenantRole[u] = role
        /\ <<u, role, "workspace">> \in tuples <=> workspaceRole[u] = role
  BY DEF Init, Expected, RoleTuples, Link, Roles
<1>4. workspace = "absent" => \A u \in Users, role \in Roles : workspaceRole[u] # role
  BY DEF Init, Roles
<1>. QED
  BY <1>2, <1>3, <1>4 DEF Agree, TenantAgree, LiveAgree, AbsentAgree

\* Every step keeps them in agreement but for the request that makes it.
LEMMA AgreeStep == TypeInv /\ LockInv /\ AgreeInv /\ [Next]_vars => AgreeInv'
<1>. SUFFICES ASSUME TypeInv, LockInv, AgreeInv, [Next]_vars, faults' = 0 PROVE Agree'
  BY DEF AgreeInv
<1>0. RowsTyped /\ ReqTyped
  BY DEF TypeInv
<1>a. faults = 0 /\ \A r \in Requests : ~AbortLate(r)
  BY <1>0, FaultAssumption DEF Next, AbortLate, vars, RowsTyped
<1>b. Agree
  BY <1>a DEF AgreeInv
<1>. USE <1>0, <1>b DEF rowVars
<1>1. ASSUME NEW r \in Requests, NEW c \in Users, CreateBegin(r, c) PROVE Agree'
  BY <1>1, BeginFacts, AgreeKept DEF CreateBegin, Steps, Early, Late, Roles
<1>2. ASSUME NEW r \in Requests, CreateGrant(r) PROVE Agree'
  <2>. DEFINE u == req[r].target
  <2>1. /\ req[r].step = "created" /\ req'[r].step = "createGranted" /\ req'[r].target = u
        /\ \A o \in Others(r) : req'[o] = req[o]
        /\ tuples' = tuples \cup {Link, <<u, "owner", "workspace">>}
        /\ UNCHANGED <<tenantRole, workspace, workspaceRole>>
    BY <1>2, GoFacts DEF CreateGrant, At, Steps, Late
  <2>2. workspace = "absent"
    BY <2>1 DEF LockInv, Holds, Creating
  <2>3. TenantAgree'
    BY <2>1, TenantKept DEF Agree, Link, Roles
  <2>4. \A v \in Users : Touched(v, {"createGranted"})' <=> Touched(v, {"createGranted"}) \/ v = u
    BY <2>1 DEF Touched, Others
  <2>5. AbsentAgree'
    BY <2>1, <2>2, <2>4 DEF Agree, AbsentAgree, Link, Roles
  <2>. QED
    BY <2>1, <2>2, <2>3, <2>5 DEF Agree, LiveAgree
<1>3. ASSUME NEW r \in Requests, CreateGrantFails(r) PROVE Agree'
  BY <1>3, EndFacts, AgreeKept DEF CreateGrantFails, At, Early, Late
<1>4. ASSUME NEW r \in Requests, CreateCommit(r) PROVE Agree'
  <2>. DEFINE u == req[r].target
  <2>1. /\ req[r].step = "createGranted" /\ req'[r].step = "idle"
        /\ \A o \in Others(r) : req'[o] = req[o]
        /\ workspace' = "live" /\ workspaceRole' = [workspaceRole EXCEPT ![u] = "owner"]
        /\ UNCHANGED <<tenantRole, tuples>>
    BY <1>4, EndFacts DEF CreateCommit, At
  <2>2. u \in Users
    BY <2>1 DEF ReqTyped, Fit, Targeted, Steps, Late
  <2>3. workspace = "absent"
    BY <2>1 DEF LockInv, Holds, Creating
  <2>4. TenantAgree'
    BY <2>1, TenantKept DEF Agree
  <2>5. \A o \in Requests : /\ req[o].step \notin Inserted \cup Locking
                            /\ o # r => req[o].step \notin Creating
    BY <2>1, <2>3 DEF LockInv, Holds, Apart, Others, Creating
  <2>6. \A v \in Users : /\ Touched(v, {"createGranted"}) <=> v = u
                         /\ ~Touched(v, {"revoked"})'
    BY <2>1, <2>5 DEF Touched, Others, Creating, Locking
  <2>7. \A v \in Users, role \in Roles : ~Granted(v, role)'
    BY <2>1, <2>5 DEF Granted, At, Others, Inserted
  <2>8. \A v \in Users, role \in Roles : workspaceRole'[v] = role <=> v = u /\ role = "owner"
    BY <2>1, <2>2, <2>3 DEF LockInv, RowsFit, RowsTyped, Roles
  <2>a. \A v \in Users, role \in Roles : <<v, role, "workspace">> \in tuples <=> v = u /\ role = "owner"
    BY <2>3, <2>6 DEF Agree, AbsentAgree
  <2>9. LiveAgree'
    BY <2>1, <2>6, <2>7, <2>8, <2>a DEF LiveAgree
  <2>. QED
    BY <2>1, <2>4, <2>9 DEF Agree, AbsentAgree
<1>5. ASSUME NEW r \in Requests, NEW c \in Users, NEW u \in Users, NEW role \in Roles, AddBegin(r, c, u, role)
     PROVE Agree'
  BY <1>5, BeginFacts, AgreeKept DEF AddBegin, Steps, Early, Late, Roles
<1>6. ASSUME NEW r \in Requests, AddInsert(r) PROVE Agree'
  BY <1>6, GoFacts, AgreeKept DEF AddInsert, At, Steps, Early, Late
<1>7. ASSUME NEW r \in Requests, AddGrant(r) PROVE Agree'
  <2>. DEFINE u == req[r].target
             p == req[r].role
  <2>1. /\ req[r].step = "inserted" /\ req'[r].step = "granted"
        /\ req'[r].target = u /\ req'[r].role = p
        /\ \A o \in Others(r) : req'[o] = req[o]
        /\ tuples' = tuples \cup {<<u, p, "workspace">>}
        /\ UNCHANGED <<tenantRole, workspace, workspaceRole>>
    BY <1>7, GoFacts DEF AddGrant, At, Steps, Late
  <2>2. workspace = "live"
    BY <2>1 DEF LockInv, Holds, Inserted
  <2>3. TenantAgree'
    BY <2>1, TenantKept DEF Agree
  <2>4. \A v \in Users : Touched(v, {"revoked"})' <=> Touched(v, {"revoked"})
    BY <2>1 DEF Touched, Others
  <2>5. \A v \in Users, role \in Roles : Granted(v, role)' <=>
    Granted(v, role) \/ (v = u /\ role = p)
    BY <2>1 DEF Granted, At, Others
  <2>6. Clearing' <=> Clearing
    BY <2>1 DEF Clearing, At, Others
  <2>7. LiveAgree'
    BY <2>1, <2>4, <2>5, <2>6 DEF Agree, LiveAgree
  <2>. QED
    BY <2>1, <2>2, <2>3, <2>7 DEF Agree, AbsentAgree
<1>8. ASSUME NEW r \in Requests, AddGrantFails(r) PROVE Agree'
  BY <1>8, EndFacts, AgreeKept DEF AddGrantFails, At, Early, Late
<1>9. ASSUME NEW r \in Requests, AddCommit(r) PROVE Agree'
  <2>. DEFINE u == req[r].target
             p == req[r].role
  <2>1. /\ req[r].step = "granted" /\ req'[r].step = "idle"
        /\ \A o \in Others(r) : req'[o] = req[o]
        /\ workspaceRole' = [workspaceRole EXCEPT ![u] = p]
        /\ UNCHANGED <<tenantRole, workspace, tuples>>
    BY <1>9, EndFacts DEF AddCommit, At
  <2>2. u \in Users /\ p \in Roles
    BY <2>1 DEF ReqTyped, Fit, Targeted, Adding, Steps, Late
  <2>3. workspace = "live" /\ workspaceRole[u] = "none"
    BY <2>1 DEF LockInv, Holds, Inserted
  <2>4. TenantAgree'
    BY <2>1, TenantKept DEF Agree
  <2>5. \A o \in Requests : /\ o # r => ~(req[o].step = "granted" /\ req[o].target = u)
                            /\ ~(req[o].step = "revoked" /\ req[o].target = u)
    BY <2>1, <2>3 DEF LockInv, Holds, Apart, Others, Inserted, Locking, Roles
  <2>6. \A v \in Users : Touched(v, {"revoked"})' <=> Touched(v, {"revoked"})
    BY <2>1 DEF Touched, Others
  <2>7. ~Touched(u, {"revoked"}) /\ \A role \in Roles : Granted(u, role) <=> role = p
    BY <2>1, <2>5 DEF Touched, Granted, At
  <2>8. \A v \in Users, role \in Roles : Granted(v, role)' <=> Granted(v, role) /\ v # u
    BY <2>1, <2>5 DEF Granted, At, Others
  <2>9. Clearing' <=> Clearing
    BY <2>1 DEF Clearing, At, Others
  <2>10. \A v \in Users : workspaceRole'[v] = IF v = u THEN p ELSE workspaceRole[v]
    BY <2>1 DEF RowsTyped
  <2>11. LiveAgree'
    <3>. SUFFICES ASSUME NEW v \in Users, NEW role \in Roles, ~Clearing
                  PROVE  <<v, role, "workspace">> \in tuples <=>
                           (workspaceRole'[v] = role /\ ~Touched(v, {"revoked"})') \/ Granted(v, role)'
      BY <2>1, <2>9 DEF LiveAgree
    <3>1. <<v, role, "workspace">> \in tuples <=>
            (workspaceRole[v] = role /\ ~Touched(v, {"revoked"})) \/ Granted(v, role)
      BY <2>3 DEF Agree, LiveAgree
    <3>2. CASE v = u
      BY <2>3, <2>6, <2>7, <2>8, <2>10, <3>1, <3>2 DEF Roles
    <3>3. CASE v # u
      BY <2>6, <2>8, <2>10, <3>1, <3>3
    <3>. QED
      BY <3>2, <3>3
  <2>. QED
    BY <2>1, <2>3, <2>4, <2>11 DEF Agree, AbsentAgree
<1>10. ASSUME NEW r \in Requests, NEW c \in Users, NEW u \in Users, RemoveBegin(r, c, u)
     PROVE Agree'
  BY <1>10, BeginFacts, AgreeKept DEF RemoveBegin, Steps, Early, Late, Roles
<1>11. ASSUME NEW r \in Requests, RemoveLock(r) PROVE Agree'
  <2>. DEFINE q == [req[r] EXCEPT !.step = "locked", !.role = workspaceRole[req[r].target]]
  <2>1. req' = [req EXCEPT ![r] = q]
    BY <1>11 DEF RemoveLock
  <2>2. req'[r] = q /\ \A o \in Others(r) : req'[o] = req[o]
    BY <2>1, UpdateFacts
  <2>3. req[r] \in RequestState
    BY DEF ReqTyped
  <2>4. req'[r].step = "locked"
    BY <2>2, <2>3 DEF RequestState
  <2>. QED
    BY <1>11, <2>2, <2>4, AgreeKept DEF RemoveLock, At, Late
<1>12. ASSUME NEW r \in Requests, RemoveRevoke(r) PROVE Agree'
  <2>. DEFINE u == req[r].target
             p == req[r].role
  <2>1. /\ req[r].step = "locked" /\ req'[r].step = "revoked"
        /\ req'[r].target = u /\ req'[r].role = p
        /\ \A o \in Others(r) : req'[o] = req[o]
        /\ tuples' = tuples \ {<<u, p, "workspace">>}
        /\ UNCHANGED <<tenantRole, workspace, workspaceRole>>
    BY <1>12, GoFacts DEF RemoveRevoke, At, Steps, Late
  <2>2. workspace = "live" /\ workspaceRole[u] = p /\ p \in Roles
    BY <2>1 DEF LockInv, Holds, Locking
  <2>3. TenantAgree'
    BY <2>1, TenantKept DEF Agree
  <2>4. \A v \in Users : Touched(v, {"revoked"})' <=> Touched(v, {"revoked"}) \/ v = u
    BY <2>1 DEF Touched, Others
  <2>5. \A v \in Users, role \in Roles : Granted(v, role)' <=> Granted(v, role)
    BY <2>1 DEF Granted, At, Others
  <2>6. \A role \in Roles : ~Granted(u, role)
    BY <2>2 DEF Granted, At, LockInv, Holds, Inserted, Roles
  <2>7. Clearing' <=> Clearing
    BY <2>1 DEF Clearing, At, Others
  <2>8. LiveAgree'
    BY <2>1, <2>2, <2>4, <2>5, <2>6, <2>7 DEF Agree, LiveAgree
  <2>. QED
    BY <2>1, <2>2, <2>3, <2>8 DEF Agree, AbsentAgree
<1>13. ASSUME NEW r \in Requests, RemoveCommit(r) PROVE Agree'
  <2>. DEFINE u == req[r].target
  <2>1. /\ req[r].step = "revoked" /\ req'[r].step = "idle"
        /\ \A o \in Others(r) : req'[o] = req[o]
        /\ workspaceRole' = [workspaceRole EXCEPT ![u] = "none"]
        /\ UNCHANGED <<tenantRole, workspace, tuples>>
    BY <1>13, EndFacts DEF RemoveCommit, At
  <2>2. u \in Users
    BY <2>1 DEF ReqTyped, Fit, Targeted, Steps, Late
  <2>3. workspace = "live"
    BY <2>1 DEF LockInv, Holds, Locking
  <2>4. TenantAgree'
    BY <2>1, TenantKept DEF Agree
  <2>5. \A o \in Others(r) : req[o].step # "revoked"
    BY <2>1 DEF LockInv, Apart, Locking
  <2>6. \A v \in Users : /\ Touched(v, {"revoked"}) <=> v = u
                         /\ ~Touched(v, {"revoked"})'
    BY <2>1, <2>5 DEF Touched, Others
  <2>7. \A v \in Users, role \in Roles : Granted(v, role)' <=> Granted(v, role)
    BY <2>1 DEF Granted, At, Others
  <2>8. Clearing' <=> Clearing
    BY <2>1 DEF Clearing, At, Others
  <2>9. \A v \in Users : workspaceRole'[v] = IF v = u THEN "none" ELSE workspaceRole[v]
    BY <2>1 DEF RowsTyped
  <2>10. LiveAgree'
    <3>. SUFFICES ASSUME NEW v \in Users, NEW role \in Roles, ~Clearing
                  PROVE  <<v, role, "workspace">> \in tuples <=>
                           (workspaceRole'[v] = role /\ ~Touched(v, {"revoked"})') \/ Granted(v, role)'
      BY <2>1, <2>8 DEF LiveAgree
    <3>1. <<v, role, "workspace">> \in tuples <=>
            (workspaceRole[v] = role /\ ~Touched(v, {"revoked"})) \/ Granted(v, role)
      BY <2>3 DEF Agree, LiveAgree
    <3>2. CASE v = u
      BY <2>6, <2>7, <2>9, <3>1, <3>2 DEF Roles
    <3>3. CASE v # u
      BY <2>6, <2>7, <2>9, <3>1, <3>3
    <3>. QED
      BY <3>2, <3>3
  <2>. QED
    BY <2>1, <2>3, <2>4, <2>10 DEF Agree, AbsentAgree
<1>14. ASSUME NEW r \in Requests, NEW c \in Users, DeleteBegin(r, c) PROVE Agree'
  BY <1>14, BeginFacts, AgreeKept DEF DeleteBegin, Steps, Early, Late, Roles
<1>15. ASSUME NEW r \in Requests, DeleteRead(r) PROVE Agree'
  <2>. DEFINE q == [req[r] EXCEPT !.step = "listed", !.seen = {t \in tuples : t[3] = "workspace"}]
  <2>1. req' = [req EXCEPT ![r] = q]
    BY <1>15 DEF DeleteRead
  <2>2. req'[r] = q /\ \A o \in Others(r) : req'[o] = req[o]
    BY <2>1, UpdateFacts
  <2>3. req[r] \in RequestState
    BY DEF ReqTyped
  <2>4. req'[r].step = "listed"
    BY <2>2, <2>3 DEF RequestState
  <2>. QED
    BY <1>15, <2>2, <2>4, AgreeKept DEF DeleteRead, At, Late
<1>16. ASSUME NEW r \in Requests, DeleteRevoke(r) PROVE Agree'
  <2>. DEFINE q == [req[r] EXCEPT !.step = "cleared", !.seen = {}]
  <2>1. req' = [req EXCEPT ![r] = q]
    BY <1>16 DEF DeleteRevoke
  <2>2. req'[r] = q /\ \A o \in Others(r) : req'[o] = req[o]
    BY <2>1, UpdateFacts
  <2>3. req[r] \in RequestState /\ \A t \in req[r].seen : t[3] = "workspace"
    BY DEF ReqTyped, Fit
  <2>4. req'[r].step = "cleared"
    BY <2>2, <2>3 DEF RequestState
  <2>5. /\ req[r].step = "listed" /\ tuples' = tuples \ req[r].seen
        /\ UNCHANGED <<tenantRole, workspace, workspaceRole>>
    BY <1>16 DEF DeleteRevoke, At
  <2>6. \A u \in Users, role \in Roles : <<u, role, "tenant">> \notin req[r].seen
    BY <2>3
  <2>7. TenantAgree'
    BY <2>2, <2>4, <2>5, <2>6, TenantKept DEF Agree
  <2>8. Clearing'
    BY <2>4 DEF Clearing, At
  <2>9. workspace' # "absent"
    BY <2>5 DEF LockInv, Holds, DeleteSteps
  <2>. QED
    BY <2>7, <2>8, <2>9 DEF Agree, LiveAgree, AbsentAgree
<1>17. ASSUME NEW r \in Requests, DeleteCommit(r) PROVE Agree'
  <2>1. /\ req[r].step = "cleared" /\ req'[r].step = "idle"
        /\ \A o \in Others(r) : req'[o] = req[o]
        /\ workspace' = "gone" /\ UNCHANGED <<tenantRole, tuples>>
    BY <1>17, EndFacts DEF DeleteCommit, At
  <2>2. TenantAgree'
    BY <2>1, TenantKept DEF Agree
  <2>. QED
    BY <2>1, <2>2 DEF Agree, LiveAgree, AbsentAgree
<1>18. ASSUME NEW r \in Requests, NEW c \in Users, NEW u \in Users, LeaveBegin(r, c, u) PROVE Agree'
  BY <1>18, BeginFacts, AgreeKept DEF LeaveBegin, Steps, Early, Late, Roles
<1>19. ASSUME NEW r \in Requests, LeaveRead(r) PROVE Agree'
  <2>. DEFINE q == [req[r] EXCEPT !.step = "read", !.role = tenantRole[req[r].target]]
  <2>1. req' = [req EXCEPT ![r] = q]
    BY <1>19 DEF LeaveRead
  <2>2. req'[r] = q /\ \A o \in Others(r) : req'[o] = req[o]
    BY <2>1, UpdateFacts
  <2>3. req[r] \in RequestState
    BY DEF ReqTyped
  <2>4. req'[r].step = "read"
    BY <2>2, <2>3 DEF RequestState
  <2>. QED
    BY <1>19, <2>2, <2>4, AgreeKept DEF LeaveRead, At, Late
<1>20. ASSUME NEW r \in Requests, LeaveCount(r) PROVE Agree'
  BY <1>20, GoFacts, AgreeKept DEF LeaveCount, At, Steps, Early, Late
<1>21. ASSUME NEW r \in Requests, LeaveRevoke(r) PROVE Agree'
  <2>. DEFINE u == req[r].target
  <2>1. /\ req[r].step = "counted" /\ req'[r].step = "untied" /\ req'[r].target = u
        /\ \A o \in Others(r) : req'[o] = req[o]
        /\ tuples' = tuples \ ({u} \X Roles \X {"tenant"})
        /\ UNCHANGED <<tenantRole, workspace, workspaceRole>>
    BY <1>21, GoFacts DEF LeaveRevoke, At, Steps, Late
  <2>2. LiveAgree' /\ AbsentAgree'
    BY <2>1, WorkspaceKept DEF Agree
  <2>3. \A v \in Users : Touched(v, {"untied"})' <=> Touched(v, {"untied"}) \/ v = u
    BY <2>1 DEF Touched, Others
  <2>4. TenantAgree'
    BY <2>1, <2>3 DEF Agree, TenantAgree
  <2>. QED
    BY <2>2, <2>4 DEF Agree
<1>22. ASSUME NEW r \in Requests, LeaveCommit(r) PROVE Agree'
  <2>. DEFINE u == req[r].target
  <2>1. /\ req[r].step = "untied" /\ req'[r].step = "idle"
        /\ \A o \in Others(r) : req'[o] = req[o]
        /\ tenantRole' = [tenantRole EXCEPT ![u] = "none"]
        /\ UNCHANGED <<workspace, workspaceRole, tuples>>
    BY <1>22, EndFacts DEF LeaveCommit, At
  <2>2. LiveAgree' /\ AbsentAgree'
    BY <2>1, WorkspaceKept DEF Agree
  <2>3. \A v \in Users : v # u => (Touched(v, {"untied"})' <=> Touched(v, {"untied"}))
    BY <2>1 DEF Touched, Others
  <2>4. Touched(u, {"untied"})
    BY <2>1 DEF Touched
  <2>5. \A v \in Users : tenantRole'[v] = IF v = u THEN "none" ELSE tenantRole[v]
    BY <2>1 DEF RowsTyped
  <2>6. TenantAgree'
    <3>. SUFFICES ASSUME NEW v \in Users, NEW role \in Roles
                  PROVE  <<v, role, "tenant">> \in tuples <=>
                           tenantRole'[v] = role /\ ~Touched(v, {"untied"})'
      BY <2>1 DEF TenantAgree
    <3>1. <<v, role, "tenant">> \in tuples <=> tenantRole[v] = role /\ ~Touched(v, {"untied"})
      BY DEF Agree, TenantAgree
    <3>2. CASE v = u
      BY <2>4, <2>5, <3>1, <3>2 DEF Roles
    <3>3. CASE v # u
      BY <2>3, <2>5, <3>1, <3>3
    <3>. QED
      BY <3>2, <3>3
  <2>. QED
    BY <2>2, <2>6 DEF Agree
<1>23. ASSUME NEW r \in Requests, Abort(r) PROVE Agree'
  BY <1>23, EndFacts, AgreeKept DEF Abort, At, Early, Late
<1>24. CASE UNCHANGED vars
  BY <1>24 DEF vars, Agree, TenantAgree, LiveAgree, AbsentAgree, Touched, Granted, Clearing, At
<1>. QED
  BY <1>a, <1>1, <1>2, <1>3, <1>4, <1>5, <1>6, <1>7, <1>8, <1>9, <1>10, <1>11, <1>12, <1>13,
     <1>14, <1>15, <1>16, <1>17, <1>18, <1>19, <1>20, <1>21, <1>22, <1>23, <1>24
  DEF Next, Request, CreateWorkspace, AddMember, RemoveMember, DeleteWorkspace, RemoveTenantMember,
      RequestedRoles

-------------------------------------------------------------------------------
(* Theorems.                                                                   *)

AccessInv == TypeInv /\ LockInv /\ AgreeInv

\* The inductive invariant, for any users, requests and late failures.
THEOREM AccessInvariant == Spec => []AccessInv
<1>1. Init => AccessInv
  BY TypeInit, LockInit, AgreeInit DEF AccessInv
<1>2. AccessInv /\ [Next]_vars => AccessInv'
  BY TypeStep, LockStep, AgreeStep DEF AccessInv
<1>. QED
  BY <1>1, <1>2, PTL DEF Spec

\* Every variable keeps its type, whatever requests overlap or fail.
THEOREM TypeCorrect == Spec => []TypeOK
<1>1. AccessInv => TypeOK
  BY DEF AccessInv, TypeInv, RowsTyped, ReqTyped, TypeOK
<1>. QED
  BY <1>1, AccessInvariant, PTL

\* A live workspace keeps an owner or an admin, also when requests fail anywhere:
\* the locked count of remove_member.
THEOREM ManagerIsKept == Spec => []LastManagerKept
<1>1. AccessInv => LastManagerKept
  BY DEF AccessInv, LockInv, RowsFit, SomeManager, LastManagerKept, Managers
<1>. QED
  BY <1>1, AccessInvariant, PTL

\* Rows and tuples agree for whoever is not just being added or removed, as long as
\* no request failed after its tuple call.
THEOREM RowsAndTuples == Spec => []RowsAndTuplesAgree
<1>1. AccessInv => RowsAndTuplesAgree
  <2>. SUFFICES ASSUME AccessInv, faults = 0, NEW u \in Users
                PROVE  /\ ~Touched(u, {"untied"}) => RolesOf(u, "tenant") = {tenantRole[u]} \ {"none"}
                       /\ (workspace = "live" /\ ~Clearing /\ ~Touched(u, {"granted", "revoked"}))
                            => RolesOf(u, "workspace") = {workspaceRole[u]} \ {"none"}
    BY DEF RowsAndTuplesAgree
  <2>1. Agree /\ RowsTyped
    BY DEF AccessInv, AgreeInv, TypeInv
  <2>2. tenantRole[u] \in Roles \cup {"none"} /\ workspaceRole[u] \in Roles \cup {"none"}
    BY <2>1 DEF RowsTyped
  <2>3. ASSUME ~Touched(u, {"untied"}) PROVE RolesOf(u, "tenant") = {tenantRole[u]} \ {"none"}
    <3>1. \A role \in Roles : <<u, role, "tenant">> \in tuples <=> tenantRole[u] = role
      BY <2>1, <2>3 DEF Agree, TenantAgree
    <3>. QED
      BY <2>2, <3>1 DEF RolesOf, Roles
  <2>4. ASSUME workspace = "live", ~Clearing, ~Touched(u, {"granted", "revoked"})
        PROVE  RolesOf(u, "workspace") = {workspaceRole[u]} \ {"none"}
    <3>1. ~Touched(u, {"revoked"}) /\ \A role \in Roles : ~Granted(u, role)
      BY <2>4 DEF Touched, Granted, At
    <3>2. \A role \in Roles : <<u, role, "workspace">> \in tuples <=> workspaceRole[u] = role
      BY <2>1, <2>4, <3>1 DEF Agree, LiveAgree
    <3>. QED
      BY <2>2, <3>2 DEF RolesOf, Roles
  <2>. QED
    BY <2>3, <2>4
<1>. QED
  BY <1>1, AccessInvariant, PTL

\* A live workspace that is not being deleted has somebody OpenFGA lets manage it: if
\* the tuple of one manager is just being taken away, another one is left.
THEOREM SomebodyManages == Spec => []AlwaysManageable
<1>1. AccessInv => AlwaysManageable
  <2>. SUFFICES ASSUME AccessInv, faults = 0, workspace = "live", ~Clearing
                PROVE  \E u \in Users : RolesOf(u, "workspace") \cap Managing # {}
    BY DEF AlwaysManageable
  <2>1. LockInv /\ Agree
    BY DEF AccessInv, AgreeInv
  <2>2. PICK u \in Users : workspaceRole[u] \in Managing /\ ~Touched(u, {"revoked"})
    <3>1. PICK v \in Users : workspaceRole[v] \in Managing
      BY <2>1 DEF LockInv, RowsFit, SomeManager
    <3>2. CASE ~Touched(v, {"revoked"})
      BY <3>1, <3>2
    <3>3. CASE Touched(v, {"revoked"})
      <4>1. PICK r \in Requests : req[r].target = v /\ req[r].step = "revoked"
        BY <3>3 DEF Touched
      <4>2. PICK w \in Users \ {v} : workspaceRole[w] \in Managing
        BY <2>1, <3>1, <4>1 DEF LockInv, Holds, Locking, SomeManager
      <4>3. \A o \in Others(r) : req[o].step # "revoked"
        BY <2>1, <4>1 DEF LockInv, Apart, Locking
      <4>4. ~Touched(w, {"revoked"})
        BY <4>1, <4>2, <4>3 DEF Touched, Others
      <4>. QED
        BY <4>2, <4>4
    <3>. QED
      BY <3>2, <3>3
  <2>3. workspaceRole[u] \in Roles
    BY <2>2 DEF Managing, Roles
  <2>4. <<u, workspaceRole[u], "workspace">> \in tuples
    BY <2>1, <2>2, <2>3 DEF Agree, LiveAgree
  <2>5. workspaceRole[u] \in RolesOf(u, "workspace") \cap Managing
    BY <2>2, <2>3, <2>4 DEF RolesOf
  <2>. QED
    BY <2>5
<1>. QED
  BY <1>1, AccessInvariant, PTL

================================================================================
