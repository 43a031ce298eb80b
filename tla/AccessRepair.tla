----------------------------- MODULE AccessRepair -----------------------------
(***************************************************************************)
(* Access beside run_openfga_reconcile, which compares the rows with the   *)
(* tuples and, with auto-fix on, writes the tuples it misses and deletes   *)
(* the orphaned ones.  Requests go on while a pass is under way.           *)
(***************************************************************************)
EXTENDS Access

CONSTANTS
  AutoFix,     \* GMRAG_RECONCILE_AUTO_FIX
  MaxRequests  \* bound: requests made in all

ASSUME AutoFixAssumption == AutoFix \in BOOLEAN

VARIABLES
  pass,   \* the reconciler's pass: what it has read, then what it will repair
  made    \* requests made so far

NoPass == [step |-> "idle", expected |-> {}, live |-> {}, missing |-> {}, orphaned |-> {}]

repairVars == <<vars, pass, made>>

RepairInit == Init /\ pass = NoPass /\ made = 0

\* The tables are read one by one; as each tuple comes from one table, one step
\* stands for them.
PassExpected ==
  /\ pass.step = "idle"
  /\ pass' = [pass EXCEPT !.step = "expected", !.expected = Expected]
  /\ UNCHANGED <<vars, made>>

PassLive ==
  /\ pass.step = "expected"
  /\ pass' = [pass EXCEPT !.step = "read", !.live = tuples]
  /\ UNCHANGED <<vars, made>>

Missing == pass.expected \ pass.live

OrphanedByUser == {t \in pass.live \ pass.expected : t[1] \notin Users \cup {"tenant"}}

\* A tuple is orphaned when an entity it names does not exist; users and the
\* tenant always do.
Orphaned == {t \in pass.live \ pass.expected : t[3] = "workspace" /\ workspace # "live"}

PassJudge ==
  /\ pass.step = "read"
  /\ pass' = IF AutoFix
              THEN [NoPass EXCEPT !.step = "judged", !.missing = Missing, !.orphaned = Orphaned]
              ELSE NoPass
  /\ UNCHANGED <<vars, made>>

PassWrite ==
  /\ pass.step = "judged"
  /\ tuples' = tuples \cup pass.missing
  /\ pass' = [pass EXCEPT !.step = "written", !.missing = {}]
  /\ UNCHANGED <<rowVars, req, faults, made>>

PassDelete ==
  /\ pass.step = "written"
  /\ tuples' = tuples \ pass.orphaned
  /\ pass' = NoPass
  /\ UNCHANGED <<rowVars, req, faults, made>>

\* A read or a write fails: the loop logs it and goes on at its next turn.
PassFails ==
  /\ pass.step # "idle"
  /\ pass' = NoPass
  /\ UNCHANGED <<vars, made>>

Pass == PassExpected \/ PassLive \/ PassJudge \/ PassWrite \/ PassDelete \/ PassFails

Serve ==
  /\ Next
  /\ made' = made + Cardinality({r \in Requests : At(r, "idle") /\ req'[r].step # "idle"})
  /\ made' <= MaxRequests
  /\ UNCHANGED pass

RepairNext == Serve \/ Pass

RepairSpec == RepairInit /\ [][RepairNext]_repairVars

\* The loop starts a pass at every turn of its timer, and the stores are not away
\* for ever.
Fairness ==
  /\ WF_repairVars(PassExpected)
  /\ SF_repairVars(PassLive) /\ SF_repairVars(PassJudge)
  /\ SF_repairVars(PassWrite) /\ SF_repairVars(PassDelete)

FairSpec == RepairSpec /\ Fairness

-------------------------------------------------------------------------------
Quiet == \A r \in Requests : At(r, "idle")

\* Once no request is under way any more, auto-fix brings back every tuple a
\* failed request lost, and removes what is left of a deleted workspace.
Repaired ==
  /\ Expected \subseteq tuples
  /\ workspace # "live" => \A t \in tuples : t[3] # "workspace"
RepairCompletes == <>[]Quiet => <>[]Repaired

\* Not true of the code, though "Postgres is the source of truth" (reconcile/openfga.rs):
\* that with no request and no pass under way nobody holds a role in a live workspace without
\* the row.  A pass writes back the tuple of a member removed since it read the rows.
PostgresIsTruth ==
  Quiet /\ pass = NoPass /\ workspace = "live" =>
    \A u \in Users : RolesOf(u, "workspace") \subseteq {workspaceRole[u]}

===============================================================================
