----------------------------- MODULE IngestTimely -----------------------------
(***************************************************************************)
(* The ingest pipeline under the assumption its lease makes: the sweeper   *)
(* only takes a job no payload of which is still under way.  Nothing in    *)
(* the code enforces it - the lease is 15 minutes whatever the run and the *)
(* wait in memory take, and a job that was never claimed is stuck at once  *)
(* - so what is stated here is what the lease has to be long enough for.   *)
(* Crashes, lost payloads and failed statements remain.                    *)
(***************************************************************************)
EXTENDS IngestPipeline

VARIABLE runs   \* history: runner.run() calls that returned, per job

historyVars == <<vars, runs>>

\* Some payload of the job may still be run, or is about to be pushed.
InFlight(j) ==
  \/ outbox[j] = "pending"
  \/ \E i \in 1..Len(queue) : queue[i].job = j
  \/ \E t \in Tasks : jobOf[t] = j
  \/ \E w \in Workers : sweep[w][j] # 0

\* A lease outlasts every delivery, and a relay pass that pushed commits.
Timely ==
  /\ \A w \in Workers : SweepClaim(w) => \A j \in Stuck : ~InFlight(j)
  /\ \A w \in Workers : relay[w].pushed # {} /\ relay'[w] = Idle => outbox' # outbox

CountRuns ==
  runs' = [j \in Jobs |-> runs[j] +
             Cardinality({t \in Tasks : jobOf[t] = j /\ pc[t] = "running" /\ pc'[t] \in {"ran", "retry"}})]

HistoryInit == Init /\ runs = [j \in Jobs |-> 0]

TimelySpec == HistoryInit /\ [][Next /\ CountRuns /\ Timely]_historyVars

-------------------------------------------------------------------------------
\* At most MAX_ATTEMPTS runs of a job in all, over every payload, requeue and
\* crash: "up to MAX_ATTEMPTS total attempts" (process_job_with_retry), although a
\* run that was cut short is only known by the attempt the sweeper adds.
RunBudget == \A j \in Jobs : runs[j] <= MaxAttempts

\* The counter never hides a finished run from the sweeper for longer than the
\* handler that made it lives: once no payload is under way, attempts and the one
\* the sweeper will add cover every run.
AttemptsCoverRuns ==
  \A j \in Jobs : Exists(j) /\ ~InFlight(j) => runs[j] <= attempts[j] + 1

\* Undisturbed, a job with nothing under way is finished and its document reports
\* the same outcome, although the two rows are written one after the other.
RestingRowsAgree ==
  \A j \in Jobs : Exists(j) /\ ~InFlight(j) /\ faults = 0 =>
    <<status[j], doc[j]>> \in {<<"completed", "indexed">>, <<"failed", "failed">>}

\* What the lease buys the job rows (job.rs:248-253, sweeper.rs:44-49).
RunsAreAccounted == RunBudget /\ AttemptsCoverRuns /\ RestingRowsAgree

\* documents.status only takes the arrows of the state machine status.rs draws for it, until
\* the delete; and a finished job stays finished: no payload left over from an earlier pass,
\* and no sweep, re-opens it.
RowsFollowStateMachine ==
  [][\A j \in Jobs :
       /\ doc'[j] \in {doc[j], "deleted"} \/ <<doc[j], doc'[j]>> \in Arrows
       /\ status[j] \in {"completed", "failed"} => status'[j] \in {status[j], "absent"}]_historyVars

===============================================================================
