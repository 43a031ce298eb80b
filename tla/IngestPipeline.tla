---------------------------- MODULE IngestPipeline ----------------------------
(***************************************************************************)
(* The ingest pipeline: an upload commits a document, an ingest_jobs row   *)
(* and an ingest_outbox row in one transaction; a relay moves outbox rows  *)
(* to a Redis list; a dispatcher pops payloads and runs them under a       *)
(* concurrency bound; a retry wrapper records every attempt; a sweeper     *)
(* re-enqueues jobs whose lease has run out.  Several worker processes run *)
(* a relay, a sweeper and a dispatcher each.  The DB transactions are the  *)
(* atomic steps; everything between two of them can be interleaved with    *)
(* the other workers, with a deletion of the document and with a crash.    *)
(*                                                                         *)
(* A job and its document are created together, 1:1, so one identifier     *)
(* j \in Jobs names both rows.  Jobs are numbered in created_at order.     *)
(*                                                                         *)
(* A definition marked "Faulty:" is no part of the model.  It is the       *)
(* definition after it with one plausible mistake, and says which property *)
(* notices the mistake.                                                    *)
(***************************************************************************)
EXTENDS Naturals, Sequences, FiniteSets

CONSTANTS
  Jobs,           \* documents that may be uploaded, numbered by created_at
  Workers,        \* worker processes
  Tasks,          \* bound: payloads that can be popped and in memory at once
  Nil,            \* no job, no owner
  MaxAttempts,    \* MAX_ATTEMPTS
  Concurrency,    \* GMRAG_WORKER_CONCURRENCY: handler permits of one process
  RelayBatch,     \* DEFAULT_BATCH_SIZE of the relay
  SweepBatch,     \* the sweeper's LIMIT
  MaxQueue,       \* bound: length of the Redis list
  MaxFaults       \* bound: crashes, stops, failed statements, lost pushes

ASSUME JobsAssumption    == Jobs \subseteq Nat
ASSUME NilAssumption     == Nil \notin Jobs \cup Workers
ASSUME WorkerAssumption  == IsFiniteSet(Workers)
ASSUME AttemptAssumption == MaxAttempts \in Nat \ {0}
ASSUME BoundAssumption   == MaxQueue \in Nat /\ MaxFaults \in Nat

VARIABLES
  doc,        \* documents.status; "absent" before the upload, "deleted" after the delete
  status,     \* ingest_jobs.status; "absent" when there is no row
  attempts,   \* ingest_jobs.attempts
  claim,      \* ingest_jobs.claimed_at: NULL, within the lease, older than the lease
  outbox,     \* ingest_outbox.status; "absent" when there is no row, "purged" by retention
  chunks,     \* the document's document_chunks rows are committed
  queue,      \* the Redis list, next payload to pop first
  relayed,    \* history: payloads of a job the relay ever pushed
  pc,         \* where task t is in process_job_with_retry
  jobOf,      \* the job task t handles
  count,      \* job.attempts of its payload plus the runs that returned since
  owner,      \* the process task t lives in
  worker,     \* process state
  relay,      \* rows locked by the open relay transaction: still to push, pushed
  sweep,      \* attempts of the committed claims a sweeper has still to push (0: none)
  relayConn,  \* the relay task's Redis connection
  sweepConn,  \* the sweeper task's Redis connection
  faults      \* disturbances so far

rowVars     == <<doc, status, attempts, claim, chunks>>
listVars    == <<queue, relayed>>
taskVars    == <<pc, jobOf, count, owner>>
processVars == <<worker, relay, sweep, relayConn, sweepConn>>
vars        == <<rowVars, outbox, listVars, taskVars, processVars, faults>>

\* A task waits for a permit, then passes through process_job_with_retry.
Held == {"waiting", "claimed", "running", "retry", "ran", "completed", "exhausted", "jobFailed"}

\* What of an IngestJob payload decides anything: the job and job.attempts.
Payload == [job : Jobs, start : 0..MaxAttempts]

Idle   == [rows |-> {}, pushed |-> {}]
NoPush == [j \in Jobs |-> 0]

TypeOK ==
  /\ doc \in [Jobs -> {"absent", "uploaded", "processing", "indexed", "failed", "deleted"}]
  /\ status \in [Jobs -> {"absent", "pending", "processing", "completed", "failed"}]
  /\ attempts \in [Jobs -> 0..MaxAttempts]
  /\ claim \in [Jobs -> {"none", "fresh", "expired"}]
  /\ outbox \in [Jobs -> {"absent", "pending", "dispatched", "purged"}]
  /\ chunks \in [Jobs -> BOOLEAN]
  /\ queue \in Seq(Payload)
  /\ Len(queue) <= MaxQueue
  /\ relayed \in [Jobs -> Nat]
  /\ pc \in [Tasks -> Held \cup {"free"}]
  /\ jobOf \in [Tasks -> Jobs \cup {Nil}]
  /\ count \in [Tasks -> 0..MaxAttempts]
  /\ owner \in [Tasks -> Workers \cup {Nil}]
  /\ \A t \in Tasks : pc[t] # "free" => jobOf[t] \in Jobs /\ owner[t] \in Workers
  /\ worker \in [Workers -> {"up", "stopping", "draining", "down"}]
  /\ relay \in [Workers -> [rows : SUBSET Jobs, pushed : SUBSET Jobs]]
  /\ sweep \in [Workers -> [Jobs -> 0..MaxAttempts]]
  /\ relayConn \in [Workers -> {"ok", "broken"}]
  /\ sweepConn \in [Workers -> {"ok", "broken", "disabled"}]
  /\ faults \in 0..MaxFaults

Init ==
  /\ doc = [j \in Jobs |-> "absent"]
  /\ status = [j \in Jobs |-> "absent"]
  /\ attempts = [j \in Jobs |-> 0]
  /\ claim = [j \in Jobs |-> "none"]
  /\ outbox = [j \in Jobs |-> "absent"]
  /\ chunks = [j \in Jobs |-> FALSE]
  /\ queue = <<>>
  /\ relayed = [j \in Jobs |-> 0]
  /\ pc = [t \in Tasks |-> "free"]
  /\ jobOf = [t \in Tasks |-> Nil]
  /\ count = [t \in Tasks |-> 0]
  /\ owner = [t \in Tasks |-> Nil]
  /\ worker = [w \in Workers |-> "up"]
  /\ relay = [w \in Workers |-> Idle]
  /\ sweep = [w \in Workers |-> NoPush]
  /\ relayConn = [w \in Workers |-> "ok"]
  /\ sweepConn = [w \in Workers |-> "ok"]
  /\ faults = 0
-------------------------------------------------------------------------------
(***************************************************************************)
(* Rows.  A deleted document takes its job and outbox rows with it (ON     *)
(* DELETE CASCADE), and an UPDATE by id of a missing row changes nothing.  *)
(***************************************************************************)
Exists(j) == doc[j] \notin {"absent", "deleted"}

SetIf(f, j, v) == IF Exists(j) THEN [f EXCEPT ![j] = v] ELSE f

\* update_job_status: unconditional on the row's present status, and claimed_at
\* is stamped only when the new status is 'processing'.
UpdateJobStatus(j, s, a) ==
  /\ status' = SetIf(status, j, s)
  /\ attempts' = SetIf(attempts, j, a)
  /\ claim' = IF s = "processing" THEN SetIf(claim, j, "fresh") ELSE claim
  /\ UNCHANGED <<doc, chunks>>

\* Faulty: an upsert instead of an UPDATE (ImplementsLifecycle).
UpsertDocumentStatus(j, s) ==
  /\ doc' = [doc EXCEPT ![j] = s]
  /\ UNCHANGED <<status, attempts, claim, chunks>>

\* update_document_status: also unconditional, and a transaction of its own.
UpdateDocumentStatus(j, s) ==
  /\ doc' = SetIf(doc, j, s)
  /\ UNCHANGED <<status, attempts, claim, chunks>>

\* ORDER BY created_at LIMIT n
OldestFirst(S, n) == {j \in S : Cardinality({k \in S : k < j}) < n}

IsOldest(j, S) == j \in S /\ \A k \in S : j <= k

CanFault == faults < MaxFaults

Fault == CanFault /\ faults' = faults + 1

\* LPUSH of one payload; BRPOP takes them in the order they were pushed.
Push(j, start) ==
  /\ Len(queue) < MaxQueue
  /\ queue' = Append(queue, [job |-> j, start |-> start])

-------------------------------------------------------------------------------
(***************************************************************************)
(* API: the upload's and the delete's transactions, as they commit.        *)
(***************************************************************************)
UploadCommit(j) ==
  /\ doc[j] = "absent"
  /\ doc' = [doc EXCEPT ![j] = "uploaded"]
  /\ status' = [status EXCEPT ![j] = "pending"]
  /\ outbox' = [outbox EXCEPT ![j] = "pending"]
  /\ UNCHANGED <<attempts, claim, chunks, listVars, taskVars, processVars, faults>>

\* Rows locked by an open relay transaction (FOR UPDATE).
Locked == UNION {relay[w].rows \cup relay[w].pushed : w \in Workers}

\* The cascade reaches the outbox row, so the delete waits for a relay that
\* holds it.  Payloads already pushed are not recalled.
DeleteDocument(j) ==
  /\ Exists(j)
  /\ j \notin Locked
  /\ doc' = [doc EXCEPT ![j] = "deleted"]
  /\ status' = [status EXCEPT ![j] = "absent"]
  /\ attempts' = [attempts EXCEPT ![j] = 0]
  /\ claim' = [claim EXCEPT ![j] = "none"]
  /\ chunks' = [chunks EXCEPT ![j] = FALSE]
  /\ outbox' = [outbox EXCEPT ![j] = "absent"]
  /\ UNCHANGED <<listVars, taskVars, processVars, faults>>

-------------------------------------------------------------------------------
(***************************************************************************)
(* Outbox relay: one transaction that selects a batch FOR UPDATE SKIP      *)
(* LOCKED, LPUSHes each row and marks it, and commits at the end.          *)
(***************************************************************************)
Alive(w) == worker[w] # "down"

\* Faulty: FOR UPDATE forgotten (RelayRepeatsNeedFault).
RelayBeginUnlocked(w) ==
  /\ Alive(w) /\ relayConn[w] = "ok" /\ relay[w] = Idle
  /\ LET rows == OldestFirst({j \in Jobs : outbox[j] = "pending"}, RelayBatch)
     IN  /\ rows # {}
         /\ relay' = [relay EXCEPT ![w].rows = rows]
  /\ UNCHANGED <<rowVars, outbox, listVars, taskVars, worker, sweep, relayConn, sweepConn, faults>>

\* Faulty: only outbox rows of documents still 'uploaded' (OutboxDrains).
RelayBeginUploaded(w) ==
  /\ Alive(w) /\ relayConn[w] = "ok" /\ relay[w] = Idle
  /\ LET rows == OldestFirst({j \in Jobs : outbox[j] = "pending" /\ doc[j] = "uploaded"} \ Locked,
                             RelayBatch)
     IN  /\ rows # {}
         /\ relay' = [relay EXCEPT ![w].rows = rows]
  /\ UNCHANGED <<rowVars, outbox, listVars, taskVars, worker, sweep, relayConn, sweepConn, faults>>

RelayBegin(w) ==
  /\ Alive(w) /\ relayConn[w] = "ok" /\ relay[w] = Idle
  /\ LET rows == OldestFirst({j \in Jobs : outbox[j] = "pending"} \ Locked, RelayBatch)
     IN  /\ rows # {}
         /\ relay' = [relay EXCEPT ![w].rows = rows]
  /\ UNCHANGED <<rowVars, outbox, listVars, taskVars, worker, sweep, relayConn, sweepConn, faults>>

RelayPush(w) ==
  /\ \E j \in Jobs :
        /\ IsOldest(j, relay[w].rows)
        /\ Push(j, 0)
        /\ relayed' = [relayed EXCEPT ![j] = @ + 1]
        /\ relay' = [relay EXCEPT ![w] = [rows |-> @.rows \ {j}, pushed |-> @.pushed \cup {j}]]
  /\ UNCHANGED <<rowVars, outbox, taskVars, worker, sweep, relayConn, sweepConn, faults>>

RelayCommit(w) ==
  /\ relay[w].rows = {} /\ relay[w].pushed # {}
  /\ outbox' = [j \in Jobs |-> IF j \in relay[w].pushed THEN "dispatched" ELSE outbox[j]]
  /\ relay' = [relay EXCEPT ![w] = Idle]
  /\ UNCHANGED <<rowVars, listVars, taskVars, worker, sweep, relayConn, sweepConn, faults>>

\* A failed LPUSH, UPDATE or COMMIT ends the pass and rolls the marks back; what
\* was pushed stays on the list.  A multiplexed connection that has broken is
\* not re-opened: no later pass of this process gets past its first LPUSH.
RelayFail(w) ==
  /\ Alive(w) /\ relayConn[w] = "ok"
  /\ relay' = [relay EXCEPT ![w] = Idle]
  /\ \/ relay[w] # Idle /\ UNCHANGED relayConn
     \/ relayConn' = [relayConn EXCEPT ![w] = "broken"]
  /\ Fault
  /\ UNCHANGED <<rowVars, outbox, listVars, taskVars, worker, sweep, sweepConn>>

\* Retention deletes dispatched rows only, once they are old enough.
PurgeOutbox(j) ==
  /\ outbox[j] = "dispatched"
  /\ outbox' = [outbox EXCEPT ![j] = "purged"]
  /\ UNCHANGED <<rowVars, listVars, taskVars, processVars, faults>>

-------------------------------------------------------------------------------
(***************************************************************************)
(* Sweeper: one transaction claims the stuck jobs, then each claim is      *)
(* LPUSHed after the commit.                                               *)
(***************************************************************************)
Active == {"pending", "processing"}

\* Faulty: a requeued job that is still 'pending' is not looked at (JobsSettle).
StuckProcessing == {j \in Jobs : status[j] = "processing" /\ claim[j] # "fresh"}

\* claimed_at IS NULL counts as stuck, also for a job nobody has popped yet.
Stuck == {j \in Jobs : status[j] \in Active /\ claim[j] # "fresh"}

\* The document of a stuck job is always there (cascade), so the branch that
\* drops the job of a vanished document has no counterpart.
SweepClaim(w) ==
  /\ Alive(w) /\ sweepConn[w] # "disabled" /\ sweep[w] = NoPush
  /\ LET stuck == OldestFirst(Stuck, SweepBatch)
         spent == {j \in stuck : attempts[j] + 1 > MaxAttempts}
         again == stuck \ spent
     IN  /\ stuck # {}
         /\ status' = [j \in Jobs |-> IF j \in spent THEN "failed"
                                      ELSE IF j \in again THEN "pending" ELSE status[j]]
         /\ claim' = [j \in Jobs |-> IF j \in spent THEN "none"
                                     ELSE IF j \in again THEN "fresh" ELSE claim[j]]
         /\ attempts' = [j \in Jobs |-> IF j \in again THEN attempts[j] + 1 ELSE attempts[j]]
         /\ doc' = [j \in Jobs |-> IF j \in spent THEN "failed" ELSE doc[j]]
         /\ sweep' = [sweep EXCEPT ![w] = [j \in Jobs |-> IF j \in again THEN attempts[j] + 1 ELSE 0]]
  /\ UNCHANGED <<chunks, outbox, listVars, taskVars, worker, relay, relayConn, sweepConn, faults>>

ToPush(w) == {j \in Jobs : sweep[w][j] # 0}

\* Faulty: the payload carries the attempts the SELECT read (RunsAreAccounted).
SweepPushOldAttempts(w) ==
  /\ sweepConn[w] = "ok"
  /\ \E j \in Jobs :
        /\ IsOldest(j, ToPush(w))
        /\ Push(j, sweep[w][j] - 1)
        /\ sweep' = [sweep EXCEPT ![w][j] = 0]
  /\ UNCHANGED <<rowVars, outbox, relayed, taskVars, worker, relay, relayConn, sweepConn, faults>>

SweepPush(w) ==
  /\ sweepConn[w] = "ok"
  /\ \E j \in Jobs :
        /\ IsOldest(j, ToPush(w))
        /\ Push(j, sweep[w][j])
        /\ sweep' = [sweep EXCEPT ![w][j] = 0]
  /\ UNCHANGED <<rowVars, outbox, relayed, taskVars, worker, relay, relayConn, sweepConn, faults>>

\* A failed LPUSH is logged and skipped: the claim stays committed without a
\* payload.  On a broken connection every push fails.
SweepPushFails(w) ==
  /\ \E j \in Jobs :
        /\ IsOldest(j, ToPush(w))
        /\ sweep' = [sweep EXCEPT ![w][j] = 0]
  /\ \/ sweepConn[w] = "broken" /\ UNCHANGED <<sweepConn, faults>>
     \/ /\ sweepConn[w] = "ok"
        /\ sweepConn' \in {sweepConn, [sweepConn EXCEPT ![w] = "broken"]}
        /\ Fault
  /\ UNCHANGED <<rowVars, outbox, listVars, taskVars, worker, relay, relayConn>>

\* Time passes: a claim that nobody refreshed grows older than the lease.  Only
\* the sweeper reads claimed_at, and only of active jobs.
LeaseExpires(j) ==
  /\ status[j] \in Active /\ claim[j] = "fresh"
  /\ claim' = [claim EXCEPT ![j] = "expired"]
  /\ UNCHANGED <<doc, status, attempts, chunks, outbox, listVars, taskVars, processVars, faults>>

-------------------------------------------------------------------------------
(***************************************************************************)
(* Dispatcher: one loop pops payloads, without waiting for a permit, and   *)
(* spawns a task for each; a popped payload is no longer in Redis.         *)
(***************************************************************************)
Holds(w) == {t \in Tasks : pc[t] # "free" /\ owner[t] = w}

Pop(w) ==
  /\ worker[w] = "up"
  /\ queue # <<>>
  /\ queue' = Tail(queue)
  /\ \E t \in Tasks :
        /\ pc[t] = "free"
        /\ pc' = [pc EXCEPT ![t] = "waiting"]
        /\ jobOf' = [jobOf EXCEPT ![t] = Head(queue).job]
        /\ count' = [count EXCEPT ![t] = Head(queue).start]
        /\ owner' = [owner EXCEPT ![t] = w]
  /\ UNCHANGED <<rowVars, outbox, relayed, processVars, faults>>

\* Ctrl-C: the biased select drops the pending BRPOP and drains.
Shutdown(w) ==
  /\ worker[w] = "up"
  /\ worker' = [worker EXCEPT ![w] = "stopping"]
  /\ Fault
  /\ UNCHANGED <<rowVars, outbox, listVars, taskVars, relay, sweep, relayConn, sweepConn>>

\* The BRPOP that was dropped is still blocked in Redis; a payload it gets has no
\* reader.
LosePop(w) ==
  /\ worker[w] = "stopping"
  /\ queue # <<>>
  /\ queue' = Tail(queue)
  /\ worker' = [worker EXCEPT ![w] = "draining"]
  /\ UNCHANGED <<rowVars, outbox, relayed, taskVars, relay, sweep, relayConn, sweepConn, faults>>

\* The end of some tasks.
Free(S) ==
  /\ pc' = [t \in Tasks |-> IF t \in S THEN "free" ELSE pc[t]]
  /\ jobOf' = [t \in Tasks |-> IF t \in S THEN Nil ELSE jobOf[t]]
  /\ count' = [t \in Tasks |-> IF t \in S THEN 0 ELSE count[t]]
  /\ owner' = [t \in Tasks |-> IF t \in S THEN Nil ELSE owner[t]]

\* The end of a process: open transactions roll back, whatever was in memory is
\* lost - popped payloads, and sweeper claims whose LPUSH had not been reached.
Stop(w) ==
  /\ worker' = [worker EXCEPT ![w] = "down"]
  /\ relay' = [relay EXCEPT ![w] = Idle]
  /\ sweep' = [sweep EXCEPT ![w] = NoPush]
  /\ Free(Holds(w))
  /\ UNCHANGED <<rowVars, outbox, relayed, relayConn, sweepConn>>

\* Faulty: the process ends without waiting for its handlers (NoSilentDrop).
ExitUndrained(w) ==
  /\ worker[w] \in {"stopping", "draining"}
  /\ Stop(w)
  /\ UNCHANGED <<queue, faults>>

\* The drain is over.  run() returns; the detached relay and sweeper tasks end
\* with the runtime wherever they are.
Exit(w) ==
  /\ worker[w] \in {"stopping", "draining"}
  /\ Holds(w) = {}
  /\ Stop(w)
  /\ UNCHANGED <<queue, faults>>

\* A kill, or a poll error: run_dispatcher returns Err and the JoinSet aborts
\* the handlers it holds.  The reply of a BRPOP may be lost with the process.
Crash(w) ==
  /\ Alive(w)
  /\ Stop(w)
  /\ \/ UNCHANGED queue
     \/ worker[w] \in {"up", "stopping"} /\ queue # <<>> /\ queue' = Tail(queue)
  /\ Fault

\* restart: unless-stopped.  A relay or sweeper task whose connect fails at
\* start is disabled for the life of the process.
Restart(w) ==
  /\ worker[w] = "down"
  /\ worker' = [worker EXCEPT ![w] = "up"]
  /\ \/ /\ relayConn' = [relayConn EXCEPT ![w] = "ok"]
        /\ sweepConn' = [sweepConn EXCEPT ![w] = "ok"]
        /\ UNCHANGED faults
     \/ /\ relayConn' = [relayConn EXCEPT ![w] = "broken"]
        /\ sweepConn' \in {[sweepConn EXCEPT ![w] = c] : c \in {"ok", "disabled"}}
        /\ Fault
     \/ /\ relayConn' = [relayConn EXCEPT ![w] = "ok"]
        /\ sweepConn' = [sweepConn EXCEPT ![w] = "disabled"]
        /\ Fault
  /\ UNCHANGED <<rowVars, outbox, listVars, taskVars, relay, sweep>>

-------------------------------------------------------------------------------
(***************************************************************************)
(* Handler: process_job_with_retry.  Every status update is a transaction  *)
(* of its own; the job row and the document row are never updated together.*)
(* The attempt count comes from the payload, never from the row.           *)
(***************************************************************************)
Advance(t, from, to) ==
  /\ pc[t] = from
  /\ pc' = [pc EXCEPT ![t] = to]
  /\ UNCHANGED <<jobOf, owner>>

Finish(t, from) == pc[t] = from /\ Free({t})

RowsOnly == UNCHANGED <<outbox, listVars, processVars, faults>>

Permit(w) == Cardinality({t \in Holds(w) : pc[t] # "waiting"}) < Concurrency

\* Faulty: refuses one attempt early (FailedJobSpentBudget).
RefuseEarly(t) ==
  /\ Advance(t, "waiting", "jobFailed")
  /\ Permit(owner[t])
  /\ count[t] + 1 >= MaxAttempts
  /\ UpdateJobStatus(jobOf[t], "failed", count[t])
  /\ UNCHANGED count /\ RowsOnly

RefuseExhausted(t) ==
  /\ Advance(t, "waiting", "jobFailed")
  /\ Permit(owner[t])
  /\ count[t] >= MaxAttempts
  /\ UpdateJobStatus(jobOf[t], "failed", count[t])
  /\ UNCHANGED count /\ RowsOnly

ClaimJob(t) ==
  /\ Advance(t, "waiting", "claimed")
  /\ Permit(owner[t])
  /\ count[t] < MaxAttempts
  /\ UpdateJobStatus(jobOf[t], "processing", count[t])
  /\ UNCHANGED count /\ RowsOnly

MarkProcessing(t) ==
  /\ Advance(t, "claimed", "running")
  /\ UpdateDocumentStatus(jobOf[t], "processing")
  /\ UNCHANGED count /\ RowsOnly

\* Faulty: success is reported before the chunk rows commit (ReportedMeansStored).
RunReportsEarly(t) ==
  /\ Advance(t, "running", "ran")
  /\ Exists(jobOf[t])
  /\ count' = [count EXCEPT ![t] = @ + 1]
  /\ UNCHANGED rowVars /\ RowsOnly

\* process_job, by its outcome: the rows of dual_write commit last, and their
\* foreign key needs the document.
RunSucceeds(t) ==
  /\ Advance(t, "running", "ran")
  /\ Exists(jobOf[t])
  /\ chunks' = [chunks EXCEPT ![jobOf[t]] = TRUE]
  /\ count' = [count EXCEPT ![t] = @ + 1]
  /\ UNCHANGED <<doc, status, attempts, claim>> /\ RowsOnly

RunFails(t) ==
  /\ Advance(t, "running", "retry")
  /\ count' = [count EXCEPT ![t] = @ + 1]
  /\ UNCHANGED rowVars /\ RowsOnly

\* Faulty: the job row is left 'processing' (RowsFollowStateMachine).
CompleteDocumentOnly(t) ==
  /\ Advance(t, "ran", "completed")
  /\ UNCHANGED rowVars
  /\ UNCHANGED count /\ RowsOnly

MarkCompleted(t) ==
  /\ Advance(t, "ran", "completed")
  /\ UpdateJobStatus(jobOf[t], "completed", count[t])
  /\ UNCHANGED count /\ RowsOnly

MarkIndexed(t) ==
  /\ Finish(t, "completed")
  /\ UpdateDocumentStatus(jobOf[t], "indexed")
  /\ RowsOnly

RecordFailure(t) ==
  /\ Advance(t, "retry", IF count[t] < MaxAttempts THEN "running" ELSE "exhausted")
  /\ UpdateJobStatus(jobOf[t], "processing", count[t])
  /\ UNCHANGED count /\ RowsOnly

\* Faulty: the attempt that was refused is counted too (TypeOK).
GiveUpCounting(t) ==
  /\ Advance(t, "exhausted", "jobFailed")
  /\ UpdateJobStatus(jobOf[t], "failed", count[t] + 1)
  /\ UNCHANGED count /\ RowsOnly

GiveUp(t) ==
  /\ Advance(t, "exhausted", "jobFailed")
  /\ UpdateJobStatus(jobOf[t], "failed", MaxAttempts)
  /\ UNCHANGED count /\ RowsOnly

MarkDocumentFailed(t) ==
  /\ Finish(t, "jobFailed")
  /\ UpdateDocumentStatus(jobOf[t], "failed")
  /\ RowsOnly

\* A status update that fails ends the handler with Err, which is only logged; a
\* run that panics ends the task.
HandlerFails(t) ==
  /\ pc[t] # "free"
  /\ pc[t] = "waiting" => Permit(owner[t])
  /\ Free({t})
  /\ Fault
  /\ UNCHANGED <<rowVars, outbox, listVars, processVars>>

-------------------------------------------------------------------------------
Handle(t) ==
  \/ RefuseExhausted(t) \/ ClaimJob(t) \/ MarkProcessing(t)
  \/ RunSucceeds(t) \/ RunFails(t)
  \/ MarkCompleted(t) \/ MarkIndexed(t)
  \/ RecordFailure(t) \/ GiveUp(t) \/ MarkDocumentFailed(t)

Relay(w) == RelayBegin(w) \/ RelayPush(w) \/ RelayCommit(w)

Sweep(w) == SweepClaim(w) \/ SweepPush(w) \/ SweepPushFails(w)

Next ==
  \/ \E j \in Jobs : UploadCommit(j) \/ DeleteDocument(j) \/ PurgeOutbox(j) \/ LeaseExpires(j)
  \/ \E w \in Workers : \/ Relay(w) \/ RelayFail(w) \/ Sweep(w)
                        \/ Pop(w) \/ Shutdown(w) \/ LosePop(w) \/ Exit(w) \/ Crash(w) \/ Restart(w)
  \/ \E t \in Tasks : Handle(t) \/ HandlerFails(t)

Spec == Init /\ [][Next]_vars

(***************************************************************************)
(* The loops of a live process run again and again (relay every 3 s,       *)
(* sweeper every 60 s, BRPOP every 5 s), a handler's task is polled until  *)
(* it ends, compose restarts a process that ended, and time passes.  No    *)
(* upload, delete, purge or disturbance is ever forced.                    *)
(***************************************************************************)
Fairness ==
  /\ \A w \in Workers : /\ WF_vars(Relay(w)) /\ WF_vars(Sweep(w))
                        /\ WF_vars(Pop(w)) /\ WF_vars(Exit(w)) /\ WF_vars(Restart(w))
  /\ \A t \in Tasks : WF_vars(Handle(t))
  /\ \A j \in Jobs : WF_vars(LeaseExpires(j))

FairSpec == Spec /\ Fairness

-------------------------------------------------------------------------------
(***************************************************************************)
(* Safety.                                                                 *)
(***************************************************************************)
\* A job is reported failed only when its attempt budget is spent, whichever of
\* the three places marks it: the retry loop's end, the fail-fast on pickup, the
\* sweeper's cap.
FailedJobSpentBudget ==
  \A j \in Jobs : status[j] = "failed" => attempts[j] = MaxAttempts

\* A completed job, and a document reported indexed, have their chunk rows
\* committed - also when a second payload of the job runs and fails meanwhile.
ReportedMeansStored ==
  \A j \in Jobs : status[j] = "completed" \/ doc[j] = "indexed" => chunks[j]

\* The outbox loses nothing: a row leaves 'pending' only after its payload went
\* onto the Redis list, so a rolled-back pass can repeat a payload, never skip one.
DispatchedWasPushed ==
  \A j \in Jobs : outbox[j] \in {"dispatched", "purged"} => relayed[j] > 0

\* SKIP LOCKED keeps concurrent relays apart: a row is pushed a second time only
\* after a pass that pushed it ended without its commit.
RelayRepeatsNeedFault ==
  \A j \in Jobs : relayed[j] <= 1 + faults

\* claimed_at IS NULL marks a job nobody has touched: once an attempt is counted
\* or a worker has taken the job, only an expired lease lets the sweeper take it.
UnclaimedIsUntouched ==
  \A j \in Jobs : status[j] \in Active /\ claim[j] = "none" =>
    status[j] = "pending" /\ attempts[j] = 0

\* No run starts at the cap, whatever start the payload carried: the fail-fast and
\* the bound of the retry loop together.
NoRunAtCap ==
  \A t \in Tasks : pc[t] \in {"claimed", "running"} => count[t] < MaxAttempts

\* A payload that was popped is dropped only by a disturbance; otherwise its
\* handler ends after both the job and the document row were written.  In
\* particular a graceful shutdown drains what was popped.
NoSilentDrop ==
  [][\A t \in Tasks :
       pc[t] # "free" /\ pc'[t] = "free" /\ faults' = faults =>
         pc[t] \in {"completed", "jobFailed"}]_vars

\* The state machine that status.rs draws for documents.status.
Arrows ==
  {<<"absent", "uploaded">>, <<"uploaded", "processing">>, <<"processing", "indexed">>,
   <<"uploaded", "failed">>, <<"processing", "failed">>}

\* The pipeline implements what it promises about a document.
Lifecycle == INSTANCE DocumentLifecycle
ImplementsLifecycle == Lifecycle!Spec

-------------------------------------------------------------------------------
(***************************************************************************)
(* Liveness, under Fairness.                                               *)
(***************************************************************************)
SweeperRuns == \E w \in Workers : sweepConn[w] # "disabled"
RelayRuns   == \E w \in Workers : relayConn[w] = "ok"

\* Every job ends completed or failed for good, although any process may crash
\* at any point and any payload may be lost, as long as one process keeps a
\* sweeper task - even one whose Redis connection is dead.  If nothing was
\* disturbed its document ends with it, however many payloads the sweeper added.
JobsSettle ==
  <>[]SweeperRuns =>
    \A j \in Jobs : <>[](/\ status[j] \notin Active
                         /\ faults = 0 => doc[j] \notin {"uploaded", "processing"})

\* Every outbox row is dispatched, as long as one process keeps a working relay.
OutboxDrains ==
  <>[]RelayRuns => \A j \in Jobs : <>[](outbox[j] # "pending")

\* Not true of the code, though the sweeper is there for it (sweeper.rs:3-11): that no
\* document is left 'uploaded' or 'processing'.  The job and the document are updated one
\* after the other, and a job that is already completed or failed is not looked at again.
DocumentsSettle ==
  <>[]SweeperRuns => \A j \in Jobs : <>[](doc[j] \notin {"uploaded", "processing"})

===============================================================================
