------------------------- MODULE IngestPipelineProofs -------------------------
(***************************************************************************)
(* Proofs about IngestPipeline, for every set of jobs, workers and tasks   *)
(* and every value of the caps and bounds; and, from its lease on, about   *)
(* IngestTimely, which adds the count of the runs.                         *)
(***************************************************************************)
EXTENDS IngestTimely, FiniteSetTheorems, TLAPS

USE JobsAssumption, NilAssumption, AttemptAssumption, BoundAssumption

-------------------------------------------------------------------------------
(***************************************************************************)
(* Type correctness.  Every action group keeps TypeOK; Pop and the two     *)
(* pushes are the ones that need facts about sequences.                    *)
(***************************************************************************)

\* The subset the relay and the sweeper take of their candidates.
LEMMA OldestFirstSubset ==
  ASSUME NEW S, NEW n
  PROVE  OldestFirst(S, n) \subseteq S
BY DEF OldestFirst

LEMMA FreeType ==
  ASSUME TypeOK, NEW S, Free(S)
  PROVE  /\ pc' \in [Tasks -> Held \cup {"free"}]
         /\ jobOf' \in [Tasks -> Jobs \cup {Nil}]
         /\ count' \in [Tasks -> 0..MaxAttempts]
         /\ owner' \in [Tasks -> Workers \cup {Nil}]
         /\ \A t \in Tasks : pc'[t] # "free" => jobOf'[t] \in Jobs /\ owner'[t] \in Workers
BY DEF TypeOK, Free

\* Row updates of a handler.
LEMMA UpdateJobStatusType ==
  ASSUME TypeOK, NEW j \in Jobs, NEW s \in {"pending", "processing", "completed", "failed"},
         NEW a \in 0..MaxAttempts, UpdateJobStatus(j, s, a)
  PROVE  /\ doc' = doc /\ chunks' = chunks
         /\ status' \in [Jobs -> {"absent", "pending", "processing", "completed", "failed"}]
         /\ attempts' \in [Jobs -> 0..MaxAttempts]
         /\ claim' \in [Jobs -> {"none", "fresh", "expired"}]
BY DEF TypeOK, UpdateJobStatus, SetIf

LEMMA UpdateDocumentStatusType ==
  ASSUME TypeOK, NEW j \in Jobs, NEW s \in {"uploaded", "processing", "indexed", "failed"},
         UpdateDocumentStatus(j, s)
  PROVE  doc' \in [Jobs -> {"absent", "uploaded", "processing", "indexed", "failed", "deleted"}]
BY DEF TypeOK, UpdateDocumentStatus, SetIf

\* No task runs at the cap, and so count stays in its range.
TypeInv == TypeOK /\ NoRunAtCap

LEMMA TypeInvInit == Init => TypeInv
<1>. SUFFICES ASSUME Init PROVE TypeInv
  OBVIOUS
<1>1. <<>> \in Seq(Payload) /\ Len(<<>>) = 0
  OBVIOUS
<1>. QED
  BY <1>1 DEF Init, TypeInv, TypeOK, NoRunAtCap, Held, Idle, NoPush

\* TypeOK and the cap, group of variables by group of variables.
RowsTyped ==
  /\ doc \in [Jobs -> {"absent", "uploaded", "processing", "indexed", "failed", "deleted"}]
  /\ status \in [Jobs -> {"absent", "pending", "processing", "completed", "failed"}]
  /\ attempts \in [Jobs -> 0..MaxAttempts]
  /\ claim \in [Jobs -> {"none", "fresh", "expired"}]
  /\ chunks \in [Jobs -> BOOLEAN]

OutboxTyped == outbox \in [Jobs -> {"absent", "pending", "dispatched", "purged"}]

ListTyped ==
  /\ queue \in Seq(Payload)
  /\ Len(queue) <= MaxQueue
  /\ relayed \in [Jobs -> Nat]

TasksTyped ==
  /\ pc \in [Tasks -> Held \cup {"free"}]
  /\ jobOf \in [Tasks -> Jobs \cup {Nil}]
  /\ count \in [Tasks -> 0..MaxAttempts]
  /\ owner \in [Tasks -> Workers \cup {Nil}]
  /\ \A t \in Tasks : pc[t] # "free" => jobOf[t] \in Jobs /\ owner[t] \in Workers
  /\ NoRunAtCap

ProcessesTyped ==
  /\ worker \in [Workers -> {"up", "stopping", "draining", "down"}]
  /\ relay \in [Workers -> [rows : SUBSET Jobs, pushed : SUBSET Jobs]]
  /\ sweep \in [Workers -> [Jobs -> 0..MaxAttempts]]
  /\ relayConn \in [Workers -> {"ok", "broken"}]
  /\ sweepConn \in [Workers -> {"ok", "broken", "disabled"}]

LEMMA TypeParts ==
  TypeInv <=> /\ RowsTyped /\ OutboxTyped /\ ListTyped /\ TasksTyped /\ ProcessesTyped
              /\ faults \in 0..MaxFaults
BY DEF TypeInv, TypeOK, RowsTyped, OutboxTyped, ListTyped, TasksTyped, ProcessesTyped

LEMMA TypePartsNext ==
  ASSUME RowsTyped', OutboxTyped', ListTyped', TasksTyped', ProcessesTyped', faults' \in 0..MaxFaults
  PROVE  TypeInv'
BY DEF TypeInv, TypeOK, RowsTyped, OutboxTyped, ListTyped, TasksTyped, ProcessesTyped

\* A group whose variables a step leaves alone keeps its types.
LEMMA TypeKept ==
  ASSUME TypeInv
  PROVE  /\ UNCHANGED rowVars => RowsTyped'
         /\ UNCHANGED outbox => OutboxTyped'
         /\ UNCHANGED listVars => ListTyped'
         /\ UNCHANGED taskVars => TasksTyped'
         /\ UNCHANGED processVars => ProcessesTyped'
<1>. USE TypeParts
<1>1. UNCHANGED rowVars => RowsTyped'
  BY DEF RowsTyped, rowVars
<1>2. UNCHANGED outbox => OutboxTyped'
  BY DEF OutboxTyped
<1>3. UNCHANGED listVars => ListTyped'
  BY DEF ListTyped, listVars
<1>4. UNCHANGED taskVars => TasksTyped'
  BY DEF TasksTyped, taskVars, NoRunAtCap
<1>5. UNCHANGED processVars => ProcessesTyped'
  BY DEF ProcessesTyped, processVars
<1>. QED
  BY <1>1, <1>2, <1>3, <1>4, <1>5

\* The list after one push.
LEMMA PushType ==
  ASSUME TypeInv, NEW j \in Jobs, NEW n \in 0..MaxAttempts, Push(j, n)
  PROVE  queue' \in Seq(Payload) /\ Len(queue') <= MaxQueue
<1>1. queue \in Seq(Payload) /\ [job |-> j, start |-> n] \in Payload
  BY TypeParts DEF ListTyped, Payload
<1>2. Len(queue) < MaxQueue /\ queue' = Append(queue, [job |-> j, start |-> n])
  BY DEF Push
<1>. QED
  BY <1>1, <1>2

\* A task moves on within its handler, its count unchanged, its job's row updated.
LEMMA AdvanceType ==
  ASSUME TypeInv, NEW t \in Tasks, NEW from \in Held, NEW to \in Held,
         Advance(t, from, to), UNCHANGED count, RowsOnly,
         RowsTyped', to \in {"claimed", "running"} => count[t] < MaxAttempts
  PROVE  TypeInv'
<1>1. /\ pc' = [pc EXCEPT ![t] = to] /\ pc[t] = from
      /\ jobOf' = jobOf /\ owner' = owner /\ count' = count
  BY DEF Advance
<1>2. TasksTyped
  BY TypeParts
<1>3. pc' \in [Tasks -> Held \cup {"free"}]
  BY <1>1, <1>2 DEF TasksTyped
<1>4. from # "free"
  BY DEF Held
<1>5. \A u \in Tasks : pc'[u] # "free" => jobOf'[u] \in Jobs /\ owner'[u] \in Workers
  BY <1>1, <1>2, <1>4 DEF TasksTyped
<1>6. NoRunAtCap'
  BY <1>1, <1>2 DEF TasksTyped, NoRunAtCap
<1>7. TasksTyped'
  BY <1>1, <1>2, <1>3, <1>5, <1>6 DEF TasksTyped
<1>8. UNCHANGED <<outbox, listVars, processVars>> /\ faults' = faults
  BY DEF RowsOnly
<1>. QED
  BY <1>7, <1>8, TypeKept, TypeParts, TypePartsNext

\* A task's handler ends, its job's row updated.
LEMMA FinishType ==
  ASSUME TypeInv, NEW t \in Tasks, NEW from, Finish(t, from), RowsOnly, RowsTyped'
  PROVE  TypeInv'
<1>1. Free({t})
  BY DEF Finish
<1>2. TypeOK
  BY DEF TypeInv
<1>3. NoRunAtCap'
  BY <1>1, TypeParts DEF TasksTyped, NoRunAtCap, Free
<1>4. TasksTyped'
  BY <1>1, <1>2, <1>3, FreeType DEF TasksTyped
<1>5. UNCHANGED <<outbox, listVars, processVars>> /\ faults' = faults
  BY DEF RowsOnly
<1>. QED
  BY <1>4, <1>5, TypeKept, TypeParts, TypePartsNext

\* The job of a busy task, and the row its handler updates.
LEMMA HandlerRows ==
  ASSUME TypeInv, NEW t \in Tasks, pc[t] \in Held
  PROVE  /\ jobOf[t] \in Jobs /\ count[t] \in 0..MaxAttempts
         /\ \A s \in {"pending", "processing", "completed", "failed"}, a \in 0..MaxAttempts :
              UpdateJobStatus(jobOf[t], s, a) => RowsTyped'
         /\ \A s \in {"uploaded", "processing", "indexed", "failed"} :
              UpdateDocumentStatus(jobOf[t], s) => RowsTyped'
<1>1. jobOf[t] \in Jobs /\ count[t] \in 0..MaxAttempts
  BY TypeParts DEF TasksTyped, Held
<1>2. ASSUME NEW s \in {"pending", "processing", "completed", "failed"}, NEW a \in 0..MaxAttempts,
             UpdateJobStatus(jobOf[t], s, a)
      PROVE  RowsTyped'
  BY <1>1, <1>2, UpdateJobStatusType, TypeParts DEF RowsTyped, TypeInv
<1>3. ASSUME NEW s \in {"uploaded", "processing", "indexed", "failed"}, UpdateDocumentStatus(jobOf[t], s)
      PROVE  RowsTyped'
  <2>1. UNCHANGED <<status, attempts, claim, chunks>>
    BY <1>3 DEF UpdateDocumentStatus
  <2>. QED
    BY <1>1, <1>3, <2>1, UpdateDocumentStatusType, TypeParts DEF RowsTyped, TypeInv
<1>. QED
  BY <1>1, <1>2, <1>3

LEMMA TypeInvStep == TypeInv /\ [Next]_vars => TypeInv'
<1>. SUFFICES ASSUME TypeOK, NoRunAtCap, [Next]_vars PROVE TypeInv'
  BY DEF TypeInv
<1>. USE DEF TypeInv
<1>1. ASSUME NEW j \in Jobs, UploadCommit(j) PROVE TypeInv'
  BY <1>1 DEF TypeOK, NoRunAtCap, UploadCommit, rowVars, listVars, taskVars, processVars
<1>2. ASSUME NEW j \in Jobs, DeleteDocument(j) PROVE TypeInv'
  <2>1. RowsTyped'
    BY <1>2, TypeParts DEF RowsTyped, DeleteDocument
  <2>2. OutboxTyped'
    BY <1>2, TypeParts DEF OutboxTyped, DeleteDocument
  <2>3. UNCHANGED <<listVars, taskVars, processVars>> /\ faults' = faults
    BY <1>2 DEF DeleteDocument
  <2>. QED
    BY <2>1, <2>2, <2>3, TypeKept, TypeParts, TypePartsNext
<1>3. ASSUME NEW j \in Jobs, PurgeOutbox(j) PROVE TypeInv'
  BY <1>3 DEF TypeOK, NoRunAtCap, PurgeOutbox, rowVars, listVars, taskVars, processVars
<1>4. ASSUME NEW j \in Jobs, LeaseExpires(j) PROVE TypeInv'
  BY <1>4 DEF TypeOK, NoRunAtCap, LeaseExpires, rowVars, listVars, taskVars, processVars
<1>5. ASSUME NEW w \in Workers, RelayBegin(w) PROVE TypeInv'
  BY <1>5 DEF TypeOK, NoRunAtCap, RelayBegin, rowVars, listVars, taskVars, processVars, OldestFirst, Locked, Idle
<1>6. ASSUME NEW w \in Workers, RelayPush(w) PROVE TypeInv'
  <2>1. PICK j \in Jobs :
          /\ Push(j, 0)
          /\ relayed' = [relayed EXCEPT ![j] = relayed[j] + 1]
          /\ relay' = [relay EXCEPT ![w] = [rows |-> relay[w].rows \ {j},
                                            pushed |-> relay[w].pushed \cup {j}]]
    BY <1>6 DEF RelayPush
  <2>2. UNCHANGED <<rowVars, outbox, taskVars, worker, sweep, relayConn, sweepConn, faults>>
    BY <1>6 DEF RelayPush
  <2>3. queue' \in Seq(Payload) /\ Len(queue') <= MaxQueue
    BY <2>1, PushType
  <2>4. relayed' \in [Jobs -> Nat]
    BY <2>1, TypeParts DEF ListTyped
  <2>5. ListTyped'
    BY <2>3, <2>4 DEF ListTyped
  <2>6. relay[w] \in [rows : SUBSET Jobs, pushed : SUBSET Jobs]
    BY TypeParts DEF ProcessesTyped
  <2>7. [rows |-> relay[w].rows \ {j}, pushed |-> relay[w].pushed \cup {j}]
          \in [rows : SUBSET Jobs, pushed : SUBSET Jobs]
    BY <2>6
  <2>8. relay' \in [Workers -> [rows : SUBSET Jobs, pushed : SUBSET Jobs]]
    BY <2>1, <2>7, TypeParts DEF ProcessesTyped
  <2>9. ProcessesTyped'
    BY <2>2, <2>8, TypeParts DEF ProcessesTyped
  <2>. QED
    BY <2>2, <2>5, <2>9, TypeKept, TypeParts, TypePartsNext
<1>7. ASSUME NEW w \in Workers, RelayCommit(w) PROVE TypeInv'
  BY <1>7 DEF TypeOK, NoRunAtCap, RelayCommit, rowVars, listVars, taskVars, processVars, Idle
<1>8. ASSUME NEW w \in Workers, RelayFail(w) PROVE TypeInv'
  BY <1>8 DEF TypeOK, NoRunAtCap, RelayFail, rowVars, listVars, taskVars, processVars, Idle, Fault, CanFault
<1>9. ASSUME NEW w \in Workers, SweepClaim(w) PROVE TypeInv'
  <2>. DEFINE stuck == OldestFirst(Stuck, SweepBatch)
              spent == {j \in stuck : attempts[j] + 1 > MaxAttempts}
  <2>1. /\ status' = [j \in Jobs |-> IF j \in spent THEN "failed"
                                    ELSE IF j \in stuck \ spent THEN "pending" ELSE status[j]]
        /\ claim' = [j \in Jobs |-> IF j \in spent THEN "none"
                                   ELSE IF j \in stuck \ spent THEN "fresh" ELSE claim[j]]
        /\ attempts' = [j \in Jobs |-> IF j \in stuck \ spent THEN attempts[j] + 1 ELSE attempts[j]]
        /\ doc' = [j \in Jobs |-> IF j \in spent THEN "failed" ELSE doc[j]]
        /\ sweep' = [sweep EXCEPT ![w] = [j \in Jobs |-> IF j \in stuck \ spent THEN attempts[j] + 1 ELSE 0]]
    BY <1>9 DEF SweepClaim
  <2>2. \A j \in Jobs : j \in stuck \ spent => attempts[j] + 1 \in 0..MaxAttempts
    BY DEF TypeOK
  <2>3. attempts' \in [Jobs -> 0..MaxAttempts]
    BY <2>1, <2>2 DEF TypeOK
  <2>4. [j \in Jobs |-> IF j \in stuck \ spent THEN attempts[j] + 1 ELSE 0] \in [Jobs -> 0..MaxAttempts]
    BY <2>2
  <2>5. sweep' \in [Workers -> [Jobs -> 0..MaxAttempts]]
    BY <2>1, <2>4 DEF TypeOK
  <2>6. /\ status' \in [Jobs -> {"absent", "pending", "processing", "completed", "failed"}]
        /\ claim' \in [Jobs -> {"none", "fresh", "expired"}]
        /\ doc' \in [Jobs -> {"absent", "uploaded", "processing", "indexed", "failed", "deleted"}]
    BY <2>1 DEF TypeOK
  <2>7. UNCHANGED <<chunks, outbox, listVars, taskVars, worker, relay, relayConn, sweepConn, faults>>
    BY <1>9 DEF SweepClaim
  <2>. QED
    BY <2>3, <2>5, <2>6, <2>7 DEF TypeOK, NoRunAtCap, listVars, taskVars
<1>10. ASSUME NEW w \in Workers, SweepPush(w) PROVE TypeInv'
  <2>1. PICK j \in Jobs : Push(j, sweep[w][j]) /\ sweep' = [sweep EXCEPT ![w][j] = 0]
    BY <1>10 DEF SweepPush
  <2>2. UNCHANGED <<rowVars, outbox, relayed, taskVars, worker, relay, relayConn, sweepConn, faults>>
    BY <1>10 DEF SweepPush
  <2>3. sweep[w][j] \in 0..MaxAttempts
    BY TypeParts DEF ProcessesTyped
  <2>4. queue' \in Seq(Payload) /\ Len(queue') <= MaxQueue
    BY <2>1, <2>3, PushType
  <2>5. ListTyped'
    BY <2>2, <2>4, TypeParts DEF ListTyped
  <2>6. sweep' \in [Workers -> [Jobs -> 0..MaxAttempts]]
    BY <2>1, TypeParts DEF ProcessesTyped
  <2>7. ProcessesTyped'
    BY <2>2, <2>6, TypeParts DEF ProcessesTyped
  <2>. QED
    BY <2>2, <2>5, <2>7, TypeKept, TypeParts, TypePartsNext
<1>11. ASSUME NEW w \in Workers, SweepPushFails(w) PROVE TypeInv'
  <2>1. PICK j \in Jobs : sweep' = [sweep EXCEPT ![w][j] = 0]
    BY <1>11 DEF SweepPushFails
  <2>2. sweep' \in [Workers -> [Jobs -> 0..MaxAttempts]]
    BY <2>1 DEF TypeOK
  <2>a. sweepConn' = sweepConn \/ sweepConn' = [sweepConn EXCEPT ![w] = "broken"]
    BY <1>11 DEF SweepPushFails
  <2>b. faults' \in 0..MaxFaults
    BY <1>11 DEF SweepPushFails, TypeOK, Fault, CanFault
  <2>3. sweepConn' \in [Workers -> {"ok", "broken", "disabled"}] /\ faults' \in 0..MaxFaults
    BY <2>a, <2>b DEF TypeOK
  <2>4. UNCHANGED <<rowVars, outbox, listVars, taskVars, worker, relay, relayConn>>
    BY <1>11 DEF SweepPushFails
  <2>5. ProcessesTyped'
    BY <2>2, <2>3, <2>4, TypeParts DEF ProcessesTyped
  <2>. QED
    BY <2>3, <2>4, <2>5, TypeKept, TypeParts, TypePartsNext
<1>12. ASSUME NEW w \in Workers, Pop(w) PROVE TypeInv'
  <2>1. /\ queue # <<>> /\ queue' = Tail(queue)
        /\ UNCHANGED <<rowVars, outbox, relayed, processVars, faults>>
    BY <1>12 DEF Pop
  <2>2. PICK t \in Tasks : /\ pc' = [pc EXCEPT ![t] = "waiting"]
                           /\ jobOf' = [jobOf EXCEPT ![t] = Head(queue).job]
                           /\ count' = [count EXCEPT ![t] = Head(queue).start]
                           /\ owner' = [owner EXCEPT ![t] = w]
    BY <1>12 DEF Pop
  <2>3. Head(queue) \in Payload /\ queue' \in Seq(Payload) /\ Len(queue') <= MaxQueue
    BY <2>1 DEF TypeOK
  <2>4. Head(queue).job \in Jobs /\ Head(queue).start \in 0..MaxAttempts
    BY <2>3 DEF Payload
  <2>5. /\ pc' \in [Tasks -> Held \cup {"free"}]
        /\ jobOf' \in [Tasks -> Jobs \cup {Nil}]
        /\ count' \in [Tasks -> 0..MaxAttempts]
        /\ owner' \in [Tasks -> Workers \cup {Nil}]
    BY <2>2, <2>4 DEF TypeOK, Held
  <2>6. \A u \in Tasks : pc'[u] # "free" => jobOf'[u] \in Jobs /\ owner'[u] \in Workers
    BY <2>2, <2>4 DEF TypeOK
  <2>7. NoRunAtCap'
    BY <2>2 DEF TypeOK, NoRunAtCap
  <2>. QED
    BY <2>1, <2>3, <2>5, <2>6, <2>7 DEF TypeOK, rowVars, processVars
<1>13. ASSUME NEW w \in Workers, Shutdown(w) PROVE TypeInv'
  BY <1>13 DEF TypeOK, NoRunAtCap, Shutdown, rowVars, listVars, taskVars, processVars, Fault, CanFault
<1>14. ASSUME NEW w \in Workers, LosePop(w) PROVE TypeInv'
  BY <1>14 DEF TypeOK, NoRunAtCap, LosePop, rowVars, listVars, taskVars, processVars
<1>15. ASSUME NEW w \in Workers, Exit(w) PROVE TypeInv'
  BY <1>15 DEF TypeOK, NoRunAtCap, Exit, rowVars, listVars, taskVars, processVars, Stop, Idle, NoPush, Free
<1>16. ASSUME NEW w \in Workers, Crash(w) PROVE TypeInv'
  <2>1. Stop(w) /\ faults' \in 0..MaxFaults
    BY <1>16 DEF Crash, TypeOK, Fault, CanFault
  <2>2. queue' \in Seq(Payload) /\ Len(queue') <= MaxQueue
    <3>1. CASE UNCHANGED queue
      BY <3>1 DEF TypeOK
    <3>2. CASE queue # <<>> /\ queue' = Tail(queue)
      BY <3>2 DEF TypeOK
    <3>. QED
      BY <1>16, <3>1, <3>2 DEF Crash
  <2>3. /\ worker' \in [Workers -> {"up", "stopping", "draining", "down"}]
        /\ relay' \in [Workers -> [rows : SUBSET Jobs, pushed : SUBSET Jobs]]
        /\ sweep' \in [Workers -> [Jobs -> 0..MaxAttempts]]
    BY <2>1 DEF TypeOK, Stop, Idle, NoPush
  <2>4. NoRunAtCap'
    BY <2>1 DEF TypeOK, Stop, Free, NoRunAtCap
  <2>. QED
    BY <2>1, <2>2, <2>3, <2>4, FreeType DEF Stop, TypeOK, rowVars
<1>17. ASSUME NEW w \in Workers, Restart(w) PROVE TypeInv'
  <2>1. /\ \E c \in {"ok", "broken"} : relayConn' = [relayConn EXCEPT ![w] = c]
        /\ \E c \in {"ok", "disabled"} : sweepConn' = [sweepConn EXCEPT ![w] = c]
    BY <1>17 DEF Restart
  <2>2. faults' \in 0..MaxFaults
    BY <1>17 DEF Restart, TypeOK, Fault, CanFault
  <2>3. worker' \in [Workers -> {"up", "stopping", "draining", "down"}]
    BY <1>17 DEF Restart, TypeOK
  <2>4. /\ relayConn' \in [Workers -> {"ok", "broken"}]
        /\ sweepConn' \in [Workers -> {"ok", "broken", "disabled"}]
    BY <2>1 DEF TypeOK
  <2>. QED
    BY <1>17, <2>2, <2>3, <2>4 DEF Restart, TypeOK, NoRunAtCap, rowVars, listVars, taskVars
<1>18. ASSUME NEW t \in Tasks, RefuseExhausted(t) PROVE TypeInv'
  <2>1. /\ Advance(t, "waiting", "jobFailed") /\ UNCHANGED count /\ RowsOnly
        /\ UpdateJobStatus(jobOf[t], "failed", count[t])
    BY <1>18 DEF RefuseExhausted
  <2>2. pc[t] = "waiting" /\ pc[t] \in Held /\ "jobFailed" \in Held
    BY <2>1 DEF Advance, Held
  <2>3. RowsTyped'
    BY <2>1, <2>2, HandlerRows
  <2>4. "jobFailed" \in {"claimed", "running"} => count[t] < MaxAttempts
    BY <2>1, <2>2, TypeParts DEF TasksTyped, NoRunAtCap
  <2>. QED
    BY <2>1, <2>2, <2>3, <2>4, AdvanceType, HandlerRows
<1>19. ASSUME NEW t \in Tasks, ClaimJob(t) PROVE TypeInv'
  <2>1. /\ Advance(t, "waiting", "claimed") /\ UNCHANGED count /\ RowsOnly
        /\ UpdateJobStatus(jobOf[t], "processing", count[t]) /\ count[t] < MaxAttempts
    BY <1>19 DEF ClaimJob
  <2>2. pc[t] = "waiting" /\ pc[t] \in Held /\ "claimed" \in Held
    BY <2>1 DEF Advance, Held
  <2>3. RowsTyped'
    BY <2>1, <2>2, HandlerRows
  <2>. QED
    BY <2>1, <2>2, <2>3, AdvanceType, HandlerRows
<1>20. ASSUME NEW t \in Tasks, MarkProcessing(t) PROVE TypeInv'
  <2>1. /\ Advance(t, "claimed", "running") /\ UNCHANGED count /\ RowsOnly
        /\ UpdateDocumentStatus(jobOf[t], "processing")
    BY <1>20 DEF MarkProcessing
  <2>2. pc[t] = "claimed" /\ pc[t] \in Held /\ "running" \in Held
    BY <2>1 DEF Advance, Held
  <2>3. RowsTyped'
    BY <2>1, <2>2, HandlerRows
  <2>4. "running" \in {"claimed", "running"} => count[t] < MaxAttempts
    BY <2>1, <2>2, TypeParts DEF TasksTyped, NoRunAtCap
  <2>. QED
    BY <2>1, <2>2, <2>3, <2>4, AdvanceType, HandlerRows
<1>21. ASSUME NEW t \in Tasks, RunSucceeds(t) PROVE TypeInv'
  BY <1>21 DEF TypeOK, NoRunAtCap, RunSucceeds, RowsOnly, Advance, Held, rowVars, listVars, taskVars, processVars
<1>22. ASSUME NEW t \in Tasks, RunFails(t) PROVE TypeInv'
  BY <1>22 DEF TypeOK, NoRunAtCap, RunFails, RowsOnly, Advance, Held, rowVars, listVars, taskVars, processVars
<1>23. ASSUME NEW t \in Tasks, MarkCompleted(t) PROVE TypeInv'
  <2>1. /\ Advance(t, "ran", "completed") /\ UNCHANGED count /\ RowsOnly
        /\ UpdateJobStatus(jobOf[t], "completed", count[t])
    BY <1>23 DEF MarkCompleted
  <2>2. pc[t] = "ran" /\ pc[t] \in Held /\ "completed" \in Held
    BY <2>1 DEF Advance, Held
  <2>3. RowsTyped'
    BY <2>1, <2>2, HandlerRows
  <2>. QED
    BY <2>1, <2>2, <2>3, AdvanceType, HandlerRows
<1>24. ASSUME NEW t \in Tasks, MarkIndexed(t) PROVE TypeInv'
  <2>1. Finish(t, "completed") /\ RowsOnly /\ UpdateDocumentStatus(jobOf[t], "indexed")
    BY <1>24 DEF MarkIndexed
  <2>2. pc[t] \in Held
    BY <2>1 DEF Finish, Held
  <2>3. RowsTyped'
    BY <2>1, <2>2, HandlerRows
  <2>. QED
    BY <2>1, <2>3, FinishType
<1>25. ASSUME NEW t \in Tasks, RecordFailure(t) PROVE TypeInv'
  <2>1. /\ Advance(t, "retry", (IF count[t] < MaxAttempts THEN "running" ELSE "exhausted")) /\ UNCHANGED count /\ RowsOnly
        /\ UpdateJobStatus(jobOf[t], "processing", count[t])
    BY <1>25 DEF RecordFailure
  <2>2. pc[t] = "retry" /\ pc[t] \in Held /\ (IF count[t] < MaxAttempts THEN "running" ELSE "exhausted") \in Held
    BY <2>1 DEF Advance, Held
  <2>3. RowsTyped'
    BY <2>1, <2>2, HandlerRows
  <2>. QED
    BY <2>1, <2>2, <2>3, AdvanceType, HandlerRows
<1>26. ASSUME NEW t \in Tasks, GiveUp(t) PROVE TypeInv'
  <2>1. /\ Advance(t, "exhausted", "jobFailed") /\ UNCHANGED count /\ RowsOnly
        /\ UpdateJobStatus(jobOf[t], "failed", MaxAttempts)
    BY <1>26 DEF GiveUp
  <2>2. pc[t] = "exhausted" /\ pc[t] \in Held /\ "jobFailed" \in Held
    BY <2>1 DEF Advance, Held
  <2>3. RowsTyped'
    BY <2>1, <2>2, HandlerRows
  <2>. QED
    BY <2>1, <2>2, <2>3, AdvanceType, HandlerRows
<1>27. ASSUME NEW t \in Tasks, MarkDocumentFailed(t) PROVE TypeInv'
  <2>1. Finish(t, "jobFailed") /\ RowsOnly /\ UpdateDocumentStatus(jobOf[t], "failed")
    BY <1>27 DEF MarkDocumentFailed
  <2>2. pc[t] \in Held
    BY <2>1 DEF Finish, Held
  <2>3. RowsTyped'
    BY <2>1, <2>2, HandlerRows
  <2>. QED
    BY <2>1, <2>3, FinishType
<1>28. ASSUME NEW t \in Tasks, HandlerFails(t) PROVE TypeInv'
  BY <1>28  DEF TypeOK, NoRunAtCap, HandlerFails, Free, Fault, CanFault, rowVars, listVars, taskVars, processVars
<1>29. CASE UNCHANGED vars
  BY <1>29 DEF TypeOK, NoRunAtCap, vars, rowVars, listVars, taskVars, processVars
<1>. QED
  BY <1>1, <1>2, <1>3, <1>4, <1>5, <1>6, <1>7, <1>8, <1>9, <1>10, <1>11, <1>12, <1>13, <1>14, <1>15, <1>16, <1>17, <1>18, <1>19, <1>20, <1>21, <1>22, <1>23, <1>24, <1>25, <1>26, <1>27, <1>28, <1>29 DEF Next, Relay, Sweep, Handle

\* The types hold in every reachable state.
THEOREM TypeCorrect == Spec => []TypeOK
<1>1. Init => TypeInv
  BY TypeInvInit
<1>2. TypeInv /\ [Next]_vars => TypeInv'
  BY TypeInvStep
<1>3. TypeInv => TypeOK
  BY DEF TypeInv
<1>. QED
  BY <1>1, <1>2, <1>3, PTL DEF Spec

\* No handler is about to run a job whose payload left it no attempt: the guard
\* of the claim and of the retry loop hold for every payload a list can carry.
THEOREM CapIsKept == Spec => []NoRunAtCap
<1>1. Init => TypeInv
  BY TypeInvInit
<1>2. TypeInv /\ [Next]_vars => TypeInv'
  BY TypeInvStep
<1>3. TypeInv => NoRunAtCap
  BY DEF TypeInv
<1>. QED
  BY <1>1, <1>2, <1>3, PTL DEF Spec

-------------------------------------------------------------------------------
(***************************************************************************)
(* The job row.  FailedJobSpentBudget and UnclaimedIsUntouched are kept by *)
(* every update of a row; only the upload needs to know that the row of a  *)
(* document that is not there carries no old attempts.                     *)
(***************************************************************************)
RowsTogether == \A j \in Jobs : ~Exists(j) => status[j] = "absent" /\ attempts[j] = 0

RowInv == RowsTogether /\ FailedJobSpentBudget /\ UnclaimedIsUntouched

LEMMA RowInvStep == TypeOK /\ RowInv /\ [Next]_vars => RowInv'
<1>. SUFFICES ASSUME TypeOK, RowInv, [Next]_vars PROVE RowInv'
  OBVIOUS
<1>. USE DEF RowInv, RowsTogether, FailedJobSpentBudget, UnclaimedIsUntouched, Exists, Active
<1>1. ASSUME NEW j \in Jobs, UploadCommit(j) PROVE RowInv'
  BY <1>1 DEF UploadCommit, TypeOK
<1>2. ASSUME NEW j \in Jobs, DeleteDocument(j) PROVE RowInv'
  BY <1>2 DEF DeleteDocument, TypeOK
<1>3. ASSUME NEW j \in Jobs, LeaseExpires(j) PROVE RowInv'
  BY <1>3 DEF LeaseExpires, TypeOK
<1>4. ASSUME NEW w \in Workers, SweepClaim(w) PROVE RowInv'
  BY <1>4 DEF SweepClaim, OldestFirst, Stuck, TypeOK
<1>5. ASSUME NEW t \in Tasks, RefuseExhausted(t) PROVE RowInv'
  BY <1>5 DEF RefuseExhausted, Advance, UpdateJobStatus, SetIf, TypeOK
<1>6. ASSUME NEW t \in Tasks, ClaimJob(t) PROVE RowInv'
  BY <1>6 DEF ClaimJob, Advance, UpdateJobStatus, SetIf, TypeOK
<1>7. ASSUME NEW t \in Tasks, MarkProcessing(t) PROVE RowInv'
  BY <1>7 DEF MarkProcessing, Advance, UpdateDocumentStatus, SetIf, TypeOK
<1>8. ASSUME NEW t \in Tasks, RunSucceeds(t) PROVE RowInv'
  BY <1>8 DEF RunSucceeds, Advance, TypeOK
<1>9. ASSUME NEW t \in Tasks, MarkCompleted(t) PROVE RowInv'
  BY <1>9 DEF MarkCompleted, Advance, UpdateJobStatus, SetIf, TypeOK
<1>10. ASSUME NEW t \in Tasks, MarkIndexed(t) PROVE RowInv'
  BY <1>10 DEF MarkIndexed, Finish, UpdateDocumentStatus, SetIf, TypeOK
<1>11. ASSUME NEW t \in Tasks, RecordFailure(t) PROVE RowInv'
  BY <1>11 DEF RecordFailure, Advance, UpdateJobStatus, SetIf, TypeOK
<1>12. ASSUME NEW t \in Tasks, GiveUp(t) PROVE RowInv'
  BY <1>12 DEF GiveUp, Advance, UpdateJobStatus, SetIf, TypeOK
<1>13. ASSUME NEW t \in Tasks, MarkDocumentFailed(t) PROVE RowInv'
  BY <1>13 DEF MarkDocumentFailed, Finish, UpdateDocumentStatus, SetIf, TypeOK
<1>14. ASSUME UNCHANGED rowVars PROVE RowInv'
  BY <1>14 DEF rowVars
<1>15. QED
  BY <1>1, <1>2, <1>3, <1>4, <1>5, <1>6, <1>7, <1>8, <1>9, <1>10, <1>11, <1>12, <1>13, <1>14 DEF Next, Relay, Sweep, Handle, PurgeOutbox,
         RelayBegin, RelayPush, RelayCommit, RelayFail, SweepPush, SweepPushFails, Pop, Shutdown, LosePop,
         Exit, Crash, Restart, RunFails, HandlerFails, Stop, vars

-------------------------------------------------------------------------------
(***************************************************************************)
(* Chunks.  A handler that has seen its run succeed may report the job and *)
(* the document, because nothing takes the chunk rows away but the delete  *)
(* that takes the rows it would report with them.                          *)
(***************************************************************************)
RanMeansStored ==
  \A t \in Tasks : pc[t] \in {"ran", "completed"} =>
    doc[jobOf[t]] # "absent" /\ (Exists(jobOf[t]) => chunks[jobOf[t]])

ChunkInv == RanMeansStored /\ ReportedMeansStored

LEMMA ChunkInvStep == TypeOK /\ RowsTogether /\ ChunkInv /\ [Next]_vars => ChunkInv'
<1>. SUFFICES ASSUME TypeOK, RowsTogether, ChunkInv, [Next]_vars PROVE ChunkInv'
  OBVIOUS
<1>. USE DEF ChunkInv, RanMeansStored, ReportedMeansStored, Exists
<1>1. ASSUME NEW j \in Jobs, UploadCommit(j) PROVE ChunkInv'
  BY <1>1 DEF UploadCommit, TypeOK, taskVars
<1>2. ASSUME NEW j \in Jobs, DeleteDocument(j) PROVE ChunkInv'
  BY <1>2 DEF DeleteDocument, TypeOK, taskVars
<1>3. ASSUME NEW w \in Workers, SweepClaim(w) PROVE ChunkInv'
  BY <1>3 DEF SweepClaim, OldestFirst, Stuck, Active, RowsTogether, TypeOK, taskVars
<1>4. ASSUME NEW w \in Workers, Pop(w) PROVE ChunkInv'
  BY <1>4 DEF Pop, TypeOK, rowVars
<1>5. ASSUME NEW w \in Workers, Exit(w) PROVE ChunkInv'
  BY <1>5 DEF Exit, Stop, Free, Idle, TypeOK, rowVars
<1>6. ASSUME NEW w \in Workers, Crash(w) PROVE ChunkInv'
  BY <1>6 DEF Crash, Stop, Free, Idle, TypeOK, rowVars
<1>7. ASSUME NEW t \in Tasks, RefuseExhausted(t) PROVE ChunkInv'
  BY <1>7 DEF RefuseExhausted, Advance, UpdateJobStatus, SetIf, TypeOK
<1>8. ASSUME NEW t \in Tasks, ClaimJob(t) PROVE ChunkInv'
  BY <1>8 DEF ClaimJob, Advance, UpdateJobStatus, SetIf, TypeOK
<1>9. ASSUME NEW t \in Tasks, MarkProcessing(t) PROVE ChunkInv'
  BY <1>9 DEF MarkProcessing, Advance, UpdateDocumentStatus, SetIf, TypeOK
<1>10. ASSUME NEW t \in Tasks, RunSucceeds(t) PROVE ChunkInv'
  BY <1>10 DEF RunSucceeds, Advance, TypeOK
<1>11. ASSUME NEW t \in Tasks, RunFails(t) PROVE ChunkInv'
  BY <1>11 DEF RunFails, Advance, TypeOK, rowVars
<1>12. ASSUME NEW t \in Tasks, MarkCompleted(t) PROVE ChunkInv'
  BY <1>12 DEF MarkCompleted, Advance, UpdateJobStatus, SetIf, TypeOK
<1>13. ASSUME NEW t \in Tasks, MarkIndexed(t) PROVE ChunkInv'
  BY <1>13 DEF MarkIndexed, Finish, Free, UpdateDocumentStatus, SetIf, TypeOK
<1>14. ASSUME NEW t \in Tasks, RecordFailure(t) PROVE ChunkInv'
  BY <1>14 DEF RecordFailure, Advance, UpdateJobStatus, SetIf, TypeOK
<1>15. ASSUME NEW t \in Tasks, GiveUp(t) PROVE ChunkInv'
  BY <1>15 DEF GiveUp, Advance, UpdateJobStatus, SetIf, TypeOK
<1>16. ASSUME NEW t \in Tasks, MarkDocumentFailed(t) PROVE ChunkInv'
  BY <1>16 DEF MarkDocumentFailed, Finish, Free, UpdateDocumentStatus, SetIf, TypeOK
<1>17. ASSUME NEW t \in Tasks, HandlerFails(t) PROVE ChunkInv'
  BY <1>17 DEF HandlerFails, Free, TypeOK, rowVars
<1>18. ASSUME UNCHANGED <<doc, status, chunks, taskVars>> PROVE ChunkInv'
  BY <1>18 DEF taskVars
<1>. QED
  BY <1>1, <1>2, <1>3, <1>4, <1>5, <1>6, <1>7, <1>8, <1>9, <1>10, <1>11, <1>12, <1>13,
     <1>14, <1>15, <1>16, <1>17, <1>18
  DEF Next, Relay, Sweep, Handle, PurgeOutbox, LeaseExpires, RelayBegin, RelayPush,
      RelayCommit, RelayFail, SweepPush, SweepPushFails, Shutdown, LosePop, Restart,
      rowVars, taskVars, vars

-------------------------------------------------------------------------------
(***************************************************************************)
(* The outbox.  A row that an open relay transaction counts as pushed has  *)
(* its payload on the list before the commit makes the mark visible.       *)
(***************************************************************************)
PushFirst == \A w \in Workers : \A j \in relay[w].pushed : relayed[j] > 0

OutboxInv == PushFirst /\ DispatchedWasPushed

LEMMA OutboxInvStep == TypeOK /\ OutboxInv /\ [Next]_vars => OutboxInv'
<1>. SUFFICES ASSUME TypeOK, OutboxInv, [Next]_vars PROVE OutboxInv'
  OBVIOUS
<1>. USE DEF OutboxInv, PushFirst, DispatchedWasPushed
<1>1. ASSUME NEW j \in Jobs, UploadCommit(j) PROVE OutboxInv'
  BY <1>1 DEF UploadCommit, TypeOK, listVars, processVars
<1>2. ASSUME NEW j \in Jobs, DeleteDocument(j) PROVE OutboxInv'
  BY <1>2 DEF DeleteDocument, TypeOK, listVars, processVars
<1>3. ASSUME NEW j \in Jobs, PurgeOutbox(j) PROVE OutboxInv'
  BY <1>3 DEF PurgeOutbox, TypeOK, listVars, processVars
<1>4. ASSUME NEW w \in Workers, RelayBegin(w) PROVE OutboxInv'
  BY <1>4 DEF RelayBegin, OldestFirst, TypeOK, listVars
<1>5. ASSUME NEW w \in Workers, RelayPush(w) PROVE OutboxInv'
  BY <1>5 DEF RelayPush, IsOldest, TypeOK
<1>6. ASSUME NEW w \in Workers, RelayCommit(w) PROVE OutboxInv'
  BY <1>6 DEF RelayCommit, Idle, TypeOK, listVars
<1>7. ASSUME NEW w \in Workers, RelayFail(w) PROVE OutboxInv'
  BY <1>7 DEF RelayFail, Idle, TypeOK, listVars
<1>8. ASSUME NEW w \in Workers, Exit(w) PROVE OutboxInv'
  BY <1>8 DEF Exit, Stop, Idle, TypeOK
<1>9. ASSUME NEW w \in Workers, Crash(w) PROVE OutboxInv'
  BY <1>9 DEF Crash, Stop, Idle, TypeOK
<1>10. ASSUME UNCHANGED <<outbox, relay, relayed>> PROVE OutboxInv'
  BY <1>10 DEF TypeOK
<1>. QED
  BY <1>1, <1>2, <1>3, <1>4, <1>5, <1>6, <1>7, <1>8, <1>9, <1>10
  DEF Next, Relay, Sweep, Handle, LeaseExpires, SweepClaim, SweepPush, SweepPushFails,
      Pop, Shutdown, LosePop, Restart, RefuseExhausted, ClaimJob, MarkProcessing,
      RunSucceeds, RunFails, MarkCompleted, MarkIndexed, RecordFailure, GiveUp,
      MarkDocumentFailed, HandlerFails, RowsOnly, listVars, processVars, vars

-------------------------------------------------------------------------------
(***************************************************************************)
(* Repeats.  A payload that was pushed and rolled back is paid for with a  *)
(* disturbance: a failed pass, a crash, or the shutdown whose end cut the  *)
(* pass short.  Hence the processes on their way out are counted too.      *)
(***************************************************************************)
Leaving == {w \in Workers : worker[w] \in {"stopping", "draining"}}

\* The jobs one payload of which is accounted for without a disturbance.
Settled == {j \in Jobs : \/ outbox[j] \in {"dispatched", "purged"}
                        \/ doc[j] = "deleted"
                        \/ \E w \in Workers : j \in relay[w].pushed}

Taken(w) == relay[w].rows \cup relay[w].pushed

LocksExclusive ==
  /\ \A w \in Workers : relay[w].rows \cap relay[w].pushed = {}
  /\ \A v, w \in Workers : v # w => Taken(v) \cap Taken(w) = {}
  /\ \A w \in Workers : \A j \in Taken(w) : outbox[j] = "pending" /\ Exists(j)

OutboxWithDocument == \A j \in Jobs : ~Exists(j) => outbox[j] = "absent" /\ status[j] = "absent"

Paid ==
  \A j \in Jobs : relayed[j] + Cardinality(Leaving) <= faults + (IF j \in Settled THEN 1 ELSE 0)

LockInv == LocksExclusive /\ OutboxWithDocument

LEMMA LockInvStep == TypeOK /\ LockInv /\ [Next]_vars => LockInv'
<1>. SUFFICES ASSUME TypeOK, LockInv, [Next]_vars PROVE LockInv'
  OBVIOUS
<1>. USE DEF LockInv, LocksExclusive, OutboxWithDocument, Taken, Exists
<1>1. ASSUME NEW j \in Jobs, UploadCommit(j) PROVE LockInv'
  BY <1>1 DEF UploadCommit, TypeOK, processVars
<1>2. ASSUME NEW j \in Jobs, DeleteDocument(j) PROVE LockInv'
  BY <1>2 DEF DeleteDocument, TypeOK, Locked, processVars
<1>3. ASSUME NEW j \in Jobs, PurgeOutbox(j) PROVE LockInv'
  BY <1>3 DEF PurgeOutbox, TypeOK, processVars, rowVars
<1>4. ASSUME NEW j \in Jobs, LeaseExpires(j) PROVE LockInv'
  BY <1>4 DEF LeaseExpires, TypeOK, processVars
<1>5. ASSUME NEW w \in Workers, RelayBegin(w) PROVE LockInv'
  BY <1>5 DEF RelayBegin, OldestFirst, TypeOK, Locked, rowVars
<1>6. ASSUME NEW w \in Workers, RelayPush(w) PROVE LockInv'
  BY <1>6 DEF RelayPush, IsOldest, TypeOK, rowVars
<1>7. ASSUME NEW w \in Workers, RelayCommit(w) PROVE LockInv'
  BY <1>7 DEF RelayCommit, Idle, TypeOK, rowVars
<1>8. ASSUME NEW w \in Workers, RelayFail(w) PROVE LockInv'
  BY <1>8 DEF RelayFail, Idle, TypeOK, rowVars
<1>9. ASSUME NEW w \in Workers, SweepClaim(w) PROVE LockInv'
  BY <1>9 DEF SweepClaim, OldestFirst, Stuck, TypeOK, Active
<1>10. ASSUME NEW w \in Workers, Exit(w) PROVE LockInv'
  BY <1>10 DEF Exit, Stop, Idle, TypeOK, rowVars
<1>11. ASSUME NEW w \in Workers, Crash(w) PROVE LockInv'
  BY <1>11 DEF Crash, Stop, Idle, TypeOK, rowVars
<1>12. ASSUME NEW t \in Tasks, RefuseExhausted(t) PROVE LockInv'
  BY <1>12 DEF RefuseExhausted, Advance, UpdateJobStatus, SetIf, TypeOK, RowsOnly,
     processVars
<1>13. ASSUME NEW t \in Tasks, ClaimJob(t) PROVE LockInv'
  BY <1>13 DEF ClaimJob, Advance, UpdateJobStatus, SetIf, TypeOK, RowsOnly, processVars
<1>14. ASSUME NEW t \in Tasks, MarkProcessing(t) PROVE LockInv'
  BY <1>14 DEF MarkProcessing, Advance, UpdateDocumentStatus, SetIf, TypeOK, RowsOnly,
     processVars
<1>15. ASSUME NEW t \in Tasks, MarkCompleted(t) PROVE LockInv'
  BY <1>15 DEF MarkCompleted, Advance, UpdateJobStatus, SetIf, TypeOK, RowsOnly,
     processVars
<1>16. ASSUME NEW t \in Tasks, MarkIndexed(t) PROVE LockInv'
  BY <1>16 DEF MarkIndexed, Finish, UpdateDocumentStatus, SetIf, TypeOK, RowsOnly,
     processVars
<1>17. ASSUME NEW t \in Tasks, RecordFailure(t) PROVE LockInv'
  BY <1>17 DEF RecordFailure, Advance, UpdateJobStatus, SetIf, TypeOK, RowsOnly,
     processVars
<1>18. ASSUME NEW t \in Tasks, GiveUp(t) PROVE LockInv'
  BY <1>18 DEF GiveUp, Advance, UpdateJobStatus, SetIf, TypeOK, RowsOnly, processVars
<1>19. ASSUME NEW t \in Tasks, MarkDocumentFailed(t) PROVE LockInv'
  BY <1>19 DEF MarkDocumentFailed, Finish, UpdateDocumentStatus, SetIf, TypeOK,
     RowsOnly, processVars
<1>20. ASSUME UNCHANGED <<outbox, relay, doc, status>> PROVE LockInv'
  BY <1>20 DEF TypeOK
<1>. QED
  BY <1>1, <1>2, <1>3, <1>4, <1>5, <1>6, <1>7, <1>8, <1>9, <1>10, <1>11, <1>12, <1>13,
     <1>14, <1>15, <1>16, <1>17, <1>18, <1>19, <1>20
  DEF Next, Relay, Sweep, Handle, SweepPush, SweepPushFails, Pop, Shutdown, LosePop,
      Restart, RunSucceeds, RunFails, HandlerFails, RowsOnly, rowVars, Stop,
      processVars, vars

LEMMA LeavingFinite == IsFiniteSet(Leaving)
BY WorkerAssumption, FS_Subset DEF Leaving

LEMMA LeavingType == Cardinality(Leaving) \in Nat
BY LeavingFinite, FS_CardinalityType

\* A step that lets no process start or end its way out.
LEMMA LeavingSame ==
  ASSUME \A w \in Workers : worker'[w] \in {"stopping", "draining"} <=> worker[w] \in {"stopping", "draining"}
  PROVE  Leaving' = Leaving
BY DEF Leaving

\* What a step must do for Paid to stay: push only what was not settled, and pay for
\* what it unsettles and for a process it sends on its way out.
LEMMA PaidSame ==
  ASSUME TypeOK, TypeOK', Paid, Leaving' = Leaving, relayed' = relayed,
         faults <= faults',
         \A j \in Settled : j \in Settled' \/ faults < faults'
  PROVE  Paid'
<1>. SUFFICES ASSUME NEW j \in Jobs
              PROVE  relayed[j] + Cardinality(Leaving) <= faults' + (IF j \in Settled' THEN 1 ELSE 0)
  BY DEF Paid
<1>1. relayed[j] + Cardinality(Leaving) <= faults + (IF j \in Settled THEN 1 ELSE 0)
  BY DEF Paid
<1>2. relayed[j] \in Nat /\ Cardinality(Leaving) \in Nat /\ faults \in Nat /\ faults' \in Nat
  BY LeavingType DEF TypeOK
<1>3. CASE j \in Settled /\ j \notin Settled'
  BY <1>1, <1>2, <1>3
<1>4. CASE j \notin Settled \/ j \in Settled'
  BY <1>1, <1>2, <1>4
<1>. QED
  BY <1>3, <1>4

\* The arithmetic of the next lemma.
LEMMA Balance ==
  ASSUME NEW owed \in Nat, NEW before \in Nat, NEW after \in Nat, NEW f1 \in Nat, NEW f2 \in Nat,
         NEW c1 \in {0, 1}, NEW c2 \in {0, 1},
         owed + before <= f1 + c1,
         (c1 = c2 /\ after + f1 <= before + f2) \/ after + f1 + 1 <= before + f2
  PROVE  owed + after <= f2 + c2
OBVIOUS

\* The same when processes start or end their way out: as many as are paid for, and one
\* less when jobs are unsettled.
LEMMA PaidMove ==
  ASSUME TypeOK, TypeOK', Paid, relayed' = relayed, Cardinality(Leaving') \in Nat,
         \/ /\ Settled' = Settled
            /\ Cardinality(Leaving') + faults <= Cardinality(Leaving) + faults'
         \/ Cardinality(Leaving') + faults + 1 <= Cardinality(Leaving) + faults'
  PROVE  Paid'
<1>. SUFFICES ASSUME NEW j \in Jobs
              PROVE  relayed[j] + Cardinality(Leaving') <= faults' + (IF j \in Settled' THEN 1 ELSE 0)
  BY DEF Paid
<1>1. relayed[j] + Cardinality(Leaving) <= faults + (IF j \in Settled THEN 1 ELSE 0)
  BY DEF Paid
<1>2. relayed[j] \in Nat /\ Cardinality(Leaving) \in Nat /\ faults \in Nat /\ faults' \in Nat
  BY LeavingType DEF TypeOK
<1>3. \A S : (IF j \in S THEN 1 ELSE 0) \in {0, 1}
  OBVIOUS
<1>. QED
  BY <1>1, <1>2, <1>3, Balance

LEMMA PaidStep == TypeOK /\ TypeOK' /\ LockInv /\ Paid /\ [Next]_vars => Paid'
<1>. SUFFICES ASSUME TypeOK, TypeOK', LockInv, Paid, [Next]_vars PROVE Paid'
  OBVIOUS
<1>. USE DEF LockInv, LocksExclusive, OutboxWithDocument, Taken, Exists
<1>a. /\ faults \in Nat /\ faults' \in Nat
      /\ relayed \in [Jobs -> Nat] /\ relayed' \in [Jobs -> Nat]
  BY DEF TypeOK
<1>1. ASSUME NEW j \in Jobs, UploadCommit(j) PROVE Paid'
  <2>1. \A k \in Settled : k \in Settled' \/ faults < faults'
    BY <1>1, <1>a DEF UploadCommit, Settled, TypeOK, processVars, listVars
  <2>2. relayed' = relayed /\ faults <= faults' /\ worker' = worker
    BY <1>1, <1>a DEF UploadCommit, processVars, listVars
  <2>. QED
    BY <2>1, <2>2, PaidSame DEF Leaving
<1>2. ASSUME NEW j \in Jobs, DeleteDocument(j) PROVE Paid'
  <2>1. \A k \in Settled : k \in Settled' \/ faults < faults'
    BY <1>2, <1>a DEF DeleteDocument, Settled, TypeOK, Locked, processVars, listVars
  <2>2. relayed' = relayed /\ faults <= faults' /\ worker' = worker
    BY <1>2, <1>a DEF DeleteDocument, processVars, listVars
  <2>. QED
    BY <2>1, <2>2, PaidSame DEF Leaving
<1>3. ASSUME NEW j \in Jobs, PurgeOutbox(j) PROVE Paid'
  <2>1. \A k \in Settled : k \in Settled' \/ faults < faults'
    BY <1>3, <1>a DEF PurgeOutbox, Settled, TypeOK, processVars, listVars, rowVars
  <2>2. relayed' = relayed /\ faults <= faults' /\ worker' = worker
    BY <1>3, <1>a DEF PurgeOutbox, processVars, listVars, rowVars
  <2>. QED
    BY <2>1, <2>2, PaidSame DEF Leaving
<1>4. ASSUME NEW w \in Workers, RelayBegin(w) PROVE Paid'
  <2>1. \A k \in Settled : k \in Settled' \/ faults < faults'
    BY <1>4, <1>a DEF RelayBegin, Settled, OldestFirst, TypeOK, rowVars, listVars
  <2>2. relayed' = relayed /\ faults <= faults' /\ worker' = worker
    BY <1>4, <1>a DEF RelayBegin, rowVars, listVars
  <2>. QED
    BY <2>1, <2>2, PaidSame DEF Leaving
<1>5. ASSUME NEW w \in Workers, RelayCommit(w) PROVE Paid'
  <2>1. \A k \in Settled : k \in Settled' \/ faults < faults'
    BY <1>5, <1>a DEF RelayCommit, Settled, Idle, TypeOK, rowVars, listVars
  <2>2. relayed' = relayed /\ faults <= faults' /\ worker' = worker
    BY <1>5, <1>a DEF RelayCommit, rowVars, listVars
  <2>. QED
    BY <2>1, <2>2, PaidSame DEF Leaving
<1>6. ASSUME NEW w \in Workers, RelayFail(w) PROVE Paid'
  <2>1. \A k \in Settled : k \in Settled' \/ faults < faults'
    BY <1>6, <1>a DEF RelayFail, Settled, Idle, TypeOK, Fault, CanFault, rowVars,
       listVars
  <2>2. relayed' = relayed /\ faults <= faults' /\ worker' = worker
    BY <1>6, <1>a DEF RelayFail, Fault, CanFault, rowVars, listVars
  <2>. QED
    BY <2>1, <2>2, PaidSame DEF Leaving
<1>7. ASSUME NEW w \in Workers, SweepClaim(w) PROVE Paid'
  <2>1. \A k \in Settled : k \in Settled' \/ faults < faults'
    BY <1>7, <1>a DEF SweepClaim, Settled, OldestFirst, Stuck, TypeOK, Active, listVars
  <2>2. relayed' = relayed /\ faults <= faults' /\ worker' = worker
    BY <1>7, <1>a DEF SweepClaim, listVars
  <2>. QED
    BY <2>1, <2>2, PaidSame DEF Leaving
<1>8. ASSUME NEW t \in Tasks, MarkProcessing(t) PROVE Paid'
  <2>1. \A k \in Settled : k \in Settled' \/ faults < faults'
    BY <1>8, <1>a DEF MarkProcessing, Settled, Advance, UpdateDocumentStatus, SetIf,
       TypeOK, RowsOnly, processVars, listVars
  <2>2. relayed' = relayed /\ faults <= faults' /\ worker' = worker
    BY <1>8, <1>a DEF MarkProcessing, Advance, RowsOnly, processVars, listVars
  <2>. QED
    BY <2>1, <2>2, PaidSame DEF Leaving
<1>9. ASSUME NEW t \in Tasks, MarkIndexed(t) PROVE Paid'
  <2>1. \A k \in Settled : k \in Settled' \/ faults < faults'
    BY <1>9, <1>a DEF MarkIndexed, Settled, Finish, UpdateDocumentStatus, SetIf, TypeOK,
       RowsOnly, processVars, listVars
  <2>2. relayed' = relayed /\ faults <= faults' /\ worker' = worker
    BY <1>9, <1>a DEF MarkIndexed, Finish, RowsOnly, processVars, listVars
  <2>. QED
    BY <2>1, <2>2, PaidSame DEF Leaving
<1>10. ASSUME NEW t \in Tasks, MarkDocumentFailed(t) PROVE Paid'
  <2>1. \A k \in Settled : k \in Settled' \/ faults < faults'
    BY <1>10, <1>a DEF MarkDocumentFailed, Settled, Finish, UpdateDocumentStatus, SetIf,
       TypeOK, RowsOnly, processVars, listVars
  <2>2. relayed' = relayed /\ faults <= faults' /\ worker' = worker
    BY <1>10, <1>a DEF MarkDocumentFailed, Finish, RowsOnly, processVars, listVars
  <2>. QED
    BY <2>1, <2>2, PaidSame DEF Leaving
<1>11. ASSUME NEW w \in Workers, RelayPush(w) PROVE Paid'
  <2>1. PICK j \in Jobs : /\ j \in relay[w].rows
                         /\ relayed' = [relayed EXCEPT ![j] = @ + 1]
                         /\ relay' = [relay EXCEPT ![w] = [rows |-> @.rows \ {j}, pushed |-> @.pushed \cup {j}]]
    BY <1>11 DEF RelayPush, IsOldest
  <2>2. UNCHANGED <<doc, outbox, worker, faults>>
    BY <1>11 DEF RelayPush, rowVars
  <2>3. j \notin Settled
    BY <2>1 DEF Settled, TypeOK
  <2>4. j \in Settled' /\ Settled \subseteq Settled'
    BY <2>1, <2>2 DEF Settled, TypeOK
  <2>5. Leaving' = Leaving
    BY <2>2 DEF Leaving
  <2>. SUFFICES ASSUME NEW k \in Jobs
                PROVE  relayed'[k] + Cardinality(Leaving) <= faults + (IF k \in Settled' THEN 1 ELSE 0)
    BY <2>2, <2>5 DEF Paid
  <2>6. relayed[k] + Cardinality(Leaving) <= faults + (IF k \in Settled THEN 1 ELSE 0)
    BY DEF Paid
  <2>a. relayed[k] \in Nat /\ faults \in Nat
    BY <1>a
  <2>7. CASE k = j
    <3>1. relayed'[k] = relayed[k] + 1
      BY <1>a, <2>1, <2>7
    <3>2. relayed[k] + Cardinality(Leaving) <= faults
      BY <2>3, <2>6, <2>7, <2>a, LeavingType
    <3>. QED
      BY <2>4, <2>7, <2>a, <3>1, <3>2, LeavingType
  <2>8. CASE k # j
    <3>1. relayed'[k] = relayed[k]
      BY <1>a, <2>1, <2>8
    <3>2. CASE k \in Settled
      BY <2>4, <2>6, <2>a, <3>1, <3>2, LeavingType
    <3>3. CASE k \notin Settled
      BY <2>6, <2>a, <3>1, <3>3, LeavingType
    <3>. QED
      BY <3>2, <3>3
  <2>. QED
    BY <2>7, <2>8
<1>12. ASSUME NEW w \in Workers, Shutdown(w) PROVE Paid'
  <2>1. /\ worker[w] = "up" /\ worker' = [worker EXCEPT ![w] = "stopping"]
        /\ UNCHANGED <<doc, outbox, relay, relayed>>
        /\ faults' = faults + 1
    BY <1>12 DEF Shutdown, Fault, rowVars, listVars
  <2>2. Leaving' = Leaving \cup {w} /\ w \notin Leaving
    BY <2>1 DEF Leaving, TypeOK
  <2>3. Cardinality(Leaving') = Cardinality(Leaving) + 1
    BY <2>2, LeavingFinite, FS_AddElement
  <2>4. Settled' = Settled
    BY <2>1 DEF Settled
  <2>5. Cardinality(Leaving') + faults <= Cardinality(Leaving) + faults'
    BY <1>a, <2>1, <2>3, LeavingType
  <2>6. Cardinality(Leaving') \in Nat /\ relayed' = relayed
    BY <2>1, <2>3, LeavingType
  <2>. QED
    BY <2>4, <2>5, <2>6, PaidMove
<1>13. ASSUME NEW w \in Workers, Exit(w) PROVE Paid'
  <2>1. /\ worker[w] \in {"stopping", "draining"} /\ worker' = [worker EXCEPT ![w] = "down"]
        /\ UNCHANGED <<relayed, faults>>
    BY <1>13 DEF Exit, Stop
  <2>2. Leaving' = Leaving \ {w} /\ w \in Leaving
    BY <2>1 DEF Leaving, TypeOK
  <2>3. Cardinality(Leaving') = Cardinality(Leaving) - 1
    BY <2>2, LeavingFinite, FS_RemoveElement
  <2>4. IsFiniteSet(Leaving')
    BY <2>2, LeavingFinite, FS_Subset
  <2>5. Cardinality(Leaving') \in Nat
    BY <2>4, FS_CardinalityType
  <2>6. Cardinality(Leaving') + faults + 1 <= Cardinality(Leaving) + faults'
    BY <1>a, <2>1, <2>3, LeavingType
  <2>. QED
    BY <2>1, <2>5, <2>6, PaidMove
<1>14. ASSUME NEW w \in Workers, Crash(w) PROVE Paid'
  <2>1. /\ worker' = [worker EXCEPT ![w] = "down"]
        /\ relayed' = relayed /\ faults' = faults + 1
    BY <1>14 DEF Crash, Stop, Fault
  <2>2. Leaving' \subseteq Leaving
    BY <2>1 DEF Leaving, TypeOK
  <2>3. Cardinality(Leaving') <= Cardinality(Leaving) /\ Cardinality(Leaving') \in Nat
    BY <2>2, LeavingFinite, FS_Subset, FS_CardinalityType
  <2>4. Cardinality(Leaving') + faults + 1 <= Cardinality(Leaving) + faults'
    BY <1>a, <2>1, <2>3, LeavingType
  <2>. QED
    BY <2>1, <2>3, <2>4, PaidMove
<1>15. ASSUME NEW w \in Workers, Restart(w) \/ LosePop(w) PROVE Paid'
  <2>1. UNCHANGED <<doc, outbox, relay, relayed>> /\ faults <= faults'
    BY <1>a, <1>15 DEF Restart, LosePop, Fault, rowVars, listVars
  <2>2. \/ worker[w] = "down" /\ worker' = [worker EXCEPT ![w] = "up"]
        \/ worker[w] = "stopping" /\ worker' = [worker EXCEPT ![w] = "draining"]
    BY <1>15 DEF Restart, LosePop
  <2>3. Leaving' = Leaving
    BY <2>2 DEF Leaving, TypeOK
  <2>. QED
    BY <2>1, <2>3, PaidSame DEF Settled
<1>16. ASSUME UNCHANGED <<doc, outbox, relay, relayed, worker>>, faults <= faults' PROVE Paid'
  BY <1>16, PaidSame DEF Settled, Leaving
<1>17. ASSUME NEW w \in Workers, SweepPush(w) \/ SweepPushFails(w) \/ Pop(w) PROVE Paid'
  BY <1>16, <1>17, <1>a DEF SweepPush, SweepPushFails, Pop, Fault, rowVars, listVars, processVars
<1>18. ASSUME NEW j \in Jobs, LeaseExpires(j) PROVE Paid'
  BY <1>16, <1>18, <1>a DEF LeaseExpires, processVars, listVars
<1>19. ASSUME NEW t \in Tasks, Handle(t) PROVE Paid'
  <2>1. CASE MarkProcessing(t) \/ MarkIndexed(t) \/ MarkDocumentFailed(t)
    BY <1>8, <1>9, <1>10, <2>1
  <2>2. CASE \/ RefuseExhausted(t) \/ ClaimJob(t) \/ RunSucceeds(t) \/ RunFails(t)
             \/ MarkCompleted(t) \/ RecordFailure(t) \/ GiveUp(t)
    BY <1>16, <1>a, <2>2
    DEF RefuseExhausted, ClaimJob, RunSucceeds, RunFails, MarkCompleted, RecordFailure, GiveUp,
        UpdateJobStatus, RowsOnly, rowVars, listVars, processVars
  <2>. QED
    BY <1>19, <2>1, <2>2 DEF Handle
<1>20. ASSUME NEW t \in Tasks, HandlerFails(t) PROVE Paid'
  BY <1>16, <1>20, <1>a DEF HandlerFails, Fault, rowVars, listVars, processVars
<1>21. CASE UNCHANGED vars
  BY <1>16, <1>21, <1>a DEF vars, rowVars, listVars, processVars
<1>. QED
  BY <1>1, <1>2, <1>3, <1>4, <1>5, <1>6, <1>7, <1>11, <1>12, <1>13, <1>14, <1>15, <1>17, <1>18,
     <1>19, <1>20, <1>21
  DEF Next, Relay, Sweep

-------------------------------------------------------------------------------
(***************************************************************************)
(* The invariants, for every instance of the pipeline.                     *)
(***************************************************************************)
SafetyInv == TypeInv /\ RowInv /\ ChunkInv /\ OutboxInv /\ LockInv /\ Paid

LEMMA SafetyInit == Init => SafetyInv
<1>. SUFFICES ASSUME Init PROVE SafetyInv
  OBVIOUS
<1>1. TypeInv
  BY TypeInvInit
<1>2. RowInv
  BY DEF Init, RowInv, RowsTogether, FailedJobSpentBudget, UnclaimedIsUntouched, Active
<1>3. ChunkInv /\ OutboxInv /\ LockInv
  BY DEF Init, ChunkInv, RanMeansStored, ReportedMeansStored, OutboxInv, PushFirst, DispatchedWasPushed,
         LockInv, LocksExclusive, OutboxWithDocument, Taken, Exists, Idle
<1>4. Leaving = {}
  BY DEF Init, Leaving
<1>5. Paid
  BY <1>4, FS_EmptySet DEF Init, Paid
<1>. QED
  BY <1>1, <1>2, <1>3, <1>5 DEF SafetyInv

LEMMA SafetyStep == SafetyInv /\ [Next]_vars => SafetyInv'
<1>. SUFFICES ASSUME SafetyInv, [Next]_vars PROVE SafetyInv'
  OBVIOUS
<1>1. TypeInv'
  BY TypeInvStep DEF SafetyInv
<1>2. RowInv' /\ OutboxInv' /\ LockInv'
  BY RowInvStep, OutboxInvStep, LockInvStep DEF SafetyInv, TypeInv
<1>3. ChunkInv'
  BY ChunkInvStep DEF SafetyInv, TypeInv, RowInv
<1>4. Paid'
  BY <1>1, PaidStep DEF SafetyInv, TypeInv
<1>. QED
  BY <1>1, <1>2, <1>3, <1>4 DEF SafetyInv

\* The inductive invariant of the rows, the chunks, the outbox and its locks.
THEOREM SafetyInvariant == Spec => []SafetyInv
<1>1. Init => SafetyInv
  BY SafetyInit
<1>2. SafetyInv /\ [Next]_vars => SafetyInv'
  BY SafetyStep
<1>. QED
  BY <1>1, <1>2, PTL DEF Spec

\* The three places that mark a job failed do it with the budget spent.
THEOREM FailedJobsSpentBudget == Spec => []FailedJobSpentBudget
<1>. SafetyInv => FailedJobSpentBudget
  BY DEF SafetyInv, RowInv
<1>. QED
  BY SafetyInvariant, PTL

\* A job nobody has claimed has no attempt on its account.
THEOREM UnclaimedJobsUntouched == Spec => []UnclaimedIsUntouched
<1>. SafetyInv => UnclaimedIsUntouched
  BY DEF SafetyInv, RowInv
<1>. QED
  BY SafetyInvariant, PTL

\* What is reported completed or indexed is stored, whatever second payload of the
\* job is under way.
THEOREM ReportsAreStored == Spec => []ReportedMeansStored
<1>. SafetyInv => ReportedMeansStored
  BY DEF SafetyInv, ChunkInv
<1>. QED
  BY SafetyInvariant, PTL

\* The relay skips no outbox row.
THEOREM NoRowSkipped == Spec => []DispatchedWasPushed
<1>. SafetyInv => DispatchedWasPushed
  BY DEF SafetyInv, OutboxInv
<1>. QED
  BY SafetyInvariant, PTL

\* The relay repeats no outbox row without a disturbance, for any number of
\* processes, of rows and of batches in progress.
THEOREM RepeatsArePaid == Spec => []RelayRepeatsNeedFault
<1>1. SafetyInv => RelayRepeatsNeedFault
  <2>. SUFFICES ASSUME SafetyInv, NEW j \in Jobs PROVE relayed[j] <= 1 + faults
    BY DEF RelayRepeatsNeedFault
  <2>1. relayed[j] + Cardinality(Leaving) <= faults + (IF j \in Settled THEN 1 ELSE 0)
    BY DEF SafetyInv, Paid
  <2>2. relayed[j] \in Nat /\ faults \in Nat
    BY DEF SafetyInv, TypeInv, TypeOK
  <2>. QED
    BY <2>1, <2>2, LeavingType
<1>. QED
  BY <1>1, SafetyInvariant, PTL

-------------------------------------------------------------------------------
(***************************************************************************)
(* A popped payload is given up only by a disturbance.                     *)
(***************************************************************************)
NoDrop ==
  \A t \in Tasks :
    pc[t] # "free" /\ pc'[t] = "free" /\ faults' = faults => pc[t] \in {"completed", "jobFailed"}

LEMMA NoDropStep == TypeOK /\ [Next]_vars => NoDrop
<1>. SUFFICES ASSUME TypeOK, [Next]_vars PROVE NoDrop
  OBVIOUS
<1>. USE DEF NoDrop
<1>1. faults + 1 # faults
  BY DEF TypeOK
<1>2. ASSUME NEW w \in Workers, Pop(w) PROVE NoDrop
  BY <1>2 DEF Pop, TypeOK
<1>3. ASSUME NEW w \in Workers, Exit(w) PROVE NoDrop
  BY <1>3 DEF Exit, Stop, Free
<1>4. ASSUME NEW w \in Workers, Crash(w) PROVE NoDrop
  BY <1>1, <1>4 DEF Crash, Fault
<1>5. ASSUME NEW t \in Tasks, HandlerFails(t) PROVE NoDrop
  BY <1>1, <1>5 DEF HandlerFails, Fault
<1>6. ASSUME NEW t \in Tasks, MarkIndexed(t) \/ MarkDocumentFailed(t) PROVE NoDrop
  BY <1>6 DEF MarkIndexed, MarkDocumentFailed, Finish, Free
<1>7. ASSUME NEW t \in Tasks,
             \/ RefuseExhausted(t) \/ ClaimJob(t) \/ MarkProcessing(t) \/ RunSucceeds(t) \/ RunFails(t)
             \/ MarkCompleted(t) \/ RecordFailure(t) \/ GiveUp(t)
      PROVE  NoDrop
  <2>1. PICK to \in Held : pc' = [pc EXCEPT ![t] = to]
    BY <1>7 DEF RefuseExhausted, ClaimJob, MarkProcessing, RunSucceeds, RunFails, MarkCompleted,
                RecordFailure, GiveUp, Advance, Held
  <2>. QED
    BY <2>1 DEF Held, TypeOK
<1>8. ASSUME UNCHANGED pc PROVE NoDrop
  BY <1>8
<1>. QED
  BY <1>2, <1>3, <1>4, <1>5, <1>6, <1>7, <1>8
  DEF Next, Relay, Sweep, Handle, UploadCommit, DeleteDocument, PurgeOutbox, LeaseExpires,
      RelayBegin, RelayPush, RelayCommit, RelayFail, SweepClaim, SweepPush, SweepPushFails,
      Shutdown, LosePop, Restart, taskVars, vars

\* The dispatcher never gives a popped payload up of its own accord.
THEOREM NoPayloadGivenUp == Spec => NoSilentDrop
<1>1. TypeOK /\ [Next]_vars => [NoDrop]_vars
  BY NoDropStep
<1>. QED
  BY <1>1, TypeCorrect, PTL DEF Spec, NoSilentDrop, NoDrop

-------------------------------------------------------------------------------
(***************************************************************************)
(* Refinement: the pipeline implements DocumentLifecycle.  Both have       *)
(* variables doc and chunks, so the mapping is the identity on the two.    *)
(***************************************************************************)
LEMMA LifecycleStep ==
  SafetyInv /\ [Next]_vars => [Lifecycle!Next]_(Lifecycle!lifecycleVars)
<1>. SUFFICES ASSUME SafetyInv, [Next]_vars
              PROVE  Lifecycle!Next \/ UNCHANGED <<doc, chunks>>
  BY DEF Lifecycle!lifecycleVars
<1>. USE DEF Lifecycle!Next, Lifecycle!Live, Exists
<1>a. TypeOK
  BY DEF SafetyInv, TypeInv
<1>1. ASSUME NEW j \in Jobs, UploadCommit(j) PROVE Lifecycle!Next
  BY <1>1 DEF UploadCommit, Lifecycle!Upload
<1>2. ASSUME NEW j \in Jobs, DeleteDocument(j) PROVE Lifecycle!Next
  BY <1>2 DEF DeleteDocument, Lifecycle!Delete
<1>3. ASSUME NEW w \in Workers, SweepClaim(w) PROVE Lifecycle!Next
  <2>1. PICK S \in SUBSET OldestFirst(Stuck, SweepBatch) :
               doc' = [j \in Jobs |-> IF j \in S THEN "failed" ELSE doc[j]]
    BY <1>3 DEF SweepClaim
  <2>2. chunks' = chunks
    BY <1>3 DEF SweepClaim
  <2>3. OldestFirst(Stuck, SweepBatch) \subseteq Lifecycle!Live
    BY DEF OldestFirst, Stuck, Active, SafetyInv, RowInv, RowsTogether
  <2>. QED
    BY <2>1, <2>2, <2>3 DEF Lifecycle!ReportFailed
<1>4. ASSUME NEW t \in Tasks, MarkProcessing(t) PROVE Lifecycle!Next \/ UNCHANGED <<doc, chunks>>
  BY <1>4, <1>a DEF MarkProcessing, Advance, UpdateDocumentStatus, SetIf, TypeOK, Lifecycle!Process
<1>5. ASSUME NEW t \in Tasks, RunSucceeds(t) PROVE Lifecycle!Next
  BY <1>5, <1>a DEF RunSucceeds, Advance, TypeOK, Lifecycle!CommitChunks
<1>6. ASSUME NEW t \in Tasks, MarkIndexed(t) PROVE Lifecycle!Next \/ UNCHANGED <<doc, chunks>>
  <2>1. jobOf[t] \in Jobs /\ (Exists(jobOf[t]) => chunks[jobOf[t]])
    BY <1>6, <1>a DEF MarkIndexed, Finish, TypeOK, SafetyInv, ChunkInv, RanMeansStored
  <2>. QED
    BY <1>6, <2>1 DEF MarkIndexed, UpdateDocumentStatus, SetIf, Lifecycle!ReportIndexed
<1>7. ASSUME NEW t \in Tasks, MarkDocumentFailed(t) PROVE Lifecycle!Next \/ UNCHANGED <<doc, chunks>>
  <2>1. jobOf[t] \in Jobs
    BY <1>7, <1>a DEF MarkDocumentFailed, Finish, TypeOK
  <2>2. CASE ~Exists(jobOf[t])
    BY <1>7, <2>2 DEF MarkDocumentFailed, UpdateDocumentStatus, SetIf
  <2>3. CASE Exists(jobOf[t])
    <3>1. doc' = [j \in Jobs |-> IF j \in {jobOf[t]} THEN "failed" ELSE doc[j]]
      BY <1>7, <1>a, <2>3 DEF MarkDocumentFailed, UpdateDocumentStatus, SetIf, TypeOK
    <3>2. {jobOf[t]} \in SUBSET Lifecycle!Live /\ chunks' = chunks
      BY <1>7, <2>1, <2>3 DEF MarkDocumentFailed, UpdateDocumentStatus
    <3>. QED
      BY <3>1, <3>2 DEF Lifecycle!ReportFailed
  <2>. QED
    BY <2>2, <2>3
<1>8. ASSUME NEW j \in Jobs, PurgeOutbox(j) \/ LeaseExpires(j) PROVE UNCHANGED <<doc, chunks>>
  BY <1>8 DEF PurgeOutbox, LeaseExpires, rowVars
<1>9. ASSUME NEW w \in Workers, RelayBegin(w) \/ RelayPush(w) \/ RelayCommit(w) \/ RelayFail(w)
      PROVE  UNCHANGED <<doc, chunks>>
  BY <1>9 DEF RelayBegin, RelayPush, RelayCommit, RelayFail, rowVars
<1>10. ASSUME NEW w \in Workers, SweepPush(w) \/ SweepPushFails(w) \/ Pop(w) PROVE UNCHANGED <<doc, chunks>>
  BY <1>10 DEF SweepPush, SweepPushFails, Pop, rowVars
<1>11. ASSUME NEW w \in Workers, Shutdown(w) \/ LosePop(w) \/ Exit(w) \/ Crash(w) \/ Restart(w)
       PROVE  UNCHANGED <<doc, chunks>>
  BY <1>11 DEF Shutdown, LosePop, Exit, Crash, Stop, Restart, rowVars
<1>12. ASSUME NEW t \in Tasks,
              \/ RefuseExhausted(t) \/ ClaimJob(t) \/ RunFails(t) \/ MarkCompleted(t)
              \/ RecordFailure(t) \/ GiveUp(t) \/ HandlerFails(t)
       PROVE  UNCHANGED <<doc, chunks>>
  BY <1>12 DEF RefuseExhausted, ClaimJob, RunFails, MarkCompleted, RecordFailure, GiveUp, HandlerFails,
               UpdateJobStatus, rowVars
<1>13. CASE UNCHANGED vars
  BY <1>13 DEF vars, rowVars
<1>. QED
  BY <1>1, <1>2, <1>3, <1>4, <1>5, <1>6, <1>7, <1>8, <1>9, <1>10, <1>11, <1>12, <1>13
  DEF Next, Relay, Sweep, Handle

\* Whatever is lost, repeated or interrupted, a client sees a document follow the
\* abstract lifecycle.
THEOREM PipelineImplementsLifecycle == Spec => ImplementsLifecycle
<1>1. Init => Lifecycle!Init
  BY DEF Init, Lifecycle!Init
<1>2. SafetyInv /\ [Next]_vars => [Lifecycle!Next]_(Lifecycle!lifecycleVars)
  BY LifecycleStep
<1>. QED
  BY <1>1, <1>2, SafetyInvariant, PTL DEF Spec, ImplementsLifecycle, Lifecycle!Spec


-------------------------------------------------------------------------------
(***************************************************************************)
(* Under the assumption of the lease (IngestTimely).  A job has one ticket *)
(* at most: its row in the outbox until a relay has pushed it, a payload on*)
(* the list, a task, or a sweeper's claim still to push.  The ticket knows *)
(* the attempts of the row, and bounds the runs.                           *)
(***************************************************************************)
Pushed(j)  == \E w \in Workers : j \in relay[w].pushed
Waits(j)   == outbox[j] = "pending" /\ ~Pushed(j)
OnList(j)  == \E i \in 1..Len(queue) : queue[i].job = j
InTask(j)  == \E t \in Tasks : jobOf[t] = j
InSweep(j) == \E w \in Workers : sweep[w][j] # 0
Ticket(j)  == Waits(j) \/ OnList(j) \/ InTask(j) \/ InSweep(j)

OneTicket == \A j \in Jobs :
  /\ Waits(j) => ~OnList(j) /\ ~InTask(j) /\ ~InSweep(j)
  /\ OnList(j) => ~InTask(j) /\ ~InSweep(j)
  /\ InTask(j) => ~InSweep(j)
  /\ \A i, k \in 1..Len(queue) : queue[i].job = j /\ queue[k].job = j => i = k
  /\ \A t, u \in Tasks : jobOf[t] = j /\ jobOf[u] = j => t = u
  /\ \A v, w \in Workers : sweep[v][j] # 0 /\ sweep[w][j] # 0 => v = w

\* What a ticket that starts at n attempts knows of its job.
Fresh(j, n) == runs[j] <= n /\ (Exists(j) => attempts[j] = n /\ status[j] \in Active)

TicketBooks ==
  /\ \A j \in Jobs : Waits(j) => Fresh(j, 0)
  /\ \A i \in 1..Len(queue) : Fresh(queue[i].job, queue[i].start)
  /\ \A w \in Workers, j \in Jobs : sweep[w][j] # 0 => Fresh(j, sweep[w][j])

\* What a task knows of its job: the run that returned last is not yet on the row.
TaskKnows(t, j) ==
  /\ runs[j] <= count[t]
  /\ pc[t] = "exhausted" => count[t] = MaxAttempts
  /\ Exists(j) =>
       /\ (IF pc[t] \in {"ran", "retry"} THEN attempts[j] + 1 ELSE attempts[j]) = count[t]
       /\ pc[t] \in Held \ {"completed", "jobFailed"} => status[j] \in Active
       /\ pc[t] \in {"running", "retry", "ran", "exhausted", "completed"} => doc[j] = "processing"
       /\ pc[t] = "completed" => status[j] = "completed"
       /\ pc[t] = "jobFailed" => status[j] = "failed" /\ doc[j] \in {"uploaded", "processing"}

TaskBooks == \A t \in Tasks : (pc[t] = "free" <=> jobOf[t] = Nil) /\ (pc[t] # "free" => TaskKnows(t, jobOf[t]))

\* A job without a ticket: the attempt the sweeper would add covers a run nobody has written
\* down, and without disturbances there is none.
RestBooks == \A j \in Jobs : ~Ticket(j) /\ Exists(j) =>
  /\ runs[j] <= attempts[j] + 1
  /\ faults = 0 => <<status[j], doc[j]>> \in {<<"completed", "indexed">>, <<"failed", "failed">>}

\* Rows by themselves, a document before its upload, and processes that nothing disturbed.
RowBooks == \A j \in Jobs :
  /\ runs[j] \in 0..MaxAttempts
  /\ status[j] \in Active => doc[j] \in {"uploaded", "processing"}
  /\ doc[j] = "absent" => ~Ticket(j) /\ runs[j] = 0

Undisturbed == faults = 0 =>
  \A w \in Workers : worker[w] = "up" /\ sweepConn[w] = "ok"

Books == OneTicket /\ TicketBooks /\ TaskBooks /\ RestBooks /\ RowBooks /\ Undisturbed

\* What is known of the pipeline as such.
Known == TypeOK /\ NoRunAtCap /\ RowsTogether /\ LockInv

LEMMA TicketCovers ==
  ASSUME Known, Books, NEW j \in Jobs, Ticket(j), Exists(j)
  PROVE  runs[j] <= attempts[j] + 1
<1>1. runs[j] \in Nat /\ attempts[j] \in Nat
  BY DEF Books, RowBooks, Known, TypeOK
<1>2. CASE Waits(j)
  BY <1>1, <1>2 DEF Books, TicketBooks, Fresh
<1>3. CASE OnList(j)
  <2>1. PICK i \in 1..Len(queue) : queue[i].job = j
    BY <1>3 DEF OnList
  <2>2. Fresh(j, queue[i].start)
    BY <2>1 DEF Books, TicketBooks
  <2>. QED
    BY <1>1, <2>2 DEF Fresh
<1>4. CASE InSweep(j)
  <2>1. PICK w \in Workers : sweep[w][j] # 0
    BY <1>4 DEF InSweep
  <2>2. Fresh(j, sweep[w][j])
    BY <2>1 DEF Books, TicketBooks
  <2>. QED
    BY <1>1, <2>2 DEF Fresh
<1>5. CASE InTask(j)
  <2>1. PICK t \in Tasks : jobOf[t] = j
    BY <1>5 DEF InTask
  <2>2. j # Nil /\ count[t] \in Nat
    BY NilAssumption DEF Known, TypeOK
  <2>3. TaskKnows(t, j)
    BY <2>1, <2>2 DEF Books, TaskBooks
  <2>. QED
    BY <1>1, <2>2, <2>3 DEF TaskKnows
<1>. QED
  BY <1>2, <1>3, <1>4, <1>5 DEF Ticket

\* A step that takes tickets away, if any, and pays for it.
LEMMA FewerTickets ==
  ASSUME Known, Books, TypeOK', NEW d \in {0, 1},
         \A j \in Jobs : /\ doc'[j] = doc[j] /\ status'[j] = status[j]
                         /\ attempts'[j] = attempts[j] /\ runs'[j] = runs[j],
         \A j \in Jobs : Waits(j)' => Waits(j),
         \A i \in 1..Len(queue') : i + d \in 1..Len(queue) /\ queue'[i] = queue[i + d],
         \A t \in Tasks : \/ pc'[t] = pc[t] /\ jobOf'[t] = jobOf[t] /\ count'[t] = count[t]
                          \/ pc'[t] = "free" /\ jobOf'[t] = Nil,
         \A w \in Workers, j \in Jobs : sweep'[w][j] \in {sweep[w][j], 0},
         faults <= faults',
         faults' = 0 => \A j \in Jobs : Ticket(j) => Ticket(j)',
         Undisturbed'
  PROVE  Books'
<1>1. \A j \in Jobs : /\ Waits(j)' => Waits(j)
                      /\ OnList(j)' => OnList(j)
                      /\ InTask(j)' => InTask(j)
                      /\ InSweep(j)' => InSweep(j)
  <2>. SUFFICES ASSUME NEW j \in Jobs
                PROVE  /\ OnList(j)' => OnList(j)
                       /\ InTask(j)' => InTask(j)
                       /\ InSweep(j)' => InSweep(j)
    OBVIOUS
  <2>1. j # Nil
    BY NilAssumption
  <2>2. OnList(j)' => OnList(j)
    BY DEF OnList
  <2>3. InTask(j)' => InTask(j)
    BY <2>1 DEF InTask
  <2>4. InSweep(j)' => InSweep(j)
    BY DEF InSweep
  <2>. QED
    BY <2>2, <2>3, <2>4
<1>2. OneTicket'
  <2>. SUFFICES ASSUME NEW j \in Jobs
                PROVE  /\ Waits(j)' => ~OnList(j)' /\ ~InTask(j)' /\ ~InSweep(j)'
                       /\ OnList(j)' => ~InTask(j)' /\ ~InSweep(j)'
                       /\ InTask(j)' => ~InSweep(j)'
                       /\ \A i, k \in 1..Len(queue') : queue'[i].job = j /\ queue'[k].job = j => i = k
                       /\ \A t, u \in Tasks : jobOf'[t] = j /\ jobOf'[u] = j => t = u
                       /\ \A v, w \in Workers : sweep'[v][j] # 0 /\ sweep'[w][j] # 0 => v = w
    BY DEF OneTicket
  <2>1. /\ Waits(j)' => ~OnList(j)' /\ ~InTask(j)' /\ ~InSweep(j)'
        /\ OnList(j)' => ~InTask(j)' /\ ~InSweep(j)'
        /\ InTask(j)' => ~InSweep(j)'
    BY <1>1 DEF Books, OneTicket
  <2>2. ASSUME NEW i \in 1..Len(queue'), NEW k \in 1..Len(queue'), queue'[i].job = j, queue'[k].job = j
        PROVE  i = k
    <3>1. i + d \in 1..Len(queue) /\ k + d \in 1..Len(queue)
      OBVIOUS
    <3>2. queue[i + d].job = j /\ queue[k + d].job = j
      BY <2>2
    <3>3. i + d = k + d
      BY <3>1, <3>2 DEF Books, OneTicket
    <3>. QED
      BY <3>3 DEF Known, TypeOK
  <2>3. \A t, u \in Tasks : jobOf'[t] = j /\ jobOf'[u] = j => t = u
    BY NilAssumption DEF Books, OneTicket
  <2>4. \A v, w \in Workers : sweep'[v][j] # 0 /\ sweep'[w][j] # 0 => v = w
    BY DEF Books, OneTicket
  <2>. QED
    BY <2>1, <2>2, <2>3, <2>4
<1>3. \A j \in Jobs : (Exists(j)' <=> Exists(j)) /\ \A n : Fresh(j, n) => Fresh(j, n)'
  BY DEF Exists, Fresh
<1>4. TicketBooks'
  <2>1. \A j \in Jobs : Waits(j)' => Fresh(j, 0)'
    BY <1>3 DEF Books, TicketBooks
  <2>2. ASSUME NEW i \in 1..Len(queue') PROVE Fresh(queue[i + d].job, queue[i + d].start)
    BY DEF Books, TicketBooks
  <2>3. ASSUME NEW i \in 1..Len(queue') PROVE Fresh(queue'[i].job, queue'[i].start)
    <3>1. queue'[i] = queue[i + d]
      OBVIOUS
    <3>. QED
      BY <2>2, <3>1
  <2>4. ASSUME NEW i \in 1..Len(queue') PROVE queue'[i].job \in Jobs
    <3>1. queue'[i] \in Payload
      BY DEF TypeOK
    <3>. QED
      BY <3>1 DEF Payload
  <2>5. ASSUME NEW w \in Workers, NEW j \in Jobs, sweep'[w][j] # 0
        PROVE  Fresh(j, sweep[w][j])' /\ sweep'[w][j] = sweep[w][j]
    BY <1>3, <2>5 DEF Books, TicketBooks
  <2>. QED
    BY <1>3, <2>1, <2>3, <2>4, <2>5 DEF TicketBooks
<1>5. TaskBooks'
  <2>. SUFFICES ASSUME NEW t \in Tasks
                PROVE  /\ pc'[t] = "free" <=> jobOf'[t] = Nil
                       /\ pc'[t] # "free" => TaskKnows(t, jobOf[t])'
    BY DEF TaskBooks
  <2>1. pc[t] = "free" <=> jobOf[t] = Nil
    BY DEF Books, TaskBooks
  <2>2. CASE pc'[t] = "free" /\ jobOf'[t] = Nil
    BY <2>2
  <2>3. CASE pc'[t] = pc[t] /\ jobOf'[t] = jobOf[t] /\ count'[t] = count[t] /\ pc[t] # "free"
    <3>1. jobOf[t] \in Jobs
      BY <2>3 DEF Known, TypeOK
    <3>2. PICK j \in Jobs : j = jobOf[t]
      BY <3>1
    <3>3. TaskKnows(t, j)
      BY <2>3, <3>2 DEF Books, TaskBooks
    <3>4. /\ doc'[j] = doc[j] /\ status'[j] = status[j] /\ attempts'[j] = attempts[j] /\ runs'[j] = runs[j]
          /\ pc'[t] = pc[t] /\ count'[t] = count[t]
      BY <2>3
    <3>5. TaskKnows(t, j)'
      BY <3>3, <3>4 DEF TaskKnows, Exists
    <3>. QED
      BY <2>1, <2>3, <3>2, <3>5
  <2>. QED
    BY <2>1, <2>2, <2>3
<1>6. RestBooks'
  <2>. SUFFICES ASSUME NEW j \in Jobs, ~Ticket(j)', Exists(j)'
                PROVE  /\ runs'[j] <= attempts'[j] + 1
                       /\ faults' = 0 => <<status'[j], doc'[j]>> \in {<<"completed", "indexed">>, <<"failed", "failed">>}
    BY DEF RestBooks
  <2>1. Exists(j)
    BY <1>3
  <2>2. faults' = 0 => faults = 0
    BY DEF Known, TypeOK
  <2>3. CASE Ticket(j)
    BY <2>1, <2>3, TicketCovers
  <2>4. CASE ~Ticket(j)
    BY <2>1, <2>2, <2>4 DEF Books, RestBooks
  <2>. QED
    BY <2>3, <2>4
<1>7. RowBooks'
  <2>1. \A j \in Jobs : Ticket(j)' => Ticket(j)
    BY <1>1 DEF Ticket
  <2>. QED
    BY <2>1 DEF Books, RowBooks
<1>. QED
  BY <1>2, <1>4, <1>5, <1>6, <1>7 DEF Books

-------------------------------------------------------------------------------
\* Runs are counted when the call returns.
Returns(t) == pc[t] = "running" /\ pc'[t] \in {"ran", "retry"}

LEMMA NobodyReturns ==
  ASSUME Books, CountRuns, \A t \in Tasks : ~Returns(t)
  PROVE  \A j \in Jobs : runs'[j] = runs[j]
<1>. SUFFICES ASSUME NEW j \in Jobs PROVE runs'[j] = runs[j]
  OBVIOUS
<1>1. {t \in Tasks : jobOf[t] = j /\ pc[t] = "running" /\ pc'[t] \in {"ran", "retry"}} = {}
  BY DEF Returns
<1>2. runs'[j] = runs[j] + 0
  BY <1>1, FS_EmptySet DEF CountRuns
<1>. QED
  BY <1>2 DEF Books, RowBooks

LEMMA OneReturns ==
  ASSUME Books, CountRuns, NEW t \in Tasks, Returns(t), \A u \in Tasks \ {t} : pc'[u] = pc[u]
  PROVE  \A j \in Jobs : runs'[j] = IF j = jobOf[t] THEN runs[j] + 1 ELSE runs[j]
<1>. SUFFICES ASSUME NEW j \in Jobs PROVE runs'[j] = IF j = jobOf[t] THEN runs[j] + 1 ELSE runs[j]
  OBVIOUS
<1>. DEFINE S == {u \in Tasks : jobOf[u] = j /\ pc[u] = "running" /\ pc'[u] \in {"ran", "retry"}}
<1>1. S = IF j = jobOf[t] THEN {t} ELSE {}
  BY DEF Returns
<1>2. Cardinality({t}) = 1 /\ Cardinality({}) = 0
  BY FS_EmptySet, FS_Singleton
<1>3. runs'[j] = runs[j] + Cardinality(S)
  BY DEF CountRuns
<1>. HIDE DEF S
<1>4. CASE j = jobOf[t]
  BY <1>1, <1>2, <1>3, <1>4
<1>5. CASE j # jobOf[t]
  BY <1>1, <1>2, <1>3, <1>5 DEF Books, RowBooks
<1>. QED
  BY <1>4, <1>5

\* Steps that touch neither rows nor tickets, or take tickets away.
SameRows  == \A j \in Jobs : /\ doc'[j] = doc[j] /\ status'[j] = status[j]
                             /\ attempts'[j] = attempts[j] /\ runs'[j] = runs[j]
SameTasks == \A t \in Tasks : pc'[t] = pc[t] /\ jobOf'[t] = jobOf[t] /\ count'[t] = count[t]

\* The next state of the model, with the history and the lease.
TimelyNext == Next /\ CountRuns /\ Timely

LEMMA QuietRows ==
  ASSUME Books, CountRuns, UNCHANGED <<doc, status, attempts>>, \A t \in Tasks : ~Returns(t)
  PROVE  SameRows
BY NobodyReturns DEF SameRows

LEMMA Quiet ==
  ASSUME Known, Books, TypeOK', CountRuns, UNCHANGED <<doc, status, attempts, queue, sweep>>,
         UNCHANGED taskVars,
         \A j \in Jobs : Waits(j)' <=> Waits(j),
         faults <= faults', Undisturbed'
  PROVE  Books'
<1>1. SameRows
  BY QuietRows DEF Returns, taskVars
<1>2. \A j \in Jobs : Ticket(j) => Ticket(j)'
  BY DEF Ticket, OnList, InTask, InSweep, taskVars
<1>3. \A i \in 1..Len(queue') : i + 0 \in 1..Len(queue) /\ queue'[i] = queue[i + 0]
  OBVIOUS
<1>4. /\ \A t \in Tasks : pc'[t] = pc[t] /\ jobOf'[t] = jobOf[t] /\ count'[t] = count[t]
      /\ \A w \in Workers, j \in Jobs : sweep'[w][j] \in {sweep[w][j], 0}
  BY DEF taskVars
<1>. QED
  BY <1>1, <1>2, <1>3, <1>4, FewerTickets DEF SameRows

\* A pass that pushed is not rolled back.
LEMMA PassEnds ==
  ASSUME Known, Timely, NEW w \in Workers, relay' = [relay EXCEPT ![w] = Idle], outbox' = outbox
  PROVE  \A j \in Jobs : Waits(j)' <=> Waits(j)
<1>1. relay \in [Workers -> [rows : SUBSET Jobs, pushed : SUBSET Jobs]]
  BY DEF Known, TypeOK
<1>2. relay'[w] = Idle /\ Idle.pushed = {} /\ \A v \in Workers \ {w} : relay'[v] = relay[v]
  BY <1>1 DEF Idle
<1>3. relay[w].pushed = {}
  BY <1>2 DEF Timely
<1>. QED
  BY <1>2, <1>3 DEF Waits, Pushed

LEMMA FaultPaid ==
  ASSUME Known, Fault
  PROVE  faults <= faults' /\ faults' # 0 /\ Undisturbed'
BY DEF Known, TypeOK, Fault, Undisturbed

LEMMA NoFault ==
  ASSUME Known, Books, UNCHANGED <<faults, worker, sweepConn>>
  PROVE  faults <= faults' /\ Undisturbed'
BY DEF Known, TypeOK, Books, Undisturbed

LEMMA RelayKeepsBooks ==
  ASSUME Known, Books, TypeOK', CountRuns, Timely, NEW w \in Workers,
         RelayBegin(w) \/ RelayCommit(w) \/ RelayFail(w)
  PROVE  Books'
<1>1. CASE RelayBegin(w)
  <2>1. PICK S : relay' = [relay EXCEPT ![w].rows = S] /\ outbox' = outbox
    BY <1>1 DEF RelayBegin
  <2>2. \A v \in Workers : relay'[v].pushed = relay[v].pushed
    BY <2>1 DEF Known, TypeOK
  <2>3. \A j \in Jobs : Waits(j)' <=> Waits(j)
    BY <2>1, <2>2 DEF Waits, Pushed
  <2>. QED
    BY <1>1, <2>3, Quiet, NoFault DEF RelayBegin, rowVars, listVars
<1>2. CASE RelayCommit(w)
  <2>1. /\ outbox' = [j \in Jobs |-> IF j \in relay[w].pushed THEN "dispatched" ELSE outbox[j]]
        /\ relay' = [relay EXCEPT ![w] = Idle]
    BY <1>2 DEF RelayCommit
  <2>2. relay'[w].pushed = {} /\ \A v \in Workers \ {w} : relay'[v] = relay[v]
    BY <2>1 DEF Idle, Known, TypeOK
  <2>3. ASSUME NEW j \in Jobs PROVE Waits(j)' <=> Waits(j)
    <3>1. CASE j \in relay[w].pushed
      BY <2>1, <3>1 DEF Waits, Pushed
    <3>2. CASE j \notin relay[w].pushed
      BY <2>1, <2>2, <3>2 DEF Waits, Pushed
    <3>. QED
      BY <3>1, <3>2
  <2>. QED
    BY <1>2, <2>3, Quiet, NoFault DEF RelayCommit, rowVars, listVars
<1>3. CASE RelayFail(w)
  BY <1>3, PassEnds, Quiet, FaultPaid DEF RelayFail, rowVars, listVars
<1>. QED
  BY <1>1, <1>2, <1>3

LEMMA IdleKeepsBooks ==
  ASSUME Known, Books, TypeOK', CountRuns,
         \/ \E j \in Jobs : PurgeOutbox(j) \/ LeaseExpires(j)
         \/ \E w \in Workers : Shutdown(w) \/ Restart(w)
         \/ UNCHANGED vars
  PROVE  Books'
<1>1. ASSUME NEW j \in Jobs, PurgeOutbox(j) PROVE Books'
  <2>1. \A i \in Jobs : Waits(i)' <=> Waits(i)
    BY <1>1 DEF PurgeOutbox, Waits, Pushed, Known, TypeOK, processVars
  <2>. QED
    BY <1>1, <2>1, Quiet, NoFault DEF PurgeOutbox, rowVars, listVars, processVars
<1>2. ASSUME UNCHANGED <<outbox, relay>> PROVE \A i \in Jobs : Waits(i)' <=> Waits(i)
  BY <1>2 DEF Waits, Pushed
<1>3. ASSUME NEW j \in Jobs, LeaseExpires(j) PROVE Books'
  BY <1>2, <1>3, Quiet, NoFault DEF LeaseExpires, listVars, processVars
<1>4. ASSUME NEW w \in Workers, Shutdown(w) PROVE Books'
  BY <1>2, <1>4, Quiet, FaultPaid DEF Shutdown, rowVars, listVars
<1>5. ASSUME NEW w \in Workers, Restart(w) PROVE Books'
  <2>1. faults <= faults' /\ Undisturbed'
    <3>1. faults # 0
      BY <1>5 DEF Restart, Books, Undisturbed
    <3>2. CASE UNCHANGED faults
      BY <3>1, <3>2 DEF Undisturbed, Known, TypeOK
    <3>3. CASE Fault
      BY <3>3, FaultPaid
    <3>. QED
      BY <1>5, <3>2, <3>3 DEF Restart
  <2>. QED
    BY <1>2, <1>5, <2>1, Quiet DEF Restart, rowVars, listVars
<1>6. CASE UNCHANGED vars
  BY <1>2, <1>6, Quiet, NoFault DEF vars, rowVars, listVars, processVars
<1>. QED
  BY <1>1, <1>3, <1>4, <1>5, <1>6

\* What is lost: the reply of a pop, a push, a process with all it has in memory, a handler.
LEMMA LossKeepsBooks ==
  ASSUME Known, Books, TypeOK', CountRuns, Timely,
         \/ \E w \in Workers : SweepPushFails(w) \/ LosePop(w) \/ Exit(w) \/ Crash(w)
         \/ \E t \in Tasks : HandlerFails(t)
  PROVE  Books'
<1>0. \A i \in 1..Len(queue) : i + 0 = i
  OBVIOUS
<1>1. ASSUME UNCHANGED queue
      PROVE  \A i \in 1..Len(queue') : i + 0 \in 1..Len(queue) /\ queue'[i] = queue[i + 0]
  BY <1>1
<1>2. ASSUME queue # <<>>, queue' = Tail(queue)
      PROVE  \A i \in 1..Len(queue') : i + 1 \in 1..Len(queue) /\ queue'[i] = queue[i + 1]
  BY <1>2 DEF Known, TypeOK
<1>3. ASSUME UNCHANGED <<outbox, relay>> PROVE \A i \in Jobs : Waits(i)' <=> Waits(i)
  BY <1>3 DEF Waits, Pushed
<1>4. ASSUME NEW S, Free(S)
      PROVE  /\ \A t \in Tasks : ~Returns(t)
             /\ \A t \in Tasks : \/ pc'[t] = pc[t] /\ jobOf'[t] = jobOf[t] /\ count'[t] = count[t]
                                 \/ pc'[t] = "free" /\ jobOf'[t] = Nil
  BY <1>4 DEF Free, Returns
<1>5. ASSUME UNCHANGED taskVars
      PROVE  /\ \A t \in Tasks : ~Returns(t)
             /\ \A t \in Tasks : pc'[t] = pc[t] /\ jobOf'[t] = jobOf[t] /\ count'[t] = count[t]
  BY <1>5 DEF taskVars, Returns
<1>6. ASSUME NEW w \in Workers, Exit(w) \/ Crash(w) PROVE Books'
  <2>1. Stop(w) /\ Free(Holds(w))
    BY <1>6 DEF Exit, Crash, Stop
  <2>2. \A j \in Jobs : Waits(j)' <=> Waits(j)
    BY <2>1, PassEnds DEF Stop
  <2>3. SameRows
    BY <1>4, <2>1, QuietRows DEF Stop, rowVars
  <2>4. faults <= faults' /\ faults' # 0 /\ Undisturbed'
    <3>1. CASE Exit(w)
      BY <3>1 DEF Exit, Books, Undisturbed, Known, TypeOK
    <3>2. CASE Crash(w)
      BY <3>2, FaultPaid DEF Crash
    <3>. QED
      BY <1>6, <3>1, <3>2
  <2>5. \A v \in Workers, j \in Jobs : sweep'[v][j] \in {sweep[v][j], 0}
    BY <2>1 DEF Stop, NoPush, Known, TypeOK
  <2>6. UNCHANGED queue \/ (queue # <<>> /\ queue' = Tail(queue))
    BY <1>6 DEF Exit, Crash
  <2>7. CASE UNCHANGED queue
    BY <1>1, <1>4, <2>1, <2>2, <2>3, <2>4, <2>5, <2>7, FewerTickets DEF SameRows
  <2>8. CASE queue # <<>> /\ queue' = Tail(queue)
    BY <1>2, <1>4, <2>1, <2>2, <2>3, <2>4, <2>5, <2>8, FewerTickets DEF SameRows
  <2>. QED
    BY <2>6, <2>7, <2>8
<1>7. ASSUME NEW w \in Workers, LosePop(w) PROVE Books'
  <2>1. faults <= faults' /\ faults' # 0 /\ Undisturbed'
    BY <1>7 DEF LosePop, Books, Undisturbed, Known, TypeOK
  <2>2. SameRows
    BY <1>5, <1>7, QuietRows DEF LosePop, rowVars
  <2>3. \A v \in Workers, j \in Jobs : sweep'[v][j] \in {sweep[v][j], 0}
    BY <1>7 DEF LosePop
  <2>4. UNCHANGED <<outbox, relay, taskVars>> /\ queue # <<>> /\ queue' = Tail(queue)
    BY <1>7 DEF LosePop
  <2>. QED
    BY <1>2, <1>3, <1>5, <2>1, <2>2, <2>3, <2>4, FewerTickets DEF SameRows
<1>8. ASSUME NEW w \in Workers, SweepPushFails(w) PROVE Books'
  <2>1. faults <= faults' /\ faults' # 0 /\ Undisturbed'
    <3>1. CASE Fault
      BY <3>1, FaultPaid
    <3>2. CASE sweepConn[w] = "broken" /\ UNCHANGED <<sweepConn, faults>>
      BY <3>2 DEF Books, Undisturbed, Known, TypeOK
    <3>. QED
      BY <1>8, <3>1, <3>2 DEF SweepPushFails
  <2>2. SameRows
    BY <1>5, <1>8, QuietRows DEF SweepPushFails, rowVars
  <2>3. \A v \in Workers, j \in Jobs : sweep'[v][j] \in {sweep[v][j], 0}
    BY <1>8 DEF SweepPushFails, Known, TypeOK
  <2>4. UNCHANGED <<outbox, relay, taskVars, queue>>
    BY <1>8 DEF SweepPushFails, listVars
  <2>. QED
    BY <1>1, <1>3, <1>5, <2>1, <2>2, <2>3, <2>4, FewerTickets DEF SameRows
<1>9. ASSUME NEW t \in Tasks, HandlerFails(t) PROVE Books'
  <2>1. Free({t}) /\ Fault /\ UNCHANGED <<outbox, relay, queue, sweep, doc, status, attempts>>
    BY <1>9 DEF HandlerFails, rowVars, listVars, processVars
  <2>2. SameRows
    BY <1>4, <2>1, QuietRows
  <2>3. \A v \in Workers, j \in Jobs : sweep'[v][j] \in {sweep[v][j], 0}
    BY <2>1
  <2>. QED
    BY <1>1, <1>3, <1>4, <2>1, <2>2, <2>3, FaultPaid, FewerTickets DEF SameRows
<1>. QED
  BY <1>6, <1>7, <1>8, <1>9

-------------------------------------------------------------------------------
\* A task that is left alone, and whose job is.
LEMMA OneTaskKept ==
  ASSUME Known, Books, NEW t \in Tasks,
         pc'[t] = pc[t] /\ jobOf'[t] = jobOf[t] /\ count'[t] = count[t],
         \A j \in Jobs : j = jobOf[t] => /\ doc'[j] = doc[j] /\ status'[j] = status[j]
                                         /\ attempts'[j] = attempts[j] /\ runs'[j] = runs[j]
  PROVE  (pc'[t] = "free" <=> jobOf'[t] = Nil) /\ (pc'[t] # "free" => TaskKnows(t, jobOf[t])')
<1>1. pc[t] = "free" <=> jobOf[t] = Nil
  BY DEF Books, TaskBooks
<1>2. CASE pc[t] = "free"
  BY <1>1, <1>2
<1>3. CASE pc[t] # "free"
  <2>1. PICK j \in Jobs : j = jobOf[t]
    BY <1>3 DEF Known, TypeOK
  <2>2. TaskKnows(t, j)
    BY <1>3, <2>1 DEF Books, TaskBooks
  <2>3. TaskKnows(t, j)'
    BY <2>1, <2>2 DEF TaskKnows, Exists
  <2>. QED
    BY <1>1, <1>3, <2>1, <2>3
<1>. QED
  BY <1>2, <1>3

LEMMA TasksKept ==
  ASSUME Known, Books, SameRows, SameTasks
  PROVE  TaskBooks'
BY OneTaskKept DEF SameRows, SameTasks, TaskBooks

\* A ticket moves: from the outbox or a sweeper onto the list, ...
LEMMA PushKeepsBooks ==
  ASSUME Known, Books, TypeOK', SameRows, SameTasks, UNCHANGED faults, Undisturbed',
         NEW j \in Jobs, NEW n \in 0..MaxAttempts, Push(j, n), Fresh(j, n),
         doc[j] # "absent", ~OnList(j), ~InTask(j), ~Waits(j)', ~InSweep(j)',
         \A i \in Jobs \ {j} : /\ Waits(i)' <=> Waits(i)
                               /\ \A w \in Workers : sweep'[w][i] = sweep[w][i]
  PROVE  Books'
<1>. DEFINE m == Len(queue)
<1>1. /\ Len(queue') = m + 1 /\ m \in Nat
      /\ queue'[m + 1].job = j /\ queue'[m + 1].start = n
      /\ \A i \in 1..m : queue'[i] = queue[i]
  <2>1. queue \in Seq(Payload) /\ [job |-> j, start |-> n] \in Payload
    BY DEF Known, TypeOK, Payload
  <2>2. queue' = Append(queue, [job |-> j, start |-> n])
    BY DEF Push
  <2>. QED
    BY <2>1, <2>2
<1>. HIDE DEF m
<1>2. \A i \in Jobs \ {j} : (OnList(i)' <=> OnList(i)) /\ (InTask(i)' <=> InTask(i)) /\ (InSweep(i)' <=> InSweep(i))
  <2>. SUFFICES ASSUME NEW i \in Jobs \ {j}
                PROVE  (OnList(i)' <=> OnList(i)) /\ (InTask(i)' <=> InTask(i)) /\ (InSweep(i)' <=> InSweep(i))
    OBVIOUS
  <2>1. OnList(i)' <=> OnList(i)
    BY <1>1 DEF OnList, m
  <2>2. InTask(i)' <=> InTask(i)
    BY DEF InTask, SameTasks
  <2>3. InSweep(i)' <=> InSweep(i)
    BY DEF InSweep
  <2>. QED
    BY <2>1, <2>2, <2>3
<1>3. \A i \in 1..m : queue[i].job # j
  BY DEF OnList, m
<1>4. ~InTask(j)'
  BY DEF InTask, SameTasks
<1>5. OneTicket'
  <2>. SUFFICES ASSUME NEW o \in Jobs
                PROVE  /\ Waits(o)' => ~OnList(o)' /\ ~InTask(o)' /\ ~InSweep(o)'
                       /\ OnList(o)' => ~InTask(o)' /\ ~InSweep(o)'
                       /\ InTask(o)' => ~InSweep(o)'
                       /\ \A i, k \in 1..Len(queue') : queue'[i].job = o /\ queue'[k].job = o => i = k
                       /\ \A t, u \in Tasks : jobOf'[t] = o /\ jobOf'[u] = o => t = u
                       /\ \A v, w \in Workers : sweep'[v][o] # 0 /\ sweep'[w][o] # 0 => v = w
    BY DEF OneTicket
  <2>1. /\ Waits(o)' => ~OnList(o)' /\ ~InTask(o)' /\ ~InSweep(o)'
        /\ OnList(o)' => ~InTask(o)' /\ ~InSweep(o)'
        /\ InTask(o)' => ~InSweep(o)'
    BY <1>2, <1>4 DEF Books, OneTicket
  <2>2. ASSUME NEW i \in 1..Len(queue'), NEW k \in 1..Len(queue'), queue'[i].job = o, queue'[k].job = o
        PROVE  i = k
    <3>1. CASE o = j
      BY <1>1, <1>3, <2>2, <3>1
    <3>2. CASE o # j
      <4>1. i \in 1..m /\ k \in 1..m
        BY <1>1, <2>2, <3>2
      <4>2. queue[i].job = o /\ queue[k].job = o
        BY <1>1, <2>2, <4>1
      <4>. QED
        BY <4>1, <4>2 DEF Books, OneTicket, m
    <3>. QED
      BY <3>1, <3>2
  <2>3. \A t, u \in Tasks : jobOf'[t] = o /\ jobOf'[u] = o => t = u
    BY DEF Books, OneTicket, SameTasks
  <2>4. \A v, w \in Workers : sweep'[v][o] # 0 /\ sweep'[w][o] # 0 => v = w
    BY DEF Books, OneTicket, InSweep
  <2>. QED
    BY <2>1, <2>2, <2>3, <2>4
<1>6. \A i \in Jobs : (Exists(i)' <=> Exists(i)) /\ \A a : Fresh(i, a) => Fresh(i, a)'
  BY DEF Exists, Fresh, SameRows
<1>7. TicketBooks'
  <2>1. \A i \in Jobs : Waits(i)' => Fresh(i, 0)'
    BY <1>6 DEF Books, TicketBooks
  <2>2. ASSUME NEW i \in 1..Len(queue') PROVE Fresh(queue'[i].job, queue'[i].start)
    <3>1. CASE i = m + 1
      BY <1>1, <3>1
    <3>2. CASE i \in 1..m
      <4>1. queue'[i] = queue[i]
        BY <1>1, <3>2
      <4>2. Fresh(queue[i].job, queue[i].start)
        BY <3>2 DEF Books, TicketBooks, m
      <4>. QED
        BY <4>1, <4>2
    <3>. QED
      BY <1>1, <3>1, <3>2
  <2>3. ASSUME NEW i \in 1..Len(queue') PROVE queue'[i].job \in Jobs
    <3>1. queue'[i] \in Payload
      BY DEF TypeOK
    <3>. QED
      BY <3>1 DEF Payload
  <2>4. ASSUME NEW w \in Workers, NEW i \in Jobs, sweep'[w][i] # 0
        PROVE  Fresh(i, sweep[w][i])' /\ sweep'[w][i] = sweep[w][i]
    <3>1. i # j
      BY <2>4 DEF InSweep
    <3>. QED
      BY <1>6, <2>4, <3>1 DEF Books, TicketBooks
  <2>. QED
    BY <1>6, <2>1, <2>2, <2>3, <2>4 DEF TicketBooks
<1>8. TaskBooks'
  BY TasksKept
<1>9. RestBooks'
  <2>1. \A i \in Jobs : Ticket(i)' <=> (Ticket(i) \/ i = j)
    <3>1. OnList(j)'
      BY <1>1 DEF OnList
    <3>. QED
      BY <1>2, <3>1 DEF Ticket
  <2>. QED
    BY <1>6, <2>1 DEF RestBooks, Books, SameRows
<1>10. RowBooks'
  <2>1. \A i \in Jobs : Ticket(i)' => Ticket(i) \/ i = j
    BY <1>2 DEF Ticket
  <2>. QED
    BY <2>1 DEF RowBooks, Books, SameRows
<1>. QED
  BY <1>5, <1>7, <1>8, <1>9, <1>10 DEF Books

LEMMA PushesKeepBooks ==
  ASSUME Known, Books, TypeOK', CountRuns, NEW w \in Workers, RelayPush(w) \/ SweepPush(w)
  PROVE  Books'
<1>0. UNCHANGED <<doc, status, attempts, faults, worker, sweepConn, taskVars>>
  BY DEF RelayPush, SweepPush, rowVars
<1>1. SameRows /\ SameTasks /\ Undisturbed'
  BY <1>0, QuietRows, NoFault DEF Returns, SameTasks, taskVars
<1>2. CASE RelayPush(w)
  <2>1. PICK j \in Jobs : /\ j \in relay[w].rows /\ Push(j, 0) /\ sweep' = sweep /\ outbox' = outbox
                          /\ relay' = [relay EXCEPT ![w] = [rows |-> @.rows \ {j}, pushed |-> @.pushed \cup {j}]]
    BY <1>2 DEF RelayPush, IsOldest
  <2>2. Waits(j) /\ Exists(j)
    BY <2>1 DEF Known, LockInv, LocksExclusive, Taken, Waits, Pushed
  <2>3. /\ relay'[w].pushed = relay[w].pushed \cup {j}
        /\ \A v \in Workers \ {w} : relay'[v] = relay[v]
    BY <2>1 DEF Known, TypeOK
  <2>4. ~Waits(j)' /\ \A i \in Jobs \ {j} : Waits(i)' <=> Waits(i)
    BY <2>1, <2>3 DEF Waits, Pushed
  <2>5. ~OnList(j) /\ ~InTask(j) /\ ~InSweep(j) /\ Fresh(j, 0)
    BY <2>2 DEF Books, OneTicket, TicketBooks
  <2>6. ~InSweep(j)' /\ doc[j] # "absent"
    BY <2>1, <2>2, <2>5 DEF InSweep, Exists
  <2>. QED
    BY <1>0, <1>1, <2>1, <2>4, <2>5, <2>6, PushKeepsBooks
<1>3. CASE SweepPush(w)
  <2>1. PICK j \in Jobs : /\ sweep[w][j] # 0 /\ Push(j, sweep[w][j]) /\ UNCHANGED <<outbox, relay>>
                          /\ sweep' = [sweep EXCEPT ![w][j] = 0]
    BY <1>3 DEF SweepPush, IsOldest, ToPush
  <2>2. InSweep(j)
    BY <2>1 DEF InSweep
  <2>3. ~OnList(j) /\ ~InTask(j) /\ ~Waits(j) /\ Fresh(j, sweep[w][j])
    BY <2>1, <2>2 DEF Books, OneTicket, TicketBooks
  <2>4. \A i \in Jobs : Waits(i)' <=> Waits(i)
    BY <2>1 DEF Waits, Pushed
  <2>5. /\ sweep'[w][j] = 0 /\ sweep[w][j] \in 0..MaxAttempts
        /\ \A v \in Workers : \A i \in Jobs : v # w \/ i # j => sweep'[v][i] = sweep[v][i]
    BY <2>1 DEF Known, TypeOK
  <2>6. ~InSweep(j)'
    BY <2>1, <2>5 DEF InSweep, Books, OneTicket
  <2>7. doc[j] # "absent"
    BY <2>2 DEF Books, RowBooks, Ticket
  <2>. QED
    BY <1>0, <1>1, <2>1, <2>3, <2>4, <2>5, <2>6, <2>7, PushKeepsBooks
<1>. QED
  BY <1>2, <1>3

\* ... and from the list to a task.
LEMMA PopKeepsBooks ==
  ASSUME Known, Books, TypeOK', CountRuns, NEW w \in Workers, Pop(w)
  PROVE  Books'
<1>0. UNCHANGED <<doc, status, attempts, faults, worker, sweepConn, outbox, relay, sweep>>
  BY DEF Pop, rowVars, processVars
<1>1. PICK t \in Tasks : /\ pc[t] = "free" /\ pc' = [pc EXCEPT ![t] = "waiting"]
                         /\ jobOf' = [jobOf EXCEPT ![t] = Head(queue).job]
                         /\ count' = [count EXCEPT ![t] = Head(queue).start]
  BY DEF Pop
<1>2. queue \in Seq(Payload) /\ queue # <<>> /\ queue' = Tail(queue)
  BY DEF Pop, Known, TypeOK
<1>3. /\ 1 \in 1..Len(queue) /\ Head(queue) = queue[1]
      /\ \A i \in 1..Len(queue') : i + 1 \in 1..Len(queue) /\ queue'[i] = queue[i + 1]
      /\ \A i \in 1..Len(queue) : i = 1 \/ (i - 1 \in 1..Len(queue') /\ queue'[i - 1] = queue[i])
  BY <1>2
<1>4. PICK j \in Jobs, n \in 0..MaxAttempts : queue[1].job = j /\ queue[1].start = n
  <2>1. queue[1] \in Payload
    BY <1>2, <1>3
  <2>. QED
    BY <2>1 DEF Payload
<1>5. /\ pc'[t] = "waiting" /\ jobOf'[t] = j /\ count'[t] = n
      /\ \A u \in Tasks \ {t} : pc'[u] = pc[u] /\ jobOf'[u] = jobOf[u] /\ count'[u] = count[u]
  BY <1>1, <1>3, <1>4 DEF Known, TypeOK
<1>6. SameRows /\ Undisturbed'
  BY <1>0, <1>1, <1>5, QuietRows, NoFault DEF Returns
<1>7. OnList(j) /\ Fresh(j, n)
  BY <1>3, <1>4 DEF OnList, Books, TicketBooks
<1>8. ~Waits(j) /\ ~InTask(j) /\ ~InSweep(j)
  BY <1>4, <1>7 DEF Books, OneTicket
<1>9. ~OnList(j)'
  <2>1. \A i \in 1..Len(queue) : queue[i].job = j => i = 1
    BY <1>3, <1>4 DEF Books, OneTicket
  <2>2. ASSUME NEW i \in 1..Len(queue') PROVE queue'[i].job # j
    <3>1. i + 1 \in 1..Len(queue) /\ queue'[i] = queue[i + 1] /\ i + 1 # 1
      BY <1>3
    <3>. QED
      BY <2>1, <3>1
  <2>. QED
    BY <2>2 DEF OnList
<1>10. jobOf[t] = Nil /\ j # Nil
  BY <1>1, <1>4, NilAssumption DEF Books, TaskBooks
<1>11. \A i \in Jobs : /\ Waits(i)' <=> Waits(i)
                       /\ InSweep(i)' <=> InSweep(i)
                       /\ InTask(i)' <=> (InTask(i) \/ i = j)
                       /\ OnList(i)' <=> (OnList(i) /\ i # j)
  <2>. SUFFICES ASSUME NEW i \in Jobs
                PROVE  /\ Waits(i)' <=> Waits(i)
                       /\ InSweep(i)' <=> InSweep(i)
                       /\ InTask(i)' <=> (InTask(i) \/ i = j)
                       /\ OnList(i)' <=> (OnList(i) /\ i # j)
    OBVIOUS
  <2>1. Waits(i)' <=> Waits(i)
    BY <1>0 DEF Waits, Pushed
  <2>2. InSweep(i)' <=> InSweep(i)
    BY <1>0 DEF InSweep
  <2>3. InTask(i)' <=> (InTask(i) \/ i = j)
    BY <1>5, <1>10, NilAssumption DEF InTask
  <2>4. OnList(i)' => OnList(i)
    BY <1>3 DEF OnList
  <2>5. OnList(i) /\ i # j => OnList(i)'
    BY <1>3, <1>4 DEF OnList
  <2>. QED
    BY <1>9, <2>1, <2>2, <2>3, <2>4, <2>5
<1>12. OneTicket'
  <2>. SUFFICES ASSUME NEW o \in Jobs
                PROVE  /\ Waits(o)' => ~OnList(o)' /\ ~InTask(o)' /\ ~InSweep(o)'
                       /\ OnList(o)' => ~InTask(o)' /\ ~InSweep(o)'
                       /\ InTask(o)' => ~InSweep(o)'
                       /\ \A i, k \in 1..Len(queue') : queue'[i].job = o /\ queue'[k].job = o => i = k
                       /\ \A x, u \in Tasks : jobOf'[x] = o /\ jobOf'[u] = o => x = u
                       /\ \A v, x \in Workers : sweep'[v][o] # 0 /\ sweep'[x][o] # 0 => v = x
    BY DEF OneTicket
  <2>1. /\ Waits(o)' => ~OnList(o)' /\ ~InTask(o)' /\ ~InSweep(o)'
        /\ OnList(o)' => ~InTask(o)' /\ ~InSweep(o)'
        /\ InTask(o)' => ~InSweep(o)'
    BY <1>8, <1>11 DEF Books, OneTicket
  <2>2. ASSUME NEW i \in 1..Len(queue'), NEW k \in 1..Len(queue'), queue'[i].job = o, queue'[k].job = o
        PROVE  i = k
    <3>1. i + 1 \in 1..Len(queue) /\ k + 1 \in 1..Len(queue)
      BY <1>3
    <3>2. queue[i + 1].job = o /\ queue[k + 1].job = o
      BY <1>3, <2>2
    <3>3. i + 1 = k + 1
      BY <3>1, <3>2 DEF Books, OneTicket
    <3>. QED
      BY <3>3
  <2>3. ASSUME NEW x \in Tasks, NEW u \in Tasks, jobOf'[x] = o, jobOf'[u] = o PROVE x = u
    <3>1. CASE o = j
      BY <1>5, <1>8, <2>3, <3>1 DEF InTask
    <3>2. CASE o # j
      BY <1>5, <2>3, <3>2 DEF Books, OneTicket
    <3>. QED
      BY <3>1, <3>2
  <2>4. \A v, x \in Workers : sweep'[v][o] # 0 /\ sweep'[x][o] # 0 => v = x
    BY <1>0 DEF Books, OneTicket
  <2>. QED
    BY <2>1, <2>2, <2>3, <2>4
<1>13. \A i \in Jobs : (Exists(i)' <=> Exists(i)) /\ \A a : Fresh(i, a) => Fresh(i, a)'
  BY <1>6 DEF Exists, Fresh, SameRows
<1>14. TicketBooks'
  <2>1. \A i \in Jobs : Waits(i)' => Fresh(i, 0)'
    BY <1>11, <1>13 DEF Books, TicketBooks
  <2>2. ASSUME NEW i \in 1..Len(queue') PROVE Fresh(queue'[i].job, queue'[i].start)
    <3>1. queue'[i] = queue[i + 1]
      BY <1>3
    <3>2. Fresh(queue[i + 1].job, queue[i + 1].start)
      BY <1>3 DEF Books, TicketBooks
    <3>. QED
      BY <3>1, <3>2
  <2>3. ASSUME NEW i \in 1..Len(queue') PROVE queue'[i].job \in Jobs
    <3>1. queue'[i] \in Payload
      BY DEF TypeOK
    <3>. QED
      BY <3>1 DEF Payload
  <2>4. ASSUME NEW v \in Workers, NEW i \in Jobs, sweep'[v][i] # 0
        PROVE  Fresh(i, sweep[v][i])' /\ sweep'[v][i] = sweep[v][i]
    BY <1>0, <1>13, <2>4 DEF Books, TicketBooks
  <2>. QED
    BY <1>13, <2>1, <2>2, <2>3, <2>4 DEF TicketBooks
<1>15. TaskBooks'
  <2>1. TaskKnows(t, j)'
    <3>1. runs'[j] <= count'[t] /\ (Exists(j)' => attempts'[j] = n /\ status'[j] \in Active)
      BY <1>4, <1>5, <1>6, <1>7, <1>13 DEF Fresh, SameRows
    <3>. QED
      BY <1>5, <3>1 DEF TaskKnows
  <2>2. ASSUME NEW u \in Tasks \ {t}
        PROVE  (pc'[u] = "free" <=> jobOf'[u] = Nil) /\ (pc'[u] # "free" => TaskKnows(u, jobOf[u])')
    <3>1. pc'[u] = pc[u] /\ jobOf'[u] = jobOf[u] /\ count'[u] = count[u]
      BY <1>5
    <3>. QED
      BY <1>6, <3>1, OneTaskKept DEF SameRows
  <2>. QED
    BY <1>5, <1>10, <2>1, <2>2 DEF TaskBooks
<1>16. RestBooks' /\ RowBooks'
  <2>1. \A i \in Jobs : Ticket(i)' <=> Ticket(i)
    BY <1>7, <1>11 DEF Ticket
  <2>2. RestBooks'
    BY <1>0, <1>6, <1>13, <2>1 DEF Books, RestBooks, SameRows
  <2>3. RowBooks'
    BY <1>6, <2>1 DEF Books, RowBooks, SameRows
  <2>. QED
    BY <2>2, <2>3
<1>. QED
  BY <1>6, <1>12, <1>14, <1>15, <1>16 DEF Books

-------------------------------------------------------------------------------
\* The job of a busy task has no other ticket.
LEMMA TaskHasTicket ==
  ASSUME Known, Books, NEW t \in Tasks, pc[t] # "free"
  PROVE  \E j \in Jobs :
           /\ j = jobOf[t] /\ doc[j] # "absent" /\ runs[j] \in 0..MaxAttempts
           /\ InTask(j) /\ ~Waits(j) /\ ~OnList(j) /\ ~InSweep(j)
           /\ \A u \in Tasks \ {t} : jobOf[u] # j
           /\ TaskKnows(t, j)
<1>1. PICK j \in Jobs : j = jobOf[t]
  BY DEF Known, TypeOK
<1>2. InTask(j) /\ TaskKnows(t, j)
  BY <1>1 DEF InTask, Books, TaskBooks
<1>3. ~Waits(j) /\ ~OnList(j) /\ ~InSweep(j) /\ \A u \in Tasks \ {t} : jobOf[u] # j
  BY <1>1, <1>2 DEF Books, OneTicket
<1>4. doc[j] # "absent" /\ runs[j] \in 0..MaxAttempts
  BY <1>2 DEF Books, RowBooks, Ticket
<1>. QED
  BY <1>1, <1>2, <1>3, <1>4

\* What the two updates of a handler do to the rows.
LEMMA JobRow ==
  ASSUME TypeOK, NEW j \in Jobs, NEW s, NEW a, UpdateJobStatus(j, s, a)
  PROVE  /\ UNCHANGED doc
         /\ \A i \in Jobs \ {j} : status'[i] = status[i] /\ attempts'[i] = attempts[i]
         /\ Exists(j) => status'[j] = s /\ attempts'[j] = a
         /\ ~Exists(j) => status'[j] = status[j] /\ attempts'[j] = attempts[j]
BY DEF TypeOK, UpdateJobStatus, SetIf

LEMMA DocumentRow ==
  ASSUME TypeOK, NEW j \in Jobs, NEW s, UpdateDocumentStatus(j, s)
  PROVE  /\ UNCHANGED <<status, attempts>>
         /\ \A i \in Jobs \ {j} : doc'[i] = doc[i]
         /\ Exists(j) => doc'[j] = s
         /\ ~Exists(j) => doc'[j] = doc[j]
BY DEF TypeOK, UpdateDocumentStatus, SetIf

\* A handler goes on: the ticket of its job stays where it is.
LEMMA HandlerMoves ==
  ASSUME Known, Books, TypeOK', NEW t \in Tasks, NEW j \in Jobs, j = jobOf[t],
         pc[t] # "free", pc'[t] # "free", UNCHANGED jobOf,
         UNCHANGED <<outbox, queue, relay, sweep, worker, sweepConn, faults>>,
         \A u \in Tasks \ {t} : pc'[u] = pc[u] /\ count'[u] = count[u],
         \A i \in Jobs \ {j} : /\ doc'[i] = doc[i] /\ status'[i] = status[i]
                               /\ attempts'[i] = attempts[i] /\ runs'[i] = runs[i],
         doc'[j] # "absent", runs'[j] \in 0..MaxAttempts,
         status'[j] \in Active => doc'[j] \in {"uploaded", "processing"},
         TaskKnows(t, j)'
  PROVE  Books'
<1>1. /\ InTask(j) /\ ~Waits(j) /\ ~OnList(j) /\ ~InSweep(j)
      /\ \A u \in Tasks \ {t} : jobOf[u] # j
  BY TaskHasTicket
<1>2. \A i \in Jobs : /\ Waits(i)' <=> Waits(i)
                      /\ OnList(i)' <=> OnList(i)
                      /\ InTask(i)' <=> InTask(i)
                      /\ InSweep(i)' <=> InSweep(i)
  BY DEF Waits, Pushed, OnList, InTask, InSweep
<1>3. OneTicket'
  <2>1. OneTicket
    BY DEF Books
  <2>. QED
    BY <1>2, <2>1 DEF OneTicket
<1>4. \A i \in Jobs \ {j} : (Exists(i)' <=> Exists(i)) /\ \A n : Fresh(i, n) => Fresh(i, n)'
  BY DEF Exists, Fresh
<1>5. TicketBooks'
  <2>1. \A i \in Jobs : Waits(i)' => Fresh(i, 0)'
    BY <1>1, <1>2, <1>4 DEF Books, TicketBooks
  <2>2. ASSUME NEW i \in 1..Len(queue) PROVE Fresh(queue[i].job, queue[i].start)'
    <3>1. PICK o \in Jobs, n \in 0..MaxAttempts : queue[i].job = o /\ queue[i].start = n
      <4>1. queue[i] \in Payload
        BY DEF Known, TypeOK
      <4>. QED
        BY <4>1 DEF Payload
    <3>2. o # j
      BY <1>1, <3>1 DEF OnList
    <3>3. Fresh(queue[i].job, queue[i].start)
      BY DEF Books, TicketBooks
    <3>4. Fresh(o, n)'
      BY <1>4, <3>1, <3>2, <3>3
    <3>. QED
      BY <3>1, <3>4
  <2>3. ASSUME NEW w \in Workers, NEW i \in Jobs, sweep'[w][i] # 0
        PROVE  Fresh(i, sweep[w][i])'
    <3>1. sweep[w][i] # 0 /\ i # j
      BY <1>1, <2>3 DEF InSweep
    <3>2. Fresh(i, sweep[w][i])
      BY <3>1 DEF Books, TicketBooks
    <3>3. PICK n : n = sweep[w][i]
      OBVIOUS
    <3>4. Fresh(i, n)'
      BY <1>4, <3>1, <3>2, <3>3
    <3>. QED
      BY <3>3, <3>4
  <2>. QED
    BY <2>1, <2>2, <2>3 DEF TicketBooks
<1>6. TaskBooks'
  <2>1. ASSUME NEW u \in Tasks \ {t}
        PROVE  (pc'[u] = "free" <=> jobOf'[u] = Nil) /\ (pc'[u] # "free" => TaskKnows(u, jobOf[u])')
    <3>1. jobOf[u] # j
      BY <1>1
    <3>. QED
      BY <3>1, OneTaskKept
  <2>2. jobOf'[t] = j /\ j # Nil
    BY NilAssumption
  <2>. QED
    BY <2>1, <2>2 DEF TaskBooks
<1>7. RestBooks'
  <2>. SUFFICES ASSUME NEW i \in Jobs, ~Ticket(i)', Exists(i)'
                PROVE  /\ runs'[i] <= attempts'[i] + 1
                       /\ faults' = 0 => <<status'[i], doc'[i]>> \in {<<"completed", "indexed">>, <<"failed", "failed">>}
    BY DEF RestBooks
  <2>1. ~Ticket(i) /\ i # j
    BY <1>1, <1>2 DEF Ticket
  <2>. QED
    BY <1>4, <2>1 DEF Books, RestBooks
<1>8. RowBooks'
  <2>. SUFFICES ASSUME NEW i \in Jobs
                PROVE  /\ runs'[i] \in 0..MaxAttempts
                       /\ status'[i] \in Active => doc'[i] \in {"uploaded", "processing"}
                       /\ doc'[i] = "absent" => ~Ticket(i)' /\ runs'[i] = 0
    BY DEF RowBooks, Active
  <2>1. CASE i = j
    BY <2>1
  <2>2. CASE i # j
    BY <1>2, <2>2 DEF Books, RowBooks, Ticket
  <2>. QED
    BY <2>1, <2>2
<1>9. Undisturbed'
  BY NoFault
<1>. QED
  BY <1>3, <1>5, <1>6, <1>7, <1>8, <1>9 DEF Books

\* A move of task t to pc p with count c, which leaves the ticket where it is.
MovesTo(t, p, c) ==
  /\ pc'[t] = p /\ count'[t] = c
  /\ \A u \in Tasks \ {t} : pc'[u] = pc[u] /\ count'[u] = count[u]
  /\ UNCHANGED <<jobOf, outbox, queue, relay, sweep, worker, sweepConn, faults>>

LEMMA AdvanceMoves ==
  ASSUME TypeOK, NEW t \in Tasks, NEW from, NEW to, Advance(t, from, to), UNCHANGED count, RowsOnly
  PROVE  pc[t] = from /\ MovesTo(t, to, count[t])
BY DEF TypeOK, Advance, RowsOnly, MovesTo, listVars, processVars

LEMMA RunMoves ==
  ASSUME TypeOK, NEW t \in Tasks, NEW to, Advance(t, "running", to),
         count' = [count EXCEPT ![t] = @ + 1], RowsOnly
  PROVE  pc[t] = "running" /\ MovesTo(t, to, count[t] + 1)
BY DEF TypeOK, Advance, RowsOnly, MovesTo, listVars, processVars

\* The status of a row that the document has left.
LEMMA GoneRow ==
  ASSUME Known, NEW j \in Jobs, ~Exists(j)
  PROVE  status[j] = "absent"
BY DEF Known, RowsTogether

LEMMA WaitingKeepsBooks ==
  ASSUME Known, Books, TypeOK', CountRuns, NEW t \in Tasks, RefuseExhausted(t) \/ ClaimJob(t)
  PROVE  Books'
<1>. DEFINE to == IF RefuseExhausted(t) THEN "jobFailed" ELSE "claimed"
            s == IF RefuseExhausted(t) THEN "failed" ELSE "processing"
<1>1. pc[t] = "waiting" /\ MovesTo(t, to, count[t]) /\ UpdateJobStatus(jobOf[t], s, count[t])
  BY AdvanceMoves DEF RefuseExhausted, ClaimJob, Known
<1>. HIDE DEF to, s
<1>2. PICK j \in Jobs : /\ j = jobOf[t] /\ doc[j] # "absent" /\ runs[j] \in 0..MaxAttempts
                        /\ TaskKnows(t, j)
  BY <1>1, TaskHasTicket
<1>3. /\ UNCHANGED doc
      /\ \A i \in Jobs \ {j} : status'[i] = status[i] /\ attempts'[i] = attempts[i]
      /\ Exists(j) => status'[j] = s /\ attempts'[j] = count[t]
      /\ ~Exists(j) => status'[j] = status[j] /\ attempts'[j] = attempts[j]
  BY <1>1, <1>2, JobRow DEF Known
<1>4. \A i \in Jobs : runs'[i] = runs[i]
  BY <1>1, NobodyReturns DEF Returns, MovesTo
<1>5. Exists(j) => doc[j] \in {"uploaded", "processing"}
  BY <1>1, <1>2 DEF TaskKnows, Held, Books, RowBooks
<1>6. TaskKnows(t, j)'
  BY <1>1, <1>2, <1>3, <1>4, <1>5 DEF TaskKnows, MovesTo, Exists, Active, to, s, Held
<1>7. status'[j] \in Active => doc'[j] \in {"uploaded", "processing"}
  BY <1>2, <1>3, <1>5, GoneRow DEF Active
<1>8. pc[t] # "free" /\ pc'[t] # "free"
  BY <1>1 DEF MovesTo, to
<1>. QED
  BY <1>1, <1>2, <1>3, <1>4, <1>6, <1>7, <1>8, HandlerMoves DEF MovesTo

LEMMA MarkProcessingKeepsBooks ==
  ASSUME Known, Books, TypeOK', CountRuns, NEW t \in Tasks, MarkProcessing(t)
  PROVE  Books'
<1>1. pc[t] = "claimed" /\ MovesTo(t, "running", count[t]) /\ UpdateDocumentStatus(jobOf[t], "processing")
  BY AdvanceMoves DEF MarkProcessing, Known
<1>2. PICK j \in Jobs : /\ j = jobOf[t] /\ doc[j] # "absent" /\ runs[j] \in 0..MaxAttempts
                        /\ TaskKnows(t, j)
  BY <1>1, TaskHasTicket
<1>3. /\ UNCHANGED <<status, attempts>>
      /\ \A i \in Jobs \ {j} : doc'[i] = doc[i]
      /\ Exists(j) => doc'[j] = "processing"
      /\ ~Exists(j) => doc'[j] = doc[j]
  BY <1>1, <1>2, DocumentRow DEF Known
<1>4. \A i \in Jobs : runs'[i] = runs[i]
  BY <1>1, NobodyReturns DEF Returns, MovesTo
<1>5. TaskKnows(t, j)'
  BY <1>1, <1>2, <1>3, <1>4 DEF TaskKnows, MovesTo, Exists, Active, Held
<1>6. status'[j] \in Active => doc'[j] \in {"uploaded", "processing"}
  BY <1>2, <1>3, GoneRow DEF Active
<1>7. doc'[j] # "absent"
  BY <1>2, <1>3
<1>. QED
  BY <1>1, <1>2, <1>3, <1>4, <1>5, <1>6, <1>7, HandlerMoves DEF MovesTo

LEMMA RunKeepsBooks ==
  ASSUME Known, Books, TypeOK', CountRuns, NEW t \in Tasks, RunSucceeds(t) \/ RunFails(t)
  PROVE  Books'
<1>. DEFINE to == IF RunSucceeds(t) THEN "ran" ELSE "retry"
<1>1. /\ pc[t] = "running" /\ MovesTo(t, to, count[t] + 1)
      /\ UNCHANGED <<doc, status, attempts>> /\ to \in {"ran", "retry"}
  BY RunMoves DEF RunSucceeds, RunFails, Known, rowVars
<1>. HIDE DEF to
<1>2. PICK j \in Jobs : /\ j = jobOf[t] /\ doc[j] # "absent" /\ runs[j] \in 0..MaxAttempts
                        /\ TaskKnows(t, j)
  BY <1>1, TaskHasTicket
<1>3. \A i \in Jobs : runs'[i] = IF i = j THEN runs[i] + 1 ELSE runs[i]
  BY <1>1, <1>2, OneReturns DEF Returns, MovesTo
<1>4. count[t] \in 0..MaxAttempts /\ count[t] < MaxAttempts /\ runs[j] <= count[t]
  BY <1>1, <1>2 DEF Known, TypeOK, NoRunAtCap, TaskKnows
<1>5. runs'[j] \in 0..MaxAttempts
  BY <1>2, <1>3, <1>4
<1>6. runs'[j] <= count[t] + 1
  BY <1>2, <1>3, <1>4
<1>7. TaskKnows(t, j)'
  BY <1>1, <1>2, <1>6 DEF TaskKnows, MovesTo, Exists, Active, Held
<1>8. status'[j] \in Active => doc'[j] \in {"uploaded", "processing"}
  BY <1>1 DEF Active, Books, RowBooks
<1>. QED
  BY <1>1, <1>2, <1>3, <1>5, <1>7, <1>8, HandlerMoves DEF MovesTo

LEMMA AfterRunKeepsBooks ==
  ASSUME Known, Books, TypeOK', CountRuns, NEW t \in Tasks,
         MarkCompleted(t) \/ RecordFailure(t) \/ GiveUp(t)
  PROVE  Books'
<1>1. \E from \in {"ran", "retry", "exhausted"}, to \in {"completed", "running", "exhausted", "jobFailed"},
         s \in {"completed", "processing", "failed"}, a \in 0..MaxAttempts :
        /\ pc[t] = from /\ MovesTo(t, to, count[t]) /\ UpdateJobStatus(jobOf[t], s, a)
        /\ \/ from = "ran" /\ to = "completed" /\ s = "completed" /\ a = count[t]
           \/ from = "retry" /\ to = "running" /\ s = "processing" /\ a = count[t]
           \/ from = "retry" /\ to = "exhausted" /\ s = "processing" /\ a = count[t] /\ count[t] = MaxAttempts
           \/ from = "exhausted" /\ to = "jobFailed" /\ s = "failed" /\ a = MaxAttempts
  <2>1. count[t] \in 0..MaxAttempts /\ MaxAttempts \in 0..MaxAttempts
    BY AttemptAssumption DEF Known, TypeOK
  <2>2. CASE MarkCompleted(t)
    BY <2>1, <2>2, AdvanceMoves DEF MarkCompleted, Known
  <2>3. CASE RecordFailure(t)
    BY <2>1, <2>3, AdvanceMoves DEF RecordFailure, Known
  <2>4. CASE GiveUp(t)
    BY <2>1, <2>4, AdvanceMoves DEF GiveUp, Known
  <2>. QED
    BY <2>2, <2>3, <2>4
<1>2. PICK from \in {"ran", "retry", "exhausted"}, to \in {"completed", "running", "exhausted", "jobFailed"},
           s \in {"completed", "processing", "failed"}, a \in 0..MaxAttempts :
        /\ pc[t] = from /\ MovesTo(t, to, count[t]) /\ UpdateJobStatus(jobOf[t], s, a)
        /\ \/ from = "ran" /\ to = "completed" /\ s = "completed" /\ a = count[t]
           \/ from = "retry" /\ to = "running" /\ s = "processing" /\ a = count[t]
           \/ from = "retry" /\ to = "exhausted" /\ s = "processing" /\ a = count[t] /\ count[t] = MaxAttempts
           \/ from = "exhausted" /\ to = "jobFailed" /\ s = "failed" /\ a = MaxAttempts
  BY <1>1
<1>3. PICK j \in Jobs : /\ j = jobOf[t] /\ doc[j] # "absent" /\ runs[j] \in 0..MaxAttempts
                        /\ TaskKnows(t, j)
  BY <1>2, TaskHasTicket
<1>4. /\ UNCHANGED doc
      /\ \A i \in Jobs \ {j} : status'[i] = status[i] /\ attempts'[i] = attempts[i]
      /\ Exists(j) => status'[j] = s /\ attempts'[j] = a
      /\ ~Exists(j) => status'[j] = status[j] /\ attempts'[j] = attempts[j]
  BY <1>2, <1>3, JobRow DEF Known
<1>5. \A i \in Jobs : runs'[i] = runs[i]
  BY <1>2, NobodyReturns DEF Returns, MovesTo
<1>6. Exists(j) => doc[j] = "processing"
  BY <1>2, <1>3 DEF TaskKnows
<1>7. a = count[t]
  BY <1>2, <1>3 DEF TaskKnows
<1>8. pc'[t] = to /\ count'[t] = count[t] /\ (Exists(j)' <=> Exists(j))
  BY <1>2, <1>4 DEF MovesTo, Exists
<1>9. TaskKnows(t, j)'
  <2>1. runs'[j] <= count'[t] /\ (to = "exhausted" => count'[t] = MaxAttempts)
    BY <1>2, <1>3, <1>5, <1>8 DEF TaskKnows
  <2>2. Exists(j) => attempts'[j] = count[t] /\ status'[j] = s /\ doc'[j] = "processing"
    BY <1>4, <1>6, <1>7
  <2>. QED
    BY <1>2, <1>8, <2>1, <2>2 DEF TaskKnows, Active, Held
<1>10. status'[j] \in Active => doc'[j] \in {"uploaded", "processing"}
  BY <1>4, <1>6, GoneRow DEF Active
<1>11. pc[t] # "free" /\ pc'[t] # "free"
  BY <1>2, <1>8
<1>. QED
  BY <1>2, <1>3, <1>4, <1>5, <1>9, <1>10, <1>11, HandlerMoves DEF MovesTo

\* A handler that ends after the second of its two updates leaves rows that agree.
LEMMA FinishKeepsBooks ==
  ASSUME Known, Books, TypeOK', CountRuns, NEW t \in Tasks, MarkIndexed(t) \/ MarkDocumentFailed(t)
  PROVE  Books'
<1>. DEFINE from == IF MarkIndexed(t) THEN "completed" ELSE "jobFailed"
            s == IF MarkIndexed(t) THEN "indexed" ELSE "failed"
<1>1. /\ pc[t] = from /\ Free({t}) /\ UpdateDocumentStatus(jobOf[t], s)
      /\ UNCHANGED <<outbox, queue, relay, sweep, worker, sweepConn, faults>>
      /\ <<from, s>> \in {<<"completed", "indexed">>, <<"jobFailed", "failed">>}
  BY DEF MarkIndexed, MarkDocumentFailed, Finish, RowsOnly, listVars, processVars
<1>. HIDE DEF from, s
<1>2. pc[t] # "free"
  BY <1>1
<1>3. PICK j \in Jobs : /\ j = jobOf[t] /\ doc[j] # "absent" /\ runs[j] \in 0..MaxAttempts
                        /\ InTask(j) /\ ~Waits(j) /\ ~OnList(j) /\ ~InSweep(j)
                        /\ \A u \in Tasks \ {t} : jobOf[u] # j
                        /\ TaskKnows(t, j)
  BY <1>2, TaskHasTicket
<1>4. /\ UNCHANGED <<status, attempts>>
      /\ \A i \in Jobs \ {j} : doc'[i] = doc[i]
      /\ Exists(j) => doc'[j] = s
      /\ ~Exists(j) => doc'[j] = doc[j]
  BY <1>1, <1>3, DocumentRow DEF Known
<1>5. /\ pc'[t] = "free" /\ jobOf'[t] = Nil
      /\ \A u \in Tasks \ {t} : pc'[u] = pc[u] /\ jobOf'[u] = jobOf[u] /\ count'[u] = count[u]
  BY <1>1 DEF Free
<1>6. \A i \in Jobs : runs'[i] = runs[i]
  BY <1>1, <1>5, NobodyReturns DEF Returns
<1>7. \A i \in Jobs : /\ Waits(i)' <=> Waits(i)
                      /\ OnList(i)' <=> OnList(i)
                      /\ InTask(i)' <=> (InTask(i) /\ i # j)
                      /\ InSweep(i)' <=> InSweep(i)
  <2>. SUFFICES ASSUME NEW i \in Jobs
                PROVE  /\ Waits(i)' <=> Waits(i)
                       /\ OnList(i)' <=> OnList(i)
                       /\ InTask(i)' <=> (InTask(i) /\ i # j)
                       /\ InSweep(i)' <=> InSweep(i)
    OBVIOUS
  <2>1. InTask(i)' <=> (InTask(i) /\ i # j)
    BY <1>3, <1>5, NilAssumption DEF InTask
  <2>2. (Waits(i)' <=> Waits(i)) /\ (OnList(i)' <=> OnList(i)) /\ (InSweep(i)' <=> InSweep(i))
    BY <1>1 DEF Waits, Pushed, OnList, InSweep
  <2>. QED
    BY <2>1, <2>2
<1>8. OneTicket'
  <2>. SUFFICES ASSUME NEW i \in Jobs
                PROVE  /\ Waits(i)' => ~OnList(i)' /\ ~InTask(i)' /\ ~InSweep(i)'
                       /\ OnList(i)' => ~InTask(i)' /\ ~InSweep(i)'
                       /\ InTask(i)' => ~InSweep(i)'
                       /\ \A k, l \in 1..Len(queue') : queue'[k].job = i /\ queue'[l].job = i => k = l
                       /\ \A x, u \in Tasks : jobOf'[x] = i /\ jobOf'[u] = i => x = u
                       /\ \A v, w \in Workers : sweep'[v][i] # 0 /\ sweep'[w][i] # 0 => v = w
    BY DEF OneTicket
  <2>1. /\ Waits(i)' => ~OnList(i)' /\ ~InTask(i)' /\ ~InSweep(i)'
        /\ OnList(i)' => ~InTask(i)' /\ ~InSweep(i)'
        /\ InTask(i)' => ~InSweep(i)'
    BY <1>7 DEF Books, OneTicket
  <2>2. /\ \A k, l \in 1..Len(queue') : queue'[k].job = i /\ queue'[l].job = i => k = l
        /\ \A v, w \in Workers : sweep'[v][i] # 0 /\ sweep'[w][i] # 0 => v = w
    BY <1>1 DEF Books, OneTicket
  <2>3. \A x, u \in Tasks : jobOf'[x] = i /\ jobOf'[u] = i => x = u
    BY <1>5, NilAssumption DEF Books, OneTicket
  <2>. QED
    BY <2>1, <2>2, <2>3
<1>9. \A i \in Jobs \ {j} : (Exists(i)' <=> Exists(i)) /\ \A n : Fresh(i, n) => Fresh(i, n)'
  BY <1>4, <1>6 DEF Exists, Fresh
<1>10. TicketBooks'
  <2>1. \A i \in Jobs : Waits(i)' => Fresh(i, 0)'
    BY <1>3, <1>7, <1>9 DEF Books, TicketBooks
  <2>2. ASSUME NEW i \in 1..Len(queue) PROVE Fresh(queue[i].job, queue[i].start)'
    <3>1. PICK o \in Jobs, n \in 0..MaxAttempts : queue[i].job = o /\ queue[i].start = n
      <4>1. queue[i] \in Payload
        BY DEF Known, TypeOK
      <4>. QED
        BY <4>1 DEF Payload
    <3>2. o # j
      BY <1>3, <3>1 DEF OnList
    <3>3. Fresh(queue[i].job, queue[i].start)
      BY DEF Books, TicketBooks
    <3>4. Fresh(o, n)'
      BY <1>9, <3>1, <3>2, <3>3
    <3>. QED
      BY <1>1, <3>1, <3>4
  <2>3. ASSUME NEW w \in Workers, NEW i \in Jobs, sweep'[w][i] # 0
        PROVE  Fresh(i, sweep[w][i])'
    <3>1. sweep[w][i] # 0 /\ i # j
      BY <1>1, <1>3, <2>3 DEF InSweep
    <3>2. Fresh(i, sweep[w][i])
      BY <3>1 DEF Books, TicketBooks
    <3>3. PICK n : n = sweep[w][i]
      OBVIOUS
    <3>4. Fresh(i, n)'
      BY <1>9, <3>1, <3>2, <3>3
    <3>. QED
      BY <1>1, <3>3, <3>4
  <2>. QED
    BY <1>1, <2>1, <2>2, <2>3 DEF TicketBooks
<1>11. TaskBooks'
  <2>1. ASSUME NEW u \in Tasks \ {t}
        PROVE  (pc'[u] = "free" <=> jobOf'[u] = Nil) /\ (pc'[u] # "free" => TaskKnows(u, jobOf[u])')
    BY <1>3, <1>4, <1>5, <1>6, OneTaskKept
  <2>. QED
    BY <1>5, <2>1 DEF TaskBooks
<1>12. RestBooks'
  <2>. SUFFICES ASSUME NEW i \in Jobs, ~Ticket(i)', Exists(i)'
                PROVE  /\ runs'[i] <= attempts'[i] + 1
                       /\ faults' = 0 => <<status'[i], doc'[i]>> \in {<<"completed", "indexed">>, <<"failed", "failed">>}
    BY DEF RestBooks
  <2>1. CASE i = j
    <3>1. Exists(j)
      BY <1>4, <2>1 DEF Exists
    <3>2. runs[j] <= count[t] /\ attempts[j] = count[t]
      BY <1>1, <1>3, <3>1 DEF TaskKnows
    <3>3. count[t] \in Nat /\ runs[j] \in Nat
      BY <1>3 DEF Known, TypeOK
    <3>4. <<status[j], s>> \in {<<"completed", "indexed">>, <<"failed", "failed">>}
      BY <1>1, <1>3, <3>1 DEF TaskKnows
    <3>5. runs[j] <= attempts[j] + 1
      BY <3>2, <3>3
    <3>. QED
      BY <1>4, <1>6, <2>1, <3>1, <3>4, <3>5
  <2>2. CASE i # j
    BY <1>1, <1>4, <1>6, <1>7, <1>9, <2>2 DEF Books, RestBooks, Ticket
  <2>. QED
    BY <2>1, <2>2
<1>13. RowBooks'
  <2>. SUFFICES ASSUME NEW i \in Jobs
                PROVE  /\ runs'[i] \in 0..MaxAttempts
                       /\ status'[i] \in Active => doc'[i] \in {"uploaded", "processing"}
                       /\ doc'[i] = "absent" => ~Ticket(i)' /\ runs'[i] = 0
    BY DEF RowBooks, Active
  <2>1. CASE i = j
    <3>1. doc'[j] # "absent" /\ runs'[j] \in 0..MaxAttempts
      BY <1>1, <1>3, <1>4, <1>6
    <3>2. status[j] \notin Active
      BY <1>1, <1>3, GoneRow DEF TaskKnows, Active
    <3>. QED
      BY <1>4, <2>1, <3>1, <3>2
  <2>2. CASE i # j
    BY <1>4, <1>6, <1>7, <2>2 DEF Books, RowBooks, Ticket
  <2>. QED
    BY <2>1, <2>2
<1>14. Undisturbed'
  BY <1>1, NoFault
<1>. QED
  BY <1>8, <1>10, <1>11, <1>12, <1>13, <1>14 DEF Books

-------------------------------------------------------------------------------
\* A transaction of the API or of the sweeper, job by job: nothing happens to the job, its
\* document is deleted under whatever ticket it has, it gets a ticket, or it is given up.
LeftAlone(i) == /\ doc'[i] = doc[i] /\ status'[i] = status[i] /\ attempts'[i] = attempts[i]
                /\ Waits(i)' <=> Waits(i)
                /\ \A w \in Workers : sweep'[w][i] = sweep[w][i]

Removed(i) == /\ doc'[i] = "deleted" /\ status'[i] = "absent" /\ ~Waits(i)'
              /\ \A w \in Workers : sweep'[w][i] = sweep[w][i]

Issued(i) == /\ ~Ticket(i) /\ doc'[i] \in {"uploaded", "processing"}
             /\ \/ Waits(i)' /\ ~InSweep(i)' /\ Fresh(i, 0)'
                \/ /\ ~Waits(i)'
                   /\ \E w \in Workers : /\ sweep'[w][i] # 0 /\ Fresh(i, sweep[w][i])'
                                         /\ \A v \in Workers \ {w} : sweep'[v][i] = 0

GivenUp(i) == /\ ~Ticket(i) /\ ~Waits(i)' /\ ~InSweep(i)'
              /\ doc'[i] = "failed" /\ status'[i] = "failed"
              /\ runs'[i] <= attempts'[i] + 1

LEMMA TransactionKeepsBooks ==
  ASSUME Known, Books, TypeOK', CountRuns, UNCHANGED <<taskVars, queue, worker, sweepConn, faults>>,
         \A i \in Jobs : LeftAlone(i) \/ Removed(i) \/ Issued(i) \/ GivenUp(i)
  PROVE  Books'
<1>1. /\ SameTasks /\ Undisturbed' /\ UNCHANGED <<queue, faults>>
      /\ \A i \in Jobs : runs'[i] = runs[i]
  BY NoFault, NobodyReturns DEF Returns, SameTasks, taskVars
<1>2. \A i \in Jobs : (OnList(i)' <=> OnList(i)) /\ (InTask(i)' <=> InTask(i))
  BY <1>1 DEF OnList, InTask, SameTasks
<1>3. \A i \in Jobs : LeftAlone(i) => /\ Ticket(i)' <=> Ticket(i)
                                      /\ Exists(i)' <=> Exists(i)
                                      /\ \A n : Fresh(i, n) => Fresh(i, n)'
  BY <1>1, <1>2 DEF LeftAlone, Ticket, InSweep, Exists, Fresh
<1>4. \A i \in Jobs : Removed(i) => ~Exists(i)' /\ \A n : Fresh(i, n) => Fresh(i, n)'
  BY <1>1 DEF Removed, Exists, Fresh
<1>5. \A i \in Jobs : OnList(i) \/ InTask(i) => LeftAlone(i) \/ Removed(i)
  BY DEF Issued, GivenUp, Ticket
<1>6. OneTicket'
  <2>. SUFFICES ASSUME NEW i \in Jobs
                PROVE  /\ Waits(i)' => ~OnList(i)' /\ ~InTask(i)' /\ ~InSweep(i)'
                       /\ OnList(i)' => ~InTask(i)' /\ ~InSweep(i)'
                       /\ InTask(i)' => ~InSweep(i)'
                       /\ \A k, l \in 1..Len(queue') : queue'[k].job = i /\ queue'[l].job = i => k = l
                       /\ \A x, u \in Tasks : jobOf'[x] = i /\ jobOf'[u] = i => x = u
                       /\ \A v, w \in Workers : sweep'[v][i] # 0 /\ sweep'[w][i] # 0 => v = w
    BY DEF OneTicket
  <2>1. /\ \A k, l \in 1..Len(queue') : queue'[k].job = i /\ queue'[l].job = i => k = l
        /\ \A x, u \in Tasks : jobOf'[x] = i /\ jobOf'[u] = i => x = u
    BY <1>1 DEF Books, OneTicket, SameTasks
  <2>2. OnList(i)' => ~InTask(i)'
    BY <1>2 DEF Books, OneTicket
  <2>3. CASE LeftAlone(i) \/ Removed(i)
    <3>1. (InSweep(i)' <=> InSweep(i)) /\ (Waits(i)' => Waits(i))
      BY <2>3 DEF LeftAlone, Removed, InSweep
    <3>2. \A v, w \in Workers : sweep'[v][i] # 0 /\ sweep'[w][i] # 0 => v = w
      BY <2>3 DEF LeftAlone, Removed, Books, OneTicket
    <3>. QED
      BY <1>2, <2>1, <3>1, <3>2 DEF Books, OneTicket
  <2>4. CASE Issued(i) \/ GivenUp(i)
    <3>1. ~OnList(i)' /\ ~InTask(i)' /\ (Waits(i)' => ~InSweep(i)')
      BY <1>2, <2>4 DEF Issued, GivenUp, Ticket
    <3>2. \A v, w \in Workers : sweep'[v][i] # 0 /\ sweep'[w][i] # 0 => v = w
      BY <2>4 DEF Issued, GivenUp, InSweep
    <3>. QED
      BY <2>1, <3>1, <3>2
  <2>. QED
    BY <2>3, <2>4
<1>7. TicketBooks'
  <2>1. ASSUME NEW i \in Jobs, Waits(i)' PROVE Fresh(i, 0)'
    <3>1. CASE LeftAlone(i)
      BY <1>3, <2>1, <3>1 DEF LeftAlone, Books, TicketBooks
    <3>2. CASE Issued(i)
      BY <2>1, <3>2 DEF Issued
    <3>. QED
      BY <2>1, <3>1, <3>2 DEF Removed, GivenUp
  <2>2. ASSUME NEW k \in 1..Len(queue) PROVE Fresh(queue[k].job, queue[k].start)'
    <3>1. PICK o \in Jobs, n \in 0..MaxAttempts : queue[k].job = o /\ queue[k].start = n
      <4>1. queue[k] \in Payload
        BY DEF Known, TypeOK
      <4>. QED
        BY <4>1 DEF Payload
    <3>2. OnList(o)
      BY <3>1 DEF OnList
    <3>3. Fresh(queue[k].job, queue[k].start)
      BY DEF Books, TicketBooks
    <3>4. Fresh(o, n)'
      BY <1>3, <1>4, <1>5, <3>1, <3>2, <3>3
    <3>. QED
      BY <1>1, <3>1, <3>4
  <2>3. ASSUME NEW w \in Workers, NEW i \in Jobs, sweep'[w][i] # 0
        PROVE  Fresh(i, sweep[w][i])'
    <3>1. CASE LeftAlone(i) \/ Removed(i)
      <4>1. PICK n : n = sweep[w][i] /\ n = sweep'[w][i]
        BY <3>1 DEF LeftAlone, Removed
      <4>2. Fresh(i, sweep[w][i])
        BY <2>3, <4>1 DEF Books, TicketBooks
      <4>3. Fresh(i, n)'
        BY <1>3, <1>4, <3>1, <4>1, <4>2
      <4>. QED
        BY <4>1, <4>3
    <3>2. CASE Issued(i)
      <4>1. InSweep(i)'
        BY <2>3 DEF InSweep
      <4>2. PICK x \in Workers : /\ Fresh(i, sweep[x][i])'
                                 /\ \A v \in Workers \ {x} : sweep'[v][i] = 0
        BY <3>2, <4>1 DEF Issued
      <4>3. w = x
        BY <2>3, <4>2
      <4>. QED
        BY <4>2, <4>3
    <3>3. CASE GivenUp(i)
      BY <2>3, <3>3 DEF GivenUp, InSweep
    <3>. QED
      BY <3>1, <3>2, <3>3
  <2>. QED
    BY <1>1, <2>1, <2>2, <2>3 DEF TicketBooks
<1>8. TaskBooks'
  <2>. SUFFICES ASSUME NEW t \in Tasks
                PROVE  (pc'[t] = "free" <=> jobOf'[t] = Nil) /\ (pc'[t] # "free" => TaskKnows(t, jobOf[t])')
    BY DEF TaskBooks
  <2>1. pc'[t] = pc[t] /\ jobOf'[t] = jobOf[t] /\ count'[t] = count[t]
    BY <1>1 DEF SameTasks
  <2>2. CASE pc[t] = "free"
    BY <2>1, <2>2 DEF Books, TaskBooks
  <2>3. CASE pc[t] # "free"
    <3>1. PICK j \in Jobs : j = jobOf[t] /\ InTask(j) /\ TaskKnows(t, j)
      BY <2>3, TaskHasTicket
    <3>2. CASE LeftAlone(j)
      BY <1>1, <2>1, <3>1, <3>2, OneTaskKept DEF LeftAlone
    <3>3. CASE Removed(j)
      <4>1. TaskKnows(t, j)'
        BY <1>1, <1>4, <2>1, <3>1, <3>3 DEF TaskKnows
      <4>2. j # Nil
        BY NilAssumption
      <4>. QED
        BY <2>1, <2>3, <3>1, <4>1, <4>2
    <3>. QED
      BY <1>5, <3>1, <3>2, <3>3
  <2>. QED
    BY <2>2, <2>3
<1>9. RestBooks'
  <2>. SUFFICES ASSUME NEW i \in Jobs, ~Ticket(i)', Exists(i)'
                PROVE  /\ runs'[i] <= attempts'[i] + 1
                       /\ faults' = 0 => <<status'[i], doc'[i]>> \in {<<"completed", "indexed">>, <<"failed", "failed">>}
    BY DEF RestBooks
  <2>1. CASE LeftAlone(i)
    BY <1>1, <1>3, <2>1 DEF LeftAlone, Books, RestBooks
  <2>2. CASE Removed(i)
    BY <1>4, <2>2
  <2>3. CASE GivenUp(i)
    BY <2>3 DEF GivenUp
  <2>4. CASE Issued(i)
    <3>1. ~Waits(i)' /\ ~InSweep(i)'
      BY DEF Ticket
    <3>. QED
      BY <2>4, <3>1 DEF Issued, InSweep
  <2>. QED
    BY <2>1, <2>2, <2>3, <2>4
<1>10. RowBooks'
  <2>. SUFFICES ASSUME NEW i \in Jobs
                PROVE  /\ runs'[i] \in 0..MaxAttempts
                       /\ status'[i] \in Active => doc'[i] \in {"uploaded", "processing"}
                       /\ doc'[i] = "absent" => ~Ticket(i)' /\ runs'[i] = 0
    BY DEF RowBooks, Active
  <2>1. runs'[i] \in 0..MaxAttempts
    BY <1>1 DEF Books, RowBooks
  <2>2. CASE LeftAlone(i)
    BY <1>1, <1>3, <2>1, <2>2 DEF LeftAlone, Books, RowBooks
  <2>3. CASE Removed(i) \/ Issued(i) \/ GivenUp(i)
    BY <2>1, <2>3 DEF Removed, Issued, GivenUp, Active
  <2>. QED
    BY <2>2, <2>3
<1>. QED
  BY <1>1, <1>6, <1>7, <1>8, <1>9, <1>10 DEF Books

LEMMA UploadKeepsBooks ==
  ASSUME Known, Books, TypeOK', CountRuns, NEW j \in Jobs, UploadCommit(j)
  PROVE  Books'
<1>1. /\ doc[j] = "absent" /\ doc' = [doc EXCEPT ![j] = "uploaded"]
      /\ status' = [status EXCEPT ![j] = "pending"] /\ outbox' = [outbox EXCEPT ![j] = "pending"]
      /\ UNCHANGED <<attempts, queue, relay, sweep, taskVars, worker, sweepConn, faults>>
  BY DEF UploadCommit, listVars, processVars
<1>2. ~Exists(j) /\ attempts[j] = 0 /\ ~Ticket(j) /\ runs[j] = 0
  BY <1>1 DEF Known, RowsTogether, Exists, Books, RowBooks
<1>3. runs'[j] = runs[j]
  BY <1>1, NobodyReturns DEF Returns, taskVars
<1>4. ~Pushed(j)
  BY <1>2 DEF Pushed, Known, LockInv, LocksExclusive, Taken
<1>5. doc'[j] = "uploaded" /\ status'[j] = "pending" /\ outbox'[j] = "pending"
  BY <1>1 DEF Known, TypeOK
<1>6. ASSUME NEW i \in Jobs \ {j} PROVE LeftAlone(i)
  BY <1>1 DEF LeftAlone, Waits, Pushed, Known, TypeOK
<1>7. Issued(j)
  <2>1. Waits(j)'
    BY <1>1, <1>4, <1>5 DEF Waits, Pushed
  <2>2. ~InSweep(j)'
    BY <1>1, <1>2 DEF InSweep, Ticket
  <2>3. Fresh(j, 0)'
    BY <1>1, <1>2, <1>3, <1>5 DEF Fresh, Active
  <2>. QED
    BY <1>2, <1>5, <2>1, <2>2, <2>3 DEF Issued
<1>. QED
  BY <1>1, <1>6, <1>7, TransactionKeepsBooks

LEMMA DeleteKeepsBooks ==
  ASSUME Known, Books, TypeOK', CountRuns, NEW j \in Jobs, DeleteDocument(j)
  PROVE  Books'
<1>1. /\ doc' = [doc EXCEPT ![j] = "deleted"] /\ status' = [status EXCEPT ![j] = "absent"]
      /\ attempts' = [attempts EXCEPT ![j] = 0] /\ outbox' = [outbox EXCEPT ![j] = "absent"]
      /\ UNCHANGED <<queue, relay, sweep, taskVars, worker, sweepConn, faults>>
  BY DEF DeleteDocument, listVars, processVars
<1>2. doc'[j] = "deleted" /\ status'[j] = "absent" /\ outbox'[j] = "absent"
  BY <1>1 DEF Known, TypeOK
<1>3. ASSUME NEW i \in Jobs \ {j} PROVE LeftAlone(i)
  BY <1>1 DEF LeftAlone, Waits, Pushed, Known, TypeOK
<1>4. Removed(j)
  BY <1>1, <1>2 DEF Removed, Waits
<1>. QED
  BY <1>1, <1>3, <1>4, TransactionKeepsBooks

\* The lease has run out on jobs without a ticket only.
LEMMA SweepClaimKeepsBooks ==
  ASSUME Known, Books, TypeOK', CountRuns, Timely, NEW w \in Workers, SweepClaim(w)
  PROVE  Books'
<1>. DEFINE stuck == OldestFirst(Stuck, SweepBatch)
            spent == {i \in stuck : attempts[i] + 1 > MaxAttempts}
<1>1. /\ sweep[w] = NoPush
      /\ status' = [i \in Jobs |-> IF i \in spent THEN "failed"
                                   ELSE IF i \in stuck \ spent THEN "pending" ELSE status[i]]
      /\ attempts' = [i \in Jobs |-> IF i \in stuck \ spent THEN attempts[i] + 1 ELSE attempts[i]]
      /\ doc' = [i \in Jobs |-> IF i \in spent THEN "failed" ELSE doc[i]]
      /\ sweep' = [sweep EXCEPT ![w] = [i \in Jobs |-> IF i \in stuck \ spent THEN attempts[i] + 1 ELSE 0]]
      /\ UNCHANGED <<outbox, queue, taskVars, worker, relay, sweepConn, faults>>
  BY DEF SweepClaim, listVars
<1>2. /\ \A i \in Jobs : sweep'[w][i] = IF i \in stuck \ spent THEN attempts[i] + 1 ELSE 0
      /\ \A v \in Workers \ {w} : sweep'[v] = sweep[v]
      /\ \A i \in Jobs : sweep[w][i] = 0
  BY <1>1 DEF NoPush, Known, TypeOK
<1>3. stuck \subseteq Stuck /\ spent \subseteq stuck
  BY OldestFirstSubset
<1>. HIDE DEF stuck, spent
<1>4. \A i \in Jobs : runs'[i] = runs[i]
  BY <1>1, NobodyReturns DEF Returns, taskVars
<1>5. \A i \in Jobs : Waits(i)' <=> Waits(i)
  BY <1>1 DEF Waits, Pushed
<1>6. ASSUME NEW i \in Jobs, i \notin stuck PROVE LeftAlone(i)
  <2>1. doc'[i] = doc[i] /\ status'[i] = status[i] /\ attempts'[i] = attempts[i]
    BY <1>1, <1>3, <1>6
  <2>2. \A v \in Workers : sweep'[v][i] = sweep[v][i]
    BY <1>2, <1>6
  <2>. QED
    BY <1>5, <2>1, <2>2 DEF LeftAlone
<1>7. ASSUME NEW i \in stuck
      PROVE  /\ i \in Jobs /\ ~Ticket(i) /\ status[i] \in Active /\ Exists(i)
             /\ doc[i] \in {"uploaded", "processing"}
             /\ runs[i] \in Nat /\ attempts[i] \in Nat /\ runs[i] <= attempts[i] + 1
  <2>1. i \in Jobs /\ i \in Stuck /\ status[i] \in Active
    BY <1>3 DEF Stuck
  <2>2. ~InFlight(i)
    BY <2>1 DEF Timely
  <2>3. ~Ticket(i)
    BY <2>2 DEF InFlight, Ticket, Waits, OnList, InTask, InSweep
  <2>4. doc[i] \in {"uploaded", "processing"}
    BY <2>1 DEF Books, RowBooks
  <2>5. Exists(i)
    BY <2>4 DEF Exists
  <2>6. runs[i] \in Nat /\ attempts[i] \in Nat /\ runs[i] <= attempts[i] + 1
    BY <2>1, <2>3, <2>5 DEF Books, RowBooks, RestBooks, Known, TypeOK
  <2>. QED
    BY <2>1, <2>3, <2>4, <2>5, <2>6
<1>8. ASSUME NEW i \in stuck, i \notin spent PROVE Issued(i)
  <2>1. /\ doc'[i] = doc[i] /\ status'[i] = "pending" /\ attempts'[i] = attempts[i] + 1
        /\ sweep'[w][i] = attempts[i] + 1
    BY <1>1, <1>2, <1>7, <1>8
  <2>2. sweep'[w][i] # 0
    BY <1>7, <2>1
  <2>3. Fresh(i, sweep[w][i])'
    BY <1>4, <1>7, <2>1 DEF Fresh, Active
  <2>4. \A v \in Workers \ {w} : sweep'[v][i] = 0
    BY <1>2, <1>7 DEF Ticket, InSweep
  <2>5. ~Waits(i)'
    BY <1>5, <1>7 DEF Ticket
  <2>. QED
    BY <1>7, <2>1, <2>2, <2>3, <2>4, <2>5 DEF Issued
<1>9. ASSUME NEW i \in spent PROVE GivenUp(i)
  <2>1. i \in stuck
    BY <1>3
  <2>2. doc'[i] = "failed" /\ status'[i] = "failed" /\ attempts'[i] = attempts[i]
    BY <1>1, <1>7, <1>9, <2>1
  <2>3. ~InSweep(i)'
    BY <1>2, <1>7, <1>9, <2>1 DEF InSweep, Ticket
  <2>4. ~Waits(i)'
    BY <1>5, <1>7, <2>1 DEF Ticket
  <2>. QED
    BY <1>4, <1>7, <2>1, <2>2, <2>3, <2>4 DEF GivenUp
<1>. QED
  BY <1>1, <1>6, <1>8, <1>9, TransactionKeepsBooks

-------------------------------------------------------------------------------
\* Every step keeps the books.
TimelyInv == SafetyInv /\ Books

LEMMA SafetyIsKnown ==
  ASSUME SafetyInv
  PROVE  Known
BY DEF SafetyInv, Known, TypeInv, RowInv

LEMMA BooksInit ==
  ASSUME HistoryInit
  PROVE  TimelyInv
<1>1. SafetyInv
  BY SafetyInit DEF HistoryInit
<1>2. Len(queue) = 0 /\ queue = <<>>
  BY DEF HistoryInit, Init
<1>3. \A j \in Jobs : ~Waits(j) /\ ~OnList(j) /\ ~InTask(j) /\ ~InSweep(j)
  BY <1>2, NilAssumption DEF HistoryInit, Init, Waits, OnList, InTask, InSweep, NoPush
<1>4. OneTicket
  <2>1. \A i \in 1..Len(queue) : FALSE
    BY <1>2
  <2>2. \A j \in Jobs, w \in Workers : sweep[w][j] = 0
    BY DEF HistoryInit, Init, NoPush
  <2>3. \A j \in Jobs, t \in Tasks : jobOf[t] # j
    BY NilAssumption DEF HistoryInit, Init
  <2>. QED
    BY <1>3, <2>1, <2>2, <2>3 DEF OneTicket
<1>5. TicketBooks
  <2>1. \A i \in 1..Len(queue) : FALSE
    BY <1>2
  <2>. QED
    BY <1>3, <2>1 DEF TicketBooks, InSweep
<1>6. TaskBooks /\ RestBooks /\ Undisturbed
  BY DEF HistoryInit, Init, TaskBooks, RestBooks, Undisturbed, Exists
<1>7. RowBooks
  BY <1>3, AttemptAssumption DEF HistoryInit, Init, RowBooks, Ticket, Active
<1>. QED
  BY <1>1, <1>4, <1>5, <1>6, <1>7 DEF TimelyInv, Books

LEMMA BooksStep ==
  ASSUME TimelyInv, [TimelyNext]_historyVars
  PROVE  TimelyInv'
<1>1. [Next]_vars
  BY DEF TimelyNext, historyVars
<1>2. SafetyInv'
  BY <1>1, SafetyStep DEF TimelyInv
<1>3. Known /\ Books /\ TypeOK'
  BY <1>2, SafetyIsKnown DEF TimelyInv, SafetyInv, TypeInv
<1>4. CASE UNCHANGED historyVars
  <2>1. /\ UNCHANGED <<doc, status, attempts, outbox, queue, sweep, relay, worker, sweepConn, faults, runs>>
        /\ UNCHANGED taskVars
    BY <1>4 DEF historyVars, vars, rowVars, listVars, processVars
  <2>2. \A i \in 1..Len(queue') : i + 0 \in 1..Len(queue) /\ queue'[i] = queue[i + 0]
    BY <2>1
  <2>3. \A j \in Jobs : (Waits(j)' <=> Waits(j)) /\ (Ticket(j) => Ticket(j)')
    BY <2>1 DEF Waits, Pushed, Ticket, OnList, InTask, InSweep, taskVars
  <2>4. Books'
    BY <1>3, <2>1, <2>2, <2>3, NoFault, FewerTickets DEF taskVars
  <2>. QED
    BY <1>2, <2>4 DEF TimelyInv
<1>5. CASE TimelyNext
  <2>1. Next /\ CountRuns /\ Timely
    BY <1>5 DEF TimelyNext
  <2>2. ASSUME NEW j \in Jobs, UploadCommit(j) \/ DeleteDocument(j) \/ PurgeOutbox(j) \/ LeaseExpires(j)
        PROVE  Books'
    BY <1>3, <2>1, <2>2, UploadKeepsBooks, DeleteKeepsBooks, IdleKeepsBooks
  <2>3. ASSUME NEW w \in Workers, Relay(w) \/ RelayFail(w) \/ Sweep(w)
        PROVE  Books'
    BY <1>3, <2>1, <2>3, RelayKeepsBooks, PushesKeepBooks, SweepClaimKeepsBooks, LossKeepsBooks
       DEF Relay, Sweep
  <2>4. ASSUME NEW w \in Workers,
               Pop(w) \/ Shutdown(w) \/ LosePop(w) \/ Exit(w) \/ Crash(w) \/ Restart(w)
        PROVE  Books'
    BY <1>3, <2>1, <2>4, PopKeepsBooks, IdleKeepsBooks, LossKeepsBooks
  <2>5. ASSUME NEW t \in Tasks, Handle(t) \/ HandlerFails(t)
        PROVE  Books'
    <3>1. CASE HandlerFails(t)
      BY <1>3, <2>1, <3>1, LossKeepsBooks
    <3>2. CASE RefuseExhausted(t) \/ ClaimJob(t) \/ MarkProcessing(t)
      BY <1>3, <2>1, <3>2, WaitingKeepsBooks, MarkProcessingKeepsBooks
    <3>3. CASE RunSucceeds(t) \/ RunFails(t)
      BY <1>3, <2>1, <3>3, RunKeepsBooks
    <3>4. CASE MarkCompleted(t) \/ RecordFailure(t) \/ GiveUp(t)
      BY <1>3, <2>1, <3>4, AfterRunKeepsBooks
    <3>5. CASE MarkIndexed(t) \/ MarkDocumentFailed(t)
      BY <1>3, <2>1, <3>5, FinishKeepsBooks
    <3>. QED
      BY <2>5, <3>1, <3>2, <3>3, <3>4, <3>5 DEF Handle
  <2>6. Books'
    BY <2>1, <2>2, <2>3, <2>4, <2>5 DEF Next
  <2>. QED
    BY <1>2, <2>6 DEF TimelyInv
<1>. QED
  BY <1>4, <1>5

\* Under the assumption of the lease a job has one ticket at most, whatever processes
\* crash and whatever payloads are lost: the books of the tickets hold.
THEOREM TicketsAreExclusive == TimelySpec => []TimelyInv
<1>1. HistoryInit => TimelyInv
  BY BooksInit
<1>2. TimelyInv /\ [TimelyNext]_historyVars => TimelyInv'
  BY BooksStep
<1>. QED
  BY <1>1, <1>2, PTL DEF TimelySpec, TimelyNext

\* At most MAX_ATTEMPTS runs of a job over all its payloads, every finished run covered by
\* the attempts once nothing is under way, and undisturbed rows at rest that agree.
THEOREM RunsAccounted == TimelySpec => []RunsAreAccounted
<1>1. TimelyInv => RunsAreAccounted
  <2>. SUFFICES ASSUME TimelyInv PROVE RunsAreAccounted
    OBVIOUS
  <2>1. Books /\ TypeOK
    BY DEF TimelyInv, SafetyInv, TypeInv
  <2>2. RunBudget
    BY <2>1, AttemptAssumption DEF RunBudget, Books, RowBooks
  <2>3. ASSUME NEW j \in Jobs, ~InFlight(j) PROVE ~Ticket(j)
    BY <2>3 DEF InFlight, Ticket, Waits, OnList, InTask, InSweep
  <2>4. AttemptsCoverRuns /\ RestingRowsAgree
    BY <2>1, <2>3 DEF AttemptsCoverRuns, RestingRowsAgree, Books, RestBooks
  <2>. QED
    BY <2>2, <2>4 DEF RunsAreAccounted
<1>. QED
  BY <1>1, TicketsAreExclusive, PTL

\* A step that follows the state machine of the two rows.
RowFollows(j) ==
  /\ doc'[j] \in {doc[j], "deleted"} \/ <<doc[j], doc'[j]>> \in Arrows
  /\ status[j] \in {"completed", "failed"} => status'[j] \in {status[j], "absent"}

LEMMA RowsSame ==
  ASSUME UNCHANGED <<doc, status>>
  PROVE  \A j \in Jobs : RowFollows(j)
BY DEF RowFollows

\* A handler only updates a job that is active, and a document that is on its way.
LEMMA HandlerFollows ==
  ASSUME Known, Books, NEW t \in Tasks, Handle(t)
  PROVE  \A j \in Jobs : RowFollows(j)
<1>1. pc[t] # "free"
  BY DEF Handle, RefuseExhausted, ClaimJob, MarkProcessing, RunSucceeds, RunFails, MarkCompleted,
         MarkIndexed, RecordFailure, GiveUp, MarkDocumentFailed, Advance, Finish
<1>2. PICK j \in Jobs : j = jobOf[t] /\ TaskKnows(t, j)
  BY <1>1, TaskHasTicket
<1>3. ASSUME NEW s, NEW a, UpdateJobStatus(j, s, a), pc[t] \in Held \ {"completed", "jobFailed"}
      PROVE  \A i \in Jobs : RowFollows(i)
  <2>1. /\ UNCHANGED doc
        /\ \A i \in Jobs \ {j} : status'[i] = status[i]
        /\ ~Exists(j) => status'[j] = status[j]
    BY <1>3, JobRow DEF Known
  <2>2. Exists(j) => status[j] \in Active
    BY <1>2, <1>3 DEF TaskKnows
  <2>. QED
    BY <2>1, <2>2 DEF RowFollows, Active
<1>4. ASSUME NEW s, UpdateDocumentStatus(j, s),
             Exists(j) => s = doc[j] \/ <<doc[j], s>> \in Arrows
      PROVE  \A i \in Jobs : RowFollows(i)
  <2>1. /\ UNCHANGED status
        /\ \A i \in Jobs \ {j} : doc'[i] = doc[i]
        /\ Exists(j) => doc'[j] = s
        /\ ~Exists(j) => doc'[j] = doc[j]
    BY <1>4, DocumentRow DEF Known
  <2>. QED
    BY <1>4, <2>1 DEF RowFollows
<1>5. CASE RefuseExhausted(t) \/ ClaimJob(t) \/ MarkCompleted(t) \/ RecordFailure(t) \/ GiveUp(t)
  <2>1. \E s, a : UpdateJobStatus(j, s, a)
    BY <1>2, <1>5 DEF RefuseExhausted, ClaimJob, MarkCompleted, RecordFailure, GiveUp
  <2>2. pc[t] \in Held \ {"completed", "jobFailed"}
    BY <1>5 DEF RefuseExhausted, ClaimJob, MarkCompleted, RecordFailure, GiveUp, Advance, Held
  <2>. QED
    BY <1>3, <2>1, <2>2
<1>6. CASE MarkProcessing(t)
  <2>1. pc[t] = "claimed" /\ UpdateDocumentStatus(j, "processing")
    BY <1>2, <1>6 DEF MarkProcessing, Advance
  <2>2. Exists(j) => doc[j] \in {"uploaded", "processing"}
    BY <1>2, <2>1 DEF TaskKnows, Held, Books, RowBooks
  <2>. QED
    BY <1>4, <2>1, <2>2 DEF Arrows
<1>7. CASE RunSucceeds(t) \/ RunFails(t)
  BY <1>7, RowsSame DEF RunSucceeds, RunFails, rowVars
<1>8. CASE MarkIndexed(t)
  <2>1. pc[t] = "completed" /\ UpdateDocumentStatus(j, "indexed")
    BY <1>2, <1>8 DEF MarkIndexed, Finish
  <2>2. Exists(j) => doc[j] = "processing"
    BY <1>2, <2>1 DEF TaskKnows
  <2>. QED
    BY <1>4, <2>1, <2>2 DEF Arrows
<1>9. CASE MarkDocumentFailed(t)
  <2>1. pc[t] = "jobFailed" /\ UpdateDocumentStatus(j, "failed")
    BY <1>2, <1>9 DEF MarkDocumentFailed, Finish
  <2>2. Exists(j) => doc[j] \in {"uploaded", "processing"}
    BY <1>2, <2>1 DEF TaskKnows
  <2>. QED
    BY <1>4, <2>1, <2>2 DEF Arrows
<1>. QED
  BY <1>5, <1>6, <1>7, <1>8, <1>9 DEF Handle

LEMMA ProcessFollows ==
  ASSUME Known, Books, NEW w \in Workers,
         \/ Relay(w) \/ RelayFail(w) \/ Sweep(w)
         \/ Pop(w) \/ Shutdown(w) \/ LosePop(w) \/ Exit(w) \/ Crash(w) \/ Restart(w)
  PROVE  \A j \in Jobs : RowFollows(j)
<1>1. CASE SweepClaim(w)
  <2>. DEFINE stuck == OldestFirst(Stuck, SweepBatch)
              spent == {i \in stuck : attempts[i] + 1 > MaxAttempts}
  <2>1. /\ status' = [i \in Jobs |-> IF i \in spent THEN "failed"
                                     ELSE IF i \in stuck \ spent THEN "pending" ELSE status[i]]
        /\ doc' = [i \in Jobs |-> IF i \in spent THEN "failed" ELSE doc[i]]
    BY <1>1 DEF SweepClaim
  <2>2. spent \subseteq stuck /\ \A i \in stuck : i \in Jobs /\ status[i] \in Active
    BY OldestFirstSubset DEF Stuck
  <2>. HIDE DEF stuck, spent
  <2>3. \A i \in stuck : doc[i] \in {"uploaded", "processing"}
    BY <2>2 DEF Books, RowBooks
  <2>. QED
    BY <2>1, <2>2, <2>3 DEF RowFollows, Arrows, Active
<1>2. CASE Relay(w) \/ RelayFail(w) \/ SweepPush(w) \/ SweepPushFails(w)
  BY <1>2, RowsSame DEF Relay, RelayBegin, RelayPush, RelayCommit, RelayFail, SweepPush, SweepPushFails, rowVars
<1>3. CASE Pop(w) \/ Shutdown(w) \/ LosePop(w) \/ Exit(w) \/ Crash(w) \/ Restart(w)
  BY <1>3, RowsSame DEF Pop, Shutdown, LosePop, Exit, Crash, Restart, Stop, rowVars
<1>. QED
  BY <1>1, <1>2, <1>3 DEF Sweep

LEMMA RowsFollow ==
  ASSUME Known, Books, Next
  PROVE  \A j \in Jobs : RowFollows(j)
<1>1. ASSUME NEW j \in Jobs, UploadCommit(j) PROVE \A i \in Jobs : RowFollows(i)
  <2>1. status[j] = "absent"
    BY <1>1, GoneRow DEF UploadCommit, Exists
  <2>. QED
    BY <1>1, <2>1 DEF UploadCommit, RowFollows, Arrows, Known, TypeOK
<1>2. ASSUME NEW j \in Jobs, DeleteDocument(j) PROVE \A i \in Jobs : RowFollows(i)
  BY <1>2 DEF DeleteDocument, RowFollows, Known, TypeOK
<1>3. ASSUME NEW j \in Jobs, PurgeOutbox(j) \/ LeaseExpires(j) PROVE \A i \in Jobs : RowFollows(i)
  BY <1>3, RowsSame DEF PurgeOutbox, LeaseExpires, rowVars
<1>4. ASSUME NEW t \in Tasks, HandlerFails(t) PROVE \A i \in Jobs : RowFollows(i)
  BY <1>4, RowsSame DEF HandlerFails, rowVars
<1>. QED
  BY <1>1, <1>2, <1>3, <1>4, HandlerFollows, ProcessFollows DEF Next

\* The document row takes the arrows of status.rs only, and a finished job is never
\* re-opened, for any number of processes, payloads and disturbances.
THEOREM RowsFollowTheMachine == TimelySpec => RowsFollowStateMachine
<1>1. TimelyInv /\ [TimelyNext]_historyVars => [\A j \in Jobs : RowFollows(j)]_historyVars
  BY RowsFollow, SafetyIsKnown DEF TimelyInv, TimelyNext
<1>. QED
  BY <1>1, TicketsAreExclusive, PTL DEF TimelySpec, TimelyNext, RowsFollowStateMachine, RowFollows
================================================================================
