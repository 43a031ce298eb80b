----------------------------- MODULE TenancyProofs -----------------------------
(***************************************************************************)
(* Proofs about what belongs to a tenant: its life (Tenancy), for any      *)
(* documents, jobs and number of attempts, and the ingestion of a document *)
(* under its settings (IngestRun), for any document, batch size and number *)
(* of retries.  The two modules share no variable.                         *)
(*                                                                         *)
(* The first argument is the lock: while a transaction refers to the       *)
(* tenant the tenant's row stays, and once its deletion is executed none   *)
(* comes; and no deletion starts before the owner's tuple is written, so   *)
(* that a tenant whose creation is compensated has no deletion under way.  *)
(*                                                                         *)
(* The second is what a result is when it comes: of a batch of the texts,  *)
(* with their vectors in their order; its place in the queue is not used.  *)
(*                                                                         *)
(* The third is about the joined text and the places of its pages, which   *)
(* two recursive functions compute.  Induction is by the smallest number   *)
(* that is not in a set: it shows that the functions are what their        *)
(* recursion says, and what they compute for every document.               *)
(***************************************************************************)
EXTENDS Tenancy, IngestRun, FiniteSetTheorems, SequenceTheorems, WellFoundedInduction, TLAPS

USE NamesAssumption, AttemptsAssumption, BoundAssumption

-------------------------------------------------------------------------------
UploadSteps   == {"idle", "stored", "written", "over"}
JobSteps      == {"queued", "check", "create", "index", "upsert", "commit", "done", "failed"}
DeletionSteps == {"idle", "listed", "untupled", "teardown", "torn", "emptied", "removed"}

TypeOK ==
  /\ tenant \in {"none", "live", "gone"} /\ creation \in {"idle", "committed", "answered", "refused"}
  /\ upload \in [Docs -> UploadSteps]
  /\ job \in [Jobs -> [step : JobSteps, name : Collections, failed : Nat]]
  /\ deletion \in [step : DeletionSteps, docs : SUBSET Docs, names : SUBSET Collections]
  /\ rows \subseteq Docs
  /\ collections \in [Collections -> {"none", "bare", "indexed"}]

\* Who refers to the tenant holds its row.
LockInv == Locked => Refers

\* Nothing is done with a tenant before it is committed, and nothing deletes it before its
\* owner is known.
OrderInv ==
  /\ creation = "idle" <=> tenant = "none"
  /\ creation = "committed" => tenant = "live"
  /\ "owner" \in tuples \/ Deleting => creation \in {"answered", "refused"}

Inv == TypeOK /\ LockInv /\ OrderInv

LEMMA InitInv == Init => Inv
BY DEF Init, Inv, TypeOK, LockInv, OrderInv, Requested, Queued, Collections, UploadSteps, JobSteps,
       DeletionSteps, Locked, Writing, Running, Deleting

-------------------------------------------------------------------------------
LEMMA CreationKeepsInv ==
  ASSUME Inv, Create \/ AnswerCreate \/ Compensate
  PROVE  Inv'
<1>. USE DEF Inv, TypeOK, OrderInv, LockInv, Deleting, Refers, Locked, Writing, Running, stores,
             qdrant, history, Perhaps, Fault
<1>1. CASE Create
  BY <1>1 DEF Create
<1>2. CASE AnswerCreate
  BY <1>2 DEF AnswerCreate
<1>3. CASE Compensate
  BY <1>3 DEF Compensate
<1>. QED
  BY <1>1, <1>2, <1>3

LEMMA UploadKeepsInv ==
  ASSUME Inv, NEW d \in Docs, Upload(d)
  PROVE  Inv'
<1>. USE DEF Inv, TypeOK, OrderInv, LockInv, Deleting, Refers, Locked, Writing, Running, Uploads,
             UploadSteps, stores, qdrant, history, Perhaps, Fault
<1>1. CASE StoreObject(d)
  BY <1>1 DEF StoreObject
<1>2. CASE WriteRow(d)
  BY <1>2 DEF WriteRow
<1>3. CASE UploadFails(d)
  BY <1>3 DEF UploadFails
<1>4. CASE CommitUpload(d)
  BY <1>4 DEF CommitUpload
<1>. QED
  BY <1>1, <1>2, <1>3, <1>4 DEF Upload

\* What a step of a job changes keeps its type.
JobType == [step : JobSteps, name : Collections, failed : Nat]

LEMMA GivesBackTyped ==
  ASSUME TypeOK, NEW j \in Jobs, GivesBack(j)
  PROVE  job' \in [Jobs -> JobType]
<1>1. job[j].failed + 1 \in Nat
  BY DEF TypeOK
<1>2. [Queued EXCEPT !.failed = job[j].failed + 1,
                     !.step = IF job[j].failed + 1 < MaxAttempts THEN "queued" ELSE "failed"]
        \in JobType
  BY <1>1 DEF JobType, Queued, JobSteps, Collections
<1>. QED
  BY <1>2 DEF GivesBack, TypeOK, JobType

LEMMA AfterCheckTyped ==
  ASSUME TypeOK, NEW j \in Jobs, NEW found \in BOOLEAN
  PROVE  AfterCheck(j, found) \in JobType
<1>1. job[j] \in JobType
  BY DEF TypeOK, JobType
<1>. QED
  BY <1>1 DEF AfterCheck, JobType, JobSteps, Collections

LEMMA RunKeepsInv ==
  ASSUME Inv, NEW j \in Jobs, Run(j)
  PROVE  Inv'
<1>1. job' \in [Jobs -> JobType]
  <2>0. job \in [Jobs -> JobType]
    BY DEF Inv, TypeOK, JobType
  <2>1. CASE Begin(j) \/ CommitRun(j)
    BY <2>0, <2>1 DEF Begin, CommitRun, Moves, JobType, JobSteps
  <2>2. CASE Check(j)
    <3>1. Exists(job[j].name) \in BOOLEAN
      BY DEF Exists
    <3>. QED
      BY <2>0, <2>2, <3>1, AfterCheckTyped DEF Check, Inv
  <2>3. CASE CreateCollection(j)
    BY <2>0, <2>3, GivesBackTyped DEF CreateCollection, Inv, JobType, JobSteps
  <2>4. CASE BuildIndexes(j)
    BY <2>0, <2>4, GivesBackTyped, AfterCheckTyped DEF BuildIndexes, Inv
  <2>5. CASE Upsert(j)
    BY <2>0, <2>5, GivesBackTyped DEF Upsert, Inv, JobType, JobSteps
  <2>6. CASE RunFails(j)
    BY <2>6, GivesBackTyped DEF RunFails, Inv
  <2>. QED
    BY <2>1, <2>2, <2>3, <2>4, <2>5, <2>6 DEF Run
<1>2. /\ UNCHANGED <<tenant, rows, tuples, creation, upload, deletion>>
      /\ collections' \in [Collections -> {"none", "bare", "indexed"}]
  BY DEF Run, Begin, Check, CreateCollection, BuildIndexes, Upsert, CommitRun, RunFails, stores,
         qdrant, history, Inv, TypeOK
<1>3. j \in Running \/ Refers
  BY DEF Run, Begin, Check, CreateCollection, BuildIndexes, Upsert, CommitRun, RunFails, Running,
         Moves
<1>4. Refers
  BY <1>3 DEF Inv, LockInv, Locked
<1>. QED
  BY <1>1, <1>2, <1>4 DEF Inv, TypeOK, JobType, LockInv, OrderInv, Refers, Deleting

LEMMA DeleteKeepsInv ==
  ASSUME Inv, Delete
  PROVE  Inv'
<1>. USE DEF Inv, TypeOK, OrderInv, LockInv, Deleting, Refers, Locked, Writing, Running, Deletes,
             DeletionSteps, Requested, stores, qdrant, history, Perhaps, Fault
<1>1. CASE BeginDelete
  BY <1>1 DEF BeginDelete
<1>2. CASE DropTuples
  BY <1>2 DEF DropTuples
<1>3. CASE ListCollections
  <2>1. {c \in Collections : Exists(c)} \in SUBSET Collections
    OBVIOUS
  <2>2. \/ deletion' = [deletion EXCEPT !.step = "teardown", !.names = {c \in Collections : Exists(c)}]
        \/ deletion' = [deletion EXCEPT !.step = "torn"]
    BY <1>3 DEF ListCollections
  <2>3. deletion.step = "untupled" /\ UNCHANGED <<stores, qdrant, creation, upload, job, history>>
    BY <1>3 DEF ListCollections
  <2>4. /\ deletion' \in [step : DeletionSteps, docs : SUBSET Docs, names : SUBSET Collections]
        /\ deletion'.step \in {"teardown", "torn"}
    BY <2>1, <2>2
  <2>. QED
    BY <2>3, <2>4
<1>4. ASSUME NEW c \in Collections, DropCollection(c) PROVE Inv'
  BY <1>4 DEF DropCollection
<1>5. CASE EndTeardown \/ DropObjects \/ RemoveRow
  BY <1>5 DEF EndTeardown, DropObjects, RemoveRow
<1>6. CASE CommitDelete
  BY <1>6 DEF CommitDelete
<1>7. CASE AbortDelete
  BY <1>7 DEF AbortDelete
<1>. QED
  BY <1>1, <1>2, <1>3, <1>4, <1>5, <1>6, <1>7 DEF Delete

LEMMA StepInv == Inv /\ [Next]_vars => Inv'
<1>. SUFFICES ASSUME Inv, [Next]_vars PROVE Inv'
  OBVIOUS
<1>1. CASE UNCHANGED vars
  BY <1>1 DEF vars, stores, qdrant, history, Inv, TypeOK, LockInv, OrderInv, Locked, Refers,
     Writing, Running, Deleting
<1>. QED
  BY <1>1, CreationKeepsInv, UploadKeepsInv, RunKeepsInv, DeleteKeepsInv DEF Next

LEMMA InvHolds == Spec => []Inv
BY InitInv, StepInv, PTL DEF Spec

\* While an upload's transaction or an ingest run refers to the tenant, its row is there and no
\* deletion of it was executed (tenants.rs: delete_tenant; the foreign keys to tenants).
THEOREM WritersHoldTheirTenant == Spec => [](Locked => Refers)
BY InvHolds, PTL DEF Inv, LockInv

-------------------------------------------------------------------------------
GainsNothing ==
  /\ \A c \in Collections : collections[c] = "none" => collections'[c] = "none"
  /\ points' \subseteq points /\ rows' \subseteq rows /\ tuples' \subseteq tuples

\* Once the deletion of a tenant is committed no collection, point, row or tuple of it appears
\* any more (tenants.rs: delete_tenant; qdrant_writer.rs: dual_write).
THEOREM GoneGainsNothing == Spec => GoneTenantGainsNothing
<1>1. ASSUME Inv, [Next]_vars, tenant = "gone" PROVE GainsNothing
  <2>. USE DEF GainsNothing
  <2>1. ~Refers /\ ~Locked
    BY <1>1 DEF Refers, Inv, LockInv
  <2>2. CASE UNCHANGED vars
    BY <2>2 DEF vars, stores, qdrant
  <2>3. CASE Create \/ AnswerCreate \/ Compensate
    BY <1>1, <2>3 DEF Create, AnswerCreate, Compensate, Inv, OrderInv
  <2>4. ASSUME NEW d \in Docs, Upload(d) PROVE GainsNothing
    BY <1>1, <2>1, <2>4 DEF Upload, StoreObject, WriteRow, UploadFails, CommitUpload, Uploads,
       Locked, Writing, Perhaps, stores, qdrant
  <2>5. ASSUME NEW j \in Jobs, Run(j) PROVE GainsNothing
    BY <2>1, <2>5 DEF Run, Begin, Check, CreateCollection, BuildIndexes, Upsert, CommitRun, RunFails,
       Locked, Running, Moves, stores, qdrant
  <2>6. CASE Delete
    BY <1>1, <2>6 DEF Delete, BeginDelete, DropTuples, ListCollections, DropCollection, EndTeardown,
       DropObjects, RemoveRow, CommitDelete, AbortDelete, Perhaps, stores, qdrant, Inv, TypeOK
  <2>. QED
    BY <1>1, <2>2, <2>3, <2>4, <2>5, <2>6 DEF Next
<1>. QED
  BY <1>1, InvHolds, PTL DEF Spec, GoneTenantGainsNothing, GainsNothing

-------------------------------------------------------------------------------
(***************************************************************************)
(* While no call fails.  Each collection costs a job at most one attempt,  *)
(* the one that finds it missing and then taken; after that it is there.   *)
(***************************************************************************)
CountInv == faults \in Nat /\ deletes \in Nat

\* What a job at hand knows of the collections, and what it has lost to them.
RunsSetup(j) ==
  /\ job[j].step # "failed" /\ job[j].failed <= 2
  /\ job[j].failed >= 1 \/ job[j].name = "graph" => Exists("chunks")
  /\ job[j].failed = 2 => Exists("graph")
  /\ job[j].step = "create" => job[j].failed <= (IF job[j].name = "chunks" THEN 0 ELSE 1)
  /\ job[j].step = "index" => Exists(job[j].name)
  /\ job[j].step = "upsert" => Exists("chunks") /\ Exists("graph")

SetupInv == faults = 0 /\ deletes = 0 => ~Deleting /\ \A j \in Jobs : RunsSetup(j)

(***************************************************************************)
(* The deletion, step by step: what it has not seen was brought by racers. *)
(***************************************************************************)
Untupled == tenant = "gone" \/ deletion.step \in {"untupled", "teardown", "torn", "emptied", "removed"}
Torn     == tenant = "gone" \/ deletion.step \in {"torn", "emptied", "removed"}
Emptied  == tenant = "gone" \/ deletion.step \in {"emptied", "removed"}

\* Points lie in collections.
PointsInv == points # {} => \A c \in Collections : Exists(c)

RacersInv == Deleting => Running \cup {d \in Docs : upload[d] \in {"stored", "written"}} \subseteq racers

TuplesInv ==
  /\ tenant # "gone" /\ ~Deleting => tuples \subseteq {"owner"} \cup rows \cup Writing
  /\ deletion.step = "listed" => tuples \subseteq {"owner"} \cup deletion.docs \cup racers
  /\ Untupled => tuples \subseteq racers

QdrantInv ==
  /\ deletion.step = "teardown" =>
       /\ points \subseteq racers \/ "chunks" \in deletion.names
       /\ racers \cap Jobs = {} => \A c \in Collections : Exists(c) => c \in deletion.names
  /\ Torn => /\ points \subseteq racers
             /\ racers \cap Jobs = {} => \A c \in Collections : ~Exists(c)

ObjectsInv == Emptied => objects \subseteq racers

LeaveInv == PointsInv /\ (faults = 0 => RacersInv /\ TuplesInv /\ QdrantInv /\ ObjectsInv)

LEMMA CountsGrow == CountInv /\ [Next]_vars => CountInv' /\ faults <= faults' /\ deletes <= deletes'
<1>. SUFFICES ASSUME CountInv, [Next]_vars PROVE CountInv' /\ faults <= faults' /\ deletes <= deletes'
  OBVIOUS
<1>1. faults' \in {faults, faults + 1} /\ deletes' \in {deletes, deletes + 1}
  <2>. USE DEF Fault, history, Joins
  <2>1. CASE UNCHANGED vars
    BY <2>1 DEF vars
  <2>2. CASE Create \/ AnswerCreate \/ Compensate
    BY <2>2 DEF Create, AnswerCreate, Compensate
  <2>3. ASSUME NEW d \in Docs, Upload(d)
        PROVE  faults' \in {faults, faults + 1} /\ deletes' \in {deletes, deletes + 1}
    BY <2>3 DEF Upload, StoreObject, WriteRow, UploadFails, CommitUpload
  <2>4. ASSUME NEW j \in Jobs, Run(j)
        PROVE  faults' \in {faults, faults + 1} /\ deletes' \in {deletes, deletes + 1}
    BY <2>4 DEF Run, Begin, Check, CreateCollection, BuildIndexes, Upsert, CommitRun, RunFails
  <2>5. CASE Delete
    BY <2>5 DEF Delete, BeginDelete, DropTuples, ListCollections, DropCollection, EndTeardown,
       DropObjects, RemoveRow, CommitDelete, AbortDelete
  <2>. QED
    BY <2>1, <2>2, <2>3, <2>4, <2>5 DEF Next
<1>. QED
  BY <1>1 DEF CountInv

-------------------------------------------------------------------------------
\* What the steps of a run do while no call fails: only the collection at hand is touched, and
\* only to be there from then on.
LEMMA RunsKeepSetup ==
  ASSUME Inv, CountInv, SetupInv, NEW j \in Jobs, Run(j), faults' = 0, deletes = 0, MaxAttempts > 2
  PROVE  \A i \in Jobs : RunsSetup(i)'
<1>1. faults = 0 /\ ~Deleting /\ (\A i \in Jobs : RunsSetup(i)) /\ ~RunFails(j)
  BY CountsGrow DEF SetupInv, CountInv, Next, RunFails, Fault
<1>2. job \in [Jobs -> JobType] /\ collections \in [Collections -> {"none", "bare", "indexed"}]
  BY DEF Inv, TypeOK, JobType
<1>0. PICK n \in Collections : n = job[j].name
  BY <1>2 DEF JobType
<1>3. \A c \in Collections : Exists(c) => Exists(c)'
  BY <1>0, <1>1, <1>2 DEF Exists, Run, Begin, Check, CreateCollection, BuildIndexes, Upsert, CommitRun, qdrant
<1>4. \A i \in Jobs \ {j} : job'[i] = job[i]
  BY <1>1, <1>2 DEF Run, Begin, Check, CreateCollection, BuildIndexes, Upsert, CommitRun, Moves, GivesBack
<1>5. /\ Exists("chunks") => Exists("chunks")'
      /\ Exists("graph") => Exists("graph")'
  BY <1>3 DEF Collections
<1>6. \A i \in Jobs \ {j} : RunsSetup(i)'
  <2>. SUFFICES ASSUME NEW i \in Jobs \ {j} PROVE RunsSetup(i)'
    OBVIOUS
  <2>1. RunsSetup(i) /\ job'[i] = job[i] /\ job[i] \in JobType
    BY <1>1, <1>2, <1>4
  <2>2. PICK m \in {"chunks", "graph"} : m = job[i].name
    BY <2>1 DEF JobType, Collections
  <2>3. Exists(m) => Exists(m)'
    BY <1>5, <2>2
  <2>4. job[i].step = "index" => Exists(job[i].name)'
    BY <2>1, <2>2, <2>3 DEF RunsSetup, Exists
  <2>. QED
    BY <1>5, <2>1, <2>4 DEF RunsSetup
<1>7. RunsSetup(j) /\ job[j] \in JobType /\ job[j].failed \in Nat
  BY <1>1, <1>2 DEF JobType
<1>8. ASSUME GivesBack(j), UNCHANGED collections, Exists(n), job[j].step = "create"
      PROVE  RunsSetup(j)'
  <2>. DEFINE f == job[j].failed + 1
  <2>1. f \in 1..2 /\ (n = "chunks" => f = 1) /\ f < MaxAttempts
    BY <1>0, <1>7, <1>8 DEF RunsSetup
  <2>2. job'[j].step = "queued" /\ job'[j].failed = f /\ job'[j].name = "chunks"
    <3>. DEFINE q == [Queued EXCEPT !.failed = f]
    <3>1. q.name = "chunks" /\ q.failed = f /\ q \in JobType
      <4>1. Queued \in JobType /\ Queued.name = "chunks"
        BY DEF Queued, JobType, JobSteps, Collections
      <4>2. f \in Nat
        BY <1>7
      <4>. HIDE DEF f
      <4>. QED
        BY <4>1, <4>2 DEF JobType
    <3>2. job'[j] = [q EXCEPT !.step = "queued"]
      BY <1>2, <1>8, <2>1 DEF GivesBack, Queued
    <3>. HIDE DEF q, f
    <3>. QED
      BY <3>1, <3>2 DEF JobType
  <2>3. Exists("chunks") /\ (f = 2 => Exists("graph"))
    BY <1>0, <1>7, <1>8, <2>1 DEF RunsSetup, Collections
  <2>4. Exists("chunks")' /\ (f = 2 => Exists("graph")')
    BY <1>5, <2>3
  <2>. QED
    BY <2>1, <2>2, <2>4 DEF RunsSetup
<1>9. ASSUME Begin(j) \/ CommitRun(j) PROVE RunsSetup(j)'
  <2>1. /\ job'[j].name = job[j].name /\ job'[j].failed = job[j].failed
        /\ job'[j].step \in {"check", "done"}
    BY <1>2, <1>9 DEF Begin, CommitRun, Moves, JobType
  <2>. QED
    BY <1>5, <1>7, <2>1 DEF RunsSetup
<1>10. ASSUME NEW found \in BOOLEAN, job'[j] = AfterCheck(j, found), job[j].step \in {"check", "index"},
              found => Exists(n)', ~found => ~Exists(n)
       PROVE  RunsSetup(j)'
  <2>1. /\ job'[j].failed = job[j].failed
        /\ job'[j].step = IF ~found THEN "create" ELSE IF n = "chunks" THEN "check" ELSE "upsert"
        /\ job'[j].name = IF found /\ n = "chunks" THEN "graph" ELSE n
    BY <1>0, <1>7, <1>10 DEF AfterCheck, JobType
  <2>2. n \in {"chunks", "graph"}
    BY DEF Collections
  <2>3. CASE n = "chunks" /\ found
    BY <1>5, <1>7, <1>10, <2>1, <2>3 DEF RunsSetup
  <2>4. CASE n = "chunks" /\ ~found
    BY <1>5, <1>7, <1>10, <2>1, <2>4 DEF RunsSetup
  <2>5. CASE n = "graph" /\ found
    BY <1>0, <1>5, <1>7, <1>10, <2>1, <2>5 DEF RunsSetup
  <2>6. CASE n = "graph" /\ ~found
    BY <1>0, <1>5, <1>7, <1>10, <2>1, <2>6 DEF RunsSetup
  <2>. QED
    BY <2>2, <2>3, <2>4, <2>5, <2>6
<1>11. ASSUME Check(j) PROVE RunsSetup(j)'
  <2>1. job'[j] = AfterCheck(j, Exists(n)) /\ job[j].step = "check" /\ UNCHANGED collections
    BY <1>0, <1>2, <1>11 DEF Check, qdrant
  <2>2. Exists(n) \in BOOLEAN /\ (Exists(n) => Exists(n)')
    BY <1>3 DEF Exists
  <2>. QED
    BY <1>10, <2>1, <2>2
<1>12. ASSUME CreateCollection(j) PROVE RunsSetup(j)'
  <2>1. CASE Exists(n)
    BY <1>0, <1>8, <1>12, <2>1 DEF CreateCollection
  <2>2. CASE ~Exists(n)
    <3>1. job'[j] = [job[j] EXCEPT !.step = "index"] /\ collections'[n] = "bare"
      BY <1>0, <1>2, <1>12, <2>2 DEF CreateCollection
    <3>2. job'[j].step = "index" /\ job'[j].name = n /\ job'[j].failed = job[j].failed
      BY <1>0, <1>7, <3>1 DEF JobType
    <3>3. Exists(job[j].name)'
      BY <3>1, <3>2 DEF Exists
    <3>4. n = "graph" => Exists("chunks")'
      BY <1>0, <1>5, <1>7 DEF RunsSetup
    <3>. QED
      BY <1>5, <1>7, <3>2, <3>3, <3>4 DEF RunsSetup
  <2>. QED
    BY <2>1, <2>2
<1>13. ASSUME BuildIndexes(j) PROVE RunsSetup(j)'
  <2>1. Exists(n)
    BY <1>0, <1>7, <1>13 DEF BuildIndexes, RunsSetup
  <2>2. job'[j] = AfterCheck(j, TRUE) /\ job[j].step = "index"
    BY <1>0, <1>2, <1>13, <2>1 DEF BuildIndexes
  <2>. QED
    BY <1>3, <1>10, <2>1, <2>2
<1>14. ASSUME Upsert(j) PROVE RunsSetup(j)'
  <2>1. \A c \in Collections : Exists(c)
    BY <1>7, <1>14 DEF Upsert, RunsSetup, Collections
  <2>2. job'[j] = [job[j] EXCEPT !.step = "commit"]
    BY <1>2, <1>14, <2>1 DEF Upsert
  <2>3. job'[j].step = "commit" /\ job'[j].name = job[j].name /\ job'[j].failed = job[j].failed
    BY <1>7, <2>2 DEF JobType
  <2>. QED
    BY <1>5, <1>7, <2>3 DEF RunsSetup
<1>15. RunsSetup(j)'
  BY <1>1, <1>9, <1>11, <1>12, <1>13, <1>14 DEF Run
<1>. QED
  BY <1>6, <1>15

LEMMA OthersKeepSetup ==
  ASSUME CountInv, SetupInv, [Next]_vars, faults' = 0, deletes' = 0,
         UNCHANGED <<collections, job>>
  PROVE  SetupInv'
<1>1. faults = 0 /\ deletes = 0
  BY CountsGrow DEF CountInv
<1>2. ~Deleting /\ \A j \in Jobs : RunsSetup(j)
  BY <1>1 DEF SetupInv
<1>3. \A j \in Jobs : RunsSetup(j)'
  BY <1>2 DEF RunsSetup, Exists
<1>4. deletion' = deletion
  <2>1. ASSUME NEW d \in Docs, Upload(d) PROVE deletion' = deletion
    BY <2>1 DEF Upload, StoreObject, WriteRow, UploadFails, CommitUpload
  <2>2. ASSUME NEW j \in Jobs, Run(j) PROVE deletion' = deletion
    BY <2>2 DEF Run, Begin, Check, CreateCollection, BuildIndexes, Upsert, CommitRun, RunFails
  <2>3. CASE Delete
    BY <1>1, <1>2, <2>3 DEF Delete, BeginDelete, DropTuples, ListCollections, DropCollection,
       EndTeardown, DropObjects, RemoveRow, CommitDelete, AbortDelete, Deletes, Deleting
  <2>4. CASE Create \/ AnswerCreate \/ Compensate \/ UNCHANGED vars
    BY <2>4 DEF Create, AnswerCreate, Compensate, vars
  <2>. QED
    BY <2>1, <2>2, <2>3, <2>4 DEF Next
<1>. QED
  BY <1>2, <1>3, <1>4 DEF SetupInv, Deleting

LEMMA StepSetupInv ==
  ASSUME Inv, CountInv, SetupInv, [Next]_vars, MaxAttempts > 2
  PROVE  SetupInv'
<1>. SUFFICES ASSUME faults' = 0, deletes' = 0 PROVE SetupInv'
  BY DEF SetupInv
<1>1. faults = 0 /\ deletes = 0
  BY CountsGrow DEF CountInv
<1>2. ASSUME NEW j \in Jobs, Run(j) PROVE SetupInv'
  <2>1. \A i \in Jobs : RunsSetup(i)'
    BY <1>1, <1>2, RunsKeepSetup
  <2>2. deletion' = deletion
    BY <1>2 DEF Run, Begin, Check, CreateCollection, BuildIndexes, Upsert, CommitRun, RunFails
  <2>. QED
    BY <1>1, <2>1, <2>2 DEF SetupInv, Deleting
<1>3. ASSUME NEW d \in Docs, Upload(d) PROVE UNCHANGED <<collections, job>>
  BY <1>3 DEF Upload, StoreObject, WriteRow, UploadFails, CommitUpload, qdrant
<1>4. ASSUME Delete PROVE UNCHANGED <<collections, job>>
  BY <1>1, <1>4 DEF Delete, BeginDelete, DropTuples, ListCollections, DropCollection, EndTeardown,
     DropObjects, RemoveRow, CommitDelete, AbortDelete, Deletes, qdrant, SetupInv, Deleting
<1>5. ASSUME Create \/ AnswerCreate \/ Compensate \/ UNCHANGED vars
      PROVE  UNCHANGED <<collections, job>>
  BY <1>5 DEF Create, AnswerCreate, Compensate, vars, qdrant
<1>. QED
  BY <1>2, <1>3, <1>4, <1>5, OthersKeepSetup DEF Next

\* Two runs may both find a collection missing, and the later create fails.  That never costs a
\* job its last attempt, when it has more attempts than the tenant has collections (store.rs:
\* create_chunks_collection, create_graph_collection; job.rs: MAX_ATTEMPTS, which is 3).
THEOREM SetupSurvives ==
  ASSUME MaxAttempts > 2
  PROVE  Spec => []SetupRacesSurvived
<1>1. Init => CountInv /\ SetupInv
  BY DEF Init, CountInv, SetupInv, RunsSetup, Queued, Requested, Deleting
<1>2. Inv /\ CountInv /\ SetupInv /\ [Next]_vars => CountInv' /\ SetupInv'
  BY StepSetupInv, CountsGrow
<1>3. SetupInv => SetupRacesSurvived
  BY DEF SetupInv, RunsSetup, SetupRacesSurvived
<1>. QED
  BY <1>1, <1>2, <1>3, InvHolds, PTL DEF Spec

-------------------------------------------------------------------------------
LEMMA RunsKeepPoints ==
  ASSUME Inv, PointsInv, NEW j \in Jobs, Run(j)
  PROVE  PointsInv' /\ points' \subseteq points \cup {j}
         /\ \A c \in Collections : Exists(c) => Exists(c)'
<1>1. job[j].name \in Collections /\ collections \in [Collections -> {"none", "bare", "indexed"}]
  BY DEF Inv, TypeOK
<1>2. CASE Begin(j) \/ Check(j) \/ CommitRun(j) \/ RunFails(j)
  BY <1>2 DEF Begin, Check, CommitRun, RunFails, qdrant, PointsInv, Exists
<1>3. CASE CreateCollection(j) \/ BuildIndexes(j)
  <2>1. \/ collections' = collections
        \/ \E v \in {"bare", "indexed"} : collections' = [collections EXCEPT ![job[j].name] = v]
    BY <1>3 DEF CreateCollection, BuildIndexes
  <2>2. points' = points
    BY <1>3 DEF CreateCollection, BuildIndexes
  <2>3. \A c \in Collections : Exists(c) => Exists(c)'
    BY <1>1, <2>1 DEF Exists
  <2>. QED
    BY <2>2, <2>3 DEF PointsInv
<1>4. CASE Upsert(j)
  BY <1>4 DEF Upsert, PointsInv, Exists
<1>. QED
  BY <1>2, <1>3, <1>4 DEF Run

LEMMA StepPointsInv ==
  ASSUME Inv, PointsInv, [Next]_vars
  PROVE  PointsInv'
<1>1. ASSUME NEW d \in Docs, Upload(d) PROVE PointsInv'
  BY <1>1 DEF Upload, StoreObject, WriteRow, UploadFails, CommitUpload, qdrant, PointsInv, Exists
<1>2. CASE Create \/ AnswerCreate \/ Compensate \/ UNCHANGED vars
  BY <1>2 DEF Create, AnswerCreate, Compensate, vars, qdrant, PointsInv, Exists
<1>3. ASSUME NEW c \in Collections, DropCollection(c) PROVE PointsInv'
  BY <1>3 DEF DropCollection, qdrant, PointsInv, Exists
<1>4. CASE \/ BeginDelete \/ DropTuples \/ ListCollections \/ EndTeardown \/ DropObjects
           \/ RemoveRow \/ CommitDelete \/ AbortDelete
  BY <1>4 DEF BeginDelete, DropTuples, ListCollections, EndTeardown, DropObjects,
     RemoveRow, CommitDelete, AbortDelete, qdrant, PointsInv, Exists
<1>. QED
  BY <1>1, <1>2, <1>3, <1>4, RunsKeepPoints DEF Next, Delete

\* What racers leave, by the kind of step, while no call fails.
RacerParts == RacersInv /\ TuplesInv /\ QdrantInv /\ ObjectsInv

LEMMA CreationLeaves ==
  ASSUME Inv, CountInv, RacerParts, faults = 0, faults' = 0, Create \/ AnswerCreate \/ Compensate
  PROVE  RacerParts'
<1>. USE DEF RacerParts, RacersInv, TuplesInv, QdrantInv, ObjectsInv, Untupled, Torn, Emptied,
             Deleting, Running, Writing, Exists, stores, qdrant, history
<1>1. ~Compensate
  BY DEF Compensate, Fault
<1>2. ~Deleting /\ tenant # "gone" /\ tenant' # "gone"
  BY <1>1 DEF Create, AnswerCreate, Inv, OrderInv
<1>3. CASE Create
  BY <1>2, <1>3 DEF Create
<1>4. CASE AnswerCreate
  BY <1>2, <1>4 DEF AnswerCreate
<1>. QED
  BY <1>1, <1>3, <1>4

LEMMA UploadLeaves ==
  ASSUME Inv, CountInv, RacerParts, faults = 0, faults' = 0, NEW d \in Docs, Upload(d)
  PROVE  RacerParts'
<1>1. /\ UNCHANGED <<tenant, deletion, points, collections, job>> /\ Running' = Running
      /\ racers \subseteq racers'
      /\ upload \in [Docs -> UploadSteps]
  BY DEF Upload, StoreObject, WriteRow, UploadFails, CommitUpload, qdrant, history, Joins, Running, Inv, TypeOK
<1>2. RacersInv'
  BY <1>1 DEF RacerParts, RacersInv, Upload, StoreObject, WriteRow, UploadFails, CommitUpload, Uploads,
     history, Joins, Deleting, UploadSteps
<1>3. QdrantInv'
  BY <1>1 DEF RacerParts, QdrantInv, Torn, Exists
<1>4. ObjectsInv'
  BY <1>1 DEF RacerParts, ObjectsInv, Emptied, Upload, StoreObject, WriteRow, UploadFails, CommitUpload,
     Joins, Deleting, Perhaps, Fault
<1>5. TuplesInv'
  <2>. USE DEF RacerParts, TuplesInv, RacersInv, Untupled, Writing, Uploads, Deleting, history, Joins
  <2>1. CASE StoreObject(d)
    BY <1>1, <2>1 DEF StoreObject
  <2>2. CASE WriteRow(d)
    BY <1>1, <2>2 DEF WriteRow, Refers
  <2>3. CASE UploadFails(d)
    BY <1>1, <2>3 DEF UploadFails, Fault
  <2>4. CASE CommitUpload(d)
    BY <1>1, <2>4 DEF CommitUpload, Fault
  <2>. QED
    BY <2>1, <2>2, <2>3, <2>4 DEF Upload
<1>. QED
  BY <1>2, <1>3, <1>4, <1>5 DEF RacerParts

LEMMA RunLeaves ==
  ASSUME Inv, CountInv, PointsInv, RacerParts, faults = 0, faults' = 0, NEW j \in Jobs, Run(j)
  PROVE  RacerParts'
<1>1. /\ UNCHANGED <<tenant, rows, tuples, objects, deletion, upload>>
      /\ racers \subseteq racers'
  BY DEF Run, Begin, Check, CreateCollection, BuildIndexes, Upsert, CommitRun, RunFails, stores,
     history, Joins
<1>2. job \in [Jobs -> JobType]
  BY DEF Inv, TypeOK, JobType
<1>3. Running' \subseteq Running \cup {j}
  BY <1>2 DEF Run, Begin, Check, CreateCollection, BuildIndexes, Upsert, CommitRun, RunFails, Running,
     Moves, GivesBack
<1>4. Refers /\ (j \in Running \/ Begin(j))
  <2>1. j \in Running \/ Begin(j)
    BY DEF Run, Check, CreateCollection, BuildIndexes, Upsert, CommitRun, RunFails, Running, Moves
  <2>. QED
    BY <2>1 DEF Begin, Inv, LockInv, Locked
<1>5. Deleting => j \in racers'
  BY <1>1, <1>4 DEF RacerParts, RacersInv, Begin, Joins
<1>6. RacersInv'
  BY <1>1, <1>3, <1>5 DEF RacerParts, RacersInv, Deleting
<1>7. TuplesInv' /\ ObjectsInv'
  BY <1>1 DEF RacerParts, TuplesInv, ObjectsInv, Untupled, Emptied, Writing, Deleting
<1>8. points' \subseteq points \cup {j}
  BY RunsKeepPoints
<1>9. QdrantInv'
  <2>1. tenant' # "gone"
    BY <1>1, <1>4 DEF Refers
  <2>2. CASE ~Deleting
    BY <1>1, <2>1, <2>2 DEF QdrantInv, Torn, Deleting
  <2>3. CASE Deleting
    <3>1. j \in racers' \cap Jobs
      BY <1>5, <2>3
    <3>. QED
      BY <1>1, <1>8, <2>1, <3>1 DEF RacerParts, QdrantInv, Torn
  <2>. QED
    BY <2>2, <2>3
<1>. QED
  BY <1>6, <1>7, <1>9 DEF RacerParts

LEMMA DeleteLeaves ==
  ASSUME Inv, CountInv, PointsInv, RacerParts, faults = 0, faults' = 0, Delete
  PROVE  RacerParts'
<1>. USE DEF RacerParts
<1>2. ~Fault /\ ~AbortDelete
  BY DEF Fault, AbortDelete, CountInv
<1>3. CASE BeginDelete
  <2>1. /\ deletion'.step = "listed" /\ deletion'.docs = rows
        /\ ~Deleting /\ tenant = "live"
        /\ racers' = racers \cup Running \cup {d \in Docs : upload[d] \in {"stored", "written"}}
        /\ UNCHANGED <<tenant, rows, tuples, objects, points, collections, upload, job>>
    BY <1>3 DEF BeginDelete, Requested, Deleting, stores, qdrant
  <2>2. RacersInv'
    BY <2>1 DEF RacersInv, Running
  <2>3. TuplesInv'
    BY <2>1 DEF TuplesInv, Untupled, Writing, Deleting
  <2>. QED
    BY <2>1, <2>2, <2>3 DEF QdrantInv, ObjectsInv, Torn, Emptied
<1>4. ASSUME UNCHANGED <<upload, job, racers>>, Deleting \/ ~Deleting' PROVE RacersInv'
  BY <1>4 DEF RacersInv, Running, Deleting
<1>5. CASE DropTuples
  <2>1. /\ deletion.step = "listed" /\ deletion' = [deletion EXCEPT !.step = "untupled"]
        /\ tuples' = tuples \ ({"owner"} \cup deletion.docs)
        /\ UNCHANGED <<tenant, rows, objects, points, collections, upload, job, racers>>
    BY <1>2, <1>5 DEF DropTuples, Deletes, stores, qdrant, history
  <2>2. deletion'.step = "untupled"
    BY <2>1 DEF Inv, TypeOK
  <2>. QED
    BY <1>4, <2>1, <2>2 DEF TuplesInv, QdrantInv, ObjectsInv, Untupled, Torn, Emptied, Deleting, Exists
<1>6. CASE ListCollections
  <2>1. /\ deletion.step = "untupled"
        /\ deletion' = [deletion EXCEPT !.step = "teardown", !.names = {c \in Collections : Exists(c)}]
        /\ UNCHANGED <<tenant, rows, tuples, objects, points, collections, upload, job, racers>>
    BY <1>2, <1>6 DEF ListCollections, stores, qdrant, history
  <2>2. deletion'.step = "teardown" /\ deletion'.names = {c \in Collections : Exists(c)}
    BY <2>1 DEF Inv, TypeOK
  <2>3. "chunks" \in Collections
    BY DEF Collections
  <2>4. RacersInv' /\ TuplesInv' /\ ObjectsInv'
    BY <1>4, <2>1, <2>2 DEF TuplesInv, ObjectsInv, Untupled, Emptied, Deleting
  <2>5. QdrantInv'
    BY <2>1, <2>2, <2>3 DEF QdrantInv, Torn, Exists, PointsInv
  <2>. QED
    BY <2>4, <2>5
<1>7. ASSUME NEW c \in Collections, DropCollection(c) PROVE RacerParts'
  <2>1. /\ deletion.step = "teardown" /\ deletion' = [deletion EXCEPT !.names = @ \ {c}]
        /\ collections' = [collections EXCEPT ![c] = "none"] /\ points' = {}
        /\ UNCHANGED <<tenant, rows, tuples, objects, upload, job, racers>>
    BY <1>2, <1>7 DEF DropCollection, stores, history
  <2>2. deletion'.step = "teardown" /\ deletion'.names = deletion.names \ {c}
    BY <2>1 DEF Inv, TypeOK
  <2>3. RacersInv' /\ TuplesInv' /\ ObjectsInv'
    BY <1>4, <2>1, <2>2 DEF TuplesInv, ObjectsInv, Untupled, Emptied, Deleting
  <2>4. \A o \in Collections : Exists(o)' => o # c /\ Exists(o)
    BY <2>1 DEF Exists, Inv, TypeOK
  <2>5. QdrantInv'
    BY <2>1, <2>2, <2>4 DEF QdrantInv, Torn
  <2>. QED
    BY <2>3, <2>5
<1>8. CASE EndTeardown
  <2>1. /\ deletion.step = "teardown" /\ deletion.names = {}
        /\ deletion'.step = "torn"
        /\ UNCHANGED <<tenant, rows, tuples, objects, points, collections, upload, job, racers>>
    BY <1>8 DEF EndTeardown, Deletes, stores, qdrant, history, Inv, TypeOK
  <2>. QED
    BY <1>4, <2>1 DEF TuplesInv, QdrantInv, ObjectsInv, Untupled, Torn, Emptied, Deleting, Exists
<1>9. CASE DropObjects
  <2>1. /\ deletion.step = "torn" /\ deletion'.step = "emptied" /\ objects' = {}
        /\ UNCHANGED <<tenant, rows, tuples, points, collections, upload, job, racers>>
    BY <1>2, <1>9 DEF DropObjects, Deletes, qdrant, history, Inv, TypeOK
  <2>. QED
    BY <1>4, <2>1 DEF TuplesInv, QdrantInv, ObjectsInv, Untupled, Torn, Emptied, Deleting, Exists
<1>10. CASE RemoveRow
  <2>1. /\ deletion.step = "emptied" /\ deletion'.step = "removed"
        /\ UNCHANGED <<tenant, rows, tuples, objects, points, collections, upload, job, racers>>
    BY <1>10 DEF RemoveRow, Deletes, stores, qdrant, history, Inv, TypeOK
  <2>. QED
    BY <1>4, <2>1 DEF TuplesInv, QdrantInv, ObjectsInv, Untupled, Torn, Emptied, Deleting, Exists
<1>11. CASE CommitDelete
  <2>1. /\ deletion.step = "removed" /\ deletion'.step = "idle" /\ tenant' = "gone"
        /\ UNCHANGED <<tuples, objects, points, collections, upload, job, racers>>
    BY <1>2, <1>11 DEF CommitDelete, Deletes, qdrant, history, Inv, TypeOK
  <2>. QED
    BY <1>4, <2>1 DEF TuplesInv, QdrantInv, ObjectsInv, Untupled, Torn, Emptied, Deleting, Exists
<1>. QED
  BY <1>2, <1>3, <1>5, <1>6, <1>7, <1>8, <1>9, <1>10, <1>11 DEF Delete

LEMMA StepLeaveInv ==
  ASSUME Inv, CountInv, LeaveInv, [Next]_vars
  PROVE  LeaveInv'
<1>. SUFFICES ASSUME faults' = 0 PROVE RacerParts'
  BY StepPointsInv DEF LeaveInv, RacerParts
<1>1. faults = 0
  BY CountsGrow DEF CountInv
<1>2. RacerParts /\ PointsInv
  BY <1>1 DEF LeaveInv, RacerParts
<1>3. CASE UNCHANGED vars
  BY <1>2, <1>3 DEF vars, stores, qdrant, history, RacerParts, RacersInv, TuplesInv, QdrantInv,
     ObjectsInv, Untupled, Torn, Emptied, Deleting, Running, Writing, Exists
<1>. QED
  BY <1>1, <1>2, <1>3, CreationLeaves, UploadLeaves, RunLeaves, DeleteLeaves DEF Next

\* What is left of a deleted tenant was put there by an upload or a run that was under way
\* during its deletion, unless a call failed (tenants.rs: delete_tenant).
THEOREM RacersLeaveIt == Spec => []OnlyRacersLeave
<1>1. Init => CountInv /\ LeaveInv
  BY DEF Init, CountInv, LeaveInv, PointsInv, RacersInv, TuplesInv, QdrantInv, ObjectsInv, Untupled,
     Torn, Emptied, Deleting, Requested
<1>2. Inv /\ CountInv /\ LeaveInv /\ [Next]_vars => CountInv' /\ LeaveInv'
  BY StepLeaveInv, CountsGrow
<1>3. LeaveInv => OnlyRacersLeave
  BY DEF LeaveInv, TuplesInv, QdrantInv, ObjectsInv, Untupled, Torn, Emptied, OnlyRacersLeave, Exists
<1>. QED
  BY <1>1, <1>2, <1>3, InvHolds, PTL DEF Spec

-------------------------------------------------------------------------------
(***************************************************************************)
(* The ingestion of a document under the tenant's settings.  Every result  *)
(* that came is of a batch of these texts, a good one with their vectors   *)
(* in their order (ResultFits), and the batches cover the texts; so the    *)
(* order in which they came does not matter when they are stitched.        *)
(***************************************************************************)
IsSeq(s) == s \in Seq({s[i] : i \in DOMAIN s})

ResultFits(r) ==
  /\ r.batch \in Batches
  /\ r.ok => r.vectors = [i \in 1..Cardinality(Batch(r.batch)) |-> Vector(First(r.batch) + i - 1)]

SettingsInv == cfg \in Rows \cup {NoRow} /\ secret \in BOOLEAN

RunShape ==
  /\ IsSeq(chunks) /\ IsSeq(results) /\ nodes \in Nat
  /\ vectors = [chunks |-> vectors.chunks, nodes |-> vectors.nodes]

ResultsInv ==
  /\ pc \in Embedding => \A k \in 1..Len(results) : ResultFits(results[k])
  /\ pc \notin Embedding => results = <<>>

Embedded(n, step) == [i \in 1..n |-> <<embedder, step, i>>]

VectorsInv ==
  /\ pc \in {"select", "extract", "embedNodes", "done"} => vectors.chunks = Embedded(Len(chunks), "embedChunks")
  /\ pc = "done" => vectors.nodes = Embedded(nodes, "embedNodes")
  /\ pc # "done" => vectors.nodes = <<>>

RunInv == RunShape /\ ResultsInv /\ VectorsInv

-------------------------------------------------------------------------------
\* Every settings row there is, is resolved alike.
LEMMA RowsAgree == SettingsInv => ResolversAgree
<1>. SUFFICES ASSUME SettingsInv PROVE ResolversAgree
  OBVIOUS
<1>. DEFINE url   == IF cfg.url THEN "tenant" ELSE IF cfg.provider = "openai" THEN "openai" ELSE "platform"
            chat  == IF cfg.llm THEN [url |-> url, key |-> "tenant"] ELSE Platform
<1>1. CASE cfg = NoRow
  <2>1. ResolveLlm(cfg) = [embed |-> "ollama", chat |-> Platform]
    BY <1>1 DEF ResolveLlm
  <2>2. SelectEmbedder(cfg) = "ollama"
    BY <1>1 DEF SelectEmbedder
  <2>3. SelectExtractor(cfg) = Platform
    BY <1>1 DEF SelectExtractor
  <2>4. GetSettings(cfg) = "unconfigured"
    BY <1>1 DEF GetSettings
  <2>. QED
    BY <1>1, <2>1, <2>2, <2>3, <2>4 DEF ResolversAgree, Error, Platform, Unreadable
<1>2. CASE cfg \in Rows
  <2>1. /\ cfg.provider \in {"ollama", "openai"} /\ cfg.key \in {"none", "blank", "plain", "sealed", "unreadable"}
        /\ cfg.enabled \in BOOLEAN /\ cfg # NoRow /\ secret \in BOOLEAN
    BY <1>2 DEF Rows, NoRow, SettingsInv
  <2>2. PICK key \in {"tenant", "none", Error} :
          /\ MaskedKey(cfg) = key /\ ByokKey(cfg) = key /\ GraphKey(cfg) = key
          /\ ResolveLlm(cfg) =
               IF ~cfg.enabled THEN [embed |-> "ollama", chat |-> Platform]
               ELSE IF key = Error THEN [embed |-> Error, chat |-> Unreadable]
               ELSE IF key = "none" THEN [embed |-> "ollama", chat |-> Platform]
               ELSE [embed |-> cfg.provider, chat |-> chat]
    <3>. USE DEF MaskedKey, ByokKey, GraphKey, ResolveLlm, Decrypt, Error
    <3>1. CASE cfg.key \in {"none", "blank"}
      BY <2>1, <3>1
    <3>2. CASE cfg.key = "plain"
      BY <2>1, <3>2
    <3>3. CASE cfg.key \in {"sealed", "unreadable"}
      BY <2>1, <3>3
    <3>. QED
      BY <2>1, <3>1, <3>2, <3>3
  <2>3. GetSettings(cfg) = key
    BY <2>1, <2>2 DEF GetSettings
  <2>4. SelectEmbedder(cfg) =
          IF ~cfg.enabled \/ cfg.provider # "openai" \/ key = "none" THEN "ollama"
          ELSE IF key = Error THEN Error ELSE "openai"
    BY <2>1, <2>2 DEF SelectEmbedder, Error
  <2>5. SelectExtractor(cfg) =
          IF ~cfg.enabled THEN Platform ELSE IF key = Error THEN Unreadable
          ELSE IF key = "tenant" THEN chat ELSE Platform
    BY <2>1, <2>2 DEF SelectExtractor, Error
  <2>. HIDE DEF url
  <2>. QED
    BY <2>1, <2>2, <2>3, <2>4, <2>5 DEF ResolversAgree, Error, Platform, Unreadable
<1>. QED
  BY <1>1, <1>2 DEF SettingsInv

\* The API, the worker and the settings page agree about the tenant's key whatever the owner
\* puts and whenever (byok.rs:58-152, embedding.rs:489-579, graph.rs:291-392 of the worker,
\* settings.rs:289-320).
THEOREM SettingsAreReadAlike == RunSpec => []ResolversAgree
<1>1. RunInit => SettingsInv
  BY DEF RunInit, SettingsInv
<1>2. SettingsInv /\ [RunNext]_runVars => SettingsInv'
  <2>. SUFFICES ASSUME SettingsInv, [RunNext]_runVars PROVE SettingsInv'
    OBVIOUS
  <2>. USE PutsAssumption DEF SettingsInv, settingVars
  <2>1. ASSUME NEW row \in Puts, Put(row) PROVE SettingsInv'
    BY <2>1 DEF Put
  <2>2. CASE Download \/ Parse \/ SelectsEmbedder \/ Stitch \/ SelectsExtractor \/ Extract \/ ExtractFails
    BY <2>2 DEF Download, Parse, SelectsEmbedder, Stitch, SelectsExtractor, Extract, ExtractFails
  <2>3. ASSUME NEW from, NEW to, Chunk(from, to) PROVE SettingsInv'
    BY <2>3 DEF Chunk
  <2>4. ASSUME NEW b, Answer(b) \/ AttemptFails(b) PROVE SettingsInv'
    BY <2>4 DEF Answer, AttemptFails
  <2>5. CASE UNCHANGED runVars
    BY <2>5 DEF runVars
  <2>. QED
    BY <2>1, <2>2, <2>3, <2>4, <2>5 DEF RunNext
<1>. QED
  BY <1>1, <1>2, RowsAgree, PTL DEF RunSpec

-------------------------------------------------------------------------------
LEMMA AppendIs ==
  ASSUME NEW s, NEW x, IsSeq(s)
  PROVE  LET t == Append(s, x)
         IN  /\ IsSeq(t) /\ Len(s) \in Nat /\ Len(t) = Len(s) + 1
             /\ t[Len(s) + 1] = x /\ \A i \in 1..Len(s) : t[i] = s[i]
<1>. DEFINE R == {s[i] : i \in DOMAIN s}  S == R \cup {x}  t == Append(s, x)
<1>1. s \in Seq(S) /\ x \in S
  <2>1. s \in Seq(R)
    BY DEF IsSeq
  <2>. HIDE DEF R
  <2>. QED
    BY <2>1
<1>. HIDE DEF S
<1>2. /\ Len(s) \in Nat /\ t \in Seq(S) /\ Len(t) = Len(s) + 1
      /\ t[Len(s) + 1] = x /\ \A i \in 1..Len(s) : t[i] = s[i]
  BY <1>1
<1>. HIDE DEF t
<1>3. IsSeq(t)
  <2>. DEFINE T == {t[i] : i \in DOMAIN t}
  <2>1. DOMAIN t = 1..Len(t) /\ Len(t) \in Nat /\ t = [i \in 1..Len(t) |-> t[i]]
    BY <1>2
  <2>2. \A i \in 1..Len(t) : t[i] \in T
    BY <2>1
  <2>. HIDE DEF T
  <2>3. t \in Seq(T)
    BY <2>1, <2>2
  <2>. QED
    BY <2>3 DEF IsSeq, T
<1>. QED
  BY <1>2, <1>3 DEF t

\* The batches of n texts, B each, cover them.
LEMMA Division ==
  ASSUME NEW n \in Nat, NEW B \in Nat \ {0}, NEW i \in 1..n
  PROVE  \E b \in 1..((n + B - 1) \div B) : (b - 1) * B + 1 <= i /\ i <= (b - 1) * B + B
<1>1. \A x \in Nat : x \div B \in Nat /\ B * (x \div B) <= x /\ x < B * (x \div B) + B
  OBVIOUS
<1>2. \A p, q \in Nat : B * p < B * q => p + 1 <= q
  <2>1. \A p, q \in Nat : q <= p => B * q <= B * p
    OBVIOUS
  <2>2. \A p \in Nat : B * p \in Nat
    OBVIOUS
  <2>. QED
    BY <2>1, <2>2
<1>a. i - 1 \in Nat /\ n + B - 1 \in Nat
  OBVIOUS
<1>3. PICK q \in Nat : B * q <= i - 1 /\ i - 1 < B * q + B
  BY <1>1, <1>a
<1>4. PICK c \in Nat : c = (n + B - 1) \div B /\ n + B - 1 < B * c + B
  <2>1. \A x \in Nat : \E c \in Nat : c = x \div B /\ x < B * c + B
    BY <1>1
  <2>. QED
    BY <1>a, <2>1
<1>5. B * q \in Nat /\ B * c \in Nat /\ (q + 1 - 1) * B = B * q
  OBVIOUS
<1>6. B * q < B * c
  BY <1>3, <1>4, <1>5
<1>7. q + 1 \in 1..c
  BY <1>2, <1>6
<1>8. (q + 1 - 1) * B + 1 <= i /\ i <= (q + 1 - 1) * B + B
  BY <1>3, <1>5
<1>. QED
  BY <1>4, <1>7, <1>8

\* Every text is of some batch, and a batch is a part of the texts.
LEMMA BatchesCover ==
  ASSUME Texts \in Nat
  PROVE  /\ \A b \in Batches : First(b) \in Nat \ {0} /\ Batch(b) \subseteq 1..Texts
         /\ \A i \in 1..Texts : \E b \in Batches : i \in Batch(b)
<1>. DEFINE n == Texts  B == BatchSize
<1>. n \in Nat /\ B \in Nat \ {0}
  BY BatchAssumption
<1>1. Batches \subseteq Nat \ {0}
  <2>1. (n + B - 1) \div B \in Int
    OBVIOUS
  <2>. QED
    BY <2>1 DEF Batches
<1>2. ASSUME NEW b \in Batches PROVE First(b) \in Nat \ {0} /\ Batch(b) \subseteq 1..n
  <2>1. \A p \in Nat : p * B \in Nat
    OBVIOUS
  <2>2. b - 1 \in Nat
    BY <1>1
  <2>3. PICK f \in Nat \ {0} : f = First(b)
    BY <2>1, <2>2 DEF First
  <2>. HIDE DEF n, B
  <2>4. Batch(b) = f .. IF f + B - 1 < n THEN f + B - 1 ELSE n
    BY <2>3 DEF Batch, n, B
  <2>. QED
    BY <2>3, <2>4 DEF n
<1>3. ASSUME NEW i \in 1..n PROVE \E b \in Batches : i \in Batch(b)
  <2>. HIDE DEF n, B
  <2>1. PICK b \in 1..((n + B - 1) \div B) : (b - 1) * B + 1 <= i /\ i <= (b - 1) * B + B
    BY Division
  <2>2. b \in Batches
    BY <2>1 DEF Batches, n, B
  <2>3. PICK f \in Nat \ {0} : f = First(b) /\ f = (b - 1) * B + 1
    BY <1>2, <2>2 DEF First, B
  <2>4. (b - 1) * B = f - 1
    <3>1. (b - 1) * B \in Int
      <4>1. b - 1 \in Int
        BY <1>1, <2>2
      <4>. HIDE DEF B
      <4>. QED
        BY <4>1
    <3>. QED
      BY <2>3, <3>1
  <2>5. f <= i /\ i <= f + B - 1
    BY <2>1, <2>4
  <2>6. Batch(b) = f .. IF f + B - 1 < n THEN f + B - 1 ELSE n
    BY <2>3 DEF Batch, n, B
  <2>7. i \in Batch(b)
    BY <2>5, <2>6
  <2>. QED
    BY <2>2, <2>7
<1>. QED
  BY <1>1, <1>2, <1>3

\* Stitched, good batches put the vector of every text at its place.
LEMMA StitchedFits ==
  ASSUME Texts \in Nat, Len(results) \in Nat, Answered = Batches,
         \A k \in 1..Len(results) : results[k].ok /\ ResultFits(results[k])
  PROVE  Stitched = [i \in 1..Texts |-> Vector(i)]
<1>. SUFFICES ASSUME NEW i \in 1..Texts
              PROVE  LET r == CHOOSE k \in 1..Len(results) : i \in Batch(results[k].batch)
                     IN  results[r].vectors[i - First(results[r].batch) + 1] = Vector(i)
  BY DEF Stitched
<1>1. \E k \in 1..Len(results) : i \in Batch(results[k].batch)
  <2>1. PICK b \in Batches : i \in Batch(b)
    BY BatchesCover
  <2>2. b \in Answered
    BY <2>1
  <2>. QED
    BY <2>1, <2>2 DEF Answered
<1>. DEFINE r == CHOOSE k \in 1..Len(results) : i \in Batch(results[k].batch)  b == results[r].batch
<1>2. r \in 1..Len(results) /\ i \in Batch(b)
  BY <1>1
<1>3. b \in Batches /\ results[r].vectors = [j \in 1..Cardinality(Batch(b)) |-> Vector(First(b) + j - 1)]
  BY <1>2 DEF ResultFits
<1>. HIDE DEF r, b
<1>4. PICK f \in Nat, g \in Nat : f = First(b) /\ Batch(b) = f..g /\ f <= i /\ i <= g
  <2>1. First(b) \in Nat \ {0} /\ Batch(b) \subseteq 1..Texts
    BY <1>3, BatchesCover
  <2>. DEFINE g == IF First(b) + BatchSize - 1 < Texts THEN First(b) + BatchSize - 1 ELSE Texts
  <2>2. g \in Nat /\ Batch(b) = First(b)..g
    BY <2>1, BatchAssumption DEF Batch
  <2>. HIDE DEF g
  <2>3. First(b) <= i /\ i <= g
    BY <1>2, <2>1, <2>2
  <2>. QED
    BY <2>1, <2>2, <2>3
<1>5. Cardinality(Batch(b)) = g - f + 1
  BY <1>4, FS_Interval
<1>6. i - f + 1 \in 1..Cardinality(Batch(b)) /\ f + (i - f + 1) - 1 = i
  BY <1>4, <1>5
<1>7. results[r].vectors[i - f + 1] = Vector(f + (i - f + 1) - 1)
  BY <1>3, <1>4, <1>6
<1>8. results[r].vectors[i - First(b) + 1] = Vector(i)
  BY <1>4, <1>6, <1>7
<1>. QED
  BY <1>8 DEF r, b

-------------------------------------------------------------------------------
LEMMA RunStarts == RunInit => RunInv
<1>. SUFFICES ASSUME RunInit PROVE RunInv
  OBVIOUS
<1>1. /\ pc = "download" /\ chunks = <<>> /\ nodes = 0 /\ results = <<>>
      /\ vectors = [chunks |-> <<>>, nodes |-> <<>>]
  BY DEF RunInit
<1>2. IsSeq(<<>>)
  BY DEF IsSeq
<1>3. RunShape
  BY <1>1, <1>2 DEF RunShape
<1>. QED
  BY <1>1, <1>3 DEF RunInv, ResultsInv, VectorsInv, Embedding

\* An answer, and an attempt that fails for good, are results of a batch.
LEMMA ResultsKeepInv ==
  ASSUME RunInv, NEW b, Answer(b) \/ AttemptFails(b)
  PROVE  RunInv'
<1>1. /\ pc \in Embedding /\ b \in Batches
      /\ UNCHANGED <<pc, chunks, embedder, nodes, vectors>>
  BY DEF Answer, AttemptFails, InFlight
<1>2. Texts' = Texts
  BY <1>1 DEF Texts
<1>3. \A r : ResultFits(r) => ResultFits(r)'
  BY <1>1, <1>2 DEF ResultFits, Batches, Batch, First, Vector
<1>4. results' = results \/ \E r : ResultFits(r) /\ results' = Append(results, r)
  BY <1>1 DEF Answer, AttemptFails, ResultFits
<1>5. IsSeq(results') /\ \A k \in 1..Len(results') : ResultFits(results'[k])
  <2>0. IsSeq(results) /\ \A k \in 1..Len(results) : ResultFits(results[k])
    BY <1>1 DEF RunInv, RunShape, ResultsInv
  <2>1. CASE results' = results
    BY <2>0, <2>1
  <2>2. CASE \E r : ResultFits(r) /\ results' = Append(results, r)
    <3>1. PICK r : ResultFits(r) /\ results' = Append(results, r)
      BY <2>2
    <3>2. /\ IsSeq(results') /\ Len(results) \in Nat /\ Len(results') = Len(results) + 1
          /\ results'[Len(results) + 1] = r /\ \A i \in 1..Len(results) : results'[i] = results[i]
      BY <2>0, <3>1, AppendIs
    <3>. QED
      BY <2>0, <3>1, <3>2
  <2>. QED
    BY <1>4, <2>1, <2>2
<1>6. RunShape'
  BY <1>1, <1>5 DEF RunInv, RunShape, IsSeq
<1>7. ResultsInv'
  BY <1>1, <1>3, <1>5 DEF ResultsInv
<1>8. VectorsInv'
  BY <1>1 DEF RunInv, VectorsInv, Embedded
<1>. QED
  BY <1>6, <1>7, <1>8 DEF RunInv

LEMMA StitchKeepsInv ==
  ASSUME RunInv, Stitch
  PROVE  RunInv'
<1>1. /\ pc \in Embedding /\ Answered = Batches /\ results' = <<>>
      /\ UNCHANGED <<chunks, embedder, nodes>>
  BY DEF Stitch
<1>2. Len(chunks) \in Nat /\ Len(results) \in Nat /\ Texts \in Nat
  BY DEF RunInv, RunShape, IsSeq, Texts
<1>3. IsSeq(<<>>)
  BY DEF IsSeq
<1>4. CASE \E k \in 1..Len(results) : ~results[k].ok
  <2>1. pc' = "failed" /\ vectors' = vectors
    BY <1>4 DEF Stitch
  <2>2. RunShape' /\ ResultsInv'
    BY <1>1, <1>3, <2>1 DEF RunInv, RunShape, ResultsInv, Embedding, IsSeq
  <2>3. VectorsInv'
    BY <1>1, <2>1 DEF RunInv, VectorsInv, Embedding
  <2>. QED
    BY <2>2, <2>3 DEF RunInv
<1>5. CASE ~\E k \in 1..Len(results) : ~results[k].ok
  <2>1. \A k \in 1..Len(results) : results[k].ok /\ ResultFits(results[k])
    BY <1>1, <1>5 DEF RunInv, ResultsInv
  <2>2. Stitched = [i \in 1..Texts |-> Vector(i)]
    BY <1>1, <1>2, <2>1, StitchedFits
  <2>3. CASE pc = "embedChunks"
    <3>1. pc' = "select" /\ vectors' = [vectors EXCEPT !.chunks = Stitched]
      BY <1>5, <2>3 DEF Stitch, Go
    <3>2. Stitched = Embedded(Len(chunks), "embedChunks")
      BY <2>2, <2>3 DEF Texts, Vector, Embedded
    <3>3. vectors' = [chunks |-> Embedded(Len(chunks), "embedChunks"), nodes |-> vectors.nodes]
      BY <3>1, <3>2 DEF RunInv, RunShape
    <3>4. vectors.nodes = <<>>
      BY <2>3 DEF RunInv, VectorsInv
    <3>5. RunShape' /\ ResultsInv'
      BY <1>1, <1>3, <3>1, <3>3 DEF RunInv, RunShape, ResultsInv, Embedding, IsSeq
    <3>6. VectorsInv'
      BY <1>1, <3>1, <3>3, <3>4 DEF VectorsInv, Embedded
    <3>. QED
      BY <3>5, <3>6 DEF RunInv
  <2>4. CASE pc = "embedNodes"
    <3>1. pc' = "done" /\ vectors' = [vectors EXCEPT !.nodes = Stitched]
      BY <1>5, <2>4 DEF Stitch, Go
    <3>2. Stitched = Embedded(nodes, "embedNodes")
      BY <2>2, <2>4 DEF Texts, Vector, Embedded
    <3>3. vectors' = [chunks |-> vectors.chunks, nodes |-> Embedded(nodes, "embedNodes")]
      BY <3>1, <3>2 DEF RunInv, RunShape
    <3>4. vectors.chunks = Embedded(Len(chunks), "embedChunks")
      BY <2>4 DEF RunInv, VectorsInv
    <3>5. RunShape' /\ ResultsInv'
      BY <1>1, <1>3, <3>1, <3>3 DEF RunInv, RunShape, ResultsInv, Embedding, IsSeq
    <3>6. VectorsInv'
      BY <1>1, <3>1, <3>3, <3>4 DEF VectorsInv, Embedded
    <3>. QED
      BY <3>5, <3>6 DEF RunInv
  <2>. QED
    BY <1>1, <2>3, <2>4 DEF Embedding
<1>. QED
  BY <1>4, <1>5

LEMMA RunStep == RunInv /\ [RunNext]_runVars => RunInv'
<1>. SUFFICES ASSUME RunInv, [RunNext]_runVars PROVE RunInv'
  OBVIOUS
<1>. USE DEF settingVars, embedVars, Go
<1>1. CASE Download \/ Parse \/ SelectsExtractor \/ ExtractFails \/ \E row \in Puts : Put(row)
  <2>1. /\ UNCHANGED <<chunks, embedder, nodes, results, vectors>>
        /\ \/ pc' = pc
           \/ pc \in {"download", "parse"} /\ pc' \in {"parse", "chunk", "failed"}
           \/ pc \in {"select", "extract"} /\ pc' \in {"extract", "failed"}
    BY <1>1 DEF Download, Parse, SelectsExtractor, ExtractFails, Put
  <2>2. Texts' = Texts \/ pc' # pc
    BY <2>1 DEF Texts
  <2>3. ResultsInv'
    <3>1. CASE pc' = pc
      BY <2>1, <2>2, <3>1 DEF RunInv, ResultsInv, ResultFits, Batches, Batch, First, Vector
    <3>2. CASE pc' # pc
      BY <2>1, <3>2 DEF RunInv, ResultsInv, Embedding
    <3>. QED
      BY <3>1, <3>2
  <2>4. RunShape' /\ VectorsInv'
    BY <2>1 DEF RunInv, RunShape, VectorsInv, Embedded, IsSeq
  <2>. QED
    BY <2>3, <2>4 DEF RunInv
<1>2. ASSUME NEW from, NEW to, Chunk(from, to) PROVE RunInv'
  <2>1. /\ pc = "chunk" /\ pc' \in {"chunk", "panicked"}
        /\ UNCHANGED <<embedder, nodes, results, vectors>>
        /\ chunks' = chunks \/ \E c : chunks' = Append(chunks, c)
    BY <1>2 DEF Chunk
  <2>2. IsSeq(chunks')
    <3>1. IsSeq(chunks)
      BY DEF RunInv, RunShape
    <3>2. ASSUME NEW c, chunks' = Append(chunks, c) PROVE IsSeq(chunks')
      <4>1. IsSeq(Append(chunks, c))
        BY <3>1, AppendIs
      <4>. QED
        BY <3>2, <4>1
    <3>3. chunks' = chunks => IsSeq(chunks')
      BY <3>1
    <3>. QED
      BY <2>1, <3>2, <3>3
  <2>. QED
    BY <2>1, <2>2 DEF RunInv, RunShape, ResultsInv, VectorsInv, Embedding, IsSeq
<1>3. CASE SelectsEmbedder
  <2>1. /\ pc = "chunk" /\ pc' \in {"failed", "embedChunks"}
        /\ UNCHANGED <<chunks, nodes, results, vectors>>
    BY <1>3 DEF SelectsEmbedder
  <2>2. results = <<>>
    BY <2>1 DEF RunInv, ResultsInv, Embedding
  <2>. QED
    BY <2>1, <2>2 DEF RunInv, RunShape, ResultsInv, VectorsInv, Embedding, IsSeq
<1>4. CASE Extract
  <2>1. /\ pc = "extract" /\ UNCHANGED <<chunks, embedder, results, vectors>>
        /\ nodes' \in Nat
        /\ \/ pc' = "done" /\ nodes' = 0
           \/ pc' = "embedNodes"
    BY <1>4, RunBoundAssumption DEF Extract
  <2>2. results = <<>> /\ vectors.nodes = <<>> /\ vectors.chunks = Embedded(Len(chunks), "embedChunks")
    BY <2>1 DEF RunInv, ResultsInv, VectorsInv, Embedding
  <2>3. [i \in 1..0 |-> <<embedder, "embedNodes", i>>] = <<>>
    OBVIOUS
  <2>4. RunShape' /\ ResultsInv'
    BY <2>1, <2>2 DEF RunInv, RunShape, ResultsInv, IsSeq
  <2>5. VectorsInv'
    BY <2>1, <2>2, <2>3 DEF VectorsInv, Embedded
  <2>. QED
    BY <2>4, <2>5 DEF RunInv
<1>5. ASSUME NEW b, Answer(b) \/ AttemptFails(b) PROVE RunInv'
  BY <1>5, ResultsKeepInv
<1>6. CASE UNCHANGED runVars
  <2>1. UNCHANGED <<pc, chunks, embedder, nodes, results, vectors>>
    BY <1>6 DEF runVars
  <2>2. ResultsInv'
    BY <2>1 DEF RunInv, ResultsInv, ResultFits, Batches, Batch, First, Vector, Texts
  <2>3. RunShape' /\ VectorsInv'
    BY <2>1 DEF RunInv, RunShape, VectorsInv, Embedded, IsSeq
  <2>. QED
    BY <2>2, <2>3 DEF RunInv
<1>. QED
  BY <1>1, <1>2, <1>3, <1>4, <1>5, <1>6, StitchKeepsInv DEF RunNext

\* Whatever order the batches come back in, however many attempts fail and whatever the owner
\* puts meanwhile, a run that is done hands over the vector of each text at its place, of the
\* one embedder it selected (embedding.rs:149-182, 405-445, job.rs:166-209).
THEOREM VectorsArePlaced == RunSpec => []VectorsFitTexts
<1>1. RunInv => VectorsFitTexts
  BY DEF RunInv, VectorsInv, VectorsFitTexts, Embedded
<1>. QED
  BY <1>1, RunStarts, RunStep, PTL DEF RunSpec

-------------------------------------------------------------------------------
\* The smallest of a set of numbers.
LEMMA Smallest ==
  ASSUME NEW T \in SUBSET Nat, T # {}
  PROVE  \E x \in T : \A y \in T : x <= y
<1>. DEFINE R == StrictSubsetOrdering(T)  F == FiniteSubsetsOf(T)
            Below(x) == {y \in T : y <= x}   B == {Below(x) : x \in T}
<1>1. IsWellFoundedOn(R, F)
  BY FS_StrictSubsetOrderingWellFounded
<1>2. B \subseteq F /\ B # {}
  <2>1. ASSUME NEW x \in T PROVE Below(x) \in SUBSET T /\ IsFiniteSet(Below(x))
    <3>a. x \in Nat /\ IsFiniteSet(0..x)
      BY FS_Interval
    <3>1. Below(x) \subseteq 0..x
      <4>. SUFFICES ASSUME NEW y \in T, y <= x PROVE y \in 0..x
        OBVIOUS
      <4>1. y \in Nat
        OBVIOUS
      <4>. QED
        BY <3>a, <4>1
    <3>. HIDE DEF Below
    <3>2. IsFiniteSet(Below(x))
      BY <3>a, <3>1, FS_Subset
    <3>. QED
      BY <3>2 DEF Below
  <2>. HIDE DEF Below
  <2>. QED
    BY <2>1 DEF FiniteSubsetsOf
<1>3. \A X, Y \in F : X \subseteq Y /\ X # Y => <<X, Y>> \in R
  BY DEF StrictSubsetOrdering, FiniteSubsetsOf
<1>. HIDE DEF R, F
<1>4. PICK X \in B : \A Y \in B : ~(<<Y, X>> \in R)
  <2>. HIDE DEF B
  <2>. QED
    BY <1>1, <1>2, WFMin
<1>5. PICK x \in T : X = Below(x)
  BY <1>4
<1>6. ASSUME NEW y \in T, y < x PROVE FALSE
  <2>a. x \in Nat /\ y \in Nat
    OBVIOUS
  <2>b. ASSUME NEW z \in T, z <= y PROVE z <= x
    <3>1. z \in Nat
      OBVIOUS
    <3>. QED
      BY <1>6, <2>a, <2>b, <3>1
  <2>1. Below(y) \subseteq Below(x)
    BY <2>b
  <2>2. x \in Below(x) /\ x \notin Below(y)
    BY <1>6, <2>a
  <2>3. Below(y) \in B
    OBVIOUS
  <2>. HIDE DEF Below
  <2>4. <<Below(y), X>> \in R
    BY <1>2, <1>3, <1>4, <1>5, <2>1, <2>2, <2>3
  <2>. QED
    BY <1>4, <2>3, <2>4
<1>. QED
  BY <1>6

\* Induction, by the smallest number that is not in the set.
LEMMA Climb ==
  ASSUME NEW m \in Nat, NEW n \in Nat, NEW P, m \in P, \A k \in m+1..n : k - 1 \in P => k \in P
  PROVE  m..n \subseteq P
<1>. DEFINE T == (m..n) \ P
<1>. SUFFICES ASSUME T # {} PROVE FALSE
  OBVIOUS
<1>1. PICK k \in T : \A j \in T : k <= j
  <2>1. T \in SUBSET Nat
    OBVIOUS
  <2>. HIDE DEF T
  <2>. QED
    BY <2>1, Smallest
<1>2. k \in m+1..n /\ k - 1 \in m..n /\ k - 1 \notin T
  BY <1>1
<1>. QED
  BY <1>1, <1>2

\* A function may be defined by recursion over an interval.
Steps(A, a, m, n, step) ==
  a \in A /\ m \in Nat /\ n \in Nat /\ m <= n /\ step \in [(m..n) \X A -> A]
Recursive(A, a, m, n, step, f) ==
  f \in [m..n -> A] /\ \A i \in m..n : f[i] = IF i = m THEN a ELSE step[<<i, f[i - 1]>>]

LEMMA Recursion ==
  ASSUME NEW A, NEW a, NEW m, NEW n, NEW step, Steps(A, a, m, n, step)
  PROVE  \E f : Recursive(A, a, m, n, step, f)
<1>. USE DEF Steps, Recursive
<1>. DEFINE Solves(f, k) == /\ f \in [m..k -> A]
                          /\ \A i \in m..k : f[i] = IF i = m THEN a ELSE step[<<i, f[i - 1]>>]
            P == {k \in m..n : \E f : Solves(f, k)}
<1>1. m \in P
  <2>1. Solves([i \in m..m |-> a], m)
    OBVIOUS
  <2>. HIDE DEF Solves
  <2>. QED
    BY <2>1
<1>2. ASSUME NEW k \in m+1..n, k - 1 \in P PROVE k \in P
  <2>1. PICK f : Solves(f, k - 1)
    BY <1>2
  <2>. DEFINE g == [i \in m..k |-> IF i = k THEN step[<<k, f[k - 1]>>] ELSE f[i]]
  <2>2. k \in m..n /\ k # m /\ k - 1 \in m..k-1
    OBVIOUS
  <2>3. f[k - 1] \in A /\ <<k, f[k - 1]>> \in (m..n) \X A
    BY <2>1, <2>2
  <2>4. g \in [m..k -> A]
    BY <2>1, <2>2, <2>3
  <2>5. ASSUME NEW i \in m..k PROVE g[i] = IF i = m THEN a ELSE step[<<i, g[i - 1]>>]
    <3>1. CASE i = k
      <4>1. k - 1 \in m..k /\ k - 1 # k
        OBVIOUS
      <4>2. g[k] = step[<<k, f[k - 1]>>] /\ g[k - 1] = f[k - 1]
        BY <2>2, <4>1
      <4>. QED
        BY <2>2, <3>1, <4>2
    <3>2. CASE i # k
      <4>1. i \in m..k-1 /\ g[i] = f[i]
        BY <3>2
      <4>2. i # m => i - 1 \in m..k /\ i - 1 # k
        OBVIOUS
      <4>3. i # m => g[i - 1] = f[i - 1]
        BY <4>2
      <4>4. f[i] = IF i = m THEN a ELSE step[<<i, f[i - 1]>>]
        BY <2>1, <4>1
      <4>. HIDE DEF g
      <4>. QED
        BY <4>1, <4>3, <4>4
    <3>. QED
      BY <3>1, <3>2
  <2>6. Solves(g, k)
    <3>. HIDE DEF g
    <3>. QED
      BY <2>4, <2>5
  <2>. HIDE DEF Solves, g
  <2>. QED
    BY <2>2, <2>6
<1>3. n \in P
  <2>1. m..n \subseteq P
    <3>. HIDE DEF P
    <3>1. \A k \in m+1..n : k - 1 \in P => k \in P
      BY <1>2
    <3>2. m \in Nat /\ n \in Nat
      OBVIOUS
    <3>. HIDE DEF Steps, Recursive
    <3>. QED
      BY <1>1, <3>1, <3>2, Climb
  <2>2. n \in m..n
    OBVIOUS
  <2>. HIDE DEF P, Steps, Recursive
  <2>. QED
    BY <2>1, <2>2
<1>. QED
  BY <1>3

-------------------------------------------------------------------------------
\* The characters, of which the one between two pages is one.
Char == STRING \cup {" "}

LEMMA Between == <<" ">> \in Seq(Char) /\ Len(<<" ">>) = 1 /\ <<" ">>[1] = " "
<1>1. \A S : \A x \in S : <<x>> \in Seq(S)
  OBVIOUS
<1>2. " " \in Char
  BY DEF Char
<1>. QED
  BY <1>1, <1>2

\* Where the pages start in the joined text, page by page.
Gap(doc, i) == IF i - 1 \in Ink(doc) /\ \E j \in Ink(doc) : j >= i THEN 1 ELSE 0

LEMMA StartIs ==
  ASSUME NEW doc \in Seq(Seq(Char))
  PROVE  LET S == Start(doc)
             n == Len(doc)
         IN  /\ S \in [1..n+1 -> Nat] /\ S[1] = 0
             /\ \A i \in 2..n+1 : S[i] = S[i - 1] + Len(doc[i - 1]) + Gap(doc, i)
<1>. DEFINE n == Len(doc)  S == Start(doc)
            step == [p \in (1..n+1) \X Nat |-> IF p[1] = 1 THEN 0
                                               ELSE p[2] + Len(doc[p[1] - 1]) + Gap(doc, p[1])]
            Eq(f) == f = [i \in 1..n+1 |-> IF i = 1 THEN 0
                                           ELSE f[i - 1] + Len(doc[i - 1]) + Gap(doc, i)]
<1>1. n \in Nat /\ \A i \in 2..n+1 : Len(doc[i - 1]) \in Nat /\ Gap(doc, i) \in Nat
  BY DEF Gap
<1>2. \E f : Eq(f)
  <2>1. step \in [(1..n+1) \X Nat -> Nat]
    <3>1. \A p \in (1..n+1) \X Nat : (p[1] = 1 \/ p[1] \in 2..n+1) /\ p[2] \in Nat
      BY <1>1
    <3>. QED
      BY <1>1, <3>1
  <2>a. PICK f : Recursive(Nat, 0, 1, n+1, step, f)
    <3>. HIDE DEF step, n
    <3>1. Steps(Nat, 0, 1, n+1, step)
      BY <1>1, <2>1 DEF Steps
    <3>. QED
      BY <3>1, Recursion
  <2>2. f \in [1..n+1 -> Nat] /\ \A i \in 1..n+1 : f[i] = IF i = 1 THEN 0 ELSE step[<<i, f[i - 1]>>]
    BY <2>a DEF Recursive
  <2>3. \A i \in 1..n+1 : i # 1 => step[<<i, f[i - 1]>>] = f[i - 1] + Len(doc[i - 1]) + Gap(doc, i)
    <3>. SUFFICES ASSUME NEW i \in 1..n+1, i # 1
                  PROVE step[<<i, f[i - 1]>>] = f[i - 1] + Len(doc[i - 1]) + Gap(doc, i)
      OBVIOUS
    <3>1. <<i, f[i - 1]>> \in (1..n+1) \X Nat
      <4>1. i \in 2..n+1 /\ i - 1 \in 1..n+1
        BY <1>1
      <4>2. f[i - 1] \in Nat
        BY <2>2, <4>1
      <4>. QED
        BY <4>1, <4>2
    <3>. HIDE DEF n
    <3>. QED
      BY <3>1
  <2>. HIDE DEF step
  <2>4. Eq(f)
    <3>1. f = [i \in 1..n+1 |-> f[i]] /\ \A i \in 1..n+1 : i = 1 \/ i \in 2..n+1
      BY <1>1, <2>2
    <3>2. \A i \in 1..n+1 : f[i] = IF i = 1 THEN 0 ELSE f[i - 1] + Len(doc[i - 1]) + Gap(doc, i)
      BY <2>2, <2>3, <3>1
    <3>. QED
      BY <3>1, <3>2
  <2>. QED
    BY <2>4
<1>3. Eq(S)
  BY <1>2 DEF Start, Gap
<1>. HIDE DEF S
<1>4. S[1] = 0 /\ \A i \in 2..n+1 : S[i] = S[i - 1] + Len(doc[i - 1]) + Gap(doc, i)
  <2>1. \A i \in 1..n+1 : S[i] = IF i = 1 THEN 0 ELSE S[i - 1] + Len(doc[i - 1]) + Gap(doc, i)
    BY <1>3
  <2>2. 1 \in 1..n+1 /\ \A i \in 2..n+1 : i \in 1..n+1 /\ i # 1
    BY <1>1
  <2>. QED
    BY <2>1, <2>2
<1>5. 1..n+1 \subseteq {i \in 1..n+1 : S[i] \in Nat}
  <2>. DEFINE P == {i \in 1..n+1 : S[i] \in Nat}
  <2>1. 1 \in P
    BY <1>1, <1>4
  <2>2. ASSUME NEW k \in 2..n+1, k - 1 \in P PROVE k \in P
    <3>1. S[k - 1] \in Nat /\ S[k] = S[k - 1] + Len(doc[k - 1]) + Gap(doc, k)
      BY <1>4, <2>2
    <3>2. k \in 1..n+1
      BY <1>1
    <3>. QED
      BY <1>1, <3>1, <3>2
  <2>. HIDE DEF P
  <2>. QED
    <3>1. 1 \in Nat /\ n + 1 \in Nat /\ 1 + 1 = 2
      BY <1>1
    <3>3. \A k \in 1+1..n+1 : k - 1 \in P => k \in P
      BY <2>2, <3>1
    <3>2. 1..n+1 \subseteq P
      <4>. HIDE DEF n
      <4>. QED
        BY <2>1, <3>1, <3>3, Climb
    <3>. QED
      BY <3>2 DEF P
<1>6. S \in [1..n+1 -> Nat]
  BY <1>3, <1>5
<1>. QED
  BY <1>4, <1>6 DEF S

\* The text joined of the first pages.
LEMMA JoinedIs ==
  ASSUME NEW doc \in Seq(Seq(Char))
  PROVE  \E J \in [0..Len(doc) -> Seq(Char)] :
           /\ J[0] = <<>> /\ Joined(doc) = J[Len(doc)]
           /\ \A i \in 1..Len(doc) :
                J[i] = J[i - 1] \o (IF i \in Ink(doc) /\ J[i - 1] # <<>> THEN <<" ">> ELSE <<>>) \o doc[i]
<1>. DEFINE n == Len(doc)
            Add(i, s) == s \o (IF i \in Ink(doc) /\ s # <<>> THEN <<" ">> ELSE <<>>) \o doc[i]
            step == [p \in (0..n) \X Seq(Char) |-> IF p[1] = 0 THEN <<>> ELSE Add(p[1], p[2])]
            Eq(f) == f = [i \in 0..n |-> IF i = 0 THEN <<>> ELSE Add(i, f[i - 1])]
<1>1. n \in Nat /\ \A i \in 1..n : doc[i] \in Seq(Char)
  OBVIOUS
<1>2. \A i \in 1..n, s \in Seq(Char) : Add(i, s) \in Seq(Char)
  <2>. SUFFICES ASSUME NEW i \in 1..n, NEW s \in Seq(Char) PROVE Add(i, s) \in Seq(Char)
    OBVIOUS
  <2>. DEFINE gap == IF i \in Ink(doc) /\ s # <<>> THEN <<" ">> ELSE <<>>
  <2>1. gap \in Seq(Char)
    <3>1. <<>> \in Seq(Char)
      OBVIOUS
    <3>2. gap = <<>> \/ gap = <<" ">>
      OBVIOUS
    <3>. HIDE DEF gap
    <3>. QED
      BY <3>1, <3>2, Between
  <2>. HIDE DEF gap
  <2>2. s \o gap \in Seq(Char) /\ doc[i] \in Seq(Char)
    BY <1>1, <2>1
  <2>3. (s \o gap) \o doc[i] \in Seq(Char)
    BY <2>2
  <2>. QED
    BY <2>3 DEF gap
<1>. HIDE DEF Add
<1>3. \E f : Eq(f)
  <2>1. step \in [(0..n) \X Seq(Char) -> Seq(Char)]
    <3>1. \A p \in (0..n) \X Seq(Char) : (p[1] = 0 \/ p[1] \in 1..n) /\ p[2] \in Seq(Char)
      BY <1>1
    <3>. QED
      BY <1>2, <3>1
  <2>0. <<>> \in Seq(Char)
    OBVIOUS
  <2>a. PICK f : Recursive(Seq(Char), <<>>, 0, n, step, f)
    <3>. HIDE DEF step, n
    <3>1. Steps(Seq(Char), <<>>, 0, n, step)
      BY <1>1, <2>0, <2>1 DEF Steps
    <3>. QED
      BY <3>1, Recursion
  <2>2. f \in [0..n -> Seq(Char)] /\ \A i \in 0..n : f[i] = IF i = 0 THEN <<>> ELSE step[<<i, f[i - 1]>>]
    BY <2>a DEF Recursive
  <2>3. \A i \in 0..n : i # 0 => step[<<i, f[i - 1]>>] = Add(i, f[i - 1])
    <3>. SUFFICES ASSUME NEW i \in 0..n, i # 0 PROVE step[<<i, f[i - 1]>>] = Add(i, f[i - 1])
      OBVIOUS
    <3>1. <<i, f[i - 1]>> \in (0..n) \X Seq(Char)
      <4>1. i \in 1..n /\ i - 1 \in 0..n
        BY <1>1
      <4>2. f[i - 1] \in Seq(Char)
        BY <2>2, <4>1
      <4>. QED
        BY <4>1, <4>2
    <3>. HIDE DEF n
    <3>. QED
      BY <3>1
  <2>. HIDE DEF step
  <2>4. Eq(f)
    <3>1. f = [i \in 0..n |-> f[i]] /\ \A i \in 0..n : i = 0 \/ i \in 1..n
      BY <1>1, <2>2
    <3>2. \A i \in 0..n : f[i] = IF i = 0 THEN <<>> ELSE Add(i, f[i - 1])
      BY <2>2, <2>3, <3>1
    <3>. QED
      BY <3>1, <3>2
  <2>. QED
    BY <2>4
<1>. DEFINE J == CHOOSE f : Eq(f)
<1>4. Eq(J)
  BY <1>3
<1>5. Joined(doc) = J[n]
  BY DEF Joined, Add
<1>. HIDE DEF J
<1>6. J[0] = <<>> /\ \A i \in 1..n : J[i] = Add(i, J[i - 1])
  <2>1. \A i \in 0..n : J[i] = IF i = 0 THEN <<>> ELSE Add(i, J[i - 1])
    BY <1>4
  <2>2. 0 \in 0..n /\ \A i \in 1..n : i \in 0..n /\ i # 0
    BY <1>1
  <2>. QED
    BY <2>1, <2>2
<1>7. 0..n \subseteq {i \in 0..n : J[i] \in Seq(Char)}
  <2>. DEFINE P == {i \in 0..n : J[i] \in Seq(Char)}
  <2>0. <<>> \in Seq(Char) /\ 0 \in 0..n
    BY <1>1
  <2>1. 0 \in P
    BY <1>6, <2>0
  <2>2. ASSUME NEW k \in 1..n, k - 1 \in P PROVE k \in P
    <3>1. J[k - 1] \in Seq(Char) /\ J[k] = Add(k, J[k - 1]) /\ k \in 0..n
      BY <1>6, <2>2
    <3>. QED
      BY <1>2, <3>1
  <2>. HIDE DEF P
  <2>3. 0..n \subseteq P
    <3>1. 0 \in Nat /\ n \in Nat /\ 0 + 1 = 1
      BY <1>1
    <3>. HIDE DEF n
    <3>. QED
      BY <2>1, <2>2, <3>1, Climb
  <2>. QED
    BY <2>3 DEF P
<1>8. J \in [0..n -> Seq(Char)]
  BY <1>4, <1>7
<1>. QED
  BY <1>5, <1>6, <1>8 DEF Add
-------------------------------------------------------------------------------
\* A sequence, one more entry, and another sequence.
Parts(s, b, d, r) ==
  /\ Len(r) = Len(s) + 1 + Len(d)
  /\ \A p \in 1..Len(s) : r[p] = s[p]
  /\ r[Len(s) + 1] = b[1]
  /\ \A p \in 1..Len(d) : r[Len(s) + 1 + p] = d[p]

LEMMA ThreeParts ==
  ASSUME NEW A, NEW s \in Seq(A), NEW b \in Seq(A), NEW d \in Seq(A), Len(b) = 1
  PROVE  Parts(s, b, d, (s \o b) \o d)
<1>0. Len(s) \in Nat /\ Len(d) \in Nat
  OBVIOUS
<1>1. /\ s \o b \in Seq(A) /\ Len(s \o b) = Len(s) + Len(b)
      /\ \A p \in 1..Len(s) + Len(b) : (s \o b)[p] = IF p <= Len(s) THEN s[p] ELSE b[p - Len(s)]
  BY ConcatProperties
<1>2. PICK t \in Seq(A) : t = s \o b
  BY <1>1
<1>3. /\ Len(t \o d) = Len(t) + Len(d)
      /\ \A p \in 1..Len(t) + Len(d) : (t \o d)[p] = IF p <= Len(t) THEN t[p] ELSE d[p - Len(t)]
  BY ConcatProperties
<1>4. Len(t) = Len(s) + 1
  BY <1>1, <1>2
<1>5. \A p \in 1..Len(s) : (t \o d)[p] = t[p] /\ t[p] = s[p]
  <2>. SUFFICES ASSUME NEW p \in 1..Len(s) PROVE (t \o d)[p] = t[p] /\ t[p] = s[p]
    OBVIOUS
  <2>1. p <= Len(s) /\ p \in 1..Len(s) + Len(b) /\ p <= Len(t) /\ p \in 1..Len(t) + Len(d)
    BY <1>0, <1>4
  <2>. QED
    BY <1>1, <1>2, <1>3, <2>1
<1>6. (t \o d)[Len(s) + 1] = t[Len(s) + 1] /\ t[Len(s) + 1] = b[1]
  <2>. DEFINE q == Len(s) + 1
  <2>1. /\ q \in 1..Len(s) + Len(b) /\ ~(q <= Len(s)) /\ q - Len(s) = 1
        /\ q <= Len(t) /\ q \in 1..Len(t) + Len(d)
    BY <1>0, <1>4
  <2>. HIDE DEF q
  <2>2. (t \o d)[q] = t[q] /\ t[q] = b[1]
    BY <1>1, <1>2, <1>3, <2>1
  <2>. QED
    BY <2>2 DEF q
<1>7. \A p \in 1..Len(d) : (t \o d)[Len(s) + 1 + p] = d[p]
  <2>. SUFFICES ASSUME NEW p \in 1..Len(d) PROVE (t \o d)[Len(s) + 1 + p] = d[p]
    OBVIOUS
  <2>. DEFINE q == Len(s) + 1 + p
  <2>1. q \in 1..Len(t) + Len(d) /\ ~(q <= Len(t)) /\ q - Len(t) = p
    BY <1>0, <1>4
  <2>. HIDE DEF q
  <2>2. (t \o d)[q] = d[p]
    BY <1>3, <2>1
  <2>. QED
    BY <2>2 DEF q
<1>. QED
  BY <1>0, <1>2, <1>3, <1>4, <1>5, <1>6, <1>7 DEF Parts


\* The first i pages joined, and what page i adds to the pages before it.
Pieces(doc, J) ==
  /\ J \in [0..Len(doc) -> Seq(Char)] /\ J[0] = <<>> /\ Joined(doc) = J[Len(doc)]
  /\ \A i \in 1..Len(doc) :
       /\ i \notin Ink(doc) => J[i] = J[i - 1]
       /\ i \in Ink(doc) /\ J[i - 1] = <<>> => J[i] = doc[i]
       /\ i \in Ink(doc) /\ J[i - 1] # <<>> => Parts(J[i - 1], <<" ">>, doc[i], J[i])

LEMMA PiecesAre ==
  ASSUME NEW doc \in Seq(Seq(Char))
  PROVE  \E J : Pieces(doc, J)
<1>1. PICK J \in [0..Len(doc) -> Seq(Char)] :
        /\ J[0] = <<>> /\ Joined(doc) = J[Len(doc)]
        /\ \A i \in 1..Len(doc) :
             J[i] = J[i - 1] \o (IF i \in Ink(doc) /\ J[i - 1] # <<>> THEN <<" ">> ELSE <<>>) \o doc[i]
  BY JoinedIs
<1>2. ASSUME NEW i \in 1..Len(doc)
      PROVE  /\ i \notin Ink(doc) => J[i] = J[i - 1]
             /\ i \in Ink(doc) /\ J[i - 1] = <<>> => J[i] = doc[i]
             /\ i \in Ink(doc) /\ J[i - 1] # <<>> => Parts(J[i - 1], <<" ">>, doc[i], J[i])
  <2>1. i - 1 \in 0..Len(doc) /\ i \in 0..Len(doc) /\ doc[i] \in Seq(Char)
    OBVIOUS
  <2>2. J[i - 1] \in Seq(Char) /\ J[i] \in Seq(Char)
    BY <1>1, <2>1
  <2>3. J[i] = J[i - 1] \o (IF i \in Ink(doc) /\ J[i - 1] # <<>> THEN <<" ">> ELSE <<>>) \o doc[i]
    BY <1>1
  <2>4. PICK s \in Seq(Char), d \in Seq(Char) : s = J[i - 1] /\ d = doc[i]
    BY <2>1, <2>2
  <2>5. CASE i \notin Ink(doc)
    <3>1. doc[i] = <<>>
      BY <2>5 DEF Ink
    <3>2. (s \o <<>>) \o <<>> = s
      OBVIOUS
    <3>3. J[i] = J[i - 1]
      BY <2>3, <2>4, <2>5, <3>1, <3>2
    <3>. QED
      BY <2>5, <3>3
  <2>6. CASE i \in Ink(doc) /\ J[i - 1] = <<>>
    <3>1. (<<>> \o <<>>) \o d = d
      OBVIOUS
    <3>2. J[i] = doc[i]
      BY <2>3, <2>4, <2>6, <3>1
    <3>. QED
      BY <2>6, <3>2
  <2>7. CASE i \in Ink(doc) /\ J[i - 1] # <<>>
    <3>1. PICK b \in Seq(Char) : b = <<" ">> /\ Len(b) = 1
      BY Between
    <3>2. J[i] = (s \o b) \o d
      BY <2>3, <2>4, <2>7, <3>1
    <3>3. Parts(s, b, d, (s \o b) \o d)
      <4>. HIDE DEF Char
      <4>. QED
        BY <3>1, ThreeParts
    <3>4. Parts(J[i - 1], <<" ">>, doc[i], J[i])
      BY <2>4, <3>1, <3>2, <3>3
    <3>. QED
      BY <2>7, <3>4
  <2>. QED
    BY <2>5, <2>6, <2>7
<1>. QED
  BY <1>1, <1>2 DEF Pieces

\* Lengths: the pages K of n have something on them, page i has D[i] characters and starts
\* behind S[i], and the first i pages joined have L[i].
Laid(n, K, D, L, S) ==
  /\ n \in Nat /\ K \subseteq 1..n /\ D \in [1..n -> Nat] /\ L \in [0..n -> Nat] /\ S \in [1..n+1 -> Nat]
  /\ L[0] = 0 /\ S[1] = 0
  /\ \A i \in 1..n : /\ i \in K <=> D[i] # 0
                     /\ L[i] = IF D[i] = 0 THEN L[i - 1]
                               ELSE IF L[i - 1] = 0 THEN D[i] ELSE L[i - 1] + 1 + D[i]
  /\ \A i \in 2..n+1 : S[i] = S[i - 1] + D[i - 1] + IF i - 1 \in K /\ \E j \in K : j >= i THEN 1 ELSE 0

\* A page that is not blank starts right behind the text before it.
Seated(K, D, L, S) ==
  \A i \in K : /\ S[i] = L[i - 1] + IF L[i - 1] = 0 THEN 0 ELSE 1
               /\ L[i] = S[i] + D[i]

LEMMA PagesSit ==
  ASSUME NEW n, NEW K, NEW D, NEW L, NEW S, Laid(n, K, D, L, S)
  PROVE  Seated(K, D, L, S)
<1>. USE DEF Laid
<1>. DEFINE More(k) == \E j \in K : j >= k
            P == {k \in 1..n+1 : S[k] = L[k - 1] + IF L[k - 1] # 0 /\ More(k) THEN 1 ELSE 0}
<1>1. 1 \in P
  <2>1. 1 \in 1..n+1 /\ S[1] = 0 /\ L[1 - 1] = 0
    OBVIOUS
  <2>2. S[1] = L[1 - 1] + IF L[1 - 1] # 0 /\ More(1) THEN 1 ELSE 0
    <3>. HIDE DEF More, Laid
    <3>. QED
      BY <2>1
  <2>. QED
    BY <2>1, <2>2
<1>2. ASSUME NEW k \in 2..n+1, k - 1 \in P PROVE k \in P
  <2>1. PICK h : h = k - 1
    OBVIOUS
  <2>2. /\ h \in 1..n /\ h - 1 \in 0..n /\ h \in 0..n /\ k = h + 1 /\ k \in 1..n+1
        /\ S[h] = L[h - 1] + IF L[h - 1] # 0 /\ More(h) THEN 1 ELSE 0
    BY <1>2, <2>1
  <2>3. /\ h \in K <=> D[h] # 0
        /\ L[h] = IF D[h] = 0 THEN L[h - 1]
                  ELSE IF L[h - 1] = 0 THEN D[h] ELSE L[h - 1] + 1 + D[h]
        /\ S[k] = S[h] + D[h] + IF h \in K /\ More(k) THEN 1 ELSE 0
        /\ L[h - 1] \in Nat /\ L[h] \in Nat /\ D[h] \in Nat /\ S[h] \in Nat
    <3>1. S[k] = S[k - 1] + D[k - 1] + IF k - 1 \in K /\ More(k) THEN 1 ELSE 0
      OBVIOUS
    <3>2. /\ h \in K <=> D[h] # 0
          /\ L[h] = IF D[h] = 0 THEN L[h - 1]
                    ELSE IF L[h - 1] = 0 THEN D[h] ELSE L[h - 1] + 1 + D[h]
      BY <2>2
    <3>3. L[h - 1] \in Nat /\ L[h] \in Nat /\ D[h] \in Nat /\ S[h] \in Nat
      <4>1. h \in 1..n+1 /\ h - 1 \in 0..n /\ h \in 0..n /\ h \in 1..n
        BY <2>2
      <4>. QED
        BY <4>1
    <3>. HIDE DEF More, Laid
    <3>. QED
      BY <2>1, <3>1, <3>2, <3>3
  <2>4. h \in K => More(h)
    BY <2>2
  <2>5. h \notin K => (More(h) <=> More(k))
    BY <2>2
  <2>6. S[k] = L[h] + IF L[h] # 0 /\ More(k) THEN 1 ELSE 0
    <3>. HIDE DEF More, Laid
    <3>. QED
      BY <2>2, <2>3, <2>4, <2>5
  <2>. QED
    BY <2>1, <2>2, <2>6
<1>3. 1..n+1 \subseteq P
  <2>1. 1 \in Nat /\ n + 1 \in Nat /\ 1 + 1 = 2
    OBVIOUS
  <2>. HIDE DEF P, Laid
  <2>. QED
    BY <1>1, <1>2, <2>1, Climb
<1>4. ASSUME NEW i \in K
      PROVE  S[i] = L[i - 1] + (IF L[i - 1] = 0 THEN 0 ELSE 1) /\ L[i] = S[i] + D[i]
  <2>1. i \in 1..n /\ i \in 1..n+1 /\ i - 1 \in 0..n /\ More(i)
    OBVIOUS
  <2>2. i \in P
    BY <1>3, <2>1
  <2>3. /\ L[i] = IF D[i] = 0 THEN L[i - 1]
                  ELSE IF L[i - 1] = 0 THEN D[i] ELSE L[i - 1] + 1 + D[i]
        /\ D[i] # 0 /\ L[i - 1] \in Nat /\ D[i] \in Nat
    BY <2>1
  <2>4. S[i] = L[i - 1] + IF L[i - 1] # 0 /\ More(i) THEN 1 ELSE 0
    BY <2>2
  <2>. HIDE DEF More, P, Laid
  <2>. QED
    BY <2>1, <2>3, <2>4
<1>. QED
  BY <1>4 DEF Seated

-------------------------------------------------------------------------------
\* The pages of a document, joined.
PageText(doc, i) == Start(doc)[i] + 1 .. Start(doc)[i] + Len(doc[i])

LEMMA DocLaid ==
  ASSUME NEW doc \in Seq(Seq(Char)), NEW J, Pieces(doc, J)
  PROVE  Laid(Len(doc), Ink(doc), [i \in 1..Len(doc) |-> Len(doc[i])],
              [i \in 0..Len(doc) |-> Len(J[i])], Start(doc))
<1>. DEFINE n == Len(doc)  D == [i \in 1..n |-> Len(doc[i])]  L == [i \in 0..n |-> Len(J[i])]
            S == Start(doc)
<1>1. /\ S \in [1..n+1 -> Nat] /\ S[1] = 0
      /\ \A i \in 2..n+1 : S[i] = S[i - 1] + Len(doc[i - 1]) + Gap(doc, i)
  BY StartIs
<1>. HIDE DEF S
<1>2. n \in Nat /\ \A i \in 1..n : doc[i] \in Seq(Char)
  OBVIOUS
<1>3. \A s \in Seq(Char) : Len(s) \in Nat /\ (s = <<>> <=> Len(s) = 0)
  OBVIOUS
<1>4. Ink(doc) \subseteq 1..n /\ \A i \in 1..n : i \in Ink(doc) <=> doc[i] # <<>>
  BY DEF Ink
<1>5. D \in [1..n -> Nat] /\ \A i \in 1..n : D[i] = Len(doc[i]) /\ (i \in Ink(doc) <=> D[i] # 0)
  BY <1>2, <1>3, <1>4
<1>6. /\ J \in [0..n -> Seq(Char)] /\ J[0] = <<>>
      /\ \A i \in 1..n :
           /\ i \notin Ink(doc) => J[i] = J[i - 1]
           /\ i \in Ink(doc) /\ J[i - 1] = <<>> => J[i] = doc[i]
           /\ i \in Ink(doc) /\ J[i - 1] # <<>> => Parts(J[i - 1], <<" ">>, doc[i], J[i])
  BY DEF Pieces
<1>7. L \in [0..n -> Nat] /\ L[0] = 0 /\ \A i \in 0..n : L[i] = Len(J[i]) /\ (L[i] = 0 <=> J[i] = <<>>)
  <2>1. \A i \in 0..n : J[i] \in Seq(Char)
    BY <1>6
  <2>2. 0 \in 0..n /\ Len(<<>>) = 0
    BY <1>2
  <2>. HIDE DEF n
  <2>. QED
    BY <1>3, <1>6, <2>1, <2>2
<1>8. ASSUME NEW i \in 1..n
      PROVE  L[i] = IF D[i] = 0 THEN L[i - 1] ELSE IF L[i - 1] = 0 THEN D[i] ELSE L[i - 1] + 1 + D[i]
  <2>1. i \in 0..n /\ i - 1 \in 0..n
    BY <1>2
  <2>2. Parts(J[i - 1], <<" ">>, doc[i], J[i]) => Len(J[i]) = Len(J[i - 1]) + 1 + Len(doc[i])
    BY DEF Parts
  <2>3. L[i] = Len(J[i]) /\ L[i - 1] = Len(J[i - 1]) /\ D[i] = Len(doc[i])
    BY <1>5, <1>7, <2>1
  <2>4. (L[i - 1] = 0 <=> J[i - 1] = <<>>) /\ (i \in Ink(doc) <=> D[i] # 0)
    BY <1>5, <1>7, <2>1
  <2>. HIDE DEF n, L, D
  <2>. QED
    BY <1>6, <2>2, <2>3, <2>4
<1>9. ASSUME NEW i \in 2..n+1
      PROVE  S[i] = S[i - 1] + D[i - 1] + IF i - 1 \in Ink(doc) /\ \E j \in Ink(doc) : j >= i THEN 1 ELSE 0
  <2>1. i - 1 \in 1..n
    BY <1>2
  <2>2. D[i - 1] = Len(doc[i - 1])
    BY <1>5, <2>1
  <2>. HIDE DEF n, D
  <2>. QED
    BY <1>1, <2>2 DEF Gap
<1>. HIDE DEF D, L
<1>10. Laid(n, Ink(doc), D, L, S)
  BY <1>1, <1>2, <1>4, <1>5, <1>7, <1>8, <1>9 DEF Laid
<1>. QED
  BY <1>10 DEF D, L, S

\* Where the pages are in the joined text.
Spread(doc, J) ==
  \A i \in Ink(doc) :
    /\ Start(doc)[i] = Len(J[i - 1]) + IF Len(J[i - 1]) = 0 THEN 0 ELSE 1
    /\ Len(J[i]) = Start(doc)[i] + Len(doc[i])

LEMMA PagesSpread ==
  ASSUME NEW doc \in Seq(Seq(Char)), NEW J, Pieces(doc, J)
  PROVE  Spread(doc, J)
<1>. DEFINE n == Len(doc)  D == [i \in 1..n |-> Len(doc[i])]  L == [i \in 0..n |-> Len(J[i])]
<1>1. Laid(n, Ink(doc), D, L, Start(doc))
  BY DocLaid
<1>2. Seated(Ink(doc), D, L, Start(doc))
  <2>. HIDE DEF n, D, L
  <2>. QED
    BY <1>1, PagesSit
<1>3. ASSUME NEW i \in Ink(doc) PROVE D[i] = Len(doc[i]) /\ L[i] = Len(J[i]) /\ L[i - 1] = Len(J[i - 1])
  <2>1. n \in Nat /\ i \in 1..n
    BY DEF Ink
  <2>2. i \in 0..n /\ i - 1 \in 0..n
    BY <2>1
  <2>. QED
    BY <2>1, <2>2
<1>. HIDE DEF D, L
<1>. QED
  BY <1>2, <1>3 DEF Seated, Spread

\* Every character of the joined text is the white space between two pages, or on a page.
LEMMA InkCovers ==
  ASSUME NEW doc \in Seq(Seq(Char))
  PROVE  /\ Joined(doc) \in Seq(Char)
         /\ \A p \in 1..Len(Joined(doc)) :
              Joined(doc)[p] = " " \/ \E k \in Ink(doc) : p \in PageText(doc, k)
<1>1. PICK J : Pieces(doc, J)
  BY PiecesAre
<1>2. Spread(doc, J)
  BY <1>1, PagesSpread
<1>. DEFINE n == Len(doc)
            OnPage(p) == \E k \in Ink(doc) : p \in PageText(doc, k)
            P == {i \in 0..n : \A p \in 1..Len(J[i]) : J[i][p] = " " \/ OnPage(p)}
<1>3. /\ n \in Nat /\ Ink(doc) \subseteq 1..n
      /\ J \in [0..n -> Seq(Char)] /\ J[0] = <<>> /\ Joined(doc) = J[n]
  <2>1. n \in Nat /\ Ink(doc) \subseteq 1..n
    BY DEF Ink
  <2>2. J \in [0..n -> Seq(Char)] /\ J[0] = <<>> /\ Joined(doc) = J[n]
    <3>. HIDE DEF Char
    <3>. QED
      BY <1>1 DEF Pieces
  <2>. QED
    BY <2>1, <2>2
<1>4. 0 \in P
  <2>1. 0 \in 0..n /\ 1..Len(J[0]) = {}
    BY <1>3
  <2>. QED
    BY <2>1
<1>5. ASSUME NEW i \in 1..n, i - 1 \in P PROVE i \in P
  <2>1. /\ i \in 0..n /\ i - 1 \in 0..n /\ J[i - 1] \in Seq(Char) /\ J[i] \in Seq(Char)
        /\ doc[i] \in Seq(Char)
    <3>1. i \in 0..n /\ i - 1 \in 0..n /\ doc[i] \in Seq(Char)
      OBVIOUS
    <3>. HIDE DEF n, P
    <3>. QED
      BY <1>3, <3>1
  <2>2. /\ i \notin Ink(doc) => J[i] = J[i - 1]
        /\ i \in Ink(doc) /\ J[i - 1] = <<>> => J[i] = doc[i]
        /\ i \in Ink(doc) /\ J[i - 1] # <<>> => Parts(J[i - 1], <<" ">>, doc[i], J[i])
    BY <1>1 DEF Pieces
  <2>3. \A p \in 1..Len(J[i - 1]) : J[i - 1][p] = " " \/ OnPage(p)
    BY <1>5
  <2>4. PICK a \in Nat, b \in Nat, s \in Nat, d \in Nat :
          a = Len(J[i - 1]) /\ b = Len(J[i]) /\ d = Len(doc[i])
          /\ (i \in Ink(doc) => s = Start(doc)[i] /\ s = a + (IF a = 0 THEN 0 ELSE 1) /\ b = s + d)
    <3>1. Len(J[i - 1]) \in Nat /\ Len(J[i]) \in Nat /\ Len(doc[i]) \in Nat
      BY <2>1
    <3>2. i \in Ink(doc) => /\ Start(doc)[i] = Len(J[i - 1]) + IF Len(J[i - 1]) = 0 THEN 0 ELSE 1
                            /\ Len(J[i]) = Start(doc)[i] + Len(doc[i])
      BY <1>2 DEF Spread
    <3>3. i \in Ink(doc) => Start(doc)[i] \in Nat
      <4>1. PICK g \in Nat : g = IF Len(J[i - 1]) = 0 THEN 0 ELSE 1
        OBVIOUS
      <4>2. PICK a \in Nat : a = Len(J[i - 1])
        BY <3>1
      <4>3. i \in Ink(doc) => Start(doc)[i] = a + g
        BY <3>2, <4>1, <4>2
      <4>. QED
        BY <4>3
    <3>4. PICK s \in Nat : i \in Ink(doc) => s = Start(doc)[i]
      <4>. DEFINE s == IF i \in Ink(doc) THEN Start(doc)[i] ELSE 0
      <4>1. s \in Nat /\ (i \in Ink(doc) => s = Start(doc)[i])
        BY <3>3
      <4>. HIDE DEF s
      <4>. QED
        BY <4>1
    <3>5. PICK a \in Nat, b \in Nat, d \in Nat :
            a = Len(J[i - 1]) /\ b = Len(J[i]) /\ d = Len(doc[i])
      BY <3>1
    <3>6. i \in Ink(doc) => s = a + (IF a = 0 THEN 0 ELSE 1) /\ b = s + d
      BY <3>2, <3>4, <3>5
    <3>. HIDE DEF n, P
    <3>. QED
      BY <3>4, <3>5, <3>6
  <2>. HIDE DEF OnPage
  <2>5. CASE i \notin Ink(doc)
    BY <2>1, <2>2, <2>3, <2>5
  <2>6. CASE i \in Ink(doc)
    <3>1. \A p \in s+1..s+d : OnPage(p)
      BY <2>4, <2>6 DEF OnPage, PageText
    <3>2. CASE J[i - 1] = <<>>
      <4>1. a = 0
        BY <2>4, <3>2
      <4>2. ASSUME NEW p \in 1..b PROVE OnPage(p)
        BY <2>4, <2>6, <3>1, <4>1
      <4>. QED
        BY <2>1, <2>4, <4>2
    <3>3. CASE J[i - 1] # <<>>
      <4>1. a # 0
        BY <2>1, <2>4, <3>3
      <4>2. /\ \A p \in 1..a : J[i][p] = J[i - 1][p]
            /\ J[i][a + 1] = " "
        BY <2>2, <2>4, <2>6, <3>3, Between DEF Parts
      <4>3. ASSUME NEW p \in 1..b PROVE J[i][p] = " " \/ OnPage(p)
        <5>1. p \in 1..a \/ p = a + 1 \/ p \in s+1..s+d
          BY <2>4, <2>6, <4>1
        <5>. QED
          BY <2>3, <2>4, <3>1, <4>2, <5>1
      <4>. QED
        BY <2>1, <2>4, <4>3
    <3>. QED
      BY <3>2, <3>3
  <2>. QED
    BY <2>5, <2>6
<1>6. 0..n \subseteq P
  <2>1. 0 \in Nat /\ 0 + 1 = 1
    OBVIOUS
  <2>. HIDE DEF P, n
  <2>. QED
    BY <1>3, <1>4, <1>5, <2>1, Climb
<1>7. n \in P /\ J[n] \in Seq(Char)
  <2>1. n \in 0..n
    BY <1>3
  <2>. HIDE DEF n, P
  <2>. QED
    BY <1>3, <1>6, <2>1
<1>. QED
  BY <1>3, <1>7

-------------------------------------------------------------------------------
\* The largest of a bounded set of numbers.
LEMMA Largest ==
  ASSUME NEW n \in Nat, NEW T \in SUBSET (0..n), T # {}
  PROVE  \E x \in T : \A y \in T : y <= x
<1>. DEFINE U == {n - x : x \in T}
<1>1. \A x \in T : x \in 0..n /\ x \in Nat /\ n - x \in Nat
  OBVIOUS
<1>2. U \in SUBSET Nat /\ U # {}
  BY <1>1
<1>3. PICK u \in U : \A v \in U : u <= v
  <2>. HIDE DEF U
  <2>. QED
    BY <1>2, Smallest
<1>4. PICK x \in T : u = n - x
  OBVIOUS
<1>5. ASSUME NEW y \in T PROVE y <= x
  <2>1. n - y \in U
    OBVIOUS
  <2>. HIDE DEF U
  <2>2. n - x <= n - y
    BY <1>3, <1>4, <2>1
  <2>. QED
    BY <1>1, <2>2
<1>. QED
  BY <1>5

\* The first and the last of a set of pages.
FirstOf(T) == CHOOSE i \in T : \A j \in T : i <= j
LastOf(T)  == CHOOSE i \in T : \A j \in T : j <= i

LEMMA FirstAndLast ==
  ASSUME NEW n \in Nat, NEW T \in SUBSET (1..n), T # {}
  PROVE  /\ FirstOf(T) \in T /\ LastOf(T) \in T /\ T \subseteq FirstOf(T)..LastOf(T)
         /\ FirstOf(T) \in Nat /\ LastOf(T) \in Nat
<1>. DEFINE lo == FirstOf(T)  hi == LastOf(T)
<1>1. T \in SUBSET Nat /\ T \in SUBSET (0..n) /\ \A i \in T : i \in Nat
  OBVIOUS
<1>2. \E i \in T : \A j \in T : i <= j
  BY <1>1, Smallest
<1>3. \E i \in T : \A j \in T : j <= i
  BY <1>1, Largest
<1>4. lo \in T /\ hi \in T /\ \A j \in T : lo <= j /\ j <= hi
  BY <1>2, <1>3 DEF FirstOf, LastOf
<1>. HIDE DEF lo, hi
<1>5. lo \in Nat /\ hi \in Nat
  BY <1>1, <1>4
<1>6. ASSUME NEW j \in T PROVE j \in lo..hi
  <2>1. j \in Nat /\ lo <= j /\ j <= hi
    BY <1>1, <1>4
  <2>. QED
    BY <1>5, <2>1
<1>. QED
  BY <1>4, <1>5, <1>6 DEF lo, hi

\* Two intervals that meet.
LEMMA Meet ==
  ASSUME NEW a \in Nat, NEW d \in Nat, NEW f \in Nat, NEW t \in Nat, f <= t
  PROVE  (a+1..a+d) \cap (f..t) # {} <=> d # 0 /\ a < t /\ a + d >= f
<1>1. ASSUME NEW p \in (a+1..a+d) \cap (f..t) PROVE d # 0 /\ a < t /\ a + d >= f
  OBVIOUS
<1>2. ASSUME d # 0, a < t, a + d >= f PROVE (a+1..a+d) \cap (f..t) # {}
  <2>1. CASE f <= a
    <3>1. a + 1 \in (a+1..a+d) \cap (f..t)
      BY <1>2, <2>1
    <3>. QED
      BY <3>1
  <2>2. CASE ~(f <= a)
    <3>1. f \in (a+1..a+d) \cap (f..t)
      BY <1>2, <2>2
    <3>. QED
      BY <3>1
  <2>. QED
    BY <2>1, <2>2
<1>. QED
  BY <1>1, <1>2

\* The pages that have a character of f..t.
OnPages(doc, f, t) == {i \in 1..Len(doc) : PageText(doc, i) \cap (f..t) # {}}
Holds(doc, f, t, r) == {r[1], r[2]} \subseteq OnPages(doc, f, t) /\ OnPages(doc, f, t) \subseteq r[1]..r[2]
Hit(doc, f, t) == {i \in Ink(doc) : Start(doc)[i] < t /\ Start(doc)[i] + Len(doc[i]) >= f}

LEMMA HitsAreOn ==
  ASSUME NEW doc \in Seq(Seq(Char)), NEW f \in Nat, NEW t \in Nat, f <= t
  PROVE  OnPages(doc, f, t) = Hit(doc, f, t)
<1>1. \A i \in 1..Len(doc) : doc[i] \in Seq(Char)
  OBVIOUS
<1>2. \A s \in Seq(Char) : Len(s) \in Nat /\ (s = <<>> <=> Len(s) = 0)
  OBVIOUS
<1>3. Start(doc) \in [1..Len(doc)+1 -> Nat]
  BY StartIs
<1>4. ASSUME NEW i \in 1..Len(doc) PROVE i \in OnPages(doc, f, t) <=> i \in Hit(doc, f, t)
  <2>1. i \in 1..Len(doc)+1
    OBVIOUS
  <2>2. PICK a \in Nat, d \in Nat : a = Start(doc)[i] /\ d = Len(doc[i]) /\ (d = 0 <=> doc[i] = <<>>)
    <3>1. Start(doc)[i] \in Nat
      BY <1>3, <2>1
    <3>. QED
      BY <1>1, <1>2, <3>1
  <2>3. (a+1..a+d) \cap (f..t) # {} <=> d # 0 /\ a < t /\ a + d >= f
    BY Meet
  <2>4. i \in OnPages(doc, f, t) <=> (a+1..a+d) \cap (f..t) # {}
    BY <2>2 DEF OnPages, PageText
  <2>5. i \in Hit(doc, f, t) <=> d # 0 /\ a < t /\ a + d >= f
    BY <2>2 DEF Hit, Ink
  <2>. QED
    BY <2>3, <2>4, <2>5
<1>5. OnPages(doc, f, t) \subseteq 1..Len(doc) /\ Hit(doc, f, t) \subseteq 1..Len(doc)
  BY DEF OnPages, Hit, Ink
<1>. QED
  BY <1>4, <1>5

\* A text of the document that does not begin with white space.
TextAt(doc, f, t) ==
  /\ f \in Nat /\ t \in Nat /\ 1 <= f /\ f <= t /\ t <= Len(Joined(doc))
  /\ Joined(doc)[f] # " "

\* page_range_for finds the first and the last page of a text that does not begin with the
\* white space between two pages.
LEMMA RangeHolds ==
  ASSUME NEW doc \in Seq(Seq(Char)), NEW f, NEW t, TextAt(doc, f, t)
  PROVE  Holds(doc, f, t, PageRange(doc, f, t)) /\ PageRange(doc, f, t) \in Nat \X Nat
<1>1. /\ Joined(doc) \in Seq(Char)
      /\ \A p \in 1..Len(Joined(doc)) : Joined(doc)[p] = " " \/ \E k \in Ink(doc) : p \in PageText(doc, k)
  BY InkCovers
<1>2. Len(Joined(doc)) \in Nat
  <2>1. \A q \in Seq(Char) : Len(q) \in Nat
    OBVIOUS
  <2>. QED
    BY <1>1, <2>1
<1>3. f \in Nat /\ t \in Nat /\ f <= t /\ f \in f..t /\ f \in 1..Len(Joined(doc)) /\ Joined(doc)[f] # " "
  <2>1. PICK m \in Nat : m = Len(Joined(doc))
    BY <1>2
  <2>2. f \in Nat /\ t \in Nat /\ 1 <= f /\ f <= t /\ t <= m
    BY <2>1 DEF TextAt
  <2>4. Joined(doc)[f] # " "
    BY DEF TextAt
  <2>3. f \in f..t /\ f \in 1..m
    BY <2>1, <2>2
  <2>. QED
    BY <2>1, <2>2, <2>3, <2>4
<1>4. OnPages(doc, f, t) = Hit(doc, f, t)
  BY <1>3, HitsAreOn
<1>5. Hit(doc, f, t) # {}
  <2>1. PICK k \in Ink(doc) : f \in PageText(doc, k)
    BY <1>1, <1>3
  <2>2. k \in 1..Len(doc)
    BY DEF Ink
  <2>3. k \in OnPages(doc, f, t)
    BY <1>3, <2>1, <2>2 DEF OnPages
  <2>. QED
    BY <1>4, <2>3
<1>6. Hit(doc, f, t) \in SUBSET (1..Len(doc)) /\ Len(doc) \in Nat
  <2>1. Ink(doc) \subseteq 1..Len(doc) /\ Len(doc) \in Nat
    BY DEF Ink
  <2>. QED
    BY <2>1 DEF Hit
<1>7. PICK lo, hi : lo = FirstOf(Hit(doc, f, t)) /\ hi = LastOf(Hit(doc, f, t))
  OBVIOUS
<1>8. PageRange(doc, f, t) = <<lo, hi>>
  BY <1>5, <1>7 DEF PageRange, Hit, FirstOf, LastOf
<1>9. /\ lo \in Hit(doc, f, t) /\ hi \in Hit(doc, f, t) /\ Hit(doc, f, t) \subseteq lo..hi
      /\ lo \in Nat /\ hi \in Nat
  BY <1>5, <1>6, <1>7, FirstAndLast
<1>10. Holds(doc, f, t, <<lo, hi>>)
  <2>1. <<lo, hi>>[1] = lo /\ <<lo, hi>>[2] = hi
    OBVIOUS
  <2>. QED
    BY <1>4, <1>9, <2>1 DEF Holds
<1>11. <<lo, hi>> \in Nat \X Nat
  BY <1>9
<1>. QED
  BY <1>8, <1>10, <1>11

-------------------------------------------------------------------------------
\* Where a text occurs, and a chunk that is found where it was taken, or whose text occurs
\* elsewhere as well.
PlacesIn(s, t) == {i \in 1..Len(s) - Len(t) + 1 : SubSeq(s, i, i + Len(t) - 1) = t}
Fits(doc, r, c) ==
  /\ c.at <= r[1]
  /\ Cardinality(PlacesIn(Joined(doc), SubSeq(Joined(doc), r[1], r[2]))) = 1 =>
       Holds(doc, r[1], r[2], c.pages)

\* The search after the place of the last chunk, which is not behind the next one.
Found(doc, f, t, prev) == {i \in PlacesIn(Joined(doc), SubSeq(Joined(doc), f, t)) : i > prev}
Located(doc, f, t, place) == [at |-> place, pages |-> PageRange(doc, place, place + t - f)]

LEMMA OwnPlace ==
  ASSUME NEW doc \in Seq(Seq(Char)), NEW f, NEW t, TextAt(doc, f, t)
  PROVE  LET P == PlacesIn(Joined(doc), SubSeq(Joined(doc), f, t))
         IN  f \in P /\ P \subseteq 1..Len(Joined(doc)) /\ IsFiniteSet(P)
             /\ \A i \in P : TextAt(doc, i, i + t - f)
<1>. DEFINE s == Joined(doc)  w == SubSeq(s, f, t)  P == PlacesIn(s, w)
<1>1. PICK m \in Nat : m = Len(s) /\ s \in Seq(Char)
  <2>1. s \in Seq(Char)
    BY InkCovers
  <2>2. \A q \in Seq(Char) : Len(q) \in Nat
    OBVIOUS
  <2>. HIDE DEF s
  <2>. QED
    BY <2>1, <2>2
<1>2. f \in Nat /\ t \in Nat /\ 1 <= f /\ f <= t /\ t <= m
  BY <1>1 DEF TextAt
<1>3. s[f] # " "
  BY DEF TextAt
<1>. HIDE DEF s
<1>4. \A i \in 1..m : s[i] \in Char
  BY <1>1
<1>5. Len(w) = t - f + 1 /\ w[1] = s[f]
  <2>1. \A i \in f..t : s[i] \in Char
    BY <1>2, <1>4
  <2>2. /\ Len(w) = IF f <= t THEN t - f + 1 ELSE 0
        /\ \A i \in 1 .. t - f + 1 : w[i] = s[f + i - 1]
    BY <1>2, <2>1, SubSeqProperties
  <2>3. 1 \in 1 .. t - f + 1 /\ f + 1 - 1 = f
    BY <1>2
  <2>. HIDE DEF w
  <2>. QED
    BY <1>2, <2>2, <2>3
<1>6. f \in P
  <2>1. f \in 1..m - (t - f + 1) + 1 /\ f + (t - f + 1) - 1 = t
    BY <1>2
  <2>2. SubSeq(s, f, t) = w
    OBVIOUS
  <2>. HIDE DEF w
  <2>. QED
    BY <1>1, <1>5, <2>1, <2>2 DEF PlacesIn
<1>7. ASSUME NEW i \in P PROVE i \in 1..m /\ TextAt(doc, i, i + t - f)
  <2>1. i \in 1..m - (t - f + 1) + 1 /\ SubSeq(s, i, i + (t - f + 1) - 1) = w
    <3>. HIDE DEF w
    <3>. QED
      BY <1>1, <1>5 DEF PlacesIn
  <2>2. /\ i \in Nat /\ i + t - f \in Nat /\ 1 <= i /\ i <= i + t - f /\ i + t - f <= m
        /\ i + (t - f + 1) - 1 = i + t - f /\ i \in 1..m
    BY <1>2, <2>1
  <2>3. SubSeq(s, i, i + t - f)[1] = s[i]
    <3>1. PICK e \in Int : e = i + t - f /\ e <= m /\ i <= e
      BY <2>2
    <3>2. \A k \in i..e : s[k] \in Char
      BY <1>4, <2>2, <3>1
    <3>3. \A k \in 1 .. e - i + 1 : SubSeq(s, i, e)[k] = s[i + k - 1]
      BY <2>2, <3>2, SubSeqProperties
    <3>4. 1 \in 1 .. e - i + 1 /\ i + 1 - 1 = i
      BY <2>2, <3>1
    <3>. QED
      BY <3>1, <3>3, <3>4
  <2>4. s[i] # " "
    <3>. HIDE DEF w
    <3>. QED
      BY <1>3, <1>5, <2>1, <2>2, <2>3
  <2>. QED
    BY <1>1, <2>2, <2>4 DEF TextAt, s
<1>8. IsFiniteSet(1..m)
  BY FS_Interval
<1>. HIDE DEF P
<1>9. IsFiniteSet(P)
  <2>1. P \in SUBSET (1..m)
    BY <1>7
  <2>. QED
    BY <1>8, <2>1, FS_Subset
<1>. QED
  BY <1>1, <1>6, <1>7, <1>9 DEF P, w, s

LEMMA ChunkIsLocated ==
  ASSUME NEW doc \in Seq(Seq(Char)), NEW f, NEW t, TextAt(doc, f, t), NEW prev \in Nat, prev < f,
         NEW place, place = FirstOf(Found(doc, f, t, prev))
  PROVE  /\ Located(doc, f, t, place) \in [at : Nat, pages : Nat \X Nat]
         /\ Fits(doc, <<f, t>>, Located(doc, f, t, place))
<1>. DEFINE P == PlacesIn(Joined(doc), SubSeq(Joined(doc), f, t))
<1>1. f \in P /\ P \subseteq 1..Len(Joined(doc)) /\ IsFiniteSet(P) /\ \A i \in P : TextAt(doc, i, i + t - f)
  BY OwnPlace
<1>2. f \in Nat /\ t \in Nat /\ f <= t
  BY DEF TextAt
<1>3. Found(doc, f, t, prev) = {i \in P : i > prev}
  BY DEF Found
<1>. HIDE DEF P
<1>4. Found(doc, f, t, prev) \in SUBSET Nat /\ f \in Found(doc, f, t, prev)
  <2>1. \A i \in P : i \in Nat
    BY <1>1 DEF TextAt
  <2>2. f > prev
    BY <1>2
  <2>. QED
    BY <1>1, <1>3, <2>1, <2>2
<1>5. place \in Found(doc, f, t, prev) /\ place <= f
  <2>1. \E i \in Found(doc, f, t, prev) : \A j \in Found(doc, f, t, prev) : i <= j
    BY <1>4, Smallest
  <2>2. place \in Found(doc, f, t, prev) /\ \A j \in Found(doc, f, t, prev) : place <= j
    BY <2>1 DEF FirstOf
  <2>. QED
    BY <1>4, <2>2
<1>6. place \in Nat /\ place \in P
  BY <1>3, <1>4, <1>5
<1>7. TextAt(doc, place, place + t - f)
  BY <1>1, <1>6
<1>8. /\ Holds(doc, place, place + t - f, PageRange(doc, place, place + t - f))
      /\ PageRange(doc, place, place + t - f) \in Nat \X Nat
  <2>1. PICK e : e = place + t - f
    OBVIOUS
  <2>2. TextAt(doc, place, e)
    BY <1>7, <2>1
  <2>3. Holds(doc, place, e, PageRange(doc, place, e)) /\ PageRange(doc, place, e) \in Nat \X Nat
    BY <2>2, RangeHolds
  <2>. QED
    BY <2>1, <2>3
<1>9. ASSUME Cardinality(P) = 1
      PROVE  Holds(doc, f, t, PageRange(doc, place, place + t - f))
  <2>1. \E x : P = {x}
    BY <1>1, <1>9, FS_Singleton
  <2>2. place = f
    BY <1>1, <1>6, <2>1
  <2>3. place + t - f = t
    BY <1>2, <2>2
  <2>. QED
    BY <1>8, <2>2, <2>3
<1>10. /\ Located(doc, f, t, place).at = place
       /\ Located(doc, f, t, place).pages = PageRange(doc, place, place + t - f)
       /\ Located(doc, f, t, place) \in [at : Nat, pages : Nat \X Nat]
  BY <1>6, <1>8 DEF Located
<1>11. <<f, t>>[1] = f /\ <<f, t>>[2] = t
  OBVIOUS
<1>. QED
  BY <1>5, <1>9, <1>10, <1>11 DEF Fits, P

-------------------------------------------------------------------------------
(***************************************************************************)
(* Every chunk fits the document as it was extracted, and the search for   *)
(* it starts no later than where it was taken.                             *)
(***************************************************************************)
ChunkRec == [at : Nat, pages : Nat \X Nat]

Listed(ts, cs) == ts \in Seq(Nat \X Nat) /\ cs \in Seq(ChunkRec) /\ Len(ts) = Len(cs)
AllFit(doc, ts, cs) == \A k \in 1..Len(ts) : Fits(doc, ts[k], cs[k])

PagesInv ==
  /\ pages \in Seq(Seq(Char))
  /\ pc \in {"download", "parse"} => taken = <<>> /\ chunks = <<>>
  /\ Listed(taken, chunks)
  /\ AllFit(pages, taken, chunks)

LEMMA OneMoreFits ==
  ASSUME NEW doc, NEW ts, NEW cs, Listed(ts, cs), AllFit(doc, ts, cs),
         NEW r \in Nat \X Nat, NEW c \in ChunkRec, Fits(doc, r, c)
  PROVE  Listed(Append(ts, r), Append(cs, c)) /\ AllFit(doc, Append(ts, r), Append(cs, c))
<1>. USE DEF Listed
<1>1. PICK n \in Nat : n = Len(ts) /\ n = Len(cs)
  OBVIOUS
<1>2. /\ Append(ts, r) \in Seq(Nat \X Nat) /\ Len(Append(ts, r)) = n + 1
      /\ \A i \in 1..n : Append(ts, r)[i] = ts[i]
      /\ Append(ts, r)[n + 1] = r
  BY <1>1, AppendProperties
<1>3. /\ Append(cs, c) \in Seq(ChunkRec) /\ Len(Append(cs, c)) = n + 1
      /\ \A i \in 1..n : Append(cs, c)[i] = cs[i]
      /\ Append(cs, c)[n + 1] = c
  BY <1>1, AppendProperties
<1>4. ASSUME NEW k \in 1..n + 1 PROVE Fits(doc, Append(ts, r)[k], Append(cs, c)[k])
  <2>1. CASE k = n + 1
    BY <1>2, <1>3, <2>1
  <2>2. CASE k # n + 1
    <3>1. k \in 1..n
      BY <2>2
    <3>2. Fits(doc, ts[k], cs[k])
      BY <1>1, <3>1 DEF AllFit
    <3>. QED
      BY <1>2, <1>3, <3>1, <3>2
  <2>. QED
    BY <2>1, <2>2
<1>. QED
  BY <1>2, <1>3, <1>4 DEF AllFit

\* The places of the last chunk.
LEMMA LastFits ==
  ASSUME NEW doc, NEW ts, NEW cs, Listed(ts, cs), AllFit(doc, ts, cs), NEW z
  PROVE  LET last == Last(cs, [at |-> 0, pages |-> z])
         IN  last.at \in Nat /\ last.at <= Last(ts, <<0, 0>>)[1] /\ Last(ts, <<0, 0>>) \in Nat \X Nat
<1>. USE DEF Listed
<1>1. CASE ts = <<>>
  <2>1. cs = <<>>
    BY <1>1
  <2>. QED
    BY <1>1, <2>1 DEF Last
<1>2. CASE ts # <<>>
  <2>1. PICK n \in Nat \ {0} : n = Len(ts) /\ n = Len(cs)
    BY <1>2
  <2>2. cs # <<>> /\ n \in 1..n /\ cs[n] \in ChunkRec /\ ts[n] \in Nat \X Nat
    BY <2>1
  <2>3. Fits(doc, ts[n], cs[n])
    BY <2>1, <2>2 DEF AllFit
  <2>4. Last(cs, [at |-> 0, pages |-> z]) = cs[n] /\ Last(ts, <<0, 0>>) = ts[n]
    BY <1>2, <2>1, <2>2 DEF Last
  <2>5. cs[n].at \in Nat
    BY <2>2 DEF ChunkRec
  <2>. QED
    BY <2>2, <2>3, <2>4, <2>5 DEF Fits
<1>. QED
  BY <1>1, <1>2

LEMMA PagesStart == RunInit => PagesInv
<1>. SUFFICES ASSUME RunInit PROVE PagesInv
  OBVIOUS
<1>1. pages \in Seq(Seq(STRING)) /\ taken = <<>> /\ chunks = <<>>
  BY TextAssumption DEF RunInit
<1>2. \A d \in Seq(Seq(STRING)) : d \in Seq(Seq(Char))
  <2>1. STRING \subseteq Char
    BY DEF Char
  <2>2. \A A, B : A \subseteq B => Seq(A) \subseteq Seq(B)
    OBVIOUS
  <2>3. Seq(STRING) \subseteq Seq(Char)
    BY <2>1, <2>2
  <2>. QED
    BY <2>2, <2>3
<1>3. <<>> \in Seq(Nat \X Nat) /\ <<>> \in Seq(ChunkRec) /\ Len(<<>>) = 0
  OBVIOUS
<1>4. Listed(taken, chunks) /\ AllFit(pages, taken, chunks)
  BY <1>1, <1>3 DEF Listed, AllFit
<1>. QED
  BY <1>1, <1>2, <1>4 DEF PagesInv

LEMMA ExtractedIsText ==
  ASSUME NEW doc \in Seq(Seq(Char)), NEW d \in ExtractPages(doc)
  PROVE  d \in Seq(Seq(Char))
<1>1. PICK lost : d = [i \in 1..Len(doc) |-> IF i \in lost THEN <<>> ELSE doc[i]]
  BY DEF ExtractPages
<1>2. \A i \in 1..Len(doc) : doc[i] \in Seq(Char)
  OBVIOUS
<1>3. <<>> \in Seq(Char)
  OBVIOUS
<1>4. PICK n \in Nat : n = Len(doc)
  OBVIOUS
<1>5. \A i \in 1..n : d[i] \in Seq(Char)
  BY <1>1, <1>2, <1>3, <1>4
<1>6. d = [i \in 1..n |-> d[i]]
  BY <1>1, <1>4
<1>7. [i \in 1..n |-> d[i]] \in Seq(Seq(Char))
  BY <1>5
<1>. QED
  BY <1>6, <1>7

LEMMA PagesStep == PagesInv /\ [RunNext]_runVars => PagesInv'
<1>. SUFFICES ASSUME PagesInv, [RunNext]_runVars PROVE PagesInv'
  OBVIOUS
<1>. USE DEF Go
<1>1. ASSUME UNCHANGED <<pages, taken, chunks>>,
             pc' \in {"download", "parse"} => pc \in {"download", "parse"}
      PROVE  PagesInv'
  BY <1>1 DEF PagesInv
<1>2. ASSUME NEW row \in Puts, Put(row) PROVE PagesInv'
  BY <1>1, <1>2 DEF Put
<1>3. CASE Download
  BY <1>1, <1>3 DEF Download
<1>4. CASE Parse
  <2>1. CASE pages' = pages
    BY <1>1, <1>4, <2>1 DEF Parse
  <2>2. CASE pages' \in ExtractPages(pages)
    <3>1. pages' \in Seq(Seq(Char))
      BY <2>2, ExtractedIsText DEF PagesInv
    <3>2. taken' = <<>> /\ chunks' = <<>>
      BY <1>4 DEF Parse, PagesInv
    <3>3. Listed(taken', chunks') /\ AllFit(pages', taken', chunks')
      BY <3>2 DEF Listed, AllFit
    <3>. QED
      BY <3>1, <3>2, <3>3 DEF PagesInv
  <2>. QED
    BY <1>4, <2>1, <2>2 DEF Parse
<1>5. ASSUME NEW from \in 1..Len(Joined(pages)), NEW to \in 1..Len(Joined(pages)), Chunk(from, to)
      PROVE  PagesInv'
  <2>1. pages' = pages /\ pc = "chunk"
    BY <1>5 DEF Chunk
  <2>2. CASE pc' = "panicked" /\ UNCHANGED <<taken, chunks>>
    BY <1>1, <2>1, <2>2
  <2>. DEFINE prev  == Last(chunks, [at |-> 0, pages |-> <<0, 0>>]).at
              place == FirstOf(Found(pages, from, to, prev))
  <2>3. CASE /\ pc' = pc
             /\ taken' = Append(taken, <<from, to>>)
             /\ chunks' = Append(chunks, Located(pages, from, to, place))
    <3>1. /\ prev \in Nat /\ prev <= Last(taken, <<0, 0>>)[1]
          /\ Last(taken, <<0, 0>>) \in Nat \X Nat
      <4>1. Listed(taken, chunks) /\ AllFit(pages, taken, chunks)
        BY DEF PagesInv
      <4>. QED
        BY <4>1, LastFits
    <3>2. pages \in Seq(Seq(Char))
      BY DEF PagesInv
    <3>3. from > Last(taken, <<0, 0>>)[1] /\ to \in from .. from + Size - 1
      BY <1>5 DEF Chunk, Taking
    <3>a. Joined(pages)[from] # " "
      BY <1>5 DEF Chunk, Taking
    <3>4. PICK m \in Nat : m = Len(Joined(pages))
      <4>1. \A q \in Seq(Char) : Len(q) \in Nat
        OBVIOUS
      <4>. QED
        BY <3>2, <4>1, InkCovers
    <3>5. from \in Nat /\ to \in Nat /\ 1 <= from /\ from <= to /\ to <= m
      <4>1. from \in 1..m /\ to \in 1..m
        BY <3>4
      <4>. QED
        BY <3>3, <4>1, SizeAssumption
    <3>6. TextAt(pages, from, to)
      BY <3>a, <3>4, <3>5 DEF TextAt
    <3>7. prev < from
      <4>1. Last(taken, <<0, 0>>)[1] \in Nat
        BY <3>1
      <4>. HIDE DEF prev
      <4>. QED
        BY <3>1, <3>3, <3>5, <4>1
    <3>. HIDE DEF prev, place
    <3>8. /\ Located(pages, from, to, place) \in ChunkRec
          /\ Fits(pages, <<from, to>>, Located(pages, from, to, place))
      BY <3>1, <3>2, <3>6, <3>7, ChunkIsLocated DEF place, ChunkRec
    <3>9. <<from, to>> \in Nat \X Nat
      BY <3>5
    <3>10. Listed(taken, chunks) /\ AllFit(pages, taken, chunks)
      BY DEF PagesInv
    <3>11. Listed(taken', chunks') /\ AllFit(pages, taken', chunks')
      BY <2>3, <3>8, <3>9, <3>10, OneMoreFits
    <3>. QED
      BY <2>1, <2>3, <3>2, <3>11 DEF PagesInv
  <2>4. \/ pc' = "panicked" /\ UNCHANGED <<taken, chunks>>
        \/ /\ pc' = pc
           /\ taken' = Append(taken, <<from, to>>)
           /\ chunks' = Append(chunks, Located(pages, from, to, place))
    <3>1. Found(pages, from, to, prev) = {i \in PlacesOf(Piece(<<from, to>>)) : i > prev}
      BY DEF Found, PlacesOf, PlacesIn, Piece
    <3>2. place = CHOOSE k \in {i \in PlacesOf(Piece(<<from, to>>)) : i > prev} :
                    \A j \in {i \in PlacesOf(Piece(<<from, to>>)) : i > prev} : k <= j
      BY <3>1 DEF FirstOf
    <3>. HIDE DEF place
    <3>. QED
      BY <1>5, <3>2 DEF Chunk, Located
  <2>. QED
    BY <2>2, <2>3, <2>4
<1>6. CASE SelectsEmbedder
  BY <1>1, <1>6 DEF SelectsEmbedder
<1>7. ASSUME NEW b \in 1..Len(tries), Answer(b) \/ AttemptFails(b) PROVE PagesInv'
  BY <1>1, <1>7 DEF Answer, AttemptFails
<1>8. CASE Stitch
  BY <1>1, <1>8 DEF Stitch
<1>9. CASE SelectsExtractor
  BY <1>1, <1>9 DEF SelectsExtractor
<1>10. CASE Extract
  BY <1>1, <1>10 DEF Extract
<1>11. CASE ExtractFails
  BY <1>1, <1>11 DEF ExtractFails
<1>12. CASE UNCHANGED runVars
  BY <1>1, <1>12 DEF runVars
<1>. QED
  BY <1>2, <1>3, <1>4, <1>5, <1>6, <1>7, <1>8, <1>9, <1>10, <1>11, <1>12 DEF RunNext

\* The chunker's search finds the first and the last page of a chunk's text, for any document
\* and however the splitter cuts it, unless the text is repeated (chunking.rs:88-91, 137-163).
THEOREM PagesAreRight == RunSpec => []PagesOfChunks
<1>1. PagesInv => PagesOfChunks
  <2>. SUFFICES ASSUME PagesInv, NEW k \in 1..Len(chunks), Cardinality(PlacesOf(Piece(taken[k]))) = 1
                PROVE  PagesHold(chunks[k], taken[k])
    BY DEF PagesOfChunks
  <2>1. PlacesOf(Piece(taken[k])) =
          PlacesIn(Joined(pages), SubSeq(Joined(pages), taken[k][1], taken[k][2]))
    BY DEF PlacesOf, PlacesIn, Piece
  <2>2. Fits(pages, taken[k], chunks[k])
    BY DEF PagesInv, Listed, AllFit
  <2>3. Holds(pages, taken[k][1], taken[k][2], chunks[k].pages)
    BY <2>1, <2>2 DEF Fits
  <2>. QED
    BY <2>3 DEF Holds, OnPages, PageText, PagesHold, TextOf
<1>. QED
  BY <1>1, PagesStart, PagesStep, PTL DEF RunSpec
================================================================================
