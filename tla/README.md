# TLA+ verification of the GMRAG backend

GMRAG is a multi-tenant retrieval-augmented-generation service: a Rust API
(`src/backend/crates/api`), a Rust ingest worker (`crates/worker`), a shared core
(`crates/core`), PostgreSQL (the source of truth), Redis (the ingest list, the rate
limits), Qdrant (vectors), an S3 store (the PDFs), OpenFGA (authorization tuples), and a
Next.js frontend. This directory holds the TLA+ model of its stateful logic, the TLC
configurations that check it on small instances, and the TLAPS proofs.

## 1. Inventory

| Component | State it keeps | Operations | Talks to |
|---|---|---|---|
| Upload and delete (`api/routes/documents.rs`) | `documents`, `ingest_jobs`, `ingest_outbox`, S3 object, OpenFGA tuples | upload, delete, preview, list | S3, OpenFGA, Qdrant; the request transaction is committed by `middleware/rls.rs` after the handler |
| Outbox relay (`worker/relay.rs`) | `ingest_outbox.status` | one pass every 3 s | Postgres, Redis LPUSH |
| Redis list (`worker/queue.rs`) | the list | LPUSH, BRPOP | relay, sweeper, dispatcher |
| Dispatcher (`worker/lib.rs`) | in-memory tasks, semaphore | pop, spawn, drain, process end and restart | Redis, handler |
| Handler (`worker/job.rs`) | `ingest_jobs`, `documents.status` | `process_job_with_retry` | Postgres, dual writer |
| One run (`worker/chunking.rs`, `pdf_parser.rs`, `embedding.rs`, `graph.rs`, `byok.rs`) | nothing that outlives it | parse, chunk, embed, extract | S3, the tenant's LLM settings, the providers |
| Sweeper (`worker/sweeper.rs`) | claims on `ingest_jobs` | one pass every 60 s | Postgres, Redis LPUSH |
| Retention (`worker/retention.rs`) | deletes old rows | one pass per interval | Postgres |
| Dual writer (`worker/qdrant_writer.rs`) | `document_chunks`, `graph_nodes`, `graph_node_documents`, `graph_edges`, Qdrant points | `dual_write_ingestion` | Postgres, Qdrant |
| Reconcilers (`api/reconcile`, `worker/reconcile_loop.rs`) | none (compare and repair) | Qdrant pass, OpenFGA pass | all stores |
| Authorization (`api/authz.rs`) | OpenFGA tuples | check, list, write, delete object | OpenFGA |
| Tenants, members, workspaces, grants (`api/routes/*`) | the rows and their tuples | create, delete, invite, accept, remove, share | Postgres, OpenFGA, Qdrant, S3 |
| Authentication (`api/auth`) | the key cache of a process | validate, refresh, provision | the issuer, Postgres |
| Limits (`api/middleware/rate_limit.rs`) | buckets in Redis, stream slots in memory | take, acquire, release | Redis |
| Chat (`api/routes/chat.rs`) | `chat_sessions`, `chat_messages`, the open stream | create, delete, post, stream, compensate | LLM, Postgres, OpenFGA |
| Answer stream (`core/llm/provider.rs`, `api/chat/streaming.rs`) | two buffers | read, pop an event, find tags | the provider |
| Retrieval and graph view (`api/chat/retrieval.rs`, `api/routes/graph.rs`) | none | context of a question, pages of the graph | OpenFGA, Qdrant, Postgres |
| LLM settings (`api/routes/settings.rs`, `core/crypto.rs`) | `tenant_llm_config` | get, put, resolve | Postgres |

Hard behaviour, and where it bites, is listed under `hazards` in `PROJECT.json`. In
short: every store but Postgres is outside the transaction, the queue is at-least-once
in some places and at-most-once in others, several worker processes run the same
loops, rows that belong together are written one after the other, and a client may hang
up at any await.

What makes each component correct:

* **Pipeline**: no uploaded document is lost; a reported result is stored; a failed job
  has really spent its budget; a job ends; a deleted document never returns.
* **Run**: each text keeps its own vector; the worker and the API resolve the tenant's
  key alike; a chunk knows its pages.
* **Index**: an indexed document is searchable; nothing searchable belongs to a deleted
  document for ever; a repair never removes what is live.
* **Access and sharing**: a tenant keeps an owner; rows and tuples agree at rest; a grant
  that was answered holds until it is revoked; a listed document is whole.
* **Tenancy**: nothing of a tenant appears after its deletion; what is left behind can be
  told.
* **Chat**: an answer the client was told of is stored; a failed turn leaves no trace; a
  slot comes back.
* **Answer stream**: the client sees the answer in order and whole, and its citations as
  citations, however the bytes were cut.
* **Retrieval**: nothing is shown that could not be read during the request, and what
  could be read all the time is found.
* **Gates**: a withdrawn key expires; never more than the limit in a window; `Retry-After`
  is enough.

## 2. Modules and plan

| # | Modules | Question |
|---|---|---|
| 1 | `DocumentLifecycle`, `IngestPipeline`, `IngestTimely`; `IngestPipelineProofs` | does every upload end, and honestly? |
| 2 | `IngestRun`; proofs in `TenancyProofs` | does a run hand over what belongs together? |
| 3 | `VectorIndex`; `VectorIndexProofs` | do chunk rows, graph nodes and points agree? |
| 4 | `Access`, `AccessRepair` (the OpenFGA reconciler beside it); `AccessProofs` | do rows and tuples agree, does a workspace keep a manager? |
| 5 | `Sharing` (uploads, deletions, grants and auto-fix over three stores); `SharingProofs` | does a document keep its parts and its grants? |
| 6 | `Tenancy` (uploads and runs beside the tenant's own end); `TenancyProofs` | does a deleted tenant stay empty? |
| 7 | `Conversation`, `Chat`; `ChatProofs` | is what the client saw stored? |
| 8 | `AnswerStream`; proofs in `ChatProofs` | does the answer survive its cuts? |
| 9 | `Retrieval`; `RetrievalProofs` | is what is shown readable? |
| 10 | `Gates`; `GatesProofs` | who comes in, and how often? |

Each `MC...` module gives a module its small instance. `DocumentLifecycle` is what a user
of the API may believe about a document, and `IngestPipeline` implements it
(`ImplementsLifecycle`); `Conversation` is what a chat promises, and `Chat` implements it
(`ImplementsConversation`). `IngestTimely` extends the pipeline, `AccessRepair` extends
`Access`. The other modules meet at their edges: `IngestPipeline` has a run of the handler
as one step, `IngestRun` and `VectorIndex` are the inside of it; `Tenancy` has the uploads
of `Sharing` and the runs of `IngestPipeline` as far as they touch the tenant.

What a further development would add is in section 13.

### Properties that do not hold

Some statements are defined and not checked by any run: what the documentation or a
comment says of the code, and the code does not do. Each is preceded by a comment that
says so. To see the counterexample, add the name to the cfg named here, under INVARIANTS
unless it says PROPERTIES.

| Property | cfg | |
|---|---|---|
| `DocumentsSettle` | `IngestPipeline.cfg` (PROPERTIES) | a document may stay `processing` for good |
| `ProvenanceKept` | `Vector.cfg` (PROPERTIES) | a node loses the provenance a run has just committed |
| `RepairSparesLive` | `Vector.cfg` | auto-fix deletes points of rows that are committed by then |
| `LastOwnerKept` | `AccessSafety.cfg` | two owners removed at once |
| `PostgresIsTruth` | `AccessRepair.cfg` | the tuple of a removed member is written back |
| `UpsertsFindIndexes` | `Tenancy.cfg` (PROPERTIES) | points before the indexes |
| `PagesOfRepeatedText` | `IngestRun.cfg`, with a document of five equal pages in `MCDocuments` | wrong pages for repeated text |
| `StreamEndsWithEvent` | `Chat.cfg` | a stream without a terminal event |

## 3. The ingest pipeline

### Model and code

One identifier `j` stands for a document, its `ingest_jobs` row and its
`ingest_outbox` row: they are inserted in one transaction, one of each, and deleted
together by the cascade.

| Code | Model |
|---|---|
| rows | `doc`, `status`, `attempts`, `claim` (`claimed_at`: NULL, within the lease, older), `outbox`, `chunks` (chunk rows committed) |
| Redis list | `queue`, a sequence of payloads; a payload is its job and its `attempts` |
| worker process | `worker` (up, stopping: Ctrl-C seen and the abandoned BRPOP still blocked in Redis, draining, down), `relay`, `sweep`, their connections |
| spawned task | `pc`, `jobOf`, `count`, `owner` |
| `relay_outbox_once` | `RelayBegin`, `RelayPush` per row, `RelayCommit`, `RelayFail` |
| `requeue_stuck_jobs` | `SweepClaim` (one transaction, cap included), `SweepPush`, `SweepPushFails` |
| `run_dispatcher` | `Pop`, `Shutdown`, `LosePop`, `Exit`, `Crash`, `Restart` |
| `process_job_with_retry` | `RefuseExhausted`, `ClaimJob`, `MarkProcessing`, `RunSucceeds`, `RunFails`, `MarkCompleted`, `MarkIndexed`, `RecordFailure`, `GiveUp`, `MarkDocumentFailed`, `HandlerFails` |
| API | `UploadCommit`, `DeleteDocument` at their commits |
| retention | `PurgeOutbox` |

A Postgres transaction is one step, except the relay's: it pushes to Redis while it is
open, so its steps are separate and its row locks (`Locked`) are explicit. The attempt
count a handler writes comes from its payload, as in the code, never from the row.

### Runs

| Run | Instance | Shows |
|---|---|---|
| `ingest_pipeline` | 1 worker, 1 job, 2 tasks, 2 permits, 2 attempts, 1 disturbance, fair | `TypeOK`, `FailedJobSpentBudget`, `ReportedMeansStored`, `NoSilentDrop` (the drain), `ImplementsLifecycle`, and the liveness properties `JobsSettle` and `OutboxDrains` |
| `ingest_timely` | 2 workers, 2 jobs, 2 attempts, 1 disturbance, a lease that outlasts deliveries | `RelayRepeatsNeedFault` (SKIP LOCKED keeps relays apart), `RunsAreAccounted` (`RunBudget`: no job runs more often than it may; `AttemptsCoverRuns`: the row counts every run but one that is under way or died; `RestingRowsAgree`: job and document say the same once nobody works on them), `RowsFollowStateMachine` |

`RowsFollowStateMachine` is the state machine `status.rs` documents for documents, and
that a terminal job is never re-opened. Without the lease of `IngestTimely` it does not
hold (section 12).

**Bounds.** `Jobs`, `Workers`, `Tasks` (payloads popped and in memory at once),
`MaxQueue` (list length) and `MaxFaults` (crashes, Ctrl-C, failed statements, failed or
lost pushes together). Two tasks of one job are what every duplicate-delivery hazard
takes; two attempts separate first run, retry and cap; a second job matters only where
batches and order do (`ingest_timely`); a second worker only where locks and process
ends do. A push waits while the list is full, which is a bound of the model, not of
Redis; no property depends on it, and the proofs hold for every value of it.
`CHECK_DEADLOCK FALSE`: the system rests when every document is settled or deleted and
the disturbances are used up.

**Symmetry** over workers and tasks is used in `ingest_timely` only (jobs are ordered
by `created_at`), never under a liveness property.

**Fairness.** Weak fairness of the relay's pass, the sweeper's pass, the pop, the
process exit and restart (compose: `restart: unless-stopped`), each handler task and
the passing of a lease. Each is a loop with a timer or a task the runtime polls. No
upload, delete, purge, failure or Ctrl-C is forced. `JobsSettle` additionally assumes
that in the end some process has a sweeper task at all, `OutboxDrains` that some
process has a working relay: the code disables either for the life of a process when
the connect at its start fails.

### Proofs (`IngestPipelineProofs`)

All hold for any finite set of workers, any set of tasks, any set of numbered jobs and
any bounds. The invariant is built in layers, each inductive on top of the earlier ones:

1. `TypeInv`: `TypeOK` with `NoRunAtCap`. They need each other: the type of `count`
   (at most `MaxAttempts`) survives `RunSucceeds` only because a running task is below
   the cap, and the cap on `attempts` only because `SweepClaim` tests it.
2. `RowInv`, `ChunkInv`: what each program counter knows about the rows. A task that
   ran holds committed chunks *if its document still exists*; a task about to fail
   a document holds a spent budget. This is what `ReportedMeansStored` and
   `FailedJobSpentBudget` need, because a second payload of the job can interfere at
   any point.
3. `OutboxInv`, `LockInv`, `Paid`: rows held by an open relay transaction are
   pending, no two relays hold the same row, and every push is covered by a mark, an
   open transaction or a counted disturbance.

From them follow `TypeOK`, the safety invariants (also `DispatchedWasPushed`,
`UnclaimedIsUntouched` and `NoRunAtCap`, which no run repeats), `NoSilentDrop` as an
action property, and `ImplementsLifecycle` (every step is a `DocumentLifecycle` step or a
stutter; a sweep that fails several documents at once maps to `ReportFailed`).

Under the lease of `IngestTimely` the argument is one of tickets. A job's ticket is its
outbox row until a relay pushed it, a payload on the list, a task, or a sweeper's claim
that is still to be pushed; `OneTicket` says there is one at most. The books say what it
carries: `TicketBooks` and `TaskBooks` that it knows the attempts of the row and bounds the
runs (a run that returned and is not yet written down is the one by which they differ),
`RestBooks` that a job without a ticket is covered by the attempt the sweeper would add,
and, where nothing was disturbed, that its rows have settled. Crashes, lost pops and failed
pushes only take tickets away, and each is paid by a disturbance (`TicketsAreExclusive`).
`RunsAccounted` and `RowsFollowTheMachine` follow. Without the lease `OneTicket` is lost
with the first sweep of a job whose payload is on its way (section 12).

Only model-checked: the liveness properties, as fairness and `ENABLED` are out of the
prover's reach.

## 4. One run of the handler (`IngestRun`)

### Model and code

From the bytes of a document to what the dual writer is handed, while the owner changes
the tenant's LLM settings. The run reads the settings twice (`SelectsEmbedder`,
`SelectsExtractor`), in transactions of their own.

| Code | Model |
|---|---|
| `tenant_llm_config`, the key's encryption | `cfg`, `secret`; `Puttable`, `Decrypt`, `MaskedKey` |
| the four resolvers of the key: settings page, API, worker's embedder, worker's extractor | `GetSettings`, `ResolveLlm`, `SelectEmbedder` with `ByokKey`, `SelectExtractor` with `GraphKey` |
| `download`, `parse_pdf` with pages that cannot be extracted | `Download`, `Parse`, `ExtractPages` |
| `chunk_pages` | `Joined`, `Taking` (what the library's splitter may take next), `Chunk`, `PageRange` |
| `embed_batched` | `InFlight` (`buffer_unordered`), `Answer`, `AttemptFails`, `Stitch` |
| graph extraction | `Extract`, `ExtractFails` |

The splitter of the `text-splitter` crate is external; `Taking` states what the code
relies on: pieces in order, no longer than the size, overlapping at most the overlap,
nothing left out but white space. A character is one token; "w" is one of several bytes,
because the chunker searches by bytes.

### Run

`ingest_run` (4 documents of up to 4 pages, a page of which may get lost; chunks of 5
with an overlap of 2; batches of 2, 2 in flight, each may fail twice; every settings row
the database may hold and one change of it): `VectorsFitTexts`, `ResolversAgree`,
`PagesOfChunks`. Three batches with two in flight is what out-of-order answers take, and a
page longer than a chunk, a blank page between two, and a chunk over two pages are all the
cases the page search distinguishes.

### Proofs (in `TenancyProofs`)

`Init`, `Next` and `TypeOK` are called `RunInit`, `RunNext` and `RunTypeOK` here, so that
one module can hold the proofs about this module and about `Tenancy`. For any documents,
settings, batch size, concurrency and number of retries:

* `SettingsAreReadAlike` (`ResolversAgree`): every row the database can hold, under any
  secret, is resolved alike by its four readers. The invariant is only that `cfg` is such a
  row; the rest is the case distinction the four functions make.
* `VectorsArePlaced` (`VectorsFitTexts`): `ResultsInv` says that a result that is good has
  the vectors of its batch in its order, `VectorsInv` that what was stitched is the vector of
  each text at its place. The arithmetic is that the batches cover the texts
  (`(b - 1) * BatchSize`, a division) and that a text is in one of them only.
* `PagesAreRight` (`PagesOfChunks`), for any size and overlap of the chunks as well:
  `PagesInv` says that every chunk's search started no later than where the chunk was taken
  and that its pages are right if its text occurs once. It rests on two facts about every
  document: a page that is not blank starts where the text before it ends (`PagesSit`), and
  each character of the joined text is on a page or is the white space between two
  (`InkCovers`). `Start` and `Joined` are recursive functions, and the induction is by the
  smallest number that is not in a set (`Smallest`, `Climb`), which well-foundedness of the
  subset order on finite sets gives; `Recursion` shows that such functions exist, without
  which a `CHOOSE` says nothing. `TextAssumption` (pages are sequences of characters) is all
  that is assumed of the documents.

## 5. Rows and vectors

### Model and code

Postgres has transactions, Qdrant has not, and four actors write both. A run of the
dual writer inserts or finds its rows, upserts its points and commits. A delete removes
points (best effort), the document, the orphaned nodes and their points, and is
committed by the middleware after the handler. The deletion of the workspace removes the
chunk points of all its documents (best effort), then every row by the cascade, and leaves
the points of the nodes to the reconciler. The reconciler reads rows, then points, and
removes what it found no row for.

| Code | Model |
|---|---|
| `documents`, `document_chunks`, `graph_nodes`, `graph_node_documents` | `doc`, `chunkRow`, `nodeRow`, `prov`: committed rows; what an open transaction has written follows from its place (`pc`, `del`) |
| `chunks_{tenant}`, `graph_{tenant}` | `chunkPoints`, `graphPoints` |
| a new `gen_random_uuid()` | the name of the run that inserts the row |
| `dual_write_ingestion` | `WriteChunkRows`, `WriteNodeRows`, `UpsertChunkPoints`, `UpsertNodePoints`, `CommitRun`, `RollbackRun` |
| `delete_document` and its COMMIT | `DeleteLoad` to `DeleteNodePoints`, `DeleteCommit`, `DeleteRollback` |
| `delete_workspace` and its COMMIT | `WipeCleanup`, `WipeRows`, `WipeCommit`, `WipeRollback` |
| `run_qdrant_reconcile` | `ReadDocs`, `ReadNodes`, `ScrollChunks`, `ScrollGraph`, `FixChunks`, `FixGraph`, `PassFails` |

Row locks are guards: the foreign key makes a run and a delete of its document wait for
each other, `ON CONFLICT DO UPDATE` makes two runs on one row wait, and `DELETE FROM
graph_nodes` waits for the runs that upserted the node. The label rows of a run are
locked in one step; a deadlock between two runs that lock them in opposite orders ends
in an abort, which is `RollbackRun`. The cascade of `DELETE FROM workspaces` is one
step that waits for the runs and deletes holding a row of it, and while it holds the rows
no upload and no run begins; a deadlock with one of them ends in an abort, which is
`WipeRollback`. The documents are those of one workspace, and one request at a time
deletes it; it may be repeated. A request to Qdrant is one step (`wait = true`) and
may be applied although it is reported failed; a request applied only after its caller
gave it up for lost is not modelled. The tenant is one, and so is its pair of
collections. `spoiled` is a history variable: rows whose point a delete removed before
it rolled back, and rows that were there when the clean-up of the workspace took their
points. The code never repairs these, so the properties have to except them.

### Run

`vector` (2 documents that share a label, 2 runs, one failed pass; the reconciler with and
without auto-fix): `TypeOK`, `ChunksSearchable`, `NodesSearchable`, `DeletedGainsNothing`,
`OrphansSwept`; the workspace may be deleted at any time, and the request may fail and
come again. The first three hold of rows no pass has repaired. Two documents are what
sharing a node takes, two runs a run and its retry, or the runs of the two documents.
Where the pass repairs, one document (`Kept`) is still to come and the other has come and
gone, so that what the pass finds is either live or left over. Every delete can be
repeated without bound. **Fairness**: the reconcile loop ticks (`WF` of `Pass`) and an
open transaction, that of the workspace's deletion included, ends one way or the other,
which is to say that no call hangs for ever; nothing has to be uploaded, ingested or
deleted. The system stops when the runs are used up and nothing repairs, hence
`CHECK_DEADLOCK FALSE`.

### Proofs (`VectorIndexProofs`)

For any documents, labels and runs. `SearchInv` has three layers: `TypeInv` (a
provenance row has its node, or the candidates of a delete would not be nodes),
`Locks` (one open run per document, one upserting run per label, no upserted node in an
open delete, ids known to others only after the commit), and, when nothing repairs,
`ChunkInv` and `NodeInv`: a run that has upserted a point still names the row it will
commit, and that point is there or excused. The lock layer is needed because
`CommitRun` turns a point into a promise: without it another run could have committed a
different id under the same key, or a delete could have taken the row. That a run and the
cascade exclude each other (`DocumentHeld`) is a part of it. From it follow
`TypeOK`, `ChunksSearchable`, `NodesSearchable` and `DeletedGainsNothing`.
`OrphansSwept` is only model-checked.

## 6. Access

### Model and code

A request may use a workspace if OpenFGA says so; what OpenFGA should say follows from
the rows of `tenant_members` and `workspace_members`. A handler changes the row in the
request's transaction and the tuple by a call in between, and `rls_middleware` commits
when the handler is done, whatever it answered. `AccessRepair` puts the OpenFGA
reconciler beside it, which reads rows, then tuples, then writes.

| Code | Model |
|---|---|
| `tenant_members`, `workspaces`, `workspace_members` | `tenantRole`, `workspace`, `workspaceRole`: committed rows of one tenant and one workspace; an open insert and the row locks of `FOR UPDATE` follow from `req[r].step` |
| OpenFGA | `tuples`; the relations of `model.fga` are `TenantMember`, `TenantOwner`, `Manager` |
| `create_workspace` | `CreateBegin`, `CreateGrant`, `CreateGrantFails`, `CreateCommit` |
| `ws_members.rs` `add_member` | `AddBegin`, `AddInsert`, `AddGrant`, `AddGrantFails`, `AddCommit` |
| `ws_members.rs` `remove_member` | `RemoveBegin`, `RemoveLock`, `RemoveRevoke`, `RemoveCommit` |
| `delete_workspace` | `DeleteBegin`, `DeleteRead`, `DeleteRevoke`, `DeleteCommit` |
| `tenant_members.rs` `remove_member` | `LeaveBegin`, `LeaveRead`, `LeaveCount`, `LeaveRevoke`, `LeaveCommit` |
| a refusal, a failed statement or COMMIT, a client that hangs up | `Abort` before the tuple call, `AbortLate` after it |
| `run_openfga_reconcile` | `PassExpected` to `PassDelete`, `PassFails` |

### Runs

| Run | Instance | Shows |
|---|---|---|
| `access_safety` | 2 users, 2 requests at once, any number of them one after the other, 1 failure after a tuple call | `LastManagerKept`, `RowsAndTuplesAgree` |
| `access_repair` | 2 users, 2 requests, one of which fails late, auto-fix, fair | `RepairCompletes` |

**Bounds.** Two users are one who stays and one who goes, and already let two removals
each count the other; two requests are what a conflict takes. The initial state is any in
which rows and tuples agree. In `access_repair` two requests in all are enough for one
failure and one request that overlaps the repair of it. **Symmetry** over users and
requests in `access_safety` only. **Fairness**: the loop starts a pass at each tick
(`WF`), and a pass that is begun again and again gets through (`SF`: the stores are not
away for ever); no request has to be made or to end. `CHECK_DEADLOCK FALSE` where nobody
can do anything any more: a tenant whose last owner has left admits nobody.

### Proofs (`AccessProofs`)

For any finite set of users, any requests and any number of late failures. `AccessInv`
has three layers:

1. `TypeInv`: besides the types, that a request past its first step is about a user and
   one that adds names a role, without which its tuple would not be one.
2. `LockInv`: what the holder of a row lock knows. Who has inserted knows that no other
   row of its target exists; who has locked the members knows its target's role and that
   another manager is left; no two requests hold the lock. `LastManagerKept` alone is not
   inductive: `RemoveCommit` acts on a count that was taken two steps earlier.
3. `AgreeInv`, as long as no request failed late: a tuple is there if and only if its row
   is and no request has just revoked it, or a request has just granted it.

`AlwaysManageable` needs both: if the manager of layer 2 is the one being revoked, the
lock gives another, and layer 3 his tuple. Only model-checked: `RepairCompletes`.

## 7. Sharing

### Model and code

The documents of a tenant in Postgres, S3 and OpenFGA, written by requests that share no
transaction: uploads, deletions, grants, revocations, and the OpenFGA pass with auto-fix.

| Code | Model |
|---|---|
| `documents`, the bucket, OpenFGA | `rows`, `objects`, `tuples` (the structural ones of a document are its "place" and its "owner", the others are of people) |
| `upload_document` and its COMMIT | `Admit` (the quota), `StoreObject`, `WriteTuples`, `UploadFails` (ROLLBACK TO SAVEPOINT, best-effort clean-up), `CommitUpload`, `HangUp` |
| `delete_document` and its COMMIT | `LoadDocument`, `ReadPage` (one page of tuples), `DropTuples`, `DropObject`, `CommitDelete`, `HangUpDelete` |
| `create_grant`, `revoke_grant` | `Ask`, `WriteGrant`, `AnswerGrant` |
| `run_openfga_reconcile` | `PassExpected`, `PassRead`, `PassJudge`, `PassWrite`, `PassDelete`, `PassFails` |

A failed call may have taken effect (`Perhaps`). A grant is `granted` once it is answered
with 201; from the moment a revocation is asked for it may or may not hold.

### Run

`sharing` (3 documents, 2 uploads at once, a quota of 1, pages of 2 tuples, 2 deletions,
grants or revocations, 1 failed call): `QuotaOvershootBounded`, `DocumentsAreWhole`,
`GrantsAsAnswered`, `TuplesSettle`. Two uploads against a quota of one exceed it, a third
document shows by how much; a page of two is full with the structural tuples alone, so
that a third tuple is left behind. **Fairness**: the pass goes on (its loop has a timer,
its calls end); requests need not. `TuplesSettle` is about what the pass does once
nothing else moves; the system then rests, `CHECK_DEADLOCK FALSE`.

### Proofs (`SharingProofs`)

For any documents, people, quota, page size and number of faults.

1. `StoreInv`: a document whose upload is under way has neither row nor deletion, one
   that is past `StoreObject` has its object, and only a deletion that has begun takes
   object and row away. From it `DocumentsAreWhole`.
2. `QuotaOvershootBounded` is inductive as it stands, given the types: admission finds
   one row less than the quota and one upload less than there may be, and the commit
   trades an upload for a row.
3. `GrantInv`: a person's tuple is of a document with a row or a deletion that began, in
   OpenFGA and in everything a pass has read, so what a pass calls orphaned is nobody's
   live grant, and what it calls missing is never a person's. `Harmless` names what
   uploads, deletions and passes may do to the tuples of people; only the requests of
   that person do more. From it `GrantsAsAnswered`. That the pass reads the documents
   *after* the tuples is what the proof turns on.

Only model-checked: `TuplesSettle`.

## 8. Tenancy

### Model and code

One tenant from `create_tenant` to the commit of `delete_tenant`, with uploads and ingest
runs of it meanwhile, and the two collections they set up.

| Code | Model |
|---|---|
| `create_tenant` and its compensation | `Create`, `AnswerCreate`, `Compensate` |
| `upload_document`, as far as it touches the tenant | `StoreObject`, `WriteRow`, `UploadFails`, `CommitUpload` |
| `dual_write_ingestion` with `setup_tenant_collections` | `Begin`, `Check`, `CreateCollection`, `BuildIndexes`, `Upsert`, `CommitRun`, `RunFails` |
| `delete_tenant` with its teardown | `BeginDelete`, `DropTuples`, `ListCollections`, `DropCollection`, `EndTeardown`, `DropObjects`, `RemoveRow`, `CommitDelete`, `AbortDelete` |

A row that refers to the tenant holds a key-share lock on the tenant's row: `Locked` and
`Refers` are the two sides of it.

### Run

`tenancy` (2 documents, 2 jobs of 3 attempts, 2 deletions, 2 faults):
`SetupRacesSurvived`, `OnlyRacersLeave`, `GoneTenantGainsNothing`. Two jobs race for two
collections; three attempts are the code's number and more than the races can take; the
second deletion comes after a first that failed half-way. **Symmetry** over documents and
jobs; no liveness. `CHECK_DEADLOCK FALSE`: a deleted tenant rests.

### Proofs (`TenancyProofs`)

For any documents, jobs and number of attempts, deletions and faults. `LockInv` says that
whoever writes for the tenant holds its row (`WritersHoldTheirTenant`), `OrderInv` that
nothing is deleted before the owner's tuple is written; without the second a creation
could be compensated in the middle of a deletion. `GoneTenantGainsNothing` follows: a
step that adds something needs one of the two, and a tenant that is gone has neither.

`SetupSurvives` (`SetupRacesSurvived`) assumes what the code has: more attempts per job than
the two collections. `SetupInv` counts: an attempt is only lost to a collection that was
missing when the job looked and is there from then on, so each collection costs a job one
attempt. `RacersLeaveIt` (`OnlyRacersLeave`) needs `LeaveInv`, which says after each step of
the deletion what may be left: tuples of the listed documents and of racers, then of racers
only; points and collections the same, from the moment the names are listed; objects last.
A racer is whoever was under way while the deletion was.

## 9. Chat

### Model and code

`Chat` has the sessions of one tenant and the turns posted to them, each over three
transactions and a response body that the client may drop at any await.

| Code | Model |
|---|---|
| `chat_sessions`, its tuples, the open request | `row`, `tuples`, `op` |
| `chat_messages` | `question`, `answer`, by turn |
| `create_session`, `delete_session` and their COMMIT | `InsertSession` to `LoseSession` |
| `post_message` and its COMMIT | `Post`, `Refuse` (the slot), `OpenSession` to `CommitQuestion`, `CommitError`, `LoseQuestion` |
| the body: start, stream, compensate, persist, the terminal event | `StreamStarts` to `YieldPersistFailed`; `ParserPanics` |
| the client leaves; the guard's spawned release; the process dies | `Leave`, `Release`, `Crash` |

`Conversation` is the promise: a turn is asked, then answered or withdrawn; "done" is
only said of what is stored; a withdrawn question stays unanswered; an erased session takes
its turns along. `Stage` is the refinement mapping.

### Run

`chat` (1 session, 3 turns, 2 slots, 1 disturbance, fair): `FailedTurnsLeaveNoOrphan`,
`SlotsMatchStreams`, `ImplementsConversation`, `SlotsComeBack`. Three turns are one more
than there are slots; turns of different sessions share the slots only. **Fairness**: no
timeout covers the provider's body, so a turn goes on *or its client leaves*; the
spawned release and the commit of a delete are the server's own. `CHECK_DEADLOCK FALSE`:
every turn is over in the end.

### Proofs (`ChatProofs`, last part)

For any sessions, turns, limit and faults. `TurnInv` says what may be stored of a turn at
each place, with an answer sharing the fate of its question; `SessionInv` that a question
which is inserted or stored has its session's row: the key-share lock in `DeleteSession`
is needed for that. They give `FailedTurnsLeaveNoOrphan` and `NoMessageOutlivesItsSession`.
`SlotInv` counts: `SlotsMatchStreams`. Each step then maps to a step of `Conversation` or
to none (`ChatImplementsConversation`). Only model-checked: `SlotsComeBack`.

## 10. The answer stream and retrieval

### `AnswerStream`

From the bytes of the provider to the events the client gets: frames cut by the network
anew, both line ends, `from_utf8_lossy` of each read, the buffer of incomplete events, the
parser of citation tags that holds back what may be the start of one, and the resolution
of a citation against the excerpts of the prompt. Characters stand for what the code
tells apart: the prefix `[chunk:`, a digit, the closing bracket, another character, one of
two bytes.

`answer_stream` checks every text of up to two characters and seven with tags (beside one
another, cut short, of two digits, not closed, opened twice), in up to three deltas with a
short read: `WholeAnswerIsKept` and `CitationsSurviveCuts`. Three deltas cut a tag into
three parts; a short read cuts a frame or a character. A read that cuts a character
(`torn`) and a tag that opens inside another (`Nested`) are excepted: there the code does
lose a character, and does take the outer tag for text. The model ends, hence
`CHECK_DEADLOCK FALSE`. `StreamInit`, `StreamNext`, `reply` and the like have names of their
own so that one module can extend both `AnswerStream` and `Chat`.

**Proofs** (`ChatProofs`, first part). Both properties are theorems, for every answer and
set of excerpts and any number of deltas and reads. They assume `AnswersAssumption` (an
answer is a sequence of the model's characters), `ExcerptsAssumption` and `BoundAssumption`.
`StreamTypeCorrect` has the types.

The operators come first. `Concat` is a recursive function, and what it does to two
sequences one after the other is proved by taking the smallest length at which it could
fail (`Recursion`, `ConcatJoins`). `Each`, `Decode`, `Without` and what events show are all
of that form (`Spread`), so encoding, decoding, taking out marks and showing distribute
over `\o`. From there: the bytes of a text that was not torn are decoded as they were
written (`Decoded`, `ReadSplits`), the first blank line in the buffer is the end of the
first frame, whichever line ends follow (`FirstEnd`, `CutIs`), and what is found in a
frame is its delta (`ContentIs`).

`WholeAnswers` (`WholeAnswerIsKept`) needs `StreamInv`: unless a read tore a character,
what is shown, what the parser holds, and the texts of the frames in the buffer and on the
wire are, one after the other, the answer as far as it is sent, and only the last frame has
the finish_reason. The property speaks of the first two only; without the frames it would
not survive a `PopEvent`.

`CitationsAreKept` (`CitationsSurviveCuts`) needs `CutInv`: *however the answer goes on*,
every citation of it that starts in what is shown is a citation event already. The
quantifier is what makes it inductive, since the next delta may close a tag; it says that
`HoldBack` never lets go of the start of a tag. `HeldInv` (no whole tag is held between
reads) and `Digits` (a citation has a number) complete it. At the end the citation events
and the places of the citations are counted by a bijection (`SameCount`). Nothing here
needs the reads to be whole: a torn read is text to the parser like any other.

The invariants were checked by TLC on the instance above before they were proved, `CutInv`
with the ways to go on that are shorter than a tag.

### `Retrieval`

One request of one user in one workspace: a question (documents, chunks, graph with its
text fallback, edges), the list of documents, a preview, or the pages of the graph. Every
read of OpenFGA, Qdrant and Postgres is a step, and others share, unshare, expel, delete
and ingest in between. A ranking is any order.

`retrieval` (2 documents here and 1 elsewhere, 2 nodes and an edge, at most 2 results,
pages of 1 node, 1 change, from every consistent start): `NothingUnreadableShown`,
`ResultIsClosed`, `SteadyIsShown`. That the changes are few is a bound of the run: the
theorem `ShownWasReadable` (`RetrievalProofs`) has the first property for any number of
changes, documents, nodes and limits. Its invariant: what was listed was viewable, what
is allowed is of this workspace, and a node is shown by a provenance row that was there.
The preview needs a line of its own, as it looks at a row before the permission.

`ResultsAreClosed` (`ResultIsClosed`) and `SteadyWasFound` (`SteadyIsShown`) hold for any
page size and limit as well. `ShapeInv` describes the request at each place: candidates are
distinct and disjoint from what was taken, the sizes add up to the limit at most, and the
pages of the graph end at the cursor. `SteadyInv` builds on it: what stayed readable is
among what was listed and allowed, and shown, or still a candidate, or behind the cursor;
others can only make it less. Ranked lists and pages are sequences the model chooses, and
what is needed of them (distinct, no more than asked for, all of them if they are few, in
order) is stated in lemmas of their own.

## 11. Gates

### Model and code

A request's way to its handler, with a clock: the signature under a key the process
caches (`Lookup`, `Ask`, `FetchFails`, `StoreKeys`, `Reread`; the issuer is `Publish` and
`Withdraw`), the user's row and the tenant (`Provision`, `EnterTenant`), the rate limit
(`ReadClock`, `Take`, `FailOpen`). `Take` is the Lua script, with the arithmetic in units
of 1/`Window` of a token; the bucket's clock is the caller's, read up to `Delay` earlier.

### Run

`gates` (3 requests, 2 keys, a cache of 2 ticks, a timeout of 1, a window of 2 with a
bucket of one token, delay 1, 4 ticks, 1 fault): `RetiredKeysExpire`, `RateHolds`,
`RetryAfterSuffices`. Three requests on a bucket of one are one granted, one rejected and
one that comes back; three fetches may overlap a key's withdrawal. Four ticks are two
windows, or a cache that expires and is filled again. The two routes stand for a limited
and an unlimited one; `RouteCategory` has all of them. **Symmetry** over requests and
keys. Time and requests end, hence `CHECK_DEADLOCK FALSE`.

### Proofs (`GatesProofs`)

For any keys, requests, lifetime of the cache and timeout. `AnswerInv`: an answer on its
way is no older than the timeout, and each of its keys was published when it was given;
`CacheInv`: so what is stored is no older than the timeout; `KnownInv`: and what is read
no older than the cache's lifetime on top of it. A request that has just stored keys reads
the cache without any time passing, which is what `CacheInv` says of "fetched".

`TheRateIsHeld` (`RateHolds`) and `RetryAfterIsEnough` (`RetryAfterSuffices`) are about the
Lua script, for any limits, window and delay. `CreditInv` keeps books for every grant: the
tokens let through since then and those still in the bucket are no more than what was in it
at most and what was refilled by the bucket's clock, with `Delay` for every time that clock
slipped back. A bucket dropped after two windows starts full and must not break the books
(`CreditAfterDrop`), which is where the two windows of the script's expiry are needed.
`ToldInv` says that what a rejected caller was told is the time at which the bucket it left
holds a token, for refill rates that do not divide the window as well. The products of a
limit and a time are kept in lemmas of one line each, as the solver does not multiply
symbols.

## 12. Disagreements met while modelling

Where code and comment differ, or where the code does what its reader would not expect.
Those with a name can be run (section 2).

* `claimed_at IS NULL` counts as stuck whatever the row's age, so a job just uploaded is
  swept although its payload is still to come; the older payload then re-opens a finished
  document, against the state machine of `status.rs:15-16`. `RowsFollowStateMachine` holds
  only where no payload outlasts the lease. More than `MAX_ATTEMPTS` runs of one job are
  possible too (`job.rs:235`).
* `DocumentsSettle`: job row and document row are written in two transactions
  (`job.rs:320-330`), and a job that is `completed` or `failed` is never looked at again,
  so a failure between the two leaves the document `processing`.
* `documents.rs:352-353` says the sweeper can flip a pending outbox row, but it never
  touches the outbox; `lib.rs:100-102` says a started job is never silently dropped, but a
  BRPOP error aborts all of them (`lib.rs:139-140`).
* `ProvenanceKept`: the orphan query and the `DELETE` by id are two statements
  (`documents.rs:526-560`); an ingest that commits the same node in between loses its
  node, its provenance and its point. Two concurrent deletes of the two documents of a
  node each keep it for the other's sake, and it stays without provenance.
* `RepairSparesLive`: the reconciler's rows are older than its points, and the dual writer
  upserts before it commits, so auto-fix deletes points of rows that are committed by then
  (`reconcile/qdrant.rs:8-11`, `:95`). They are never re-created. A rolled-back run
  leaves points a retry does not reuse (`qdrant_writer.rs:8-9` says "so a retry starts
  clean"); a delete that rolls back leaves a live document that cannot be found.
* `LastOwnerKept`: owners are counted without a lock (`tenant_members.rs:228-257`), so two
  removals can each see the other's owner. Workspaces take the lock: `LastManagerKept`.
* `PostgresIsTruth`: the pass can write back the tuple of a member who is being removed
  (`reconcile/openfga.rs:155-251`), and the next pass does not see it, because orphans are
  told by the existence of their user and object.
* A grant's tuple is written before its audit row (`acl.rs:219`), so a grant answered with
  an error may hold; a deletion reads one page of tuples and leaves the rest to the
  reconciler; `delete_tenant` that fails once the owner's tuple is gone leaves a tenant
  nobody can delete.
* `UpsertsFindIndexes`: a second run finds the collection and writes to it while the first
  still builds its indexes (`core/src/qdrant/store.rs:115-117` means to avoid that).
* `StreamEndsWithEvent`: `holdback_len` (`streaming.rs:118`) slices the text at every byte
  from its end and panics inside a character of several; the stream then ends without a
  terminal event (`chat.rs:651`).
* `provider.rs:230` decodes each read by itself, so a character cut by a read is lost.
* The history of a turn is loaded after its question is inserted, and holds it, against
  the comment at `chat.rs:542-544`; the question is then appended once more (`:694`).
  `assistant_text_from_events` (`streaming.rs:179-188`) leaves citations out, so a stored
  answer, and the history of the next turn, has none of them.
* `PagesOfRepeatedText`: the search for a chunk goes on one character after the place of
  the last one (`chunking.rs:137-139`), and finds text that is repeated too early; it
  starts one *byte* later, inside a character if that one has several.
* A change of the embedder leaves the vectors of earlier documents in another space.
* `provision.rs:26` handles the conflict on the id, while the e-mail is unique as well.

## 13. Not modelled

See `components` in `PROJECT.json` for each part and its reason.

* Metering, metrics, users: best-effort inserts and read-only views. Routing,
  configuration, OpenAPI schemas: no state. The frontend polls.
* Of the retention only the purge of outbox rows: nobody reads what the other two purge.
* Invitations of users without an account, the one-off backfills.
* What a PDF or a model says, signatures, encryption and similarity: they are modelled by
  their outcomes.
* Payloads are well formed: a malformed payload makes `poll_once` fail, which the model
  has as `Crash` for any reason. Statement failures inside the sweeper's claim transaction
  roll it back and leave no trace, so they are stutters. The lock waits between the status
  updates and the sweeper are not modelled: each side is one transaction.

Not proved, and checked by TLC on the instances above only: the liveness properties
(`JobsSettle`, `OutboxDrains`, `OrphansSwept`, `RepairCompletes`, `TuplesSettle`,
`SlotsComeBack`), because fairness and `ENABLED` are out of the prover's reach. Every
other property of the runs is a theorem as well. That an answer goes on at all, and that
the body then yields its events, is liveness and is not stated of `AnswerStream`.

What could be added: that `VectorIndex` with `IngestRun` implements the step
`RunSucceeds` of the pipeline; that the answer `AnswerStream` ends with is the one `Chat`
stores; invitations beside the removal of members.
