-------------------------------- MODULE Tenancy --------------------------------
(***************************************************************************)
(* The life of a tenant.  Its creation and deletion are requests that      *)
(* write Postgres, OpenFGA, Qdrant and S3 one after the other; meanwhile   *)
(* documents are uploaded to it, and ingest runs set up its collections    *)
(* inside their transaction.  What holds them apart is the key-share lock  *)
(* a row takes on the tenant it refers to.                                 *)
(***************************************************************************)
EXTENDS Naturals, FiniteSets

CONSTANTS
  Docs,        \* documents uploaded to the tenant
  Jobs,        \* ingest jobs of the tenant, of documents not listed here
  MaxAttempts, \* attempts of a job: 3 in the code
  MaxDeletes,  \* bound: requests to delete the tenant
  MaxFaults    \* bound: failed calls, crashes and clients that hang up

ASSUME NamesAssumption    == "owner" \notin Docs /\ Docs \cap Jobs = {}
ASSUME AttemptsAssumption == MaxAttempts \in Nat \ {0}
ASSUME BoundAssumption    == MaxDeletes \in Nat /\ MaxFaults \in Nat

Collections == {"chunks", "graph"}

VARIABLES
  tenant,      \* its row: "none" yet, "live", "gone"
  rows,        \* committed documents of Docs
  tuples,      \* of the tenant's owner, and of each document
  objects,     \* under the tenant's prefix in S3
  collections, \* of the tenant in Qdrant, and whether their indexes are built
  points,      \* jobs whose points are in Qdrant
  creation,    \* how far create_tenant is
  upload,      \* how far the upload of a document is
  job,         \* how far a job is, the collection at hand, and its failed attempts
  deletion,    \* how far delete_tenant is, and what it read
  deletes,     \* history: deletions so far
  racers,      \* history: uploads and jobs under way at some moment of a deletion
  faults

stores  == <<tenant, rows, tuples, objects>>
qdrant  == <<collections, points>>
history == <<deletes, racers>>
vars    == <<stores, qdrant, creation, upload, job, deletion, history, faults>>

-------------------------------------------------------------------------------
Requested == [step |-> "idle", docs |-> {}, names |-> {}]
Queued    == [step |-> "queued", name |-> "chunks", failed |-> 0]

Init ==
  /\ tenant = "none" /\ rows = {} /\ tuples = {} /\ objects = {}
  /\ collections = [c \in Collections |-> "none"] /\ points = {}
  /\ creation = "idle" /\ upload = [d \in Docs |-> "idle"] /\ job = [j \in Jobs |-> Queued]
  /\ deletion = Requested /\ deletes = 0 /\ racers = {} /\ faults = 0

Fault == faults < MaxFaults /\ faults' = faults + 1

\* A call that may have taken effect although it failed.
Perhaps(var, then) == {var, then}

Deleting == deletion.step # "idle"

\* Transactions with a row that refers to the tenant; the deletion of the tenant's row waits
\* for them, and once it is executed they wait for its transaction.
Writing == {d \in Docs : upload[d] = "written"}
Running == {j \in Jobs : job[j].step \notin {"queued", "done", "failed"}}
Locked  == Writing \cup Running # {}
Refers  == tenant = "live" /\ deletion.step # "removed"

Joins(who) == racers' = IF Deleting THEN racers \cup {who} ELSE racers

-------------------------------------------------------------------------------
\* create_tenant

\* The tenant and its owner's row are committed before the owner's tuple is written.
Create ==
  /\ creation = "idle" /\ creation' = "committed"
  /\ tenant' = "live"
  /\ UNCHANGED <<rows, tuples, objects, qdrant, upload, job, deletion, history, faults>>

AnswerCreate ==
  /\ creation = "committed" /\ creation' = "answered"
  /\ tuples' = tuples \cup {"owner"}
  /\ UNCHANGED <<tenant, rows, objects, qdrant, upload, job, deletion, history, faults>>

\* The write failed and the row is deleted again; or the client has hung up, and it is not.
Compensate ==
  /\ creation = "committed" /\ creation' = "refused" /\ Fault
  /\ tuples' \in Perhaps(tuples, tuples \cup {"owner"})
  /\ tenant' = tenant \/ (tenant' = "gone" /\ ~Locked)
  /\ UNCHANGED <<rows, objects, qdrant, upload, job, deletion, history>>

-------------------------------------------------------------------------------
\* upload_document, by a member

Uploads(d, from, to) == upload[d] = from /\ upload' = [upload EXCEPT ![d] = to]

StoreObject(d) ==
  /\ Uploads(d, "idle", "stored")
  /\ tenant = "live" /\ "owner" \in tuples
  /\ objects' = objects \cup {d} /\ Joins(d)
  /\ UNCHANGED <<tenant, rows, tuples, qdrant, creation, job, deletion, deletes, faults>>

\* Row, then tuples, in the request's transaction.
WriteRow(d) ==
  /\ Uploads(d, "stored", "written") /\ Refers
  /\ tuples' = tuples \cup {d}
  /\ UNCHANGED <<tenant, rows, objects, qdrant, creation, job, deletion, history, faults>>

\* The tenant is gone, so that the row is refused, or a call failed: the object is deleted, or
\* that is tried.
UploadFails(d) ==
  /\ Uploads(d, "stored", "over")
  /\ \/ tenant = "gone" /\ objects' = objects \ {d} /\ tuples' = tuples /\ faults' = faults
     \/ /\ objects' \in Perhaps(objects, objects \ {d}) /\ Fault
        /\ tuples' \in Perhaps(tuples, IF Refers THEN tuples \cup {d} ELSE tuples)
  /\ UNCHANGED <<tenant, rows, qdrant, creation, job, deletion, history>>

CommitUpload(d) ==
  /\ Uploads(d, "written", "over")
  /\ \/ rows' = rows \cup {d} /\ faults' = faults
     \/ rows' \in Perhaps(rows, rows \cup {d}) /\ Fault
  /\ UNCHANGED <<tenant, tuples, objects, qdrant, creation, job, deletion, history>>

Upload(d) == StoreObject(d) \/ WriteRow(d) \/ UploadFails(d) \/ CommitUpload(d)

-------------------------------------------------------------------------------
\* The ingest job: dual_write, with setup_tenant_collections

Moves(j, from, to) == job[j].step = from /\ job' = [job EXCEPT ![j].step = to]

\* The attempt is lost and the job queued again, until it has none left.
GivesBack(j) ==
  LET failed == job[j].failed + 1 IN
  job' = [job EXCEPT ![j] = [Queued EXCEPT !.failed = failed,
            !.step = IF failed < MaxAttempts THEN "queued" ELSE "failed"]]

\* Faulty: collections are set up before the transaction is begun (GoneTenantGainsNothing).
BeginUnlocked(j) ==
  /\ Moves(j, "queued", "check")
  /\ creation = "answered" /\ Joins(j)
  /\ UNCHANGED <<stores, qdrant, creation, upload, deletion, deletes, faults>>

\* Rows of chunks and nodes are written, so that the tenant is locked from here on.
Begin(j) ==
  /\ Moves(j, "queued", "check")
  /\ creation = "answered" /\ Refers /\ Joins(j)
  /\ UNCHANGED <<stores, qdrant, creation, upload, deletion, deletes, faults>>

Exists(c) == collections[c] # "none"

\* When a collection is there, the next is turned to.
AfterCheck(j, found) ==
  IF ~found THEN [job[j] EXCEPT !.step = "create"]
  ELSE IF job[j].name = "chunks" THEN [job[j] EXCEPT !.step = "check", !.name = "graph"]
  ELSE [job[j] EXCEPT !.step = "upsert"]

\* Faulty: the collections are not listed first (SetupRacesSurvived).
CheckNothing(j) ==
  /\ job[j].step = "check"
  /\ job' = [job EXCEPT ![j] = AfterCheck(j, FALSE)]
  /\ UNCHANGED <<stores, qdrant, creation, upload, deletion, history, faults>>

\* collection_exists
Check(j) ==
  /\ job[j].step = "check"
  /\ job' = [job EXCEPT ![j] = AfterCheck(j, Exists(job[j].name))]
  /\ UNCHANGED <<stores, qdrant, creation, upload, deletion, history, faults>>

\* create_collection refuses a name that is taken by now.
CreateCollection(j) ==
  /\ job[j].step = "create"
  /\ IF Exists(job[j].name)
     THEN GivesBack(j) /\ UNCHANGED collections
     ELSE /\ job' = [job EXCEPT ![j].step = "index"]
          /\ collections' = [collections EXCEPT ![job[j].name] = "bare"]
  /\ UNCHANGED <<stores, points, creation, upload, deletion, history, faults>>

\* create_field_index, once for each field: it fails when the collection is gone again.
BuildIndexes(j) ==
  /\ job[j].step = "index"
  /\ IF Exists(job[j].name)
     THEN /\ collections' = [collections EXCEPT ![job[j].name] = "indexed"]
          /\ job' = [job EXCEPT ![j] = AfterCheck(j, TRUE)]
     ELSE GivesBack(j) /\ UNCHANGED collections
  /\ UNCHANGED <<stores, points, creation, upload, deletion, history, faults>>

Upsert(j) ==
  /\ job[j].step = "upsert"
  /\ IF \A c \in Collections : Exists(c)
     THEN points' = points \cup {j} /\ job' = [job EXCEPT ![j].step = "commit"]
     ELSE GivesBack(j) /\ UNCHANGED points
  /\ UNCHANGED <<stores, collections, creation, upload, deletion, history, faults>>

CommitRun(j) ==
  /\ Moves(j, "commit", "done")
  /\ UNCHANGED <<stores, qdrant, creation, upload, deletion, history, faults>>

\* A call fails or the worker dies: the transaction is rolled back, Qdrant stays as it is.
RunFails(j) ==
  /\ j \in Running /\ Fault
  /\ GivesBack(j)
  /\ UNCHANGED <<stores, qdrant, creation, upload, deletion, history>>

Run(j) == Begin(j) \/ Check(j) \/ CreateCollection(j) \/ BuildIndexes(j) \/ Upsert(j)
          \/ CommitRun(j) \/ RunFails(j)

-------------------------------------------------------------------------------
\* delete_tenant

Deletes(from, to) == deletion.step = from /\ deletion' = [deletion EXCEPT !.step = to]

\* The caller is a member and the owner; workspaces, documents and chats are listed.
BeginDelete ==
  /\ deletion.step = "idle" /\ deletes < MaxDeletes
  /\ tenant = "live" /\ "owner" \in tuples
  /\ deletion' = [Requested EXCEPT !.step = "listed", !.docs = rows]
  /\ deletes' = deletes + 1
  /\ racers' = racers \cup Running \cup {d \in Docs : upload[d] \in {"stored", "written"}}
  /\ UNCHANGED <<stores, qdrant, creation, upload, job, faults>>

\* Faulty: the documents are taken to go with their tenant (OnlyRacersLeave).
DropOwnTuples ==
  /\ \/ Deletes("listed", "untupled") /\ tuples' = tuples \ {"owner"} /\ faults' = faults
     \/ /\ Deletes("listed", "idle") /\ Fault
        /\ tuples' \in Perhaps(tuples, tuples \ {"owner"})
  /\ UNCHANGED <<tenant, rows, objects, qdrant, creation, upload, job, history>>

\* First the tenant's own tuples, then those of each object listed; the request ends at the
\* first failure, with some of them deleted.
DropTuples ==
  /\ \/ /\ Deletes("listed", "untupled") /\ faults' = faults
        /\ tuples' = tuples \ ({"owner"} \cup deletion.docs)
     \/ /\ Deletes("listed", "idle") /\ Fault
        /\ \/ tuples' = tuples
           \/ \E part \in SUBSET deletion.docs : tuples' = tuples \ ({"owner"} \cup part)
  /\ UNCHANGED <<tenant, rows, objects, qdrant, creation, upload, job, history>>

\* teardown_tenant_collections: the names are listed, ...
ListCollections ==
  /\ \/ /\ deletion.step = "untupled" /\ faults' = faults
        /\ deletion' = [deletion EXCEPT !.step = "teardown", !.names = {c \in Collections : Exists(c)}]
     \/ Deletes("untupled", "torn") /\ Fault
  /\ UNCHANGED <<stores, qdrant, creation, upload, job, history>>

\* ... and those found are deleted, chunks first.  A failure ends it with a warning.
DropCollection(c) ==
  /\ deletion.step = "teardown" /\ c \in deletion.names
  /\ c = "graph" => "chunks" \notin deletion.names
  /\ \/ /\ deletion' = [deletion EXCEPT !.names = @ \ {c}] /\ faults' = faults
        /\ collections' = [collections EXCEPT ![c] = "none"]
        /\ points' = {}
     \/ /\ deletion' = [deletion EXCEPT !.names = {}] /\ Fault /\ UNCHANGED qdrant
  /\ UNCHANGED <<stores, creation, upload, job, history>>

EndTeardown ==
  /\ Deletes("teardown", "torn") /\ deletion.names = {}
  /\ UNCHANGED <<stores, qdrant, creation, upload, job, history, faults>>

\* delete_prefix, page by page: best effort as well.
DropObjects ==
  /\ Deletes("torn", "emptied")
  /\ \/ objects' = {} /\ faults' = faults
     \/ objects' \in SUBSET objects /\ Fault
  /\ UNCHANGED <<tenant, rows, tuples, qdrant, creation, upload, job, history>>

\* DELETE FROM tenants waits for the transactions that refer to it, ...
RemoveRow ==
  /\ Deletes("emptied", "removed") /\ ~Locked
  /\ UNCHANGED <<stores, qdrant, creation, upload, job, history, faults>>

\* ... and takes effect, with all that cascades from it, when the middleware commits.
CommitDelete ==
  /\ Deletes("removed", "idle")
  /\ \/ tenant' = "gone" /\ rows' = {} /\ faults' = faults
     \/ Fault /\ \/ UNCHANGED <<tenant, rows>>
                 \/ tenant' = "gone" /\ rows' = {}
  /\ UNCHANGED <<tuples, objects, qdrant, creation, upload, job, history>>

\* A statement fails, or the client hangs up: what was deleted outside Postgres stays so.
AbortDelete ==
  /\ Deleting /\ Fault
  /\ deletion' = Requested
  /\ UNCHANGED <<stores, qdrant, creation, upload, job, history>>

Delete == BeginDelete \/ DropTuples \/ ListCollections \/ (\E c \in Collections : DropCollection(c))
          \/ EndTeardown \/ DropObjects \/ RemoveRow \/ CommitDelete \/ AbortDelete

-------------------------------------------------------------------------------
Next ==
  \/ Create \/ AnswerCreate \/ Compensate
  \/ \E d \in Docs : Upload(d)
  \/ \E j \in Jobs : Run(j)
  \/ Delete

Spec == Init /\ [][Next]_vars

-------------------------------------------------------------------------------
\* Two runs may both find a collection missing, and the later create fails.  Each job loses at
\* most one attempt to that for each collection, so none is given up for it (store.rs:
\* create_chunks_collection, create_graph_collection; job.rs: MAX_ATTEMPTS).
SetupRacesSurvived ==
  faults = 0 /\ deletes = 0 => \A j \in Jobs : job[j].step # "failed"

\* Once the deletion of a tenant is committed no collection, point, row or tuple of it appears
\* any more: nobody would ever delete it, for the reconciler skips the collections of tenants
\* it does not know (tenants.rs: delete_tenant; qdrant_writer.rs: dual_write).
GoneTenantGainsNothing ==
  [][tenant = "gone" =>
       /\ \A c \in Collections : collections[c] = "none" => collections'[c] = "none"
       /\ points' \subseteq points /\ rows' \subseteq rows /\ tuples' \subseteq tuples]_vars

\* What is left of a deleted tenant was put there by an upload or a run that was under way
\* during a deletion, unless a call failed (tenants.rs: delete_tenant).
OnlyRacersLeave ==
  tenant = "gone" /\ faults = 0 =>
    /\ tuples \cup objects \cup points \subseteq racers
    /\ racers \cap Jobs = {} => \A c \in Collections : collections[c] = "none"

\* Not true of the code, which gives it as the reason to wait for the indexes ("avoids a race
\* where an immediate upsert lands before the index exists", core/src/qdrant/store.rs:115-117):
\* that points are written to a collection with its indexes only.  A second run finds the
\* collection and writes to it while the first still builds them.
UpsertsFindIndexes ==
  [][\A j \in points' \ points : \A c \in Collections : collections[c] = "indexed"]_vars
================================================================================
