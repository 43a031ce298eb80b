------------------------------ MODULE VectorIndex ------------------------------
(***************************************************************************)
(* The rows of an ingested document and their vectors.  Postgres holds the *)
(* chunk rows, the graph nodes and which documents a node was extracted    *)
(* from; Qdrant holds one point per chunk row and per node.  Four actors   *)
(* write both stores, and only Postgres has transactions:                  *)
(*                                                                         *)
(*   - dual_write_ingestion: rows, points, commit, in this order;          *)
(*   - delete_document: points, rows, orphaned nodes, their points; the    *)
(*     middleware commits after the handler;                               *)
(*   - delete_workspace: points, then every row of the workspace;          *)
(*   - run_qdrant_reconcile: reads the rows, then the points, and removes  *)
(*     the points it has no row for when auto-fix is on.                   *)
(*                                                                         *)
(* All chunk rows of a document are written together, so a document has    *)
(* them or not.  A row that a run inserts gets an id no other row ever     *)
(* has; the run's own name serves as that id.  The documents are those of  *)
(* one workspace.                                                          *)
(***************************************************************************)
EXTENDS Naturals, FiniteSets

CONSTANTS
  Docs,       \* documents
  Labels,     \* (workspace, label, kind) of a graph node
  Runs,       \* bound: dual_write_ingestion calls, of any payload and attempt
  None,       \* no row
  MaxFaults   \* bound: reconcile passes that fail

ASSUME NoneAssumption  == None \notin Runs
ASSUME FaultAssumption == MaxFaults \in Nat

VARIABLES
  doc,          \* documents row: "absent", "live", "deleted"
  chunkRow,     \* qdrant_point_id of the document's committed chunk rows
  nodeRow,      \* id of the label's committed graph_nodes row
  prov,         \* committed graph_node_documents rows, as labels per document
  chunkPoints,  \* points of chunks_{tenant}: <<document_id, id>>
  graphPoints,  \* points of graph_{tenant}: <<label, id>>
  pc,           \* where a run's transaction is
  runDoc,       \* the document a run writes
  runLabels,    \* the labels its extraction found
  del,          \* where the delete request of a document is
  orphans,      \* node ids a delete works on: candidates, then orphans
  wipe,         \* where the request is that deletes the workspace of all of them
  autoFix,      \* GMRAG_RECONCILE_AUTO_FIX, read once at start
  rec,          \* the reconciler's pass: place, collections scrolled, documents and
                \* nodes (the rows read, after the scroll the orphans)
  spoiled,      \* history: points removed by a delete that then rolled back, or by
                \* the clean-up of the workspace
  faults

rowVars   == <<doc, chunkRow, nodeRow, prov>>
pointVars == <<chunkPoints, graphPoints>>
runVars   == <<pc, runDoc, runLabels>>
delVars   == <<del, orphans, wipe, spoiled>>
recVars   == <<autoFix, rec, faults>>
vars      == <<rowVars, pointVars, runVars, delVars, recVars>>

Nodes     == Labels \X Runs
Open      == {"chunkRows", "allRows", "chunkPoints", "points"}
Deleting  == {"rowGone", "orphans", "nodesGone", "pointsGone"}
NoPass    == [at |-> "idle", scrolled |-> {}, docs |-> {}, nodes |-> {}]

TypeOK ==
  /\ doc \in [Docs -> {"absent", "live", "deleted"}]
  /\ chunkRow \in [Docs -> Runs \cup {None}]
  /\ nodeRow \in [Labels -> Runs \cup {None}]
  /\ prov \in [Docs -> SUBSET Labels]
  /\ chunkPoints \subseteq Docs \X Runs
  /\ graphPoints \subseteq Nodes
  /\ pc \in [Runs -> Open \cup {"new", "done"}]
  /\ runDoc \in [Runs -> Docs \cup {None}]
  /\ \A r \in Runs : pc[r] \in Open => runDoc[r] \in Docs
  /\ runLabels \in [Runs -> SUBSET Labels]
  /\ del \in [Docs -> Deleting \cup {"none", "loaded", "cleaned"}]
  /\ orphans \in [Docs -> SUBSET Nodes]
  /\ wipe \in {"none", "cleaned", "rowsGone", "gone"}
  /\ autoFix \in BOOLEAN
  /\ rec \in [at : {"idle", "docsRead", "nodesRead"}, scrolled : SUBSET {"chunks", "graph"},
              docs : SUBSET Docs, nodes : SUBSET Nodes]
  /\ spoiled \subseteq Docs \cup Nodes
  /\ faults \in 0..MaxFaults

\* No row, no point, nothing under way.
Fresh ==
  /\ chunkRow = [d \in Docs |-> None]
  /\ nodeRow = [l \in Labels |-> None]
  /\ prov = [d \in Docs |-> {}]
  /\ chunkPoints = {}
  /\ graphPoints = {}
  /\ pc = [r \in Runs |-> "new"]
  /\ runDoc = [r \in Runs |-> None]
  /\ runLabels = [r \in Runs |-> {}]
  /\ del = [d \in Docs |-> "none"]
  /\ orphans = [d \in Docs |-> {}]
  /\ wipe = "none"
  /\ autoFix \in BOOLEAN
  /\ rec = NoPass
  /\ spoiled = {}
  /\ faults = 0

Init == Fresh /\ doc = [d \in Docs |-> "absent"]
-------------------------------------------------------------------------------
(***************************************************************************)
(* The requests of the vector store, on the points of a collection.  They  *)
(* select by payload: a chunk point carries its document, a graph point    *)
(* its node.  Each waits until it is applied, and one that would remove    *)
(* nothing is no request.  A scroll reads page by page; it is one step     *)
(* here, as nobody acts on a page before the last one is read.             *)
(***************************************************************************)
UpsertChunks(P, d, id)       == P \cup {<<d, id>>}
DeleteChunksByDocument(P, d) == {p \in P : p[1] # d}
DeleteChunksByWorkspace(P, W) == {p \in P : p[1] \notin W}
ScrollChunkRefs(P)           == {p[1] : p \in P}
UpsertGraphNodes(P, S)       == P \cup S
DeleteGraphNodes(P, S)       == P \ S
-------------------------------------------------------------------------------
(***************************************************************************)
(* Row locks.  An open run holds a key-share lock on its document (foreign *)
(* key) and, once it has upserted them, its chunk and node rows.  A delete *)
(* holds what it deleted until its transaction ends.                       *)
(***************************************************************************)
NodeOf(l)  == <<l, nodeRow[l]>>
LiveNodes  == {NodeOf(l) : l \in {k \in Labels : nodeRow[k] # None}}

Writing(d)   == {r \in Runs : pc[r] \in Open /\ runDoc[r] = d}
Upserting(l) == {r \in Runs : pc[r] \in Open \ {"chunkRows"} /\ l \in runLabels[r]}

\* Nodes an open delete has deleted.
Removed(d) == IF del[d] \in {"nodesGone", "pointsGone"} THEN orphans[d] \cap LiveNodes ELSE {}

\* ON CONFLICT ... RETURNING: the id of the row that is there, else a new one.
ChunkId(r)   == IF chunkRow[runDoc[r]] # None THEN chunkRow[runDoc[r]] ELSE r
NodeId(r, l) == <<l, IF nodeRow[l] # None THEN nodeRow[l] ELSE r>>

Upload(d) ==
  /\ doc[d] = "absent" /\ wipe \in {"none", "cleaned"}
  /\ doc' = [doc EXCEPT ![d] = "live"]
  /\ UNCHANGED <<chunkRow, nodeRow, prov, pointVars, runVars, delVars, recVars>>
-------------------------------------------------------------------------------
(***************************************************************************)
(* dual_write_ingestion.                                                   *)
(***************************************************************************)
\* Slip: the run is not bound to its document.
WriteChunkRowsUnbound(r, d, S) ==
  /\ pc[r] = "new"
  /\ doc[d] = "live" /\ del[d] \notin Deleting
  /\ pc' = [pc EXCEPT ![r] = "chunkRows"]
  /\ runLabels' = [runLabels EXCEPT ![r] = S]
  /\ UNCHANGED <<rowVars, pointVars, runDoc, delVars, recVars>>

\* BEGIN and the chunk rows.  The foreign key waits for a delete of the document
\* that is under way; another run's chunk rows of the same document are waited for
\* at the first conflict.
WriteChunkRows(r, d, S) ==
  /\ pc[r] = "new"
  /\ doc[d] = "live" /\ del[d] \notin Deleting /\ wipe # "rowsGone"
  /\ Writing(d) = {}
  /\ pc' = [pc EXCEPT ![r] = "chunkRows"]
  /\ runDoc' = [runDoc EXCEPT ![r] = d]
  /\ runLabels' = [runLabels EXCEPT ![r] = S]
  /\ UNCHANGED <<rowVars, pointVars, delVars, recVars>>

\* The nodes and their provenance rows.
WriteNodeRows(r) ==
  /\ pc[r] = "chunkRows"
  /\ \A l \in runLabels[r] : Upserting(l) = {} /\ \A d \in Docs : NodeOf(l) \notin Removed(d)
  /\ pc' = [pc EXCEPT ![r] = "allRows"]
  /\ UNCHANGED <<rowVars, pointVars, runDoc, runLabels, delVars, recVars>>

UpsertChunkPoints(r) ==
  /\ pc[r] = "allRows"
  /\ pc' = [pc EXCEPT ![r] = "chunkPoints"]
  /\ chunkPoints' = UpsertChunks(chunkPoints, runDoc[r], ChunkId(r))
  /\ UNCHANGED <<rowVars, graphPoints, runDoc, runLabels, delVars, recVars>>

UpsertNodePoints(r) ==
  /\ pc[r] = "chunkPoints"
  /\ pc' = [pc EXCEPT ![r] = "points"]
  /\ graphPoints' = UpsertGraphNodes(graphPoints, {NodeId(r, l) : l \in runLabels[r]})
  /\ UNCHANGED <<rowVars, chunkPoints, runDoc, runLabels, delVars, recVars>>

Commit(r, from) ==
  /\ pc[r] = from
  /\ pc' = [pc EXCEPT ![r] = "done"]
  /\ chunkRow' = [chunkRow EXCEPT ![runDoc[r]] = ChunkId(r)]
  /\ nodeRow' = [l \in Labels |-> IF l \in runLabels[r] THEN NodeId(r, l)[2] ELSE nodeRow[l]]
  /\ prov' = [prov EXCEPT ![runDoc[r]] = @ \cup runLabels[r]]
  /\ UNCHANGED <<doc, pointVars, runDoc, runLabels, delVars, recVars>>

\* Slips: the rows are committed before the points are upserted.
CommitBeforeChunkPoints(r) == Commit(r, "allRows")
CommitBeforeNodePoints(r)  == Commit(r, "chunkPoints")

CommitRun(r) == Commit(r, "points")

\* A failed statement, a failed upsert, a deadlock between two runs or the end of
\* the process: the rows roll back, the points stay.
RollbackRun(r) ==
  /\ pc[r] \in Open
  /\ pc' = [pc EXCEPT ![r] = "done"]
  /\ UNCHANGED <<rowVars, pointVars, runDoc, runLabels, delVars, recVars>>
-------------------------------------------------------------------------------
(***************************************************************************)
(* delete_document.                                                        *)
(***************************************************************************)
\* The row is there and the candidates are read.
DeleteLoad(d) ==
  /\ doc[d] = "live" /\ del[d] = "none"
  /\ del' = [del EXCEPT ![d] = "loaded"]
  /\ orphans' = [orphans EXCEPT ![d] = {NodeOf(l) : l \in prov[d]}]
  /\ UNCHANGED <<rowVars, pointVars, runVars, wipe, spoiled, recVars>>

\* Tuples and object, then the chunk points, best effort.
DeleteCleanup(d) ==
  /\ del[d] = "loaded"
  /\ del' = [del EXCEPT ![d] = "cleaned"]
  /\ chunkPoints' \in {chunkPoints, DeleteChunksByDocument(chunkPoints, d)}
  /\ UNCHANGED <<rowVars, graphPoints, runVars, orphans, wipe, spoiled, recVars>>

\* Slip: the row goes while a run is still open on it.
DeleteRowAtOnce(d) ==
  /\ del[d] = "cleaned"
  /\ del' = [del EXCEPT ![d] = "rowGone"]
  /\ UNCHANGED <<rowVars, pointVars, runVars, orphans, wipe, spoiled, recVars>>

\* DELETE FROM documents waits for the runs that hold the row.
DeleteRow(d) ==
  /\ del[d] = "cleaned"
  /\ Writing(d) = {} /\ wipe # "rowsGone"
  /\ del' = [del EXCEPT ![d] = "rowGone"]
  /\ UNCHANGED <<rowVars, pointVars, runVars, orphans, wipe, spoiled, recVars>>

\* One statement: candidates that are still there and have no provenance row left.
DeleteFindOrphans(d) ==
  /\ del[d] = "rowGone"
  /\ del' = [del EXCEPT ![d] = "orphans"]
  /\ orphans' = [orphans EXCEPT ![d] =
       {n \in @ \cap LiveNodes : \A k \in Docs \ {d} : n[1] \notin prov[k]}]
  /\ UNCHANGED <<rowVars, pointVars, runVars, wipe, spoiled, recVars>>

\* DELETE FROM graph_nodes waits for the rows' holders and looks at the id alone.
DeleteNodes(d) ==
  /\ del[d] = "orphans"
  /\ \A n \in orphans[d] \cap LiveNodes :
        Upserting(n[1]) = {} /\ \A k \in Docs : n \notin Removed(k)
  /\ del' = [del EXCEPT ![d] = "nodesGone"]
  /\ UNCHANGED <<rowVars, pointVars, runVars, orphans, wipe, spoiled, recVars>>

\* Best effort again.
DeleteNodePoints(d) ==
  /\ del[d] = "nodesGone"
  /\ del' = [del EXCEPT ![d] = "pointsGone"]
  /\ graphPoints' \in {graphPoints, DeleteGraphNodes(graphPoints, orphans[d])}
  /\ UNCHANGED <<rowVars, chunkPoints, runVars, orphans, wipe, spoiled, recVars>>

\* The middleware's COMMIT, with the cascades.
DeleteCommit(d) ==
  LET gone == {n[1] : n \in Removed(d)}
  IN  /\ del[d] = "pointsGone"
      /\ del' = [del EXCEPT ![d] = "none"]
      /\ orphans' = [orphans EXCEPT ![d] = {}]
      /\ doc' = [doc EXCEPT ![d] = "deleted"]
      /\ chunkRow' = [chunkRow EXCEPT ![d] = None]
      /\ nodeRow' = [l \in Labels |-> IF l \in gone THEN None ELSE nodeRow[l]]
      /\ prov' = [k \in Docs |-> IF k = d THEN {} ELSE prov[k] \ gone]
      /\ UNCHANGED <<pointVars, runVars, wipe, spoiled, recVars>>

\* A failed statement or COMMIT, or a client that hangs up: the handler is dropped,
\* its transaction rolls back, what it removed elsewhere stays removed.
DeleteRollback(d) ==
  /\ del[d] # "none"
  /\ del' = [del EXCEPT ![d] = "none"]
  /\ orphans' = [orphans EXCEPT ![d] = {}]
  /\ spoiled' = spoiled \cup (IF del[d] = "loaded" THEN {} ELSE {d})
                        \cup (IF del[d] = "pointsGone" THEN orphans[d] ELSE {})
  /\ UNCHANGED <<rowVars, pointVars, runVars, wipe, recVars>>
-------------------------------------------------------------------------------
(***************************************************************************)
(* delete_workspace, for the workspace the documents are in.               *)
(***************************************************************************)
\* After the tuples, the chunk points by their workspace, best effort; the points of
\* the nodes are left to the reconciler.
WipeCleanup ==
  /\ wipe = "none"
  /\ wipe' = "cleaned"
  /\ \/ UNCHANGED <<chunkPoints, spoiled>>
     \/ /\ chunkPoints' = DeleteChunksByWorkspace(chunkPoints, Docs)
        /\ spoiled' = spoiled \cup ScrollChunkRefs(chunkPoints)
  /\ UNCHANGED <<rowVars, graphPoints, runVars, del, orphans, recVars>>

\* DELETE FROM workspaces and its cascade take every row of the workspace, and wait for
\* the runs and deletes that hold one of them.
WipeRows ==
  /\ wipe = "cleaned"
  /\ \A d \in Docs : Writing(d) = {} /\ del[d] \notin Deleting
  /\ wipe' = "rowsGone"
  /\ UNCHANGED <<rowVars, pointVars, runVars, del, orphans, spoiled, recVars>>

WipeCommit ==
  /\ wipe = "rowsGone"
  /\ wipe' = "gone"
  /\ doc' = [d \in Docs |-> IF doc[d] = "live" THEN "deleted" ELSE doc[d]]
  /\ chunkRow' = [d \in Docs |-> None]
  /\ nodeRow' = [l \in Labels |-> None]
  /\ prov' = [d \in Docs |-> {}]
  /\ UNCHANGED <<pointVars, runVars, del, orphans, spoiled, recVars>>

WipeRollback ==
  /\ wipe \in {"cleaned", "rowsGone"}
  /\ wipe' = "none"
  /\ UNCHANGED <<rowVars, pointVars, runVars, del, orphans, spoiled, recVars>>
-------------------------------------------------------------------------------
(***************************************************************************)
(* run_qdrant_reconcile with auto-fix; without it a pass changes nothing.  *)
(***************************************************************************)
Repair == autoFix /\ UNCHANGED <<autoFix, rowVars, runVars, delVars>>

\* Slip: a document that once was counts as live.
ReadAllDocs ==
  /\ Repair
  /\ rec.at = "idle"
  /\ rec' = [NoPass EXCEPT !.at = "docsRead", !.docs = {d \in Docs : doc[d] # "absent"}]
  /\ UNCHANGED <<pointVars, faults>>

ReadDocs ==
  /\ Repair
  /\ rec.at = "idle"
  /\ rec' = [NoPass EXCEPT !.at = "docsRead", !.docs = {d \in Docs : doc[d] = "live"}]
  /\ UNCHANGED <<pointVars, faults>>

ReadNodes ==
  /\ Repair
  /\ rec.at = "docsRead"
  /\ rec' = [rec EXCEPT !.at = "nodesRead", !.nodes = LiveNodes]
  /\ UNCHANGED <<pointVars, faults>>

\* The collections, in the order Qdrant lists them.
ScrollChunks ==
  /\ Repair
  /\ rec.at = "nodesRead" /\ "chunks" \notin rec.scrolled
  /\ rec' = [rec EXCEPT !.scrolled = @ \cup {"chunks"}, !.docs = ScrollChunkRefs(chunkPoints) \ @]
  /\ UNCHANGED <<pointVars, faults>>

ScrollGraph ==
  /\ Repair
  /\ rec.at = "nodesRead" /\ "graph" \notin rec.scrolled
  /\ rec' = [rec EXCEPT !.scrolled = @ \cup {"graph"}, !.nodes = graphPoints \ @]
  /\ UNCHANGED <<pointVars, faults>>

\* One request per orphaned document.
FixChunks(d) ==
  /\ Repair
  /\ rec.scrolled = {"chunks", "graph"} /\ d \in rec.docs
  /\ rec' = [rec EXCEPT !.docs = @ \ {d}]
  /\ chunkPoints' = DeleteChunksByDocument(chunkPoints, d)
  /\ UNCHANGED <<graphPoints, faults>>

\* One request for all orphaned nodes of the tenant, and the pass is over.
FixGraph ==
  /\ Repair
  /\ rec.scrolled = {"chunks", "graph"} /\ rec.docs = {}
  /\ rec' = NoPass
  /\ graphPoints' = DeleteGraphNodes(graphPoints, rec.nodes)
  /\ UNCHANGED <<chunkPoints, faults>>

\* A query or a request fails: the pass ends there.
PassFails ==
  /\ Repair
  /\ rec.at # "idle" /\ faults < MaxFaults
  /\ rec' = NoPass
  /\ faults' = faults + 1
  /\ UNCHANGED pointVars
-------------------------------------------------------------------------------
Run(r)    == WriteNodeRows(r) \/ UpsertChunkPoints(r) \/ UpsertNodePoints(r) \/ CommitRun(r)
Delete(d) == \/ DeleteCleanup(d) \/ DeleteRow(d) \/ DeleteFindOrphans(d)
             \/ DeleteNodes(d) \/ DeleteNodePoints(d) \/ DeleteCommit(d)
Wipe      == WipeCleanup \/ WipeRows \/ WipeCommit \/ WipeRollback
Pass      == \/ ReadDocs \/ ReadNodes \/ ScrollChunks \/ ScrollGraph \/ FixGraph
             \/ \E d \in Docs : FixChunks(d)

Next ==
  \/ \E d \in Docs : Upload(d) \/ DeleteLoad(d) \/ Delete(d) \/ DeleteRollback(d)
  \/ \E r \in Runs, d \in Docs, S \in SUBSET Labels : WriteChunkRows(r, d, S)
  \/ \E r \in Runs : Run(r) \/ RollbackRun(r)
  \/ Wipe
  \/ Pass
  \/ PassFails

Spec == Init /\ [][Next]_vars

\* The reconciler's loop ticks for ever.  Nothing has to upload, ingest or delete, and a
\* transaction that is open ends: it commits, or it is given up.
Fairness ==
  /\ WF_vars(Pass)
  /\ \A r \in Runs : WF_vars(Run(r) \/ RollbackRun(r))
  /\ \A d \in Docs : WF_vars(Delete(d) \/ DeleteRollback(d))
  /\ WF_vars(WipeRows \/ WipeCommit \/ WipeRollback)

FairSpec == Spec /\ Fairness
-------------------------------------------------------------------------------
(***************************************************************************)
(* Properties.                                                             *)
(***************************************************************************)
\* Rows whose points an open delete may have removed: until it ends nobody else sees
\* that the document is going.
GoingDocs  == {d \in Docs : del[d] \notin {"none", "loaded"}}
GoingNodes == UNION {orphans[d] : d \in {k \in Docs : del[k] = "pointsGone"}}

ChunksComplete == \A d \in Docs : chunkRow[d] # None /\ d \notin GoingDocs \cup spoiled
                                     => <<d, chunkRow[d]>> \in chunkPoints

NodesComplete == LiveNodes \subseteq graphPoints \cup GoingNodes \cup spoiled

\* Whatever runs, rollbacks and deletes interleave, a committed chunk row or node can be
\* found by vector search, unless a delete of it that failed half-way, or one of its
\* workspace, took its point (dual_write_ingestion's order of upsert and commit; delete
\* by document and by node id).  The reconciler only reports.
ChunksSearchable == ~autoFix => ChunksComplete
NodesSearchable  == ~autoFix => NodesComplete

\* Once a document's delete has committed no late ingestion gives it a point again: the
\* foreign key makes a run wait for the delete and the delete wait for the run, although
\* the upsert itself is outside of Postgres.
DeletedGainsNothing ==
  [][\A p \in chunkPoints' \ chunkPoints : doc[p[1]] = "live"]_vars

\* With auto-fix, what runs and deletes left behind is swept: points of deleted documents
\* and of nodes that are gone or never were committed.
OrphansSwept ==
  autoFix => <>[](/\ \A p \in chunkPoints : doc[p[1]] = "live"
                  /\ graphPoints \subseteq LiveNodes)

\* Not true of the code, which says so at documents.rs:526-531: that deleting a document
\* takes no other document's nodes.  Another document may take up a node between the read
\* of what is shared and the delete.
ProvenanceKept ==
  [][\A d \in Docs : doc'[d] = "live" => prov[d] \subseteq prov'[d]]_vars

\* Not true of the code, which says so at reconcile/qdrant.rs:8-11: that the repair removes
\* points that have no row and no others.  A run may commit its rows after they were read.
RepairSparesLive == autoFix => ChunksComplete /\ NodesComplete
===============================================================================
