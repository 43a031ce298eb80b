--------------------------- MODULE VectorIndexProofs ---------------------------
(***************************************************************************)
(* Proofs about VectorIndex, for any documents, labels and runs.           *)
(*                                                                         *)
(* The argument: the row locks keep a run and a delete apart (Locks), so a *)
(* run that has upserted a point still names the row it will commit        *)
(* (ChunkInv, NodeInv), and only a delete takes a point away.              *)
(***************************************************************************)
EXTENDS VectorIndex, TLAPS

USE NoneAssumption, FaultAssumption
USE DEF UpsertChunks, DeleteChunksByDocument, ScrollChunkRefs, UpsertGraphNodes, DeleteGraphNodes

-------------------------------------------------------------------------------
(***************************************************************************)
(* Type correctness.  The candidates of a delete are nodes only because a  *)
(* provenance row always has its node.                                     *)
(***************************************************************************)
ProvenanceHasNode == \A d \in Docs : \A l \in prov[d] : nodeRow[l] # None

TypeInv == TypeOK /\ ProvenanceHasNode

LEMMA LiveNodesType == TypeOK => LiveNodes \subseteq Nodes
BY DEF TypeOK, LiveNodes, NodeOf, Nodes

\* A removed node is the live node of its label.
LEMMA RemovedIsLive ==
  ASSUME NEW d \in Docs, NEW n \in Removed(d)
  PROVE  n \in orphans[d] /\ n[1] \in Labels /\ nodeRow[n[1]] # None /\ n = NodeOf(n[1])
BY DEF Removed, LiveNodes, NodeOf

LEMMA IdsType ==
  ASSUME TypeOK, NEW r \in Runs, pc[r] \in Open
  PROVE  /\ runDoc[r] \in Docs /\ runLabels[r] \subseteq Labels
         /\ ChunkId(r) \in Runs
         /\ \A l \in Labels : NodeId(r, l) \in Nodes /\ NodeId(r, l)[2] \in Runs
                              /\ NodeId(r, l)[1] = l
BY DEF TypeOK, ChunkId, NodeId, Nodes

\* The reconciler leaves rows, runs and deletes alone and only removes points.
Repairs == /\ autoFix
           /\ UNCHANGED <<autoFix, rowVars, runVars, delVars>>
           /\ chunkPoints' \subseteq chunkPoints /\ graphPoints' \subseteq graphPoints

LEMMA PassRepairs == Pass \/ PassFails => Repairs
BY DEF Pass, PassFails, ReadDocs, ReadNodes, ScrollChunks, ScrollGraph, FixChunks, FixGraph,
       Repair, Repairs, pointVars

LEMMA FixStays == [Next]_vars => autoFix' = autoFix
<1>. USE DEF recVars
<1>1. ASSUME NEW r \in Runs, Run(r) \/ RollbackRun(r) PROVE autoFix' = autoFix
  BY <1>1 DEF Run, WriteNodeRows, UpsertChunkPoints, UpsertNodePoints, CommitRun, Commit, RollbackRun
<1>2. ASSUME NEW d \in Docs, Upload(d) \/ DeleteLoad(d) \/ Delete(d) \/ DeleteRollback(d)
      PROVE  autoFix' = autoFix
  BY <1>2 DEF Upload, DeleteLoad, Delete, DeleteCleanup, DeleteRow, DeleteFindOrphans, DeleteNodes,
              DeleteNodePoints, DeleteCommit, DeleteRollback
<1>3. ASSUME NEW r \in Runs, NEW d \in Docs, NEW S \in SUBSET Labels, WriteChunkRows(r, d, S)
      PROVE  autoFix' = autoFix
  BY <1>3 DEF WriteChunkRows
<1>4. CASE Wipe
  BY <1>4 DEF Wipe, WipeCleanup, WipeRows, WipeCommit, WipeRollback
<1>. QED
  BY <1>1, <1>2, <1>3, <1>4, PassRepairs DEF Next, Repairs, vars

LEMMA TypeInit == Init => TypeInv
BY DEF Init, Fresh, TypeInv, TypeOK, ProvenanceHasNode, NoPass, Nodes, Open

LEMMA PassType == TypeOK /\ (Pass \/ PassFails) => TypeOK'
<1>. SUFFICES ASSUME TypeOK, Pass \/ PassFails PROVE TypeOK'
  OBVIOUS
<1>. USE DEF TypeOK, Repair, rowVars, runVars, delVars, pointVars, NoPass
<1>1. CASE ReadDocs
  BY <1>1 DEF ReadDocs
<1>2. CASE ReadNodes
  <2>1. LiveNodes \in SUBSET Nodes
    BY LiveNodesType
  <2>. QED
    BY <1>2, <2>1 DEF ReadNodes
<1>3. CASE ScrollChunks
  <2>1. {p[1] : p \in chunkPoints} \ rec.docs \in SUBSET Docs
    OBVIOUS
  <2>. QED
    BY <1>3, <2>1 DEF ScrollChunks
<1>4. CASE ScrollGraph
  BY <1>4 DEF ScrollGraph
<1>5. ASSUME NEW d \in Docs, FixChunks(d) PROVE TypeOK'
  BY <1>5 DEF FixChunks
<1>6. CASE FixGraph
  BY <1>6 DEF FixGraph
<1>7. CASE PassFails
  BY <1>7 DEF PassFails
<1>. QED
  BY <1>1, <1>2, <1>3, <1>4, <1>5, <1>6, <1>7 DEF Pass

LEMMA TypeStep == TypeInv /\ [Next]_vars => TypeInv'
<1>. SUFFICES ASSUME TypeOK, ProvenanceHasNode, [Next]_vars PROVE TypeInv'
  BY DEF TypeInv
<1>. USE DEF TypeInv, ProvenanceHasNode, rowVars, pointVars, runVars, delVars, recVars
<1>1. ASSUME NEW d \in Docs, Upload(d) PROVE TypeInv'
  BY <1>1 DEF Upload, TypeOK
<1>2. ASSUME NEW r \in Runs, NEW d \in Docs, NEW S \in SUBSET Labels, WriteChunkRows(r, d, S)
      PROVE  TypeInv'
  BY <1>2 DEF WriteChunkRows, TypeOK, Open
<1>3. ASSUME NEW r \in Runs, WriteNodeRows(r) PROVE TypeInv'
  BY <1>3 DEF WriteNodeRows, TypeOK, Open
<1>4. ASSUME NEW r \in Runs, UpsertChunkPoints(r) PROVE TypeInv'
  <2>1. <<runDoc[r], ChunkId(r)>> \in Docs \X Runs
    BY <1>4, IdsType DEF UpsertChunkPoints, Open
  <2>. QED
    BY <1>4, <2>1 DEF UpsertChunkPoints, TypeOK, Open
<1>5. ASSUME NEW r \in Runs, UpsertNodePoints(r) PROVE TypeInv'
  <2>1. {NodeId(r, l) : l \in runLabels[r]} \subseteq Nodes
    BY <1>5, IdsType DEF UpsertNodePoints, Open
  <2>. QED
    BY <1>5, <2>1 DEF UpsertNodePoints, TypeOK, Open
<1>6. ASSUME NEW r \in Runs, CommitRun(r) PROVE TypeInv'
  <2>1. pc[r] \in Open
    BY <1>6 DEF CommitRun, Commit, Open
  <2>2. TypeOK'
    BY <1>6, <2>1, IdsType DEF CommitRun, Commit, TypeOK, Open
  <2>3. ProvenanceHasNode'
    BY <1>6, <2>1, IdsType DEF CommitRun, Commit, TypeOK
  <2>. QED
    BY <2>2, <2>3
<1>7. ASSUME NEW r \in Runs, RollbackRun(r) PROVE TypeInv'
  BY <1>7 DEF RollbackRun, TypeOK, Open
<1>8. ASSUME NEW d \in Docs, DeleteLoad(d) PROVE TypeInv'
  <2>1. {NodeOf(l) : l \in prov[d]} \subseteq Nodes
    BY DEF NodeOf, Nodes, TypeOK
  <2>. QED
    BY <1>8, <2>1 DEF DeleteLoad, TypeOK
<1>9. ASSUME NEW d \in Docs, DeleteCleanup(d) PROVE TypeInv'
  BY <1>9 DEF DeleteCleanup, TypeOK
<1>10. ASSUME NEW d \in Docs, DeleteRow(d) PROVE TypeInv'
  BY <1>10 DEF DeleteRow, TypeOK, Deleting
<1>11. ASSUME NEW d \in Docs, DeleteFindOrphans(d) PROVE TypeInv'
  BY <1>11 DEF DeleteFindOrphans, TypeOK, Deleting
<1>12. ASSUME NEW d \in Docs, DeleteNodes(d) PROVE TypeInv'
  BY <1>12 DEF DeleteNodes, TypeOK, Deleting
<1>13. ASSUME NEW d \in Docs, DeleteNodePoints(d) PROVE TypeInv'
  BY <1>13 DEF DeleteNodePoints, TypeOK, Deleting
<1>14. ASSUME NEW d \in Docs, DeleteCommit(d) PROVE TypeInv'
  BY <1>14 DEF DeleteCommit, TypeOK
<1>15. ASSUME NEW d \in Docs, DeleteRollback(d) PROVE TypeInv'
  BY <1>15 DEF DeleteRollback, TypeOK
<1>16. CASE Pass \/ PassFails
  BY <1>16, PassType, PassRepairs DEF Repairs
<1>17. CASE UNCHANGED vars
  BY <1>17 DEF vars, TypeOK
<1>18. CASE WipeCleanup
  <2>1. ScrollChunkRefs(chunkPoints) \subseteq Docs
    BY DEF TypeOK
  <2>. QED
    BY <1>18, <2>1 DEF WipeCleanup, DeleteChunksByWorkspace, TypeOK
<1>19. CASE WipeRows \/ WipeCommit \/ WipeRollback
  BY <1>19 DEF WipeRows, WipeCommit, WipeRollback, TypeOK
<1>. QED
  BY <1>1, <1>2, <1>3, <1>4, <1>5, <1>6, <1>7, <1>8, <1>9, <1>10, <1>11, <1>12, <1>13, <1>14,
     <1>15, <1>16, <1>17, <1>18, <1>19 DEF Next, Run, Delete, Wipe

-------------------------------------------------------------------------------
(***************************************************************************)
(* What the row locks keep apart.                                          *)
(***************************************************************************)
\* A run that is open holds its document's row, alone.
DocumentHeld ==
  /\ \A r \in Runs : pc[r] \in Open =>
        doc[runDoc[r]] = "live" /\ del[runDoc[r]] \notin Deleting /\ wipe # "rowsGone"
  /\ \A q, r \in Runs : pc[q] \in Open /\ pc[r] \in Open /\ runDoc[q] = runDoc[r] => q = r

Upserted(r) == pc[r] \in Open \ {"chunkRows"}

\* A run that has upserted its nodes holds them, alone.
NodesHeld ==
  /\ \A q, r \in Runs : \A l \in Labels :
        Upserted(q) /\ Upserted(r) /\ l \in runLabels[q] /\ l \in runLabels[r] => q = r
  /\ \A r \in Runs : \A l \in runLabels[r] : Upserted(r) => \A d \in Docs : NodeOf(l) \notin Removed(d)

\* A node is known to others only when the run that inserted it has committed.
IdsCommitted ==
  /\ \A l \in Labels : nodeRow[l] # None => pc[nodeRow[l]] = "done"
  /\ \A d \in Docs : \A n \in orphans[d] : pc[n[2]] = "done"

Locks == DocumentHeld /\ NodesHeld /\ IdsCommitted

LEMMA LocksInit == Init => Locks
BY DEF Init, Fresh, Locks, DocumentHeld, NodesHeld, IdsCommitted, Upserted, Open

LEMMA DocumentHeldStep == TypeInv /\ DocumentHeld /\ [Next]_vars => DocumentHeld'
<1>. SUFFICES ASSUME TypeOK, DocumentHeld, [Next]_vars PROVE DocumentHeld'
  BY DEF TypeInv
<1>. USE DEF DocumentHeld, TypeOK, rowVars, pointVars, runVars, delVars, recVars, Open, Deleting
<1>1. ASSUME NEW d \in Docs, Upload(d) PROVE DocumentHeld'
  BY <1>1 DEF Upload
<1>2. ASSUME NEW r \in Runs, NEW d \in Docs, NEW S \in SUBSET Labels, WriteChunkRows(r, d, S)
      PROVE  DocumentHeld'
  BY <1>2 DEF WriteChunkRows, Writing
<1>3. ASSUME NEW r \in Runs, WriteNodeRows(r) \/ UpsertChunkPoints(r) \/ UpsertNodePoints(r)
      PROVE  DocumentHeld'
  BY <1>3 DEF WriteNodeRows, UpsertChunkPoints, UpsertNodePoints
<1>4. ASSUME NEW r \in Runs, CommitRun(r) \/ RollbackRun(r) PROVE DocumentHeld'
  BY <1>4 DEF CommitRun, Commit, RollbackRun
<1>5. ASSUME NEW d \in Docs, DeleteRow(d) PROVE DocumentHeld'
  BY <1>5 DEF DeleteRow, Writing
<1>6. ASSUME NEW d \in Docs, DeleteCommit(d) PROVE DocumentHeld'
  BY <1>6 DEF DeleteCommit
<1>7. ASSUME NEW d \in Docs,
             DeleteLoad(d) \/ DeleteCleanup(d) \/ DeleteFindOrphans(d) \/ DeleteNodes(d)
               \/ DeleteNodePoints(d) \/ DeleteRollback(d)
      PROVE  DocumentHeld'
  BY <1>7 DEF DeleteLoad, DeleteCleanup, DeleteFindOrphans, DeleteNodes, DeleteNodePoints,
              DeleteRollback
<1>8. CASE Pass \/ PassFails \/ UNCHANGED vars
  BY <1>8, PassRepairs DEF Repairs, vars
<1>9. CASE WipeCleanup \/ WipeRows \/ WipeCommit \/ WipeRollback
  BY <1>9 DEF WipeCleanup, WipeRows, WipeCommit, WipeRollback, Writing
<1>. QED
  BY <1>1, <1>2, <1>3, <1>4, <1>5, <1>6, <1>7, <1>8, <1>9 DEF Next, Run, Delete, Wipe

LEMMA IdsCommittedStep == TypeInv /\ IdsCommitted /\ [Next]_vars => IdsCommitted'
<1>. SUFFICES ASSUME TypeOK, ProvenanceHasNode, IdsCommitted, [Next]_vars PROVE IdsCommitted'
  BY DEF TypeInv
<1>. USE DEF IdsCommitted, TypeOK, rowVars, pointVars, runVars, delVars, recVars, Open, Nodes
<1>1. ASSUME NEW d \in Docs, Upload(d) \/ DeleteCleanup(d) \/ DeleteRow(d) \/ DeleteNodes(d)
                               \/ DeleteNodePoints(d) \/ DeleteRollback(d)
      PROVE  IdsCommitted'
  BY <1>1 DEF Upload, DeleteCleanup, DeleteRow, DeleteNodes, DeleteNodePoints, DeleteRollback
<1>2. ASSUME NEW r \in Runs, NEW d \in Docs, NEW S \in SUBSET Labels, WriteChunkRows(r, d, S)
      PROVE  IdsCommitted'
  BY <1>2 DEF WriteChunkRows
<1>3. ASSUME NEW r \in Runs, WriteNodeRows(r) \/ UpsertChunkPoints(r) \/ UpsertNodePoints(r)
                               \/ RollbackRun(r)
      PROVE  IdsCommitted'
  BY <1>3 DEF WriteNodeRows, UpsertChunkPoints, UpsertNodePoints, RollbackRun
<1>4. ASSUME NEW r \in Runs, CommitRun(r) PROVE IdsCommitted'
  BY <1>4 DEF CommitRun, Commit, NodeId
<1>5. ASSUME NEW d \in Docs, DeleteLoad(d) PROVE IdsCommitted'
  BY <1>5 DEF DeleteLoad, NodeOf, ProvenanceHasNode
<1>6. ASSUME NEW d \in Docs, DeleteFindOrphans(d) PROVE IdsCommitted'
  BY <1>6 DEF DeleteFindOrphans
<1>7. ASSUME NEW d \in Docs, DeleteCommit(d) PROVE IdsCommitted'
  BY <1>7 DEF DeleteCommit
<1>8. CASE Pass \/ PassFails \/ UNCHANGED vars
  BY <1>8, PassRepairs DEF Repairs, vars
<1>9. CASE WipeCleanup \/ WipeRows \/ WipeCommit \/ WipeRollback
  BY <1>9 DEF WipeCleanup, WipeRows, WipeCommit, WipeRollback
<1>. QED
  BY <1>1, <1>2, <1>3, <1>4, <1>5, <1>6, <1>7, <1>8, <1>9 DEF Next, Run, Delete, Wipe

LEMMA NodesHeldStep == TypeInv /\ DocumentHeld /\ NodesHeld /\ [Next]_vars => NodesHeld'
<1>. SUFFICES ASSUME TypeOK, DocumentHeld, NodesHeld, [Next]_vars PROVE NodesHeld'
  BY DEF TypeInv
<1>. USE DEF NodesHeld, Upserted, TypeOK, Open
<1>1. ASSUME UNCHANGED <<nodeRow, del, orphans, runLabels>>,
             \A r \in Runs : Upserted(r)' => Upserted(r)
      PROVE  NodesHeld'
  BY <1>1 DEF NodeOf, Removed, LiveNodes
<1>2. ASSUME NEW d \in Docs, Upload(d) PROVE NodesHeld'
  BY <1>1, <1>2 DEF Upload, runVars, delVars
<1>3. ASSUME NEW r \in Runs, NEW d \in Docs, NEW S \in SUBSET Labels, WriteChunkRows(r, d, S)
      PROVE  NodesHeld'
  BY <1>3 DEF WriteChunkRows, NodeOf, Removed, LiveNodes, rowVars, delVars
<1>4. ASSUME NEW r \in Runs, WriteNodeRows(r) PROVE NodesHeld'
  <2>1. /\ pc[r] = "chunkRows" /\ pc' = [pc EXCEPT ![r] = "allRows"]
        /\ \A l \in runLabels[r] : Upserting(l) = {} /\ \A d \in Docs : NodeOf(l) \notin Removed(d)
        /\ UNCHANGED <<nodeRow, runLabels, del, orphans>>
    BY <1>4 DEF WriteNodeRows, rowVars, delVars
  <2>2. \A q \in Runs : Upserted(q)' => Upserted(q) \/ q = r
    BY <2>1
  <2>3. \A q \in Runs : \A l \in runLabels[q] : Upserted(q) => l \notin runLabels[r]
    BY <2>1 DEF Upserting
  <2>4. \A l \in Labels : \A d \in Docs : NodeOf(l)' = NodeOf(l) /\ Removed(d)' = Removed(d)
    BY <2>1 DEF NodeOf, Removed, LiveNodes
  <2>5. \A q, k \in Runs : \A l \in Labels :
           Upserted(q)' /\ Upserted(k)' /\ l \in runLabels[q] /\ l \in runLabels[k] => q = k
    BY <2>2, <2>3
  <2>6. \A q \in Runs : \A l \in runLabels[q] : Upserted(q)' => \A d \in Docs : NodeOf(l) \notin Removed(d)
    BY <2>1, <2>2
  <2>. HIDE DEF Upserted
  <2>. QED
    BY <2>1, <2>4, <2>5, <2>6
<1>5. ASSUME NEW r \in Runs, UpsertChunkPoints(r) \/ UpsertNodePoints(r) \/ RollbackRun(r)
      PROVE  NodesHeld'
  BY <1>1, <1>5 DEF UpsertChunkPoints, UpsertNodePoints, RollbackRun, rowVars, delVars
<1>6. ASSUME NEW r \in Runs, CommitRun(r) PROVE NodesHeld'
  <2>1. /\ pc[r] = "points" /\ pc' = [pc EXCEPT ![r] = "done"]
        /\ nodeRow' = [l \in Labels |-> IF l \in runLabels[r] THEN NodeId(r, l)[2] ELSE nodeRow[l]]
        /\ UNCHANGED <<runLabels, del, orphans>>
    BY <1>6 DEF CommitRun, Commit, delVars
  <2>2. \A q \in Runs : Upserted(q)' => Upserted(q) /\ q # r
    BY <2>1
  <2>3. ASSUME NEW q \in Runs, NEW l \in runLabels[q], Upserted(q)', NEW d \in Docs
        PROVE  (NodeOf(l) \notin Removed(d))'
    <3>1. l \in Labels /\ l \notin runLabels[r]
      BY <2>1, <2>2, <2>3
    <3>2. nodeRow'[l] = nodeRow[l]
      BY <2>1, <3>1
    <3>3. NodeOf(l) \notin Removed(d)
      BY <2>2, <2>3
    <3>4. NodeOf(l) \in LiveNodes' => NodeOf(l) \in LiveNodes
      BY <3>1, <3>2 DEF NodeOf, LiveNodes
    <3>. QED
      BY <2>1, <3>2, <3>3, <3>4 DEF NodeOf, Removed
  <2>. QED
    BY <2>1, <2>2, <2>3
<1>7. ASSUME NEW d \in Docs, DeleteLoad(d) \/ DeleteCleanup(d) \/ DeleteRow(d)
                               \/ DeleteFindOrphans(d) \/ DeleteRollback(d)
      PROVE  NodesHeld'
  BY <1>7 DEF DeleteLoad, DeleteCleanup, DeleteRow, DeleteFindOrphans, DeleteRollback,
              NodeOf, Removed, LiveNodes, Deleting, rowVars, runVars
<1>8. ASSUME NEW d \in Docs, DeleteNodes(d) PROVE NodesHeld'
  BY <1>8 DEF DeleteNodes, Upserting, NodeOf, Removed, LiveNodes, rowVars, runVars
<1>9. ASSUME NEW d \in Docs, DeleteNodePoints(d) PROVE NodesHeld'
  BY <1>9 DEF DeleteNodePoints, NodeOf, Removed, LiveNodes, rowVars, runVars
<1>10. ASSUME NEW d \in Docs, DeleteCommit(d) PROVE NodesHeld'
  <2>. DEFINE gone == {n[1] : n \in Removed(d)}
  <2>1. /\ del[d] = "pointsGone" /\ del' = [del EXCEPT ![d] = "none"]
        /\ orphans' = [orphans EXCEPT ![d] = {}]
        /\ nodeRow' = [l \in Labels |-> IF l \in gone THEN None ELSE nodeRow[l]]
        /\ UNCHANGED <<pc, runLabels>>
    BY <1>10 DEF DeleteCommit, runVars
  <2>2. \A r \in Runs : Upserted(r)' <=> Upserted(r)
    BY <2>1
  <2>3. ASSUME NEW r \in Runs, NEW l \in runLabels[r], Upserted(r), NEW k \in Docs
        PROVE  (NodeOf(l) \notin Removed(k))'
    <3>1. l \notin gone
      BY <2>3, RemovedIsLive
    <3>2. l \in Labels /\ nodeRow'[l] = nodeRow[l]
      BY <2>1, <2>3, <3>1
    <3>3. NodeOf(l) \notin Removed(k)
      BY <2>3
    <3>4. NodeOf(l) \in LiveNodes' => NodeOf(l) \in LiveNodes
      BY <3>2 DEF NodeOf, LiveNodes
    <3>. QED
      BY <2>1, <3>2, <3>3, <3>4 DEF NodeOf, Removed
  <2>. QED
    BY <2>1, <2>2, <2>3
<1>11. CASE Pass \/ PassFails \/ UNCHANGED vars
  BY <1>1, <1>11, PassRepairs DEF Repairs, vars, rowVars, runVars, delVars
<1>12. CASE WipeCleanup \/ WipeRows \/ WipeRollback
  BY <1>1, <1>12 DEF WipeCleanup, WipeRows, WipeRollback, rowVars, runVars
<1>13. CASE WipeCommit
  <2>1. \A r \in Runs : ~Upserted(r)'
    BY <1>13 DEF WipeCommit, DocumentHeld, runVars
  <2>. QED
    BY <2>1
<1>. QED
  BY <1>2, <1>3, <1>4, <1>5, <1>6, <1>7, <1>8, <1>9, <1>10, <1>11, <1>12, <1>13
  DEF Next, Run, Delete, Wipe

LEMMA LocksStep == TypeInv /\ Locks /\ [Next]_vars => Locks'
BY DocumentHeldStep, IdsCommittedStep, NodesHeldStep DEF Locks

-------------------------------------------------------------------------------
(***************************************************************************)
(* Chunks.  The reconciler only reports.                                   *)
(***************************************************************************)
Excused(d) == d \in GoingDocs \cup spoiled

ChunkInv ==
  /\ ChunksComplete
  /\ \A r \in Runs : pc[r] \in {"chunkPoints", "points"} =>
        <<runDoc[r], ChunkId(r)>> \in chunkPoints \/ Excused(runDoc[r])

LEMMA ChunkStep == TypeInv /\ Locks /\ ChunkInv /\ ~autoFix /\ [Next]_vars => ChunkInv'
<1>. SUFFICES ASSUME TypeOK, TypeOK', DocumentHeld, ChunkInv, ~autoFix, [Next]_vars PROVE ChunkInv'
  BY TypeStep DEF TypeInv, Locks
<1>. USE DEF ChunkInv, ChunksComplete, Open
\* Steps that take neither a point nor an excuse nor a row away.
<1>1. ASSUME chunkRow' = chunkRow, chunkPoints \subseteq chunkPoints', runDoc' = runDoc,
             \A d \in Docs : Excused(d) => Excused(d)',
             \A r \in Runs : pc'[r] \in {"chunkPoints", "points"} =>
                pc[r] \in {"chunkPoints", "points"} \/ <<runDoc[r], ChunkId(r)>> \in chunkPoints'
      PROVE  ChunkInv'
  <2>1. \A r \in Runs : ChunkId(r)' = ChunkId(r)
    BY <1>1 DEF ChunkId
  <2>2. \A r \in Runs : pc'[r] \in {"chunkPoints", "points"} => runDoc'[r] \in Docs
    BY DEF TypeOK
  <2>. QED
    BY <1>1, <2>1, <2>2 DEF Excused
<1>2. ASSUME NEW d \in Docs, Upload(d) PROVE ChunkInv'
  BY <1>1, <1>2 DEF Upload, Excused, GoingDocs, pointVars, runVars, delVars
<1>3. ASSUME NEW r \in Runs, NEW d \in Docs, NEW S \in SUBSET Labels, WriteChunkRows(r, d, S)
      PROVE  ChunkInv'
  BY <1>3 DEF WriteChunkRows, ChunkId, Excused, GoingDocs, TypeOK, rowVars, pointVars, delVars
<1>4. ASSUME NEW r \in Runs, WriteNodeRows(r) PROVE ChunkInv'
  BY <1>1, <1>4 DEF WriteNodeRows, Excused, GoingDocs, TypeOK, rowVars, pointVars, delVars
<1>5. ASSUME NEW r \in Runs, UpsertChunkPoints(r) PROVE ChunkInv'
  BY <1>1, <1>5 DEF UpsertChunkPoints, Excused, GoingDocs, TypeOK, rowVars, delVars
<1>6. ASSUME NEW r \in Runs, UpsertNodePoints(r) PROVE ChunkInv'
  BY <1>1, <1>6 DEF UpsertNodePoints, Excused, GoingDocs, TypeOK, rowVars, delVars
<1>7. ASSUME NEW r \in Runs, CommitRun(r) PROVE ChunkInv'
  <2>1. /\ pc[r] = "points" /\ pc' = [pc EXCEPT ![r] = "done"]
        /\ chunkRow' = [chunkRow EXCEPT ![runDoc[r]] = ChunkId(r)]
        /\ UNCHANGED <<chunkPoints, runDoc, del, spoiled>>
    BY <1>7 DEF CommitRun, Commit, pointVars, delVars
  <2>2. runDoc[r] \in Docs
    BY <2>1 DEF TypeOK
  <2>3. \A d \in Docs : Excused(d)' <=> Excused(d)
    BY <2>1 DEF Excused, GoingDocs
  <2>4. \A q \in Runs : pc'[q] \in {"chunkPoints", "points"} =>
           pc[q] = pc'[q] /\ runDoc[q] \in Docs /\ runDoc[q] # runDoc[r]
    BY <2>1, <2>2 DEF DocumentHeld, TypeOK
  <2>5. \A q \in Runs : pc'[q] \in {"chunkPoints", "points"} => ChunkId(q)' = ChunkId(q)
    BY <2>1, <2>4 DEF ChunkId, TypeOK
  <2>6. \A q \in Runs : pc'[q] \in {"chunkPoints", "points"} =>
           <<runDoc[q], ChunkId(q)>> \in chunkPoints \/ Excused(runDoc[q])
    BY <2>4
  <2>7. <<runDoc[r], ChunkId(r)>> \in chunkPoints \/ Excused(runDoc[r])
    BY <2>1
  <2>8. ASSUME NEW d \in Docs, chunkRow'[d] # None, ~Excused(d)
        PROVE  <<d, chunkRow'[d]>> \in chunkPoints
    <3>1. CASE d = runDoc[r]
      BY <2>1, <2>2, <2>7, <2>8, <3>1 DEF TypeOK
    <3>2. CASE d # runDoc[r]
      BY <2>1, <2>2, <2>8, <3>2 DEF TypeOK, Excused
    <3>. QED
      BY <3>1, <3>2
  <2>. QED
    BY <2>1, <2>3, <2>4, <2>5, <2>6, <2>8 DEF Excused
<1>8. ASSUME NEW r \in Runs, RollbackRun(r) PROVE ChunkInv'
  BY <1>1, <1>8 DEF RollbackRun, Excused, GoingDocs, TypeOK, rowVars, pointVars, delVars
<1>9. ASSUME NEW d \in Docs, DeleteCleanup(d) PROVE ChunkInv'
  <2>1. /\ del' = [del EXCEPT ![d] = "cleaned"]
        /\ \A p \in chunkPoints : p[1] # d => p \in chunkPoints'
        /\ UNCHANGED <<chunkRow, pc, runDoc, spoiled>>
    BY <1>9 DEF DeleteCleanup, rowVars, runVars
  <2>2. Excused(d)' /\ \A k \in Docs : Excused(k) => Excused(k)'
    BY <2>1 DEF Excused, GoingDocs, TypeOK
  <2>3. \A r \in Runs : ChunkId(r)' = ChunkId(r)
    BY <2>1 DEF ChunkId
  <2>4. \A r \in Runs : pc[r] \in {"chunkPoints", "points"} => runDoc[r] \in Docs
    BY DEF TypeOK
  <2>. QED
    BY <2>1, <2>2, <2>3, <2>4 DEF Excused
<1>10. ASSUME NEW d \in Docs, DeleteCommit(d) PROVE ChunkInv'
  <2>1. /\ del[d] = "pointsGone" /\ del' = [del EXCEPT ![d] = "none"]
        /\ chunkRow' = [chunkRow EXCEPT ![d] = None]
        /\ UNCHANGED <<chunkPoints, pc, runDoc, spoiled>>
    BY <1>10 DEF DeleteCommit, pointVars, runVars
  <2>2. \A k \in Docs : k # d => (Excused(k)' <=> Excused(k))
    BY <2>1 DEF Excused, GoingDocs, TypeOK
  <2>3. \A r \in Runs : pc[r] \in {"chunkPoints", "points"} => runDoc[r] \in Docs /\ runDoc[r] # d
    BY <2>1 DEF DocumentHeld, TypeOK, Deleting
  <2>4. \A r \in Runs : pc[r] \in {"chunkPoints", "points"} => ChunkId(r)' = ChunkId(r)
    BY <2>1, <2>3 DEF ChunkId, TypeOK
  <2>5. chunkRow'[d] = None /\ \A k \in Docs : k # d => chunkRow'[k] = chunkRow[k]
    BY <2>1 DEF TypeOK
  <2>. QED
    BY <2>1, <2>2, <2>3, <2>4, <2>5 DEF Excused
<1>11. ASSUME NEW d \in Docs, DeleteRollback(d) PROVE ChunkInv'
  <2>1. /\ del' = [del EXCEPT ![d] = "none"]
        /\ spoiled \subseteq spoiled' /\ (del[d] # "loaded" => d \in spoiled') /\ del[d] # "none"
        /\ UNCHANGED <<chunkRow, chunkPoints, pc, runDoc>>
    BY <1>11 DEF DeleteRollback, rowVars, pointVars, runVars
  <2>2. \A k \in Docs : Excused(k) => Excused(k)'
    BY <2>1 DEF Excused, GoingDocs, TypeOK
  <2>. QED
    BY <1>1, <2>1, <2>2
<1>12. ASSUME NEW d \in Docs,
              DeleteLoad(d) \/ DeleteRow(d) \/ DeleteFindOrphans(d) \/ DeleteNodes(d)
                \/ DeleteNodePoints(d)
       PROVE  ChunkInv'
  <2>1. UNCHANGED <<chunkRow, chunkPoints, pc, runDoc, spoiled>>
    BY <1>12 DEF DeleteLoad, DeleteRow, DeleteFindOrphans, DeleteNodes, DeleteNodePoints,
                 rowVars, pointVars, runVars
  <2>2. \A k \in Docs : Excused(k) => Excused(k)'
    BY <1>12 DEF DeleteLoad, DeleteRow, DeleteFindOrphans, DeleteNodes, DeleteNodePoints,
                 Excused, GoingDocs, TypeOK
  <2>. QED
    BY <1>1, <2>1, <2>2
<1>13. CASE UNCHANGED vars
  BY <1>1, <1>13 DEF Excused, GoingDocs, vars, rowVars, pointVars, runVars, delVars
<1>14. CASE WipeCleanup
  <2>1. /\ \A p \in chunkPoints : p \in chunkPoints' \/ p[1] \in spoiled'
        /\ spoiled \subseteq spoiled'
        /\ UNCHANGED <<chunkRow, pc, runDoc, del>>
    BY <1>14 DEF WipeCleanup, rowVars, runVars
  <2>2. \A k \in Docs : Excused(k) => Excused(k)'
    BY <2>1 DEF Excused, GoingDocs
  <2>3. \A r \in Runs : ChunkId(r)' = ChunkId(r)
    BY <2>1 DEF ChunkId
  <2>4. \A r \in Runs : pc[r] \in {"chunkPoints", "points"} => runDoc[r] \in Docs
    BY DEF TypeOK
  <2>. QED
    BY <2>1, <2>2, <2>3, <2>4 DEF Excused
<1>15. CASE WipeRows \/ WipeRollback
  BY <1>1, <1>15 DEF WipeRows, WipeRollback, Excused, GoingDocs, rowVars, pointVars, runVars
<1>16. CASE WipeCommit
  BY <1>16 DEF WipeCommit, DocumentHeld, runVars
<1>. QED
  BY <1>2, <1>3, <1>4, <1>5, <1>6, <1>7, <1>8, <1>9, <1>10, <1>11, <1>12, <1>13, <1>14, <1>15,
     <1>16, PassRepairs
  DEF Next, Run, Delete, Wipe, Repairs

-------------------------------------------------------------------------------
(***************************************************************************)
(* Nodes.                                                                  *)
(***************************************************************************)
Found(n) == n \in graphPoints \cup GoingNodes \cup spoiled

NodeInv ==
  /\ \A l \in Labels : nodeRow[l] # None => Found(NodeOf(l))
  /\ \A r \in Runs : pc[r] = "points" => \A l \in runLabels[r] : Found(NodeId(r, l))

LEMMA NodeInvComplete == NodeInv => NodesComplete
BY DEF NodeInv, NodesComplete, LiveNodes, Found

LEMMA NodeStep == TypeInv /\ Locks /\ NodeInv /\ ~autoFix /\ [Next]_vars => NodeInv'
<1>. SUFFICES ASSUME TypeOK, DocumentHeld, NodesHeld, IdsCommitted, NodeInv, ~autoFix, [Next]_vars
              PROVE  NodeInv'
  BY DEF TypeInv, Locks
<1>. USE DEF NodeInv, Open
\* Steps that change no node row.
<1>1. ASSUME nodeRow' = nodeRow, runLabels' = runLabels, \A n \in Nodes : Found(n) => Found(n)',
             \A r \in Runs : pc'[r] = "points" =>
                pc[r] = "points" \/ \A l \in runLabels[r] : NodeId(r, l) \in graphPoints'
      PROVE  NodeInv'
  <2>1. \A l \in Labels : NodeOf(l)' = NodeOf(l) /\ (nodeRow[l] # None => NodeOf(l) \in Nodes)
    BY <1>1 DEF NodeOf, Nodes, TypeOK
  <2>2. \A r \in Runs : \A l \in runLabels[r] : NodeId(r, l)' = NodeId(r, l) /\ NodeId(r, l) \in Nodes
    BY <1>1 DEF NodeId, Nodes, TypeOK
  <2>3. \A n : n \in graphPoints' => Found(n)'
    BY DEF Found
  <2>. QED
    BY <1>1, <2>1, <2>2, <2>3
<1>2. ASSUME NEW d \in Docs, Upload(d) \/ DeleteCleanup(d) PROVE NodeInv'
  <2>1. UNCHANGED <<nodeRow, graphPoints, pc, runLabels, orphans, spoiled>>
    BY <1>2 DEF Upload, DeleteCleanup, rowVars, pointVars, runVars, delVars
  <2>2. GoingNodes' = GoingNodes
    BY <1>2 DEF Upload, DeleteCleanup, GoingNodes, TypeOK, delVars
  <2>. QED
    BY <1>1, <2>1, <2>2 DEF Found
<1>3. ASSUME NEW r \in Runs, NEW d \in Docs, NEW S \in SUBSET Labels, WriteChunkRows(r, d, S)
      PROVE  NodeInv'
  <2>1. /\ pc' = [pc EXCEPT ![r] = "chunkRows"] /\ runLabels' = [runLabels EXCEPT ![r] = S]
        /\ UNCHANGED <<nodeRow, graphPoints, del, orphans, spoiled>>
    BY <1>3 DEF WriteChunkRows, rowVars, pointVars, delVars
  <2>2. \A n : Found(n)' <=> Found(n)
    BY <2>1 DEF Found, GoingNodes
  <2>3. \A q \in Runs : pc'[q] = "points" => pc[q] = "points" /\ runLabels'[q] = runLabels[q]
    BY <2>1 DEF TypeOK
  <2>4. \A q \in Runs : \A l : NodeId(q, l)' = NodeId(q, l) /\ NodeOf(l)' = NodeOf(l)
    BY <2>1 DEF NodeId, NodeOf
  <2>. QED
    BY <2>1, <2>2, <2>3, <2>4
<1>4. ASSUME NEW r \in Runs, WriteNodeRows(r) \/ UpsertChunkPoints(r) \/ UpsertNodePoints(r)
                               \/ RollbackRun(r)
      PROVE  NodeInv'
  <2>1. /\ UNCHANGED <<nodeRow, runLabels, del, orphans, spoiled>>
        /\ graphPoints \subseteq graphPoints'
        /\ \A q \in Runs : pc'[q] = "points" =>
              pc[q] = "points" \/ \A l \in runLabels[q] : NodeId(q, l) \in graphPoints'
    BY <1>4 DEF WriteNodeRows, UpsertChunkPoints, UpsertNodePoints, RollbackRun, TypeOK,
                rowVars, pointVars, delVars
  <2>2. \A n : Found(n) => Found(n)'
    BY <2>1 DEF Found, GoingNodes
  <2>. QED
    BY <1>1, <2>1, <2>2
<1>5. ASSUME NEW r \in Runs, CommitRun(r) PROVE NodeInv'
  <2>1. /\ pc[r] = "points" /\ pc' = [pc EXCEPT ![r] = "done"]
        /\ nodeRow' = [l \in Labels |-> IF l \in runLabels[r] THEN NodeId(r, l)[2] ELSE nodeRow[l]]
        /\ UNCHANGED <<graphPoints, runLabels, del, orphans, spoiled>>
    BY <1>5 DEF CommitRun, Commit, pointVars, delVars
  <2>2. \A n : Found(n)' <=> Found(n)
    BY <2>1 DEF Found, GoingNodes
  <2>3. ASSUME NEW l \in Labels, nodeRow'[l] # None PROVE Found(NodeOf(l)')
    <3>1. CASE l \in runLabels[r]
      <4>1. NodeOf(l)' = NodeId(r, l)
        BY <2>1, <3>1 DEF NodeOf, NodeId
      <4>. QED
        BY <2>1, <3>1, <4>1
    <3>2. CASE l \notin runLabels[r]
      <4>1. nodeRow'[l] = nodeRow[l] /\ NodeOf(l)' = NodeOf(l)
        BY <2>1, <3>2 DEF NodeOf
      <4>. QED
        BY <2>3, <4>1
    <3>. QED
      BY <3>1, <3>2
  <2>4. ASSUME NEW q \in Runs, pc'[q] = "points", NEW l \in runLabels[q] PROVE Found(NodeId(q, l)')
    <3>1. q # r /\ pc[q] = "points" /\ l \in Labels
      BY <2>1, <2>4 DEF TypeOK
    <3>2. l \notin runLabels[r]
      BY <2>1, <2>4, <3>1 DEF NodesHeld, Upserted
    <3>3. NodeId(q, l)' = NodeId(q, l)
      BY <2>1, <3>1, <3>2 DEF NodeId
    <3>. QED
      BY <2>4, <3>1, <3>3
  <2>. QED
    BY <2>1, <2>2, <2>3, <2>4
<1>6. ASSUME NEW d \in Docs, DeleteLoad(d) \/ DeleteRow(d) \/ DeleteFindOrphans(d) \/ DeleteNodes(d)
      PROVE  NodeInv'
  <2>1. UNCHANGED <<nodeRow, graphPoints, pc, runLabels, spoiled>>
    BY <1>6 DEF DeleteLoad, DeleteRow, DeleteFindOrphans, DeleteNodes, rowVars, pointVars, runVars
  <2>2. /\ del[d] # "pointsGone"
        /\ \A k \in Docs : k # d => del'[k] = del[k] /\ orphans'[k] = orphans[k]
    BY <1>6 DEF DeleteLoad, DeleteRow, DeleteFindOrphans, DeleteNodes, TypeOK
  <2>3. GoingNodes \subseteq GoingNodes'
    BY <2>2 DEF GoingNodes
  <2>. QED
    BY <1>1, <2>1, <2>3 DEF Found
<1>7. ASSUME NEW d \in Docs, DeleteNodePoints(d) PROVE NodeInv'
  <2>1. /\ del' = [del EXCEPT ![d] = "pointsGone"]
        /\ graphPoints \ orphans[d] \subseteq graphPoints'
        /\ UNCHANGED <<nodeRow, pc, runLabels, orphans, spoiled>>
    BY <1>7 DEF DeleteNodePoints, rowVars, runVars
  <2>2. GoingNodes \subseteq GoingNodes' /\ orphans[d] \subseteq GoingNodes'
    BY <2>1 DEF GoingNodes, TypeOK
  <2>. QED
    BY <1>1, <2>1, <2>2 DEF Found
<1>8. ASSUME NEW d \in Docs, DeleteCommit(d) PROVE NodeInv'
  <2>. DEFINE gone == {n[1] : n \in Removed(d)}
  <2>1. /\ del[d] = "pointsGone" /\ del' = [del EXCEPT ![d] = "none"]
        /\ orphans' = [orphans EXCEPT ![d] = {}]
        /\ nodeRow' = [l \in Labels |-> IF l \in gone THEN None ELSE nodeRow[l]]
        /\ UNCHANGED <<graphPoints, pc, runLabels, spoiled>>
    BY <1>8 DEF DeleteCommit, pointVars, runVars
  <2>2. \A k \in Docs : k # d => del'[k] = del[k] /\ orphans'[k] = orphans[k]
    BY <2>1 DEF TypeOK
  <2>3. \A n : n \notin orphans[d] /\ Found(n) => Found(n)'
    BY <2>1, <2>2 DEF Found, GoingNodes
  <2>4. ASSUME NEW l \in Labels, nodeRow'[l] # None PROVE Found(NodeOf(l))'
    <3>1. l \notin gone /\ nodeRow'[l] = nodeRow[l]
      BY <2>1, <2>4
    <3>2. NodeOf(l) \in LiveNodes /\ NodeOf(l)[1] = l
      BY <2>4, <3>1 DEF LiveNodes, NodeOf
    <3>3. NodeOf(l) \notin orphans[d]
      BY <2>1, <3>1, <3>2 DEF Removed
    <3>. QED
      BY <2>3, <2>4, <3>1, <3>3 DEF NodeOf
  <2>5. ASSUME NEW r \in Runs, pc[r] = "points", NEW l \in runLabels[r] PROVE Found(NodeId(r, l))'
    <3>1. l \in Labels /\ NodeOf(l) \notin Removed(d)
      BY <2>5 DEF NodesHeld, Upserted, TypeOK
    <3>2. l \notin gone /\ nodeRow'[l] = nodeRow[l]
      BY <2>1, <3>1, RemovedIsLive
    <3>3. NodeId(r, l)' = NodeId(r, l)
      BY <3>2 DEF NodeId
    <3>4. NodeId(r, l) \notin orphans[d]
      <4>1. CASE nodeRow[l] = None
        BY <2>5, <4>1 DEF NodeId, IdsCommitted
      <4>2. CASE nodeRow[l] # None
        BY <2>1, <3>1, <4>2 DEF NodeId, NodeOf, Removed, LiveNodes
      <4>. QED
        BY <4>1, <4>2
    <3>. QED
      BY <2>3, <2>5, <3>3, <3>4
  <2>. QED
    BY <2>1, <2>4, <2>5
<1>9. ASSUME NEW d \in Docs, DeleteRollback(d) PROVE NodeInv'
  <2>1. /\ del' = [del EXCEPT ![d] = "none"]
        /\ orphans' = [orphans EXCEPT ![d] = {}]
        /\ spoiled \subseteq spoiled' /\ (del[d] = "pointsGone" => orphans[d] \subseteq spoiled')
        /\ UNCHANGED <<nodeRow, graphPoints, pc, runLabels>>
    BY <1>9 DEF DeleteRollback, rowVars, pointVars, runVars
  <2>2. \A k \in Docs : k # d => del'[k] = del[k] /\ orphans'[k] = orphans[k]
    BY <2>1 DEF TypeOK
  <2>3. \A n : n \in GoingNodes => n \in GoingNodes' \cup spoiled'
    BY <2>1, <2>2 DEF GoingNodes
  <2>. QED
    BY <1>1, <2>1, <2>3 DEF Found
<1>10. CASE UNCHANGED vars
  BY <1>1, <1>10 DEF Found, GoingNodes, vars, rowVars, pointVars, runVars, delVars
<1>11. CASE WipeCleanup \/ WipeRows \/ WipeRollback
  <2>1. /\ UNCHANGED <<nodeRow, graphPoints, pc, runLabels, del, orphans>>
        /\ spoiled \subseteq spoiled'
    BY <1>11 DEF WipeCleanup, WipeRows, WipeRollback, rowVars, pointVars, runVars
  <2>2. \A n : Found(n) => Found(n)'
    BY <2>1 DEF Found, GoingNodes
  <2>. QED
    BY <1>1, <2>1, <2>2
<1>12. CASE WipeCommit
  BY <1>12 DEF WipeCommit, DocumentHeld, runVars
<1>. QED
  BY <1>2, <1>3, <1>4, <1>5, <1>6, <1>7, <1>8, <1>9, <1>10, <1>11, <1>12, PassRepairs
  DEF Next, Run, Delete, Wipe, Repairs

-------------------------------------------------------------------------------
\* The inductive invariant of the rows, the locks and, when nothing repairs, the points.
SearchInv == TypeInv /\ Locks /\ (~autoFix => ChunkInv /\ NodeInv)

\* It holds of every behaviour of the dual writer, the deletes and the reconciler.
THEOREM SearchInvariant == Spec => []SearchInv
<1>1. Init => SearchInv
  <2>1. Init => ChunkInv /\ NodeInv
    BY DEF Init, Fresh, ChunkInv, ChunksComplete, NodeInv
  <2>. QED
    BY <2>1, TypeInit, LocksInit DEF SearchInv
<1>2. SearchInv /\ [Next]_vars => SearchInv'
  <2>1. [Next]_vars => autoFix' = autoFix
    BY FixStays
  <2>. QED
    BY <2>1, TypeStep, LocksStep, ChunkStep, NodeStep DEF SearchInv
<1>. QED
  BY <1>1, <1>2, PTL DEF Spec

\* The program's types, and a provenance row always has its node.
THEOREM TypeCorrect == Spec => []TypeOK
<1>1. SearchInv => TypeOK
  BY DEF SearchInv, TypeInv
<1>. QED
  BY <1>1, SearchInvariant, PTL

\* Without auto-fix a committed chunk row has its point, whatever runs, retries and
\* deletes interleave.
THEOREM ChunksAreSearchable == Spec => []ChunksSearchable
<1>1. SearchInv => ChunksSearchable
  BY DEF SearchInv, ChunkInv, ChunksSearchable
<1>. QED
  BY <1>1, SearchInvariant, PTL

\* The same of a node, which several documents share.
THEOREM NodesAreSearchable == Spec => []NodesSearchable
<1>1. SearchInv => NodesSearchable
  BY NodeInvComplete DEF SearchInv, NodesSearchable
<1>. QED
  BY <1>1, SearchInvariant, PTL

\* A deleted document gets no point again, with auto-fix or without.
THEOREM DeletedStaysOut == Spec => DeletedGainsNothing
<1>1. SearchInv /\ [Next]_vars => [\A p \in chunkPoints' \ chunkPoints : doc[p[1]] = "live"]_vars
  <2>. SUFFICES ASSUME TypeInv, DocumentHeld, Next, NEW p \in chunkPoints' \ chunkPoints
                PROVE  doc[p[1]] = "live"
    BY DEF SearchInv, Locks
  <2>1. ASSUME NEW r \in Runs, UpsertChunkPoints(r) PROVE doc[p[1]] = "live"
    BY <2>1 DEF UpsertChunkPoints, DocumentHeld, Open
  <2>2. ASSUME chunkPoints' \subseteq chunkPoints PROVE doc[p[1]] = "live"
    BY <2>2
  <2>3. ASSUME NEW r \in Runs, WriteNodeRows(r) \/ UpsertNodePoints(r) \/ CommitRun(r) \/ RollbackRun(r)
        PROVE  doc[p[1]] = "live"
    BY <2>2, <2>3 DEF WriteNodeRows, UpsertNodePoints, CommitRun, Commit, RollbackRun, pointVars
  <2>4. ASSUME NEW d \in Docs, Upload(d) \/ DeleteLoad(d) \/ Delete(d) \/ DeleteRollback(d)
        PROVE  doc[p[1]] = "live"
    BY <2>2, <2>4 DEF Upload, DeleteLoad, Delete, DeleteCleanup, DeleteRow, DeleteFindOrphans,
                      DeleteNodes, DeleteNodePoints, DeleteCommit, DeleteRollback, pointVars
  <2>5. ASSUME NEW r \in Runs, NEW d \in Docs, NEW S \in SUBSET Labels, WriteChunkRows(r, d, S)
        PROVE  doc[p[1]] = "live"
    BY <2>2, <2>5 DEF WriteChunkRows, pointVars
  <2>6. CASE Pass \/ PassFails
    BY <2>2, <2>6, PassRepairs DEF Repairs
  <2>7. CASE Wipe
    BY <2>2, <2>7 DEF Wipe, WipeCleanup, WipeRows, WipeCommit, WipeRollback,
                      DeleteChunksByWorkspace, pointVars
  <2>. QED
    BY <2>1, <2>3, <2>4, <2>5, <2>6, <2>7 DEF Next, Run
<1>. QED
  BY <1>1, SearchInvariant, PTL DEF Spec, DeletedGainsNothing
===============================================================================
