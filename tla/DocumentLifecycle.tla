-------------------------- MODULE DocumentLifecycle --------------------------
(***************************************************************************)
(* What the ingest pipeline promises about a document, with no queue, no   *)
(* worker and no retry: the status a client polls                          *)
(* (GET /tenants/{tid}/documents) and whether the document's chunks have   *)
(* been committed.                                                         *)
(*                                                                         *)
(*   - a document reported 'indexed' has its chunks committed;             *)
(*   - chunks are only ever committed for a document that exists, and stay *)
(*     until it is deleted;                                                *)
(*   - a deleted document never comes back, however many payloads for it   *)
(*     are still travelling.                                               *)
(*                                                                         *)
(* A document may be processed again after it was reported: delivery is at *)
(* least once, and nothing in the pipeline hides that from the client.     *)
(***************************************************************************)
CONSTANT Jobs

VARIABLES doc, chunks

lifecycleVars == <<doc, chunks>>

Live == {j \in Jobs : doc[j] \notin {"absent", "deleted"}}

Init ==
  /\ doc = [j \in Jobs |-> "absent"]
  /\ chunks = [j \in Jobs |-> FALSE]

Upload(j) ==
  /\ doc[j] = "absent"
  /\ doc' = [doc EXCEPT ![j] = "uploaded"]
  /\ UNCHANGED chunks

Process(j) ==
  /\ j \in Live
  /\ doc' = [doc EXCEPT ![j] = "processing"]
  /\ UNCHANGED chunks

CommitChunks(j) ==
  /\ j \in Live
  /\ chunks' = [chunks EXCEPT ![j] = TRUE]
  /\ UNCHANGED doc

ReportIndexed(j) ==
  /\ j \in Live
  /\ chunks[j]
  /\ doc' = [doc EXCEPT ![j] = "indexed"]
  /\ UNCHANGED chunks

\* One sweep may report several documents in one transaction.
ReportFailed(S) ==
  /\ doc' = [j \in Jobs |-> IF j \in S THEN "failed" ELSE doc[j]]
  /\ UNCHANGED chunks

Delete(j) ==
  /\ j \in Live
  /\ doc' = [doc EXCEPT ![j] = "deleted"]
  /\ chunks' = [chunks EXCEPT ![j] = FALSE]

Next ==
  \/ \E j \in Jobs :
        Upload(j) \/ Process(j) \/ CommitChunks(j) \/ ReportIndexed(j) \/ Delete(j)
  \/ \E S \in SUBSET Live : ReportFailed(S)

Spec == Init /\ [][Next]_lifecycleVars

===============================================================================
