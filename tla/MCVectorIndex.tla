---------------------------- MODULE MCVectorIndex ----------------------------
(***************************************************************************)
(* A small instance of VectorIndex: two documents that share a node when   *)
(* the reconciler only reports.  When it repairs, all documents but one    *)
(* have come and gone, a state the specification reaches, which keeps the  *)
(* liveness check small.                                                   *)
(***************************************************************************)
EXTENDS VectorIndex

CONSTANT Kept   \* the document that is still to come when the reconciler repairs

MCInit ==
  /\ Fresh
  /\ doc = [d \in Docs |-> IF autoFix /\ d # Kept THEN "deleted" ELSE "absent"]

MCSpec == MCInit /\ [][Next]_vars /\ Fairness
=============================================================================
