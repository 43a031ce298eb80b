------------------------------- MODULE MCTenancy -------------------------------
(* A small instance of Tenancy: a document on its way, jobs that set the collections up. *)
EXTENDS Tenancy, TLC

Symmetry == Permutations(Docs) \cup Permutations(Jobs)
================================================================================
