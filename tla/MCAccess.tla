------------------------------- MODULE MCAccess -------------------------------
(***************************************************************************)
(* Small instances of Access.                                              *)
(***************************************************************************)
EXTENDS Access, TLC

Symmetry == Permutations(Users) \cup Permutations(Requests)
===============================================================================
