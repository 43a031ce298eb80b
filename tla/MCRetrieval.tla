------------------------------ MODULE MCRetrieval ------------------------------
(***************************************************************************)
(* Small instances of Retrieval.                                           *)
(***************************************************************************)
EXTENDS Retrieval

MCLinks == {<<1, 2>>}
===============================================================================
