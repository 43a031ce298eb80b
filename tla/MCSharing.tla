------------------------------- MODULE MCSharing -------------------------------
(***************************************************************************)
(* Small instances of Sharing.                                             *)
(***************************************************************************)
EXTENDS Sharing
===============================================================================
