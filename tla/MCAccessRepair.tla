---------------------------- MODULE MCAccessRepair ----------------------------
(***************************************************************************)
(* Small instances of AccessRepair.                                        *)
(***************************************************************************)
EXTENDS AccessRepair, TLC
===============================================================================
