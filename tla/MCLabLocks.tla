----------------------------- MODULE MCLabLocks ------------------------------
(***************************************************************************)
(* The instance of module LabLocks for TLC.                                *)
(***************************************************************************)
EXTENDS LabLocks, TLC
=============================================================================
