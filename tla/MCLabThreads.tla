---------------------------- MODULE MCLabThreads -----------------------------
(***************************************************************************)
(* The instance of module LabThreads for TLC.                              *)
(***************************************************************************)
EXTENDS LabThreads
=============================================================================
