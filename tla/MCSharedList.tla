---------------------------- MODULE MCSharedList -----------------------------
(***************************************************************************)
(* The instance of module SharedList for TLC.                              *)
(***************************************************************************)
EXTENDS SharedList, TLC
=============================================================================
