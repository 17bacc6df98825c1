----------------------------- MODULE MCLabQueues -----------------------------
(***************************************************************************)
(* The instance of module LabQueues for TLC.                               *)
(***************************************************************************)
EXTENDS LabQueues, TLC

Symmetry ==
  Permutations(Reader) \cup Permutations(Writer) \cup Permutations(Node)
=============================================================================
