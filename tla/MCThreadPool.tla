---------------------------- MODULE MCThreadPool -----------------------------
(***************************************************************************)
(* Instances of module ThreadPool for TLC.                                 *)
(***************************************************************************)
EXTENDS ThreadPool, TLC

Symmetry == Permutations(Fd) \cup Permutations(Conn)
=============================================================================
