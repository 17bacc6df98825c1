---------------------------- MODULE MCProxyContent ---------------------------
(***************************************************************************)
(* The instance about the bytes of the entries, with the chunk lists they  *)
(* are read from.                                                          *)
(***************************************************************************)
EXTENDS MCProxy, Chunks
=============================================================================
