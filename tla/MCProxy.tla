------------------------------- MODULE MCProxy -------------------------------
(***************************************************************************)
(* Instances of module Proxy for TLC.                                      *)
(***************************************************************************)
EXTENDS Proxy, TLC

\* All urls share bucket 0.
OneBucket == [u \in Url |-> 0]

\* What header_len + content_len can be: one or two bytes (where
\* MaxResp is 1, the second never comes); with and without a Content-Length;
\* without one.
KnownLength == {1, 2}
AnyLength == {2, NoLength}
WithoutLength == {NoLength}

Symmetry == Permutations(Thread) \cup Permutations(Entry)
=============================================================================
