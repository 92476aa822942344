---------------------------- MODULE MCA2ARuntime ----------------------------
(* Small instances of A2ARuntime. *)
EXTENDS A2ARuntime, TLC
CONSTANTS j1, j2, w1, w2, c1, c2

Sym == Permutations({w1, w2}) \cup Permutations({c1, c2})
=============================================================================
