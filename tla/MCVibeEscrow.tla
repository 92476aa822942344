---------------------------- MODULE MCVibeEscrow ----------------------------
(* A small instance of VibeEscrow. *)
EXTENDS VibeEscrow
CONSTANTS p1, p2, p3, e1, e2, c1, c2

\* two ways to name the terms of an escrow, so that ids can be reused wrongly
TwoTerms == {[payer |-> p1, payee |-> p2, amount |-> 2], [payer |-> p1, payee |-> p3, amount |-> 1]}
=============================================================================
