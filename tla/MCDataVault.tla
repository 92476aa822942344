---------------------------- MODULE MCDataVault -----------------------------
(* A small instance of DataVault. *)
EXTENDS DataVault, TLC
CONSTANTS olga, ann, bob, d1, u1, u2, g1, g2, g3, r1, r2, r3

CostOf == (u1 :> 1) @@ (u2 :> 2)

\* a root grant to ann; parts of it to bob, one of them without the proof, one
\* longer than the root, one of what bob holds to ann again
Offered(id, parent, issuer, grantee, uses, calls, units, until, proof) ==
  [id |-> id, data |-> d1, parent |-> parent, issuer |-> issuer, grantee |-> grantee, uses |-> uses,
   calls |-> calls, units |-> units, from |-> 0, until |-> until, proof |-> proof]
SomeOffers ==
  {Offered(g1, None, olga, ann, {u1, u2}, 3, 4, 2, TRUE),
   Offered(g2, g1, ann, bob, {u1, u2}, 2, 3, 2, TRUE),
   Offered(g2, g1, ann, bob, {u2}, 1, 2, 1, FALSE),
   Offered(g3, g2, bob, ann, {u1}, 1, 1, 1, TRUE),
   Offered(g3, g1, ann, bob, {u2}, 1, 2, 2, TRUE)}

Asked(id, actor, g, use, proof) == [id |-> id, actor |-> actor, grant |-> g, use |-> use, proof |-> proof]
SomeRequests ==
  {Asked(r1, ann, g1, u1, TRUE), Asked(r1, ann, g1, u2, TRUE),
   Asked(r2, bob, g2, u2, TRUE), Asked(r2, bob, g2, u2, FALSE),
   Asked(r3, ann, g3, u1, TRUE), Asked(r3, bob, g2, u1, TRUE)}
=============================================================================
