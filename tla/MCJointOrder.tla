----------------------------- MODULE MCJointOrder -----------------------------
(* Small instances of JointOrder: two pools in one contract, two users. *)
EXTENDS JointOrder, TLC
CONSTANTS p1, p2, u1, u2
Alike == Permutations(Pools) \cup Permutations(Users)
=============================================================================
