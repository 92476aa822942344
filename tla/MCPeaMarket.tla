----------------------------- MODULE MCPeaMarket -----------------------------
(* Small instances of PeaMarket: a hires the team of b and c in joint orders *)
(* and asks its own harness for a turn; b and c have runtimes.               *)
EXTENDS PeaMarket, TLC
CONSTANTS a, b, c, x1, o1

TeamOf == o1 :> <<b, c>>
PayerOf == o1 :> a
RewardOf == o1 :> 2
StartOf == (a :> 3) @@ (b :> 1) @@ (c :> 1)

\* bounds: jobs in the tables of the runtimes, and how many are tried again
FewJobs ==
  /\ Cardinality({k \in Jobs : job[k] # "absent"}) <= 3
  /\ Cardinality({k \in Jobs : tries[k] > 1}) <= 1
=============================================================================
