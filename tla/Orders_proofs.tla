---------------------------- MODULE Orders_proofs ----------------------------
(***************************************************************************)
(* Proofs about the two ways to order together, for any participants,      *)
(* amounts and limits: JointOrder, the contract that holds the budgets of  *)
(* users, and PeaMarket, whose agents hire one another and whole teams.    *)
(* They share no definition; what they share is the argument that money    *)
(* held for an order is neither made nor lost, and the sums it needs.      *)
(***************************************************************************)
EXTENDS JointOrder, PeaMarket, FiniteSums

(***************************************************************************)
(* I.  The contract                                                        *)
(***************************************************************************)
Opened == {p \in Pools : ~Status(p, "absent")}

\* What the participants of a pool have in it.
Held(p) == SumFunction([u \in Joined(p) \ hasWithdrawn[p] |-> stake[p][u]])

\* What its winner may be paid, and what the balance comes to with what has
\* left it unnoticed.
Limit(p) == penalty[p] + TotalBudget(p) + (IF p \in resolved THEN TotalBudget(p) ELSE 0)
Backing == money + withheld + overpaid

\* Nothing goes back while an order may still be paid, every price is within
\* the budget, and what went back is what was put in.
PoolOf(p) ==
  /\ IsFiniteSet(Joined(p)) /\ hasWithdrawn[p] \subseteq Joined(p)
  /\ Status(p, "absent") => Joined(p) = {}
  /\ hasWithdrawn[p] # {} \/ p \in refundPending => pools[p].status \in {"cancelled", "expired"}
  /\ p \in resolved => pools[p].status \in {"cancelled", "completed"}
  /\ \A x \in bids[p] : x <= TotalBudget(p)
  /\ pools[p].status \in {"in_progress", "disputed"} =>
       pools[p].winningBid <= TotalBudget(p) /\ pools[p].platformFee <= pools[p].winningBid
  /\ \A u \in Users : refunded[p][u] = IF u \in hasWithdrawn[p] THEN stake[p][u] ELSE 0
  /\ paid[p] > 0 => Status(p, "completed")
  /\ Status(p, "completed") => paid[p] + pools[p].winningBid <= Limit(p)

IInv ==
  /\ TypeOK
  /\ IsFiniteSet(Opened) /\ \A p \in Pools : PoolOf(p)
  /\ Covered

\* TypeOK, one variable at a time.
Statuses == {"absent", "created", "funded", "in_progress", "completed", "disputed", "cancelled", "expired"}
Row == [status : Statuses,
        fundingDeadline : Nat, biddingEndsAt : Nat, deliveryDeadline : Nat, winningBid : Nat, platformFee : Nat]

Types ==
  /\ now \in Nat /\ now <= Horizon /\ paused \in BOOLEAN
  /\ pools \in [Pools -> Row] /\ bids \in [Pools -> SUBSET Prices]
  /\ stake \in [Pools -> [Users -> {0} \cup Budgets]]
  /\ hasConfirmed \in [Pools -> SUBSET Users] /\ hasWithdrawn \in [Pools -> SUBSET Users]
  /\ refundClaimed \in [Pools -> SUBSET Users]
  /\ refundPending \subseteq Pools /\ resolved \subseteq Pools
  /\ penalty \in [Pools -> Nat] /\ money \in Nat
  /\ refunded \in [Pools -> [Users -> Nat]] /\ paid \in [Pools -> Nat]
  /\ withheld \in Nat /\ overpaid \in Nat

LEMMA TypesAreTypeOK == TypeOK <=> Types
<1>1. now \in 0..Horizon <=> now \in Nat /\ now <= Horizon
  BY JointOrderAssumption
<1>2. QED
  BY <1>1 DEF TypeOK, Types, Row, Statuses

LEMMA TypesAreTypeOKNext == TypeOK' <=> Types'
  BY TypesAreTypeOK, PTL

LEMMA Constants ==
  /\ Funding \in Nat /\ Bidding \in Nat /\ Delivery \in Nat /\ Timeout \in Nat /\ Horizon \in Nat
  /\ Budgets \subseteq Nat \ {0} /\ Prices \subseteq Nat \ {0}
  BY JointOrderAssumption

\* A new status leaves the rest of a row alone.
LEMMA RowUpdate ==
  ASSUME NEW r \in Row, NEW s \in Statuses
  PROVE  /\ [r EXCEPT !.status = s] \in Row
         /\ [r EXCEPT !.status = s].status = s
         /\ [r EXCEPT !.status = s].winningBid = r.winningBid
         /\ [r EXCEPT !.status = s].platformFee = r.platformFee
  BY DEF Row

LEMMA BecomesStatus ==
  ASSUME Types, NEW p \in Pools, NEW s \in Statuses, Becomes(p, s)
  PROVE  /\ pools' \in [Pools -> Row] /\ \A q \in Pools \ {p} : pools'[q] = pools[q]
         /\ pools'[p].status = s
         /\ pools'[p].winningBid = pools[p].winningBid /\ pools'[p].platformFee = pools[p].platformFee
<1>1. pools[p] \in Row
  BY DEF Types
<1>2. pools' = [pools EXCEPT ![p] = [pools[p] EXCEPT !.status = s]]
  BY DEF Becomes
<1>3. QED
  BY <1>1, <1>2, RowUpdate DEF Types

\* A stake is an amount, and that of a participant is not 0.
LEMMA StakeType ==
  ASSUME Types, NEW p \in Pools, NEW u \in Users
  PROVE  stake[p][u] \in Nat /\ (u \in Joined(p) <=> stake[p][u] # 0)
<1>1. stake[p] \in [Users -> {0} \cup Budgets]
  BY DEF Types
<1>2. stake[p][u] \in {0} \cup Budgets
  BY <1>1
<1>3. stake[p][u] \in Nat
  <2>1. \A x \in Budgets : x \in Nat
    BY Constants
  <2>2. QED
    BY <1>2, <2>1
<1>4. QED
  BY <1>3 DEF Joined

(***************************************************************************)
(* What one pool owes                                                      *)
(***************************************************************************)
Debt(p) ==
  IF Status(p, "completed")
  THEN IF p \in resolved \/ pools[p].winningBid = 0 THEN 0 ELSE pools[p].winningBid - pools[p].platformFee
  ELSE IF Status(p, "disputed") THEN Held(p) + penalty[p] ELSE Held(p)

LEMMA OwedIsDebt == \A p : Owed(p) = Debt(p)
<1> SUFFICES ASSUME NEW p PROVE Owed(p) = Debt(p)
  OBVIOUS
<1>1. CASE Status(p, "completed") /\ p \in resolved
  BY <1>1 DEF Owed, Debt, Status
<1>2. CASE Status(p, "completed") /\ p \notin resolved
  BY <1>2 DEF Owed, Debt, Status
<1>3. CASE Status(p, "disputed")
  BY <1>3 DEF Owed, Debt, Status, Held
<1>4. CASE ~Status(p, "completed") /\ ~Status(p, "disputed")
  BY <1>4 DEF Owed, Debt, Held
<1>5. QED
  BY <1>1, <1>2, <1>3, <1>4

LEMMA OwedIsDebtNext == (\A p : Owed(p) = Debt(p))'
  BY OwedIsDebt, PTL

\* Budgets add up to amounts.
LEMMA HeldType == TypeOK => \A p \in Pools : PoolOf(p) => Held(p) \in Nat /\ TotalBudget(p) \in Nat /\ Debt(p) \in Int
<1> SUFFICES ASSUME TypeOK, NEW p \in Pools, PoolOf(p)
             PROVE  Held(p) \in Nat /\ TotalBudget(p) \in Nat /\ Debt(p) \in Int
  OBVIOUS
<1>1. IsFiniteSet(Joined(p)) /\ \A u \in Joined(p) : stake[p][u] \in Nat
  BY JointOrderAssumption DEF PoolOf, TypeOK, Joined
<1>2. TotalBudget(p) \in Nat
  <2> DEFINE f == [u \in Joined(p) |-> stake[p][u]]
  <2>1. DOMAIN f = Joined(p) /\ \A u \in Joined(p) : f[u] = stake[p][u]
    OBVIOUS
  <2> HIDE DEF f
  <2>2. SumFunction(f) \in Nat
    BY <1>1, <2>1, SumFunctionNat
  <2>3. QED
    BY <2>2 DEF f, TotalBudget
<1>3. Held(p) \in Nat
  <2> DEFINE f == [u \in Joined(p) \ hasWithdrawn[p] |-> stake[p][u]]
  <2>1. DOMAIN f = Joined(p) \ hasWithdrawn[p] /\ \A u \in DOMAIN f : f[u] = stake[p][u]
    OBVIOUS
  <2>2. IsFiniteSet(DOMAIN f)
    BY <1>1, <2>1, FS_Subset
  <2> HIDE DEF f
  <2>3. SumFunction(f) \in Nat
    BY <1>1, <2>1, <2>2, SumFunctionNat
  <2>4. QED
    BY <2>3 DEF f, Held
<1>4. QED
  BY <1>2, <1>3 DEF Debt, TypeOK

LEMMA HeldTypeNext ==
  TypeOK' => (\A p \in Pools : PoolOf(p) => Held(p) \in Nat /\ TotalBudget(p) \in Nat /\ Debt(p) \in Int)'
  BY HeldType, PTL

\* Before anything went back all of the budget is held.
LEMMA HeldAll ==
  ASSUME NEW p, hasWithdrawn[p] = {}
  PROVE  Held(p) = TotalBudget(p)
<1>1. Joined(p) \ hasWithdrawn[p] = Joined(p)
  OBVIOUS
<1>2. QED
  BY <1>1 DEF Held, TotalBudget

\* Both depend on who put in what, and on who took it back.
LEMMA SameBudget ==
  ASSUME NEW p, stake'[p] = stake[p], hasWithdrawn'[p] = hasWithdrawn[p]
  PROVE  Joined(p)' = Joined(p) /\ Held(p)' = Held(p) /\ TotalBudget(p)' = TotalBudget(p)
<1>1. Joined(p)' = Joined(p)
  BY DEF Joined
<1>2. QED
  BY <1>1 DEF Held, TotalBudget

(***************************************************************************)
(* A step changes one pool                                                 *)
(***************************************************************************)
Same(q) ==
  /\ pools'[q] = pools[q] /\ bids'[q] = bids[q] /\ stake'[q] = stake[q]
  /\ hasWithdrawn'[q] = hasWithdrawn[q] /\ refunded'[q] = refunded[q]
  /\ paid'[q] = paid[q] /\ penalty'[q] = penalty[q]
  /\ (q \in refundPending' <=> q \in refundPending) /\ (q \in resolved' <=> q \in resolved)

LEMMA SamePool ==
  ASSUME NEW q, Same(q)
  PROVE  /\ PoolOf(q)' <=> PoolOf(q)
         /\ Debt(q)' = Debt(q)
         /\ Status(q, "absent")' <=> Status(q, "absent")
<1>1. Joined(q)' = Joined(q) /\ Held(q)' = Held(q) /\ TotalBudget(q)' = TotalBudget(q)
  BY SameBudget DEF Same
<1>2. PoolOf(q)' <=> PoolOf(q)
  BY <1>1 DEF Same, PoolOf, Limit, Status
<1>3. QED
  BY <1>1, <1>2 DEF Same, Debt, Status

\* A pool that is not open holds nothing.
LEMMA AbsentHoldsNothing ==
  ASSUME NEW p, Joined(p) = {}
  PROVE  Held(p) = 0
<1> DEFINE f == [u \in Joined(p) \ hasWithdrawn[p] |-> stake[p][u]]
<1>1. DOMAIN f = {}
  OBVIOUS
<1> HIDE DEF f
<1>2. SumFunction(f) = 0
  BY <1>1, SumDomain, SumEmpty
<1>3. QED
  BY <1>2 DEF f, Held

\* It keeps the invariant if the money moves with the debt of that pool.
LEMMA OnePool ==
  ASSUME IInv, TypeOK', NEW p \in Pools, \A q \in Pools \ {p} : Same(q),
         PoolOf(p)', ~Status(p, "absent")', Backing' - Backing >= Debt(p)' - Debt(p)
  PROVE  IInv'
<1> DEFINE f == [q \in Opened |-> Owed(q)]
           g == [q \in Opened' |-> Owed(q)']
<1>1. Opened' = Opened \cup {p} /\ Opened \subseteq Pools
  BY SamePool DEF Opened
<1>2. \A q \in Pools \ {p} : PoolOf(q)' /\ Debt(q)' = Debt(q)
  BY SamePool DEF IInv
<1>3. \A q \in Pools : PoolOf(q) /\ PoolOf(q)' /\ Debt(q) \in Int /\ Debt(q)' \in Int
  BY <1>2, HeldType, HeldTypeNext DEF IInv
<1>4. IsFiniteSet(Opened) /\ IsFiniteSet(Opened')
  BY <1>1, FS_AddElement DEF IInv
<1>5. /\ DOMAIN f = Opened /\ DOMAIN g = Opened'
      /\ \A q \in Opened : f[q] = Debt(q) /\ f[q] \in Int
      /\ \A q \in Opened' : g[q] = Debt(q)' /\ g[q] \in Int
      /\ \A q \in Opened \ {p} : g[q] = f[q]
  BY <1>1, <1>2, <1>3, OwedIsDebt, OwedIsDebtNext
<1>6. Covered <=> Backing >= SumFunction(f)
  BY DEF Covered, Opened, Backing
<1>7. Covered' <=> Backing' >= SumFunction(g)
  BY DEF Covered, Opened, Backing
<1> HIDE DEF f, g
<1>8. SumFunction(g) = SumFunction(f) + Debt(p)' - Debt(p) /\ SumFunction(f) \in Int
  <2>1. SumFunction(f) \in Int
    BY <1>4, <1>5, SumDomain, SumType
  <2>2. CASE p \in Opened
    <3>1. Opened' = Opened
      BY <1>1, <2>2
    <3>2. SumFunction(g) = SumFunction(f) + g[p] - f[p]
      BY <1>4, <1>5, <2>2, <3>1, SumFunctionChange
    <3>3. QED
      BY <1>5, <2>1, <2>2, <3>1, <3>2
  <2>3. CASE p \notin Opened
    <3>1. SumFunction(g) = SumFunction(f) + g[p]
      BY <1>1, <1>4, <1>5, <2>3, SumFunctionGrows
    <3>2. Debt(p) = 0
      <4>1. Status(p, "absent") /\ Joined(p) = {}
        BY <1>3, <2>3 DEF Opened, PoolOf
      <4>2. QED
        BY <4>1, AbsentHoldsNothing DEF Debt, Status
    <3>3. QED
      BY <1>1, <1>3, <1>5, <2>1, <3>1, <3>2
  <2>4. QED
    BY <2>2, <2>3
<1>9. Covered'
  <2>1. Backing >= SumFunction(f)
    BY <1>6 DEF IInv
  <2>2. Backing \in Int /\ Backing' \in Int
    BY DEF IInv, TypeOK, Backing
  <2>3. QED
    BY <1>3, <1>7, <1>8, <2>1, <2>2
<1>10. QED
  BY <1>3, <1>4, <1>9 DEF IInv

\* A step that changes no pool, nor the balance.
LEMMA NoPool ==
  ASSUME IInv, TypeOK', \A q \in Pools : Same(q), UNCHANGED <<money, withheld, overpaid>>
  PROVE  IInv'
<1>1. Opened' = Opened
  BY SamePool DEF Opened
<1>2. \A q \in Pools : PoolOf(q)' /\ Owed(q)' = Owed(q)
  BY SamePool, OwedIsDebt, OwedIsDebtNext DEF IInv
<1>3. [q \in Opened |-> Owed(q)]' = [q \in Opened |-> Owed(q)]
  BY <1>1, <1>2 DEF Opened
<1>4. Covered'
  BY <1>2, <1>3 DEF IInv, Covered, Opened
<1>5. QED
  BY <1>1, <1>2, <1>4 DEF IInv

(***************************************************************************)
(* The transactions                                                        *)
(***************************************************************************)
LEMMA InitIInv == Init => IInv
<1> SUFFICES ASSUME Init PROVE IInv
  OBVIOUS
<1>1. TypeOK
  <2>1. Blank \in Row
    BY DEF Blank, Row, Statuses
  <2>2. /\ stake \in [Pools -> [Users -> {0} \cup Budgets]] /\ refunded \in [Pools -> [Users -> Nat]]
        /\ hasConfirmed \in [Pools -> SUBSET Users] /\ hasWithdrawn = hasConfirmed /\ refundClaimed = hasConfirmed
    BY DEF Init
  <2>3. /\ now \in Nat /\ now <= Horizon /\ paused \in BOOLEAN
        /\ pools \in [Pools -> Row] /\ bids \in [Pools -> SUBSET Prices]
        /\ refundPending \subseteq Pools /\ resolved \subseteq Pools /\ money \in Nat
    <3>1. pools \in [Pools -> Row] /\ bids \in [Pools -> SUBSET Prices]
      BY <2>1 DEF Init
    <3>2. now \in Nat /\ now <= Horizon /\ paused \in BOOLEAN /\ money \in Nat
      <4>1. now = 0 /\ paused = FALSE /\ money = 0
        BY DEF Init
      <4>2. QED
        <5>1. 0 <= Horizon
          BY Constants
        <5>2. QED
          BY <4>1, <5>1
    <3>3. QED
      BY <3>1, <3>2 DEF Init
  <2>4. penalty \in [Pools -> Nat] /\ paid \in [Pools -> Nat] /\ withheld \in Nat /\ overpaid \in Nat
    BY DEF Init
  <2>6. Types
    BY <2>2, <2>3, <2>4 DEF Types
  <2>5. QED
    BY <2>6, TypesAreTypeOK
<1>2. Opened = {}
  BY DEF Init, Opened, Status, Blank
<1>3. \A p \in Pools : Joined(p) = {}
  BY DEF Init, Joined
<1>4. \A p \in Pools : PoolOf(p)
  <2> SUFFICES ASSUME NEW p \in Pools PROVE PoolOf(p)
    OBVIOUS
  <2>1. /\ pools[p].status = "absent" /\ bids[p] = {} /\ hasWithdrawn[p] = {} /\ refundPending = {} /\ resolved = {}
        /\ paid[p] = 0 /\ \A u \in Users : refunded[p][u] = 0 /\ stake[p][u] = 0
    BY DEF Init, Blank
  <2>2. QED
    BY <1>3, <2>1, FS_EmptySet DEF PoolOf, Status
<1>5. Covered
  <2> DEFINE f == [q \in Opened |-> Owed(q)]
  <2>1. DOMAIN f = {} /\ (Covered <=> money + withheld + overpaid >= SumFunction(f))
    BY <1>2 DEF Covered, Opened
  <2> HIDE DEF f
  <2>2. SumFunction(f) = 0
    BY <2>1, SumDomain, SumEmpty
  <2>3. QED
    BY <2>1, <2>2 DEF Init
<1>6. QED
  BY <1>1, <1>2, <1>4, <1>5, FS_EmptySet DEF IInv

LEMMA CreatePoolIInv ==
  ASSUME IInv, NEW p \in Pools, CreatePool(p)
  PROVE  IInv'
<1>0. Types
  BY TypesAreTypeOK DEF IInv
<1>1. TypeOK'
  <2>1. [Blank EXCEPT !.status = "created", !.fundingDeadline = now + Funding,
                      !.biddingEndsAt = now + Funding + Bidding, !.deliveryDeadline = now + Delivery] \in Row
    <3>1. now \in Nat /\ now + Funding \in Nat /\ now + Funding + Bidding \in Nat /\ now + Delivery \in Nat
      BY <1>0, Constants DEF Types
    <3>2. QED
      BY <3>1 DEF Blank, Row, Statuses
  <2>2. Types'
    BY <1>0, <2>1 DEF CreatePool, Types, claims, dispute, history
  <2>3. QED
    BY <2>2, TypesAreTypeOKNext
<1>2. \A q \in Pools \ {p} : Same(q)
  BY DEF CreatePool, IInv, TypeOK, Same, claims, dispute, history
<1>3. /\ pools[p].status = "absent" /\ pools'[p].status = "created"
      /\ money' = money /\ stake' = stake /\ hasWithdrawn' = hasWithdrawn
      /\ UNCHANGED <<refundPending, resolved, bids, refunded, paid, penalty>>
  BY DEF CreatePool, Status, Blank, IInv, TypeOK, claims, dispute, history
<1>4. Joined(p)' = Joined(p) /\ Held(p)' = Held(p) /\ TotalBudget(p)' = TotalBudget(p)
  BY <1>3, SameBudget
<1>5. PoolOf(p)
  BY DEF IInv
<1>6. PoolOf(p)'
  BY <1>3, <1>4, <1>5 DEF PoolOf, Status
<1>7. Debt(p)' = Debt(p) /\ ~Status(p, "absent")'
  BY <1>3, <1>4 DEF Debt, Status
<1>8. Debt(p) \in Int /\ Backing \in Int /\ Backing' = Backing
  BY <1>5, HeldType DEF IInv, TypeOK, Backing, CreatePool, history
<1>9. QED
  BY <1>1, <1>2, <1>6, <1>7, <1>8, OnePool

\* What arrives and what the token keeps are together what was sent.
LEMMA ReceiveEffect ==
  ASSUME TypeOK, NEW x \in Nat, Receive(x)
  PROVE  money' \in Nat /\ withheld' \in Nat /\ money' + withheld' = money + withheld + x
<1>1. PICK t \in {0, Tax(x)} : money' = money + (x - t) /\ withheld' = withheld + t
  BY DEF Receive
<1>2. t \in Nat /\ t <= x
  <2>1. Tax(x) \in Nat /\ Tax(x) <= x
    BY DEF Tax
  <2>2. QED
    BY <2>1
<1>3. money \in Nat /\ withheld \in Nat
  BY DEF TypeOK
<1>4. QED
  BY <1>1, <1>2, <1>3

LEMMA JoinPoolIInv ==
  ASSUME IInv, NEW p \in Pools, NEW u \in Users, NEW x \in Budgets, JoinPool(p, u, x)
  PROVE  IInv'
<1>0. x \in Nat /\ x > 0 /\ u \notin Joined(p) /\ pools[p].status = "created" /\ Types
  BY JointOrderAssumption, TypesAreTypeOK DEF JoinPool, Status, IInv
<1>1. /\ pools' \in [Pools -> Row] /\ pools'[p].status \in {"created", "funded"}
      /\ \A q \in Pools \ {p} : pools'[q] = pools[q]
  <2>1. CASE Becomes(p, "funded")
    BY <1>0, <2>1, BecomesStatus DEF Statuses
  <2>2. CASE UNCHANGED pools
    BY <1>0, <2>2 DEF Types
  <2>3. QED
    BY <2>1, <2>2 DEF JoinPool
<1>2. TypeOK'
  <2>1. money' \in Nat /\ withheld' \in Nat
    BY <1>0, ReceiveEffect DEF JoinPool, IInv
  <2>2. Types'
    BY <1>0, <1>1, <2>1 DEF JoinPool, Types, claims, dispute
  <2>3. QED
    BY <2>2, TypesAreTypeOKNext
<1>3. \A q \in Pools \ {p} : Same(q)
  BY <1>1 DEF JoinPool, IInv, TypeOK, Same, claims, dispute
<1>4. /\ stake'[p][u] = x /\ \A v \in Users \ {u} : stake'[p][v] = stake[p][v]
      /\ overpaid' = overpaid /\ hasWithdrawn' = hasWithdrawn /\ stake[p][u] = 0
      /\ UNCHANGED <<refundPending, resolved, bids, refunded, paid, penalty>>
  <2>1. stake[p][u] = 0
    BY <1>0, StakeType
  <2>2. stake' = [stake EXCEPT ![p][u] = x]
    BY DEF JoinPool
  <2>3. stake'[p][u] = x /\ \A v \in Users \ {u} : stake'[p][v] = stake[p][v]
    BY <1>0, <2>2 DEF Types
  <2>4. QED
    BY <2>1, <2>3 DEF JoinPool, claims, dispute
<1>5. PoolOf(p) /\ hasWithdrawn[p] = {} /\ hasWithdrawn'[p] = {}
  BY <1>0, <1>4 DEF IInv, PoolOf
<1>6. Joined(p)' = Joined(p) \cup {u}
  BY <1>0, <1>4, JointOrderAssumption DEF Joined
<1>7. TotalBudget(p)' = TotalBudget(p) + x
  <2> DEFINE f == [v \in Joined(p) |-> stake[p][v]]
             g == [v \in Joined(p)' |-> stake'[p][v]]
  <2>1. /\ DOMAIN f = Joined(p) /\ DOMAIN g = Joined(p) \cup {u} /\ g[u] = x
        /\ \A v \in Joined(p) : g[v] = f[v] /\ f[v] \in Int
    <3>1. u \notin Joined(p) /\ \A v \in Joined(p) : v \in Users /\ stake[p][v] \in Int /\ stake'[p][v] = stake[p][v]
      BY <1>0, <1>4, StakeType DEF Joined
    <3>2. QED
      BY <1>4, <1>6, <3>1
  <2>2. TotalBudget(p) = SumFunction(f) /\ TotalBudget(p)' = SumFunction(g)
    BY DEF TotalBudget
  <2> HIDE DEF f, g
  <2>3. SumFunction(g) = SumFunction(f) + g[u]
    BY <1>0, <1>5, <2>1, SumFunctionGrows DEF PoolOf
  <2>4. QED
    BY <2>1, <2>2, <2>3
<1>8. Held(p)' = Held(p) + x /\ Held(p) \in Nat
  <2>1. Held(p) = TotalBudget(p)
    BY <1>5, HeldAll
  <2>2. Held(p)' = TotalBudget(p)'
    <3>1. (hasWithdrawn[p] = {} => Held(p) = TotalBudget(p))'
      <4>1. (Joined(p) \ hasWithdrawn[p])' = Joined(p)'
        BY <1>5
      <4>2. QED
        BY <4>1 DEF Held, TotalBudget
    <3>2. QED
      BY <1>5, <3>1
  <2>3. QED
    BY <1>5, <1>7, <2>1, <2>2, HeldType DEF IInv
<1>9. PoolOf(p)'
  <2>1. IsFiniteSet(Joined(p)')
    BY <1>5, <1>6, FS_AddElement DEF PoolOf
  <2>2. \A b \in bids'[p] : b <= TotalBudget(p)'
    <3>1. \A b \in bids[p] : b \in Nat
      BY JointOrderAssumption DEF IInv, TypeOK
    <3>2. TotalBudget(p) \in Nat
      BY <1>5, HeldType DEF IInv
    <3>3. QED
      BY <1>0, <1>4, <1>5, <1>7, <3>1, <3>2 DEF PoolOf
  <2>3. QED
    BY <1>0, <1>1, <1>4, <1>5, <2>1, <2>2 DEF PoolOf, Status
<1>10. Debt(p)' = Debt(p) + x /\ ~Status(p, "absent")' /\ Debt(p) \in Int
  BY <1>0, <1>1, <1>8 DEF Debt, Status
<1>11. Backing' - Backing >= Debt(p)' - Debt(p)
  <2>1. money' \in Nat /\ withheld' \in Nat /\ money' + withheld' = money + withheld + x
    BY <1>0, ReceiveEffect DEF JoinPool, IInv
  <2>2. money \in Nat /\ withheld \in Nat /\ overpaid \in Nat
    BY DEF IInv, TypeOK
  <2>3. overpaid' = overpaid
    BY <1>4
  <2>4. x \in Nat
    BY <1>0
  <2>5. Backing' = money' + withheld' + overpaid /\ Backing = money + withheld + overpaid
    BY <2>3 DEF Backing
  <2>6. Backing \in Nat
    BY <2>2, <2>5
  <2>7. Backing' = Backing + x
    <3>1. money' + withheld' = money + withheld + x
      BY <2>1
    <3>2. Backing' = money + withheld + x + overpaid
      BY <2>5, <3>1
    <3>3. money + withheld + x + overpaid = money + withheld + overpaid + x
      BY <2>2, <2>4
    <3>4. QED
      BY <2>5, <3>2, <3>3
  <2>8. Debt(p)' = Debt(p) + x /\ Debt(p) \in Int
    BY <1>10
  <2>9. QED
    BY <2>4, <2>6, <2>7, <2>8
<1>12. QED
  BY <1>2, <1>3, <1>9, <1>10, <1>11, OnePool

\* What a pool is at the start of a step on it.
LEMMA PoolFacts ==
  ASSUME IInv, NEW p \in Pools
  PROVE  /\ Types /\ PoolOf(p) /\ Held(p) \in Nat /\ TotalBudget(p) \in Nat /\ Debt(p) \in Int
         /\ pools[p] \in Row /\ pools[p].winningBid \in Nat /\ pools[p].platformFee \in Nat
         /\ penalty[p] \in Nat /\ paid[p] \in Nat /\ money \in Nat /\ withheld \in Nat /\ overpaid \in Nat
         /\ hasWithdrawn[p] = {} => Held(p) = TotalBudget(p)
<1>1. Types
  BY TypesAreTypeOK DEF IInv
<1>2. PoolOf(p) /\ Held(p) \in Nat /\ TotalBudget(p) \in Nat /\ Debt(p) \in Int
  BY HeldType DEF IInv
<1>3. pools[p] \in Row /\ penalty[p] \in Nat /\ paid[p] \in Nat /\ money \in Nat /\ withheld \in Nat /\ overpaid \in Nat
  BY <1>1 DEF Types
<1>4. pools[p].winningBid \in Nat /\ pools[p].platformFee \in Nat
  BY <1>3 DEF Row
<1>5. QED
  BY <1>1, <1>2, <1>3, <1>4, HeldAll

\* A step that takes no budget and gives none back: what is left to show is
\* where the pool stands, and that the money moves with its debt.
LEMMA BooksStep ==
  ASSUME IInv, TypeOK', NEW p \in Pools, UNCHANGED <<stake, bids, hasWithdrawn, refunded>>,
         \A q \in Pools \ {p} :
           /\ pools'[q] = pools[q] /\ paid'[q] = paid[q] /\ penalty'[q] = penalty[q]
           /\ (q \in refundPending' <=> q \in refundPending) /\ (q \in resolved' <=> q \in resolved),
         pools'[p].status # "absent",
         hasWithdrawn[p] # {} \/ p \in refundPending' => pools'[p].status \in {"cancelled", "expired"},
         p \in resolved' => pools'[p].status \in {"cancelled", "completed"},
         pools'[p].status \in {"in_progress", "disputed"} =>
           pools'[p].winningBid <= TotalBudget(p) /\ pools'[p].platformFee <= pools'[p].winningBid,
         paid'[p] > 0 => pools'[p].status = "completed",
         pools'[p].status = "completed" =>
           paid'[p] + pools'[p].winningBid
             <= penalty'[p] + TotalBudget(p) + (IF p \in resolved' THEN TotalBudget(p) ELSE 0),
         Held(p)' = Held(p) => Backing' - Backing >= Debt(p)' - Debt(p)
  PROVE  IInv'
<1>1. Joined(p)' = Joined(p) /\ Held(p)' = Held(p) /\ TotalBudget(p)' = TotalBudget(p)
  BY SameBudget
<1>2. \A q \in Pools \ {p} : Same(q)
  BY DEF Same
<1>3. PoolOf(p)
  BY DEF IInv
<1>4. PoolOf(p)'
  BY <1>1, <1>3 DEF PoolOf, Limit, Status
<1>5. ~Status(p, "absent")'
  BY DEF Status
<1>6. QED
  BY <1>1, <1>2, <1>4, <1>5, OnePool

LEMMA SubmitBidIInv ==
  ASSUME IInv, NEW p \in Pools, NEW x \in Prices, SubmitBid(p, x)
  PROVE  IInv'
<1>1. /\ bids' = [bids EXCEPT ![p] = @ \cup {x}] /\ x <= TotalBudget(p) /\ pools[p].status = "funded"
      /\ UNCHANGED <<now, paused, pools, stake, claims, refundPending, dispute, money, history>>
  BY DEF SubmitBid, ValidPrice, Status
<1>2. TypeOK'
  <2>1. Types'
    BY <1>1, PoolFacts DEF Types, claims, dispute, history
  <2>2. QED
    BY <2>1, TypesAreTypeOKNext
<1>3. \A q \in Pools \ {p} : Same(q)
  BY <1>1, PoolFacts DEF Types, Same, claims, dispute, history
<1>4. Joined(p)' = Joined(p) /\ Held(p)' = Held(p) /\ TotalBudget(p)' = TotalBudget(p)
  BY <1>1, SameBudget DEF claims
<1>5. bids'[p] = bids[p] \cup {x} /\ PoolOf(p)
  BY <1>1, PoolFacts DEF Types
<1>6. PoolOf(p)'
  BY <1>1, <1>4, <1>5 DEF PoolOf, Status, claims, dispute, history
<1>7. Debt(p)' = Debt(p) /\ ~Status(p, "absent")'
  BY <1>1, <1>4 DEF Debt, Status, dispute
<1>8. Backing' - Backing >= Debt(p)' - Debt(p)
  BY <1>1, <1>7, PoolFacts DEF Backing, history
<1>9. QED
  BY <1>2, <1>3, <1>6, <1>7, <1>8, OnePool

\* A fee is an amount, and less than the price.
LEMMA FeeIsPart == \A x \in Nat : Fee(x) \in Nat /\ Fee(x) <= x
  BY DEF Fee

LEMMA DepositIsAmount == \A x \in Nat : Deposit(x) \in Nat
  BY DEF Deposit

LEMMA AwardPoolIInv ==
  ASSUME IInv, NEW p \in Pools, NEW x \in Prices, AwardPool(p, x)
  PROVE  IInv'
<1> DEFINE r == [pools[p] EXCEPT !.status = "in_progress", !.winningBid = x, !.platformFee = Fee(x)]
<1>1. /\ pools' = [pools EXCEPT ![p] = r] /\ pools[p].status = "funded" /\ x \in bids[p]
      /\ UNCHANGED <<now, paused, bids, stake, claims, refundPending, dispute, money, history>>
  BY DEF AwardPool, Status
<1>2. x \in Nat /\ Fee(x) \in Nat /\ Fee(x) <= x
  BY FeeIsPart, Constants
<1>3. r \in Row /\ r.status = "in_progress" /\ r.winningBid = x /\ r.platformFee = Fee(x)
  BY <1>2, PoolFacts DEF Row, Statuses
<1>4. pools' \in [Pools -> Row] /\ pools'[p] = r /\ \A q \in Pools \ {p} : pools'[q] = pools[q]
  BY <1>1, <1>3, PoolFacts DEF Types
<1> HIDE DEF r
<1>5. TypeOK'
  <2>1. Types'
    BY <1>1, <1>4, PoolFacts DEF Types, claims, dispute, history
  <2>2. QED
    BY <2>1, TypesAreTypeOKNext
<1>6. x <= TotalBudget(p) /\ hasWithdrawn[p] = {} /\ p \notin refundPending /\ p \notin resolved /\ ~(paid[p] > 0)
  BY <1>1, PoolFacts DEF PoolOf, Status
<1>7. Backing' = Backing /\ Backing \in Int /\ (Held(p)' = Held(p) => Debt(p)' = Debt(p))
  BY <1>1, <1>3, <1>4, PoolFacts DEF Backing, Debt, Status, history
<1>8. QED
  BY <1>1, <1>2, <1>3, <1>4, <1>5, <1>6, <1>7, PoolFacts, BooksStep DEF claims, dispute, history

LEMMA ConfirmDeliveryIInv ==
  ASSUME IInv, NEW p \in Pools, NEW u \in Users, ConfirmDelivery(p, u)
  PROVE  IInv'
<1>1. /\ pools[p].status = "in_progress"
      /\ hasConfirmed' \in [Pools -> SUBSET Users]
      /\ UNCHANGED <<now, paused, bids, stake, hasWithdrawn, refundClaimed, refundPending, dispute, history>>
  BY PoolFacts DEF ConfirmDelivery, Status, Types, Joined
<1>2. CASE UNCHANGED <<pools, money>>
  <2>1. Types'
    BY <1>1, <1>2, PoolFacts DEF Types, dispute, history
  <2>2. \A q \in Pools : Same(q)
    BY <1>1, <1>2 DEF Same, dispute, history
  <2>3. QED
    BY <1>1, <1>2, <2>1, <2>2, TypesAreTypeOKNext, NoPool DEF history
<1>3. CASE CompletePool(p)
  <2>1. /\ pools' \in [Pools -> Row] /\ \A q \in Pools \ {p} : pools'[q] = pools[q]
        /\ pools'[p].status = "completed"
        /\ pools'[p].winningBid = pools[p].winningBid /\ pools'[p].platformFee = pools[p].platformFee
    BY <1>3, PoolFacts, BecomesStatus DEF CompletePool, Statuses
  <2>2. money' = money - pools[p].platformFee /\ money' \in Nat
    BY <1>3, PoolFacts DEF CompletePool
  <2>3. TypeOK'
    <3>1. Types'
      BY <1>1, <2>1, <2>2, PoolFacts DEF Types, dispute, history
    <3>2. QED
      BY <3>1, TypesAreTypeOKNext
  <2>4. /\ hasWithdrawn[p] = {} /\ p \notin refundPending /\ p \notin resolved
        /\ pools[p].winningBid <= TotalBudget(p) /\ pools[p].platformFee <= pools[p].winningBid
        /\ paid[p] = 0
    BY <1>1, PoolFacts DEF PoolOf, Status
  <2>5. Debt(p) = Held(p) /\ Held(p) = TotalBudget(p)
    BY <1>1, <2>4, PoolFacts DEF Debt, Status
  <2>6. Debt(p)' <= pools[p].winningBid - pools[p].platformFee
    BY <1>1, <2>1, <2>4, PoolFacts DEF Debt, Status, dispute
  <2>7. Debt(p)' \in Int
    BY <2>1, <2>4, <1>1, PoolFacts DEF Debt, Status, dispute
  <2>8. Backing' - Backing >= Debt(p)' - Debt(p)
    <3>1. Backing' - Backing = money' - money
      BY <1>1, <2>2, PoolFacts DEF Backing, history
    <3>2. QED
      BY <2>2, <2>4, <2>5, <2>6, <2>7, <3>1, PoolFacts
  <2>9. paid'[p] + pools'[p].winningBid
          <= penalty'[p] + TotalBudget(p) + (IF p \in resolved' THEN TotalBudget(p) ELSE 0)
    BY <1>1, <2>1, <2>4, PoolFacts DEF dispute, history
  <2>10. QED
    BY <1>1, <2>1, <2>3, <2>4, <2>5, <2>8, <2>9, BooksStep DEF dispute, history
<1>4. QED
  BY <1>2, <1>3 DEF ConfirmDelivery

LEMMA WithdrawEarningsIInv ==
  ASSUME IInv, NEW p \in Pools, WithdrawEarnings(p)
  PROVE  IInv'
<1> DEFINE payout == pools[p].winningBid - pools[p].platformFee
           r == [pools[p] EXCEPT !.winningBid = 0]
<1>1. /\ pools[p].status = "completed" /\ payout \in Nat /\ payout <= money /\ payout <= pools[p].winningBid
      /\ pools' = [pools EXCEPT ![p] = r]
      /\ money' = money - payout /\ paid' = [paid EXCEPT ![p] = @ + payout]
      /\ overpaid' = IF p \in resolved THEN overpaid + payout ELSE overpaid
      /\ UNCHANGED <<now, paused, bids, stake, claims, refundPending, dispute, refunded, withheld>>
  BY PoolFacts DEF WithdrawEarnings, Payable, Status
<1>2. r \in Row /\ r.status = "completed" /\ r.winningBid = 0
  BY <1>1, PoolFacts DEF Row
<1>3. pools' \in [Pools -> Row] /\ pools'[p] = r /\ \A q \in Pools \ {p} : pools'[q] = pools[q]
  BY <1>1, <1>2, PoolFacts DEF Types
<1>4. /\ paid' \in [Pools -> Nat] /\ paid'[p] = paid[p] + payout
      /\ \A q \in Pools \ {p} : paid'[q] = paid[q]
  BY <1>1, PoolFacts DEF Types
<1>5. TypeOK'
  <2>1. money' \in Nat /\ overpaid' \in Nat
    BY <1>1, PoolFacts
  <2>2. Types'
    BY <1>1, <1>3, <1>4, <2>1, PoolFacts DEF Types, claims, dispute
  <2>3. QED
    BY <2>2, TypesAreTypeOKNext
<1>6. hasWithdrawn[p] = {} /\ p \notin refundPending
  BY <1>1, PoolFacts DEF PoolOf
<1>7. Debt(p)' = 0
  BY <1>2, <1>3 DEF Debt, Status
<1>8. p \in resolved => Debt(p) = 0 /\ Backing' = Backing /\ Backing \in Int
  <2>1. p \in resolved => Debt(p) = 0
    BY <1>1 DEF Debt, Status
  <2> HIDE DEF payout
  <2>2. QED
    BY <1>1, <2>1, PoolFacts DEF Backing
<1>9. p \notin resolved => Backing' = Backing - payout /\ Backing \in Int /\ Debt(p) = payout
  <2>1. p \notin resolved /\ pools[p].winningBid # 0 => Debt(p) = payout
    BY <1>1 DEF Debt, Status
  <2>2. pools[p].winningBid = 0 => payout = 0 /\ Debt(p) = 0
    BY <1>1, PoolFacts DEF Debt, Status
  <2> HIDE DEF payout
  <2>3. p \notin resolved => Backing' = Backing - payout /\ Backing \in Int
    BY <1>1, PoolFacts DEF Backing
  <2>4. QED
    BY <2>1, <2>2, <2>3
<1>10. Backing' - Backing >= Debt(p)' - Debt(p)
  <2> HIDE DEF payout
  <2>1. CASE p \in resolved
    BY <1>7, <1>8, <2>1
  <2>2. CASE p \notin resolved
    BY <1>1, <1>7, <1>9, <2>2
  <2>3. QED
    BY <2>1, <2>2
<1>11. paid'[p] + pools'[p].winningBid
         <= penalty'[p] + TotalBudget(p) + (IF p \in resolved' THEN TotalBudget(p) ELSE 0)
  <2>1. paid[p] + pools[p].winningBid <= penalty[p] + TotalBudget(p) + (IF p \in resolved THEN TotalBudget(p) ELSE 0)
    BY <1>1, PoolFacts DEF PoolOf, Limit, Status
  <2>2. pools'[p].winningBid = 0 /\ penalty' = penalty /\ resolved' = resolved
    BY <1>1, <1>2, <1>3 DEF dispute
  <2> HIDE DEF payout
  <2>3. paid'[p] + pools'[p].winningBid <= paid[p] + pools[p].winningBid
    BY <1>1, <1>4, <2>2, PoolFacts
  <2>4. CASE p \in resolved
    BY <1>4, <2>1, <2>2, <2>3, <2>4, <1>1, PoolFacts
  <2>5. CASE p \notin resolved
    BY <1>4, <2>1, <2>2, <2>3, <2>5, <1>1, PoolFacts
  <2>6. QED
    BY <2>4, <2>5
<1> HIDE DEF r, payout
<1>12. QED
  BY <1>1, <1>2, <1>3, <1>4, <1>5, <1>6, <1>10, <1>11, BooksStep DEF claims, dispute

LEMMA CancelPoolIInv ==
  ASSUME IInv, NEW p \in Pools, CancelPool(p)
  PROVE  IInv'
<1>1. /\ pools[p].status \in {"created", "funded"} /\ Becomes(p, "cancelled")
      /\ UNCHANGED <<now, paused, bids, stake, claims, refundPending, dispute, money, history>>
  BY DEF CancelPool
<1>2. /\ pools' \in [Pools -> Row] /\ \A q \in Pools \ {p} : pools'[q] = pools[q]
      /\ pools'[p].status = "cancelled"
  BY <1>1, PoolFacts, BecomesStatus DEF Statuses
<1>3. TypeOK'
  <2>1. Types'
    BY <1>1, <1>2, PoolFacts DEF Types, claims, dispute, history
  <2>2. QED
    BY <2>1, TypesAreTypeOKNext
<1>4. ~(paid[p] > 0)
  BY <1>1, PoolFacts DEF PoolOf, Status
<1>5. Backing' = Backing /\ Backing \in Int /\ (Held(p)' = Held(p) => Debt(p)' = Debt(p))
  BY <1>1, <1>2, PoolFacts DEF Backing, Debt, Status, history
<1>6. QED
  BY <1>1, <1>2, <1>3, <1>4, <1>5, PoolFacts, BooksStep DEF claims, dispute, history

LEMMA RaiseDisputeIInv ==
  ASSUME IInv, NEW p \in Pools, RaiseDispute(p)
  PROVE  IInv'
<1> DEFINE x == Deposit(pools[p].winningBid)
<1>1. /\ pools[p].status = "in_progress" /\ Becomes(p, "disputed")
      /\ Receive(x) /\ penalty' = [penalty EXCEPT ![p] = x]
      /\ UNCHANGED <<now, paused, bids, stake, claims, refundPending, resolved, refunded, paid, overpaid>>
  BY DEF RaiseDispute, Status
<1>2. /\ pools' \in [Pools -> Row] /\ \A q \in Pools \ {p} : pools'[q] = pools[q]
      /\ pools'[p].status = "disputed"
      /\ pools'[p].winningBid = pools[p].winningBid /\ pools'[p].platformFee = pools[p].platformFee
  BY <1>1, PoolFacts, BecomesStatus DEF Statuses
<1>3. x \in Nat
  BY PoolFacts, DepositIsAmount
<1> HIDE DEF x
<1>4. penalty' \in [Pools -> Nat] /\ penalty'[p] = x /\ \A q \in Pools \ {p} : penalty'[q] = penalty[q]
  BY <1>1, <1>3, PoolFacts DEF Types
<1>10. money' \in Nat /\ withheld' \in Nat /\ money' + withheld' = money + withheld + x
  BY <1>1, <1>3, ReceiveEffect DEF IInv
<1>5. TypeOK'
  <2>1. Types'
    BY <1>1, <1>2, <1>4, <1>10, PoolFacts DEF Types, claims
  <2>2. QED
    BY <2>1, TypesAreTypeOKNext
<1>6. /\ ~(paid[p] > 0) /\ p \notin resolved /\ hasWithdrawn[p] = {} /\ p \notin refundPending
      /\ pools[p].winningBid <= TotalBudget(p) /\ pools[p].platformFee <= pools[p].winningBid
  BY <1>1, PoolFacts DEF PoolOf, Status
<1>7. Held(p)' = Held(p) => Debt(p)' = Debt(p) + x
  BY <1>1, <1>2, <1>4 DEF Debt, Status
<1>8. Held(p)' = Held(p) => Backing' - Backing >= Debt(p)' - Debt(p)
  BY <1>1, <1>3, <1>7, <1>10, PoolFacts DEF Backing
<1>9. QED
  BY <1>1, <1>2, <1>4, <1>5, <1>6, <1>8, BooksStep DEF claims

LEMMA RuleForBuyersIInv ==
  ASSUME IInv, NEW p \in Pools, RuleForBuyers(p)
  PROVE  IInv'
<1>1. /\ pools[p].status = "disputed" /\ Becomes(p, "cancelled")
      /\ refundPending' = refundPending \cup {p} /\ resolved' = resolved \cup {p}
      /\ UNCHANGED <<now, paused, bids, stake, claims, penalty, money, history>>
  BY DEF RuleForBuyers, Status
<1>2. /\ pools' \in [Pools -> Row] /\ \A q \in Pools \ {p} : pools'[q] = pools[q]
      /\ pools'[p].status = "cancelled"
  BY <1>1, PoolFacts, BecomesStatus DEF Statuses
<1>3. TypeOK'
  <2>1. Types'
    BY <1>1, <1>2, PoolFacts DEF Types, claims, history
  <2>2. QED
    BY <2>1, TypesAreTypeOKNext
<1>4. ~(paid[p] > 0) /\ Backing' = Backing /\ Backing \in Int
  BY <1>1, PoolFacts DEF PoolOf, Status, Backing, history
<1>5. Held(p)' = Held(p) => Debt(p)' = Held(p) /\ Debt(p) = Held(p) + penalty[p]
  BY <1>1, <1>2 DEF Debt, Status
<1>6. Held(p)' = Held(p) => Backing' - Backing >= Debt(p)' - Debt(p)
  BY <1>4, <1>5, PoolFacts
<1>7. QED
  BY <1>1, <1>2, <1>3, <1>4, <1>6, BooksStep DEF claims, history

LEMMA RuleForProviderIInv ==
  ASSUME IInv, NEW p \in Pools, RuleForProvider(p)
  PROVE  IInv'
<1> DEFINE x == penalty[p] + pools[p].winningBid
<1>1. /\ pools[p].status = "disputed" /\ x <= money /\ Becomes(p, "completed")
      /\ resolved' = resolved \cup {p}
      /\ money' = money - x /\ paid' = [paid EXCEPT ![p] = @ + x - pools[p].platformFee]
      /\ UNCHANGED <<now, paused, bids, stake, claims, refundPending, penalty, refunded, withheld, overpaid>>
  BY DEF RuleForProvider, Status
<1>2. /\ pools' \in [Pools -> Row] /\ \A q \in Pools \ {p} : pools'[q] = pools[q]
      /\ pools'[p].status = "completed"
  BY <1>1, PoolFacts, BecomesStatus DEF Statuses
<1>3. /\ paid[p] = 0 /\ hasWithdrawn[p] = {} /\ p \notin refundPending
      /\ pools[p].winningBid <= TotalBudget(p) /\ pools[p].platformFee <= pools[p].winningBid
  BY <1>1, PoolFacts DEF PoolOf, Status
<1>4. x \in Nat /\ paid[p] + x - pools[p].platformFee \in Nat /\ money' \in Nat
  BY <1>1, <1>3, PoolFacts
<1>5. /\ paid' \in [Pools -> Nat] /\ \A q \in Pools \ {p} : paid'[q] = paid[q]
      /\ paid'[p] = paid[p] + x - pools[p].platformFee
  BY <1>1, <1>4, PoolFacts DEF Types
<1>6. TypeOK'
  <2>1. Types'
    BY <1>1, <1>2, <1>4, <1>5, PoolFacts DEF Types, claims
  <2>2. QED
    BY <2>1, TypesAreTypeOKNext
<1>7. Debt(p)' = 0
  BY <1>1, <1>2 DEF Debt, Status
<1>8. Debt(p) = Held(p) + penalty[p] /\ Held(p) = TotalBudget(p)
  BY <1>1, <1>3, PoolFacts DEF Debt, Status
<1>9. Backing' - Backing >= Debt(p)' - Debt(p)
  BY <1>1, <1>3, <1>7, <1>8, PoolFacts DEF Backing
<1>11. p \in resolved' /\ paid'[p] + pools'[p].winningBid
                            <= penalty'[p] + TotalBudget(p) + (IF p \in resolved' THEN TotalBudget(p) ELSE 0)
  <2>1. p \in resolved' /\ penalty'[p] = penalty[p] /\ pools'[p].winningBid = pools[p].winningBid
    BY <1>1, PoolFacts, BecomesStatus DEF Statuses
  <2>2. QED
    BY <1>3, <1>5, <2>1, PoolFacts
<1> HIDE DEF x
<1>10. QED
  BY <1>1, <1>2, <1>3, <1>5, <1>6, <1>9, <1>11, BooksStep DEF claims

LEMMA HandleOrderTimeoutIInv ==
  ASSUME IInv, NEW p \in Pools, HandleOrderTimeout(p)
  PROVE  IInv'
<1>1. /\ pools[p].status = "in_progress" /\ Becomes(p, "expired") /\ refundPending' = refundPending \cup {p}
      /\ UNCHANGED <<now, paused, bids, stake, claims, dispute, money, history>>
  BY DEF HandleOrderTimeout, Late, Status
<1>2. /\ pools' \in [Pools -> Row] /\ \A q \in Pools \ {p} : pools'[q] = pools[q]
      /\ pools'[p].status = "expired"
  BY <1>1, PoolFacts, BecomesStatus DEF Statuses
<1>3. TypeOK'
  <2>1. Types'
    BY <1>1, <1>2, PoolFacts DEF Types, claims, dispute, history
  <2>2. QED
    BY <2>1, TypesAreTypeOKNext
<1>4. ~(paid[p] > 0) /\ p \notin resolved
  BY <1>1, PoolFacts DEF PoolOf, Status
<1>5. Backing' = Backing /\ Backing \in Int /\ (Held(p)' = Held(p) => Debt(p)' = Debt(p))
  BY <1>1, <1>2, PoolFacts DEF Backing, Debt, Status, history
<1>6. QED
  BY <1>1, <1>2, <1>3, <1>4, <1>5, PoolFacts, BooksStep DEF claims, dispute, history

\* A refund takes one participant's budget out of what the pool holds.
LEMMA RefundIInv ==
  ASSUME IInv, NEW p \in Pools, NEW u \in Joined(p), u \notin hasWithdrawn[p],
         pools[p].status \in {"cancelled", "expired"}, Refund(p, u),
         refundClaimed' \in [Pools -> SUBSET Users]
  PROVE  IInv'
<1>1. /\ stake[p][u] <= money /\ money' = money - stake[p][u]
      /\ refunded' = [refunded EXCEPT ![p][u] = @ + stake[p][u]]
      /\ hasWithdrawn' = [hasWithdrawn EXCEPT ![p] = @ \cup {u}]
      /\ UNCHANGED <<now, paused, pools, bids, stake, hasConfirmed, refundPending, dispute, paid, withheld, overpaid>>
  BY DEF Refund
<1>2. u \in Users /\ stake[p][u] \in Nat /\ \A v \in Joined(p) : stake[p][v] \in Nat
  BY PoolFacts, StakeType DEF Joined
<1>3. refunded[p][u] = 0 /\ PoolOf(p) /\ Types
  BY <1>2, PoolFacts DEF PoolOf
<1>4. /\ refunded' \in [Pools -> [Users -> Nat]]
      /\ refunded'[p][u] = stake[p][u] /\ \A v \in Users \ {u} : refunded'[p][v] = refunded[p][v]
      /\ \A q \in Pools \ {p} : refunded'[q] = refunded[q]
  BY <1>1, <1>2, <1>3 DEF Types
<1>5. /\ hasWithdrawn' \in [Pools -> SUBSET Users]
      /\ hasWithdrawn'[p] = hasWithdrawn[p] \cup {u} /\ \A q \in Pools \ {p} : hasWithdrawn'[q] = hasWithdrawn[q]
  BY <1>1, <1>2, <1>3 DEF Types
<1>6. TypeOK'
  <2>1. money' \in Nat
    BY <1>1, <1>2, PoolFacts
  <2>2. Types'
    BY <1>1, <1>3, <1>4, <1>5, <2>1 DEF Types, dispute
  <2>3. QED
    BY <2>2, TypesAreTypeOKNext
<1>7. \A q \in Pools \ {p} : Same(q)
  BY <1>1, <1>4, <1>5 DEF Same, dispute
<1>8. Joined(p)' = Joined(p) /\ TotalBudget(p)' = TotalBudget(p)
  <2>1. Joined(p)' = Joined(p)
    BY <1>1 DEF Joined
  <2>2. QED
    BY <1>1, <2>1 DEF TotalBudget
<1>9. PoolOf(p)'
  BY <1>1, <1>3, <1>4, <1>5, <1>8 DEF PoolOf, Limit, Status, dispute
<1>10. Held(p) = Held(p)' + stake[p][u]
  <2> DEFINE f == [v \in Joined(p) \ hasWithdrawn[p] |-> stake[p][v]]
             g == [v \in (Joined(p) \ hasWithdrawn[p]) \ {u} |-> stake[p][v]]
  <2>1. /\ DOMAIN g = (Joined(p) \ hasWithdrawn[p]) \ {u} /\ u \notin DOMAIN g /\ DOMAIN f = DOMAIN g \cup {u}
        /\ f[u] = stake[p][u] /\ \A v \in DOMAIN g : f[v] = g[v] /\ g[v] \in Int
    BY <1>2
  <2>2. IsFiniteSet(DOMAIN g)
    BY <1>3, <2>1, FS_Subset DEF PoolOf
  <2>3. Held(p) = SumFunction(f)
    BY DEF Held
  <2>4. Held(p)' = SumFunction(g)
    <3>1. (Joined(p) \ hasWithdrawn[p])' = (Joined(p) \ hasWithdrawn[p]) \ {u}
      BY <1>5, <1>8
    <3>2. QED
      BY <1>1, <3>1 DEF Held
  <2> HIDE DEF f, g
  <2>5. QED
    BY <1>2, <2>1, <2>2, <2>3, <2>4, SumFunctionGrows
<1>11. Debt(p) = Held(p) /\ Debt(p)' = Held(p)' /\ ~Status(p, "absent")'
  BY <1>1 DEF Debt, Status
<1>12. Backing' - Backing >= Debt(p)' - Debt(p)
  <2>1. Held(p) \in Nat /\ Held(p)' \in Int
    BY <1>6, <1>9, <1>11, HeldTypeNext, PoolFacts
  <2>2. QED
    BY <1>1, <1>2, <1>10, <1>11, <2>1, PoolFacts DEF Backing
<1>13. QED
  BY <1>6, <1>7, <1>9, <1>11, <1>12, OnePool

LEMMA NextIInv == IInv /\ [Next]_vars => IInv'
<1> SUFFICES ASSUME IInv, [Next]_vars PROVE IInv'
  OBVIOUS
<1>0. Types
  BY TypesAreTypeOK DEF IInv
<1>1. ASSUME Tick \/ Pause \/ UNCHANGED vars PROVE IInv'
  <2>1. Types'
    <3>1. CASE Tick
      BY <1>0, <3>1, Constants DEF Tick, Types, claims, dispute, history
    <3>2. CASE Pause
      BY <1>0, <3>2 DEF Pause, Types, claims, dispute, history
    <3>3. CASE UNCHANGED vars
      BY <1>0, <3>3 DEF vars, Types, claims, dispute, history
    <3>4. QED
      BY <1>1, <3>1, <3>2, <3>3
  <2>2. (\A q \in Pools : Same(q)) /\ UNCHANGED <<money, withheld, overpaid>>
    BY <1>1 DEF Tick, Pause, vars, Same, claims, dispute, history
  <2>3. QED
    BY <2>1, <2>2, TypesAreTypeOKNext, NoPool
<1>2. ASSUME NEW p \in Pools,
             \/ CreatePool(p) \/ WithdrawEarnings(p) \/ CancelPool(p) \/ RaiseDispute(p)
             \/ RuleForBuyers(p) \/ RuleForProvider(p) \/ HandleOrderTimeout(p)
      PROVE  IInv'
  BY <1>2, CreatePoolIInv, WithdrawEarningsIInv, CancelPoolIInv, RaiseDisputeIInv, RuleForBuyersIInv,
     RuleForProviderIInv, HandleOrderTimeoutIInv
<1>3. ASSUME NEW p \in Pools, NEW u \in Users, NEW x \in Budgets, JoinPool(p, u, x) PROVE IInv'
  BY <1>3, JoinPoolIInv
<1>4. ASSUME NEW p \in Pools, NEW x \in Prices, SubmitBid(p, x) \/ AwardPool(p, x) PROVE IInv'
  BY <1>4, SubmitBidIInv, AwardPoolIInv
<1>5. ASSUME NEW p \in Pools, NEW u \in Users, ConfirmDelivery(p, u) PROVE IInv'
  BY <1>5, ConfirmDeliveryIInv
<1>6. ASSUME NEW p \in Pools, NEW u \in Users, ClaimRefund(p, u) PROVE IInv'
  <2>1. u \in Joined(p) /\ u \notin hasWithdrawn[p] /\ pools[p].status = "cancelled" /\ Refund(p, u)
    BY <1>6 DEF ClaimRefund, Status
  <2>2. refundClaimed' \in [Pools -> SUBSET Users]
    BY <1>0, <1>6 DEF ClaimRefund, Types
  <2>3. QED
    BY <2>1, <2>2, RefundIInv
<1>7. ASSUME NEW p \in Pools, NEW u \in Users, ClaimDisputeRefund(p, u) PROVE IInv'
  <2>1. u \in Joined(p) /\ u \notin hasWithdrawn[p] /\ p \in refundPending /\ Refund(p, u)
    BY <1>7 DEF ClaimDisputeRefund, Unclaimed
  <2>2. pools[p].status \in {"cancelled", "expired"}
    BY <2>1, PoolFacts DEF PoolOf
  <2>3. refundClaimed' \in [Pools -> SUBSET Users]
    BY <1>0, <1>7 DEF ClaimDisputeRefund, Types
  <2>4. QED
    BY <2>1, <2>2, <2>3, RefundIInv
<1>8. QED
  BY <1>1, <1>2, <1>3, <1>4, <1>5, <1>6, <1>7 DEF Next

(***************************************************************************)
(* The theorems                                                            *)
(***************************************************************************)
LEMMA Invariance == Spec => []IInv
  BY InitIInv, NextIInv, PTL DEF Spec

\* What leaves the contract for one pool: no participant gets back more than
\* it put in, by whatever mixture of claimRefund and claimDisputeRefund; no
\* pool both pays its winner and gives a budget back; and a winner is paid
\* within the budget and the deposit, a second time only after a ruling.
THEOREM PoolsPayInBounds == Spec => []Safe
<1>1. IInv => Safe
  <2> SUFFICES ASSUME IInv PROVE Safe
    OBVIOUS
  <2>1. RefundedOnce
    <3> SUFFICES ASSUME NEW p \in Pools, NEW u \in Users PROVE refunded[p][u] <= stake[p][u]
      BY DEF RefundedOnce
    <3>1. stake[p][u] \in Nat
      BY PoolFacts, StakeType
    <3>2. refunded[p][u] = IF u \in hasWithdrawn[p] THEN stake[p][u] ELSE 0
      BY PoolFacts DEF PoolOf
    <3>3. QED
      BY <3>1, <3>2
  <2>2. NeverBoth
    <3> SUFFICES ASSUME NEW p \in Pools, paid[p] > 0, NEW u \in Users PROVE refunded[p][u] = 0
      BY DEF NeverBoth
    <3>1. hasWithdrawn[p] = {}
      BY PoolFacts DEF PoolOf, Status
    <3>2. QED
      BY <3>1, PoolFacts DEF PoolOf
  <2>3. PaidInBounds
    <3> SUFFICES ASSUME NEW p \in Pools PROVE paid[p] <= Limit(p)
      BY DEF PaidInBounds, Limit
    <3>1. Limit(p) \in Nat
      BY PoolFacts DEF Limit
    <3>2. paid[p] > 0 => paid[p] + pools[p].winningBid <= Limit(p)
      BY PoolFacts DEF PoolOf
    <3>3. QED
      BY <3>1, <3>2, PoolFacts
  <2>4. QED
    BY <2>1, <2>2, <2>3 DEF IInv, Safe
<1>2. QED
  BY <1>1, Invariance, PTL

\* The one balance of the contract, with what the token's tax kept of the
\* deposits and what winners withdrew after a ruling had paid them, covers
\* what all its pools owe: nothing else makes it fall short.
THEOREM ShortfallExplained == Spec => []Covered
<1>1. IInv => Covered
  BY DEF IInv
<1>2. QED
  BY <1>1, Invariance, PTL

(***************************************************************************)
(* II.  The market                                                         *)
(***************************************************************************)
Busy(t) == turn[t].at # "idle"
Awaits(c) == IF c \in Orders THEN order[c].at = "waiting" ELSE turn[c].at = "waiting"

\* A job runs exactly while its turn does, and a queued one has attempts left.
Runs ==
  /\ \A k \in Jobs : job[k] = "running" <=> Busy(k)
  /\ \A k \in Jobs : job[k] \in {"absent", "queued"} => tries[k] < MaxAttempts

\* Who has submitted waits, for one turn only.
Callers ==
  /\ \A t \in Turns : Busy(t) /\ turn[t].caller # None => Awaits(turn[t].caller)
  /\ \A t, u \in Turns : Busy(t) /\ Busy(u) /\ turn[t].caller # None /\ turn[t].caller = turn[u].caller => t = u
  /\ \A t \in Turns : turn[t].at \in {"selecting", "waiting"} => turn[t].want \in Jobs

\* What an order knows of its members, and what its escrow came to.
Progress(o) ==
  /\ order[o].at = "waiting" =>
       /\ order[o].asks \in JobsOfOrders /\ Asked(o) < Len(Team[o])
       /\ order[o].asks.to = Team[o][Asked(o) + 1] /\ order[o].asks.from = Payer[o]
  /\ order[o].at = "new" => escrow[o] = "none"
  /\ order[o].at \in {"asking", "waiting", "assessing"} => escrow[o] = "open"
  /\ order[o].at = "assessing" => Asked(o) = Len(Team[o]) /\ Accepted(order[o].quality)

Answers(o) ==
  \A i \in 1..Asked(o), g \in {"passed", "failed"} : order[o].quality[i] = g => CameTo(o, Team[o][i], {g})

Deserved(o) ==
  /\ escrow[o] = "paid" => \A m \in Members(o) : CameTo(o, m, {"passed"})
  /\ escrow[o] = "refunded" =>
       /\ \A m \in Members(o) : CameTo(o, m, {"passed", "failed"})
       /\ \E m \in Members(o) : CameTo(o, m, {"failed"})

Awards == \A o \in Orders : Progress(o) /\ Answers(o) /\ Deserved(o)

\* What a turn has handed on and what its harness has left are within the amount.
Limits == \A t \in JobsHandedOn \ mixed :
  Busy(t) => budget[t.to] \in Nat /\ turn[t].handed + budget[t.to] <= t.amount

Money == IsFiniteSet(Escrowed) /\ MoneyKept

MarketInv == MarketTypeOK /\ Runs /\ Callers /\ Awards /\ Limits /\ Money

(***************************************************************************)
(* Jobs, turns and orders                                                  *)
(***************************************************************************)
TurnRow == [at : {"idle", "thinking", "selecting", "waiting"}, caller : {None} \cup Turns \cup Orders,
        want : {None} \cup Jobs, steps : 0..MaxSteps, handed : Nat]
OrderRow == [at : {"new", "asking", "waiting", "assessing", "ended"},
             asks : {None} \cup Jobs, quality : Seq(Gates)]
States == {"absent", "queued", "running", "error", "manual"} \cup Gates

\* What a job is made of.
LEMMA JobFacts ==
  ASSUME NEW k \in Jobs
  PROVE  /\ k.to \in Suppliers /\ k.to \in Peas /\ k.from \in Peas
         /\ k.amount \in Nat /\ k.depth \in 0..MaxDepth
         /\ k \in Turns /\ k \notin Owned /\ k \notin Orders /\ k # None /\ Pea(k) = k.to
         /\ k \in JobsHandedOn => k.depth > 0 /\ k.amount \in Amounts
         /\ k \in JobsOfOrders => k.depth = 0 /\ k.amount = 0
<1>1. Suppliers \subseteq Peas /\ Owned \subseteq Peas /\ Amounts \subseteq Nat /\ MaxDepth \in Nat
  BY MarketAssumption
<1>2. k \notin Peas /\ k \notin Orders /\ k # None
  BY CallerAssumption
<1>3. CASE k \in JobsOfOrders
  BY <1>1, <1>2, <1>3 DEF JobsOfOrders, JobsHandedOn, Turns, Pea
<1>4. CASE k \in JobsHandedOn
  BY <1>1, <1>2, <1>4 DEF JobsOfOrders, JobsHandedOn, Turns, Pea
<1>. QED BY <1>3, <1>4 DEF Jobs

\* Those who ask, and whose turn it is.
LEMMA TurnFacts ==
  /\ None \notin Turns /\ Turns \cap Orders = {} /\ Jobs \subseteq Turns /\ Owned \subseteq Turns
  /\ \A t \in Turns : Pea(t) \in Peas /\ (t \in Jobs \/ (t \in Owned /\ t \notin Jobs))
<1>1. \A t \in Turns : Pea(t) \in Peas
  BY JobFacts, MarketAssumption DEF Turns, Pea
<1>. QED BY <1>1, CallerAssumption, MarketAssumption DEF Turns

\* The types, one variable at a time.
LEMMA MarketTypes ==
  MarketTypeOK <=>
    /\ balance \in [Peas -> Nat] /\ spent \in [Peas -> 0..DailyLimit]
    /\ depth \in [Peas -> 0..MaxDepth] /\ budget \in [Peas -> {None} \cup Nat] /\ mixed \subseteq Turns
    /\ job \in [Jobs -> States] /\ tries \in [Jobs -> 0..MaxAttempts]
    /\ escrow \in [Jobs \cup Orders -> {"none", "open", "paid", "refunded", "refused"}]
    /\ turn \in [Turns -> TurnRow] /\ order \in [Orders -> OrderRow]
    /\ \A o \in Orders : Len(order[o].quality) <= Len(Team[o])
  BY DEF MarketTypeOK, TurnRow, OrderRow, States

LEMMA MarketTypesNext == (
  MarketTypeOK <=>
    /\ balance \in [Peas -> Nat] /\ spent \in [Peas -> 0..DailyLimit]
    /\ depth \in [Peas -> 0..MaxDepth] /\ budget \in [Peas -> {None} \cup Nat] /\ mixed \subseteq Turns
    /\ job \in [Jobs -> States] /\ tries \in [Jobs -> 0..MaxAttempts]
    /\ escrow \in [Jobs \cup Orders -> {"none", "open", "paid", "refunded", "refused"}]
    /\ turn \in [Turns -> TurnRow] /\ order \in [Orders -> OrderRow]
    /\ \A o \in Orders : Len(order[o].quality) <= Len(Team[o]))'
  BY MarketTypes, PTL

\* A team is not empty, and its members are suppliers.
LEMMA TeamFacts ==
  ASSUME NEW o \in Orders
  PROVE  /\ Len(Team[o]) \in Nat \ {0} /\ IsFiniteSet(Members(o)) /\ Members(o) \subseteq Peas
         /\ \A i \in 1..Len(Team[o]) : Team[o][i] \in Members(o)
         /\ \A m \in Members(o) : \E i \in 1..Len(Team[o]) : m = Team[o][i]
         /\ Payer[o] \in Peas /\ Reward[o] \in Nat \ {0}
<1>1. Team[o] \in Seq(Suppliers) /\ Team[o] # <<>>
  BY MarketAssumption
<1>2. Len(Team[o]) \in Nat \ {0} /\ DOMAIN Team[o] = 1..Len(Team[o])
      /\ \A i \in 1..Len(Team[o]) : Team[o][i] \in Suppliers
  BY <1>1
<1>3. Suppliers \subseteq Peas /\ Payer[o] \in Peas /\ Reward[o] \in Nat \ {0}
  BY MarketAssumption
<1>4. IsFiniteSet(Peas)
  BY MarketAssumption
<1>5. Members(o) \subseteq Peas
  BY <1>2, <1>3 DEF Members
<1>6. IsFiniteSet(Members(o))
  BY <1>4, <1>5, FS_Subset
<1>. QED BY <1>2, <1>3, <1>5, <1>6 DEF Members

(***************************************************************************)
(* What the answers of submit do to who waits for them                     *)
(***************************************************************************)
LEMMA ReturnEffect ==
  ASSUME order \in [Orders -> OrderRow],
         NEW c \in Turns \cup Orders, NEW st \in States, NEW tn \in [Turns -> TurnRow], Return(c, st, tn)
  PROVE  /\ turn' \in [Turns -> TurnRow] /\ order' \in [Orders -> OrderRow]
         /\ \A u \in Turns : turn'[u].caller = tn[u].caller /\ turn'[u].handed = tn[u].handed
         /\ \A u \in Turns : u # c => turn'[u] = tn[u]
         /\ c \in Turns => turn'[c].at = "thinking"
         /\ \A o \in Orders : o # c => order'[o] = order[o]
         /\ c \in Orders => order'[c].at = "asking" /\ order'[c].quality = Append(order[c].quality, Quality(st))
<1>1. CASE c \in Orders
  <2>1. c \notin Turns
    BY <1>1, TurnFacts
  <2>2. turn' = tn /\ order' = [order EXCEPT ![c].at = "asking", ![c].asks = None, ![c].quality = Append(@, Quality(st))]
    BY <1>1 DEF Return
  <2>3. Append(order[c].quality, Quality(st)) \in Seq(Gates)
    <3>1. order[c].quality \in Seq(Gates)
      BY <1>1 DEF OrderRow
    <3>2. Quality(st) \in Gates
      BY DEF Quality, Gates
    <3>. QED BY <3>1, <3>2
  <2>. DEFINE q == Append(order[c].quality, Quality(st))
  <2>4. q \in Seq(Gates) /\ order' = [order EXCEPT ![c].at = "asking", ![c].asks = None, ![c].quality = q]
    BY <2>2, <2>3
  <2>. HIDE DEF q
  <2>5. /\ order'[c].at = "asking" /\ order'[c].quality = q /\ order' \in [Orders -> OrderRow]
        /\ \A o \in Orders : o # c => order'[o] = order[o]
    BY <1>1, <2>4 DEF OrderRow
  <2>. QED BY <1>1, <2>1, <2>2, <2>5 DEF q
<1>2. CASE c \notin Orders
  <2>1. turn' = [tn EXCEPT ![c].at = "thinking", ![c].want = None] /\ order' = order
    BY <1>2 DEF Return
  <2>2. c \in Turns
    BY <1>2
  <2>3. /\ turn'[c].at = "thinking" /\ turn'[c].caller = tn[c].caller /\ turn'[c].handed = tn[c].handed
        /\ turn' \in [Turns -> TurnRow] /\ \A u \in Turns : u # c => turn'[u] = tn[u]
    BY <2>1, <2>2 DEF TurnRow
  <2>. QED BY <1>2, <2>1, <2>3
<1>. QED BY <1>1, <1>2

LEMMA WaitEffect ==
  ASSUME order \in [Orders -> OrderRow],
         NEW c \in Turns \cup Orders, NEW k \in Jobs, NEW tn \in [Turns -> TurnRow], Wait(c, k, tn)
  PROVE  /\ turn' \in [Turns -> TurnRow] /\ order' \in [Orders -> OrderRow]
         /\ \A u \in Turns : turn'[u].caller = tn[u].caller /\ turn'[u].handed = tn[u].handed
         /\ \A u \in Turns : u # c => turn'[u] = tn[u]
         /\ c \in Turns => turn'[c].at = "waiting" /\ turn'[c].want = k
         /\ \A o \in Orders : o # c => order'[o] = order[o]
         /\ c \in Orders => order'[c].at = "waiting" /\ order'[c].asks = k /\ order'[c].quality = order[c].quality
<1>1. CASE c \in Orders
  <2>1. c \notin Turns
    BY <1>1, TurnFacts
  <2>2. turn' = tn /\ order' = [order EXCEPT ![c].at = "waiting", ![c].asks = k]
    BY <1>1 DEF Wait
  <2>3. /\ order'[c].at = "waiting" /\ order'[c].asks = k /\ order'[c].quality = order[c].quality
        /\ order' \in [Orders -> OrderRow] /\ \A o \in Orders : o # c => order'[o] = order[o]
    BY <1>1, <2>2 DEF OrderRow
  <2>. QED BY <1>1, <2>1, <2>2, <2>3
<1>2. CASE c \notin Orders
  <2>1. turn' = [tn EXCEPT ![c].at = "waiting", ![c].want = k] /\ order' = order
    BY <1>2 DEF Wait
  <2>2. c \in Turns
    BY <1>2
  <2>3. /\ turn'[c].at = "waiting" /\ turn'[c].want = k
        /\ turn'[c].caller = tn[c].caller /\ turn'[c].handed = tn[c].handed
        /\ turn' \in [Turns -> TurnRow] /\ \A u \in Turns : u # c => turn'[u] = tn[u]
    BY <2>1, <2>2 DEF TurnRow
  <2>. QED BY <1>2, <2>1, <2>3
<1>. QED BY <1>1, <1>2

\* Verdicts stay, and with them what orders know.
LEMMA VerdictsStay ==
  ASSUME \A k \in Jobs : job[k] \in Gates => job'[k] = job[k],
         NEW o, NEW m, NEW verdicts, verdicts \subseteq Gates, CameTo(o, m, verdicts)
  PROVE  CameTo(o, m, verdicts)'
  BY DEF CameTo, Jobs

LEMMA SameAward ==
  ASSUME \A k \in Jobs : job[k] \in Gates => job'[k] = job[k],
         NEW o \in Orders, order'[o] = order[o], escrow'[o] = escrow[o]
  PROVE  /\ Progress(o) => Progress(o)'
         /\ Answers(o) => Answers(o)'
         /\ Deserved(o) => Deserved(o)'
<1>1. \A m, v : v \subseteq Gates /\ CameTo(o, m, v) => CameTo(o, m, v)'
  BY VerdictsStay
<1>2. {"passed"} \subseteq Gates /\ {"failed"} \subseteq Gates /\ {"passed", "failed"} \subseteq Gates
  BY DEF Gates
<1>3. Progress(o) => Progress(o)'
  BY DEF Progress, Asked
<1>4. Answers(o) => Answers(o)'
  BY <1>1, <1>2 DEF Answers, Asked
<1>5. Deserved(o) => Deserved(o)'
  BY <1>1, <1>2 DEF Deserved
<1>. QED BY <1>3, <1>4, <1>5

\* One more member has answered.
LEMMA OneMoreAnswer ==
  ASSUME \A k \in Jobs : job[k] \in Gates => job'[k] = job[k],
         order \in [Orders -> OrderRow], order' \in [Orders -> OrderRow],
         NEW o \in Orders, Answers(o), Asked(o) < Len(Team[o]),
         NEW k \in JobsOfOrders, k.to = Team[o][Asked(o) + 1], k.from = Payer[o],
         order'[o].quality = Append(order[o].quality, Quality(job'[k]))
  PROVE  Answers(o)' /\ Asked(o)' <= Len(Team[o])
<1>0. PICK q : q = order[o].quality
  OBVIOUS
<1>10. PICK n : n = Asked(o) + 1
  OBVIOUS
<1>1. q \in Seq(Gates) /\ Asked(o) = Len(q) /\ Len(q) \in Nat
  BY <1>0 DEF OrderRow, Asked
<1>2. /\ Asked(o)' = n /\ order'[o].quality[n] = Quality(job'[k])
      /\ \A i \in 1..Asked(o) : order'[o].quality[i] = q[i]
  BY <1>0, <1>1, <1>10 DEF Asked
<1>3. ASSUME NEW i \in 1..Asked(o), NEW g \in {"passed", "failed"}, order'[o].quality[i] = g
      PROVE  CameTo(o, Team[o][i], {g})'
  <2>1. CameTo(o, Team[o][i], {g})
    BY <1>0, <1>2, <1>3 DEF Answers
  <2>2. {g} \subseteq Gates
    BY DEF Gates
  <2>. QED BY <2>1, <2>2, VerdictsStay
<1>4. ASSUME NEW g \in {"passed", "failed"}, order'[o].quality[n] = g
      PROVE  CameTo(o, Team[o][n], {g})'
  <2>1. job'[k] = g
    BY <1>2, <1>4 DEF Quality, Gates
  <2>2. k.to = Team[o][n] /\ k.from = Payer[o]
    BY <1>10
  <2>. QED BY <2>1, <2>2 DEF CameTo
<1>5. \A i \in 1..n : i \in 1..Asked(o) \/ i = n
  BY <1>1, <1>10
<1>6. Answers(o)'
  <2>1. ASSUME NEW i \in 1..n, NEW g \in {"passed", "failed"}, order'[o].quality[i] = g
        PROVE  CameTo(o, Team[o][i], {g})'
    BY <1>3, <1>4, <1>5, <2>1
  <2>. QED BY <1>2, <2>1 DEF Answers
<1>7. n <= Len(Team[o])
  BY <1>1, <1>10, TeamFacts
<1>. QED BY <1>2, <1>6, <1>7

(***************************************************************************)
(* The parts of submit                                                     *)
(***************************************************************************)
\* Opening an escrow: the money leaves the payer, or nothing moves.
LEMMA OpensEffect ==
  ASSUME MarketTypeOK, NEW e \in Jobs \cup Orders, NEW p \in Peas, NEW x \in Nat, Opens(e, p, x)
  PROVE  /\ balance' \in [Peas -> Nat]
         /\ escrow' \in [Jobs \cup Orders -> {"none", "open", "paid", "refunded", "refused"}]
         /\ \A d \in Jobs \cup Orders : d # e => escrow'[d] = escrow[d]
         /\ x <= balance[p] => escrow'[e] = "open"
         /\ x > balance[p] => escrow'[e] = "refused"
<1>1. balance \in [Peas -> Nat] /\ balance[p] \in Nat
      /\ escrow \in [Jobs \cup Orders -> {"none", "open", "paid", "refunded", "refused"}]
  BY MarketTypes
<1>2. CASE x <= balance[p]
  <2>1. balance[p] - x \in Nat
    BY <1>1, <1>2
  <2>2. escrow' = [escrow EXCEPT ![e] = "open"] /\ balance' = [balance EXCEPT ![p] = balance[p] - x]
    BY <1>2 DEF Opens
  <2>. QED BY <1>1, <1>2, <2>1, <2>2
<1>3. CASE ~(x <= balance[p])
  <2>1. escrow' = [escrow EXCEPT ![e] = "refused"] /\ balance' = balance
    BY <1>3 DEF Opens
  <2>. QED BY <1>1, <1>3, <2>1
<1>. QED BY <1>2, <1>3

\* A running turn is given a depth and a budget of its own.
LEMMA ContextEffect ==
  ASSUME MarketTypeOK, NEW i \in Jobs, Context(i)
  PROVE  /\ depth' \in [Peas -> 0..MaxDepth] /\ budget' \in [Peas -> {None} \cup Nat] /\ mixed' \subseteq Turns
         /\ i \in JobsHandedOn => budget'[i.to] = i.amount
         /\ \A p \in Peas : p # i.to => budget'[p] = budget[p]
         /\ \A t \in Turns : t # i /\ t \notin mixed' => t \notin mixed
         /\ \A t \in Turns : Pea(t) = i.to /\ Busy(t) => t \in mixed'
<1>1. /\ depth \in [Peas -> 0..MaxDepth] /\ budget \in [Peas -> {None} \cup Nat] /\ mixed \subseteq Turns
      /\ i.to \in Peas /\ i.depth \in 0..MaxDepth /\ i.amount \in Nat
      /\ i \in JobsHandedOn => i.depth > 0
  BY MarketTypes, JobFacts
<1>2. /\ depth' = [depth EXCEPT ![i.to] = i.depth]
      /\ budget' = [budget EXCEPT ![i.to] = IF i.depth > 0 THEN i.amount ELSE None]
      /\ mixed' = (mixed \ {i}) \cup {t \in Turns : Pea(t) = i.to /\ turn[t].at # "idle"}
  BY DEF Context
<1>. QED BY <1>1, <1>2 DEF Busy

\* submit makes the job, or finds it, and one queued job of its agent runs ...
Ran(c, k, i) ==
  /\ job[i] \in {"absent", "queued"} /\ i.to = k.to
  /\ job' \in [Jobs -> States] /\ job'[i] = "running"
  /\ \A j \in Jobs : j # i => job'[j] = job[j] \/ (job[j] = "absent" /\ job'[j] = "queued")
  /\ tries' = [tries EXCEPT ![i] = tries[i] + 1] /\ Context(i)
  /\ Wait(c, k, [turn EXCEPT ![i] = [Quiet EXCEPT !.at = "thinking", !.caller = c]])

\* ... or the job has been decided, and submit returns at once.
Returned(c, k) ==
  /\ job[k] \notin {"absent", "queued"} /\ UNCHANGED <<job, tries, context, escrow, balance>>
  /\ Return(c, job[k], turn)

LEMMA SubmitCases ==
  ASSUME MarketTypeOK, NEW c \in Turns \cup Orders, NEW k \in Jobs, Submit(c, k)
  PROVE  /\ spent' = spent
         /\ UNCHANGED <<escrow, balance>> \/ (escrow[k] = "none" /\ Opens(k, k.from, k.amount))
         /\ Returned(c, k) \/ \E i \in Jobs : Ran(c, k, i)
<1>1. PICK st : st = IF job[k] = "absent" THEN [job EXCEPT ![k] = "queued"] ELSE job
  OBVIOUS
<1>2. job \in [Jobs -> States] /\ tries \in [Jobs -> 0..MaxAttempts]
  BY MarketTypes
<1>3. /\ st \in [Jobs -> States]
      /\ \A j \in Jobs : st[j] = job[j] \/ (job[j] = "absent" /\ st[j] = "queued")
      /\ st[k] = "queued" <=> job[k] \in {"absent", "queued"}
  BY <1>1, <1>2 DEF States
<1>4. /\ IF k.amount > 0 /\ st[k] = "queued" /\ escrow[k] = "none"
         THEN Opens(k, k.from, k.amount) ELSE UNCHANGED <<escrow, balance>>
      /\ IF st[k] = "queued" THEN RunPending(c, k, st)
         ELSE job' = st /\ Return(c, st[k], turn) /\ UNCHANGED <<tries, context>>
      /\ spent' = spent
  BY <1>1 DEF Submit
<1>5. UNCHANGED <<escrow, balance>> \/ (escrow[k] = "none" /\ Opens(k, k.from, k.amount))
  BY <1>4
<1>6. CASE st[k] # "queued"
  <2>1. job[k] \notin {"absent", "queued"} /\ st = job
    BY <1>1, <1>3, <1>6
  <2>. QED BY <1>4, <1>5, <1>6, <2>1 DEF Returned
<1>7. CASE st[k] = "queued"
  <2>1. RunPending(c, k, st)
    BY <1>4, <1>7
  <2>2. PICK i \in Jobs :
          /\ st[i] = "queued" /\ i.to = k.to
          /\ job' = [st EXCEPT ![i] = "running"] /\ tries' = [tries EXCEPT ![i] = tries[i] + 1]
          /\ Context(i)
          /\ Wait(c, k, [turn EXCEPT ![i] = [Quiet EXCEPT !.at = "thinking", !.caller = c]])
    BY <2>1 DEF RunPending
  <2>3. /\ job' \in [Jobs -> States] /\ job'[i] = "running"
        /\ \A j \in Jobs : j # i => job'[j] = st[j]
    BY <1>3, <2>2 DEF States
  <2>4. job[i] \in {"absent", "queued"}
    BY <1>3, <2>2
  <2>5. Ran(c, k, i)
    BY <1>3, <2>2, <2>3, <2>4 DEF Ran
  <2>. QED BY <1>4, <1>5, <2>5
<1>. QED BY <1>6, <1>7

\* Who may submit: a turn that has selected, or an order that asks a member.
Submits(c) == IF c \in Orders THEN order[c].at = "asking" ELSE c \in Turns /\ turn[c].at = "selecting"

LEMMA SubmitterFacts ==
  ASSUME NEW c \in Turns \cup Orders, Submits(c)
  PROVE  ~Awaits(c) /\ (c \in Turns => Busy(c) /\ turn[c].at = "selecting") /\ (c \in Orders => c \notin Turns)
  BY TurnFacts DEF Submits, Awaits, Busy

LEMMA RanEffect ==
  ASSUME MarketTypeOK, Runs, NEW c \in Turns \cup Orders, Submits(c), NEW k \in Jobs, NEW i \in Jobs, Ran(c, k, i)
  PROVE  /\ i \in Turns /\ i # c /\ ~Busy(i) /\ turn' \in [Turns -> TurnRow] /\ order' \in [Orders -> OrderRow]
         /\ turn'[i].at = "thinking" /\ turn'[i].caller = c /\ turn'[i].handed = 0
         /\ \A u \in Turns : u # i /\ u # c => turn'[u] = turn[u]
         /\ c \in Turns => /\ turn'[c].at = "waiting" /\ turn'[c].want = k
                           /\ turn'[c].caller = turn[c].caller /\ turn'[c].handed = turn[c].handed
         /\ \A o \in Orders : o # c => order'[o] = order[o]
         /\ c \in Orders => order'[c].at = "waiting" /\ order'[c].asks = k /\ order'[c].quality = order[c].quality
<1>1. turn \in [Turns -> TurnRow] /\ order \in [Orders -> OrderRow]
  BY MarketTypes
<1>2. i \in Turns /\ i \notin Orders
  BY JobFacts
<1>3. ~Busy(i)
  BY DEF Ran, Runs
<1>4. i # c
  BY <1>2, <1>3, SubmitterFacts
<1>5. PICK row : row = [Quiet EXCEPT !.at = "thinking", !.caller = c]
  OBVIOUS
<1>6. row \in TurnRow /\ row.at = "thinking" /\ row.caller = c /\ row.handed = 0
  <2>1. 0 \in 0..MaxSteps
    BY MarketAssumption
  <2>. QED BY <1>5, <2>1 DEF Quiet, TurnRow
<1>7. PICK tn : tn = [turn EXCEPT ![i] = row]
  OBVIOUS
<1>8. tn \in [Turns -> TurnRow] /\ tn[i] = row /\ \A u \in Turns : u # i => tn[u] = turn[u]
  BY <1>1, <1>2, <1>6, <1>7
<1>9. Wait(c, k, tn)
  BY <1>5, <1>7 DEF Ran
<1>10. /\ turn' \in [Turns -> TurnRow] /\ order' \in [Orders -> OrderRow]
       /\ \A u \in Turns : turn'[u].caller = tn[u].caller /\ turn'[u].handed = tn[u].handed
       /\ \A u \in Turns : u # c => turn'[u] = tn[u]
       /\ c \in Turns => turn'[c].at = "waiting" /\ turn'[c].want = k
       /\ \A o \in Orders : o # c => order'[o] = order[o]
       /\ c \in Orders => order'[c].at = "waiting" /\ order'[c].asks = k /\ order'[c].quality = order[c].quality
  BY <1>1, <1>8, <1>9, WaitEffect
<1>. QED BY <1>2, <1>3, <1>4, <1>6, <1>8, <1>10

LEMMA ReturnedEffect ==
  ASSUME MarketTypeOK, NEW c \in Turns \cup Orders, Submits(c), NEW k \in Jobs, Returned(c, k)
  PROVE  /\ turn' \in [Turns -> TurnRow] /\ order' \in [Orders -> OrderRow]
         /\ \A u \in Turns : turn'[u].caller = turn[u].caller /\ turn'[u].handed = turn[u].handed
         /\ \A u \in Turns : u # c => turn'[u] = turn[u]
         /\ c \in Turns => turn'[c].at = "thinking"
         /\ \A o \in Orders : o # c => order'[o] = order[o]
         /\ c \in Orders => order'[c].at = "asking" /\ order'[c].quality = Append(order[c].quality, Quality(job[k]))
<1>1. turn \in [Turns -> TurnRow] /\ order \in [Orders -> OrderRow] /\ job[k] \in States
  BY MarketTypes
<1>2. Return(c, job[k], turn)
  BY DEF Returned
<1>. QED BY <1>1, <1>2, ReturnEffect

\* A submission keeps the types, ...
LEMMA SubmitTypes ==
  ASSUME MarketTypeOK, Runs, NEW c \in Turns \cup Orders, Submits(c), NEW k \in Jobs, Submit(c, k),
         c \in Orders => Asked(c) < Len(Team[c])
  PROVE  MarketTypeOK'
<1>1. /\ balance \in [Peas -> Nat] /\ spent \in [Peas -> 0..DailyLimit]
      /\ depth \in [Peas -> 0..MaxDepth] /\ budget \in [Peas -> {None} \cup Nat] /\ mixed \subseteq Turns
      /\ job \in [Jobs -> States] /\ tries \in [Jobs -> 0..MaxAttempts]
      /\ escrow \in [Jobs \cup Orders -> {"none", "open", "paid", "refunded", "refused"}]
      /\ order \in [Orders -> OrderRow]
      /\ \A o \in Orders : Len(order[o].quality) <= Len(Team[o])
  BY MarketTypes
<1>2. /\ balance' \in [Peas -> Nat] /\ spent' \in [Peas -> 0..DailyLimit]
      /\ escrow' \in [Jobs \cup Orders -> {"none", "open", "paid", "refunded", "refused"}]
  <2>1. k \in Jobs \cup Orders /\ k.from \in Peas /\ k.amount \in Nat
    BY JobFacts
  <2>2. CASE Opens(k, k.from, k.amount)
    BY <1>1, <2>1, <2>2, SubmitCases, OpensEffect
  <2>3. CASE UNCHANGED <<escrow, balance>>
    BY <1>1, <2>3, SubmitCases
  <2>. QED BY <2>2, <2>3, SubmitCases
<1>3. CASE Returned(c, k)
  <2>1. UNCHANGED <<job, tries, depth, budget, mixed>>
    BY <1>3 DEF Returned, context
  <2>2. turn' \in [Turns -> TurnRow] /\ order' \in [Orders -> OrderRow]
    BY <1>3, ReturnedEffect
  <2>3. ASSUME NEW o \in Orders PROVE Len(order'[o].quality) <= Len(Team[o])
    <3>1. CASE o = c
      <4>1. PICK q : q = order[c].quality
        OBVIOUS
      <4>2. q \in Seq(Gates) /\ Len(q) < Len(Team[c]) /\ Len(Team[c]) \in Nat
        BY <1>1, <3>1, <4>1, TeamFacts DEF OrderRow, Asked
      <4>3. PICK g : g = Quality(job[k])
        OBVIOUS
      <4>4. g \in Gates
        BY <4>3 DEF Quality, Gates
      <4>5. Len(Append(q, g)) <= Len(Team[c])
        BY <4>2, <4>4
      <4>6. order'[c].quality = Append(q, g)
        BY <1>3, <3>1, <4>1, <4>3, ReturnedEffect
      <4>. QED BY <3>1, <4>5, <4>6
    <3>2. CASE o # c
      <4>1. order'[o] = order[o]
        BY <1>3, <3>2, ReturnedEffect
      <4>. QED BY <1>1, <4>1
    <3>. QED BY <3>1, <3>2
  <2>. QED BY <1>1, <1>2, <2>1, <2>2, <2>3, MarketTypesNext
<1>4. ASSUME NEW i \in Jobs, Ran(c, k, i) PROVE MarketTypeOK'
  <2>1. depth' \in [Peas -> 0..MaxDepth] /\ budget' \in [Peas -> {None} \cup Nat] /\ mixed' \subseteq Turns
    BY <1>4, ContextEffect DEF Ran
  <2>2. job' \in [Jobs -> States] /\ tries' \in [Jobs -> 0..MaxAttempts]
    <3>1. tries[i] + 1 \in 0..MaxAttempts
      <4>1. tries[i] \in 0..MaxAttempts /\ tries[i] < MaxAttempts /\ MaxAttempts \in Nat
        BY <1>1, <1>4, MarketAssumption DEF Ran, Runs
      <4>. QED BY <4>1
    <3>. QED BY <1>1, <1>4, <3>1 DEF Ran
  <2>3. turn' \in [Turns -> TurnRow] /\ order' \in [Orders -> OrderRow]
    BY <1>4, RanEffect
  <2>4. ASSUME NEW o \in Orders PROVE Len(order'[o].quality) <= Len(Team[o])
    <3>1. order'[o].quality = order[o].quality
      BY <1>4, RanEffect
    <3>. QED BY <1>1, <3>1
  <2>. QED BY <1>2, <2>1, <2>2, <2>3, <2>4, MarketTypesNext
<1>. QED BY <1>3, <1>4, SubmitCases

\* ... the match of jobs and turns, ...
LEMMA SubmitRuns ==
  ASSUME MarketTypeOK, Runs, NEW c \in Turns \cup Orders, Submits(c), NEW k \in Jobs, Submit(c, k)
  PROVE  Runs'
<1>1. Jobs \subseteq Turns /\ tries \in [Jobs -> 0..MaxAttempts]
  BY TurnFacts, MarketTypes
<1>2. CASE Returned(c, k)
  <2>1. UNCHANGED <<job, tries>>
    BY <1>2 DEF Returned
  <2>2. \A u \in Turns : Busy(u)' <=> Busy(u)
    BY <1>2, ReturnedEffect, SubmitterFacts DEF Busy
  <2>. QED BY <1>1, <2>1, <2>2 DEF Runs
<1>3. ASSUME NEW i \in Jobs, Ran(c, k, i) PROVE Runs'
  <2>1. \A u \in Turns : u # i => (Busy(u)' <=> Busy(u))
    BY <1>3, RanEffect, SubmitterFacts DEF Busy
  <2>2. Busy(i)'
    BY <1>3, RanEffect DEF Busy
  <2>3. /\ job'[i] = "running"
        /\ \A j \in Jobs : j # i => job'[j] = job[j] \/ (job[j] = "absent" /\ job'[j] = "queued")
        /\ \A j \in Jobs : j # i => tries'[j] = tries[j]
    BY <1>1, <1>3 DEF Ran
  <2>. QED BY <1>1, <2>1, <2>2, <2>3 DEF Runs
<1>. QED BY <1>2, <1>3, SubmitCases

\* ... who waits for whom, ...
LEMMA SubmitCallers ==
  ASSUME MarketTypeOK, Runs, Callers, NEW c \in Turns \cup Orders, Submits(c), NEW k \in Jobs, Submit(c, k)
  PROVE  Callers'
<1>1. /\ \A t \in Turns : turn[t].caller \in {None} \cup Turns \cup Orders
      /\ Turns \cap Orders = {} /\ None \notin Turns
  BY MarketTypes, TurnFacts DEF TurnRow
<1>2. /\ \A t \in Turns : Busy(t) /\ turn[t].caller # None => Awaits(turn[t].caller)
      /\ \A t, u \in Turns : Busy(t) /\ Busy(u) /\ turn[t].caller # None /\ turn[t].caller = turn[u].caller => t = u
      /\ \A t \in Turns : turn[t].at \in {"selecting", "waiting"} => turn[t].want \in Jobs
  BY DEF Callers
<1>3. ~Awaits(c) /\ (c \in Turns => Busy(c))
  BY SubmitterFacts
<1>4. \A t \in Turns : Busy(t) /\ turn[t].caller # None => turn[t].caller # c
  BY <1>2, <1>3
<1>5. CASE Returned(c, k)
  <2>1. /\ \A u \in Turns : turn'[u].caller = turn[u].caller
        /\ \A u \in Turns : u # c => turn'[u] = turn[u]
        /\ c \in Turns => turn'[c].at = "thinking"
        /\ \A o \in Orders : o # c => order'[o] = order[o]
    BY <1>5, ReturnedEffect
  <2>2. \A u \in Turns : Busy(u)' <=> Busy(u)
    BY <1>3, <2>1 DEF Busy
  <2>3. \A d \in Turns \cup Orders : d # c => (Awaits(d)' <=> Awaits(d))
    BY <2>1 DEF Awaits
  <2>4. \A t \in Turns : Busy(t)' /\ turn'[t].caller # None => Awaits(turn[t].caller)'
    BY <1>1, <1>2, <1>4, <2>1, <2>2, <2>3
  <2>5. \A t \in Turns : turn'[t].at \in {"selecting", "waiting"} => turn'[t].want \in Jobs
    BY <1>2, <2>1
  <2>. QED BY <1>2, <2>1, <2>2, <2>4, <2>5 DEF Callers
<1>6. ASSUME NEW i \in Jobs, Ran(c, k, i) PROVE Callers'
  <2>1. /\ i \in Turns /\ i # c /\ ~Busy(i)
        /\ turn'[i].at = "thinking" /\ turn'[i].caller = c
        /\ \A u \in Turns : u # i /\ u # c => turn'[u] = turn[u]
        /\ c \in Turns => /\ turn'[c].at = "waiting" /\ turn'[c].want = k /\ turn'[c].caller = turn[c].caller
        /\ \A o \in Orders : o # c => order'[o] = order[o]
        /\ c \in Orders => order'[c].at = "waiting"
    BY <1>6, RanEffect
  <2>2. \A u \in Turns : u # i => (Busy(u)' <=> Busy(u)) /\ turn'[u].caller = turn[u].caller
    BY <1>3, <2>1 DEF Busy
  <2>3. \A d \in Turns \cup Orders : Awaits(d) => Awaits(d)'
    BY <1>1, <1>3, <2>1 DEF Awaits, Busy
  <2>4. Awaits(c)'
    BY <1>1, <2>1 DEF Awaits
  <2>5. ASSUME NEW t \in Turns, Busy(t)', turn'[t].caller # None PROVE Awaits(turn[t].caller)'
    <3>1. PICK d : d = turn'[t].caller
      OBVIOUS
    <3>2. Awaits(d)'
      <4>1. CASE t = i
        BY <2>1, <2>4, <3>1, <4>1
      <4>2. CASE t # i
        BY <1>1, <1>2, <2>2, <2>3, <2>5, <3>1, <4>2
      <4>. QED BY <4>1, <4>2
    <3>. QED BY <3>1, <3>2 DEF Awaits
  <2>6. ASSUME NEW t \in Turns, NEW u \in Turns, Busy(t)', Busy(u)', turn'[t].caller # None,
               turn'[t].caller = turn'[u].caller
        PROVE  t = u
    BY <1>2, <1>4, <2>1, <2>2, <2>6
  <2>7. \A t \in Turns : turn'[t].at \in {"selecting", "waiting"} => turn'[t].want \in Jobs
    BY <1>2, <2>1
  <2>. QED BY <2>5, <2>6, <2>7 DEF Callers
<1>. QED BY <1>5, <1>6, SubmitCases

\* ... what orders know of their members, ...
LEMMA SubmitAwards ==
  ASSUME MarketTypeOK, Runs, Awards, NEW c \in Turns \cup Orders, Submits(c), NEW k \in Jobs, Submit(c, k),
         c \in Orders => /\ Asked(c) < Len(Team[c])
                         /\ k \in JobsOfOrders /\ k.to = Team[c][Asked(c) + 1] /\ k.from = Payer[c]
  PROVE  Awards'
<1>1. order \in [Orders -> OrderRow] /\ job \in [Jobs -> States]
  BY MarketTypes
<1>2. \A o \in Orders : escrow'[o] = escrow[o]
  <2>1. k \notin Orders /\ k \in Jobs \cup Orders /\ k.from \in Peas /\ k.amount \in Nat
    BY JobFacts
  <2>2. CASE Opens(k, k.from, k.amount)
    <3>1. \A d \in Jobs \cup Orders : d # k => escrow'[d] = escrow[d]
      BY <2>1, <2>2, OpensEffect
    <3>. QED BY <2>1, <3>1
  <2>3. CASE UNCHANGED <<escrow, balance>>
    BY <2>3
  <2>. QED BY <2>2, <2>3, SubmitCases
<1>3. \A j \in Jobs : job[j] \in Gates => job'[j] = job[j]
  <2>1. CASE Returned(c, k)
    BY <2>1 DEF Returned
  <2>2. ASSUME NEW i \in Jobs, Ran(c, k, i) PROVE \A j \in Jobs : job[j] \in Gates => job'[j] = job[j]
    BY <2>2 DEF Ran, Gates
  <2>. QED BY <2>1, <2>2, SubmitCases
<1>4. \A o \in Orders : o # c => order'[o] = order[o]
  BY RanEffect, ReturnedEffect, SubmitCases
<1>5. \A o \in Orders : Progress(o) /\ Answers(o) /\ Deserved(o)
  BY DEF Awards
<1>6. ASSUME NEW o \in Orders, o # c PROVE Progress(o)' /\ Answers(o)' /\ Deserved(o)'
  <2>1. order'[o] = order[o] /\ escrow'[o] = escrow[o]
    BY <1>2, <1>4, <1>6
  <2>. QED BY <1>3, <1>5, <2>1, SameAward
<1>7. ASSUME c \in Orders PROVE Progress(c)' /\ Answers(c)' /\ Deserved(c)'
  <2>1. order[c].at = "asking" /\ escrow'[c] = "open"
    BY <1>2, <1>5, <1>7 DEF Submits, Progress
  <2>2. Deserved(c)'
    BY <2>1 DEF Deserved
  <2>3. CASE Returned(c, k)
    <3>1. order' \in [Orders -> OrderRow] /\ order'[c].at = "asking"
          /\ order'[c].quality = Append(order[c].quality, Quality(job[k])) /\ job'[k] = job[k]
      BY <1>7, <2>3, ReturnedEffect DEF Returned
    <3>2. Progress(c)'
      BY <2>1, <3>1 DEF Progress
    <3>3. Answers(c)'
      BY <1>1, <1>3, <1>5, <1>7, <3>1, OneMoreAnswer
    <3>. QED BY <2>2, <3>2, <3>3
  <2>4. ASSUME NEW i \in Jobs, Ran(c, k, i) PROVE Progress(c)' /\ Answers(c)' /\ Deserved(c)'
    <3>1. order'[c].at = "waiting" /\ order'[c].asks = k /\ order'[c].quality = order[c].quality
      BY <1>7, <2>4, RanEffect
    <3>2. Progress(c)'
      BY <1>7, <2>1, <3>1 DEF Progress, Asked
    <3>3. Answers(c)'
      <4>1. \A m, v : v \subseteq Gates /\ CameTo(c, m, v) => CameTo(c, m, v)'
        BY <1>3, VerdictsStay
      <4>2. {"passed"} \subseteq Gates /\ {"failed"} \subseteq Gates
        BY DEF Gates
      <4>. QED BY <1>5, <1>7, <3>1, <4>1, <4>2 DEF Answers, Asked
    <3>. QED BY <2>2, <3>2, <3>3
  <2>. QED BY <2>3, <2>4, SubmitCases
<1>. QED BY <1>6, <1>7 DEF Awards

\* ... the budgets of turns, ...
LEMMA SubmitLimits ==
  ASSUME MarketTypeOK, Runs, Limits, NEW c \in Turns \cup Orders, Submits(c), NEW k \in Jobs, Submit(c, k)
  PROVE  Limits'
<1>1. \A t \in JobsHandedOn : /\ t \in Jobs /\ t \in Turns /\ t.to \in Peas /\ t.amount \in Nat /\ Pea(t) = t.to
  BY JobFacts DEF Jobs
<1>2. CASE Returned(c, k)
  <2>1. \A u \in Turns : (Busy(u)' <=> Busy(u)) /\ turn'[u].handed = turn[u].handed
    BY <1>2, ReturnedEffect, SubmitterFacts DEF Busy
  <2>2. UNCHANGED <<budget, mixed>>
    BY <1>2 DEF Returned, context
  <2>. QED BY <1>1, <2>1, <2>2 DEF Limits
<1>3. ASSUME NEW i \in Jobs, Ran(c, k, i) PROVE Limits'
  <2>1. ~Busy(i) /\ turn'[i].handed = 0
        /\ \A u \in Turns : u # i => (Busy(u)' <=> Busy(u)) /\ turn'[u].handed = turn[u].handed
    BY <1>3, RanEffect, SubmitterFacts DEF Busy
  <2>2. /\ i \in JobsHandedOn => budget'[i.to] = i.amount
        /\ \A p \in Peas : p # i.to => budget'[p] = budget[p]
        /\ \A t \in Turns : t # i /\ t \notin mixed' => t \notin mixed
        /\ \A t \in Turns : Pea(t) = i.to /\ Busy(t) => t \in mixed'
    BY <1>3, ContextEffect DEF Ran
  <2>3. ASSUME NEW t \in JobsHandedOn, t \notin mixed', Busy(t)'
        PROVE  budget'[t.to] \in Nat /\ turn'[t].handed + budget'[t.to] <= t.amount
    <3>1. CASE t = i
      BY <1>1, <2>1, <2>2, <3>1
    <3>2. CASE t # i
      <4>1. Busy(t) /\ turn'[t].handed = turn[t].handed
        BY <1>1, <2>1, <2>3, <3>2
      <4>2. t \notin mixed /\ t.to # i.to
        BY <1>1, <2>2, <2>3, <3>2, <4>1
      <4>3. budget'[t.to] = budget[t.to]
        BY <1>1, <2>2, <4>2
      <4>. QED BY <4>1, <4>2, <4>3 DEF Limits
    <3>. QED BY <3>1, <3>2
  <2>. QED BY <2>3 DEF Limits
<1>. QED BY <1>2, <1>3, SubmitCases

\* ... and the money.
LEMMA WorthIsNat == \A e \in Jobs \cup Orders : Worth(e) \in Nat
  BY JobFacts, TeamFacts DEF Worth

LEMMA MoneyOpens ==
  ASSUME MarketTypeOK, MarketTypeOK', Money, NEW e \in Jobs \cup Orders, escrow[e] # "open", NEW p \in Peas, NEW x,
         x = Worth(e), Opens(e, p, x)
  PROVE  Money'
<1>1. /\ balance \in [Peas -> Nat] /\ balance' \in [Peas -> Nat] /\ x \in Nat /\ IsFiniteSet(Peas)
  BY MarketTypes, MarketTypesNext, WorthIsNat, MarketAssumption
<1>2. /\ \A d \in Jobs \cup Orders : d # e => escrow'[d] = escrow[d]
      /\ x <= balance[p] => escrow'[e] = "open"
      /\ x > balance[p] => escrow'[e] = "refused"
  BY <1>1, OpensEffect
<1>3. CASE x <= balance[p]
  <2>1. PICK w : w = [d \in Escrowed |-> Worth(d)]
    OBVIOUS
  <2>2. PICK v : v = [d \in Escrowed' |-> Worth(d)]
    OBVIOUS
  <2>3. Escrowed' = Escrowed \cup {e} /\ e \notin Escrowed
    BY <1>2, <1>3 DEF Escrowed
  <2>4. DOMAIN w = Escrowed /\ DOMAIN v = Escrowed \cup {e} /\ IsFiniteSet(Escrowed)
    BY <2>1, <2>2, <2>3 DEF Money
  <2>5. v[e] = x /\ \A d \in Escrowed : v[d] = w[d] /\ w[d] \in Int
    BY <2>1, <2>2, <2>3, WorthIsNat DEF Escrowed
  <2>6. SumFunction(v) = SumFunction(w) + x
    BY <1>1, <2>3, <2>4, <2>5, SumFunctionGrows
  <2>7. balance' = [balance EXCEPT ![p] = balance[p] - x]
    BY <1>3 DEF Opens
  <2>8. SumFunction(balance') = SumFunction(balance) + balance'[p] - balance[p]
    <3>1. DOMAIN balance = Peas /\ DOMAIN balance' = Peas
      BY <1>1
    <3>2. \A d \in Peas : balance[d] \in Int /\ balance'[d] \in Int
      BY <1>1
    <3>3. \A d \in Peas \ {p} : balance'[d] = balance[d]
      BY <1>1, <2>7
    <3>. QED BY <1>1, <3>1, <3>2, <3>3, SumFunctionChange
  <2>9. balance'[p] = balance[p] - x
    BY <1>1, <2>7
  <2>10. /\ SumFunction(balance) \in Nat /\ SumFunction(w) \in Nat /\ balance[p] \in Nat
         /\ SumFunction(balance) + SumFunction(w) = SumFunction(Balance)
    <3>1. SumFunction(balance) \in Nat
      BY <1>1, SumFunctionNat
    <3>2. SumFunction(w) \in Nat
      BY <2>1, <2>4, WorthIsNat, SumFunctionNat DEF Escrowed
    <3>. QED BY <1>1, <2>1, <3>1, <3>2 DEF Money, MoneyKept
  <2>11. SumFunction(balance') + SumFunction(v) = SumFunction(Balance)
    BY <1>1, <2>6, <2>8, <2>9, <2>10
  <2>12. IsFiniteSet(Escrowed')
    BY <2>3, <2>4, FS_AddElement
  <2>. QED BY <2>2, <2>11, <2>12 DEF Money, MoneyKept
<1>4. CASE ~(x <= balance[p])
  <2>1. balance' = balance
    BY <1>4 DEF Opens
  <2>2. Escrowed' = Escrowed
    BY <1>1, <1>2, <1>4 DEF Escrowed
  <2>3. [d \in Escrowed' |-> Worth(d)] = [d \in Escrowed |-> Worth(d)]
    BY <2>2
  <2>. QED BY <2>1, <2>2, <2>3 DEF Money, MoneyKept
<1>. QED BY <1>3, <1>4

\* An escrow is settled: what it held goes to balances.
LEMMA MoneySettles ==
  ASSUME MarketTypeOK, MarketTypeOK', Money, NEW e \in Jobs \cup Orders, escrow[e] = "open",
         NEW st, st # "open", escrow' = [escrow EXCEPT ![e] = st],
         SumFunction(balance') = SumFunction(balance) + Worth(e)
  PROVE  Money'
<1>1. PICK w : w = [d \in Escrowed |-> Worth(d)]
  OBVIOUS
<1>2. PICK v : v = [d \in Escrowed' |-> Worth(d)]
  OBVIOUS
<1>3. escrow \in [Jobs \cup Orders -> {"none", "open", "paid", "refunded", "refused"}]
      /\ balance \in [Peas -> Nat] /\ IsFiniteSet(Peas)
  BY MarketTypes, MarketAssumption
<1>4. Escrowed = Escrowed' \cup {e} /\ e \notin Escrowed'
  BY <1>3 DEF Escrowed
<1>5. IsFiniteSet(Escrowed) /\ IsFiniteSet(Escrowed')
  BY <1>4, FS_Subset DEF Money
<1>6. w[e] = Worth(e) /\ Worth(e) \in Nat /\ \A d \in Escrowed' : w[d] = v[d] /\ v[d] \in Int
  BY <1>1, <1>2, <1>4, WorthIsNat DEF Escrowed
<1>7. SumFunction(w) = SumFunction(v) + Worth(e)
  <2>1. DOMAIN v = Escrowed' /\ DOMAIN w = Escrowed' \cup {e}
    BY <1>1, <1>2, <1>4
  <2>. QED BY <1>4, <1>5, <1>6, <2>1, SumFunctionGrows
<1>8. SumFunction(v) \in Nat /\ SumFunction(balance) \in Nat
  <2>1. SumFunction(v) \in Nat
    <3>1. DOMAIN v = Escrowed' /\ \A d \in Escrowed' : v[d] \in Nat
      BY <1>2, <1>3, <1>4, WorthIsNat DEF Escrowed
    <3>. QED BY <1>5, <3>1, SumFunctionNat
  <2>2. SumFunction(balance) \in Nat
    BY <1>3, SumFunctionNat
  <2>. QED BY <2>1, <2>2
<1>9. SumFunction(balance) + SumFunction(w) = SumFunction(Balance)
  BY <1>1 DEF Money, MoneyKept
<1>10. SumFunction(balance') + SumFunction(v) = SumFunction(Balance)
  BY <1>6, <1>7, <1>8, <1>9
<1>. QED BY <1>2, <1>5, <1>10 DEF Money, MoneyKept

LEMMA MoneyStays ==
  ASSUME Money, UNCHANGED <<escrow, balance>>
  PROVE  Money'
<1>1. Escrowed' = Escrowed
  BY DEF Escrowed
<1>2. [d \in Escrowed' |-> Worth(d)] = [d \in Escrowed |-> Worth(d)]
  BY <1>1
<1>. QED BY <1>1, <1>2 DEF Money, MoneyKept

LEMMA SubmitMoney ==
  ASSUME MarketTypeOK, MarketTypeOK', Money, NEW c \in Turns \cup Orders, NEW k \in Jobs, Submit(c, k)
  PROVE  Money'
<1>1. k.from \in Peas /\ k \notin Orders /\ Worth(k) = k.amount
  BY JobFacts DEF Worth
<1>2. CASE escrow[k] = "none" /\ Opens(k, k.from, k.amount)
  BY <1>1, <1>2, MoneyOpens
<1>3. CASE UNCHANGED <<escrow, balance>>
  BY <1>3, MoneyStays
<1>. QED BY <1>2, <1>3, SubmitCases

\* A submission keeps the invariant.
LEMMA SubmitKeeps ==
  ASSUME MarketInv, NEW c \in Turns \cup Orders, Submits(c), NEW k \in Jobs, Submit(c, k),
         c \in Orders => /\ Asked(c) < Len(Team[c])
                         /\ k \in JobsOfOrders /\ k.to = Team[c][Asked(c) + 1] /\ k.from = Payer[c]
  PROVE  MarketInv'
<1>1. MarketTypeOK /\ Runs /\ Callers /\ Awards /\ Limits /\ Money
  BY DEF MarketInv
<1>2. MarketTypeOK'
  BY <1>1, SubmitTypes
<1>. QED BY <1>1, <1>2, SubmitRuns, SubmitCallers, SubmitAwards, SubmitLimits, SubmitMoney DEF MarketInv

(***************************************************************************)
(* The end of a turn                                                       *)
(***************************************************************************)
\* Who has asked for a turn that thinks is another one, and waits for it alone.
LEMMA AskerFacts ==
  ASSUME MarketTypeOK, Callers, Awards, NEW t \in Turns, turn[t].at = "thinking", turn[t].caller # None
  PROVE  /\ turn[t].caller \in Turns \cup Orders /\ turn[t].caller # t /\ Awaits(turn[t].caller)
         /\ \A u \in Turns : u # t /\ Busy(u) => turn[u].caller # turn[t].caller
         /\ turn[t].caller \in Turns => turn[turn[t].caller].want \in Jobs
         /\ turn[t].caller \in Orders => order[turn[t].caller].asks \in JobsOfOrders
<1>1. turn \in [Turns -> TurnRow] /\ Busy(t)
  BY MarketTypes DEF Busy
<1>2. turn[t].caller \in Turns \cup Orders
  BY <1>1 DEF TurnRow
<1>3. PICK c \in Turns \cup Orders : c = turn[t].caller
  BY <1>2
<1>4. Awaits(c)
  BY <1>1, <1>3 DEF Callers
<1>5. c # t
  BY <1>4, TurnFacts DEF Awaits
<1>6. \A u \in Turns : u # t /\ Busy(u) => turn[u].caller # c
  BY <1>1, <1>3 DEF Callers
<1>7. c \in Turns => turn[c].want \in Jobs
  BY <1>4, TurnFacts DEF Awaits, Callers
<1>8. c \in Orders => order[c].asks \in JobsOfOrders
  BY <1>4 DEF Awaits, Awards, Progress
<1>. QED BY <1>3, <1>4, <1>5, <1>6, <1>7, <1>8

\* A turn that nobody waits for ends ...
LEMMA OverForOwner ==
  ASSUME MarketTypeOK, NEW t \in Turns, turn[t].caller = None, NEW st \in States, Over(t, st)
  PROVE  /\ job' \in [Jobs -> States] /\ turn' \in [Turns -> TurnRow] /\ order' = order
         /\ \A j \in Jobs : j # t => job'[j] = job[j]
         /\ t \in Jobs => job'[t] = st
         /\ turn'[t].at = "idle" /\ \A u \in Turns : u # t => turn'[u] = turn[u]
<1>1. job \in [Jobs -> States] /\ turn \in [Turns -> TurnRow]
  BY MarketTypes
<1>3. Quiet \in TurnRow /\ Quiet.at = "idle"
  <2>1. 0 \in 0..MaxSteps
    BY MarketAssumption
  <2>. QED BY <2>1 DEF Quiet, TurnRow
<1>4. /\ job' = IF t \in Jobs THEN [job EXCEPT ![t] = st] ELSE job
      /\ turn' = [turn EXCEPT ![t] = Quiet] /\ order' = order
  BY DEF Over
<1>6. turn' \in [Turns -> TurnRow] /\ turn'[t].at = "idle" /\ \A u \in Turns : u # t => turn'[u] = turn[u]
  BY <1>1, <1>3, <1>4
<1>7. /\ job' \in [Jobs -> States] /\ \A j \in Jobs : j # t => job'[j] = job[j]
      /\ t \in Jobs => job'[t] = st
  BY <1>1, <1>4
<1>. QED BY <1>4, <1>6, <1>7

\* An order that has asked job k of a member has the answer.
Hears(o, k) == order'[o].at = "asking" /\ order'[o].quality = Append(order[o].quality, Quality(job'[k]))

\* ... or one that somebody waits for, who has the answer.
LEMMA OverForAsker ==
  ASSUME MarketTypeOK, Callers, Awards, NEW t \in Turns, turn[t].at = "thinking", NEW st \in States, Over(t, st),
         NEW c \in Turns \cup Orders, c = turn[t].caller, c # None
  PROVE  /\ job' \in [Jobs -> States] /\ turn' \in [Turns -> TurnRow] /\ order' \in [Orders -> OrderRow]
         /\ \A j \in Jobs : j # t => job'[j] = job[j]
         /\ t \in Jobs => job'[t] = st
         /\ turn'[t].at = "idle" /\ \A u \in Turns : u # t /\ u # c => turn'[u] = turn[u]
         /\ c \in Turns => /\ turn'[c].at = "thinking"
                           /\ turn'[c].caller = turn[c].caller /\ turn'[c].handed = turn[c].handed
         /\ \A o \in Orders : o # c => order'[o] = order[o]
         /\ c \in Orders => Hears(c, order[c].asks)
<1>1. job \in [Jobs -> States] /\ turn \in [Turns -> TurnRow] /\ order \in [Orders -> OrderRow]
  BY MarketTypes
<1>2. c # t /\ Awaits(c) /\ (c \in Turns => turn[c].want \in Jobs) /\ (c \in Orders => order[c].asks \in Jobs)
  BY AskerFacts DEF Jobs
<1>3. Quiet \in TurnRow /\ Quiet.at = "idle"
  <2>1. 0 \in 0..MaxSteps
    BY MarketAssumption
  <2>. QED BY <2>1 DEF Quiet, TurnRow
<1>4. PICK tn : tn = [turn EXCEPT ![t] = Quiet]
  OBVIOUS
<1>5. PICK js : js = IF t \in Jobs THEN [job EXCEPT ![t] = st] ELSE job
  OBVIOUS
<1>6. PICK k : k = IF c \in Orders THEN order[c].asks ELSE turn[c].want
  OBVIOUS
<1>7. job' = js /\ Return(c, js[k], tn)
  BY <1>4, <1>5, <1>6 DEF Over
<1>8. tn \in [Turns -> TurnRow] /\ tn[t].at = "idle" /\ \A u \in Turns : u # t => tn[u] = turn[u]
  BY <1>1, <1>3, <1>4
<1>9. /\ js \in [Jobs -> States] /\ \A j \in Jobs : j # t => js[j] = job[j]
      /\ t \in Jobs => js[t] = st
  BY <1>1, <1>5
<1>10. js[k] \in States
  BY <1>2, <1>6, <1>9
<1>11. /\ turn' \in [Turns -> TurnRow] /\ order' \in [Orders -> OrderRow]
       /\ \A u \in Turns : turn'[u].caller = tn[u].caller /\ turn'[u].handed = tn[u].handed
       /\ \A u \in Turns : u # c => turn'[u] = tn[u]
       /\ c \in Turns => turn'[c].at = "thinking"
       /\ \A o \in Orders : o # c => order'[o] = order[o]
       /\ c \in Orders => order'[c].at = "asking" /\ order'[c].quality = Append(order[c].quality, Quality(js[k]))
  BY <1>1, <1>7, <1>8, <1>10, ReturnEffect
<1>12. c \in Orders => Hears(c, order[c].asks)
  BY <1>6, <1>7, <1>11 DEF Hears
<1>. QED BY <1>2, <1>7, <1>8, <1>9, <1>11, <1>12

\* What all ends of turns have in common.
Ends(t, st) ==
  /\ t \in Turns /\ turn[t].at = "thinking" /\ st \in States \ {"running", "absent"} /\ Over(t, st)
  /\ st = "queued" /\ t \in Jobs => tries[t] < MaxAttempts
  /\ \A o \in Orders : escrow'[o] = escrow[o]
  /\ UNCHANGED <<context, tries>>

LEMMA EndRuns ==
  ASSUME MarketTypeOK, Runs, Callers, Awards, NEW t, NEW st, Ends(t, st)
  PROVE  Runs' /\ job' \in [Jobs -> States] /\ turn' \in [Turns -> TurnRow] /\ order' \in [Orders -> OrderRow]
<1>1. t \in Turns /\ turn[t].at = "thinking" /\ st \in States /\ Over(t, st) /\ tries' = tries
      /\ st # "running" /\ st # "absent" /\ (st = "queued" /\ t \in Jobs => tries[t] < MaxAttempts)
  BY DEF Ends
<1>2. order \in [Orders -> OrderRow] /\ Jobs \subseteq Turns
  BY MarketTypes, TurnFacts
<1>3. /\ job' \in [Jobs -> States] /\ turn' \in [Turns -> TurnRow] /\ order' \in [Orders -> OrderRow]
      /\ \A j \in Jobs : j # t => job'[j] = job[j]
      /\ t \in Jobs => job'[t] = st
      /\ turn'[t].at = "idle" /\ \A u \in Turns : u # t => (Busy(u)' <=> Busy(u))
  <2>1. CASE turn[t].caller = None
    BY <1>1, <1>2, <2>1, OverForOwner DEF Busy
  <2>2. CASE turn[t].caller # None
    <3>1. PICK c \in Turns \cup Orders : c = turn[t].caller /\ Awaits(c)
      BY <1>1, <2>2, AskerFacts
    <3>2. c \in Turns => Busy(c)
      BY <3>1, TurnFacts DEF Awaits, Busy
    <3>. QED BY <1>1, <2>2, <3>1, <3>2, OverForAsker DEF Busy
  <2>. QED BY <2>1, <2>2
<1>4. ~Busy(t)'
  BY <1>3 DEF Busy
<1>5. Runs'
  BY <1>1, <1>2, <1>3, <1>4 DEF Runs
<1>. QED BY <1>3, <1>5

LEMMA EndCallers ==
  ASSUME MarketTypeOK, Callers, Awards, NEW t, NEW st, Ends(t, st)
  PROVE  Callers'
<1>1. t \in Turns /\ turn[t].at = "thinking" /\ st \in States /\ Over(t, st) /\ ~Awaits(t)
  BY TurnFacts DEF Ends, Awaits
<1>2. /\ \A u \in Turns : turn[u].caller \in {None} \cup Turns \cup Orders
      /\ Turns \cap Orders = {} /\ None \notin Turns
  BY MarketTypes, TurnFacts DEF TurnRow
<1>3. /\ \A u \in Turns : Busy(u) /\ turn[u].caller # None => Awaits(turn[u].caller)
      /\ \A u, v \in Turns : Busy(u) /\ Busy(v) /\ turn[u].caller # None /\ turn[u].caller = turn[v].caller => u = v
      /\ \A u \in Turns : turn[u].at \in {"selecting", "waiting"} => turn[u].want \in Jobs
  BY DEF Callers
<1>4. CASE turn[t].caller = None
  <2>1. order' = order /\ turn'[t].at = "idle" /\ \A u \in Turns : u # t => turn'[u] = turn[u]
    BY <1>1, <1>4, OverForOwner
  <2>2. \A u \in Turns : Busy(u)' => Busy(u) /\ u # t /\ turn'[u].caller = turn[u].caller
    BY <2>1 DEF Busy
  <2>3. \A d \in Turns \cup Orders : Awaits(d) => Awaits(d)'
    BY <1>1, <1>2, <2>1 DEF Awaits
  <2>4. \A u \in Turns : Busy(u)' /\ turn'[u].caller # None => Awaits(turn[u].caller)'
    BY <1>2, <1>3, <2>2, <2>3
  <2>5. \A u \in Turns : turn'[u].at \in {"selecting", "waiting"} => turn'[u].want \in Jobs
    BY <1>3, <2>1
  <2>6. \A u, v \in Turns : Busy(u)' /\ Busy(v)' /\ turn'[u].caller # None /\ turn'[u].caller = turn'[v].caller => u = v
    BY <1>3, <2>2
  <2>. QED BY <2>4, <2>5, <2>6 DEF Callers
<1>5. CASE turn[t].caller # None
  <2>1. PICK c \in Turns \cup Orders : c = turn[t].caller
    BY <1>1, <1>5, AskerFacts
  <2>2. c # t /\ Awaits(c) /\ \A u \in Turns : u # t /\ Busy(u) => turn[u].caller # c
    BY <1>1, <1>5, <2>1, AskerFacts
  <2>3. /\ turn'[t].at = "idle" /\ \A u \in Turns : u # t /\ u # c => turn'[u] = turn[u]
        /\ c \in Turns => turn'[c].at = "thinking" /\ turn'[c].caller = turn[c].caller
        /\ \A o \in Orders : o # c => order'[o] = order[o]
    BY <1>1, <1>5, <2>1, OverForAsker
  <2>4. c \in Turns => Busy(c)
    BY <1>2, <2>2 DEF Awaits, Busy
  <2>5. \A u \in Turns : Busy(u)' => Busy(u) /\ u # t /\ turn'[u].caller = turn[u].caller
    BY <2>3, <2>4 DEF Busy
  <2>6. \A d \in Turns \cup Orders : Awaits(d) /\ d # c => Awaits(d)'
    BY <1>1, <1>2, <2>3 DEF Awaits
  <2>7. \A u \in Turns : Busy(u)' /\ turn'[u].caller # None => Awaits(turn[u].caller)'
    BY <1>2, <1>3, <2>2, <2>5, <2>6
  <2>8. \A u \in Turns : turn'[u].at \in {"selecting", "waiting"} => turn'[u].want \in Jobs
    BY <1>3, <2>3
  <2>9. \A u, v \in Turns : Busy(u)' /\ Busy(v)' /\ turn'[u].caller # None /\ turn'[u].caller = turn'[v].caller => u = v
    BY <1>3, <2>5
  <2>. QED BY <2>7, <2>8, <2>9 DEF Callers
<1>. QED BY <1>4, <1>5

LEMMA EndAwards ==
  ASSUME MarketTypeOK, Runs, Callers, Awards, NEW t, NEW st, Ends(t, st)
  PROVE  Awards' /\ \A o \in Orders : Len(order'[o].quality) <= Len(Team[o])
<1>1. t \in Turns /\ turn[t].at = "thinking" /\ st \in States /\ Over(t, st) /\ \A o \in Orders : escrow'[o] = escrow[o]
  BY DEF Ends
<1>2. order \in [Orders -> OrderRow] /\ order' \in [Orders -> OrderRow]
      /\ \A o \in Orders : Len(order[o].quality) <= Len(Team[o])
  BY MarketTypes, EndRuns
<1>3. \A j \in Jobs : job[j] \in Gates => job'[j] = job[j]
  <2>1. t \in Jobs => job[t] = "running"
    BY <1>1 DEF Runs, Busy
  <2>2. \A j \in Jobs : j # t => job'[j] = job[j]
    <3>1. CASE turn[t].caller = None
      BY <1>1, <3>1, OverForOwner
    <3>2. CASE turn[t].caller # None
      BY <1>1, <3>2, OverForAsker, AskerFacts
    <3>. QED BY <3>1, <3>2
  <2>. QED BY <2>1, <2>2 DEF Gates
<1>4. ASSUME NEW o \in Orders, order'[o] = order[o]
      PROVE  (Progress(o) /\ Answers(o) /\ Deserved(o))' /\ Len(order'[o].quality) <= Len(Team[o])
  <2>1. Progress(o) /\ Answers(o) /\ Deserved(o)
    BY DEF Awards
  <2>2. Len(order'[o].quality) <= Len(Team[o])
    BY <1>2, <1>4
  <2>. QED BY <1>1, <1>3, <1>4, <2>1, <2>2, SameAward
<1>5. ASSUME NEW o \in Orders, o = turn[t].caller
      PROVE  (Progress(o) /\ Answers(o) /\ Deserved(o))' /\ Len(order'[o].quality) <= Len(Team[o])
  <2>1. o # None /\ o \in Turns \cup Orders
    BY CallerAssumption
  <2>2. Awaits(o) /\ order[o].at = "waiting"
    BY <1>1, <1>5, <2>1, AskerFacts DEF Awaits
  <2>3. PICK k : k = order[o].asks
    OBVIOUS
  <2>4. order'[o].at = "asking" /\ order'[o].quality = Append(order[o].quality, Quality(job'[k]))
    <3>1. Hears(o, order[o].asks)
      BY <1>1, <1>5, <2>1, OverForAsker
    <3>. QED BY <2>3, <3>1 DEF Hears
  <2>5. /\ k \in JobsOfOrders /\ Asked(o) < Len(Team[o]) /\ k.to = Team[o][Asked(o) + 1] /\ k.from = Payer[o]
        /\ escrow'[o] = "open" /\ Answers(o)
    BY <1>1, <2>2, <2>3 DEF Awards, Progress
  <2>6. Answers(o)' /\ Asked(o)' <= Len(Team[o])
    BY <1>2, <1>3, <2>4, <2>5, OneMoreAnswer
  <2>7. Progress(o)'
    BY <2>4, <2>5 DEF Progress
  <2>8. Deserved(o)'
    BY <2>5 DEF Deserved
  <2>. QED BY <2>6, <2>7, <2>8 DEF Asked
<1>6. ASSUME NEW o \in Orders PROVE o = turn[t].caller \/ order'[o] = order[o]
  <2>1. CASE turn[t].caller = None
    BY <1>1, <2>1, OverForOwner
  <2>2. CASE turn[t].caller # None
    BY <1>1, <2>2, OverForAsker, AskerFacts
  <2>. QED BY <2>1, <2>2
<1>. QED BY <1>4, <1>5, <1>6 DEF Awards

LEMMA EndLimits ==
  ASSUME MarketTypeOK, Callers, Awards, Limits, NEW t, NEW st, Ends(t, st)
  PROVE  Limits'
<1>1. t \in Turns /\ turn[t].at = "thinking" /\ st \in States /\ Over(t, st) /\ UNCHANGED <<budget, mixed>>
  BY DEF Ends, context
<1>2. \A u \in Turns : Busy(u)' => Busy(u) /\ turn'[u].handed = turn[u].handed
  <2>1. CASE turn[t].caller = None
    BY <1>1, <2>1, OverForOwner DEF Busy
  <2>2. CASE turn[t].caller # None
    <3>1. PICK c \in Turns \cup Orders : c = turn[t].caller /\ Awaits(c)
      BY <1>1, <2>2, AskerFacts
    <3>2. c \in Turns => Busy(c)
      BY <3>1, TurnFacts DEF Awaits, Busy
    <3>3. /\ turn'[t].at = "idle" /\ \A u \in Turns : u # t /\ u # c => turn'[u] = turn[u]
          /\ c \in Turns => turn'[c].handed = turn[c].handed
      BY <1>1, <2>2, <3>1, OverForAsker
    <3>. QED BY <3>2, <3>3 DEF Busy
  <2>. QED BY <2>1, <2>2
<1>3. \A u \in JobsHandedOn : u \in Turns
  BY JobFacts DEF Jobs
<1>. QED BY <1>1, <1>2, <1>3 DEF Limits

\* The escrow of a job is released or refunded, or there is none to settle.
LEMMA SettleEffect ==
  ASSUME MarketTypeOK, NEW t \in Turns, NEW st \in {"paid", "refunded"}, NEW to \in Peas, Settle(t, st, to)
  PROVE  /\ balance' \in [Peas -> Nat]
         /\ escrow' \in [Jobs \cup Orders -> {"none", "open", "paid", "refunded", "refused"}]
         /\ \A o \in Orders : escrow'[o] = escrow[o]
         /\ \/ UNCHANGED <<escrow, balance>>
            \/ /\ t \in Jobs /\ escrow[t] = "open" /\ escrow' = [escrow EXCEPT ![t] = st]
               /\ SumFunction(balance') = SumFunction(balance) + Worth(t)
<1>1. balance \in [Peas -> Nat] /\ IsFiniteSet(Peas)
      /\ escrow \in [Jobs \cup Orders -> {"none", "open", "paid", "refunded", "refused"}]
  BY MarketTypes, MarketAssumption
<1>2. CASE t \in Jobs /\ escrow[t] = "open"
  <2>1. escrow' = [escrow EXCEPT ![t] = st] /\ balance' = [balance EXCEPT ![to] = balance[to] + t.amount]
    BY <1>2 DEF Settle
  <2>2. t.amount \in Nat /\ t \notin Orders /\ Worth(t) = t.amount
    BY <1>2, JobFacts DEF Worth
  <2>3. /\ balance' \in [Peas -> Nat] /\ balance'[to] = balance[to] + t.amount
        /\ \A p \in Peas \ {to} : balance'[p] = balance[p]
    BY <1>1, <2>1, <2>2
  <2>4. SumFunction(balance') = SumFunction(balance) + balance'[to] - balance[to]
    <3>1. DOMAIN balance = Peas /\ DOMAIN balance' = Peas
      BY <1>1, <2>3
    <3>2. \A p \in Peas : balance[p] \in Int /\ balance'[p] \in Int
      BY <1>1, <2>3
    <3>. QED BY <1>1, <2>3, <3>1, <3>2, SumFunctionChange
  <2>5. SumFunction(balance) \in Nat
    BY <1>1, SumFunctionNat
  <2>6. SumFunction(balance') = SumFunction(balance) + Worth(t)
    BY <1>1, <2>2, <2>3, <2>4, <2>5
  <2>7. /\ escrow' \in [Jobs \cup Orders -> {"none", "open", "paid", "refunded", "refused"}]
        /\ \A o \in Orders : escrow'[o] = escrow[o]
    BY <1>1, <1>2, <2>1, <2>2
  <2>. QED BY <1>2, <2>1, <2>3, <2>6, <2>7
<1>3. CASE ~(t \in Jobs /\ escrow[t] = "open")
  <2>1. UNCHANGED <<escrow, balance>>
    BY <1>3 DEF Settle
  <2>. QED BY <1>1, <2>1
<1>. QED BY <1>2, <1>3

LEMMA EndKeeps ==
  ASSUME MarketInv, NEW t \in Turns, End(t)
  PROVE  MarketInv'
<1>1. MarketTypeOK /\ Runs /\ Callers /\ Awards /\ Limits /\ Money /\ turn[t].at = "thinking"
      /\ spent' = spent /\ UNCHANGED context /\ tries' = tries
  BY DEF MarketInv, End
<1>2. PICK g \in Gates \cup {"manual", "queued", "error"} :
        /\ Over(t, g) /\ (g = "queued" /\ t \in Jobs => tries[t] < MaxAttempts)
        /\ \/ UNCHANGED <<escrow, balance>>
           \/ \E s \in {"paid", "refunded"}, to \in Peas : Settle(t, s, to)
  <2>1. CASE \E g \in Gates : Deliver(t, g)
    BY <2>1, TurnFacts DEF Deliver, Gates
  <2>2. CASE AskOwner(t)
    BY <2>2 DEF AskOwner
  <2>3. CASE Raise(t)
    <3>1. CASE t \in Jobs /\ tries[t] < MaxAttempts
      BY <2>3, <3>1 DEF Raise
    <3>2. CASE ~(t \in Jobs /\ tries[t] < MaxAttempts)
      BY <2>3, <3>2, JobFacts DEF Raise
    <3>. QED BY <3>1, <3>2
  <2>. QED BY <2>1, <2>2, <2>3 DEF End
<1>3. g \in States \ {"running", "absent"}
  BY DEF Gates, States
<1>4. /\ balance' \in [Peas -> Nat]
      /\ escrow' \in [Jobs \cup Orders -> {"none", "open", "paid", "refunded", "refused"}]
      /\ \A o \in Orders : escrow'[o] = escrow[o]
  BY <1>1, <1>2, SettleEffect, MarketTypes
<1>5. Ends(t, g)
  BY <1>1, <1>2, <1>3, <1>4 DEF Ends
<1>6. /\ Runs' /\ Callers' /\ Awards' /\ Limits'
      /\ job' \in [Jobs -> States] /\ turn' \in [Turns -> TurnRow] /\ order' \in [Orders -> OrderRow]
      /\ \A o \in Orders : Len(order'[o].quality) <= Len(Team[o])
  BY <1>1, <1>5, EndRuns, EndCallers, EndAwards, EndLimits
<1>7. /\ spent' \in [Peas -> 0..DailyLimit] /\ depth' \in [Peas -> 0..MaxDepth]
      /\ budget' \in [Peas -> {None} \cup Nat] /\ mixed' \subseteq Turns /\ tries' \in [Jobs -> 0..MaxAttempts]
  BY <1>1, MarketTypes DEF context
<1>8. MarketTypeOK'
  BY <1>4, <1>6, <1>7, MarketTypesNext
<1>9. Money'
  <2>1. CASE UNCHANGED <<escrow, balance>>
    BY <1>1, <2>1, MoneyStays
  <2>2. ASSUME NEW s \in {"paid", "refunded"}, NEW to \in Peas, Settle(t, s, to),
               t \in Jobs, escrow[t] = "open", escrow' = [escrow EXCEPT ![t] = s],
               SumFunction(balance') = SumFunction(balance) + Worth(t)
        PROVE  Money'
    BY <1>1, <1>8, <2>2, MoneySettles
  <2>. QED BY <1>1, <1>2, <2>1, <2>2, SettleEffect
<1>. QED BY <1>6, <1>8, <1>9 DEF MarketInv

(***************************************************************************)
(* The other steps of turns                                                *)
(***************************************************************************)
\* A turn begins or goes on without waiting for anybody, and jobs, orders and
\* escrows stay what they are.
Moves(t, row) ==
  /\ t \in Turns /\ row \in TurnRow /\ turn' = [turn EXCEPT ![t] = row]
  /\ turn[t].at # "waiting" /\ row.at \in {"thinking", "selecting"}
  /\ Busy(t) \/ t \in Owned
  /\ row.caller = turn[t].caller /\ (Busy(t) \/ row.caller = None)
  /\ row.at = "selecting" => row.want \in Jobs
  /\ UNCHANGED <<depth, mixed, table, escrow, order>>

LEMMA MovesEffect ==
  ASSUME MarketTypeOK, NEW t, NEW row, Moves(t, row)
  PROVE  /\ t \in Turns /\ turn' \in [Turns -> TurnRow] /\ turn'[t] = row /\ Busy(t)'
         /\ \A u \in Turns : u # t => turn'[u] = turn[u] /\ (Busy(u)' <=> Busy(u))
         /\ t \in Jobs => Busy(t)
         /\ \A u \in Turns : turn'[u].caller = turn[u].caller
         /\ UNCHANGED <<depth, mixed, job, tries, escrow, order>>
<1>1. turn \in [Turns -> TurnRow] /\ t \in Turns /\ row \in TurnRow /\ turn' = [turn EXCEPT ![t] = row]
  BY MarketTypes DEF Moves
<1>2. turn' \in [Turns -> TurnRow] /\ turn'[t] = row /\ \A u \in Turns : u # t => turn'[u] = turn[u]
  BY <1>1
<1>3. Busy(t)' /\ \A u \in Turns : u # t => (Busy(u)' <=> Busy(u))
  BY <1>1, <1>2 DEF Moves, Busy
<1>4. t \in Jobs => Busy(t)
  BY CallerAssumption, MarketAssumption DEF Moves
<1>5. \A u \in Turns : turn'[u].caller = turn[u].caller
  BY <1>1, <1>2 DEF Moves
<1>6. UNCHANGED <<depth, mixed, job, tries, escrow, order>>
  BY DEF Moves, table
<1>. QED BY <1>1, <1>2, <1>3, <1>4, <1>5, <1>6

LEMMA MovesKeeps ==
  ASSUME MarketInv, NEW t, NEW row, Moves(t, row),
         balance' \in [Peas -> Nat], spent' \in [Peas -> 0..DailyLimit], budget' \in [Peas -> {None} \cup Nat],
         SumFunction(balance') = SumFunction(balance), Limits'
  PROVE  MarketInv'
<1>1. MarketTypeOK /\ Runs /\ Callers /\ Awards /\ Limits /\ Money
  BY DEF MarketInv
<1>2. /\ t \in Turns /\ turn' \in [Turns -> TurnRow] /\ turn'[t] = row /\ Busy(t)'
      /\ \A u \in Turns : u # t => turn'[u] = turn[u] /\ (Busy(u)' <=> Busy(u))
      /\ t \in Jobs => Busy(t)
      /\ \A u \in Turns : turn'[u].caller = turn[u].caller
      /\ UNCHANGED <<depth, mixed, job, tries, escrow, order>>
  BY <1>1, MovesEffect
<1>3. MarketTypeOK'
  BY <1>1, <1>2, MarketTypes, MarketTypesNext
<1>4. Runs'
  <2>1. \A k \in Jobs : k \in Turns /\ (Busy(k)' <=> Busy(k))
    BY <1>2, TurnFacts
  <2>. QED BY <1>1, <1>2, <2>1 DEF Runs
<1>5. Callers'
  <2>1. \A d \in Turns \cup Orders : Awaits(d) => Awaits(d)'
    BY <1>2 DEF Awaits, Moves
  <2>2. \A u \in Turns : turn[u].caller \in {None} \cup Turns \cup Orders
    BY <1>1, MarketTypes DEF TurnRow
  <2>3. Busy(t) \/ turn[t].caller = None
    BY DEF Moves
  <2>4. \A u \in Turns : Busy(u)' /\ turn'[u].caller # None => Busy(u)
    BY <1>2, <2>3
  <2>5. \A u \in Turns : Busy(u)' /\ turn'[u].caller # None => Awaits(turn[u].caller)'
    BY <1>1, <1>2, <2>1, <2>2, <2>4 DEF Callers
  <2>6. \A u, v \in Turns : Busy(u)' /\ Busy(v)' /\ turn'[u].caller # None /\ turn'[u].caller = turn'[v].caller => u = v
    BY <1>1, <1>2, <2>4 DEF Callers
  <2>7. \A u \in Turns : turn'[u].at \in {"selecting", "waiting"} => turn'[u].want \in Jobs
    BY <1>1, <1>2 DEF Callers, Moves
  <2>. QED BY <1>2, <2>5, <2>6, <2>7 DEF Callers
<1>6. Awards'
  <2>1. \A o \in Orders : Progress(o)' /\ Answers(o)' /\ Deserved(o)'
    BY <1>1, <1>2, SameAward DEF Awards
  <2>. QED BY <2>1 DEF Awards
<1>7. Money'
  <2>1. Escrowed' = Escrowed
    BY <1>2 DEF Escrowed
  <2>2. [d \in Escrowed' |-> Worth(d)] = [d \in Escrowed |-> Worth(d)]
    BY <2>1
  <2>. QED BY <1>1, <2>1, <2>2 DEF Money, MoneyKept
<1>. QED BY <1>3, <1>4, <1>5, <1>6, <1>7 DEF MarketInv

\* A turn that spends nothing from its harness's budget has handed on no more.
LEMMA MovesLimits ==
  ASSUME MarketInv, NEW t, NEW row, Moves(t, row), row.handed = turn[t].handed, budget' = budget
  PROVE  Limits'
<1>1. MarketTypeOK /\ Limits
  BY DEF MarketInv
<1>2. /\ turn'[t] = row /\ mixed' = mixed /\ (t \in Jobs => Busy(t))
      /\ \A u \in Turns : u # t => turn'[u] = turn[u] /\ (Busy(u)' <=> Busy(u))
  BY <1>1, MovesEffect
<1>3. \A u \in JobsHandedOn : u \in Jobs /\ u \in Turns
  BY JobFacts DEF Jobs
<1>. QED BY <1>1, <1>2, <1>3 DEF Limits

LEMMA StartTurnKeeps ==
  ASSUME MarketInv, NEW p \in Owned, StartTurn(p)
  PROVE  MarketInv'
<1>1. MarketTypeOK /\ p \in Turns /\ turn[p] = Quiet
  BY TurnFacts DEF MarketInv, StartTurn
<1>2. PICK row : row = [Quiet EXCEPT !.at = "thinking"]
  OBVIOUS
<1>3. /\ row \in TurnRow /\ row.at = "thinking" /\ row.caller = None /\ row.handed = 0
      /\ Quiet.at = "idle" /\ Quiet.caller = None /\ Quiet.handed = 0
  <2>1. 0 \in 0..MaxSteps
    BY MarketAssumption
  <2>. QED BY <1>2, <2>1 DEF Quiet, TurnRow
<1>4. turn' = [turn EXCEPT ![p] = row]
  <2>1. turn' = [turn EXCEPT ![p] = [turn[p] EXCEPT !.at = "thinking"]]
    BY DEF StartTurn
  <2>. QED BY <1>1, <1>2, <2>1
<1>5. Moves(p, row)
  BY <1>1, <1>3, <1>4 DEF Moves, StartTurn, context
<1>6. UNCHANGED <<balance, spent, budget>>
  BY DEF StartTurn, ledger, context
<1>7. Limits'
  BY <1>1, <1>3, <1>5, <1>6, MovesLimits
<1>. QED BY <1>1, <1>5, <1>6, <1>7, MovesKeeps, MarketTypes

LEMMA GiveUpKeeps ==
  ASSUME MarketInv, NEW t \in Turns, turn[t].at = "selecting",
         turn' = [turn EXCEPT ![t].at = "thinking", ![t].want = None],
         UNCHANGED <<ledger, context, table, escrow, order>>
  PROVE  MarketInv'
<1>1. MarketTypeOK /\ turn \in [Turns -> TurnRow]
  BY MarketTypes DEF MarketInv
<1>2. PICK row : row = [turn[t] EXCEPT !.at = "thinking", !.want = None]
  OBVIOUS
<1>3. turn[t] \in TurnRow /\ row \in TurnRow /\ row.at = "thinking" /\ row.caller = turn[t].caller /\ row.handed = turn[t].handed
  BY <1>1, <1>2 DEF TurnRow
<1>4. turn' = [turn EXCEPT ![t] = row]
  BY <1>1, <1>2
<1>5. Moves(t, row)
  BY <1>3, <1>4 DEF Moves, Busy, context
<1>6. UNCHANGED <<balance, spent, budget>>
  BY DEF ledger, context
<1>7. Limits'
  BY <1>3, <1>5, <1>6, MovesLimits
<1>. QED BY <1>1, <1>5, <1>6, <1>7, MovesKeeps, MarketTypes

LEMMA PayKeeps ==
  ASSUME MarketInv, NEW t \in Turns, NEW x \in Amounts, NEW to \in Payees, Pay(t, x, to)
  PROVE  MarketInv'
<1>1. MarketTypeOK /\ turn \in [Turns -> TurnRow] /\ balance \in [Peas -> Nat] /\ spent \in [Peas -> 0..DailyLimit]
      /\ budget \in [Peas -> {None} \cup Nat]
  BY MarketTypes DEF MarketInv
<1>2. PICK p : p = Pea(t)
  OBVIOUS
<1>3. p \in Peas /\ to \in Peas /\ to # p /\ x \in Nat /\ DailyLimit \in Nat /\ MaxSteps \in Nat
      /\ x <= balance[p] /\ x <= DailyLimit - spent[p] /\ IsFiniteSet(Peas)
  BY <1>2, TurnFacts, MarketAssumption DEF Pay, MaySpend
<1>4. /\ turn[t].at = "thinking" /\ turn[t].steps < MaxSteps
      /\ turn' = [turn EXCEPT ![t].steps = turn[t].steps + 1]
      /\ balance' = [balance EXCEPT ![p] = balance[p] - x, ![to] = balance[to] + x]
      /\ spent' = [spent EXCEPT ![p] = spent[p] + x]
      /\ UNCHANGED <<context, table, escrow, order>>
  BY <1>1, <1>2, <1>3 DEF Pay, MayStep
<1>5. PICK row : row = [turn[t] EXCEPT !.steps = turn[t].steps + 1]
  OBVIOUS
<1>6. turn[t] \in TurnRow /\ row \in TurnRow /\ row.at = "thinking" /\ row.caller = turn[t].caller /\ row.handed = turn[t].handed
  <2>1. turn[t] \in TurnRow /\ turn[t].steps + 1 \in 0..MaxSteps
    <3>1. turn[t] \in TurnRow /\ turn[t].steps \in 0..MaxSteps
      BY <1>1 DEF TurnRow
    <3>. QED BY <1>3, <1>4, <3>1
  <2>. QED BY <1>4, <1>5, <2>1 DEF TurnRow
<1>7. turn' = [turn EXCEPT ![t] = row]
  BY <1>1, <1>4, <1>5
<1>8. Moves(t, row)
  BY <1>4, <1>6, <1>7 DEF Moves, Busy, context
<1>9. PICK mid : mid = [balance EXCEPT ![p] = balance[p] - x]
  OBVIOUS
<1>10. balance[p] \in Nat /\ balance[to] \in Nat /\ balance[p] - x \in Nat
  BY <1>1, <1>3
<1>11. /\ mid \in [Peas -> Nat] /\ mid[p] = balance[p] - x /\ mid[to] = balance[to]
       /\ \A q \in Peas \ {p} : mid[q] = balance[q]
  BY <1>1, <1>3, <1>9, <1>10
<1>12. /\ balance' \in [Peas -> Nat] /\ balance'[to] = balance[to] + x
       /\ \A q \in Peas \ {to} : balance'[q] = mid[q]
  BY <1>1, <1>3, <1>4, <1>9, <1>10
<1>13. SumFunction(mid) = SumFunction(balance) + mid[p] - balance[p]
  <2>1. DOMAIN balance = Peas /\ DOMAIN mid = Peas /\ \A q \in Peas : balance[q] \in Int /\ mid[q] \in Int
    BY <1>1, <1>11
  <2>. QED BY <1>3, <1>11, <2>1, SumFunctionChange
<1>14. SumFunction(balance') = SumFunction(mid) + balance'[to] - mid[to]
  <2>1. DOMAIN balance' = Peas /\ DOMAIN mid = Peas /\ \A q \in Peas : balance'[q] \in Int /\ mid[q] \in Int
    BY <1>11, <1>12
  <2>. QED BY <1>3, <1>12, <2>1, SumFunctionChange
<1>15. SumFunction(balance') = SumFunction(balance)
  <2>1. SumFunction(balance) \in Nat
    BY <1>1, <1>3, SumFunctionNat
  <2>. QED BY <1>3, <1>10, <1>11, <1>12, <1>13, <1>14, <2>1
<1>16. spent' \in [Peas -> 0..DailyLimit]
  <2>1. spent[p] + x \in 0..DailyLimit
    <3>1. spent[p] \in 0..DailyLimit
      BY <1>1, <1>3
    <3>. QED BY <1>3, <3>1
  <2>. QED BY <1>1, <1>3, <1>4, <2>1
<1>17. budget' = budget
  BY <1>4 DEF context
<1>18. Limits'
  BY <1>6, <1>8, <1>17, MovesLimits
<1>. QED BY <1>1, <1>8, <1>12, <1>15, <1>16, <1>17, <1>18, MovesKeeps

LEMMA DelegateKeeps ==
  ASSUME MarketInv, NEW t \in Turns, NEW k \in JobsHandedOn, Delegate(t, k)
  PROVE  MarketInv'
<1>1. MarketTypeOK /\ Limits /\ turn \in [Turns -> TurnRow] /\ budget \in [Peas -> {None} \cup Nat]
  BY MarketTypes DEF MarketInv
<1>2. PICK p : p = Pea(t)
  OBVIOUS
<1>3. p \in Peas /\ k \in Jobs /\ k.amount \in Nat /\ None \notin Nat /\ MaxSteps \in Nat
  BY <1>2, TurnFacts, JobFacts, MarketAssumption, CallerAssumption DEF Jobs
<1>4. PICK x : x = k.amount
  OBVIOUS
<1>5. PICK row : row = [turn[t] EXCEPT !.at = "selecting", !.want = k, !.steps = turn[t].steps + 1, !.handed = turn[t].handed + x]
  OBVIOUS
<1>6. /\ turn[t].at = "thinking" /\ turn[t].steps < MaxSteps
      /\ budget[p] # None => x <= budget[p]
      /\ budget' = IF budget[p] = None THEN budget ELSE [budget EXCEPT ![p] = budget[p] - x]
      /\ turn' = [turn EXCEPT ![t].at = "selecting", ![t].want = k, ![t].steps = turn[t].steps + 1, ![t].handed = turn[t].handed + x]
      /\ UNCHANGED <<ledger, depth, mixed, table, escrow, order>>
  BY <1>1, <1>2, <1>4 DEF Delegate, MayStep, MayDelegate, Deducted
<1>7. /\ turn[t] \in TurnRow /\ row \in TurnRow /\ row.at = "selecting" /\ row.caller = turn[t].caller
      /\ row.want = k /\ row.handed = turn[t].handed + x /\ turn[t].handed \in Nat
  <2>1. turn[t] \in TurnRow /\ turn[t].steps + 1 \in 0..MaxSteps /\ turn[t].handed \in Nat /\ turn[t].handed + x \in Nat
    <3>1. turn[t] \in TurnRow /\ turn[t].steps \in 0..MaxSteps /\ turn[t].handed \in Nat
      BY <1>1 DEF TurnRow
    <3>. QED BY <1>3, <1>4, <1>6, <3>1
  <2>. QED BY <1>3, <1>5, <2>1 DEF TurnRow
<1>8. turn' = [turn EXCEPT ![t] = row]
  BY <1>1, <1>5, <1>6
<1>9. Moves(t, row)
  BY <1>3, <1>6, <1>7, <1>8 DEF Moves, Busy
<1>10. budget' \in [Peas -> {None} \cup Nat]
  BY <1>1, <1>3, <1>4, <1>6
<1>11. ASSUME NEW u \in JobsHandedOn, u \notin mixed', Busy(u)'
       PROVE  budget'[u.to] \in Nat /\ turn'[u].handed + budget'[u.to] <= u.amount
  <2>1. u \in Jobs /\ u \in Turns /\ u.to \in Peas /\ u.amount \in Nat /\ Pea(u) = u.to
    BY JobFacts DEF Jobs
  <2>2. Busy(u) /\ u \notin mixed /\ turn'[u].handed = IF u = t THEN turn[t].handed + x ELSE turn[u].handed
    BY <1>1, <1>7, <1>9, <1>11, <2>1, MovesEffect
  <2>3. budget[u.to] \in Nat /\ turn[u].handed + budget[u.to] <= u.amount /\ turn[u].handed \in Nat
    BY <1>1, <2>1, <2>2 DEF Limits, TurnRow
  <2>4. CASE u.to = p
    <3>1. budget'[p] = budget[p] - x /\ x <= budget[p]
      BY <1>1, <1>3, <1>6, <2>3, <2>4
    <3>. QED BY <1>3, <1>4, <2>1, <2>2, <2>3, <2>4, <3>1
  <2>5. CASE u.to # p
    <3>1. u # t /\ budget'[u.to] = budget[u.to]
      BY <1>1, <1>2, <1>3, <1>6, <2>1, <2>5
    <3>. QED BY <2>2, <2>3, <3>1
  <2>. QED BY <2>4, <2>5
<1>12. Limits'
  BY <1>11 DEF Limits
<1>13. UNCHANGED <<balance, spent>>
  BY <1>6 DEF ledger
<1>. QED BY <1>1, <1>9, <1>10, <1>12, <1>13, MovesKeeps, MarketTypes

(***************************************************************************)
(* The other steps of joint orders                                         *)
(***************************************************************************)
\* An order that does not wait goes on, and its escrow and money may change.
LEMMA OrderKeeps ==
  ASSUME MarketInv, NEW o \in Orders, order[o].at # "waiting",
         NEW a \in {"asking", "assessing", "ended"}, order' = [order EXCEPT ![o].at = a],
         UNCHANGED <<spent, context, table, turn>>,
         balance' \in [Peas -> Nat],
         escrow' \in [Jobs \cup Orders -> {"none", "open", "paid", "refunded", "refused"}],
         \A d \in Orders : d # o => escrow'[d] = escrow[d],
         a \in {"asking", "assessing"} => escrow'[o] = "open",
         a = "assessing" => Asked(o) = Len(Team[o]) /\ Accepted(order[o].quality),
         Deserved(o)', MarketTypeOK' => Money'
  PROVE  MarketInv'
<1>1. MarketTypeOK /\ Runs /\ Callers /\ Awards /\ Limits /\ order \in [Orders -> OrderRow]
  BY MarketTypes DEF MarketInv
<1>2. UNCHANGED <<spent, depth, budget, mixed, job, tries, turn>>
  BY DEF context, table
<1>3. /\ order' \in [Orders -> OrderRow] /\ order'[o].at = a /\ order'[o].quality = order[o].quality
      /\ \A d \in Orders : d # o => order'[d] = order[d]
  BY <1>1 DEF OrderRow
<1>4. MarketTypeOK'
  <2>1. ASSUME NEW d \in Orders PROVE Len(order'[d].quality) <= Len(Team[d])
    <3>1. order'[d].quality = order[d].quality
      BY <1>3
    <3>. QED BY <1>1, <3>1, MarketTypes
  <2>. QED BY <1>1, <1>2, <1>3, <2>1, MarketTypes, MarketTypesNext
<1>5. Runs'
  BY <1>1, <1>2 DEF Runs, Busy
<1>6. Callers'
  <2>1. \A d \in Turns \cup Orders : Awaits(d) => Awaits(d)'
    BY <1>2, <1>3 DEF Awaits
  <2>2. \A u \in Turns : turn[u].caller \in {None} \cup Turns \cup Orders
    BY <1>1, MarketTypes DEF TurnRow
  <2>3. \A u \in Turns : (Busy(u)' <=> Busy(u)) /\ turn'[u] = turn[u]
    BY <1>2 DEF Busy
  <2>4. \A u \in Turns : Busy(u)' /\ turn'[u].caller # None => Awaits(turn[u].caller)'
    BY <1>1, <2>1, <2>2, <2>3 DEF Callers
  <2>. QED BY <1>1, <1>2, <2>3, <2>4 DEF Callers
<1>7. \A j \in Jobs : job[j] \in Gates => job'[j] = job[j]
  BY <1>2
<1>8. \A d \in Orders : Progress(d) /\ Answers(d) /\ Deserved(d)
  BY <1>1 DEF Awards
<1>9. Progress(o)'
  BY <1>2, <1>3, <1>8 DEF Progress, Asked
<1>10. Answers(o)'
  <2>1. \A m, v : v \subseteq Gates /\ CameTo(o, m, v) => CameTo(o, m, v)'
    BY <1>7, VerdictsStay
  <2>2. {"passed"} \subseteq Gates /\ {"failed"} \subseteq Gates
    BY DEF Gates
  <2>3. PICK q : q = order[o].quality
    OBVIOUS
  <2>4. order'[o].quality = q /\ Answers(o)
    BY <1>3, <1>8, <2>3
  <2>5. ASSUME NEW i \in 1..Len(q), NEW g \in {"passed", "failed"}, q[i] = g
        PROVE  CameTo(o, Team[o][i], {g})'
    <3>1. CameTo(o, Team[o][i], {g})
      BY <2>3, <2>4, <2>5 DEF Answers, Asked
    <3>. QED BY <2>1, <2>2, <3>1
  <2>. QED BY <2>4, <2>5 DEF Answers, Asked
<1>11. Awards'
  <2>1. \A d \in Orders : d # o => Progress(d)' /\ Answers(d)' /\ Deserved(d)'
    BY <1>3, <1>7, <1>8, SameAward
  <2>. QED BY <1>9, <1>10, <2>1 DEF Awards
<1>12. Limits'
  BY <1>1, <1>2 DEF Limits, Busy
<1>. QED BY <1>4, <1>5, <1>6, <1>11, <1>12 DEF MarketInv

\* An answer to an order is one about the job of a member.
LEMMA AnswerOfMember ==
  ASSUME MarketTypeOK, NEW o \in Orders, Answers(o), Asked(o) = Len(Team[o]),
         NEW g \in {"passed", "failed"}, NEW i \in 1..Len(Team[o]), order[o].quality[i] = g
  PROVE  CameTo(o, Team[o][i], {g})
  BY DEF Answers

LEMMA OpenOrderKeeps ==
  ASSUME MarketInv, NEW o \in Orders, OpenOrder(o)
  PROVE  MarketInv'
<1>1. MarketTypeOK /\ Money /\ Progress(o) /\ Deserved(o) /\ order \in [Orders -> OrderRow]
  BY MarketTypes DEF MarketInv, Awards
<1>2. Payer[o] \in Peas /\ Reward[o] \in Nat /\ Worth(o) = Reward[o] /\ order[o].at = "new" /\ escrow[o] = "none"
  BY <1>1, TeamFacts DEF OpenOrder, Progress, Worth
<1>3. /\ Opens(o, Payer[o], Reward[o]) /\ UNCHANGED <<spent, context, table, turn>>
      /\ order' = [order EXCEPT ![o].at = IF Reward[o] <= balance[Payer[o]] THEN "asking" ELSE "ended"]
  BY DEF OpenOrder
<1>4. /\ balance' \in [Peas -> Nat]
      /\ escrow' \in [Jobs \cup Orders -> {"none", "open", "paid", "refunded", "refused"}]
      /\ \A d \in Orders : d # o => escrow'[d] = escrow[d]
      /\ Reward[o] <= balance[Payer[o]] => escrow'[o] = "open"
      /\ Reward[o] > balance[Payer[o]] => escrow'[o] = "refused"
  BY <1>1, <1>2, <1>3, OpensEffect
<1>5. balance[Payer[o]] \in Nat
  BY <1>1, <1>2, MarketTypes
<1>6. PICK a \in {"asking", "ended"} : /\ order' = [order EXCEPT ![o].at = a]
                                      /\ a = "asking" => escrow'[o] = "open"
  BY <1>2, <1>3, <1>4
<1>7. Deserved(o)'
  BY <1>2, <1>4, <1>5 DEF Deserved
<1>8. MarketTypeOK' => Money'
  BY <1>1, <1>2, <1>3, MoneyOpens
<1>. QED BY <1>2, <1>3, <1>4, <1>6, <1>7, <1>8, OrderKeeps

LEMMA LoseMemberKeeps ==
  ASSUME MarketInv, NEW o \in Orders, LoseMember(o)
  PROVE  MarketInv'
<1>1. MarketTypeOK /\ Money /\ Progress(o) /\ Deserved(o) /\ order[o].at = "asking" /\ escrow[o] = "open"
  BY DEF MarketInv, Awards, LoseMember, Progress
<1>2. /\ order' = [order EXCEPT ![o].at = "ended"] /\ UNCHANGED <<balance, escrow>>
      /\ UNCHANGED <<spent, context, table, turn>>
  BY DEF LoseMember, ledger
<1>3. Deserved(o)'
  BY <1>1, <1>2 DEF Deserved
<1>4. Money'
  BY <1>1, <1>2, MoneyStays
<1>. QED BY <1>1, <1>2, <1>3, <1>4, OrderKeeps, MarketTypes

LEMMA JudgeKeeps ==
  ASSUME MarketInv, NEW o \in Orders, Judge(o)
  PROVE  MarketInv'
<1>1. /\ MarketTypeOK /\ Money /\ Progress(o) /\ Answers(o) /\ Deserved(o) /\ order[o].at = "asking" /\ escrow[o] = "open"
      /\ Asked(o) = Len(Team[o]) /\ UNCHANGED <<spent, context, table, turn>>
  BY DEF MarketInv, Awards, Judge, Progress
<1>2. PICK q : q = order[o].quality
  OBVIOUS
<1>3. PICK a \in {"assessing", "ended"} : order' = [order EXCEPT ![o].at = a] /\ (a = "assessing" => Accepted(q))
  BY <1>2 DEF Judge
<1>4. /\ balance \in [Peas -> Nat] /\ IsFiniteSet(Peas) /\ Payer[o] \in Peas /\ Reward[o] \in Nat /\ Worth(o) = Reward[o]
      /\ escrow \in [Jobs \cup Orders -> {"none", "open", "paid", "refunded", "refused"}]
  BY <1>1, MarketTypes, TeamFacts, MarketAssumption DEF Worth
<1>5. CASE Rejected(q) /\ ~Accepted(q)
  <2>1. /\ escrow' = [escrow EXCEPT ![o] = "refunded"] /\ a = "ended" /\ order' = [order EXCEPT ![o].at = "ended"]
        /\ balance' = [balance EXCEPT ![Payer[o]] = balance[Payer[o]] + Reward[o]]
    <3>1. /\ order' = [order EXCEPT ![o].at = "ended"] /\ escrow' = [escrow EXCEPT ![o] = "refunded"]
          /\ balance' = [balance EXCEPT ![Payer[o]] = balance[Payer[o]] + Reward[o]]
      BY <1>2, <1>5 DEF Judge
    <3>. QED BY <1>3, <1>5, <3>1
  <2>2. /\ balance' \in [Peas -> Nat] /\ balance'[Payer[o]] = balance[Payer[o]] + Reward[o]
        /\ \A p \in Peas \ {Payer[o]} : balance'[p] = balance[p]
    BY <1>4, <2>1
  <2>3. SumFunction(balance') = SumFunction(balance) + balance'[Payer[o]] - balance[Payer[o]]
    <3>1. DOMAIN balance = Peas /\ DOMAIN balance' = Peas
          /\ \A p \in Peas : balance[p] \in Int /\ balance'[p] \in Int
      BY <1>4, <2>2
    <3>. QED BY <1>4, <2>2, <3>1, SumFunctionChange
  <2>4. SumFunction(balance') = SumFunction(balance) + Worth(o)
    <3>1. SumFunction(balance) \in Nat /\ balance[Payer[o]] \in Nat
      BY <1>4, SumFunctionNat
    <3>. QED BY <1>4, <2>2, <2>3, <3>1
  <2>5. MarketTypeOK' => Money'
    BY <1>1, <2>1, <2>4, MoneySettles
  <2>6. Deserved(o)'
    <3>1. UNCHANGED job
      BY <1>1 DEF table
    <3>2. q \in Seq(Gates) /\ DOMAIN q = 1..Len(Team[o])
      <4>1. order[o].quality \in Seq(Gates)
        BY <1>1, MarketTypes DEF OrderRow
      <4>. QED BY <1>1, <1>2, <4>1 DEF Asked
    <3>3. \A i \in 1..Len(Team[o]) : q[i] \in {"passed", "failed"}
      BY <1>5, <3>2 DEF Rejected, Gates
    <3>4. \A i \in 1..Len(Team[o]) : CameTo(o, Team[o][i], {q[i]})
      BY <1>1, <1>2, <3>3, AnswerOfMember
    <3>5. \A m \in Members(o) : CameTo(o, m, {"passed", "failed"})
      <4>1. ASSUME NEW m \in Members(o) PROVE CameTo(o, m, {"passed", "failed"})
        <5>1. PICK i \in 1..Len(Team[o]) : m = Team[o][i]
          BY TeamFacts
        <5>. QED BY <3>3, <3>4, <5>1 DEF CameTo
      <4>. QED BY <4>1
    <3>6. \E m \in Members(o) : CameTo(o, m, {"failed"})
      <4>1. PICK i \in 1..Len(Team[o]) : q[i] = "failed"
        BY <1>5, <3>2 DEF Rejected
      <4>2. Team[o][i] \in Members(o)
        BY TeamFacts
      <4>. QED BY <3>4, <4>1, <4>2
    <3>7. escrow'[o] = "refunded"
      BY <1>4, <2>1
    <3>. QED BY <3>1, <3>5, <3>6, <3>7 DEF Deserved, CameTo
  <2>7. /\ escrow' \in [Jobs \cup Orders -> {"none", "open", "paid", "refunded", "refused"}]
        /\ \A d \in Orders : d # o => escrow'[d] = escrow[d]
    BY <1>4, <2>1
  <2>. QED BY <1>1, <2>1, <2>2, <2>5, <2>6, <2>7, OrderKeeps
<1>6. CASE ~(Rejected(q) /\ ~Accepted(q))
  <2>1. UNCHANGED <<escrow, balance>>
    BY <1>2, <1>6 DEF Judge
  <2>2. Deserved(o)'
    BY <1>1, <2>1 DEF Deserved
  <2>3. Money'
    BY <1>1, <2>1, MoneyStays
  <2>. QED BY <1>1, <1>2, <1>3, <1>4, <2>1, <2>2, <2>3, OrderKeeps
<1>. QED BY <1>5, <1>6

LEMMA SplitKeeps ==
  ASSUME MarketInv, NEW o \in Orders, Split(o)
  PROVE  MarketInv'
<1>1. /\ MarketTypeOK /\ Money /\ Progress(o) /\ Answers(o) /\ Deserved(o) /\ order[o].at = "assessing" /\ escrow[o] = "open"
      /\ order' = [order EXCEPT ![o].at = "ended"] /\ UNCHANGED <<spent, context, table, turn>>
      /\ Asked(o) = Len(Team[o]) /\ Accepted(order[o].quality)
  BY DEF MarketInv, Awards, Split, Progress
<1>2. /\ balance \in [Peas -> Nat] /\ IsFiniteSet(Peas) /\ Members(o) \subseteq Peas /\ Reward[o] \in Nat /\ Worth(o) = Reward[o]
      /\ escrow \in [Jobs \cup Orders -> {"none", "open", "paid", "refunded", "refused"}]
  BY <1>1, MarketTypes, TeamFacts, MarketAssumption DEF Worth
<1>3. ASSUME NEW f \in [Members(o) -> 1..Reward[o]], SumFunction(f) = Reward[o],
             escrow' = [escrow EXCEPT ![o] = "paid"],
             balance' = [p \in Peas |-> balance[p] + IF p \in Members(o) THEN f[p] ELSE 0]
      PROVE  MarketInv'
  <2>1. \A m \in Members(o) : f[m] \in Nat
    BY <1>2
  <2>2. balance' \in [Peas -> Nat]
    <3>1. \A p \in Peas : balance[p] + (IF p \in Members(o) THEN f[p] ELSE 0) \in Nat
      BY <1>2, <2>1
    <3>. QED BY <1>3, <3>1
  <2>3. SumFunction(balance') = SumFunction(balance) + Worth(o)
    <3>1. DOMAIN balance = Peas /\ DOMAIN balance' = Peas /\ DOMAIN f = Members(o)
      BY <1>2, <1>3
    <3>2. /\ \A p \in Peas : balance[p] \in Int /\ balance'[p] = balance[p] + IF p \in Members(o) THEN f[p] ELSE 0
          /\ \A p \in Members(o) : f[p] \in Int
      BY <1>2, <1>3, <2>1
    <3>3. SumFunction(balance') = SumFunction(balance) + SumFunction(f)
      BY <1>2, <3>1, <3>2, SumFunctionRaised
    <3>. QED BY <1>2, <1>3, <3>3
  <2>4. MarketTypeOK' => Money'
    BY <1>1, <1>3, <2>3, MoneySettles
  <2>5. Deserved(o)'
    <3>1. UNCHANGED job
      BY <1>1 DEF table
    <3>2. DOMAIN order[o].quality = 1..Len(Team[o])
      <4>1. order[o].quality \in Seq(Gates)
        BY <1>1, MarketTypes DEF OrderRow
      <4>. QED BY <1>1, <4>1 DEF Asked
    <3>3. \A m \in Members(o) : CameTo(o, m, {"passed"})
      <4>1. ASSUME NEW m \in Members(o) PROVE CameTo(o, m, {"passed"})
        <5>1. PICK i \in 1..Len(Team[o]) : m = Team[o][i]
          BY TeamFacts
        <5>2. order[o].quality[i] = "passed"
          BY <1>1, <3>2 DEF Accepted
        <5>. QED BY <1>1, <5>1, <5>2, AnswerOfMember
      <4>. QED BY <4>1
    <3>4. escrow'[o] = "paid"
      BY <1>2, <1>3
    <3>. QED BY <3>1, <3>3, <3>4 DEF Deserved, CameTo
  <2>6. /\ escrow' \in [Jobs \cup Orders -> {"none", "open", "paid", "refunded", "refused"}]
        /\ \A d \in Orders : d # o => escrow'[d] = escrow[d]
    BY <1>2, <1>3
  <2>. QED BY <1>1, <2>2, <2>4, <2>5, <2>6, OrderKeeps
<1>4. CASE UNCHANGED <<escrow, balance>>
  <2>1. Deserved(o)' /\ Money'
    BY <1>1, <1>4, MoneyStays DEF Deserved
  <2>. QED BY <1>1, <1>2, <1>4, <2>1, OrderKeeps
<1>. QED BY <1>3, <1>4 DEF Split

(***************************************************************************)
(* All steps                                                               *)
(***************************************************************************)
LEMMA SelectKeeps ==
  ASSUME MarketInv, NEW t \in Turns, Select(t)
  PROVE  MarketInv'
<1>1. turn[t].at = "selecting" /\ turn[t].want \in Jobs /\ t \notin Orders
  BY TurnFacts DEF Select, MarketInv, Callers
<1>2. CASE Submit(t, turn[t].want)
  <2>1. Submits(t)
    BY <1>1 DEF Submits
  <2>. QED BY <1>1, <1>2, <2>1, SubmitKeeps
<1>3. CASE /\ turn' = [turn EXCEPT ![t].at = "thinking", ![t].want = None]
           /\ UNCHANGED <<ledger, context, table, escrow, order>>
  BY <1>1, <1>3, GiveUpKeeps
<1>. QED BY <1>2, <1>3 DEF Select

LEMMA AskMemberKeeps ==
  ASSUME MarketInv, NEW o \in Orders, AskMember(o)
  PROVE  MarketInv'
<1>1. PICK k \in JobsOfOrders : k.to = Team[o][Asked(o) + 1] /\ k.from = Payer[o] /\ Submit(o, k)
  BY DEF AskMember
<1>2. Submits(o) /\ Asked(o) < Len(Team[o]) /\ k \in Jobs
  BY DEF AskMember, Submits, Jobs
<1>. QED BY <1>1, <1>2, SubmitKeeps

LEMMA IdleKeeps ==
  ASSUME MarketInv, UNCHANGED marketVars
  PROVE  MarketInv'
<1>1. UNCHANGED <<balance, spent, depth, budget, mixed, job, tries, escrow, turn, order>>
  BY DEF marketVars, ledger, context, table
<1>2. MarketTypeOK'
  BY <1>1, MarketTypes, MarketTypesNext DEF MarketInv
<1>3. Runs' /\ Limits'
  BY <1>1 DEF MarketInv, Runs, Limits, Busy
<1>4. Callers'
  BY <1>1 DEF MarketInv, Callers, Busy, Awaits
<1>5. Awards'
  BY <1>1, SameAward DEF MarketInv, Awards
<1>6. Money'
  BY <1>1, MoneyStays DEF MarketInv
<1>. QED BY <1>2, <1>3, <1>4, <1>5, <1>6 DEF MarketInv

LEMMA StepKeeps == MarketInv /\ [MarketNext]_marketVars => MarketInv'
<1> SUFFICES ASSUME MarketInv, [MarketNext]_marketVars PROVE MarketInv'
  OBVIOUS
<1>1. ASSUME NEW p \in Owned, StartTurn(p) PROVE MarketInv'
  BY <1>1, StartTurnKeeps
<1>2. ASSUME NEW t \in Turns, TurnStep(t) PROVE MarketInv'
  <2>1. ASSUME NEW k \in JobsHandedOn, Delegate(t, k) PROVE MarketInv'
    BY <2>1, DelegateKeeps
  <2>2. ASSUME NEW x \in Amounts, NEW to \in Payees, Pay(t, x, to) PROVE MarketInv'
    BY <2>2, PayKeeps
  <2>3. CASE Select(t)
    BY <2>3, SelectKeeps
  <2>4. CASE End(t)
    BY <2>4, EndKeeps
  <2>. QED BY <1>2, <2>1, <2>2, <2>3, <2>4 DEF TurnStep
<1>3. ASSUME NEW o \in Orders, OrderStep(o) PROVE MarketInv'
  BY <1>3, OpenOrderKeeps, AskMemberKeeps, LoseMemberKeeps, JudgeKeeps, SplitKeeps DEF OrderStep
<1>4. CASE UNCHANGED marketVars
  BY <1>4, IdleKeeps
<1>. QED BY <1>1, <1>2, <1>3, <1>4 DEF MarketNext

LEMMA InitHolds == MarketInit => MarketInv
<1> SUFFICES ASSUME MarketInit PROVE MarketInv
  OBVIOUS
<1>1. /\ MaxSteps \in Nat /\ MaxDepth \in Nat /\ MaxAttempts \in Nat \ {0} /\ DailyLimit \in Nat
      /\ Balance \in [Peas -> Nat] /\ IsFiniteSet(Peas)
  BY MarketAssumption
<1>2. Quiet \in TurnRow /\ Quiet.at = "idle"
  BY <1>1 DEF Quiet, TurnRow
<1>3. /\ balance = Balance /\ spent = [p \in Peas |-> 0] /\ depth = [p \in Peas |-> 0]
      /\ budget = [p \in Peas |-> None] /\ mixed = {}
      /\ job = [k \in Jobs |-> "absent"] /\ tries = [k \in Jobs |-> 0]
      /\ escrow = [e \in Jobs \cup Orders |-> "none"] /\ turn = [t \in Turns |-> Quiet]
      /\ order = [o \in Orders |-> [at |-> "new", asks |-> None, quality |-> <<>>]]
  BY DEF MarketInit
<1>4. \A t \in Turns : ~Busy(t)
  BY <1>2, <1>3 DEF Busy
<1>5. MarketTypeOK
  <2>1. order \in [Orders -> OrderRow] /\ \A o \in Orders : Len(order[o].quality) <= Len(Team[o])
    <3>1. \A o \in Orders : Len(Team[o]) \in Nat
      BY TeamFacts
    <3>. QED BY <1>3, <3>1 DEF OrderRow
  <2>2. /\ balance \in [Peas -> Nat] /\ spent \in [Peas -> 0..DailyLimit]
        /\ depth \in [Peas -> 0..MaxDepth] /\ budget \in [Peas -> {None} \cup Nat] /\ mixed \subseteq Turns
        /\ tries \in [Jobs -> 0..MaxAttempts] /\ turn \in [Turns -> TurnRow]
    BY <1>1, <1>2, <1>3
  <2>3. /\ job \in [Jobs -> States]
        /\ escrow \in [Jobs \cup Orders -> {"none", "open", "paid", "refunded", "refused"}]
    BY <1>3 DEF States
  <2>. QED BY <2>1, <2>2, <2>3, MarketTypes
<1>6. Runs
  BY <1>1, <1>3, <1>4, TurnFacts DEF Runs
<1>7. Callers
  BY <1>2, <1>3, <1>4 DEF Callers
<1>8. Awards
  <2>1. ASSUME NEW o \in Orders PROVE Progress(o) /\ Answers(o) /\ Deserved(o)
    <3>1. order[o].at = "new" /\ escrow[o] = "none" /\ Asked(o) = 0
      BY <1>3 DEF Asked
    <3>. QED BY <3>1 DEF Progress, Answers, Deserved
  <2>. QED BY <2>1 DEF Awards
<1>9. Limits
  <2>1. \A t \in JobsHandedOn : t \in Turns
    BY JobFacts DEF Jobs
  <2>. QED BY <1>4, <2>1 DEF Limits
<1>10. Money
  <2>1. Escrowed = {}
    BY <1>3 DEF Escrowed
  <2>2. SumFunction([e \in Escrowed |-> Worth(e)]) = 0
    <3>1. DOMAIN [e \in Escrowed |-> Worth(e)] = {}
      BY <2>1
    <3>. QED BY <3>1, SumDomain, SumEmpty
  <2>3. SumFunction(balance) \in Nat
    BY <1>1, <1>3, SumFunctionNat
  <2>. QED BY <1>3, <2>1, <2>2, <2>3, FS_EmptySet DEF Money, MoneyKept
<1>. QED BY <1>5, <1>6, <1>7, <1>8, <1>9, <1>10 DEF MarketInv

\* In every state the invariant above holds: jobs and turns match, who asks waits
\* for one turn, budgets and awards are in order, and the money is all there.
THEOREM MarketInvariance == MarketSpec => []MarketInv
  BY InitHolds, StepKeeps, PTL DEF MarketSpec

\* Whatever the agents hand on, pay, deliver and split, balances and open
\* escrows add up to the initial sum, and depths, budgets, days' spendings and
\* attempts stay within their limits (Opens, Settle, Pay, Judge and Split).
THEOREM MarketIsSafe == MarketSpec => []MarketSafe
<1>1. MarketInv => MarketSafe
  BY DEF MarketInv, Money, MarketSafe
<1>. QED BY <1>1, MarketInvariance, PTL

\* A turn whose harness took no other job meanwhile hands on no more than the
\* amount its job was given for, however many calls it makes (Delegate).
THEOREM BudgetsAreKept == MarketSpec => []BudgetKept
<1>1. MarketInv => BudgetKept
  <2> SUFFICES ASSUME MarketInv, NEW t \in Jobs, t \notin mixed, t \in JobsHandedOn, Busy(t)
               PROVE  turn[t].handed <= t.amount
    BY DEF BudgetKept, Handed, Busy
  <2>1. budget[t.to] \in Nat /\ turn[t].handed + budget[t.to] <= t.amount
    BY DEF MarketInv, Limits
  <2>2. turn[t].handed \in Nat /\ t.amount \in Nat
    BY JobFacts, MarketTypes, TurnFacts DEF MarketInv, TurnRow
  <2>. QED BY <2>1, <2>2
<1>. QED BY <1>1, MarketInvariance, PTL

\* A team is paid only for deliveries that all passed, and its payer refunded
\* only when all have a verdict and one failed (AskMember, Judge and Split).
THEOREM TeamsGetWhatTheyDeserve == MarketSpec => []TeamsDeserveIt
<1>1. MarketInv => TeamsDeserveIt
  BY DEF MarketInv, Awards, Deserved, TeamsDeserveIt, MembersDelivered, RefundedForFailure
<1>. QED BY <1>1, MarketInvariance, PTL
=============================================================================
