----------------------------- MODULE JointOrder -----------------------------
(***************************************************************************)
(* The joint order contract (contracts/src/JointOrder.sol): users put      *)
(* their budgets into a pool, providers bid for it, and the contract holds *)
(* the money of all pools in one balance until a delivery is confirmed, a  *)
(* dispute is ruled on, or the pool is cancelled or expires.               *)
(*                                                                         *)
(* A transaction is one step.  Who calls is left out except for users, who *)
(* are told apart by what they put in: a guard on the creator, the owner,  *)
(* the arbitrator or the winner says who may take a step, not when.  The   *)
(* wallets outside are not modelled: a deposit somebody cannot pay is a    *)
(* step not taken.  Two bids of one price are one bid.  Reputation scores, *)
(* ratings and statistics decide nothing here.  emergencyWithdraw, by      *)
(* which the owner may take any money, is left out.                        *)
(*                                                                         *)
(* The token is VIBEToken, which keeps a tax of a transfer unless the tax  *)
(* is off or one end is exempt; the contract is not made exempt when it is *)
(* deployed, and credits what was sent rather than what arrived.  Of what  *)
(* it pays out the receiver bears the tax: refunded and paid count what    *)
(* left the contract, and the balance falls by it (by less while one of    *)
(* the funds that share the tax is not set, which is left out).            *)
(*                                                                         *)
(* A slip is a plausible mistake in the definition it precedes; no action  *)
(* uses it, the project substitutes it to see a check notice.              *)
(***************************************************************************)
EXTENDS Integers, FiniteSets, Functions

CONSTANTS
  Pools, Users,
  Budgets, Prices,  \* what a user may put in, and a provider may ask
  MinBudget,        \* of every pool
  Funding, Bidding, Delivery,  \* fundingDuration, biddingDuration, and the delivery deadline from now
  Timeout,          \* ORDER_TIMEOUT_DURATION
  MaxParticipants, MaxBids,
  Horizon           \* bound: the last instant of block.timestamp

ASSUME JointOrderAssumption ==
  /\ Budgets \subseteq Nat \ {0} /\ Prices \subseteq Nat \ {0}
  /\ {Funding, Bidding, Delivery, Timeout, Horizon, MinBudget, MaxParticipants, MaxBids} \subseteq Nat
  /\ Delivery > Bidding

VARIABLES
  now, paused,      \* block.timestamp, and whether the owner has paused the contract
  pools,            \* [status, fundingDeadline, biddingEndsAt, deliveryDeadline, winningBid, platformFee]
  bids,             \* prices bid for each pool
  stake,            \* budget of each participant, 0 for other users
  hasConfirmed, hasWithdrawn, refundClaimed,  \* participants, per pool
  refundPending,    \* pools whose participants may claim refunds
  penalty, resolved,  \* DisputePenalty of each pool
  money,            \* the contract's balance of tokens
  refunded, paid,   \* history: what went back to a user, and to the winner
  withheld,         \* history: what the token kept of deposits
  overpaid          \* history: what winners withdrew after a ruling had paid them

claims == <<hasConfirmed, hasWithdrawn, refundClaimed>>
dispute == <<penalty, resolved>>
history == <<refunded, paid, withheld, overpaid>>
vars == <<now, paused, pools, bids, stake, claims, refundPending, dispute, money, history>>

Blank == [status |-> "absent", fundingDeadline |-> 0, biddingEndsAt |-> 0, deliveryDeadline |-> 0,
          winningBid |-> 0, platformFee |-> 0]
Joined(p) == {u \in Users : stake[p][u] > 0}
TotalBudget(p) == SumFunction([u \in Joined(p) |-> stake[p][u]])

\* PLATFORM_FEE_RATE and DISPUTE_PENALTY_RATE, in basis points, rounded down
Fee(price) == (price * 300) \div 10000
Deposit(price) == (price * 100) \div 10000

\* TRANSACTION_TAX_RATE of the token
Tax(x) == (x * 80) \div 10000

\* safeTransferFrom into the contract
Receive(x) == \E t \in {0, Tax(x)} : money' = money + (x - t) /\ withheld' = withheld + t

TypeOK ==
  /\ now \in 0..Horizon /\ paused \in BOOLEAN
  /\ pools \in [Pools -> [status : {"absent", "created", "funded", "in_progress", "completed",
                                    "disputed", "cancelled", "expired"},
                          fundingDeadline : Nat, biddingEndsAt : Nat, deliveryDeadline : Nat,
                          winningBid : Nat, platformFee : Nat]]
  /\ bids \in [Pools -> SUBSET Prices] /\ stake \in [Pools -> [Users -> {0} \cup Budgets]]
  /\ {hasConfirmed, hasWithdrawn, refundClaimed} \subseteq [Pools -> SUBSET Users]
  /\ refundPending \subseteq Pools /\ resolved \subseteq Pools
  /\ penalty \in [Pools -> Nat] /\ money \in Nat
  /\ refunded \in [Pools -> [Users -> Nat]] /\ paid \in [Pools -> Nat]
  /\ withheld \in Nat /\ overpaid \in Nat

Init ==
  /\ now = 0 /\ paused = FALSE
  /\ pools = [p \in Pools |-> Blank] /\ bids = [p \in Pools |-> {}]
  /\ stake = [p \in Pools |-> [u \in Users |-> 0]]
  /\ hasConfirmed = [p \in Pools |-> {}] /\ hasWithdrawn = hasConfirmed /\ refundClaimed = hasConfirmed
  /\ refundPending = {} /\ resolved = {} /\ penalty = [p \in Pools |-> 0]
  /\ money = 0 /\ refunded = stake /\ paid = penalty /\ withheld = 0 /\ overpaid = 0

Status(p, s) == pools[p].status = s
Becomes(p, s) == pools' = [pools EXCEPT ![p].status = s]

-----------------------------------------------------------------------------
\* Time, and the owner's switch

Tick ==
  /\ now < Horizon /\ now' = now + 1
  /\ UNCHANGED <<paused, pools, bids, stake, claims, refundPending, dispute, money, history>>

Pause ==
  /\ paused' = ~paused
  /\ UNCHANGED <<now, pools, bids, stake, claims, refundPending, dispute, money, history>>

-----------------------------------------------------------------------------
\* From a demand to an order

CreatePool(p) ==
  /\ ~paused /\ Status(p, "absent")
  /\ pools' = [pools EXCEPT ![p] = [Blank EXCEPT
                 !.status = "created", !.fundingDeadline = now + Funding,
                 !.biddingEndsAt = now + Funding + Bidding, !.deliveryDeadline = now + Delivery]]
  /\ UNCHANGED <<now, paused, bids, stake, claims, refundPending, dispute, money, history>>

\* the pool is funded, and closed to others, once it has its least budget
JoinPool(p, u, x) ==
  /\ ~paused /\ Status(p, "created") /\ now < pools[p].fundingDeadline
  /\ u \notin Joined(p) /\ Cardinality(Joined(p)) < MaxParticipants
  /\ Receive(x) /\ stake' = [stake EXCEPT ![p][u] = x]
  /\ IF TotalBudget(p) + x >= MinBudget THEN Becomes(p, "funded") ELSE UNCHANGED pools
  /\ UNCHANGED <<now, paused, bids, claims, refundPending, dispute, refunded, paid, overpaid>>

\* slip: nobody compares the price with the budget
AnyPrice(p, x) == x > 0
ValidPrice(p, x) == x > 0 /\ x <= TotalBudget(p)

SubmitBid(p, x) ==
  /\ ~paused /\ Status(p, "funded") /\ now < pools[p].biddingEndsAt
  /\ ValidPrice(p, x) /\ Cardinality(bids[p]) < MaxBids
  /\ bids' = [bids EXCEPT ![p] = @ \cup {x}]
  /\ UNCHANGED <<now, paused, pools, stake, claims, refundPending, dispute, money, history>>

AwardPool(p, x) ==
  /\ ~paused /\ Status(p, "funded") /\ now >= pools[p].biddingEndsAt /\ x \in bids[p]
  /\ pools' = [pools EXCEPT ![p].status = "in_progress", ![p].winningBid = x, ![p].platformFee = Fee(x)]
  /\ UNCHANGED <<now, paused, bids, stake, claims, refundPending, dispute, money, history>>

\* the order is complete, and the platform is paid
CompletePool(p) ==
  /\ pools[p].platformFee <= money
  /\ Becomes(p, "completed") /\ money' = money - pools[p].platformFee

ConfirmDelivery(p, u) ==
  LET confirmed == hasConfirmed[p] \cup {u} IN
  /\ ~paused /\ Status(p, "in_progress") /\ u \in Joined(p) \ hasConfirmed[p]
  /\ hasConfirmed' = [hasConfirmed EXCEPT ![p] = confirmed]
  /\ IF confirmed = Joined(p)
     THEN CompletePool(p) ELSE UNCHANGED <<pools, money>>
  /\ UNCHANGED <<now, paused, bids, stake, hasWithdrawn, refundClaimed, refundPending, dispute, history>>

\* the subtraction is checked, as is the transfer
Payable(p) == pools[p].winningBid - pools[p].platformFee \in 0..money

\* a ruling has paid the winner, and left its bid as it was
WithdrawEarnings(p) ==
  LET payout == pools[p].winningBid - pools[p].platformFee IN
  /\ Status(p, "completed") /\ Payable(p)
  /\ pools' = [pools EXCEPT ![p].winningBid = 0]
  /\ money' = money - payout /\ paid' = [paid EXCEPT ![p] = @ + payout]
  /\ overpaid' = IF p \in resolved THEN overpaid + payout ELSE overpaid
  /\ UNCHANGED <<now, paused, bids, stake, claims, refundPending, dispute, refunded, withheld>>

-----------------------------------------------------------------------------
\* Cancellation, disputes, expiry and refunds

CancelPool(p) ==
  /\ ~paused /\ pools[p].status \in {"created", "funded"}
  /\ Becomes(p, "cancelled")
  /\ UNCHANGED <<now, paused, bids, stake, claims, refundPending, dispute, money, history>>

RaiseDispute(p) ==
  LET x == Deposit(pools[p].winningBid) IN
  /\ ~paused /\ Status(p, "in_progress")
  /\ Becomes(p, "disputed")
  /\ Receive(x) /\ penalty' = [penalty EXCEPT ![p] = x]
  /\ UNCHANGED <<now, paused, bids, stake, claims, refundPending, resolved, refunded, paid, overpaid>>

RuleForBuyers(p) ==
  /\ Status(p, "disputed")
  /\ Becomes(p, "cancelled")
  /\ refundPending' = refundPending \cup {p} /\ resolved' = resolved \cup {p}
  /\ UNCHANGED <<now, paused, bids, stake, claims, penalty, money, history>>

\* the winner gets the deposit and its price, the platform its fee
RuleForProvider(p) ==
  LET x == penalty[p] + pools[p].winningBid IN
  /\ Status(p, "disputed") /\ x <= money
  /\ Becomes(p, "completed") /\ resolved' = resolved \cup {p}
  /\ money' = money - x /\ paid' = [paid EXCEPT ![p] = @ + x - pools[p].platformFee]
  /\ UNCHANGED <<now, paused, bids, stake, claims, refundPending, penalty, refunded, withheld, overpaid>>

Late(p) == now > pools[p].deliveryDeadline + Timeout /\ Status(p, "in_progress")

HandleOrderTimeout(p) ==
  /\ Late(p)
  /\ Becomes(p, "expired") /\ refundPending' = refundPending \cup {p}
  /\ UNCHANGED <<now, paused, bids, stake, claims, dispute, money, history>>

\* a participant takes its budget back
Refund(p, u) ==
  /\ stake[p][u] <= money /\ money' = money - stake[p][u]
  /\ refunded' = [refunded EXCEPT ![p][u] = @ + stake[p][u]]
  /\ hasWithdrawn' = [hasWithdrawn EXCEPT ![p] = @ \cup {u}]
  /\ UNCHANGED <<now, paused, pools, bids, stake, hasConfirmed, refundPending, dispute, paid, withheld, overpaid>>

ClaimRefund(p, u) ==
  /\ ~paused /\ Status(p, "cancelled") /\ u \in Joined(p) \ hasWithdrawn[p]
  /\ Refund(p, u) /\ UNCHANGED refundClaimed

\* slip: only the claims of this kind are looked at
UnclaimedHere(p, u) == u \notin refundClaimed[p] /\ u \in Joined(p)
Unclaimed(p, u) == u \notin refundClaimed[p] /\ u \in Joined(p) \ hasWithdrawn[p]

ClaimDisputeRefund(p, u) ==
  /\ p \in refundPending /\ Unclaimed(p, u)
  /\ Refund(p, u)
  /\ refundClaimed' = [refundClaimed EXCEPT ![p] = @ \cup {u}]

Next ==
  \/ Tick \/ Pause
  \/ \E p \in Pools :
       \/ CreatePool(p) \/ WithdrawEarnings(p) \/ CancelPool(p) \/ RaiseDispute(p)
       \/ RuleForBuyers(p) \/ RuleForProvider(p) \/ HandleOrderTimeout(p)
       \/ \E u \in Users, x \in Budgets : JoinPool(p, u, x)
       \/ \E x \in Prices : SubmitBid(p, x) \/ AwardPool(p, x)
       \/ \E u \in Users : ConfirmDelivery(p, u) \/ ClaimRefund(p, u) \/ ClaimDisputeRefund(p, u)

Spec == Init /\ [][Next]_vars

-----------------------------------------------------------------------------
\* Nobody gets back more than it put in, over both ways of claiming a refund,
\* which a ruling for the buyers leaves open together (claimRefund and
\* claimDisputeRefund).
RefundedOnce == \A p \in Pools, u \in Users : refunded[p][u] <= stake[p][u]

\* A pool that has paid its winner gives nothing back, and the other way
\* round, however confirmations, rulings and deadlines follow one another.
NeverBoth == \A p \in Pools : paid[p] > 0 => \A u \in Users : refunded[p][u] = 0

\* A winner is paid within its pool's budget, and its deposit; only a ruling
\* lets it have its price a second time, as withdrawEarnings does not see that
\* resolveDispute has paid it.
PaidInBounds ==
  \A p \in Pools :
    paid[p] <= penalty[p] + TotalBudget(p) + (IF p \in resolved THEN TotalBudget(p) ELSE 0)

\* The three, in well typed pools: what may leave the contract for one pool,
\* over every order of confirmations, rulings, deadlines, claims and
\* withdrawals.
Safe == TypeOK /\ RefundedOnce /\ NeverBoth /\ PaidInBounds

\* The one balance falls short of what the pools still owe by no more than the
\* token kept of their deposits and winners withdrew after a ruling had paid
\* them: the budgets of pools that may be refunded, the deposit of a dispute,
\* and the earnings of a winner whose delivery was confirmed.  A pool that a
\* ruling has paid owes nothing.
Owed(p) ==
  LET budgets == SumFunction([u \in Joined(p) \ hasWithdrawn[p] |-> stake[p][u]])
  IN CASE Status(p, "completed") /\ p \in resolved -> 0
       [] Status(p, "completed") /\ p \notin resolved ->
            IF pools[p].winningBid = 0 THEN 0 ELSE pools[p].winningBid - pools[p].platformFee
       [] Status(p, "disputed") -> budgets + penalty[p]
       [] OTHER -> budgets
Covered ==
  money + withheld + overpaid >= SumFunction([p \in {q \in Pools : ~Status(q, "absent")} |-> Owed(p)])
=============================================================================
