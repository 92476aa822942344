------------------------------ MODULE PeaMarket ------------------------------
(***************************************************************************)
(* PeaMarket with the harnesses of its agents (economic/pea_market.py,     *)
(* pea.py, harness/base_harness.py): personal economic agents spend within *)
(* their owners' limits, hand on parts of their work to one another, and   *)
(* are hired as teams by joint orders.                                     *)
(*                                                                         *)
(* One asyncio process.  A turn is a run of a harness, for its owner or    *)
(* for a job of the agent's A2A runtime, which executes jobs inline: who   *)
(* submits waits for the turn that starts.  Only language models are       *)
(* awaited, to think, to select a supplier, to judge and to assess; they   *)
(* may answer anything.  A harness has one depth and one budget, whatever  *)
(* turns it has.  The market settles in a ledger in memory, whose transfers*)
(* succeed or are refused at once; leases and restarts are A2ARuntime's    *)
(* subject, the escrow's journal that of VibeEscrow.  sub_budget_ratio is  *)
(* its default, 1.0; amounts are positive, and work for nothing is only    *)
(* that of joint orders.  A supplier is fixed when the call is made, which *)
(* is as good as later: a language model chooses it.                       *)
(*                                                                         *)
(* A slip is a plausible mistake in the definition it precedes; no action  *)
(* uses it, the project substitutes it to see a check notice.              *)
(***************************************************************************)
EXTENDS Integers, Sequences, FiniteSets, Functions

CONSTANTS
  Peas, Suppliers,  \* agents, and those with a runtime
  Owned,            \* agents whose owner asks them for a turn
  Texts,            \* tasks
  Amounts,          \* what a tool call or a settlement may cost
  Payees,           \* who may be paid by the settle action
  Orders, Payer, Team, Reward,  \* joint orders: who hires whom for how much
  Balance,          \* of each agent at the start
  DailyLimit, MaxPerTx,         \* the policy of every agent
  MaxDepth,         \* max_delegation_depth
  MaxSteps,         \* 12 in the code
  MaxAttempts,      \* max_attempts of every job; zero would be read as the default
  None

ASSUME MarketAssumption ==
  /\ IsFiniteSet(Peas)
  /\ Suppliers \subseteq Peas /\ Owned \subseteq Peas /\ Payees \subseteq Peas /\ Amounts \subseteq Nat \ {0}
  /\ Payer \in [Orders -> Peas] /\ Reward \in [Orders -> Nat \ {0}]
  /\ \A o \in Orders : Team[o] \in Seq(Suppliers) \ {<<>>}
  /\ Balance \in [Peas -> Nat]
  /\ {DailyLimit, MaxPerTx, MaxDepth, MaxSteps, MaxAttempts} \subseteq Nat
  /\ MaxAttempts # 0

\* What repeated submissions are told apart by: jobs have no other identifier.
\* A joint order's jobs are free, at depth 0 and without a budget.
JobsOfOrders == [to : Suppliers, from : Peas, text : Texts, amount : {0}, depth : {0}]
JobsHandedOn == {k \in [to : Suppliers, from : Peas, text : Texts, amount : Amounts, depth : 1..MaxDepth] : k.to # k.from}
Jobs == JobsOfOrders \cup JobsHandedOn

\* who asks is an owner, a job or an order, and never two of them
ASSUME CallerAssumption ==
  /\ Peas \cap Jobs = {} /\ Orders \cap (Peas \cup Jobs) = {}
  /\ None \notin Peas \cup Jobs \cup Orders \cup Nat

VARIABLES
  balance, spent,       \* the ledger, and daily_spent of each wallet
  depth, budget,        \* of each harness
  job, tries,           \* the job tables: status or verdict, and attempts
  escrow,               \* of each job and joint order, in the settlement backend
  turn,                 \* of each owner and job: [at, caller, want, steps, handed]
  order,                \* joint_order calls: [at, asks, quality]
  mixed                 \* history: turns whose harness was given another context

ledger == <<balance, spent>>
context == <<depth, budget, mixed>>
table == <<job, tries>>
marketVars == <<ledger, context, table, escrow, turn, order>>

Turns == Owned \cup Jobs
Pea(t) == IF t \in Owned THEN t ELSE t.to
Gates == {"passed", "failed", "unknown"}
Members(o) == {Team[o][i] : i \in DOMAIN Team[o]}
Quiet == [at |-> "idle", caller |-> None, want |-> None, steps |-> 0, handed |-> 0]

MarketTypeOK ==
  /\ balance \in [Peas -> Nat] /\ spent \in [Peas -> 0..DailyLimit]
  /\ depth \in [Peas -> 0..MaxDepth] /\ budget \in [Peas -> {None} \cup Nat] /\ mixed \subseteq Turns
  /\ job \in [Jobs -> {"absent", "queued", "running", "error", "manual"} \cup Gates] /\ tries \in [Jobs -> 0..MaxAttempts]
  /\ escrow \in [Jobs \cup Orders -> {"none", "open", "paid", "refunded", "refused"}]
  /\ turn \in [Turns -> [at : {"idle", "thinking", "selecting", "waiting"}, caller : {None} \cup Turns \cup Orders,
                         want : {None} \cup Jobs, steps : 0..MaxSteps, handed : Nat]]
  /\ order \in [Orders -> [at : {"new", "asking", "waiting", "assessing", "ended"},
                           asks : {None} \cup Jobs, quality : Seq(Gates)]]
  /\ \A o \in Orders : Len(order[o].quality) <= Len(Team[o])

MarketInit ==
  /\ balance = Balance /\ spent = [p \in Peas |-> 0]
  /\ depth = [p \in Peas |-> 0] /\ budget = [p \in Peas |-> None] /\ mixed = {}
  /\ job = [k \in Jobs |-> "absent"] /\ tries = [k \in Jobs |-> 0]
  /\ escrow = [e \in Jobs \cup Orders |-> "none"]
  /\ turn = [t \in Turns |-> Quiet]
  /\ order = [o \in Orders |-> [at |-> "new", asks |-> None, quality |-> <<>>]]

-----------------------------------------------------------------------------
\* The runtimes, as their callers (turns and joint orders) see them.

\* what a joint order makes of an answer
Quality(st) == IF st \in Gates THEN st ELSE "unknown"

\* submit returns to caller c; st is what became of the job it asked for
Return(c, st, tn) ==
  IF c \in Orders
  THEN /\ order' = [order EXCEPT ![c].at = "asking", ![c].asks = None, ![c].quality = Append(@, Quality(st))]
       /\ turn' = tn
  ELSE /\ turn' = [tn EXCEPT ![c].at = "thinking", ![c].want = None]
       /\ UNCHANGED order

\* caller c waits for an answer about job k
Wait(c, k, tn) ==
  IF c \in Orders
  THEN order' = [order EXCEPT ![c].at = "waiting", ![c].asks = k] /\ turn' = tn
  ELSE turn' = [tn EXCEPT ![c].at = "waiting", ![c].want = k] /\ UNCHANGED order

\* PeaA2AHandler.handle up to its first await gives the harness the job's depth
\* and budget
Context(k) ==
  /\ depth' = [depth EXCEPT ![k.to] = k.depth]
  /\ budget' = [budget EXCEPT ![k.to] = IF k.depth > 0 THEN k.amount ELSE None]
  /\ mixed' = (mixed \ {k}) \cup {t \in Turns : Pea(t) = k.to /\ turn[t].at # "idle"}

\* open_escrow has the ledger move the money of p; slip: the ledger's answer is
\* not looked at
OpensAnyway(e, p, x) ==
  /\ escrow' = [escrow EXCEPT ![e] = "open"]
  /\ balance' = IF x <= balance[p] THEN [balance EXCEPT ![p] = @ - x] ELSE balance
Opens(e, p, x) ==
  IF x <= balance[p]
  THEN escrow' = [escrow EXCEPT ![e] = "open"] /\ balance' = [balance EXCEPT ![p] = @ - x]
  ELSE escrow' = [escrow EXCEPT ![e] = "refused"] /\ UNCHANGED balance

\* a queued job of the agent runs inline: not necessarily the one submitted
RunPending(c, k, st) ==
  \E i \in {i \in Jobs : st[i] = "queued" /\ i.to = k.to} :
    /\ job' = [st EXCEPT ![i] = "running"] /\ tries' = [tries EXCEPT ![i] = @ + 1]
    /\ Context(i)
    /\ Wait(c, k, [turn EXCEPT ![i] = [Quiet EXCEPT !.at = "thinking", !.caller = c]])

\* submit up to where the turn it starts awaits its language model; a job with
\* this content is not made twice, and runs also when its escrow is refused
Submit(c, k) ==
  LET st == IF job[k] = "absent" THEN [job EXCEPT ![k] = "queued"] ELSE job IN
  /\ IF k.amount > 0 /\ st[k] = "queued" /\ escrow[k] = "none"
     THEN Opens(k, k.from, k.amount) ELSE UNCHANGED <<escrow, balance>>
  /\ IF st[k] = "queued" THEN RunPending(c, k, st)
     ELSE job' = st /\ Return(c, st[k], turn) /\ UNCHANGED <<tries, context>>
  /\ UNCHANGED spent

\* the turn t is over, and its job, if it has one, comes to st: the owner has
\* the answer, and may ask for another turn, or the submitter
Over(t, st) ==
  LET tn == [turn EXCEPT ![t] = Quiet]
      asker == turn[t].caller
      js == IF t \in Jobs THEN [job EXCEPT ![t] = st] ELSE job
  IN /\ job' = js
     /\ IF asker = None THEN turn' = tn /\ UNCHANGED order
        ELSE Return(asker, js[IF asker \in Orders THEN order[asker].asks ELSE turn[asker].want], tn)

\* the escrow of a job that is open is released or refunded
Settle(t, st, to) ==
  IF t \in Jobs /\ escrow[t] = "open"
  THEN escrow' = [escrow EXCEPT ![t] = st] /\ balance' = [balance EXCEPT ![to] = @ + t.amount]
  ELSE UNCHANGED <<escrow, balance>>

\* _execute_job: a verdict, a person is asked, an exception
Deliver(t, gate) ==
  /\ Over(t, gate)
  /\ IF gate = "passed" THEN Settle(t, "paid", Pea(t)) ELSE UNCHANGED <<escrow, balance>>
AskOwner(t) == Over(t, "manual") /\ UNCHANGED <<escrow, balance>>
Raise(t) ==
  IF t \in Jobs /\ tries[t] < MaxAttempts THEN Over(t, "queued") /\ UNCHANGED <<escrow, balance>>
  ELSE Over(t, "error") /\ IF t \in Jobs THEN Settle(t, "refunded", t.from) ELSE UNCHANGED <<escrow, balance>>

\* a turn ends: with a delivery that is judged, at the gate for people, or badly
End(t) ==
  /\ turn[t].at = "thinking"
  /\ (\E g \in Gates : Deliver(t, g)) \/ AskOwner(t) \/ Raise(t)
  /\ UNCHANGED <<spent, context, tries>>

-----------------------------------------------------------------------------
\* A turn: the language model answers, the guard decides, the tool runs.

StartTurn(p) ==
  /\ turn[p] = Quiet
  /\ turn' = [turn EXCEPT ![p].at = "thinking"]
  /\ UNCHANGED <<ledger, context, table, escrow, order>>

MayStep(t) == turn[t].at = "thinking" /\ turn[t].steps < MaxSteps

\* can_spend
MaySpend(p, x) == x <= balance[p] /\ x <= MaxPerTx /\ x <= DailyLimit - spent[p]

\* _guard_tool of delegate_via_a2a
MayDelegate(p, x) == MaySpend(p, x) /\ depth[p] < MaxDepth /\ (budget[p] # None => x <= budget[p])

\* dispatch takes what is handed on from the budget of the harness; slip: it does not
Undeducted(p, x) == UNCHANGED budget
Deducted(p, x) == budget' = IF budget[p] = None THEN budget ELSE [budget EXCEPT ![p] = @ - x]

Delegate(t, k) ==
  LET p == Pea(t) IN
  /\ MayStep(t) /\ MayDelegate(p, k.amount)
  /\ k.from = p /\ k.depth = depth[p] + 1
  /\ Deducted(p, k.amount)
  /\ turn' = [turn EXCEPT ![t].at = "selecting", ![t].want = k, ![t].steps = @ + 1, ![t].handed = @ + k.amount]
  /\ UNCHANGED <<ledger, depth, mixed, table, escrow, order>>

\* the market has found a supplier, or none
Select(t) ==
  /\ turn[t].at = "selecting"
  /\ \/ Submit(t, turn[t].want)
     \/ /\ turn' = [turn EXCEPT ![t].at = "thinking", ![t].want = None]
        /\ UNCHANGED <<ledger, context, table, escrow, order>>

\* the settle action: a payment from the agent's own wallet
Pay(t, x, to) ==
  LET p == Pea(t) IN
  /\ MayStep(t) /\ MaySpend(p, x) /\ to # p
  /\ balance' = [balance EXCEPT ![p] = @ - x, ![to] = @ + x]
  /\ spent' = [spent EXCEPT ![p] = @ + x]
  /\ turn' = [turn EXCEPT ![t].steps = @ + 1]
  /\ UNCHANGED <<context, table, escrow, order>>

-----------------------------------------------------------------------------
\* joint_order: open one escrow, let every member deliver, pay all or refund

OpenOrder(o) ==
  /\ order[o].at = "new"
  /\ Opens(o, Payer[o], Reward[o])
  /\ order' = [order EXCEPT ![o].at = IF Reward[o] <= balance[Payer[o]] THEN "asking" ELSE "ended"]
  /\ UNCHANGED <<spent, context, table, turn>>

Asked(o) == Len(order[o].quality)
AskMember(o) ==
  /\ order[o].at = "asking" /\ Asked(o) < Len(Team[o])
  /\ \E k \in JobsOfOrders : k.to = Team[o][Asked(o) + 1] /\ k.from = Payer[o] /\ Submit(o, k)

\* the submission raised: nobody knows what the member did
LoseMember(o) ==
  /\ order[o].at = "asking" /\ Asked(o) < Len(Team[o])
  /\ order' = [order EXCEPT ![o].at = "ended"]
  /\ UNCHANGED <<ledger, context, table, escrow, turn>>

\* slip: one delivery that passed is enough
AcceptedByOne(q) == \E i \in DOMAIN q : q[i] = "passed"
Accepted(q) == \A i \in DOMAIN q : q[i] = "passed"
Rejected(q) == (\A i \in DOMAIN q : q[i] # "unknown") /\ (\E i \in DOMAIN q : q[i] = "failed")

\* all deliveries passed, one failed, or people have to look at them
Judge(o) ==
  LET q == order[o].quality IN
  /\ order[o].at = "asking" /\ Asked(o) = Len(Team[o])
  /\ order' = [order EXCEPT ![o].at = IF Accepted(q) THEN "assessing" ELSE "ended"]
  /\ IF Rejected(q) /\ ~Accepted(q)
     THEN escrow' = [escrow EXCEPT ![o] = "refunded"] /\ balance' = [balance EXCEPT ![Payer[o]] = @ + Reward[o]]
     ELSE UNCHANGED <<escrow, balance>>
  /\ UNCHANGED <<spent, context, table, turn>>

\* Shapley payouts that are positive and add up to the reward are paid; with
\* one that is zero settle_split refuses the plan, and the escrow stays open
Split(o) ==
  /\ order[o].at = "assessing"
  /\ order' = [order EXCEPT ![o].at = "ended"]
  /\ \/ \E f \in [Members(o) -> 1..Reward[o]] :
          /\ SumFunction(f) = Reward[o]
          /\ escrow' = [escrow EXCEPT ![o] = "paid"]
          /\ balance' = [p \in Peas |-> balance[p] + IF p \in Members(o) THEN f[p] ELSE 0]
     \/ Cardinality(Members(o)) > 1 /\ UNCHANGED <<escrow, balance>>
  /\ UNCHANGED <<spent, context, table, turn>>

TurnStep(t) ==
  \/ \E k \in JobsHandedOn : Delegate(t, k)
  \/ \E x \in Amounts, to \in Payees : Pay(t, x, to)
  \/ Select(t) \/ End(t)
OrderStep(o) == OpenOrder(o) \/ AskMember(o) \/ LoseMember(o) \/ Judge(o) \/ Split(o)

MarketNext ==
  \/ \E p \in Owned : StartTurn(p)
  \/ \E t \in Turns : TurnStep(t)
  \/ \E o \in Orders : OrderStep(o)

MarketSpec == MarketInit /\ [][MarketNext]_marketVars

-----------------------------------------------------------------------------
\* No turn hands on more than the amount its job was given for: what the
\* chain below it may burn is bounded by what its caller agreed to (_guard_tool
\* and dispatch of MarketPeaHarness over all the calls of a turn).  A call counts
\* once the guard lets it pass and its amount is deducted, as in the code, also
\* when no supplier is found for it.
Handed(t) == t \in JobsHandedOn /\ turn[t].at # "idle" => turn[t].handed <= t.amount
ChainBudget == \A t \in Jobs : Handed(t)

\* The same for every turn whose harness took no other job meanwhile, also
\* when it waits for agents further down and continues with their answers.
BudgetKept == \A t \in Jobs \ mixed : Handed(t)

\* Whatever is handed on, refused, refunded, paid and split, no money is made
\* and none is lost: balances and open escrows add up to the initial sum.
Worth(e) == IF e \in Orders THEN Reward[e] ELSE e.amount
Escrowed == {e \in Jobs \cup Orders : escrow[e] = "open"}
MoneyKept == SumFunction(balance) + SumFunction([e \in Escrowed |-> Worth(e)]) = SumFunction(Balance)

\* No money is made or lost (MoneyKept), and depths, budgets, days' spendings and
\* attempts stay within their limits (can_spend, _guard_tool, run_pending_once).
MarketSafe == MarketTypeOK /\ MoneyKept

\* A team is paid only when every one of its members has delivered work that
\* passed (joint_order from the answers of the members to settle_split).
CameTo(o, m, verdicts) == \E k \in JobsOfOrders : k.to = m /\ k.from = Payer[o] /\ job[k] \in verdicts
MembersDelivered ==
  \A o \in Orders : escrow[o] = "paid" => \A m \in Members(o) : CameTo(o, m, {"passed"})

\* The payer gets a joint order's money back by itself only when every member
\* has a verdict and one has failed: where a verdict is missing people decide.
RefundedForFailure ==
  \A o \in Orders : escrow[o] = "refunded" =>
    /\ \A m \in Members(o) : CameTo(o, m, {"passed", "failed"})
    /\ \E m \in Members(o) : CameTo(o, m, {"failed"})

\* Together: what joint_order does with the money is what the team deserves.
TeamsDeserveIt == MembersDelivered /\ RefundedForFailure
=============================================================================
