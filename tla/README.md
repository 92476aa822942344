# Verification of the USMSB SDK

TLA+ models of the parts of this repository that keep promises under
concurrency, crashes and lost answers: escrows and the jobs paid through them,
the journals in which subjects collaborate, decide and learn, the vault of
private data, the market of economic agents, the scheduler of distributed
inference and the joint order contract. TLC checks small instances; TLAPS proves,
for all values of the constants, every invariant, action property and refinement
the runs check. Liveness stays with TLC.

Unless they begin with `contracts/` or `dist-inference/`, paths are relative to
`src/usmsb_sdk/` of the repository.

## 1. Inventory

| Component | Source | State it keeps | Operations | What is hard | What makes it correct |
|---|---|---|---|---|---|
| VIBE settlement backend | `economic/vibe_settlement.py` | SQLite journal of escrow records (terms, state, plan, attempts) | `open_escrow`, `release_escrow`, `refund_escrow`, `settle_split` | a transfer is not idempotent and may lose its answer; racing calls save whole records; crash between saves; one pooled custody account | no transfer twice, custody covers every hold, one irrevocable plan, `True` means held |
| A2A runtime | `protocol/a2a_runtime/` | SQLite `jobs` table (status, attempts, lease, settlement, gate) | `submit`, worker loops, inline run, `start`/`stop` | the job is claimable while its escrow is being opened; leases run out under a live handler; process death | table never ahead of the money, payment only for accepted work, one execution and verdict per job, starts accounted for, every job ends |
| Collaboration journal | `autonomy/journal.py` | goals with revisions, commitments, artifacts, reviews, adoptions, command receipts | `apply` of seven commands, `receipt` | commands repeated or with reused ids, amendments racing, revisions under running work | consent of all parties, one heir per commitment, earned adoptions, exact replay |
| Journal migration | `autonomy/migration.py` | the configuration binding, audit rows, a backup file | `migrate_journal` | old instances go on writing | fence, additive change only |
| Private data vault | `autonomy/authorization.py` | items, nested grants, revocations, calls and receipts | `add`, `grant`, `revoke`, `execute` | the processor runs between two transactions while grants are revoked, expire and are spent by others; process death | the budget of a grant and of all above it, nothing disclosed after its end, no data processed twice |
| Evolution engine and store | `autonomy/evolution.py` | bound limits, observations, decisions, journal of effects, remote states | `cycle`, `acknowledge`, `record_remote`, `feedback` | several hosts in one file, effects acknowledged late or by another, replays, results out of order | decisions know all earlier effects, one goal at a time, budgets for life |
| Learned experiences | `autonomy/learning.py` | experiences with state, promotions, invalidation events | `candidate`, `transition`, `invalidate` | evidence corrected between its resolution and the write | nothing invalidated is applicable |
| Collaboration policy | `autonomy/collaboration.py` | none (its keys are in the decisions) | `decide` | keys repeated, a budget for life | a key is used once |
| PEA market and harness | `economic/pea_market.py`, `economic/pea.py`, `harness/base_harness.py` | wallets, one depth and one budget per harness, escrows | turns, `delegate`, `settle`, `joint_order` | an agent takes a job while a turn of it waits; members fail one by one | limits hold, teams are paid for accepted work and refunded for failure, no money made or lost |
| Joint order (payouts) | `economic/joint_order.py` | none | `shapley_values`, `distribute` | rounding | shares add up to the reward |
| Joint order contract | `contracts/src/JointOrder.sol` | pools, bids, deposits, disputes, one balance | all transactions from `createPool` to `claimDisputeRefund` | two ways to claim one refund; confirmation, dispute and timeout in any order | nobody refunded twice, never both paid and refunded, the balance short of what is owed only by what is named |
| Inference scheduler | `dist-inference/global_scheduler/` | node pool behind a lock, accounts, three ledgers | registration, heartbeat, `select_node`, `set_busy`/`set_idle`, `charge`, `deposit` | node objects replaced under a request; messages that set any status; accounts read before an await and written after it | no node lost to the pool or shared unnoticed, every answered request billed, requests end |
| Trust bridge | `trust/trust_bridge.py` | reputation, disputes (external) | `on_settled`, `on_refunded` | one report per verdict | only the runtime's calls are modelled |
| Staking pool, layer settlement, core framework, services, meta agent, agent SDK, platform and API, blockchain adapter, layers, telemetry, products, other contracts, node executor, frontends | see `PROJECT.json` | | | float or score arithmetic, language models, I/O, clients of external services, generated code; the other contracts are one development each | not modelled, with a reason per component in `PROJECT.json` |

How they interact. The runtime's `EscrowSettlementHook` calls a
`SettlementBackend` (an await in the middle of `submit` and of `_execute_job`),
and the trust bridge once per verdict. The PEA market runs one A2A runtime per
supplier and settles with a backend over a ledger in memory. The collaboration
journal, its migration, the evolution engine and the experiences share
`SQLiteEvolutionStore.transaction` (`BEGIN IMMEDIATE`), which makes one
operation one atomic step; the engine reads the experiences and their
invalidations in the same file.

The behaviours that are hard to test, each at its line, are the `hazards` of
`PROJECT.json` with the properties aimed at them.

## 2. Modules

| Module | Models | Used by |
|---|---|---|
| `EscrowPromise` | what any escrow service promises (abstract) | implemented by `VibeEscrow`, instantiated by `A2ARuntime` |
| `VibeEscrow` | the journal, the calls in progress and the transfer rail | |
| `VibeEscrow_proofs` | TLAPS proofs, the refinement included | |
| `A2ARuntime` | job table, asyncio tasks, settlement hook, over `EscrowPromise` | |
| `A2ARuntime_proofs` | TLAPS proofs | |
| `AmendmentRegister` | what amending a commitment promises (abstract) | implemented by `CollaborationJournal` |
| `CollaborationJournal` | the records, receipts, instances and migrations | |
| `CollaborationJournal_proofs` | TLAPS proofs, the refinement included | |
| `DataMandate` | what an owner of private data relies on (abstract) | implemented by `DataVault` |
| `DataVault` | grants, calls and the processors between two transactions | |
| `DataVault_proofs` | TLAPS proofs, the refinement included | |
| `ExperienceJournal` | the life of what was learned | extended by `EvolutionEngine` |
| `EvolutionEngine` | decisions of the hosts of one subject, effects, remote runs | |
| `EvolutionEngine_proofs` | TLAPS proofs, about `ExperienceJournal` too | |
| `PeaMarket` | turns, delegation and joint orders in one asyncio process | |
| `JointOrder` | the contract, a transaction per step | |
| `Orders_proofs` | TLAPS proofs about `PeaMarket` and `JointOrder` | |
| `InferenceService` | pool, lock, router, accounts and ledgers | |
| `InferenceService_proofs` | TLAPS proofs | |
| `FiniteSums` | lemmas about `SumFunction` of the community modules | the proofs about money, budgets and limits |
| `MC*` | small instances for TLC | |

In each module a *slip* is a plausible mistake in the definition it precedes.
No action uses it; `PROJECT.json` lists which property notices which slip.

### VibeEscrow

`journal[e]` is the row of the `escrows` table. A coroutine is `call[c]`: the
record it holds (`esc`), the leg of the plan it is at, and a program counter
whose values are the places where another call, process or the rail can act:

    OpenEscrow -> attempt -> WriteAttempt -> send -> Send -> wait -> Confirmed | Unconfirmed
    BeginFinish ->   (the same, once per payee)   -> commit -> CommitOpen | CommitFinish

The SQLite transactions that open an escrow and claim it for one operation are
single actions, as `BEGIN IMMEDIATE` makes them. `Unconfirmed` is every way an
adapter can fail to say `True`: `False`, an exception, cancellation; it may
happen before the transfer lands (`Land`), after it, or without it (`Refuse`).
`Confirmed` needs a landed transfer: an adapter that says `True` is believed.
`Crash` drops a call, and leaves what it had asked for in flight. `Land` follows
the ledger rail; the wallet rail moves VIBEToken, whose tax may deliver less than
the amount, and custody is not claimed of it. The order of
the legs of a plan is any order. `terms["account"]` is constant and left out, as
are zero or negative amounts, which every entry point rejects.

### A2ARuntime

One action is what happens between two awaits of an asyncio task. `task[t]` says
what a task awaits: the handler, or a transfer of the backend. `Submit` goes up
to `open_escrow`; `Escrowed`/`EscrowFailed` continue it with whatever the table
has become; `HandlerDone`, `HandlerManual`, `HandlerRaised` cover `_execute_job`
up to the transfer, `Settled`/`Refunded` what follows. The backend is
`EscrowPromise`, so everything the runtime's properties say holds for any
backend that implements it, `VibeSettlementBackend` in particular. `locked_by`
is never read by the code and is not a variable; a lease is free, held or
expired. `Expire` may hit a live handler (`MaxOverruns`), `Cancel` is
`stop()`, `Crash` the death of the process; the table and the backend survive.
The backend and the job table are two files: `Torn` is a death between two of
the writes of one step, with the row, the verdict or the backend's record saved
and what should follow it not.
Jobs are their idempotency keys: deriving the key is parsing. What the code
promises only while handlers keep within `lock_seconds` is stated with
`overruns = 0`; what holds anyway is stated without.

### CollaborationJournal

`Execute` is one `apply` that runs its handler; `Replay` one that finds a
receipt. `Requests` is the set of (id, actor, command) callers may send, in any
order, any number of times, to any instance. A hash is what it is the hash of,
so a command carries the terms it means. Reads are not actions. The ids of
reviews and adoptions are taken to be new, and artifacts are single versions of
single ids, as the code makes them. `EventsExplainRecords` compares records and
receipts in both directions, kind by kind, and says that no command was done a
second time under another id. `Migrate` goes to the next of the
configurations in `Configs`; `AdditiveAssumption` is `_additive`.

### DataVault

`grant`, `lineage` and `revoked` are the grants and the rows a look at one
visits; `call` and `state` the `data_calls` table. `Begin` is the first
transaction of `execute` up to the reservation, `Repeat` the same transaction
when the request id is known, `Finish` the second transaction once the processor
returned or raised. Everything else may happen in between; `Crash` forgets the
processors at work and leaves their reservations. Purposes, operations and
disclosures are sets the code treats alike: one set of uses stands for them. The
refinement reads the tree of grants from its owner's side: a root grant is a
mandate, and what was begun anywhere below it counts against it.

### EvolutionEngine and ExperienceJournal

`Recover` and `Decide` are the two outcomes of `cycle`: observations are
recorded in both, a decision is made only if the input is new, no effect is
pending and budget is left. The hash of an input is the input, together with the
memory it is joined with, which the model computes from the applied decisions as
the code does from the journal. A receipt is the number of its decision, and an
acknowledgement is tied to no caller: the host that took the decision may have
died. Hosts of one file may be opened with different limits; the first binds it.
`ExperienceJournal` adds the lessons: `Resolve` and `Candidate` are the two
steps of `candidate`, with corrections of the evidence in between; `Transition` is
the ladder of `ExperienceLoop`, `Invalidate` the propagation to all that is derived,
once for each reference, cause (correction and reason) and revocation. The owner
of the evidence, outside the repository's journal, may send an invalidation before
or after its resolver begins to refuse the reference; `refused` remembers which, and
`ApplicableIsSound` speaks of those after, the order `learning.py` relies on.

### PeaMarket

Only language models are awaited; a turn is thinking, selecting a supplier, or
waiting for the job it submitted. Runtimes run jobs inline, and what
`RunPending` runs is any queued job of the agent: a caller may wait for the turn
of somebody else's job. An owner may ask for a turn again when the last has ended. `Context` is `set_inbound_context`: one depth and one
budget per harness, overwritten for every job it takes; `mixed` remembers the
turns this happened to. `OpenOrder`, `AskMember`, `LoseMember`, `Judge` and
`Split` are `joint_order` between its awaits; any positive payouts that add up to
the reward may be assessed, and a zero payout, which `settle_split` refuses.

### JointOrder

One action per transaction of the contract with its `require`s as guards. Users
are told apart by their deposits; who else may call says who takes a step, not
when, and is left out, as are reputation scores. The fees are computed as the
contract does, rounded down. The token is VIBEToken, which keeps 0.8% of a
transfer unless the tax is off or one end is exempt; `deploy-all.js` exempts the
staking and ecosystem pools, not this contract, and `joinPool` and `raiseDispute`
credit what was sent. So `Receive` takes in the amount with or without the tax.
`refunded`, `paid`, `withheld` (tax kept of deposits) and `overpaid` (what winners
withdrew after a ruling had paid them) are history. `Safe` bounds what each pool pays;
`Covered` says by what the balance may fall short.

### InferenceService

One asyncio process. `queue` and `holder` are the `asyncio.Lock`: first come
first served; a task that finds it free goes on at once, and only registrations
and heartbeats hold it over an await (`NodeSaved`). A message sets whatever status
it carries (`Takes`), also over what a request has set. `gen` counts the objects a
node has had in memory, because a request keeps the object it selected. `marked`
are the nodes whose status a request set last, `shared` those in use that were
opened to others: by a selection between another's `select_node` and `set_busy`,
or by a heartbeat that says idle. An account is read, and saved after an await
(`copy`); `kept` is what the row accounts for, `overlapped` the charges and
deposits that were under way together, one of which may be lost. A request goes
through selection, the node's answer, `set_idle`, charge and the three ledgers; a
restart keeps the tables only, and `load_from_db` restores the nodes as saved.

## 3. Runs

| Run | Instance | Shows |
|---|---|---|
| `escrow` | 2 escrow ids under 2 terms each, 3 parties, 2 calls, 1 crash, wealth 3, fair | `EachLegOnce`, `CopyIsCurrent`, `CustodyCoversHolds`, `AckIsHeld`, `PlanIsIrrevocable`, `HoldsSettle`, `ImplementsPromise` |
| `jobs` | 2 paid jobs (one refused its escrow), a worker and 2 clients that run inline, 1 overrun, 1 crash, at an await or between two writes, fair | `BooksFollowBackend`, `PaidForPassedWork`, `OneExecution`, `Safe` (types, starts accounted for), `JobsFinish`, `EscrowDecided` |
| `journal` | 4 commitment ids with 6 offers and amendments, 2 artifacts, 2 revisions, 2 instances across a migration, some reused command ids, 2 commands under a second id | `ByConsent`, `NoSilentRevision`, `EventsExplainRecords`, `AdoptionEarned`, `OneHeir`, `ExactReplay`, `BudgetHolds`, `Frozen`, `ImplementsRegister` |
| `vault` | a root grant, parts of it delegated twice over, 3 request ids, clock and 1 crash | `TreeBudget`, `Authorised`, `Safe` (types, one processing and one answer per request), `RevocationReaches`, `ImplementsMandate` |
| `evolution` | 2 hosts with different limits, 3 observations of one concern, a remote run, 2 actions, 2 lessons of which one is derived | `NothingForgotten`, `OneGoalAtATime`, `LimitsHold`, `ApplicableIsSound`, `Safe` (types, evidence and results as journalled, one review per invalidation) |
| `market` | an agent with an owner's turn and a joint order for a team of 2, who hand on work to each other | `BudgetKept`, `TeamsDeserveIt`, `MarketSafe` (types, no money made or lost) |
| `serving` | 1 node that may register twice and report idle or busy, 2 requests and a deposit of one user, 1 restart, fair | `AccountsBalance`, `RequestsEnd`, `Safe` (types, no node lost to the pool, none shared unnoticed) |
| `pools` | 2 pools in one contract, 2 users, 2 budgets large enough to be taxed, 1 price, 4 instants | `Covered`, `Safe` (types, nobody refunded twice, never both paid and refunded, winners paid within bounds) |

`Safe` (`MarketSafe` in `PeaMarket`, whose definitions carry a prefix where
`JointOrder` has one of the name) is the type invariant of a module together with the plainer of its safety
facts, which are definitions of their own. In `escrow` and `journal` types, and in
`escrow` `ClosedIsPaid`, are left to the proofs of section 4.

Four runs end in a violation, because the code does not do what a comment of
it says (`findings` in `PROJECT.json`):

* `retries_after_restart`: `claim_next` takes back an expired lease without
  comparing `attempts` with `max_attempts`. A handler that raises is bounded; a job
  whose worker dies is started again every time, though `runtime.py:6` lists the
  bound on retries among what the runtime enforces. `RetryBound` fails; what
  holds is `StartsAccounted`: one start more for every death or overrun.
* `passed_not_released`: the job can be claimed while `submit` awaits
  `open_escrow`. The work is accepted, settlement is skipped because the table
  does not say `escrowed` yet, and then `submit` writes `escrowed`: nothing ever
  releases it. (`EscrowDecided` is what still holds: for jobs whose escrow was
  held when they ran, with no restart and no overrun.)
* `failed_but_paid`: a worker that outlasted its lock writes `failed` over a
  job another worker delivered and was paid for.
* `chain_budget`: `set_inbound_context` replaces the depth and budget of a harness
  for every job it takes, also while a turn of it waits. The turn that continues
  hands on more than its own job was given. (`BudgetKept` is what still holds: for
  turns during which the harness took no other job.)

### Bounds, and why they are enough

Two escrows are needed for one to be paid with the other's money, two calls to
race, one crash to leave a half-made record, three parties for a split that
includes neither only payer nor only payee. Two jobs make a client run inline a
job that is not its own; two attempts make both the retry and the last failure
happen; one overrun gives two holders of a job. Two amendments of one commitment
race, and an amendment of one of them gives a rival before and after the basis
was replaced. Three grants give a chain, a sibling, and a parent whose budget
both draw on; three request ids let calls at all levels overlap.

The bounds on counters are constants: `MaxCrashes`, `MaxOverruns`, `MaxRegisters`
(registrations of a node), `Reports` (the statuses messages carry), `MaxTime` and `Horizon` (clocks, past the last
deadline of the instances). Attempts, revisions, steps and depths are bounded by
the guards of the code. Two runs have a state constraint in their MC module:
`FewJobs` (at most three jobs in the tables of the market's runtimes: the two of
the joint order and one handed on, or a chain of three; at most one of them tried
twice) and `FewEvents` (at most
four decisions, results, feedbacks, corrections and lessons together, and fewer
of one kind where there are others): enough for a goal, its alignment and a second
goal, for two hosts at their limits, for results out of order between two
decisions, and for an invalidation between the steps of a lesson. Both only cut
long histories. `journal` is symmetric in its instances and
`pools` in its pools and users; neither checks liveness. Runs with `CHECK_DEADLOCK
FALSE` are of systems that come to rest: all escrows closed or on hold, all
requests answered, the clock at its last instant.

### Fairness

`VibeEscrow!FairSpec`: an asyncio loop runs every ready coroutine and an awaited
adapter returns or raises, so each call's steps are weakly fair; nothing is
assumed of the rail. `A2ARuntime!FairSpec`: worker loops poll, handlers return or
raise, the backend answers, clocks advance. It assumes that a loop never dies: an
exception outside the `try` of `_execute_job` (of the store, the backend or the
trust bridge) would end `_worker_loop`, and nothing starts it again. `InferenceService!FairSpec`: a task
whose turn it is at the lock goes on, a node asked answers or fails (the request
has a timeout), a row is saved. Clients, crashes, the rail, registrations and
heartbeats are never fair. The journals, the vault, the market and the contract
have no scheduling of their own: hosts, people and language models may stop, so
no liveness is claimed of them.

## 4. Proofs

Every theorem holds for any values of the constants that satisfy the named
ASSUMEs: types, finitely many agents, sentinel values that are no record,
disjoint kinds of tasks, positive prices and amounts where the code rejects
others, the additive rule of migrations. TLC evaluates each ASSUME in the runs,
and each inductive invariant was checked on the instance of its run before it was
proved.

| Module | Theorem | States |
|---|---|---|
| `VibeEscrow_proofs` | `TypeCorrect`, `Invariance` | `TypeOK`, the inductive invariant |
| | `NoDoubleTransfer` | `EachLegOnce` |
| | `NoLostUpdate` | `CopyIsCurrent` |
| | `ClosedBooks` | `ClosedIsPaid` |
| | `AckSafe` | `AckIsHeld` |
| | `CustodyCovers` | `CustodyCoversHolds` |
| | `Irrevocability` | `PlanIsIrrevocable` |
| | `Refinement` | `ImplementsPromise` |
| `A2ARuntime_proofs` | `StartsAreAccounted` | `Safe` |
| | `TableFollowsMoney` | `BooksFollowBackend` |
| | `MoneyFollowsVerdict` | `PaidForPassedWork` |
| | `JobsRunAlone` | `OneExecution` |
| `CollaborationJournal_proofs` | `TypeCorrect` | `TypeOK` |
| | `Consent`, `SoleHeir`, `Earned`, `Noticed` | `ByConsent`, `OneHeir`, `AdoptionEarned`, `NoSilentRevision` |
| | `Replays`, `WithinBudget` | `ExactReplay`, `BudgetHolds` |
| | `Immutable` | `Frozen` |
| | `Explained` | `EventsExplainRecords` |
| | `ChainsAreRegisters` | `ImplementsRegister` |
| `DataVault_proofs` | `ExecuteIsSafe`, `ProcessingIsAuthorised` | `Safe`, `Authorised` |
| | `TreesKeepTheirBudget` | `TreeBudget` |
| | `RevocationHolds` | `RevocationReaches` |
| | `VaultKeepsMandates` | `ImplementsMandate` |
| `EvolutionEngine_proofs` | `LessonsAreSound` | `ApplicableIsSound` |
| | `RecordIsTrue`, `DecisionsAreInformed` | `Safe`, `NothingForgotten` |
| | `GoalsFollowOneAnother`, `LimitsAreKept` | `OneGoalAtATime`, `LimitsHold` |
| `Orders_proofs`, about `JointOrder` | `PoolsPayInBounds`, `ShortfallExplained` | `Safe`, `Covered` |
| `Orders_proofs`, about `PeaMarket` | `MarketIsSafe`, `BudgetsAreKept` | `MarketSafe`, `BudgetKept` |
| | `TeamsGetWhatTheyDeserve` | `TeamsDeserveIt` |
| `InferenceService_proofs` | `PoolLosesNoNode`, `AccountsAddUp` | `Safe`, `AccountsBalance` |

None of these properties is inductive alone. What each proof adds, and why:

**Escrow journal.** `IInv` ties three views of a leg together: the attempt in the
durable record, the program counter of the call, and the transfers in flight or
landed. A record in state `opening` or `transferring` is worked on by at most one
call (two calls could otherwise both send), a leg with no attempt has no
transfer, a confirmed one landed, and a call between its write and its send holds
the only permission to send. A crash needs no argument: it only removes calls.
`Books` says what the custody account holds, deposit by deposit and leg by leg;
`CustodyCovers` follows from it and from the plans being within their amount.
`Refinement` maps every step to a step or a stutter of `EscrowPromise`.

**A2A runtime.** `Money` follows the settlement column and the plan of the backend
through each await, whatever the table has become meanwhile; `Leases` says, while
no handler has outlasted its lock, that whoever works on a job holds it or has
ended it, and nobody else has reported on it; `Attempts` that a running row
nobody handles is owed to a death or an overrun not yet used. A death between two
writes leaves the backend ahead of the table, never behind it, which is all
`Money` asks for; the lemmas `Torn...` go through the writes one by one. The backend is any
that keeps `EscrowPromise`, so `Refinement` above makes these results about
`VibeSettlementBackend` too.

**Collaboration journal.** `IInv` says how the terms, consents and status of a
commitment relate (`CommitmentInv`); that the basis of an amendment was in force
when it was proposed, so it is not the amendment itself, and once superseded never
returns (`HeirInv`: the reason why a second heir must fail `BasisInForce`); that an
artifact has at most one review of a verifier and every adoption stands on passes
(`WorkInv`); and that a goal nobody created has no revision (`GoalsInv`: otherwise
its creation could set a revision back). There is one lemma per handler, with one
step per part. `EventsInv` compares receipts with records, part by part; that nothing is done
twice follows, as a handler refuses whatever is on record already (`NotAgain`). For the refinement,
the chain of a root is the least set closed under amendment (`Chain`); chains are
disjoint, the recursive function `root` of the mapping finds them
(`RootOfChain`: it exists because a function with that property does, no
induction is needed), and at most one commitment of a chain is in force (`OneHolds`).

**Data vault.** The grants are a forest, and `lineage` the way up in it: closed,
linear, leading to one root, through children (`Rooted`, `Climbs`); what a grant
allows all above it allow (`Covers`); what is begun under a grant and delegated of
it fits in it (`Budgeted`). That the whole tree below a grant fits in it is a claim
about all depths; it is proved by a smallest counterexample among the grants whose
subtree exceeds them, which the sums over its children refute (`BudgetOfTrees`).

**Evolution engine and experiences.** `FileInv` adds to the checked properties that
effects are acknowledged once, in the order they were decided, and that only the
newest decision can be pending (`Acknowledged`): hence the memory read back from
the journal is all the subject ever decided. `LessonsInv` keeps a lesson on withdrawn evidence flagged,
or unable to resolve its evidence, hence unable to rise.

**Joint order contract.** `PoolOf` says, status by status, who may still be paid
or refunded, that prices are within the budget of the pool, and that what went
back is what was put in. What is owed is a sum of one debt per pool (`Debt`), and
every transaction raises it by no more than the balance together with the tax
withheld and what was paid twice (`Backing`).

**PEA market.** `MarketInv` says that a job is `running` exactly while its turn is
(`Runs`); that who has submitted waits, and for one turn only, so the answer of a
turn goes to a caller that is still there (`Callers`); what an order knows of its
members at each of its steps, each verdict it has read being one the job really
came to, and verdicts are final (`Awards`); that what an undisturbed turn has
handed on and what is left of its harness's budget are within the amount of its
job (`Limits`); and the conservation of money with open escrows finite in number
(`Money`). `Submit` is one lemma per part, in two cases: the job runs now
(`Ran`, which may be another job of that agent) or has been decided (`Returned`).
The end of a turn settles the asker's side the same way (`Ends`).

**Inference scheduler.** `Lines`: the queue of the lock holds those who wait, each
once; `Progress`: what a task has read at each of its steps; `BusyIsInUse`: a
node a request marked busy is one it will free; `HeldIsNotIdle`: a node not opened
to others is not idle once its request was sent, so nobody else selects it;
for the accounts, that a copy is worth what was read with it (`seen`), and
that who was alone between reading and writing finds the row as it was read.

**Sums.** Budgets, balances and pools are sums over finite sets (`SumFunction`).
The prover has no induction over them; `FiniteSums` proves what the others need
(an element joins or leaves, one summand changes, set by set) from a smallest
counterexample: of the finite sets that break a claim one has none below it.

The proofs corrected the models in three places: `_observe` also refuses two
versions of one observation in one input, which the model had left out and
`Safe` needs; the cases in which the reference policy responds overlapped; and a
few sentinel values had to be kept apart from the records.

Only model-checked: the liveness properties `HoldsSettle`, `JobsFinish`,
`EscrowDecided` and `RequestsEnd`, outside the prover's reach, as is ENABLED.

## 5. Not modelled, and why

Amounts in floats and their 1e-9 tolerance; key derivation, JSON-RPC and text
validation; approval callbacks and backup files of a migration; reputation
formulas; Shapley values; which supplier, verdict or action a language model
chooses (any is allowed); remote suppliers by HTTP; `emergencyWithdraw` and the
owner's setters of the contract; everything listed `not_modelled` in
`PROJECT.json`. The larger part of the repository is of that kind: a meta agent
and an agent SDK around language models and HTTP clients, scoring formulas,
request handlers and recording, with no protocol between steps to check. The
share of the implementation the map covers is small for that reason.

What the models leave out, or show without a property to hold it against:

* Joint orders tell jobs apart by the digest of their content: a second order with
  the same texts is answered with the first one's deliveries, and paid for them.
* `daily_spent` counts payments, not what is handed on through escrows.
* A zero Shapley share makes `settle_split` refuse the plan, and a job or order
  without a verdict waits for people; a job whose escrow was refused runs unpaid.
  In each case the escrow stays as it is, and no code settles it later.
* The context of a harness stays after its job: an owner's later turn is limited by it.
* The contract's `resolveDispute` for a provider pays and leaves `winningBid` as it
  is, so the winner can call `withdrawEarnings` and is paid its price again, from
  the deposits of other pools; the comment at `JointOrder.sol:560`, where a
  withdrawal resets `winningBid`, says repeated withdrawal is prevented. `PaidInBounds`
  lets a winner have its price again exactly after a ruling, and `Covered` counts
  what was `overpaid`.
* A pool of taxed deposits owes more than came in for it: the last to be paid takes
  from other pools, or finds too little. `Covered` counts what was `withheld`.
* What a pool holds beyond its winning bid, and the deposit of a ruling
  for the buyers, stay in the contract; a disputed pool never expires.
* Two balances of one user may be read before either is saved: what the stale save
  loses is lost, and a request is served unbilled. `AccountsBalance` names the charges
  and deposits that may be missing from a row: those that overlapped, or were cut
  short by a restart; all others it must account for.
* A heartbeat that says idle while a request is on the node lets a second request
  in, and a node that reported itself busy stays so over a restart until it
  reports again.
* The docstring of `joint_order` (`pea_market.py:483`) refunds an order when any
  member does not pass; the code, as its comments further down say, leaves an order
  with an unknown verdict to people, and the model follows it.
* A delegation that finds no supplier has still used up budget of its turn;
  `ChainBudget` counts it as handed on.
* The clock of a `cycle` is read before its wait for the file; the model reads it
  and decides in one step.
* A repeated promotion is answered from its record, also when the experience was
  deprecated since; a deprecation by `transition` does not reach what is derived.
* The steps of a joint order between two submissions are separate in the model:
  an over-approximation, as the code does not pause in some of them.

## 6. Plan

1. Done: all modules of section 2 with their runs, and the proofs of section 4.
2. The composition of `A2ARuntime` with `VibeEscrow`, as one module: the promise of
   the backend replaced by its journal, crashes of both at once.
