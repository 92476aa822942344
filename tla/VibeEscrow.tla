----------------------------- MODULE VibeEscrow -----------------------------
(***************************************************************************)
(* VibeSettlementBackend (economic/vibe_settlement.py): a write-ahead      *)
(* escrow journal in SQLite over a transfer function that may lose its     *)
(* answer.  Every coroutine (a call) works on its own copy of the escrow   *)
(* record and saves the whole copy; calls of several processes share the   *)
(* journal file, and a process may die between any two saves.              *)
(*                                                                         *)
(* A transfer is a request to an external rail.  It may land while the     *)
(* call waits, after the adapter reported a timeout, or after the process  *)
(* died; it may also be refused.  All escrows share one custody account.   *)
(*                                                                         *)
(* A slip is a plausible mistake in the definition it precedes; no action  *)
(* uses it, the project substitutes it to see a check notice.              *)
(***************************************************************************)
EXTENDS Naturals, FiniteSets, Functions

CONSTANTS
  Escrows,      \* escrow identifiers
  Parties,      \* account ids that are not the custody account
  Calls,        \* concurrent calls of the backend
  Amounts,      \* amounts a caller may name
  Terms,        \* the terms callers may open with
  Wealth,       \* what every party owns at the start
  MaxCrashes,   \* bound: processes that die
  Absent,       \* "no row in the escrows table"
  Idle          \* "no call in progress"

Legs == {"fund"} \cup Parties       \* the deposit, and one payout per party
Plans == UNION {[S -> Amounts] : S \in {T \in SUBSET Parties : T # {} /\ IsFiniteSet(T)}}
NoPlan == [p \in {} |-> 0]

ASSUME VibeAssumption ==
  /\ Amounts \subseteq Nat \ {0}    \* _positive rejects everything else
  /\ Terms \subseteq [payer : Parties, payee : Parties, amount : Amounts]
  /\ "fund" \notin Parties
  /\ Wealth \in Nat /\ MaxCrashes \in Nat

VARIABLES
  journal,      \* the durable record of every escrow
  call,         \* the coroutine in progress, with its copy of the record
  inflight,     \* requests handed to the rail and not yet decided, per leg
  landed,       \* transfers that took place, per leg
  balance,      \* what every party owns
  custody,      \* what the custody account owns
  acked,        \* history: <<e, terms>> open_escrow returned True for
  crashes

vars == <<journal, call, inflight, landed, balance, custody, acked, crashes>>
rail == <<inflight, landed, balance, custody>>

Record ==
  [state : {"opening", "open", "transferring", "released", "refunded", "uncertain"},
   terms : Terms,
   op : {"none", "release", "refund", "split"},
   plan : Plans \cup {NoPlan},
   attempts : [Legs -> {"none", "attempting", "confirmed", "unknown"}]]

Call == [pc : {"attempt", "send", "wait", "commit"}, e : Escrows, esc : Record, leg : Legs]

ASSUME SentinelAssumption == Absent \notin Record /\ Idle \notin Call

TypeOK ==
  /\ journal \in [Escrows -> Record \cup {Absent}]
  /\ call \in [Calls -> Call \cup {Idle}]
  /\ inflight \in [Escrows -> [Legs -> Nat]]
  /\ landed \in [Escrows -> [Legs -> Nat]]
  /\ balance \in [Parties -> Nat]
  /\ custody \in Nat
  /\ acked \subseteq Escrows \X Terms
  /\ crashes \in Nat

Init ==
  /\ journal = [e \in Escrows |-> Absent]
  /\ call = [c \in Calls |-> Idle]
  /\ inflight = [e \in Escrows |-> [l \in Legs |-> 0]]
  /\ landed = [e \in Escrows |-> [l \in Legs |-> 0]]
  /\ balance = [p \in Parties |-> Wealth]
  /\ custody = 0
  /\ acked = {}
  /\ crashes = 0

-----------------------------------------------------------------------------
\* math.fsum of the planned amounts
PlanTotal(plan) == SumFunction(plan)

\* the default plan of release and refund: everything to one party
WholeTo(party, t) == [p \in {party} |-> t.amount]

\* the amount of one leg of an escrow record
AmountOf(esc, leg) == IF leg = "fund" THEN esc.terms.amount ELSE esc.plan[leg]

\* a call saves its whole copy of the record and goes on, or returns
SaveAnd(c, next) ==
  /\ call' = [call EXCEPT ![c] = next]
  /\ journal' = [journal EXCEPT ![call[c].e] = next.esc]

\* open_escrow: the reservation is one IMMEDIATE transaction
OpenEscrow(c, e, t) ==
  /\ call[c] = Idle
  /\ journal[e] = Absent
  /\ LET esc == [state |-> "opening", terms |-> t, op |-> "none", plan |-> NoPlan,
                 attempts |-> [l \in Legs |-> "none"]]
     IN /\ journal' = [journal EXCEPT ![e] = esc]
        /\ call' = [call EXCEPT ![c] = [pc |-> "attempt", e |-> e, esc |-> esc, leg |-> "fund"]]
  /\ UNCHANGED <<rail, acked, crashes>>

\* what a known record must agree with for an open_escrow to be told True;
\* slip: the terms are not compared
SameId(esc, t) == esc.state = "open"
SameTerms(esc, t) == esc.terms = t /\ esc.state = "open"

\* open_escrow of a known id: True only for the same terms, while it is open
ReopenEscrow(c, e, t) ==
  /\ call[c] = Idle
  /\ journal[e] # Absent
  /\ SameTerms(journal[e], t)
  /\ acked' = acked \cup {<<e, t>>}
  /\ UNCHANGED <<journal, call, rail, crashes>>

\* the checks _finish makes of a plan; slip: its total is not compared
AnyPlan(plan, t) == plan \in Plans
ValidPlan(plan, t) == plan \in Plans /\ PlanTotal(plan) = t.amount

\* the records _finish may claim; slip: also one being paid out
Unclosed(esc) == esc.state \in {"open", "transferring"}
Finishable(esc) == esc.state = "open"

\* _finish: claim the open escrow for one operation, in one transaction
BeginFinish(c, e, op, plan) ==
  /\ call[c] = Idle
  /\ journal[e] # Absent
  /\ Finishable(journal[e])
  /\ op = "release" => plan = WholeTo(journal[e].terms.payee, journal[e].terms)
  /\ op = "refund" => plan = WholeTo(journal[e].terms.payer, journal[e].terms)
  /\ ValidPlan(plan, journal[e].terms)
  /\ \E leg \in DOMAIN plan :
       LET esc == [journal[e] EXCEPT !.state = "transferring", !.op = op, !.plan = plan]
       IN /\ journal' = [journal EXCEPT ![e] = esc]
          /\ call' = [call EXCEPT ![c] = [pc |-> "attempt", e |-> e, esc |-> esc, leg |-> leg]]
  /\ UNCHANGED <<rail, acked, crashes>>

\* _attempt, first save: the intent is durable before the transfer is asked for
WriteAttempt(c) ==
  /\ call[c] # Idle /\ call[c].pc = "attempt"
  /\ SaveAnd(c, [call[c] EXCEPT !.pc = "send", !.esc.attempts[call[c].leg] = "attempting"])
  /\ UNCHANGED <<rail, acked, crashes>>

\* await transfer_fn(source, target, amount)
Send(c) ==
  /\ call[c] # Idle /\ call[c].pc = "send"
  /\ call' = [call EXCEPT ![c].pc = "wait"]
  /\ inflight' = [inflight EXCEPT ![call[c].e][call[c].leg] = @ + 1]
  /\ UNCHANGED <<journal, landed, balance, custody, acked, crashes>>

\* the legs _finish has still to attempt; slip: it goes through the plan again
LegsAgain(esc) == DOMAIN esc.plan
LegsLeft(esc) == {p \in DOMAIN esc.plan : esc.attempts[p] = "none"}

\* _attempt: the adapter returned True
Confirmed(c) ==
  /\ call[c] # Idle /\ call[c].pc = "wait"
  /\ landed[call[c].e][call[c].leg] > 0
  /\ LET esc == [call[c].esc EXCEPT !.attempts[call[c].leg] = "confirmed"]
         rest == LegsLeft(esc)
     IN IF call[c].leg = "fund" \/ rest = {}
        THEN SaveAnd(c, [call[c] EXCEPT !.pc = "commit", !.esc = esc])
        ELSE \E p \in rest :
               SaveAnd(c, [call[c] EXCEPT !.pc = "attempt", !.esc = esc, !.leg = p])
  /\ UNCHANGED <<rail, acked, crashes>>

\* the record of a transfer without a confirmed outcome; slips: it is not put
\* on hold, a failed payout may be tried again
StaysTransferring(esc, leg) == [esc EXCEPT !.attempts[leg] = "unknown"]
OpenAgain(esc, leg) == [esc EXCEPT !.state = IF leg = "fund" THEN "uncertain" ELSE "open"]
OnHold(esc, leg) == [esc EXCEPT !.attempts[leg] = "unknown", !.state = "uncertain"]

\* _attempt: it returned anything else, raised, or was cancelled
Unconfirmed(c) ==
  /\ call[c] # Idle /\ call[c].pc = "wait"
  /\ journal' = [journal EXCEPT ![call[c].e] = OnHold(call[c].esc, call[c].leg)]
  /\ call' = [call EXCEPT ![c] = Idle]
  /\ UNCHANGED <<rail, acked, crashes>>

\* the last save of open_escrow, which then returns True
CommitOpen(c) ==
  /\ call[c] # Idle /\ call[c].pc = "commit" /\ call[c].leg = "fund"
  /\ journal' = [journal EXCEPT ![call[c].e] = [call[c].esc EXCEPT !.state = "open"]]
  /\ acked' = acked \cup {<<call[c].e, call[c].esc.terms>>}
  /\ call' = [call EXCEPT ![c] = Idle]
  /\ UNCHANGED <<rail, crashes>>

\* the last save of _finish
CommitFinish(c) ==
  /\ call[c] # Idle /\ call[c].pc = "commit" /\ call[c].leg # "fund"
  /\ LET closed == IF call[c].esc.op = "refund" THEN "refunded" ELSE "released"
     IN journal' = [journal EXCEPT ![call[c].e] = [call[c].esc EXCEPT !.state = closed]]
  /\ call' = [call EXCEPT ![c] = Idle]
  /\ UNCHANGED <<rail, acked, crashes>>

\* the process of a call dies, or one of its saves raises
Crash(c) ==
  /\ call[c] # Idle /\ crashes < MaxCrashes
  /\ call' = [call EXCEPT ![c] = Idle]
  /\ crashes' = crashes + 1
  /\ UNCHANGED <<journal, rail, acked>>
-----------------------------------------------------------------------------
\* The rail carries out a request: the ledger of make_ledger_transfer_fn, which
\* needs the money to be there and moves all of it.  A wallet moves tokens of
\* VIBEToken, of which less than the amount arrives where the transfer is taxed:
\* what custody holds is claimed of the ledger only.
Land(e, leg) ==
  /\ inflight[e][leg] > 0
  /\ inflight' = [inflight EXCEPT ![e][leg] = @ - 1]
  /\ landed' = [landed EXCEPT ![e][leg] = @ + 1]
  /\ LET amount == AmountOf(journal[e], leg)
     IN IF leg = "fund"
        THEN /\ balance[journal[e].terms.payer] >= amount
             /\ balance' = [balance EXCEPT ![journal[e].terms.payer] = @ - amount]
             /\ custody' = custody + amount
        ELSE /\ custody >= amount
             /\ custody' = custody - amount
             /\ balance' = [balance EXCEPT ![leg] = @ + amount]
  /\ UNCHANGED <<journal, call, acked, crashes>>

\* The rail drops a request: it will never take place.
Refuse(e, leg) ==
  /\ inflight[e][leg] > 0
  /\ inflight' = [inflight EXCEPT ![e][leg] = @ - 1]
  /\ UNCHANGED <<journal, call, landed, balance, custody, acked, crashes>>

CallStep(c) ==
  WriteAttempt(c) \/ Send(c) \/ Confirmed(c) \/ Unconfirmed(c) \/ CommitOpen(c) \/ CommitFinish(c)

Next ==
  \/ \E c \in Calls : CallStep(c) \/ Crash(c)
  \/ \E c \in Calls, e \in Escrows, t \in Terms : OpenEscrow(c, e, t) \/ ReopenEscrow(c, e, t)
  \/ \E c \in Calls, e \in Escrows, plan \in Plans, op \in {"release", "refund", "split"} :
       BeginFinish(c, e, op, plan)
  \/ \E e \in Escrows, leg \in Legs : Land(e, leg) \/ Refuse(e, leg)

Spec == Init /\ [][Next]_vars

\* The event loop runs every ready coroutine, and an awaited adapter returns
\* or raises; nothing is assumed of the rail itself or of callers.
FairSpec == Spec /\ \A c \in Calls : WF_vars(CallStep(c))

-----------------------------------------------------------------------------
Opened(e) == journal[e] # Absent
Paid(e) == {p \in Parties : landed[e][p] > 0}
StateOf(e) == IF Opened(e) THEN journal[e].state ELSE "none"

\* No transfer of an escrow takes place twice, however calls, timeouts, late
\* landings and crashes interleave: "uncertain transfers are never retried".
EachLegOnce == \A e \in Escrows, l \in Legs : inflight[e][l] + landed[e][l] <= 1

\* Whole-record saves lose no update: one call at a time works on an escrow,
\* and its copy is the durable record.
CopyIsCurrent ==
  /\ \A c \in Calls : call[c] # Idle => call[c].esc = journal[call[c].e]
  /\ \A c, d \in Calls : c # d /\ call[c] # Idle /\ call[d] # Idle => call[c].e # call[d].e

\* The pooled custody account covers every escrow said to be open, and what
\* is still unpaid of those being paid out: no escrow is paid with the money
\* of another.
Owed(e) ==
  CASE StateOf(e) = "open" -> journal[e].terms.amount
    [] StateOf(e) = "transferring" -> PlanTotal([p \in DOMAIN journal[e].plan \ Paid(e) |-> journal[e].plan[p]])
    [] OTHER -> 0
CustodyCoversHolds == custody >= SumFunction([e \in {x \in Escrows : Opened(x)} |-> Owed(e)])

\* Closed books: a released or refunded escrow received its deposit and paid
\* exactly the parties of its plan, the payer when it was refunded.
ClosedIsPaid ==
  \A e \in Escrows : StateOf(e) \in {"released", "refunded"} =>
    /\ landed[e]["fund"] = 1
    /\ Paid(e) = DOMAIN journal[e].plan
    /\ StateOf(e) = "refunded" => Paid(e) = {journal[e].terms.payer}

\* A caller that was told True holds an escrow under exactly its terms, with
\* the deposit in custody or paid out by the plan: also after a crash, and
\* for the caller that raced another one with the same id.
AckIsHeld ==
  \A a \in acked : Opened(a[1]) /\ journal[a[1]].terms = a[2] /\ landed[a[1]]["fund"] = 1

\* Once an operation has claimed an escrow no other one can: operation and
\* plan are fixed, and closed or uncertain escrows are never touched again.
PlanIsIrrevocable ==
  [][\A e \in Escrows : Opened(e) =>
       /\ Opened(e)' /\ journal'[e].terms = journal[e].terms
       /\ journal[e].op # "none" =>
            journal'[e].op = journal[e].op /\ journal'[e].plan = journal[e].plan
       /\ journal[e].state \in {"released", "refunded", "uncertain"} => journal'[e] = journal[e]]_journal

\* Without a crash no record stays half-way: it becomes open, closed or
\* uncertain, so a person can always be shown what to reconcile.
HoldsSettle ==
  \A e \in Escrows : StateOf(e) \in {"opening", "transferring"}
                       ~> (StateOf(e) \notin {"opening", "transferring"} \/ crashes > 0)

\* The journal implements what EscrowPromise promises.
Promise == INSTANCE EscrowPromise WITH
  phase <- [e \in Escrows |-> StateOf(e)],
  funded <- [e \in Escrows |-> landed[e]["fund"] > 0],
  op <- [e \in Escrows |-> IF Opened(e) THEN journal[e].op ELSE "none"],
  plan <- [e \in Escrows |-> IF Opened(e) THEN DOMAIN journal[e].plan ELSE {}],
  paid <- [e \in Escrows |-> Paid(e)]
ImplementsPromise == Promise!Spec
=============================================================================
