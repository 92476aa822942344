-------------------------- MODULE A2ARuntime_proofs --------------------------
(***************************************************************************)
(* Proofs about A2ARuntime, for any jobs, tasks, attempts, restarts and    *)
(* overrun leases.  Of the escrow backend they use EscrowPromise, nothing  *)
(* else; VibeEscrow_proofs shows that VibeEscrow keeps it.                 *)
(*                                                                         *)
(* Four parts of the state are looked at one after the other: types, the   *)
(* money and what the table says of it, the leases, and the attempts.      *)
(***************************************************************************)
EXTENDS A2ARuntime, FiniteSetTheorems, TLAPS

Parties == {"payer", "payee"}

Types ==
  /\ TypeOK
  /\ op \in [Jobs -> Escrow!Ops]
  /\ plan \in [Jobs -> SUBSET Parties] /\ paid \in [Jobs -> SUBSET Parties]

\* Money leaves custody by the plan a handler's end chose, the table follows.
MoneyOf(j) ==
  /\ phase[j] \in {"none", "opening"} => settlement[j] = "none" /\ plan[j] = {}
  /\ phase[j] = "open" => plan[j] = {}
  /\ phase[j] \in {"open", "transferring", "released", "refunded"} => funded[j]
  /\ plan[j] # {} => funded[j]
  /\ paid[j] \subseteq plan[j]
  /\ "payee" \in plan[j] => j \in passed
  /\ "payer" \in plan[j] => j \in gaveUp

TransferOf(t) ==
  /\ task[t].at = "settling" => op[task[t].job] = "release" /\ plan[task[t].job] # {}
  /\ task[t].at = "refunding" => op[task[t].job] = "refund" /\ plan[task[t].job] # {}

Money == BooksFollowBackend /\ (\A j \in Jobs : MoneyOf(j)) /\ \A t \in Tasks : TransferOf(t)

\* While no handler outlasted its lock, one task works on a job at a time, and
\* it is the only one to report on it.
Works(t, j) == task[t].at \in {"handling", "settling", "refunding"} /\ task[t].job = j

LeaseOf(j) ==
  /\ \A t, u \in Tasks : Works(t, j) /\ Works(u, j) => t = u
  /\ \A t \in Tasks : Works(t, j) => credit[j] = 0 /\ penalty[j] = 0
  /\ \A t \in Tasks : Handles(t, j) => status[j] = "running" /\ lock[j] = "held"
  /\ \A t \in Tasks : Works(t, j) => Handles(t, j) \/ status[j] \in Terminal
  /\ status[j] \notin Terminal => credit[j] = 0 /\ penalty[j] = 0
  /\ credit[j] + penalty[j] <= 1

Leases == overruns = 0 => \A j \in Jobs : LeaseOf(j)

\* A start is owed to a retry, or to a death or an overrun nobody used yet.
Abandoned(j) == status[j] = "running" /\ (lock[j] = "expired" \/ \A t \in Tasks : ~Handles(t, j))

AttemptsOf(j) ==
  /\ attempts[j] <= MaxAttempts + crashes + overruns
  /\ status[j] \in {"absent", "queued"} => attempts[j] < MaxAttempts
  /\ Abandoned(j) => attempts[j] < MaxAttempts + crashes + overruns

Attempts == \A j \in Jobs : AttemptsOf(j)

IInv == Types /\ Money /\ Leases /\ Attempts

(***************************************************************************)
(* Types                                                                   *)
(***************************************************************************)
Tasked == {Idle} \cup [at : {"escrowing", "handling", "settling", "refunding"}, job : Jobs]

\* What the end of submit may do to the table.
LEMMA RunInlineCases ==
  ASSUME NEW t, NEW st, NEW wanted, RunInline(t, st, wanted)
  PROVE  \/ \E j \in Claimable(st) : ClaimNext(t, st, j)
         \/ /\ status' = st /\ task' = [task EXCEPT ![t] = Idle]
            /\ UNCHANGED <<attempts, lock>>
  BY DEF RunInline

\* Starting a job keeps the types of the columns it writes.
LEMMA ClaimNextType ==
  ASSUME TypeOK, NEW t \in Tasks, NEW st \in [Jobs -> {"absent", "queued", "running"} \cup Terminal],
         NEW j \in Jobs, ClaimNext(t, st, j)
  PROVE  /\ status' \in [Jobs -> {"absent", "queued", "running"} \cup Terminal]
         /\ attempts' \in [Jobs -> Nat]
         /\ lock' \in [Jobs -> {"free", "held", "expired"}]
         /\ task' \in [Tasks -> Tasked]
  BY DEF ClaimNext, TypeOK, Tasked, Busy, Terminal

LEMMA RunInlineType ==
  ASSUME TypeOK, NEW t \in Tasks, NEW st \in [Jobs -> {"absent", "queued", "running"} \cup Terminal],
         NEW wanted, RunInline(t, st, wanted)
  PROVE  /\ status' \in [Jobs -> {"absent", "queued", "running"} \cup Terminal]
         /\ attempts' \in [Jobs -> Nat]
         /\ lock' \in [Jobs -> {"free", "held", "expired"}]
         /\ task' \in [Tasks -> Tasked]
<1>1. CASE \E j \in Claimable(st) : ClaimNext(t, st, j)
  BY <1>1, ClaimNextType DEF Claimable
<1>2. CASE status' = st /\ task' = [task EXCEPT ![t] = Idle] /\ UNCHANGED <<attempts, lock>>
  BY <1>2 DEF TypeOK, Tasked
<1>3. QED
  BY <1>1, <1>2, RunInlineCases

LEMMA InitTypes == Init => Types
  BY A2AAssumption DEF Init, Types, TypeOK, Escrow!Init, Escrow!Phases, Escrow!Ops, Parties, Idle, Terminal

LEMMA SubmitTypes ==
  ASSUME Types, NEW t \in Clients, NEW j \in Jobs, Submit(t, j)
  PROVE  Types'
<1> DEFINE st == IF status[j] = "absent" THEN [status EXCEPT ![j] = "queued"] ELSE status
<1>1. st \in [Jobs -> {"absent", "queued", "running"} \cup Terminal] /\ t \in Tasks
  BY DEF Types, TypeOK, Tasks
<1>2. UNCHANGED <<gate, reports, bounds>>
  BY DEF Submit
<1>3. CASE /\ Escrow!Reserve(j)
           /\ status' = st
           /\ task' = [task EXCEPT ![t] = Busy("escrowing", j)]
           /\ UNCHANGED <<attempts, lock, settlement>>
  BY <1>1, <1>2, <1>3 DEF Types, TypeOK, Escrow!Reserve, Escrow!Phases, Busy, reports, bounds
<1>4. CASE /\ settlement' = [settlement EXCEPT ![j] = "escrowed"]
           /\ RunInline(t, st, TRUE)
           /\ UNCHANGED backend
  <2> HIDE DEF st
  <2>1. /\ status' \in [Jobs -> {"absent", "queued", "running"} \cup Terminal]
        /\ attempts' \in [Jobs -> Nat] /\ lock' \in [Jobs -> {"free", "held", "expired"}]
        /\ task' \in [Tasks -> Tasked]
    BY <1>1, <1>4, RunInlineType DEF Types
  <2>2. QED
    BY <1>2, <1>4, <2>1 DEF Types, TypeOK, Tasked, backend, reports, bounds
<1>5. CASE RunInline(t, st, st[j] = "queued") /\ UNCHANGED <<settlement, backend>>
  <2> HIDE DEF st
  <2>1. /\ status' \in [Jobs -> {"absent", "queued", "running"} \cup Terminal]
        /\ attempts' \in [Jobs -> Nat] /\ lock' \in [Jobs -> {"free", "held", "expired"}]
        /\ task' \in [Tasks -> Tasked]
    BY <1>1, <1>5, RunInlineType DEF Types
  <2>2. QED
    BY <1>2, <1>5, <2>1 DEF Types, TypeOK, Tasked, backend, reports, bounds
<1>6. QED
  BY <1>3, <1>4, <1>5 DEF Submit

LEMMA AnswerTypes ==
  ASSUME Types, NEW t \in Tasks, Answer(t)
  PROVE  Types'
<1> DEFINE j == task[t].job
<1>1. task[t] # Idle => j \in Jobs
  BY DEF Types, TypeOK
<1>2. CASE Escrowed(t)
  <2>1. j \in Jobs
    BY <1>1, <1>2 DEF Escrowed, Idle
  <2>2. /\ status' \in [Jobs -> {"absent", "queued", "running"} \cup Terminal]
        /\ attempts' \in [Jobs -> Nat] /\ lock' \in [Jobs -> {"free", "held", "expired"}]
        /\ task' \in [Tasks -> Tasked]
    BY <1>2, RunInlineType DEF Types, TypeOK, Escrowed
  <2>3. QED
    BY <1>2, <2>1, <2>2 DEF Escrowed, Types, TypeOK, Tasked, reports, bounds, Escrow!Hold, Escrow!Phases
<1>3. CASE EscrowFailed(t)
  <2>1. j \in Jobs
    BY <1>1, <1>3 DEF EscrowFailed, Idle
  <2>2. /\ status' \in [Jobs -> {"absent", "queued", "running"} \cup Terminal]
        /\ attempts' \in [Jobs -> Nat] /\ lock' \in [Jobs -> {"free", "held", "expired"}]
        /\ task' \in [Tasks -> Tasked]
    BY <1>3, RunInlineType DEF Types, TypeOK, EscrowFailed
  <2>3. QED
    BY <1>3, <2>1, <2>2 DEF EscrowFailed, Types, TypeOK, Tasked, reports, bounds, Escrow!Doubt, Escrow!Phases
<1>4. CASE Settled(t)
  <2>1. j \in Jobs
    BY <1>1, <1>4 DEF Settled, Idle
  <2>2. QED
    BY <1>4, <2>1 DEF Settled, Store, Credit, Done, Types, TypeOK, bounds, Escrow!Doubt, Escrow!Close, Escrow!Phases
<1>5. CASE Refunded(t)
  <2>1. j \in Jobs
    BY <1>1, <1>5 DEF Refunded, Idle
  <2>2. QED
    BY <1>5, <2>1 DEF Refunded, Store, Penalise, Done, Types, TypeOK, bounds, Escrow!Doubt, Escrow!Close, Escrow!Phases
<1>6. QED
  BY <1>2, <1>3, <1>4, <1>5 DEF Answer

LEMMA HandlerTypes ==
  ASSUME Types, NEW t \in Tasks, Handler(t)
  PROVE  Types'
<1> DEFINE j == task[t].job
<1>1. j \in Jobs
  BY DEF Types, TypeOK, Handler, HandlerManual, HandlerRaised, HandlerDone, Idle
<1>2. CASE HandlerManual(t)
  BY <1>1, <1>2 DEF HandlerManual, Mark, Done, Types, TypeOK, backend, reports, bounds, Terminal
<1>3. CASE HandlerRaised(t)
  <2>1. /\ status' \in [Jobs -> {"absent", "queued", "running"} \cup Terminal]
        /\ lock' \in [Jobs -> {"free", "held", "expired"}]
        /\ gaveUp' \subseteq Jobs
        /\ UNCHANGED <<attempts, settlement, gate, credit, passed, bounds>>
    BY <1>1, <1>3 DEF HandlerRaised, Mark, Types, TypeOK, Terminal
  <2>2. CASE Done(t) /\ UNCHANGED <<penalty, backend>>
    BY <1>1, <2>1, <2>2 DEF Types, TypeOK, Done, backend, bounds
  <2>3. CASE Escrow!Commit(j, "refund", {"payer"}) /\ task' = [task EXCEPT ![t] = Busy("refunding", j)]
             /\ UNCHANGED penalty
    BY <1>1, <2>1, <2>3 DEF Types, TypeOK, bounds, Busy, Escrow!Commit, Escrow!Phases, Escrow!Ops, Parties
  <2>4. CASE Penalise(j) /\ Done(t) /\ UNCHANGED backend
    BY <1>1, <2>1, <2>4 DEF Types, TypeOK, Penalise, Done, backend, bounds
  <2>5. QED
    BY <1>3, <2>2, <2>3, <2>4 DEF HandlerRaised
<1>4. ASSUME NEW g \in {"passed", "failed", "unknown"}, HandlerDone(t, g)
      PROVE  Types'
  <2>1. /\ status' \in [Jobs -> {"absent", "queued", "running"} \cup Terminal]
        /\ lock' \in [Jobs -> {"free", "held", "expired"}]
        /\ gate' \in [Jobs -> {"pending", "passed", "failed", "unknown"}]
        /\ passed' \subseteq Jobs /\ UNCHANGED <<attempts, settlement, gaveUp, bounds>>
    BY <1>1, <1>4 DEF HandlerDone, Mark, Types, TypeOK, Terminal
  <2>2. CASE Escrow!Commit(j, "release", {"payee"}) /\ task' = [task EXCEPT ![t] = Busy("settling", j)]
             /\ UNCHANGED <<credit, penalty>>
    BY <1>1, <2>1, <2>2 DEF Types, TypeOK, bounds, Busy, Escrow!Commit, Escrow!Phases, Escrow!Ops, Parties
  <2>3. CASE Credit(j) /\ Done(t) /\ UNCHANGED <<penalty, backend>>
    BY <1>1, <2>1, <2>3 DEF Types, TypeOK, Credit, Done, backend, bounds
  <2>4. CASE Penalise(j) /\ Done(t) /\ UNCHANGED <<credit, backend>>
    BY <1>1, <2>1, <2>4 DEF Types, TypeOK, Penalise, Done, backend, bounds
  <2>5. CASE Done(t) /\ UNCHANGED <<credit, penalty, backend>>
    BY <1>1, <2>1, <2>5 DEF Types, TypeOK, Done, backend, bounds
  <2>6. QED
    BY <1>4, <2>2, <2>3, <2>4, <2>5 DEF HandlerDone
<1>5. QED
  BY <1>2, <1>3, <1>4 DEF Handler

\* What the process had written when it died between two writes of task t: a
\* new row, the end of a handler, or what the backend saved of job j's transfer.
TornRow == \E k \in Jobs : status[k] = "absent" /\ status' = [status EXCEPT ![k] = "queued"]

TornEnd(t, j) ==
  /\ Handles(t, j)
  /\ Mark(j, "succeeded") \/ Mark(j, "failed")
  /\ gate' \in [Jobs -> {"pending", "passed", "failed", "unknown"}]
  /\ passed' \in {passed, passed \cup {j}} /\ gaveUp' \in {gaveUp, gaveUp \cup {j}}

TornTransfer(t, j) ==
  \/ /\ task[t].at \in {"escrowing", "settling", "refunding"}
     /\ Escrow!Doubt(j) /\ UNCHANGED settlement
  \/ \E told \in BOOLEAN :
       \/ task[t].at = "escrowing" /\ Escrow!Hold(j) /\ Store(j, told, "escrowed")
       \/ task[t].at = "settling" /\ Escrow!Close(j) /\ Store(j, told, "settled")
       \/ task[t].at = "refunding" /\ Escrow!Close(j) /\ Store(j, told, "refunded")

LEMMA TornCases ==
  ASSUME Types, NEW t \in Tasks, Torn(t)
  PROVE  /\ crashes < MaxCrashes /\ crashes' = crashes + 1
         /\ task' = [u \in Tasks |-> Idle]
         /\ UNCHANGED <<attempts, credit, penalty, overruns>>
         /\ \/ TornRow /\ UNCHANGED <<lock, settlement, gate, passed, gaveUp, backend>>
            \/ \E j \in Jobs : TornEnd(t, j) /\ UNCHANGED <<settlement, backend>>
            \/ \E j \in Jobs : /\ task[t].job = j /\ TornTransfer(t, j)
                               /\ UNCHANGED <<status, lock, gate, passed, gaveUp>>
<1> DEFINE j == task[t].job
<1>1. task[t].at # "idle" => j \in Jobs
  BY DEF Types, TypeOK, Idle
<1>2. /\ crashes < MaxCrashes /\ crashes' = crashes + 1
      /\ task' = [u \in Tasks |-> Idle]
      /\ UNCHANGED <<attempts, credit, penalty, overruns>>
  BY DEF Torn
<1>3. task[t].at = "handling" => Handles(t, j)
  BY DEF Types, TypeOK, Handles, Busy, Idle
<1>4. CASE TornRow /\ UNCHANGED <<lock, settlement, gate, passed, gaveUp, backend>>
  BY <1>2, <1>4
<1>5. ASSUME task[t].at = "handling", Mark(j, "succeeded"), UNCHANGED <<settlement, gaveUp, backend>>,
             NEW g \in {"passed", "failed", "unknown"}, gate' = [gate EXCEPT ![j] = g],
             passed' = IF g = "passed" THEN passed \cup {j} ELSE passed
      PROVE  TornEnd(t, j)
  BY <1>1, <1>3, <1>5 DEF TornEnd, Types, TypeOK
<1>6. CASE /\ task[t].at = "handling" /\ Mark(j, "failed") /\ gaveUp' = gaveUp \cup {j}
           /\ UNCHANGED <<settlement, gate, passed, backend>>
  <2>1. TornEnd(t, j)
    BY <1>3, <1>6 DEF TornEnd, Types, TypeOK
  <2>2. QED
    BY <1>1, <1>2, <1>6, <2>1
<1>7. CASE /\ task[t].at \in {"escrowing", "settling", "refunding"} /\ TornTransfer(t, j)
           /\ UNCHANGED <<status, lock, gate, passed, gaveUp>>
  BY <1>1, <1>2, <1>7
<1>8. QED
  BY <1>1, <1>2, <1>4, <1>5, <1>6, <1>7 DEF Torn, TornRow, TornTransfer

LEMMA TornTypes ==
  ASSUME Types, NEW t \in Tasks, Torn(t)
  PROVE  Types'
<1>1. /\ crashes' \in 0..MaxCrashes /\ task' \in [Tasks -> Tasked]
      /\ UNCHANGED <<attempts, credit, penalty, overruns>>
  BY TornCases, A2AAssumption DEF Types, TypeOK, Tasked
<1>2. CASE TornRow /\ UNCHANGED <<lock, settlement, gate, passed, gaveUp, backend>>
  BY <1>1, <1>2 DEF TornRow, Types, TypeOK, Tasked, backend
<1>3. ASSUME NEW j \in Jobs, TornEnd(t, j), UNCHANGED <<settlement, backend>>
      PROVE  Types'
  BY <1>1, <1>3 DEF TornEnd, Mark, Types, TypeOK, Tasked, Terminal, backend
<1>4. ASSUME NEW j \in Jobs, TornTransfer(t, j), UNCHANGED <<status, lock, gate, passed, gaveUp>>
      PROVE  Types'
  <2>1. settlement' \in [Jobs -> {"none", "escrowed", "settled", "refunded"}]
    BY <1>4 DEF TornTransfer, Store, Types, TypeOK
  <2>2. phase' \in [Jobs -> Escrow!Phases] /\ UNCHANGED <<funded, op, plan, paid>>
    BY <1>4 DEF TornTransfer, Escrow!Hold, Escrow!Close, Escrow!Doubt, Escrow!Phases, Types, TypeOK
  <2>3. QED
    BY <1>1, <1>4, <2>1, <2>2 DEF Types, TypeOK, Tasked
<1>5. QED
  BY <1>2, <1>3, <1>4, TornCases

\* No step leaves the types.
LEMMA NextTypes == Types /\ [Next]_vars => Types'
<1> SUFFICES ASSUME Types, [Next]_vars PROVE Types'
  OBVIOUS
<1>1. ASSUME NEW t \in Clients, NEW j \in Jobs, Submit(t, j) PROVE Types'
  BY <1>1, SubmitTypes
<1>2. ASSUME NEW t \in Tasks, Claim(t) PROVE Types'
  <2>1. PICK j \in Claimable(status) : ClaimNext(t, status, j)
    BY <1>2 DEF Claim
  <2>2. /\ status' \in [Jobs -> {"absent", "queued", "running"} \cup Terminal]
        /\ attempts' \in [Jobs -> Nat] /\ lock' \in [Jobs -> {"free", "held", "expired"}]
        /\ task' \in [Tasks -> Tasked]
    BY <2>1, ClaimNextType DEF Claimable, Types, TypeOK
  <2>3. QED
    BY <1>2, <2>2 DEF Claim, Types, TypeOK, Tasked, backend, reports, bounds
<1>3. ASSUME NEW t \in Tasks, Handler(t) PROVE Types'
  BY <1>3, HandlerTypes
<1>4. ASSUME NEW t \in Tasks, Answer(t) PROVE Types'
  BY <1>4, AnswerTypes
<1>5. ASSUME NEW t \in Tasks, Cancel(t) PROVE Types'
  <2>1. task[t].job \in Jobs
    BY <1>5 DEF Cancel, Types, TypeOK
  <2>2. QED
    BY <1>5, <2>1, A2AAssumption DEF Cancel, Done, Types, TypeOK, table, reports, backend, Escrow!Doubt, Escrow!Phases
<1>6. ASSUME NEW j \in Jobs, Expire(j) PROVE Types'
  BY <1>6, A2AAssumption DEF Expire, Types, TypeOK, reports, backend
<1>7. ASSUME NEW j \in Jobs, Rail(j) PROVE Types'
  <2>1. CASE Escrow!Deposit(j)
    BY <1>7, <2>1 DEF Rail, Types, TypeOK, table, reports, bounds, Escrow!Deposit
  <2>2. ASSUME NEW p \in Parties, Escrow!Pay(j, p) PROVE Types'
    <3>1. paid' = [paid EXCEPT ![j] = @ \cup {p}] /\ paid' \in [Jobs -> SUBSET Parties]
      BY <2>2 DEF Types, Escrow!Pay
    <3>2. QED
      BY <1>7, <2>2, <3>1 DEF Rail, Types, TypeOK, table, reports, bounds, Escrow!Pay
  <2>3. QED
    BY <1>7, <2>1, <2>2 DEF Rail, Parties
<1>8. ASSUME Crash PROVE Types'
  BY <1>8, A2AAssumption DEF Crash, Types, TypeOK, table, reports, backend
<1>9. ASSUME NEW t \in Tasks, Torn(t) PROVE Types'
  BY <1>9, TornTypes
<1>10. ASSUME UNCHANGED vars PROVE Types'
  BY <1>10 DEF vars, table, reports, bounds, backend, Types, TypeOK
<1>11. QED
  BY <1>1, <1>2, <1>3, <1>4, <1>5, <1>6, <1>7, <1>8, <1>9, <1>10 DEF Next

(***************************************************************************)
(* Money                                                                   *)
(***************************************************************************)
\* What the end of submit does to the tasks of the others: nothing; its own
\* task never becomes one that waits for a payout.
LEMMA RunInlineTasks ==
  ASSUME TypeOK, NEW t \in Tasks, NEW st, NEW wanted, RunInline(t, st, wanted), NEW u \in Tasks
  PROVE  task'[u] = task[u] \/ task'[u].at \in {"idle", "handling"}
  BY RunInlineCases DEF ClaimNext, TypeOK, Busy, Idle

LEMMA InitMoney == Init => Money
  BY DEF Init, Money, MoneyOf, BooksFollowBackend, TransferOf, Escrow!Init, Idle

\* A step that leaves the backend, the settlement column and the verdicts alone
\* and starts no payout keeps Money.
LEMMA SameMoney ==
  ASSUME Money, Types, UNCHANGED <<settlement, backend>>, passed \subseteq passed', gaveUp \subseteq gaveUp',
         \A u \in Tasks : task'[u] = task[u] \/ task'[u].at \in {"idle", "handling"}
  PROVE  Money'
  BY DEF Money, MoneyOf, BooksFollowBackend, TransferOf, backend

LEMMA SubmitMoney ==
  ASSUME Types, Money, NEW t \in Clients, NEW j \in Jobs, Submit(t, j)
  PROVE  Money'
<1> DEFINE st == IF status[j] = "absent" THEN [status EXCEPT ![j] = "queued"] ELSE status
<1>1. t \in Tasks /\ UNCHANGED reports
  BY DEF Tasks, Submit
<1>2. CASE /\ Escrow!Reserve(j)
           /\ task' = [task EXCEPT ![t] = Busy("escrowing", j)]
           /\ UNCHANGED settlement
  BY <1>1, <1>2 DEF Types, TypeOK, reports, Money, MoneyOf, BooksFollowBackend, TransferOf, Escrow!Reserve, Busy
<1>3. CASE /\ phase[j] = "open" /\ settlement' = [settlement EXCEPT ![j] = "escrowed"]
           /\ RunInline(t, st, TRUE)
           /\ UNCHANGED backend
  <2> HIDE DEF st
  <2>1. \A u \in Tasks : task'[u] = task[u] \/ task'[u].at \in {"idle", "handling"}
    BY <1>1, <1>3, RunInlineTasks DEF Types
  <2>2. QED
    BY <1>1, <1>3, <2>1 DEF Types, TypeOK, reports, backend, Money, MoneyOf, BooksFollowBackend, TransferOf
<1>4. CASE RunInline(t, st, st[j] = "queued") /\ UNCHANGED <<settlement, backend>>
  <2> HIDE DEF st
  <2>1. \A u \in Tasks : task'[u] = task[u] \/ task'[u].at \in {"idle", "handling"}
    BY <1>1, <1>4, RunInlineTasks DEF Types
  <2>2. QED
    BY <1>1, <1>4, <2>1, SameMoney DEF reports
<1>5. QED
  BY <1>2, <1>3, <1>4 DEF Submit

LEMMA AnswerMoney ==
  ASSUME Types, Money, NEW t \in Tasks, Answer(t)
  PROVE  Money'
<1> DEFINE j == task[t].job
<1>1. task[t] # Idle => j \in Jobs
  BY DEF Types, TypeOK
<1>2. CASE Escrowed(t)
  <2>1. j \in Jobs /\ UNCHANGED reports
    BY <1>1, <1>2 DEF Escrowed, Idle
  <2>2. \A u \in Tasks : task'[u] = task[u] \/ task'[u].at \in {"idle", "handling"}
    BY <1>2, RunInlineTasks DEF Types, Escrowed
  <2>3. QED
    BY <1>2, <2>1, <2>2 DEF Escrowed, Types, TypeOK, reports, Escrow!Hold, Money, MoneyOf, BooksFollowBackend, TransferOf
<1>3. CASE EscrowFailed(t)
  <2>1. j \in Jobs /\ UNCHANGED <<settlement, reports>> /\ Escrow!Doubt(j)
    BY <1>1, <1>3 DEF EscrowFailed, Idle
  <2>2. \A u \in Tasks : task'[u] = task[u] \/ task'[u].at \in {"idle", "handling"}
    BY <1>3, RunInlineTasks DEF Types, EscrowFailed
  <2>3. QED
    BY <2>1, <2>2 DEF Types, TypeOK, reports, Escrow!Doubt, Money, MoneyOf, BooksFollowBackend, TransferOf
<1>4. CASE Settled(t)
  <2>1. j \in Jobs /\ UNCHANGED <<passed, gaveUp>> /\ op[j] = "release" /\ plan[j] # {}
    BY <1>1, <1>4 DEF Settled, Idle, Money, TransferOf
  <2>2. \A u \in Tasks : task'[u] = task[u] \/ task'[u].at \in {"idle", "handling"}
    BY <1>4 DEF Settled, Done, Types, TypeOK, Idle
  <2>3. CASE Escrow!Close(j) /\ Store(j, TRUE, "settled")
    BY <2>1, <2>2, <2>3 DEF Store, Types, TypeOK, Escrow!Close, Money, MoneyOf, BooksFollowBackend, TransferOf
  <2>4. CASE Escrow!Doubt(j) /\ Store(j, FALSE, "settled")
    BY <2>1, <2>2, <2>4 DEF Store, Types, TypeOK, Escrow!Doubt, Money, MoneyOf, BooksFollowBackend, TransferOf
  <2>5. QED
    BY <1>4, <2>3, <2>4 DEF Settled
<1>5. CASE Refunded(t)
  <2>1. j \in Jobs /\ UNCHANGED <<passed, gaveUp>> /\ op[j] = "refund" /\ plan[j] # {}
    BY <1>1, <1>5 DEF Refunded, Idle, Money, TransferOf
  <2>2. \A u \in Tasks : task'[u] = task[u] \/ task'[u].at \in {"idle", "handling"}
    BY <1>5 DEF Refunded, Done, Types, TypeOK, Idle
  <2>3. CASE Escrow!Close(j) /\ Store(j, TRUE, "refunded")
    BY <2>1, <2>2, <2>3 DEF Store, Types, TypeOK, Escrow!Close, Money, MoneyOf, BooksFollowBackend, TransferOf
  <2>4. CASE Escrow!Doubt(j) /\ Store(j, FALSE, "refunded")
    BY <2>1, <2>2, <2>4 DEF Store, Types, TypeOK, Escrow!Doubt, Money, MoneyOf, BooksFollowBackend, TransferOf
  <2>5. QED
    BY <1>5, <2>3, <2>4 DEF Refunded
<1>6. QED
  BY <1>2, <1>3, <1>4, <1>5 DEF Answer

LEMMA HandlerMoney ==
  ASSUME Types, Money, NEW t \in Tasks, Handler(t)
  PROVE  Money'
<1> DEFINE j == task[t].job
<1>1. j \in Jobs
  BY DEF Types, TypeOK, Handler, HandlerManual, HandlerRaised, HandlerDone, Idle
<1>2. CASE HandlerManual(t)
  BY <1>1, <1>2, SameMoney DEF HandlerManual, Done, Types, TypeOK, reports, Idle
<1>3. CASE HandlerRaised(t)
  <2>1. passed' = passed /\ UNCHANGED settlement
    BY <1>3 DEF HandlerRaised
  <2>2. CASE Done(t) /\ UNCHANGED backend /\ gaveUp \subseteq gaveUp'
    BY <2>1, <2>2, SameMoney DEF Done, Types, TypeOK, Idle
  <2>3. CASE /\ Pays(j) /\ gaveUp' = gaveUp \cup {j}
             /\ Escrow!Commit(j, "refund", {"payer"}) /\ task' = [task EXCEPT ![t] = Busy("refunding", j)]
    <3>1. /\ phase[j] = "open" /\ settlement[j] = "escrowed" /\ plan[j] = {} /\ paid[j] = {} /\ funded[j]
          /\ phase' = [phase EXCEPT ![j] = "transferring"] /\ plan' = [plan EXCEPT ![j] = {"payer"}]
          /\ op' = [op EXCEPT ![j] = "refund"] /\ UNCHANGED <<funded, paid>>
      BY <1>1, <2>3 DEF Pays, Escrow!Commit, Money, MoneyOf
    <3>2. BooksFollowBackend'
      BY <1>1, <2>1, <3>1 DEF Types, TypeOK, Money, BooksFollowBackend
    <3>3. ASSUME NEW i \in Jobs PROVE MoneyOf(i)'
      BY <1>1, <2>1, <2>3, <3>1 DEF Types, TypeOK, Money, MoneyOf
    <3>4. ASSUME NEW u \in Tasks PROVE TransferOf(u)'
      <4>1. CASE u = t
        BY <1>1, <2>3, <3>1, <4>1 DEF Types, TypeOK, TransferOf, Busy
      <4>2. CASE u # t
        <5>1. task'[u] = task[u] /\ (task[u].at \in {"settling", "refunding"} => task[u].job \in Jobs)
          BY <2>3, <4>2 DEF Types, TypeOK, Idle
        <5>2. QED
          BY <3>1, <5>1 DEF Types, TypeOK, Money, TransferOf
      <4>3. QED
        BY <4>1, <4>2
    <3>5. QED
      BY <3>2, <3>3, <3>4 DEF Money
  <2>4. QED
    BY <1>3, <2>2, <2>3 DEF HandlerRaised
<1>4. ASSUME NEW g \in {"passed", "failed", "unknown"}, HandlerDone(t, g)
      PROVE  Money'
  <2>1. gaveUp' = gaveUp /\ UNCHANGED settlement /\ passed \subseteq passed' /\ (Accepts(g) => j \in passed')
    BY <1>4 DEF HandlerDone, Accepts
  <2>2. CASE Done(t) /\ UNCHANGED backend
    BY <2>1, <2>2, SameMoney DEF Done, Types, TypeOK, Idle
  <2>3. CASE /\ Accepts(g) /\ Pays(j)
             /\ Escrow!Commit(j, "release", {"payee"}) /\ task' = [task EXCEPT ![t] = Busy("settling", j)]
    <3>1. /\ phase[j] = "open" /\ settlement[j] = "escrowed" /\ plan[j] = {} /\ paid[j] = {} /\ funded[j]
          /\ phase' = [phase EXCEPT ![j] = "transferring"] /\ plan' = [plan EXCEPT ![j] = {"payee"}]
          /\ op' = [op EXCEPT ![j] = "release"] /\ UNCHANGED <<funded, paid>>
      BY <1>1, <2>3 DEF Pays, Escrow!Commit, Money, MoneyOf
    <3>2. BooksFollowBackend'
      BY <1>1, <2>1, <3>1 DEF Types, TypeOK, Money, BooksFollowBackend
    <3>3. ASSUME NEW i \in Jobs PROVE MoneyOf(i)'
      BY <1>1, <2>1, <2>3, <3>1 DEF Types, TypeOK, Money, MoneyOf
    <3>4. ASSUME NEW u \in Tasks PROVE TransferOf(u)'
      <4>1. CASE u = t
        BY <1>1, <2>3, <3>1, <4>1 DEF Types, TypeOK, TransferOf, Busy
      <4>2. CASE u # t
        <5>1. task'[u] = task[u] /\ (task[u].at \in {"settling", "refunding"} => task[u].job \in Jobs)
          BY <2>3, <4>2 DEF Types, TypeOK, Idle
        <5>2. QED
          BY <3>1, <5>1 DEF Types, TypeOK, Money, TransferOf
      <4>3. QED
        BY <4>1, <4>2
    <3>5. QED
      BY <3>2, <3>3, <3>4 DEF Money
  <2>4. QED
    BY <1>4, <2>2, <2>3 DEF HandlerDone
<1>5. QED
  BY <1>2, <1>3, <1>4 DEF Handler

\* The row may be behind what the backend saved, never ahead of it.
LEMMA TornMoney ==
  ASSUME Types, Money, NEW t \in Tasks, Torn(t)
  PROVE  Money'
<1>1. \A u \in Tasks : task'[u] = task[u] \/ task'[u].at \in {"idle", "handling"}
  BY TornCases DEF Idle
<1>2. CASE UNCHANGED <<settlement, backend>>
  <2>1. passed \subseteq passed' /\ gaveUp \subseteq gaveUp'
    BY TornCases DEF TornEnd
  <2>2. QED
    BY <1>1, <1>2, <2>1, SameMoney
<1>3. ASSUME NEW j \in Jobs, task[t].job = j, TornTransfer(t, j), UNCHANGED <<passed, gaveUp>>
      PROVE  Money'
  <2>0. \A u \in Tasks : TransferOf(u)'
    BY TornCases DEF TransferOf, Idle
  <2>1. CASE Escrow!Doubt(j) /\ UNCHANGED settlement
    <3>1. BooksFollowBackend'
      BY <1>3, <2>1 DEF Types, TypeOK, Escrow!Doubt, Money, BooksFollowBackend
    <3>2. \A i \in Jobs : MoneyOf(i)'
      BY <1>3, <2>1 DEF Types, TypeOK, Escrow!Doubt, Money, MoneyOf
    <3>3. QED
      BY <2>0, <3>1, <3>2 DEF Money
  <2>2. ASSUME NEW told \in BOOLEAN, Escrow!Hold(j), Store(j, told, "escrowed")
        PROVE  Money'
    <3>1. /\ settlement' = [settlement EXCEPT ![j] = "escrowed"] \/ settlement' = settlement
          /\ funded[j] /\ phase[j] = "opening"
      BY <2>2 DEF Store, Escrow!Hold, Types, TypeOK
    <3>2. BooksFollowBackend'
      BY <1>3, <2>2, <3>1 DEF Types, TypeOK, Escrow!Hold, Money, BooksFollowBackend
    <3>3. \A i \in Jobs : MoneyOf(i)'
      BY <1>3, <2>2, <3>1 DEF Types, TypeOK, Escrow!Hold, Money, MoneyOf
    <3>4. QED
      BY <2>0, <3>2, <3>3 DEF Money
  <2>3. ASSUME NEW told \in BOOLEAN, task[t].at = "settling", Escrow!Close(j), Store(j, told, "settled")
        PROVE  Money'
    <3>1. /\ settlement' = [settlement EXCEPT ![j] = "settled"] \/ settlement' = settlement
          /\ op[j] = "release" /\ plan[j] # {} /\ phase[j] = "transferring"
          /\ phase' = [phase EXCEPT ![j] = "released"] /\ UNCHANGED <<funded, op, plan, paid>>
      BY <1>3, <2>3 DEF Store, Escrow!Close, Types, TypeOK, Money, TransferOf
    <3>2. BooksFollowBackend'
      BY <1>3, <3>1 DEF Types, TypeOK, Money, BooksFollowBackend, MoneyOf
    <3>3. \A i \in Jobs : MoneyOf(i)'
      BY <1>3, <3>1 DEF Types, TypeOK, Money, MoneyOf
    <3>4. QED
      BY <2>0, <3>2, <3>3 DEF Money
  <2>4. ASSUME NEW told \in BOOLEAN, task[t].at = "refunding", Escrow!Close(j), Store(j, told, "refunded")
        PROVE  Money'
    <3>1. /\ settlement' = [settlement EXCEPT ![j] = "refunded"] \/ settlement' = settlement
          /\ op[j] = "refund" /\ plan[j] # {} /\ phase[j] = "transferring"
          /\ phase' = [phase EXCEPT ![j] = "refunded"] /\ UNCHANGED <<funded, op, plan, paid>>
      BY <1>3, <2>4 DEF Store, Escrow!Close, Types, TypeOK, Money, TransferOf
    <3>2. BooksFollowBackend'
      BY <1>3, <3>1 DEF Types, TypeOK, Money, BooksFollowBackend, MoneyOf
    <3>3. \A i \in Jobs : MoneyOf(i)'
      BY <1>3, <3>1 DEF Types, TypeOK, Money, MoneyOf
    <3>4. QED
      BY <2>0, <3>2, <3>3 DEF Money
  <2>5. QED
    BY <1>3, <2>1, <2>2, <2>3, <2>4 DEF TornTransfer
<1>4. QED
  BY <1>2, <1>3, TornCases

\* No step takes the table past the money.
LEMMA NextMoney == Types /\ Money /\ [Next]_vars => Money'
<1> SUFFICES ASSUME Types, Money, [Next]_vars PROVE Money'
  OBVIOUS
<1>1. ASSUME NEW t \in Clients, NEW j \in Jobs, Submit(t, j) PROVE Money'
  BY <1>1, SubmitMoney
<1>2. ASSUME NEW t \in Tasks, Claim(t) PROVE Money'
  BY <1>2, SameMoney DEF Claim, ClaimNext, reports, Types, TypeOK, Busy
<1>3. ASSUME NEW t \in Tasks, Handler(t) PROVE Money'
  BY <1>3, HandlerMoney
<1>4. ASSUME NEW t \in Tasks, Answer(t) PROVE Money'
  BY <1>4, AnswerMoney
<1>5. ASSUME NEW t \in Tasks, Cancel(t) PROVE Money'
  <2>1. \A u \in Tasks : task'[u] = task[u] \/ task'[u].at \in {"idle", "handling"}
    BY <1>5 DEF Cancel, Done, Types, TypeOK, Idle
  <2>2. CASE UNCHANGED backend
    BY <1>5, <2>1, <2>2, SameMoney DEF Cancel, table, reports
  <2>3. CASE Escrow!Doubt(task[t].job)
    BY <1>5, <2>1, <2>3 DEF Cancel, table, reports, Types, TypeOK, Escrow!Doubt, Money, MoneyOf, BooksFollowBackend, TransferOf
  <2>4. QED
    BY <1>5, <2>2, <2>3 DEF Cancel
<1>6. ASSUME NEW j \in Jobs, Expire(j) PROVE Money'
  BY <1>6, SameMoney DEF Expire, reports
<1>7. ASSUME NEW j \in Jobs, Rail(j) PROVE Money'
  <2>1. CASE Escrow!Deposit(j)
    BY <1>7, <2>1 DEF Rail, Types, TypeOK, table, reports, Escrow!Deposit, Money, MoneyOf, BooksFollowBackend, TransferOf
  <2>2. ASSUME NEW p \in Parties, Escrow!Pay(j, p) PROVE Money'
    BY <1>7, <2>2 DEF Rail, Types, TypeOK, table, reports, Escrow!Pay, Money, MoneyOf, BooksFollowBackend, TransferOf
  <2>3. QED
    BY <1>7, <2>1, <2>2 DEF Rail, Parties
<1>8. ASSUME Crash PROVE Money'
  BY <1>8, SameMoney DEF Crash, table, reports, Idle
<1>9. ASSUME NEW t \in Tasks, Torn(t) PROVE Money'
  BY <1>9, TornMoney
<1>10. ASSUME UNCHANGED vars PROVE Money'
  BY <1>10, SameMoney DEF vars, table, reports, backend
<1>11. QED
  BY <1>1, <1>2, <1>3, <1>4, <1>5, <1>6, <1>7, <1>8, <1>9, <1>10 DEF Next

(***************************************************************************)
(* Leases                                                                  *)
(***************************************************************************)
\* The statuses claim_next sees: those of the table, a new row included.
Seen(st) ==
  /\ st \in [Jobs -> {"absent", "queued", "running"} \cup Terminal]
  /\ \A k \in Jobs : st[k] = status[k] \/ (status[k] = "absent" /\ st[k] = "queued")

\* A task that works on nothing may start any claimable job.
LEMMA StartLeases ==
  ASSUME Types, Leases, NEW t \in Tasks, task[t].at \in {"idle", "escrowing"}, NEW st, Seen(st),
         NEW i \in Claimable(st), ClaimNext(t, st, i), UNCHANGED <<credit, penalty, overruns>>
  PROVE  Leases'
<1>1. i \in Jobs
  BY DEF Claimable
<1> SUFFICES ASSUME overruns = 0, NEW k \in Jobs PROVE LeaseOf(k)'
  BY DEF Leases
<1>2. \A u \in Tasks : ~Works(u, i)
  <2>1. LeaseOf(i)
    BY <1>1 DEF Leases
  <2>2. SUFFICES ASSUME NEW u \in Tasks, Works(u, i) PROVE FALSE
    OBVIOUS
  <2>3. Handles(u, i) \/ status[i] \in Terminal
    BY <2>1, <2>2 DEF LeaseOf
  <2>4. Handles(u, i) => status[i] = "running" /\ lock[i] = "held"
    BY <2>1 DEF LeaseOf
  <2>5. QED
    BY <1>1, <2>3, <2>4 DEF Claimable, Seen, Terminal
<1>3. status[i] \notin Terminal
  BY <1>1 DEF Claimable, Seen, Terminal
<1>4. /\ status'[i] = "running" /\ lock'[i] = "held" /\ task'[t] = Busy("handling", i)
      /\ \A u \in Tasks \ {t} : task'[u] = task[u]
  BY <1>1 DEF ClaimNext, Types, TypeOK, Seen
<1>5. \A u \in Tasks, h \in Jobs : Works(u, h)' <=> (u = t /\ h = i) \/ (u # t /\ Works(u, h))
  BY <1>1, <1>4 DEF Works, Busy
<1>6. \A u \in Tasks, h \in Jobs : Handles(u, h)' <=> (u = t /\ h = i) \/ (u # t /\ Handles(u, h))
  BY <1>1, <1>4 DEF Handles, Busy
<1>7. CASE k = i
  <2>1. LeaseOf(i)
    BY <1>1 DEF Leases
  <2>2. credit[i] = 0 /\ penalty[i] = 0
    BY <1>3, <2>1 DEF LeaseOf
  <2>3. \A u \in Tasks : Handles(u, i) => Works(u, i)
    BY DEF Handles, Works, Busy
  <2>4. QED
    BY <1>1, <1>2, <1>4, <1>5, <1>6, <1>7, <2>2, <2>3 DEF LeaseOf
<1>8. CASE k # i
  <2>1. LeaseOf(k)
    BY DEF Leases
  <2>2. status'[k] = st[k] /\ lock'[k] = lock[k]
    BY <1>1, <1>8 DEF ClaimNext, Types, TypeOK, Seen
  <2>3. status[k] \in {"running"} \cup Terminal => status'[k] = status[k]
    BY <2>2 DEF Seen, Terminal
  <2>4. status'[k] \notin Terminal => status[k] \notin Terminal
    BY <2>2 DEF Seen, Terminal
  <2>5. QED
    BY <1>5, <1>6, <1>8, <2>1, <2>2, <2>3, <2>4 DEF LeaseOf
<1>9. QED
  BY <1>7, <1>8

\* Tasks may stop working on anything, and rows be added.
LEMMA SameLeases ==
  ASSUME Types, Leases, Seen(status'), UNCHANGED <<lock, credit, penalty, overruns>>,
         \A u \in Tasks : task'[u] = task[u] \/ task'[u].at \in {"idle", "escrowing"}
  PROVE  Leases'
<1> SUFFICES ASSUME overruns = 0, NEW k \in Jobs PROVE LeaseOf(k)'
  BY DEF Leases
<1>1. LeaseOf(k)
  BY DEF Leases
<1>2. \A u \in Tasks : Works(u, k)' => Works(u, k) /\ task'[u] = task[u]
  BY DEF Works
<1>3. \A u \in Tasks : Handles(u, k)' => Handles(u, k)
  BY DEF Handles, Busy
<1>4. \A u \in Tasks : Handles(u, k) /\ task'[u] = task[u] => Handles(u, k)'
  BY DEF Handles
<1>5. status[k] \in {"running"} \cup Terminal => status'[k] = status[k]
  BY DEF Seen, Terminal
<1>6. status'[k] \notin Terminal => status[k] \notin Terminal
  BY DEF Seen, Terminal
<1>7. QED
  BY <1>1, <1>2, <1>3, <1>4, <1>5, <1>6 DEF LeaseOf

\* The end of submit: one or the other.
LEMMA RunInlineLeases ==
  ASSUME Types, Leases, NEW t \in Tasks, task[t].at \in {"idle", "escrowing"}, NEW st, Seen(st),
         NEW wanted, RunInline(t, st, wanted), UNCHANGED <<credit, penalty, overruns>>
  PROVE  Leases'
<1>1. CASE \E i \in Claimable(st) : ClaimNext(t, st, i)
  BY <1>1, StartLeases
<1>2. CASE status' = st /\ task' = [task EXCEPT ![t] = Idle] /\ UNCHANGED <<attempts, lock>>
  <2>1. \A u \in Tasks : task'[u] = task[u] \/ task'[u].at \in {"idle", "escrowing"}
    BY <1>2 DEF Types, TypeOK, Idle
  <2>2. QED
    BY <1>2, <2>1, SameLeases
<1>3. QED
  BY <1>1, <1>2, RunInlineCases

\* A task that ends its work on job j is the only one that worked on it.
LEMMA FinishLeases ==
  ASSUME Types, Leases, NEW t \in Tasks, NEW j \in Jobs, Works(t, j), overruns' = overruns,
         \A u \in Tasks \ {t} : task'[u] = task[u],
         \A k \in Jobs \ {j} : /\ status'[k] = status[k] /\ lock'[k] = lock[k]
                               /\ credit'[k] = credit[k] /\ penalty'[k] = penalty[k],
         \/ /\ task'[t] = Idle /\ credit'[j] + penalty'[j] <= 1
            /\ status'[j] \notin Terminal => credit'[j] = 0 /\ penalty'[j] = 0
         \/ /\ task'[t].at \in {"settling", "refunding"} /\ task'[t].job = j /\ status'[j] \in Terminal
            /\ credit'[j] = credit[j] /\ penalty'[j] = penalty[j]
  PROVE  Leases'
<1> SUFFICES ASSUME overruns = 0, NEW k \in Jobs PROVE LeaseOf(k)'
  BY DEF Leases
<1>1. LeaseOf(j) /\ LeaseOf(k)
  BY DEF Leases
<1>2. \A u \in Tasks \ {t}, h \in Jobs : Works(u, h)' <=> Works(u, h)
  BY DEF Works
<1>3. \A u \in Tasks \ {t}, h \in Jobs : Handles(u, h)' <=> Handles(u, h)
  BY DEF Handles
<1>4. \A u \in Tasks, h \in Jobs : Handles(u, h) => Works(u, h)
  BY DEF Handles, Works, Busy
<1>5. \A h \in Jobs : ~Handles(t, h)'
  BY DEF Handles, Busy, Idle
<1>6. \A h \in Jobs : Works(t, h)' => h = j /\ status'[j] \in Terminal /\ credit'[j] = credit[j] /\ penalty'[j] = penalty[j]
  BY DEF Works, Idle
<1>7. CASE k = j
  <2>1. \A u \in Tasks \ {t} : ~Works(u, j)
    BY <1>1 DEF LeaseOf
  <2>2. credit[j] = 0 /\ penalty[j] = 0
    BY <1>1 DEF LeaseOf
  <2>3. \A u \in Tasks : Works(u, j)' => u = t
    BY <1>2, <2>1
  <2>4. \A u \in Tasks : ~Handles(u, j)'
    BY <1>3, <1>4, <1>5, <2>1
  <2>5. QED
    BY <1>6, <1>7, <2>2, <2>3, <2>4 DEF LeaseOf
<1>8. CASE k # j
  <2>1. \A u \in Tasks : Works(u, k)' => u # t /\ Works(u, k)
    BY <1>2, <1>6, <1>8
  <2>2. QED
    BY <1>1, <1>2, <1>3, <1>5, <1>8, <2>1 DEF LeaseOf
<1>9. QED
  BY <1>7, <1>8

LEMMA HandlerLeases ==
  ASSUME Types, Leases, NEW t \in Tasks, Handler(t)
  PROVE  Leases'
<1> DEFINE j == task[t].job
<1>1. j \in Jobs /\ Works(t, j) /\ task[t] = Busy("handling", j)
  BY DEF Types, TypeOK, Handler, HandlerManual, HandlerRaised, HandlerDone, Idle, Works, Busy
<1>2. overruns = 0 => credit[j] = 0 /\ penalty[j] = 0
  BY <1>1 DEF Leases, LeaseOf
<1>3. CASE overruns # 0
  BY <1>3 DEF Leases, Handler, HandlerManual, HandlerRaised, HandlerDone, bounds
<1>4. CASE overruns = 0
  <2>0. credit[j] = 0 /\ penalty[j] = 0
    BY <1>2, <1>4
  <2>1. CASE HandlerManual(t)
    BY <1>1, <2>0, <2>1, FinishLeases DEF HandlerManual, Mark, Done, Types, TypeOK, reports, bounds, Terminal
  <2>2. CASE HandlerRaised(t)
    <3>1. overruns' = overruns /\ credit' = credit
      BY <2>2 DEF HandlerRaised, bounds
    <3>2. CASE Mark(j, "queued") /\ Done(t) /\ UNCHANGED penalty
      BY <1>1, <2>0, <3>1, <3>2, FinishLeases DEF Mark, Done, Types, TypeOK
    <3>3. CASE /\ Mark(j, "failed") /\ task' = [task EXCEPT ![t] = Busy("refunding", j)]
               /\ UNCHANGED penalty
      BY <1>1, <3>1, <3>3, FinishLeases DEF Mark, Busy, Types, TypeOK, Terminal
    <3>4. CASE Mark(j, "failed") /\ Penalise(j) /\ Done(t)
      BY <1>1, <2>0, <3>1, <3>4, FinishLeases DEF Mark, Done, Penalise, Types, TypeOK, Terminal
    <3>5. QED
      BY <2>2, <3>2, <3>3, <3>4 DEF HandlerRaised
  <2>3. ASSUME NEW g \in {"passed", "failed", "unknown"}, HandlerDone(t, g)
        PROVE  Leases'
    <3>1. overruns' = overruns /\ Mark(j, "succeeded")
      BY <2>3 DEF HandlerDone, bounds
    <3>2. CASE task' = [task EXCEPT ![t] = Busy("settling", j)] /\ UNCHANGED <<credit, penalty>>
      BY <1>1, <3>1, <3>2, FinishLeases DEF Mark, Busy, Types, TypeOK, Terminal
    <3>3. CASE Credit(j) /\ Done(t) /\ UNCHANGED penalty
      BY <1>1, <2>0, <3>1, <3>3, FinishLeases DEF Mark, Done, Credit, Types, TypeOK, Terminal
    <3>4. CASE Penalise(j) /\ Done(t) /\ UNCHANGED credit
      BY <1>1, <2>0, <3>1, <3>4, FinishLeases DEF Mark, Done, Penalise, Types, TypeOK, Terminal
    <3>5. CASE Done(t) /\ UNCHANGED <<credit, penalty>>
      BY <1>1, <2>0, <3>1, <3>5, FinishLeases DEF Mark, Done, Types, TypeOK, Terminal
    <3>6. QED
      BY <2>3, <3>2, <3>3, <3>4, <3>5 DEF HandlerDone
  <2>4. QED
    BY <2>1, <2>2, <2>3 DEF Handler
<1>5. QED
  BY <1>3, <1>4

LEMMA AnswerLeases ==
  ASSUME Types, Leases, NEW t \in Tasks, Answer(t)
  PROVE  Leases'
<1> DEFINE j == task[t].job
<1>1. task[t] # Idle => j \in Jobs
  BY DEF Types, TypeOK
<1>2. Seen(status)
  BY DEF Seen, Types, TypeOK
<1>3. CASE Escrowed(t)
  BY <1>2, <1>3, RunInlineLeases DEF Escrowed, reports, bounds
<1>4. CASE EscrowFailed(t)
  BY <1>2, <1>4, RunInlineLeases DEF EscrowFailed, reports, bounds
<1>5. ASSUME overruns = 0, Settled(t) \/ Refunded(t)
      PROVE  Leases'
  <2>0. task[t].at \in {"settling", "refunding"}
    BY <1>5 DEF Settled, Refunded
  <2>1. j \in Jobs /\ Works(t, j) /\ ~Handles(t, j)
    BY <1>1, <2>0 DEF Idle, Works, Handles, Busy
  <2>2. credit[j] = 0 /\ penalty[j] = 0 /\ status[j] \in Terminal
    BY <1>5, <2>1 DEF Leases, LeaseOf
  <2>3. CASE Settled(t)
    BY <2>1, <2>2, <2>3, FinishLeases DEF Settled, Credit, Done, Types, TypeOK, bounds
  <2>4. CASE Refunded(t)
    BY <2>1, <2>2, <2>4, FinishLeases DEF Refunded, Penalise, Done, Types, TypeOK, bounds
  <2>5. QED
    BY <1>5, <2>3, <2>4
<1>6. ASSUME overruns # 0, Settled(t) \/ Refunded(t)
      PROVE  Leases'
  BY <1>6 DEF Settled, Refunded, bounds, Leases
<1>7. QED
  BY <1>3, <1>4, <1>5, <1>6 DEF Answer

\* When all tasks died nobody works on anything.
LEMMA TornLeases ==
  ASSUME Types, Leases, NEW t \in Tasks, Torn(t)
  PROVE  Leases'
<1>1. /\ \A u \in Tasks, k \in Jobs : ~Works(u, k)' /\ ~Handles(u, k)'
      /\ UNCHANGED <<credit, penalty, overruns>>
  BY TornCases DEF Works, Handles, Idle, Busy
<1> SUFFICES ASSUME overruns = 0, NEW k \in Jobs PROVE LeaseOf(k)'
  BY <1>1 DEF Leases
<1>2. LeaseOf(k)
  BY DEF Leases
<1>3. status'[k] \notin Terminal => status[k] \notin Terminal
  <2>1. CASE TornRow
    BY <2>1 DEF TornRow, Types, TypeOK, Terminal
  <2>2. ASSUME NEW j \in Jobs, Mark(j, "succeeded") \/ Mark(j, "failed")
        PROVE  status'[k] \notin Terminal => status[k] \notin Terminal
    BY <2>2 DEF Mark, Types, TypeOK, Terminal
  <2>3. QED
    BY <2>1, <2>2, TornCases DEF TornEnd
<1>4. QED
  BY <1>1, <1>2, <1>3 DEF LeaseOf

LEMMA InitLeases == Init => Leases
  BY DEF Init, Leases, LeaseOf, Works, Handles, Idle, Busy, Terminal

\* No step gives a job to two tasks while leases hold.
LEMMA NextLeases == Types /\ Leases /\ [Next]_vars => Leases'
<1> SUFFICES ASSUME Types, Leases, [Next]_vars PROVE Leases'
  OBVIOUS
<1>0. Seen(status)
  BY DEF Seen, Types, TypeOK
<1>1. ASSUME NEW t \in Clients, NEW j \in Jobs, Submit(t, j) PROVE Leases'
  <2> DEFINE st == IF status[j] = "absent" THEN [status EXCEPT ![j] = "queued"] ELSE status
  <2>1. t \in Tasks /\ task[t].at = "idle" /\ UNCHANGED <<credit, penalty, overruns>>
    BY <1>1 DEF Submit, Tasks, Idle, reports, bounds
  <2>2. Seen(st)
    BY DEF Seen, Types, TypeOK
  <2>3. CASE \E w : RunInline(t, st, w)
    <3> HIDE DEF st
    <3>1. QED
      BY <2>1, <2>2, <2>3, RunInlineLeases
  <2>4. CASE status' = st /\ task' = [task EXCEPT ![t] = Busy("escrowing", j)] /\ UNCHANGED lock
    <3>1. \A u \in Tasks : task'[u] = task[u] \/ task'[u].at \in {"idle", "escrowing"}
      BY <2>1, <2>4 DEF Types, TypeOK, Busy
    <3> HIDE DEF st
    <3>2. QED
      BY <2>1, <2>2, <2>4, <3>1, SameLeases
  <2>5. QED
    BY <1>1, <2>3, <2>4 DEF Submit
<1>2. ASSUME NEW t \in Tasks, Claim(t) PROVE Leases'
  <2>1. PICK i \in Claimable(status) : ClaimNext(t, status, i)
    BY <1>2 DEF Claim
  <2>2. task[t].at \in {"idle", "escrowing"} /\ UNCHANGED <<credit, penalty, overruns>>
    BY <1>2 DEF Claim, Idle, reports, bounds
  <2>3. QED
    BY <1>0, <2>1, <2>2, StartLeases
<1>3. ASSUME NEW t \in Tasks, Handler(t) PROVE Leases'
  BY <1>3, HandlerLeases
<1>4. ASSUME NEW t \in Tasks, Answer(t) PROVE Leases'
  BY <1>4, AnswerLeases
<1>5. ASSUME NEW t \in Tasks, Cancel(t) PROVE Leases'
  <2>1. \A u \in Tasks : task'[u] = task[u] \/ task'[u].at \in {"idle", "escrowing"}
    BY <1>5 DEF Cancel, Done, Types, TypeOK, Idle
  <2>2. status' = status /\ UNCHANGED <<lock, credit, penalty, overruns>>
    BY <1>5 DEF Cancel, table, reports
  <2>3. QED
    BY <1>0, <2>1, <2>2, SameLeases
<1>6. ASSUME NEW j \in Jobs, Expire(j) PROVE Leases'
  <2>1. CASE \E t \in Tasks : Handles(t, j)
    BY <1>6, <2>1 DEF Expire, Leases, Types, TypeOK
  <2>2. CASE ~\E t \in Tasks : Handles(t, j)
    <3>1. UNCHANGED <<status, task, credit, penalty, overruns>> /\ lock' = [lock EXCEPT ![j] = "expired"]
      BY <1>6, <2>2 DEF Expire, reports
    <3> SUFFICES ASSUME overruns = 0, NEW k \in Jobs PROVE LeaseOf(k)'
      BY <3>1 DEF Leases
    <3>2. LeaseOf(k)
      BY DEF Leases
    <3>3. \A u \in Tasks : (Works(u, k)' <=> Works(u, k)) /\ (Handles(u, k)' <=> Handles(u, k))
      BY <3>1 DEF Works, Handles
    <3>4. k # j => lock'[k] = lock[k]
      BY <3>1 DEF Types, TypeOK
    <3>5. QED
      BY <2>2, <3>1, <3>2, <3>3, <3>4 DEF LeaseOf
  <2>3. QED
    BY <2>1, <2>2
<1>7. ASSUME NEW j \in Jobs, Rail(j) PROVE Leases'
  <2>1. status' = status /\ UNCHANGED <<lock, task, credit, penalty, overruns>>
    BY <1>7 DEF Rail, table, reports, bounds
  <2>2. QED
    BY <1>0, <2>1, SameLeases
<1>8. ASSUME Crash PROVE Leases'
  <2>1. \A u \in Tasks : task'[u] = task[u] \/ task'[u].at \in {"idle", "escrowing"}
    BY <1>8 DEF Crash, Idle
  <2>2. status' = status /\ UNCHANGED <<lock, credit, penalty, overruns>>
    BY <1>8 DEF Crash, table, reports
  <2>3. QED
    BY <1>0, <2>1, <2>2, SameLeases
<1>9. ASSUME NEW t \in Tasks, Torn(t) PROVE Leases'
  BY <1>9, TornLeases
<1>10. ASSUME UNCHANGED vars PROVE Leases'
  <2>1. status' = status /\ UNCHANGED <<lock, task, credit, penalty, overruns>>
    BY <1>10 DEF vars, table, reports, bounds
  <2>2. QED
    BY <1>0, <2>1, SameLeases
<1>11. QED
  BY <1>1, <1>2, <1>3, <1>4, <1>5, <1>6, <1>7, <1>8, <1>9, <1>10 DEF Next

(***************************************************************************)
(* Attempts                                                                *)
(***************************************************************************)
\* Starting a claimable job is owed to its queue entry or to who abandoned it.
LEMMA StartAttempts ==
  ASSUME Types, Attempts, NEW t \in Tasks, task[t].at \in {"idle", "escrowing"}, NEW st, Seen(st),
         NEW i \in Claimable(st), ClaimNext(t, st, i), UNCHANGED <<crashes, overruns>>
  PROVE  Attempts'
<1>1. i \in Jobs /\ attempts[i] \in Nat /\ crashes \in Nat /\ overruns \in Nat /\ MaxAttempts \in Nat
  BY A2AAssumption DEF Claimable, Types, TypeOK
<1>2. AttemptsOf(i)
  BY <1>1 DEF Attempts
<1>3. attempts[i] < MaxAttempts + crashes + overruns
  <2>1. CASE st[i] = "queued"
    <3>1. status[i] \in {"absent", "queued"}
      BY <1>1, <2>1 DEF Seen
    <3>2. QED
      BY <1>1, <1>2, <3>1 DEF AttemptsOf
  <2>2. CASE st[i] = "running" /\ lock[i] = "expired"
    <3>1. status[i] = "running"
      BY <1>1, <2>2 DEF Seen
    <3>2. QED
      BY <1>2, <2>2, <3>1 DEF AttemptsOf, Abandoned
  <2>3. QED
    BY <2>1, <2>2 DEF Claimable
<1>4. /\ status'[i] = "running" /\ lock'[i] = "held" /\ attempts'[i] = attempts[i] + 1
      /\ task'[t] = Busy("handling", i)
      /\ \A u \in Tasks \ {t} : task'[u] = task[u]
  BY <1>1 DEF ClaimNext, Types, TypeOK, Seen
<1>5. Handles(t, i)'
  BY <1>4 DEF Handles, Busy
<1>6. SUFFICES ASSUME NEW k \in Jobs PROVE AttemptsOf(k)'
  BY DEF Attempts
<1>7. CASE k = i
  BY <1>1, <1>3, <1>4, <1>5, <1>7 DEF AttemptsOf, Abandoned
<1>8. CASE k # i
  <2>1. AttemptsOf(k)
    BY DEF Attempts
  <2>2. status'[k] = st[k] /\ lock'[k] = lock[k] /\ attempts'[k] = attempts[k]
    BY <1>1, <1>8 DEF ClaimNext, Types, TypeOK, Seen
  <2>3. status'[k] \in {"absent", "queued"} => status[k] \in {"absent", "queued"}
    BY <2>2 DEF Seen
  <2>4. Abandoned(k)' => Abandoned(k)
    <3>1. \A u \in Tasks : Handles(u, k) => Handles(u, k)'
      BY <1>4 DEF Handles, Busy
    <3>2. QED
      BY <2>2, <3>1 DEF Abandoned, Seen
  <2>5. QED
    BY <2>1, <2>2, <2>3, <2>4 DEF AttemptsOf
<1>9. QED
  BY <1>7, <1>8

\* No row is started, and who leaves a running job pays for it.
LEMMA SameAttempts ==
  ASSUME Types, Attempts, Seen(status'), UNCHANGED attempts,
         \/ /\ UNCHANGED <<crashes, overruns>>
            /\ \A k \in Jobs : Abandoned(k)' => Abandoned(k)
         \/ crashes' = crashes + 1 /\ overruns' = overruns
         \/ crashes' = crashes /\ overruns' = overruns + 1
  PROVE  Attempts'
<1>1. crashes \in Nat /\ overruns \in Nat /\ MaxAttempts \in Nat
  BY A2AAssumption DEF Types, TypeOK
<1>2. SUFFICES ASSUME NEW k \in Jobs PROVE AttemptsOf(k)'
  BY DEF Attempts
<1>3. AttemptsOf(k) /\ attempts[k] \in Nat /\ attempts'[k] = attempts[k]
  BY DEF Attempts, Types, TypeOK
<1>4. status'[k] \in {"absent", "queued"} => status[k] \in {"absent", "queued"}
  BY DEF Seen
<1>5. QED
  BY <1>1, <1>3, <1>4 DEF AttemptsOf

LEMMA RunInlineAttempts ==
  ASSUME Types, Attempts, NEW t \in Tasks, task[t].at \in {"idle", "escrowing"}, NEW st, Seen(st),
         NEW wanted, RunInline(t, st, wanted), UNCHANGED <<crashes, overruns>>
  PROVE  Attempts'
<1>1. CASE \E i \in Claimable(st) : ClaimNext(t, st, i)
  BY <1>1, StartAttempts
<1>2. CASE status' = st /\ task' = [task EXCEPT ![t] = Idle] /\ UNCHANGED <<attempts, lock>>
  <2>1. \A u \in Tasks, k \in Jobs : Handles(u, k) => Handles(u, k)'
    BY <1>2 DEF Types, TypeOK, Handles, Busy
  <2>2. \A k \in Jobs : Abandoned(k)' => Abandoned(k)
    BY <1>2, <2>1 DEF Abandoned, Seen
  <2>3. QED
    BY <1>2, <2>2, SameAttempts
<1>3. QED
  BY <1>1, <1>2, RunInlineCases

LEMMA HandlerAttempts ==
  ASSUME Types, Attempts, NEW t \in Tasks, Handler(t)
  PROVE  Attempts'
<1> DEFINE j == task[t].job
<1>1. j \in Jobs
  BY DEF Types, TypeOK, Handler, HandlerManual, HandlerRaised, HandlerDone, Idle
<1>2. UNCHANGED <<attempts, crashes, overruns>>
  BY DEF Handler, HandlerManual, HandlerRaised, HandlerDone, bounds
<1>3. \E s \in {"queued"} \cup Terminal : Mark(j, s) /\ (s = "queued" => attempts[j] < MaxAttempts)
  BY DEF Handler, HandlerManual, HandlerRaised, HandlerDone, Retries, Terminal
<1>4. \A u \in Tasks \ {t} : task'[u] = task[u]
  BY DEF Handler, HandlerManual, HandlerRaised, HandlerDone, Done, Types, TypeOK
<1>5. /\ status'[j] \in {"queued"} \cup Terminal /\ (status'[j] = "queued" => attempts[j] < MaxAttempts)
      /\ \A k \in Jobs \ {j} : status'[k] = status[k] /\ lock'[k] = lock[k]
  BY <1>1, <1>3 DEF Mark, Types, TypeOK
<1>6. SUFFICES ASSUME NEW k \in Jobs PROVE AttemptsOf(k)'
  BY DEF Attempts
<1>7. AttemptsOf(k)
  BY DEF Attempts
<1>8. CASE k = j
  BY <1>2, <1>5, <1>7, <1>8 DEF AttemptsOf, Abandoned, Terminal
<1>9. CASE k # j
  <2>1. \A u \in Tasks : Handles(u, k) => Handles(u, k)'
    BY <1>4, <1>9 DEF Handles, Busy
  <2>2. QED
    BY <1>2, <1>5, <1>7, <1>9, <2>1 DEF AttemptsOf, Abandoned
<1>10. QED
  BY <1>8, <1>9

LEMMA AnswerAttempts ==
  ASSUME Types, Attempts, NEW t \in Tasks, Answer(t)
  PROVE  Attempts'
<1>1. Seen(status)
  BY DEF Seen, Types, TypeOK
<1>2. CASE Escrowed(t)
  BY <1>1, <1>2, RunInlineAttempts DEF Escrowed, bounds
<1>3. CASE EscrowFailed(t)
  BY <1>1, <1>3, RunInlineAttempts DEF EscrowFailed, bounds
<1>4. CASE Settled(t) \/ Refunded(t)
  <2>1. UNCHANGED <<status, lock, attempts, crashes, overruns>> /\ Done(t) /\ task[t].at # "handling"
    BY <1>4 DEF Settled, Refunded, bounds
  <2>2. \A u \in Tasks, k \in Jobs : Handles(u, k) => Handles(u, k)'
    BY <2>1 DEF Types, TypeOK, Handles, Done, Busy
  <2>3. \A k \in Jobs : Abandoned(k)' => Abandoned(k)
    BY <2>1, <2>2 DEF Abandoned
  <2>4. QED
    BY <1>1, <2>1, <2>3, SameAttempts
<1>5. QED
  BY <1>2, <1>3, <1>4 DEF Answer

\* Whoever dies in a step pays for one start; the row it wrote is new or ended.
LEMMA TornAttempts ==
  ASSUME Types, Attempts, NEW t \in Tasks, Torn(t)
  PROVE  Attempts'
<1>1. /\ crashes' = crashes + 1 /\ UNCHANGED <<attempts, overruns>>
      /\ crashes \in Nat /\ overruns \in Nat /\ MaxAttempts \in Nat
  BY TornCases, A2AAssumption DEF Types, TypeOK
<1>2. SUFFICES ASSUME NEW k \in Jobs PROVE AttemptsOf(k)'
  BY DEF Attempts
<1>3. AttemptsOf(k) /\ attempts[k] \in Nat /\ attempts'[k] = attempts[k]
  BY <1>1 DEF Attempts, Types, TypeOK
<1>4. status'[k] \in {"absent", "queued"} => status[k] \in {"absent", "queued"}
  <2>1. CASE TornRow
    BY <2>1 DEF TornRow, Types, TypeOK
  <2>2. ASSUME NEW j \in Jobs, Mark(j, "succeeded") \/ Mark(j, "failed")
        PROVE  status'[k] \in {"absent", "queued"} => status[k] \in {"absent", "queued"}
    BY <2>2 DEF Mark, Types, TypeOK
  <2>3. QED
    BY <2>1, <2>2, TornCases DEF TornEnd
<1>5. QED
  BY <1>1, <1>3, <1>4 DEF AttemptsOf

LEMMA InitAttempts == Init => Attempts
  BY A2AAssumption DEF Init, Attempts, AttemptsOf, Abandoned

\* No start goes unaccounted for.
LEMMA NextAttempts == Types /\ Attempts /\ [Next]_vars => Attempts'
<1> SUFFICES ASSUME Types, Attempts, [Next]_vars PROVE Attempts'
  OBVIOUS
<1>0. Seen(status)
  BY DEF Seen, Types, TypeOK
<1>1. ASSUME NEW t \in Clients, NEW j \in Jobs, Submit(t, j) PROVE Attempts'
  <2> DEFINE st == IF status[j] = "absent" THEN [status EXCEPT ![j] = "queued"] ELSE status
  <2>1. t \in Tasks /\ task[t].at = "idle" /\ UNCHANGED <<crashes, overruns>>
    BY <1>1 DEF Submit, Tasks, Idle, bounds
  <2>2. Seen(st)
    BY DEF Seen, Types, TypeOK
  <2>3. CASE \E w : RunInline(t, st, w)
    <3> HIDE DEF st
    <3>1. QED
      BY <2>1, <2>2, <2>3, RunInlineAttempts
  <2>4. CASE status' = st /\ task' = [task EXCEPT ![t] = Busy("escrowing", j)] /\ UNCHANGED <<lock, attempts>>
    <3>1. \A u \in Tasks, k \in Jobs : Handles(u, k) => Handles(u, k)'
      BY <2>1, <2>4 DEF Types, TypeOK, Busy, Handles
    <3> HIDE DEF st
    <3>2. \A k \in Jobs : Abandoned(k)' => Abandoned(k)
      BY <2>2, <2>4, <3>1 DEF Abandoned, Seen
    <3>3. QED
      BY <2>1, <2>2, <2>4, <3>2, SameAttempts
  <2>5. QED
    BY <1>1, <2>3, <2>4 DEF Submit
<1>2. ASSUME NEW t \in Tasks, Claim(t) PROVE Attempts'
  <2>1. PICK i \in Claimable(status) : ClaimNext(t, status, i)
    BY <1>2 DEF Claim
  <2>2. task[t].at \in {"idle", "escrowing"} /\ UNCHANGED <<crashes, overruns>>
    BY <1>2 DEF Claim, Idle, bounds
  <2>3. QED
    BY <1>0, <2>1, <2>2, StartAttempts
<1>3. ASSUME NEW t \in Tasks, Handler(t) PROVE Attempts'
  BY <1>3, HandlerAttempts
<1>4. ASSUME NEW t \in Tasks, Answer(t) PROVE Attempts'
  BY <1>4, AnswerAttempts
<1>5. ASSUME NEW t \in Tasks, Cancel(t) PROVE Attempts'
  BY <1>0, <1>5, SameAttempts DEF Cancel, table
<1>6. ASSUME NEW j \in Jobs, Expire(j) PROVE Attempts'
  <2>1. CASE \E t \in Tasks : Handles(t, j)
    BY <1>0, <1>6, <2>1, SameAttempts DEF Expire
  <2>2. CASE ~\E t \in Tasks : Handles(t, j)
    <3>1. UNCHANGED <<status, task, attempts, crashes, overruns>> /\ lock' = [lock EXCEPT ![j] = "expired"]
      BY <1>6, <2>2 DEF Expire
    <3>2. \A k \in Jobs : Abandoned(k)' => Abandoned(k)
      BY <1>6, <2>2, <3>1 DEF Expire, Abandoned, Handles, Types, TypeOK
    <3>3. QED
      BY <1>0, <3>1, <3>2, SameAttempts
  <2>3. QED
    BY <2>1, <2>2
<1>7. ASSUME NEW j \in Jobs, Rail(j) PROVE Attempts'
  BY <1>0, <1>7, SameAttempts DEF Rail, table, bounds, Abandoned, Handles
<1>8. ASSUME Crash PROVE Attempts'
  BY <1>0, <1>8, SameAttempts DEF Crash, table
<1>9. ASSUME NEW t \in Tasks, Torn(t) PROVE Attempts'
  BY <1>9, TornAttempts
<1>10. ASSUME UNCHANGED vars PROVE Attempts'
  BY <1>0, <1>10, SameAttempts DEF vars, table, bounds, Abandoned, Handles
<1>11. QED
  BY <1>1, <1>2, <1>3, <1>4, <1>5, <1>6, <1>7, <1>8, <1>9, <1>10 DEF Next

(***************************************************************************)
(* The theorems                                                            *)
(***************************************************************************)
\* The four parts hold together in every reachable state.
LEMMA Invariance == Spec => []IInv
<1>1. Init => IInv
  BY InitTypes, InitMoney, InitLeases, InitAttempts DEF IInv
<1>2. IInv /\ [Next]_vars => IInv'
  BY NextTypes, NextMoney, NextLeases, NextAttempts DEF IInv
<1>3. QED
  BY <1>1, <1>2, PTL DEF Spec

\* Every start of a job is a first one, one of max_attempts granted after a
\* failure, or that of a worker that died or outlasted its lock (claim_next,
\* mark_failed); the table, the tasks and the backend's books keep their types.
THEOREM StartsAreAccounted == Spec => []Safe
<1>1. IInv => Safe
  BY DEF IInv, Types, Attempts, AttemptsOf, Safe, StartsAccounted
<1>2. QED
  BY <1>1, Invariance, PTL

\* What the settlement column says of a job, the backend's books confirm: for
\* every backend that keeps EscrowPromise, also when the process dies between what
\* the backend saved and update_settlement.
THEOREM TableFollowsMoney == Spec => []BooksFollowBackend
<1>1. IInv => BooksFollowBackend
  BY DEF IInv, Money
<1>2. QED
  BY <1>1, Invariance, PTL

\* The provider gets money only for a delivery that passed the quality gate,
\* the payer only for a job that failed for good (on_settle, on_refund).
THEOREM MoneyFollowsVerdict == Spec => []PaidForPassedWork
<1>1. IInv => PaidForPassedWork
  <2> SUFFICES ASSUME IInv, NEW j \in Jobs
               PROVE  /\ "payee" \in paid[j] => j \in passed
                      /\ "payer" \in paid[j] => j \in gaveUp
                      /\ paid[j] # {} => funded[j]
    BY DEF PaidForPassedWork
  <2>1. MoneyOf(j)
    BY DEF IInv, Money
  <2>2. QED
    BY <2>1 DEF MoneyOf
<1>2. QED
  BY <1>1, Invariance, PTL

\* A set of at most one element has cardinality at most one.
LEMMA AtMostOne ==
  ASSUME NEW S, \A x, y \in S : x = y
  PROVE  Cardinality(S) <= 1
<1>1. CASE S = {}
  BY <1>1, FS_EmptySet
<1>2. CASE \E x : S = {x}
  BY <1>2, FS_Singleton
<1>3. QED
  BY <1>1, <1>2

\* While handlers keep within their lock, no two tasks execute a job and one
\* verdict at most is reported of it (claim_next, _process_job).
THEOREM JobsRunAlone == Spec => []OneExecution
<1>1. IInv => OneExecution
  <2> SUFFICES ASSUME IInv, overruns = 0, NEW j \in Jobs
               PROVE  Cardinality({t \in Tasks : Handles(t, j)}) <= 1 /\ credit[j] + penalty[j] <= 1
    BY DEF OneExecution
  <2>1. LeaseOf(j)
    BY DEF IInv, Leases
  <2>2. \A t, u \in {x \in Tasks : Handles(x, j)} : t = u
    BY <2>1 DEF LeaseOf, Handles, Works, Busy
  <2>3. Cardinality({t \in Tasks : Handles(t, j)}) <= 1
    BY <2>2, AtMostOne
  <2>4. QED
    BY <2>1, <2>3 DEF LeaseOf
<1>2. QED
  BY <1>1, Invariance, PTL
=============================================================================
