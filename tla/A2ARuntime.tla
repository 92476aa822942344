----------------------------- MODULE A2ARuntime -----------------------------
(***************************************************************************)
(* LocalA2ARuntime with its SQLiteJobStore and EscrowSettlementHook        *)
(* (protocol/a2a_runtime): an agent's durable job queue, the asyncio tasks *)
(* that submit and execute jobs, and the settlement of paid jobs against   *)
(* an escrow backend of which only EscrowPromise is known.                 *)
(*                                                                         *)
(* The runtime is one asyncio process: everything between two awaits is    *)
(* one action.  It awaits the handler, and the backend's transfers.  The   *)
(* job table and the backend's journal survive a restart, tasks do not;    *)
(* they are written one after the other, and the process may die between   *)
(* two writes of one step (Torn) or while it awaits (Crash).  locked_by is *)
(* written but never read by the code: a lock is free, held or expired.    *)
(*                                                                         *)
(* A slip is a plausible mistake in the definition it precedes; no action  *)
(* uses it, the project substitutes it to see a check notice.              *)
(***************************************************************************)
EXTENDS Naturals, FiniteSets

CONSTANTS
  Jobs,         \* idempotency keys, one job row each
  Paid,         \* jobs with vibe_amount > 0, settlement being enabled
  Rejected,     \* paid jobs whose terms open_escrow refuses (no payer id)
  Workers,      \* worker-loop tasks (max_concurrency of them)
  Clients,      \* tasks serving message/send requests
  Inline,       \* config.execute_inline_on_submit
  MaxAttempts,  \* max_attempts of every job
  MaxOverruns,  \* bound: handlers that outlast lock_seconds
  MaxCrashes    \* bound: restarts and worker cancellations

ASSUME A2AAssumption ==
  /\ Rejected \subseteq Paid /\ Paid \subseteq Jobs
  /\ Inline \in BOOLEAN
  /\ MaxAttempts \in Nat \ {0} /\ MaxOverruns \in Nat /\ MaxCrashes \in Nat
  /\ Workers \cap Clients = {}

VARIABLES
  status, attempts, lock, settlement, gate,   \* columns of the jobs table
  task,                                       \* what every asyncio task awaits
  credit, penalty,                            \* trust.on_settled / on_refunded reports
  passed, gaveUp,                             \* history: jobs that passed the gate, that failed
  overruns, crashes,
  phase, funded, op, plan, paid               \* the escrow backend

Tasks == Workers \cup Clients
table == <<status, attempts, lock, settlement, gate>>
reports == <<credit, penalty, passed, gaveUp>>
bounds == <<overruns, crashes>>
backend == <<phase, funded, op, plan, paid>>
vars == <<table, task, reports, bounds, backend>>

\* the escrow of job j is esc_job_<j>
Escrow == INSTANCE EscrowPromise WITH Escrows <- Jobs, Parties <- {"payer", "payee"}

Terminal == {"succeeded", "failed", "manual_intervention_required"}
Idle == [at |-> "idle", job |-> "none"]
Busy(at, j) == [at |-> at, job |-> j]

TypeOK ==
  /\ status \in [Jobs -> {"absent", "queued", "running"} \cup Terminal]
  /\ attempts \in [Jobs -> Nat]
  /\ lock \in [Jobs -> {"free", "held", "expired"}]
  /\ settlement \in [Jobs -> {"none", "escrowed", "settled", "refunded"}]
  /\ gate \in [Jobs -> {"pending", "passed", "failed", "unknown"}]
  /\ task \in [Tasks -> {Idle} \cup [at : {"escrowing", "handling", "settling", "refunding"}, job : Jobs]]
  /\ credit \in [Jobs -> Nat] /\ penalty \in [Jobs -> Nat]
  /\ passed \subseteq Jobs /\ gaveUp \subseteq Jobs
  /\ overruns \in 0..MaxOverruns /\ crashes \in 0..MaxCrashes
  /\ phase \in [Jobs -> Escrow!Phases] /\ funded \in [Jobs -> BOOLEAN]

Init ==
  /\ status = [j \in Jobs |-> "absent"] /\ attempts = [j \in Jobs |-> 0]
  /\ lock = [j \in Jobs |-> "free"] /\ settlement = [j \in Jobs |-> "none"]
  /\ gate = [j \in Jobs |-> "pending"]
  /\ task = [t \in Tasks |-> Idle]
  /\ credit = [j \in Jobs |-> 0] /\ penalty = [j \in Jobs |-> 0]
  /\ passed = {} /\ gaveUp = {} /\ overruns = 0 /\ crashes = 0
  /\ Escrow!Init

-----------------------------------------------------------------------------
\* slips in claim_next: leases ignored, dead tasks' jobs skipped
ClaimableLocked(st) == {j \in Jobs : st[j] \in {"queued", "running"}}
ClaimableQueued(st) == {j \in Jobs : st[j] = "queued"}

\* store.claim_next on the table with statuses st: any queued job, or a
\* running one whose lock expired (the order by priority is abstracted).
Claimable(st) == {j \in Jobs : st[j] = "queued" \/ (st[j] = "running" /\ lock[j] = "expired")}

ClaimNext(t, st, j) ==
  /\ status' = [st EXCEPT ![j] = "running"]
  /\ attempts' = [attempts EXCEPT ![j] = @ + 1]
  /\ lock' = [lock EXCEPT ![j] = "held"]
  /\ task' = [task EXCEPT ![t] = Busy("handling", j)]

\* the end of submit: run one pending job inline, or answer the request
RunInline(t, st, wanted) ==
  IF Inline /\ wanted /\ Claimable(st) # {}
  THEN \E j \in Claimable(st) : ClaimNext(t, st, j)
  ELSE /\ status' = st
       /\ task' = [task EXCEPT ![t] = Idle]
       /\ UNCHANGED <<attempts, lock>>

\* submit up to its first await: enqueue_job is idempotent; a paid job that
\* is queued and not yet escrowed gets its escrow, known to workers or not
Submit(t, j) ==
  /\ task[t] = Idle
  /\ LET st == IF status[j] = "absent" THEN [status EXCEPT ![j] = "queued"] ELSE status
         escrow == j \in Paid /\ st[j] = "queued" /\ settlement[j] = "none"
     IN \/ /\ escrow /\ j \notin Rejected /\ phase[j] = "none"
           /\ Escrow!Reserve(j)
           /\ status' = st
           /\ task' = [task EXCEPT ![t] = Busy("escrowing", j)]
           /\ UNCHANGED <<attempts, lock, settlement>>
        \/ /\ escrow /\ phase[j] = "open"
           /\ settlement' = [settlement EXCEPT ![j] = "escrowed"]
           /\ RunInline(t, st, TRUE)
           /\ UNCHANGED backend
        \/ /\ ~escrow \/ j \in Rejected \/ phase[j] \notin {"none", "open"}
           /\ RunInline(t, st, st[j] = "queued")
           /\ UNCHANGED <<settlement, backend>>
  /\ UNCHANGED <<gate, reports, bounds>>

\* open_escrow returned True: submit stores it, whatever the job became since
Escrowed(t) ==
  LET j == task[t].job IN
  /\ task[t].at = "escrowing"
  /\ Escrow!Hold(j)
  /\ settlement' = [settlement EXCEPT ![j] = "escrowed"]
  /\ RunInline(t, status, status[j] = "queued")
  /\ UNCHANGED <<gate, reports, bounds>>

\* it returned False: submit goes on with the job as it was when enqueued
EscrowFailed(t) ==
  LET j == task[t].job IN
  /\ task[t].at = "escrowing"
  /\ Escrow!Doubt(j)
  /\ RunInline(t, status, TRUE)
  /\ UNCHANGED <<settlement, gate, reports, bounds>>

\* _worker_loop
Claim(t) ==
  /\ t \in Workers /\ task[t] = Idle
  /\ \E j \in Claimable(status) : ClaimNext(t, status, j)
  /\ UNCHANGED <<settlement, gate, reports, bounds, backend>>

-----------------------------------------------------------------------------
\* slip: a status compared with the wrong constant
PaysUnescrowed(j) == settlement[j] = "none" /\ phase[j] = "open"

\* hook.on_settle / on_refund up to the transfer: the backend is asked only
\* for escrowed jobs, and goes ahead only while the escrow is open
Pays(j) == settlement[j] = "escrowed" /\ phase[j] = "open"

Credit(j) == credit' = [credit EXCEPT ![j] = @ + 1]
Penalise(j) == penalty' = [penalty EXCEPT ![j] = @ + 1]
Done(t) == task' = [task EXCEPT ![t] = Idle]

\* the row written by mark_succeeded, mark_failed and mark_manual_intervention:
\* neither looks at the status or at who holds the lock
Mark(j, st) ==
  /\ status' = [status EXCEPT ![j] = st]
  /\ lock' = [lock EXCEPT ![j] = "free"]

\* mark_failed's should_retry, and a slip in it
RetriesOneMore(j) == attempts[j] <= MaxAttempts
Retries(j) == attempts[j] < MaxAttempts

\* the quality gates that release an escrow, and a slip
AcceptsUnknown(g) == g # "failed"
Accepts(g) == g = "passed"

\* update_settlement with what a hook returned: nothing unless the backend said
\* True.  Slip: the result is ignored.
StoreAlways(j, ok, st) == settlement' = [settlement EXCEPT ![j] = st]
Store(j, ok, st) == settlement' = [settlement EXCEPT ![j] = IF ok THEN st ELSE @]

\* the handler returned a result with quality_gate g
HandlerDone(t, g) ==
  LET j == task[t].job IN
  /\ task[t].at = "handling"
  /\ Mark(j, "succeeded")
  /\ gate' = [gate EXCEPT ![j] = g]
  /\ passed' = IF g = "passed" THEN passed \cup {j} ELSE passed
  /\ \/ /\ Accepts(g) /\ Pays(j)
        /\ Escrow!Commit(j, "release", {"payee"})
        /\ task' = [task EXCEPT ![t] = Busy("settling", j)]
        /\ UNCHANGED <<credit, penalty>>
     \/ /\ Accepts(g) /\ ~Pays(j)
        /\ Credit(j) /\ Done(t)
        /\ UNCHANGED <<penalty, backend>>
     \/ /\ g = "failed"
        /\ Penalise(j) /\ Done(t)
        /\ UNCHANGED <<credit, backend>>
     \/ /\ g = "unknown" /\ ~Accepts(g)
        /\ Done(t)
        /\ UNCHANGED <<credit, penalty, backend>>
  /\ UNCHANGED <<attempts, settlement, gaveUp, bounds>>

\* the handler asked for a person: the escrow stays as it is
HandlerManual(t) ==
  /\ task[t].at = "handling"
  /\ Mark(task[t].job, "manual_intervention_required")
  /\ Done(t)
  /\ UNCHANGED <<attempts, settlement, gate, reports, bounds, backend>>

\* the handler raised: queued again, or failed for good and refunded
HandlerRaised(t) ==
  LET j == task[t].job IN
  /\ task[t].at = "handling"
  /\ \/ /\ Retries(j)
        /\ Mark(j, "queued") /\ Done(t)
        /\ UNCHANGED <<penalty, gaveUp, backend>>
     \/ /\ ~Retries(j)
        /\ Mark(j, "failed")
        /\ gaveUp' = gaveUp \cup {j}
        /\ IF Pays(j)
           THEN /\ Escrow!Commit(j, "refund", {"payer"})
                /\ task' = [task EXCEPT ![t] = Busy("refunding", j)]
                /\ UNCHANGED penalty
           ELSE Penalise(j) /\ Done(t) /\ UNCHANGED backend
  /\ UNCHANGED <<attempts, settlement, gate, credit, passed, bounds>>

\* release_escrow returned; only True is written to the table
Settled(t) ==
  LET j == task[t].job IN
  /\ task[t].at = "settling"
  /\ \/ Escrow!Close(j) /\ Store(j, TRUE, "settled")
     \/ Escrow!Doubt(j) /\ Store(j, FALSE, "settled")
  /\ Credit(j) /\ Done(t)
  /\ UNCHANGED <<status, attempts, lock, gate, penalty, passed, gaveUp, bounds>>

\* refund_escrow returned
Refunded(t) ==
  LET j == task[t].job IN
  /\ task[t].at = "refunding"
  /\ \/ Escrow!Close(j) /\ Store(j, TRUE, "refunded")
     \/ Escrow!Doubt(j) /\ Store(j, FALSE, "refunded")
  /\ Penalise(j) /\ Done(t)
  /\ UNCHANGED <<status, attempts, lock, gate, credit, passed, gaveUp, bounds>>

-----------------------------------------------------------------------------
Handles(t, j) == task[t] = Busy("handling", j)

\* time: a lock runs out, of a task that died or of one that is still at work
Expire(j) ==
  /\ status[j] = "running" /\ lock[j] = "held"
  /\ IF \E t \in Tasks : Handles(t, j)
     THEN overruns < MaxOverruns /\ overruns' = overruns + 1
     ELSE UNCHANGED overruns
  /\ lock' = [lock EXCEPT ![j] = "expired"]
  /\ UNCHANGED <<status, attempts, settlement, gate, task, reports, crashes, backend>>

\* stop() cancels a worker: a transfer it awaits becomes uncertain
Cancel(t) ==
  /\ t \in Workers /\ task[t] # Idle /\ crashes < MaxCrashes
  /\ crashes' = crashes + 1
  /\ Done(t)
  /\ IF task[t].at = "handling" THEN UNCHANGED backend ELSE Escrow!Doubt(task[t].job)
  /\ UNCHANGED <<table, reports, overruns>>

\* the process dies: the table and the backend's journal stay as they are
Crash ==
  /\ crashes < MaxCrashes
  /\ \E t \in Tasks : task[t] # Idle
  /\ crashes' = crashes + 1
  /\ task' = [t \in Tasks |-> Idle]
  /\ UNCHANGED <<table, reports, overruns, backend>>

\* It dies in the middle of a step, between two durable writes: a new row, the
\* row a handler's end wrote, or what the backend saved of a transfer, without
\* what was to follow (the row told of the escrow, the backend asked to pay, the
\* trust bridge, the inline run).
Torn(t) ==
  LET j == task[t].job IN
  /\ crashes < MaxCrashes
  /\ crashes' = crashes + 1
  /\ task' = [u \in Tasks |-> Idle]
  /\ \/ /\ t \in Clients /\ task[t] = Idle
        /\ \E k \in Jobs : status[k] = "absent" /\ status' = [status EXCEPT ![k] = "queued"]
        /\ UNCHANGED <<lock, settlement, gate, passed, gaveUp, backend>>
     \/ /\ task[t].at = "handling"
        /\ Mark(j, "succeeded")
        /\ \E g \in {"passed", "failed", "unknown"} :
             /\ gate' = [gate EXCEPT ![j] = g]
             /\ passed' = IF g = "passed" THEN passed \cup {j} ELSE passed
        /\ UNCHANGED <<settlement, gaveUp, backend>>
     \/ /\ task[t].at = "handling" /\ ~Retries(j)
        /\ Mark(j, "failed") /\ gaveUp' = gaveUp \cup {j}
        /\ UNCHANGED <<settlement, gate, passed, backend>>
     \/ /\ \E told \in BOOLEAN :
             \/ task[t].at = "escrowing" /\ Escrow!Hold(j) /\ Store(j, told, "escrowed")
             \/ task[t].at = "settling" /\ Escrow!Close(j) /\ Store(j, told, "settled")
             \/ task[t].at = "refunding" /\ Escrow!Close(j) /\ Store(j, told, "refunded")
        /\ UNCHANGED <<status, lock, gate, passed, gaveUp>>
     \/ /\ task[t].at \in {"escrowing", "settling", "refunding"} /\ Escrow!Doubt(j)
        /\ UNCHANGED <<status, lock, settlement, gate, passed, gaveUp>>
  /\ UNCHANGED <<attempts, credit, penalty, overruns>>

\* the rail behind the backend moves money
Rail(j) ==
  /\ \/ Escrow!Deposit(j) \/ \E p \in {"payer", "payee"} : Escrow!Pay(j, p)
  /\ UNCHANGED <<table, task, reports, bounds>>

Handler(t) == HandlerManual(t) \/ HandlerRaised(t) \/ \E g \in {"passed", "failed", "unknown"} : HandlerDone(t, g)
Answer(t) == Escrowed(t) \/ EscrowFailed(t) \/ Settled(t) \/ Refunded(t)

Next ==
  \/ \E t \in Clients, j \in Jobs : Submit(t, j)
  \/ \E t \in Tasks : Claim(t) \/ Handler(t) \/ Answer(t) \/ Cancel(t) \/ Torn(t)
  \/ \E j \in Jobs : Expire(j) \/ Rail(j)
  \/ Crash

Spec == Init /\ [][Next]_vars

\* Tasks that can run do, handlers return or raise, the backend answers, and
\* time passes.  No worker loop ends: an exception that _execute_job does not
\* catch (outside its try, of the store, the backend or the trust bridge) would
\* end one, and with the last of them the progress of the jobs nobody runs inline.
Fairness ==
  /\ \A t \in Tasks : WF_vars(Claim(t)) /\ WF_vars(Handler(t)) /\ WF_vars(Answer(t))
  /\ \A j \in Jobs : WF_vars(Expire(j))
FairSpec == Spec /\ Fairness

-----------------------------------------------------------------------------
\* The table never runs ahead of the money: it says escrowed only of money in
\* custody or on its way out, settled and refunded only of closed escrows.
BooksFollowBackend ==
  \A j \in Jobs :
    /\ settlement[j] # "none" => funded[j] /\ phase[j] \in {"open", "transferring", "released", "refunded", "uncertain"}
    /\ settlement[j] = "settled" => phase[j] = "released"
    /\ settlement[j] = "refunded" => phase[j] = "refunded"

\* The provider is paid only for a delivery that passed the quality gate, and
\* the payer is refunded only for a job that ran out of attempts: also when
\* leases overlap, and workers die.
PaidForPassedWork ==
  \A j \in Jobs : /\ "payee" \in paid[j] => j \in passed
                  /\ "payer" \in paid[j] => j \in gaveUp
                  /\ paid[j] # {} => funded[j]

\* While handlers keep within their lock no job is executed by two tasks, and
\* the trust bridge hears one verdict of it, whoever claims it and however often
\* it is submitted (claim_next, the mark_* writes).
OneExecution ==
  overruns = 0 => \A j \in Jobs : /\ Cardinality({t \in Tasks : Handles(t, j)}) <= 1
                                 /\ credit[j] + penalty[j] <= 1

\* "协议 / 幂等 / 持久 / 重试边界 / 结算 由代码（本运行时）强制保证" (runtime.py:6): no
\* job is started more than max_attempts times, also when workers die at it or
\* outlast their lock (claim_next never compares attempts with max_attempts).
RetryBound == \A j \in Jobs : attempts[j] <= MaxAttempts

\* Every start beyond max_attempts is that of a worker that died or outlasted
\* its lock before: a retry is never granted twice for one failure.
StartsAccounted == \A j \in Jobs : attempts[j] <= MaxAttempts + crashes + overruns

\* Starts are accounted for (claim_next, mark_failed: StartsAccounted), and
\* the table, the tasks and the backend's books keep their types.
Safe == TypeOK /\ StartsAccounted

\* Every accepted job is brought to an end, also across restarts.
JobsFinish == \A j \in Jobs : status[j] = "queued" ~> status[j] \in Terminal

\* Unless a task dies or outlasts its lock, a job whose escrow was held when it
\* ran never leaves it open unnoticed: the provider or the payer gets the money,
\* or the backend, the quality gate or the handler left the case to a person.
EscrowDecided ==
  \A j \in Jobs :
    (status[j] = "running" /\ settlement[j] = "escrowed")
      ~> \/ phase[j] \in {"released", "refunded", "uncertain"}
         \/ status[j] = "manual_intervention_required"
         \/ status[j] = "succeeded" /\ gate[j] # "passed"
         \/ crashes + overruns > 0

\* "job 成功 + 质量门通过 → on_settle：托管释放给受托方" (settlement.py:7):
\* no delivered and accepted job keeps an open escrow once its tasks are done.
PassedIsReleased ==
  \A j \in Jobs :
    ~(/\ status[j] = "succeeded" /\ gate[j] = "passed" /\ phase[j] = "open"
      /\ \A t \in Tasks : task[t].job # j)

\* "job 失败/不可恢复 → on_refund：托管退回委托方" (settlement.py:8): the
\* provider of a failed job was not paid for it.
FailedIsNotPaid == \A j \in Jobs : status[j] = "failed" => settlement[j] # "settled"
=============================================================================
