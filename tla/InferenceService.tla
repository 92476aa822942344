-------------------------- MODULE InferenceService --------------------------
(***************************************************************************)
(* The scheduler of dist-inference/global_scheduler: the pool of GPU nodes *)
(* behind one asyncio.Lock, the router that sends a request to one node,   *)
(* and the account and ledgers of what was served.  The scheduler is one   *)
(* asyncio process over one SQLite file.                                   *)
(*                                                                         *)
(* The lock is first come, first served.  A task that finds it free runs   *)
(* on without a pause; only registrations and heartbeats keep it over an   *)
(* await, while they save the node.  A NodeCapability object is replaced   *)
(* when its node registers again: gen counts the objects of a node.        *)
(* A message carries any status, and the pool takes it as it is, whatever  *)
(* requests the node has; the executors of this repository always report   *)
(* "idle".  Scores and video memory are abstracted: any idle node may be   *)
(* the best one.                                                           *)
(*                                                                         *)
(* A slip is a plausible mistake in the definition it precedes; no action  *)
(* uses it, the project substitutes it to see a check notice.              *)
(***************************************************************************)
EXTENDS Integers, FiniteSets, Sequences, Functions

CONSTANTS
  Nodes, Users,
  Requests,     \* chat completions
  UserOf, Cost, \* whose a request is, and what it turns out to cost
  Deposits,     \* deposit calls
  DepositOf, Amount,
  Start,        \* the balance of a user nobody has saved yet
  Estimates,    \* what estimate_cost may say: max_tokens has no lower bound, nor has this
  Reports,      \* bound: the statuses that messages of nodes carry
  MaxRegisters, \* bound: registrations of one node
  MaxCrashes,   \* bound: restarts of the scheduler
  None

Statuses == {"IDLE", "BUSY", "OFFLINE"}
Messages == [kind : {"register", "heartbeat"}, status : Reports]

ASSUME ServiceAssumption ==
  /\ UserOf \in [Requests -> Users] /\ Cost \in [Requests -> Nat]
  /\ DepositOf \in [Deposits -> Users] /\ Amount \in [Deposits -> Nat]
  /\ Start \in Nat /\ Estimates \subseteq Int /\ Reports \subseteq Statuses
  /\ MaxRegisters \in Nat /\ MaxCrashes \in Nat
  /\ Requests \cap Nodes = {} /\ Requests \cap Deposits = {} /\ None \notin Nodes \cup Messages

VARIABLES
  status, gen, late,    \* nodes in memory: status, object, last heartbeat over 30 s ago
  saved,                \* the gpu_nodes table: status of each node, "unknown" without a row
  holder,               \* the node whose row is being saved under the lock
  marked,               \* history: nodes whose status a request has set last
  shared,               \* history: nodes in use that others may be sent to
  queue,                \* tasks waiting for the lock
  beat,                 \* a node's message that waits for the lock
  pc, on, ok,           \* requests: progress, <<node, object>>, whether it was answered
  account,              \* the user_balances table
  copy,                 \* the balance a task has read and not yet written
  kept,                 \* history: the charges and deposits that a user's row accounts for
  seen,                 \* history: those of the balance a task has read
  overlapped,           \* history: tasks under way while another of the same user was
  booked,               \* how many of the three ledgers have a request
  paying,               \* deposits: progress
  crashes

use == <<marked, shared>>
pool == <<status, gen, late, saved, holder, use, beat>>
requests == <<pc, on, ok, booked>>
money == <<account, copy, paying, kept, seen, overlapped>>
vars == <<pool, queue, requests, money, crashes>>

Ended == {"refused", "failed", "done", "lost"}
AtLock == {"select", "busy", "idle"}
Account == [vibe : Nat, owed : Nat]
Tasks == Requests \cup Deposits

TypeOK ==
  /\ status \in [Nodes -> Statuses \cup {"unknown"}]
  /\ gen \in [Nodes -> 0..MaxRegisters] /\ late \in [Nodes -> BOOLEAN]
  /\ saved \in [Nodes -> Statuses \cup {"unknown"}] /\ holder \in Nodes \cup {None}
  /\ marked \subseteq Nodes /\ shared \subseteq Nodes
  /\ Len(queue) = Cardinality({queue[i] : i \in DOMAIN queue})
  /\ {queue[i] : i \in DOMAIN queue}
       = {r \in Requests : pc[r] \in AtLock} \cup {n \in Nodes : beat[n] # None}
  /\ beat \in [Nodes -> Messages \cup {None}]
  /\ pc \in [Requests -> {"new", "sent", "load", "save", "book"} \cup AtLock \cup Ended]
  /\ on \in [Requests -> (Nodes \X Nat) \cup {None}] /\ ok \subseteq Requests
  /\ booked \in [Requests -> 0..3]
  /\ account \in [Users -> Account] /\ copy \in [Tasks -> Account \cup {None}]
  /\ paying \in [Deposits -> {"new", "save", "done", "lost"}]
  /\ kept \in [Users -> SUBSET Tasks] /\ seen \in [Tasks -> SUBSET Tasks]
  /\ overlapped \subseteq Tasks /\ crashes \in 0..MaxCrashes

Init ==
  /\ status = [n \in Nodes |-> "unknown"] /\ gen = [n \in Nodes |-> 0]
  /\ late = [n \in Nodes |-> FALSE] /\ saved = status /\ holder = None
  /\ marked = {} /\ shared = {}
  /\ beat = [n \in Nodes |-> None] /\ queue = <<>>
  /\ pc = [r \in Requests |-> "new"] /\ on = [r \in Requests |-> None]
  /\ ok = {} /\ booked = [r \in Requests |-> 0]
  /\ account = [u \in Users |-> [vibe |-> Start, owed |-> 0]]
  /\ copy = [t \in Tasks |-> None] /\ paying = [d \in Deposits |-> "new"]
  /\ kept = [u \in Users |-> {}] /\ seen = [t \in Tasks |-> {}] /\ overlapped = {} /\ crashes = 0

-----------------------------------------------------------------------------
\* asyncio.Lock: a task may go on under the lock, or must line up.  Slip: a task
\* that finds it released need not line up behind those that wait
FreeAtOnce == holder = None
Free == holder = None /\ queue = <<>>
Turn(t) == holder = None /\ queue # <<>> /\ Head(queue) = t
LineUp(t) == ~Free /\ queue' = Append(queue, t)

\* a request that was given the present object of node n, until it has marked it idle
Holds(r, n) == on[r] = <<n, gen[n]>> /\ pc[r] \in {"busy", "sent", "idle"}

\* the effect of message m of node n once it has the lock: registration makes a
\* new object, a heartbeat of an unknown node is ignored; an idle node that has
\* a request may be given to others
Takes(n, m) ==
  /\ holder' = IF m.kind = "register" \/ status[n] # "unknown" THEN n ELSE None
  /\ status' = IF holder' = n THEN [status EXCEPT ![n] = m.status] ELSE status
  /\ gen' = [gen EXCEPT ![n] = IF m.kind = "register" THEN @ + 1 ELSE @]
  /\ late' = [late EXCEPT ![n] = FALSE]
  /\ marked' = marked \ {n}
  /\ shared' = CASE m.kind = "register" -> shared \ {n}
                 [] m.kind = "heartbeat" /\ m.status = "IDLE" /\ (\E r \in Requests : Holds(r, n)) -> shared \cup {n}
                 [] OTHER -> shared

\* register_node, heartbeat
Message(n, m) ==
  /\ beat[n] = None /\ holder # n
  /\ m.kind = "register" => gen[n] < MaxRegisters
  /\ \/ Free /\ Takes(n, m) /\ UNCHANGED <<beat, queue>>
     \/ LineUp(n) /\ beat' = [beat EXCEPT ![n] = m] /\ UNCHANGED <<status, gen, late, holder, use>>
  /\ UNCHANGED <<saved, requests, money, crashes>>

MessageTurn(n) ==
  /\ Turn(n)
  /\ Takes(n, beat[n])
  /\ beat' = [beat EXCEPT ![n] = None] /\ queue' = Tail(queue)
  /\ UNCHANGED <<saved, requests, money, crashes>>

\* _save_node is done
NodeSaved ==
  /\ holder # None
  /\ saved' = [saved EXCEPT ![holder] = status[holder]] /\ holder' = None
  /\ UNCHANGED <<status, gen, late, use, beat, queue, requests, money, crashes>>

\* 30 seconds without a heartbeat
Silence(n) ==
  /\ status[n] # "unknown" /\ ~late[n]
  /\ late' = [late EXCEPT ![n] = TRUE]
  /\ UNCHANGED <<status, gen, saved, holder, use, beat, queue, requests, money, crashes>>

-----------------------------------------------------------------------------
\* chat_completions, with what the request is estimated to cost
Admitted(u, estimate) ==
  LET balance == account[u].vibe - account[u].owed IN balance >= estimate \/ balance > 0

Refuse(r) ==
  /\ pc[r] = "new" /\ \E e \in Estimates : ~Admitted(UserOf[r], e)
  /\ pc' = [pc EXCEPT ![r] = "refused"]
  /\ UNCHANGED <<pool, queue, on, ok, booked, money, crashes>>

\* _cleanup_timeout_nodes
Cleaned == [n \in Nodes |-> IF status[n] # "unknown" /\ late[n] THEN "OFFLINE" ELSE status[n]]

\* slip: a node that is at work will do
NotOffline(s) == s \in {"IDLE", "BUSY"}
Available(s) == s = "IDLE"

\* select_node under the lock, rest being the tasks that wait for it; set_busy
\* follows at once if there are none, and lines up behind them otherwise: until
\* then another request may select the node too
SelectThen(r, rest) ==
  \/ /\ \A n \in Nodes : ~Available(Cleaned[n])
     /\ status' = Cleaned /\ queue' = rest
     /\ pc' = [pc EXCEPT ![r] = "failed"] /\ UNCHANGED <<on, use>>
  \/ \E n \in Nodes :
       /\ Available(Cleaned[n])
       /\ on' = [on EXCEPT ![r] = <<n, gen[n]>>]
       /\ shared' = IF \E q \in Requests : Holds(q, n) /\ pc[q] = "busy" THEN shared \cup {n} ELSE shared
       /\ IF rest = <<>>
          THEN /\ status' = [Cleaned EXCEPT ![n] = "BUSY"] /\ marked' = marked \cup {n}
               /\ pc' = [pc EXCEPT ![r] = "sent"] /\ queue' = rest
          ELSE /\ status' = Cleaned /\ UNCHANGED marked
               /\ pc' = [pc EXCEPT ![r] = "busy"] /\ queue' = Append(rest, r)

Arrive(r) ==
  /\ pc[r] = "new" /\ \E e \in Estimates : Admitted(UserOf[r], e)
  /\ \/ Free /\ SelectThen(r, queue)
     \/ LineUp(r) /\ pc' = [pc EXCEPT ![r] = "select"] /\ UNCHANGED <<status, on, use>>
  /\ UNCHANGED <<gen, late, saved, holder, beat, ok, booked, money, crashes>>

Select(r) ==
  /\ pc[r] = "select" /\ Turn(r)
  /\ SelectThen(r, Tail(queue))
  /\ UNCHANGED <<gen, late, saved, holder, beat, ok, booked, money, crashes>>

\* set_busy, set_idle: the status of the object the executor holds, which is the
\* node's only while it has not registered again; slip: the node is looked up
Sets(n, s) ==
  /\ status' = [status EXCEPT ![n] = s]
  /\ marked' = IF s = "BUSY" THEN marked \cup {n} ELSE marked \ {n}
MarkNode(r, s) == Sets(on[r][1], s)
Mark(r, s) == IF gen[on[r][1]] = on[r][2] THEN Sets(on[r][1], s) ELSE UNCHANGED <<status, marked>>

SetBusy(r) ==
  /\ pc[r] = "busy" /\ Turn(r)
  /\ Mark(r, "BUSY") /\ queue' = Tail(queue)
  /\ pc' = [pc EXCEPT ![r] = "sent"]
  /\ UNCHANGED <<gen, late, saved, holder, shared, beat, on, ok, booked, money, crashes>>

\* Router.execute's finally, and where a request goes from there
Frees(r, answered) ==
  /\ Mark(r, "IDLE")
  /\ shared' = {n \in shared : \E q \in Requests \ {r} : Holds(q, n)}
  /\ on' = [on EXCEPT ![r] = None]
  /\ pc' = [pc EXCEPT ![r] = IF answered THEN "load" ELSE "failed"]

\* the node answered, or failed, or 300 seconds passed
Answer(r, answered) ==
  /\ pc[r] = "sent"
  /\ ok' = IF answered THEN ok \cup {r} ELSE ok
  /\ \/ Free /\ Frees(r, answered) /\ UNCHANGED queue
     \/ LineUp(r) /\ pc' = [pc EXCEPT ![r] = "idle"] /\ UNCHANGED <<status, use, on>>
  /\ UNCHANGED <<gen, late, saved, holder, beat, booked, money, crashes>>

SetIdle(r) ==
  /\ pc[r] = "idle" /\ Turn(r)
  /\ Frees(r, r \in ok) /\ queue' = Tail(queue)
  /\ UNCHANGED <<gen, late, saved, holder, beat, ok, booked, money, crashes>>

-----------------------------------------------------------------------------
\* what charge makes of a balance; slip: the debt is forgotten
ChargedAnew(a, c) == [vibe |-> IF a.vibe >= c THEN a.vibe - c ELSE 0, owed |-> IF a.vibe >= c THEN 0 ELSE c - a.vibe]
Charged(a, c) ==
  LET total == c + a.owed
  IN IF a.vibe >= total THEN [vibe |-> a.vibe - total, owed |-> 0]
     ELSE [vibe |-> 0, owed |-> total - a.vibe]

\* tasks of user u that have read its balance and not yet written it
Underway(u) ==
  {r \in Requests : pc[r] = "save" /\ UserOf[r] = u} \cup {d \in Deposits : paying[d] = "save" /\ DepositOf[d] = u}

\* _load_balance_async and _save_balance of task t for user u
LoadBalance(t, u) ==
  /\ copy' = [copy EXCEPT ![t] = account[u]] /\ seen' = [seen EXCEPT ![t] = kept[u]]
  /\ overlapped' = IF Underway(u) = {} THEN overlapped ELSE overlapped \cup Underway(u) \cup {t}
  /\ UNCHANGED <<account, kept>>
SaveBalance(t, u, a) ==
  /\ account' = [account EXCEPT ![u] = a] /\ copy' = [copy EXCEPT ![t] = None]
  /\ kept' = [kept EXCEPT ![u] = seen[t] \cup {t}] /\ seen' = [seen EXCEPT ![t] = {}]
  /\ UNCHANGED overlapped

Charge(r) ==
  /\ \/ pc[r] = "load" /\ LoadBalance(r, UserOf[r]) /\ pc' = [pc EXCEPT ![r] = "save"]
     \/ /\ pc[r] = "save" /\ SaveBalance(r, UserOf[r], Charged(copy[r], Cost[r]))
        /\ pc' = [pc EXCEPT ![r] = "book"]
  /\ UNCHANGED <<pool, queue, on, ok, booked, paying, crashes>>

Deposit(d) ==
  /\ \/ /\ paying[d] = "new" /\ LoadBalance(d, DepositOf[d])
        /\ paying' = [paying EXCEPT ![d] = "save"]
     \/ /\ paying[d] = "save"
        /\ SaveBalance(d, DepositOf[d], [copy[d] EXCEPT !.vibe = @ + Amount[d]])
        /\ paying' = [paying EXCEPT ![d] = "done"]
  /\ UNCHANGED <<pool, queue, requests, crashes>>

\* inference_ledger.record, node_earnings_ledger.add_inference and
\* user_ledger.record_consumption, each with a commit of its own
Book(r) ==
  /\ pc[r] = "book"
  /\ booked' = [booked EXCEPT ![r] = @ + 1]
  /\ pc' = IF booked[r] = 2 THEN [pc EXCEPT ![r] = "done"] ELSE pc
  /\ UNCHANGED <<pool, queue, on, ok, money, crashes>>

\* the scheduler restarts: load_from_db
Crash ==
  /\ crashes < MaxCrashes
  /\ crashes' = crashes + 1
  /\ status' = saved /\ marked' = {} /\ shared' = {}
  /\ holder' = None /\ queue' = <<>> /\ beat' = [n \in Nodes |-> None]
  /\ pc' = [r \in Requests |-> IF pc[r] \in Ended \cup {"new"} THEN pc[r] ELSE "lost"]
  /\ paying' = [d \in Deposits |-> IF paying[d] = "save" THEN "lost" ELSE paying[d]]
  /\ on' = [r \in Requests |-> None] /\ copy' = [t \in Tasks |-> None] /\ seen' = [t \in Tasks |-> {}]
  /\ UNCHANGED <<gen, late, saved, ok, booked, account, kept, overlapped>>

Serve(r) ==
  \/ Refuse(r) \/ Arrive(r) \/ Select(r) \/ SetBusy(r) \/ Answer(r, TRUE) \/ Answer(r, FALSE)
  \/ SetIdle(r) \/ Charge(r) \/ Book(r)

Next ==
  \/ \E n \in Nodes : MessageTurn(n) \/ Silence(n) \/ \E m \in Messages : Message(n, m)
  \/ NodeSaved \/ Crash
  \/ \E r \in Requests : Serve(r)
  \/ \E d \in Deposits : Deposit(d)

Spec == Init /\ [][Next]_vars

\* Tasks that can run do, nodes answer or the call times out, SQLite answers.
Fairness ==
  /\ WF_vars(NodeSaved)
  /\ \A n \in Nodes : WF_vars(MessageTurn(n))
  /\ \A r \in Requests : WF_vars(pc[r] # "new" /\ Serve(r))
FairSpec == Spec /\ Fairness

-----------------------------------------------------------------------------
\* No node is lost to the pool by a request: one a request has marked busy has
\* a request at work on it that will mark it idle, however registrations,
\* heartbeats, timeouts and requests overlap (set_busy and set_idle of a
\* capability that a registration may have replaced).  A node that reported
\* itself busy is busy until it says otherwise, also over a restart.
BusyIsInUse ==
  \A n \in marked : status[n] = "BUSY" =>
    \E r \in Requests : on[r] = <<n, gen[n]>> /\ pc[r] \in {"sent", "idle"}

\* Two requests are at work on one node only after it was opened to both: by a
\* selection before the first had its turn to mark it busy (select_node and
\* set_busy take the lock one after the other), or by a heartbeat that called it
\* idle while it was in use; and not any more once all have left it.
SharedOnceOpened ==
  \A n \in Nodes \ shared : \A r, q \in Requests : Holds(r, n) /\ Holds(q, n) => r = q

\* The pool loses no node to requests (BusyIsInUse) and gives none to two of them
\* but for the reasons named (SharedOnceOpened), and the queue of its lock is
\* just those that wait for it (TypeOK).
Safe == TypeOK /\ BusyIsInUse /\ SharedOnceOpened

\* A user's balance, less its debt, is what he started with and the charges and
\* deposits the row accounts for: of his own answered requests and paid deposits.
\* All that have come to their end are accounted for, unless another charge or
\* deposit of his was between its read and its write of the row at the same
\* time (charge and deposit await in between), or the scheduler died: debts are
\* carried over, no answered request goes unbilled and no failed one is billed.
Effect(t) == IF t \in Requests THEN 0 - Cost[t] ELSE Amount[t]
Explained(u) ==
  account[u].vibe - account[u].owed = Start + SumFunction([t \in kept[u] |-> Effect(t)])
AccountsBalance ==
  /\ \A u \in Users : /\ Explained(u)
                      /\ kept[u] \cap Requests \subseteq {r \in ok : UserOf[r] = u}
                      /\ kept[u] \cap Deposits \subseteq {d \in Deposits : paying[d] = "done" /\ DepositOf[d] = u}
  /\ \A r \in ok : pc[r] \in Ended => pc[r] = "lost" \/ r \in overlapped \cup kept[UserOf[r]]
  /\ \A d \in Deposits : paying[d] = "done" => d \in overlapped \cup kept[DepositOf[d]]

\* Every admitted request comes to an end, as nobody waits for the lock for ever,
\* and what was charged reaches all ledgers unless the scheduler dies.
RequestsEnd ==
  \A r \in Requests : pc[r] # "new" ~> \/ pc[r] \in {"refused", "failed"}
                                       \/ pc[r] = "done" /\ booked[r] = 3
                                       \/ pc[r] = "lost" /\ crashes > 0
=============================================================================
