----------------------- MODULE InferenceService_proofs -----------------------
(***************************************************************************)
(* Proofs about InferenceService, for any nodes, users, requests, costs,   *)
(* deposits and numbers of registrations and restarts: the pool's lock and *)
(* the marks of its nodes (part I), and what the account of a user says    *)
(* (part II).                                                              *)
(***************************************************************************)
EXTENDS InferenceService, FiniteSums, SequenceTheorems

PCs == {"new", "sent", "load", "save", "book"} \cup AtLock \cup Ended
Marks == Statuses \cup {"unknown"}

\* TypeOK without the queue and the money, one variable at a time.
Types ==
  /\ status \in [Nodes -> Marks] /\ saved \in [Nodes -> Marks]
  /\ gen \in [Nodes -> Nat] /\ (\A n \in Nodes : gen[n] <= MaxRegisters)
  /\ late \in [Nodes -> BOOLEAN] /\ holder \in Nodes \cup {None}
  /\ marked \subseteq Nodes /\ shared \subseteq Nodes
  /\ beat \in [Nodes -> Messages \cup {None}]
  /\ pc \in [Requests -> PCs] /\ on \in [Requests -> (Nodes \X Nat) \cup {None}]
  /\ crashes \in Nat /\ crashes <= MaxCrashes

\* A registration that waits may still be made, and a request that was routed has
\* an object of a node, the present one or one before it.
Progress ==
  /\ \A n \in Nodes : beat[n] # None /\ beat[n].kind = "register" => gen[n] < MaxRegisters
  /\ \A r \in Requests : pc[r] \in {"busy", "sent", "idle"} =>
       on[r] \in Nodes \X Nat /\ on[r][2] <= gen[on[r][1]]

\* The lock's queue is a line without repetitions, of those that wait.
Line(q) == q \in Seq(Requests \cup Nodes) /\ \A i, j \in 1..Len(q) : q[i] = q[j] => i = j
Members(q) == {q[i] : i \in 1..Len(q)}
Waiting == {r \in Requests : pc[r] \in AtLock} \cup {n \in Nodes : beat[n] # None}
Lines == Line(queue) /\ Members(queue) = Waiting

\* A node that was not opened to others is not idle once its request is sent to it.
HeldIsNotIdle ==
  \A n \in Nodes \ shared : \A r \in Requests :
    Holds(r, n) /\ pc[r] \in {"sent", "idle"} => status[n] # "IDLE"
Opened == SharedOnceOpened /\ HeldIsNotIdle

Pool == Types /\ Progress /\ Lines /\ BusyIsInUse /\ Opened

(***************************************************************************)
(* The queue of the lock                                                   *)
(***************************************************************************)
\* A newcomer goes to the end of a line, and its head leaves it.
LEMMA LineGrows ==
  ASSUME NEW q, Line(q), NEW t \in Requests \cup Nodes, t \notin Members(q)
  PROVE  Line(Append(q, t)) /\ Members(Append(q, t)) = Members(q) \cup {t}
<1> DEFINE S == Requests \cup Nodes
           a == Append(q, t)
<1>1. q \in Seq(S) /\ t \in S
  BY DEF Line
<1>2. Len(q) \in Nat /\ a \in Seq(S) /\ Len(a) = Len(q) + 1 /\ a[Len(q) + 1] = t
      /\ \A i \in 1..Len(q) : a[i] = q[i]
  BY <1>1, AppendProperties, LenProperties
<1> HIDE DEF S, a
<1>3. \A i, j \in 1..Len(a) : a[i] = a[j] => i = j
  BY <1>2 DEF Line, Members
<1>4. Members(a) = Members(q) \cup {t}
  <2>1. 1..Len(a) = 1..Len(q) \cup {Len(q) + 1}
    BY <1>2
  <2>2. QED
    BY <1>2, <2>1 DEF Members
<1>5. QED
  BY <1>2, <1>3, <1>4 DEF Line, S, a

LEMMA LineShrinks ==
  ASSUME NEW q, Line(q), q # <<>>
  PROVE  /\ Line(Tail(q)) /\ Members(Tail(q)) = Members(q) \ {Head(q)}
         /\ Head(q) \in Members(q)
<1> DEFINE S == Requests \cup Nodes
           t == Tail(q)
<1>1. q \in Seq(S)
  BY DEF Line
<1>2. Len(q) \in Nat \ {0} /\ t \in Seq(S) /\ Len(t) = Len(q) - 1 /\ Head(q) = q[1]
      /\ \A i \in 1..Len(t) : t[i] = q[i + 1]
  BY <1>1, HeadTailProperties, EmptySeq
<1> HIDE DEF S, t
<1>3. \A i, j \in 1..Len(t) : t[i] = t[j] => i = j
  <2> SUFFICES ASSUME NEW i \in 1..Len(t), NEW j \in 1..Len(t), t[i] = t[j] PROVE i = j
    OBVIOUS
  <2>1. i + 1 \in 1..Len(q) /\ j + 1 \in 1..Len(q) /\ q[i + 1] = q[j + 1]
    BY <1>2
  <2>2. i + 1 = j + 1
    BY <2>1 DEF Line
  <2>3. QED
    BY <2>2
<1>4. Members(t) = Members(q) \ {Head(q)}
  <2>1. ASSUME NEW i \in 1..Len(t) PROVE t[i] \in Members(q) /\ t[i] # Head(q)
    <3>1. i + 1 \in 1..Len(q) /\ 1 \in 1..Len(q) /\ i + 1 # 1 /\ t[i] = q[i + 1]
      BY <1>2
    <3>2. QED
      BY <1>2, <3>1 DEF Line, Members
  <2>2. ASSUME NEW i \in 1..Len(q), q[i] # Head(q) PROVE q[i] \in Members(t)
    <3>1. i - 1 \in 1..Len(t) /\ t[i - 1] = q[i]
      BY <1>2, <2>2
    <3>2. QED
      BY <3>1 DEF Members
  <2>3. QED
    BY <2>1, <2>2 DEF Members
<1>5. Line(t)
  BY <1>2, <1>3 DEF Line, S
<1>6. Head(q) \in Members(q)
  BY <1>2 DEF Members
<1>7. QED
  BY <1>4, <1>5, <1>6 DEF t

\* A line is as long as there are tasks in it.
LEMMA LineCounts ==
  ASSUME NEW q, Line(q)
  PROVE  DOMAIN q = 1..Len(q) /\ Len(q) = Cardinality(Members(q))
<1>1. Len(q) \in Nat /\ q \in [1..Len(q) -> Requests \cup Nodes] /\ DOMAIN q = 1..Len(q)
  BY LenProperties DEF Line
<1>2. q \in [1..Len(q) -> Members(q)]
  BY <1>1 DEF Members
<1>3. q \in Bijection(1..Len(q), Members(q))
  BY <1>2 DEF Line, Members, Bijection, Injection, Surjection, IsInjective
<1>4. ExistsBijection(1..Len(q), Members(q))
  BY <1>3 DEF ExistsBijection
<1>5. QED
  BY <1>1, <1>4, FS_CountingElements

LEMMA EmptyLine == Line(<<>>) /\ Members(<<>>) = {}
<1>1. <<>> \in Seq(Requests \cup Nodes) /\ Len(<<>>) = 0
  BY EmptySeq
<1>2. QED
  BY <1>1 DEF Line, Members

(***************************************************************************)
(* Part I: the pool                                                        *)
(***************************************************************************)
LEMMA InitPool == Init => Pool
<1> SUFFICES ASSUME Init PROVE Pool
  OBVIOUS
<1>1. Types
  BY ServiceAssumption DEF Init, Types, Marks, PCs, AtLock, Ended
<1>2. Progress
  BY DEF Init, Progress
<1>3. Lines
  <2>1. Waiting = {}
    BY DEF Init, Waiting, AtLock
  <2>2. QED
    BY <2>1, EmptyLine DEF Init, Lines
<1>4. BusyIsInUse /\ Opened
  BY DEF Init, BusyIsInUse, Opened, SharedOnceOpened, HeldIsNotIdle, Holds
<1>5. QED
  BY <1>1, <1>2, <1>3, <1>4 DEF Pool

\* The head of the queue waits for the lock, and only it leaves.
LEMMA HeadLeaves ==
  ASSUME Lines, NEW t, Turn(t)
  PROVE  Line(Tail(queue)) /\ Members(Tail(queue)) = Waiting \ {t} /\ t \in Waiting
  BY LineShrinks DEF Turn, Lines

\* A step that lets no node be held or marked in a new way.
LEMMA SamePool ==
  ASSUME Pool, UNCHANGED <<status, gen, use, on>>,
         \A r \in Requests : pc[r] \in {"busy", "sent", "idle"} \/ pc'[r] \in {"busy", "sent", "idle"} => pc'[r] = pc[r]
  PROVE  BusyIsInUse' /\ Opened'
<1>1. UNCHANGED <<marked, shared>>
  BY DEF use
<1>2. BusyIsInUse'
  <2> SUFFICES ASSUME NEW n \in marked', status'[n] = "BUSY"
               PROVE  \E r \in Requests : on'[r] = <<n, gen'[n]>> /\ pc'[r] \in {"sent", "idle"}
    BY DEF BusyIsInUse
  <2>1. PICK r \in Requests : on[r] = <<n, gen[n]>> /\ pc[r] \in {"sent", "idle"}
    BY <1>1 DEF Pool, BusyIsInUse
  <2>2. QED
    BY <2>1
<1>3. \A r \in Requests, n \in Nodes : Holds(r, n)' => Holds(r, n) /\ pc'[r] = pc[r]
  BY DEF Holds
<1>4. Opened'
  BY <1>1, <1>3 DEF Pool, Opened, SharedOnceOpened, HeldIsNotIdle
<1>5. QED
  BY <1>2, <1>4

(***************************************************************************)
(* Messages of nodes, and their silence                                    *)
(***************************************************************************)
LEMMA TakesPool ==
  ASSUME Pool, NEW n \in Nodes, NEW m \in Messages, m.kind = "register" => gen[n] < MaxRegisters,
         Takes(n, m), UNCHANGED <<saved, pc, on, crashes>>,
         beat' \in [Nodes -> Messages \cup {None}], beat'[n] = None,
         \A k \in Nodes \ {n} : beat'[k] = beat[k]
  PROVE  (Types /\ Progress /\ BusyIsInUse /\ Opened)'
<1>1. m.kind \in {"register", "heartbeat"} /\ m.status \in Marks
  BY ServiceAssumption DEF Messages, Marks
<1>2. /\ status' \in [Nodes -> Marks] /\ (\A k \in Nodes \ {n} : status'[k] = status[k])
      /\ status'[n] = m.status \/ (status'[n] = status[n] /\ m.kind = "heartbeat")
  BY <1>1 DEF Takes, Pool, Types
<1>3. /\ gen' \in [Nodes -> Nat] /\ (\A k \in Nodes : gen'[k] <= MaxRegisters)
      /\ (\A k \in Nodes \ {n} : gen'[k] = gen[k])
      /\ gen'[n] = IF m.kind = "register" THEN gen[n] + 1 ELSE gen[n]
  BY ServiceAssumption DEF Takes, Pool, Types
<1>4. late' \in [Nodes -> BOOLEAN] /\ holder' \in Nodes \cup {None}
  BY DEF Takes, Pool, Types
<1>5. marked' = marked \ {n} /\ shared' \subseteq Nodes /\ shared \ {n} \subseteq shared' /\ shared' \subseteq shared \cup {n}
  BY DEF Takes, Pool, Types
<1>6. Types'
  BY <1>2, <1>3, <1>4, <1>5 DEF Pool, Types
<1>7. \A k \in Nodes : gen[k] \in Nat /\ gen'[k] \in Nat /\ gen[k] <= gen'[k]
  BY <1>3 DEF Pool, Types
<1>8. Progress'
  <2>1. ASSUME NEW r \in Requests, pc'[r] \in {"busy", "sent", "idle"}
        PROVE  on'[r] \in Nodes \X Nat /\ on'[r][2] <= gen'[on'[r][1]]
    <3>1. on[r] \in Nodes \X Nat /\ on[r][2] <= gen[on[r][1]]
      BY <2>1 DEF Pool, Progress
    <3>2. PICK k \in Nodes, g \in Nat : on[r] = <<k, g>>
      BY <3>1
    <3>3. QED
      BY <1>7, <3>1, <3>2
  <2>2. ASSUME NEW k \in Nodes, beat'[k] # None, beat'[k].kind = "register" PROVE gen'[k] < MaxRegisters
    BY <1>3, <2>2 DEF Pool, Progress
  <2>3. QED
    BY <2>1, <2>2 DEF Progress
<1>9. BusyIsInUse'
  <2> SUFFICES ASSUME NEW k \in marked', status'[k] = "BUSY"
               PROVE  \E r \in Requests : on'[r] = <<k, gen'[k]>> /\ pc'[r] \in {"sent", "idle"}
    BY DEF BusyIsInUse
  <2>1. k \in marked /\ k \in Nodes /\ k # n
    BY <1>5 DEF Pool, Types
  <2>2. status[k] = "BUSY" /\ gen'[k] = gen[k]
    BY <1>2, <1>3, <2>1
  <2>3. PICK r \in Requests : on[r] = <<k, gen[k]>> /\ pc[r] \in {"sent", "idle"}
    BY <2>1, <2>2 DEF Pool, BusyIsInUse
  <2>4. QED
    BY <2>2, <2>3
<1>10. ASSUME NEW r \in Requests, NEW k \in Nodes, Holds(r, k)'
       PROVE  Holds(r, k) /\ gen'[k] = gen[k] /\ (k = n => m.kind = "heartbeat")
  <2>1. on[r] = <<k, gen'[k]>> /\ pc[r] \in {"busy", "sent", "idle"}
    BY <1>10 DEF Holds
  <2>2. gen'[k] <= gen[k]
    BY <2>1 DEF Pool, Progress
  <2>3. gen'[k] = gen[k]
    BY <1>7, <2>2
  <2>4. k = n => m.kind = "heartbeat"
    BY <1>1, <1>3, <1>7, <2>3
  <2>5. QED
    BY <2>1, <2>3, <2>4 DEF Holds
<1>11. Opened'
  <2>1. ASSUME NEW k \in Nodes, k \notin shared', NEW r \in Requests, Holds(r, k)'
        PROVE  /\ k \notin shared /\ Holds(r, k)
               /\ (status'[k] = status[k] \/ status'[k] # "IDLE")
    <3>1. Holds(r, k) /\ (k = n => m.kind = "heartbeat")
      BY <1>10, <2>1
    <3>2. CASE k # n
      BY <1>2, <1>5, <2>1, <3>1, <3>2
    <3>3. CASE k = n
      <4>1. m.status # "IDLE" /\ shared' = shared
        BY <2>1, <3>1, <3>3 DEF Takes
      <4>2. QED
        BY <1>2, <2>1, <3>1, <3>3, <4>1
    <3>4. QED
      BY <3>2, <3>3
  <2>2. SharedOnceOpened'
    BY <2>1 DEF Pool, Opened, SharedOnceOpened
  <2>3. HeldIsNotIdle'
    BY <2>1 DEF Pool, Opened, HeldIsNotIdle
  <2>4. QED
    BY <2>2, <2>3 DEF Opened
<1>12. QED
  BY <1>6, <1>8, <1>9, <1>11

LEMMA MessagePool ==
  ASSUME Pool, NEW n \in Nodes, NEW m \in Messages, Message(n, m)
  PROVE  Pool'
<1>1. /\ beat[n] = None /\ (m.kind = "register" => gen[n] < MaxRegisters)
      /\ UNCHANGED <<saved, pc, on, crashes>>
  BY DEF Message, requests
<1>2. CASE Free /\ Takes(n, m) /\ UNCHANGED <<beat, queue>>
  <2>1. (Types /\ Progress /\ BusyIsInUse /\ Opened)'
    <3>1. beat' \in [Nodes -> Messages \cup {None}]
      BY <1>2 DEF Pool, Types
    <3>2. QED
      BY <1>1, <1>2, <3>1, TakesPool
  <2>2. Lines'
    BY <1>1, <1>2 DEF Pool, Lines, Waiting
  <2>3. QED
    BY <2>1, <2>2 DEF Pool
<1>3. CASE LineUp(n) /\ beat' = [beat EXCEPT ![n] = m] /\ UNCHANGED <<status, gen, late, holder, use>>
  <2>1. /\ beat' \in [Nodes -> Messages \cup {None}] /\ beat'[n] = m
        /\ \A k \in Nodes \ {n} : beat'[k] = beat[k]
    BY <1>3 DEF Pool, Types
  <2>2. Types' /\ Progress'
    BY <1>1, <1>3, <2>1 DEF Pool, Types, Progress, use
  <2>3. BusyIsInUse' /\ Opened'
    BY <1>1, <1>3, SamePool
  <2>4. Waiting' = Waiting \cup {n} /\ n \notin Waiting
    BY <1>1, <2>1, ServiceAssumption DEF Waiting
  <2>5. Lines'
    BY <1>3, <2>4, LineGrows DEF LineUp, Pool, Lines
  <2>6. QED
    BY <2>2, <2>3, <2>5 DEF Pool
<1>4. QED
  BY <1>2, <1>3 DEF Message

LEMMA MessageTurnPool ==
  ASSUME Pool, NEW n \in Nodes, MessageTurn(n)
  PROVE  Pool'
<1>1. /\ Turn(n) /\ Takes(n, beat[n]) /\ beat' = [beat EXCEPT ![n] = None] /\ queue' = Tail(queue)
      /\ UNCHANGED <<saved, pc, on, crashes>>
  BY DEF MessageTurn, requests
<1>2. Line(Tail(queue)) /\ Members(Tail(queue)) = Waiting \ {n} /\ n \in Waiting
  BY <1>1, HeadLeaves DEF Pool
<1>3. beat[n] \in Messages /\ (beat[n].kind = "register" => gen[n] < MaxRegisters)
  BY <1>2, ServiceAssumption DEF Waiting, Pool, Types, Progress
<1>4. /\ beat' \in [Nodes -> Messages \cup {None}] /\ beat'[n] = None
      /\ \A k \in Nodes \ {n} : beat'[k] = beat[k]
  BY <1>1 DEF Pool, Types
<1>5. (Types /\ Progress /\ BusyIsInUse /\ Opened)'
  BY <1>1, <1>3, <1>4, TakesPool
<1>6. Waiting' = Waiting \ {n}
  BY <1>1, <1>4, ServiceAssumption DEF Waiting
<1>7. QED
  BY <1>1, <1>2, <1>5, <1>6 DEF Pool, Lines

LEMMA SilencePool ==
  ASSUME Pool, NEW n \in Nodes, Silence(n)
  PROVE  Pool'
<1>1. /\ late' \in [Nodes -> BOOLEAN]
      /\ UNCHANGED <<status, gen, saved, holder, use, beat, queue, pc, on, crashes>>
  BY DEF Silence, Pool, Types, requests
<1>2. Types' /\ Progress' /\ Lines'
  BY <1>1 DEF Pool, Types, Progress, Lines, Waiting, use
<1>3. QED
  BY <1>1, <1>2, SamePool DEF Pool

LEMMA NodeSavedPool == Pool /\ NodeSaved => Pool'
<1> SUFFICES ASSUME Pool, NodeSaved PROVE Pool'
  OBVIOUS
<1>1. /\ saved' \in [Nodes -> Marks] /\ holder' = None
      /\ UNCHANGED <<status, gen, late, use, beat, queue, pc, on, crashes>>
  BY DEF NodeSaved, Pool, Types, requests
<1>2. Types' /\ Progress' /\ Lines'
  BY <1>1 DEF Pool, Types, Progress, Lines, Waiting, use
<1>3. QED
  BY <1>1, <1>2, SamePool DEF Pool

(***************************************************************************)
(* Requests                                                                *)
(***************************************************************************)
\* What a step of request r changes of the invariant: its progress, where it is
\* sent, and the marks of nodes, of which it may only set its own to busy.
LEMMA RequestStep ==
  ASSUME Pool, NEW r \in Requests, UNCHANGED <<gen, late, saved, holder, beat, crashes>>,
         NEW step \in PCs, pc' = [pc EXCEPT ![r] = step],
         status' \in [Nodes -> Marks], marked' \subseteq Nodes, shared' \subseteq Nodes,
         on' \in [Requests -> (Nodes \X Nat) \cup {None}], \A q \in Requests \ {r} : on'[q] = on[q],
         step \in {"busy", "sent", "idle"} => on'[r] \in Nodes \X Nat /\ on'[r][2] <= gen[on'[r][1]],
         \A n \in marked' : status'[n] = "BUSY" =>
           \/ step \in {"sent", "idle"} /\ on'[r] = <<n, gen[n]>>
           \/ n \in marked /\ status[n] = "BUSY" /\ ~(on[r] = <<n, gen[n]>> /\ pc[r] \in {"sent", "idle"})
  PROVE  /\ (Types /\ Progress /\ BusyIsInUse)' /\ pc'[r] = step
         /\ \A q \in Requests \ {r} : pc'[q] = pc[q] /\ \A n \in Nodes : Holds(q, n)' <=> Holds(q, n)
<1>1. pc' \in [Requests -> PCs] /\ pc'[r] = step /\ \A q \in Requests \ {r} : pc'[q] = pc[q]
  BY DEF Pool, Types
<1>2. Types'
  BY <1>1 DEF Pool, Types
<1>3. Progress'
  BY <1>1 DEF Pool, Progress
<1>4. BusyIsInUse'
  <2> SUFFICES ASSUME NEW n \in marked', status'[n] = "BUSY"
               PROVE  \E q \in Requests : on'[q] = <<n, gen'[n]>> /\ pc'[q] \in {"sent", "idle"}
    BY DEF BusyIsInUse
  <2>1. CASE step \in {"sent", "idle"} /\ on'[r] = <<n, gen[n]>>
    BY <1>1, <2>1
  <2>2. CASE n \in marked /\ status[n] = "BUSY" /\ ~(on[r] = <<n, gen[n]>> /\ pc[r] \in {"sent", "idle"})
    <3>1. PICK q \in Requests : on[q] = <<n, gen[n]>> /\ pc[q] \in {"sent", "idle"}
      BY <2>2 DEF Pool, BusyIsInUse
    <3>2. q # r
      BY <2>2, <3>1
    <3>3. QED
      BY <1>1, <3>1, <3>2
  <2>3. QED
    BY <2>1, <2>2
<1>5. \A q \in Requests \ {r} : \A n \in Nodes : Holds(q, n)' <=> Holds(q, n)
  BY <1>1 DEF Holds
<1>6. QED
  BY <1>1, <1>2, <1>3, <1>4, <1>5

\* The line while request r goes from one step to another.
LEMMA RequestWaits ==
  ASSUME Types, NEW r \in Requests, NEW step, pc' = [pc EXCEPT ![r] = step], beat' = beat
  PROVE  Waiting' = IF step \in AtLock THEN Waiting \cup {r} ELSE Waiting \ {r}
<1>1. pc'[r] = step /\ \A q \in Requests \ {r} : pc'[q] = pc[q]
  BY DEF Types
<1>2. QED
  BY <1>1, ServiceAssumption DEF Waiting

\* A request that does not hold its node changes no node.
LEMMA PlainStep ==
  ASSUME Pool, NEW r \in Requests, UNCHANGED <<status, gen, late, saved, holder, use, beat, on, crashes>>,
         NEW step \in PCs, pc' = [pc EXCEPT ![r] = step],
         (step = "idle" /\ pc[r] = "sent") \/ {pc[r], step} \cap {"busy", "sent", "idle"} = {}
  PROVE  (Types /\ Progress /\ BusyIsInUse /\ Opened)'
<1>1. UNCHANGED <<marked, shared>>
  BY DEF use
<1>2. CASE step = "idle" /\ pc[r] = "sent"
  <2>1. on[r] \in Nodes \X Nat /\ on[r][2] <= gen[on[r][1]]
    BY <1>2 DEF Pool, Progress
  <2>2. \A n \in marked' : status'[n] = "BUSY" =>
          \/ step \in {"sent", "idle"} /\ on'[r] = <<n, gen[n]>>
          \/ n \in marked /\ status[n] = "BUSY" /\ ~(on[r] = <<n, gen[n]>> /\ pc[r] \in {"sent", "idle"})
    BY <1>1, <1>2
  <2>3. /\ (Types /\ Progress /\ BusyIsInUse)' /\ pc'[r] = step
        /\ \A q \in Requests \ {r} : pc'[q] = pc[q] /\ \A n \in Nodes : Holds(q, n)' <=> Holds(q, n)
    BY <1>1, <2>1, <2>2, RequestStep DEF Pool, Types
  <2>4. \A q \in Requests, n \in Nodes : Holds(q, n)' <=> Holds(q, n)
    BY <1>2, <2>3 DEF Holds
  <2>5. SharedOnceOpened'
    BY <1>1, <2>4 DEF Pool, Opened, SharedOnceOpened
  <2>6. HeldIsNotIdle'
    BY <1>1, <1>2, <2>3, <2>4 DEF Pool, Opened, HeldIsNotIdle
  <2>7. QED
    BY <2>3, <2>5, <2>6 DEF Opened
<1>3. CASE {pc[r], step} \cap {"busy", "sent", "idle"} = {}
  <2>1. step \notin {"busy", "sent", "idle"} /\ pc[r] \notin {"busy", "sent", "idle"}
    BY <1>3
  <2>2. \A n \in marked' : status'[n] = "BUSY" =>
           n \in marked /\ status[n] = "BUSY" /\ ~(on[r] = <<n, gen[n]>> /\ pc[r] \in {"sent", "idle"})
    BY <1>1, <2>1
  <2>3. (Types /\ Progress /\ BusyIsInUse)' /\ pc'[r] = step /\ \A q \in Requests \ {r} : pc'[q] = pc[q]
    BY <1>1, <2>1, <2>2, RequestStep DEF Pool, Types
  <2>4. Opened'
    BY <2>1, <2>3, SamePool
  <2>5. QED
    BY <2>3, <2>4
<1>4. QED
  BY <1>2, <1>3

LEMMA RefusePool ==
  ASSUME Pool, NEW r \in Requests, Refuse(r)
  PROVE  Pool'
<1>1. /\ pc[r] = "new" /\ pc' = [pc EXCEPT ![r] = "refused"] /\ queue' = queue
      /\ UNCHANGED <<status, gen, late, saved, holder, use, beat, on, crashes>>
  BY DEF Refuse, pool
<1>2. (Types /\ Progress /\ BusyIsInUse /\ Opened)'
  BY <1>1, PlainStep DEF PCs, Ended
<1>3. Waiting' = Waiting \ {r} /\ r \notin Waiting
  BY <1>1, RequestWaits, ServiceAssumption DEF Pool, Waiting, AtLock
<1>4. QED
  BY <1>1, <1>2, <1>3 DEF Pool, Lines

\* The choice of a node, by a request that is not in the line any more.
LEMMA SelectPool ==
  ASSUME Pool, NEW r \in Requests, pc[r] \in {"new", "select"}, NEW rest, SelectThen(r, rest),
         Line(rest), Members(rest) = Waiting \ {r},
         UNCHANGED <<gen, late, saved, holder, beat, crashes>>
  PROVE  Pool'
<1>1. /\ Cleaned \in [Nodes -> Marks]
      /\ \A n \in Nodes : Cleaned[n] \in {"IDLE", "BUSY"} => status[n] = Cleaned[n]
  BY DEF Cleaned, Pool, Types, Marks, Statuses
<1>2. \A n \in Nodes : ~Holds(r, n)
  BY DEF Holds
<1>3. CASE status' = Cleaned /\ queue' = rest /\ pc' = [pc EXCEPT ![r] = "failed"] /\ UNCHANGED <<on, use>>
  <2>1. UNCHANGED <<marked, shared>>
    BY <1>3 DEF use
  <2>2. "failed" \in PCs /\ "failed" \notin {"busy", "sent", "idle"}
    BY DEF PCs, Ended
  <2>3. \A n \in marked' : status'[n] = "BUSY" =>
          n \in marked /\ status[n] = "BUSY" /\ ~(on[r] = <<n, gen[n]>> /\ pc[r] \in {"sent", "idle"})
    BY <1>1, <1>3, <2>1 DEF Pool, Types
  <2>4. /\ (Types /\ Progress /\ BusyIsInUse)' /\ pc'[r] = "failed"
        /\ \A q \in Requests \ {r} : pc'[q] = pc[q] /\ \A n \in Nodes : Holds(q, n)' <=> Holds(q, n)
    BY <1>1, <1>3, <2>1, <2>2, <2>3, RequestStep DEF Pool, Types
  <2>5. \A q \in Requests, n \in Nodes : Holds(q, n)' => Holds(q, n) /\ pc'[q] = pc[q]
    BY <2>4 DEF Holds
  <2>6. Opened'
    BY <1>1, <1>3, <2>1, <2>5 DEF Pool, Opened, SharedOnceOpened, HeldIsNotIdle
  <2>7. Waiting' = Waiting \ {r}
    BY <1>3, RequestWaits DEF Pool, AtLock
  <2>8. QED
    BY <1>3, <2>4, <2>6, <2>7 DEF Pool, Lines
<1>4. ASSUME NEW n \in Nodes, Cleaned[n] = "IDLE", NEW step \in {"sent", "busy"},
             on' = [on EXCEPT ![r] = <<n, gen[n]>>], pc' = [pc EXCEPT ![r] = step],
             shared' = IF \E q \in Requests : Holds(q, n) /\ pc[q] = "busy" THEN shared \cup {n} ELSE shared,
             step = "sent" => status' = [Cleaned EXCEPT ![n] = "BUSY"] /\ marked' = marked \cup {n},
             step = "busy" => status' = Cleaned /\ marked' = marked
      PROVE  (Types /\ Progress /\ BusyIsInUse /\ Opened)'
  <2>1. /\ on' \in [Requests -> (Nodes \X Nat) \cup {None}] /\ on'[r] = <<n, gen[n]>>
        /\ \A q \in Requests \ {r} : on'[q] = on[q]
    BY <1>4 DEF Pool, Types
  <2>2. on'[r] \in Nodes \X Nat /\ on'[r][2] <= gen[on'[r][1]]
    BY <2>1 DEF Pool, Types
  <2>3. /\ status' \in [Nodes -> Marks] /\ (\A k \in Nodes \ {n} : status'[k] = Cleaned[k])
        /\ (step = "sent" => status'[n] = "BUSY") /\ (step = "busy" => status'[n] = "IDLE")
    BY <1>1, <1>4 DEF Marks, Statuses
  <2>4. marked' \subseteq Nodes /\ marked' \subseteq marked \cup {n} /\ shared' \subseteq Nodes /\ shared \subseteq shared'
    BY <1>4 DEF Pool, Types
  <2>5. \A k \in marked' : status'[k] = "BUSY" =>
          \/ step \in {"sent", "idle"} /\ on'[r] = <<k, gen[k]>>
          \/ k \in marked /\ status[k] = "BUSY" /\ ~(on[r] = <<k, gen[k]>> /\ pc[r] \in {"sent", "idle"})
    <3> SUFFICES ASSUME NEW k \in marked', status'[k] = "BUSY"
                 PROVE  \/ step \in {"sent", "idle"} /\ on'[r] = <<k, gen[k]>>
                        \/ k \in marked /\ status[k] = "BUSY"
      OBVIOUS
    <3>1. CASE k = n
      BY <1>4, <2>1, <2>3, <3>1
    <3>2. CASE k # n
      BY <1>1, <2>3, <2>4, <3>2
    <3>3. QED
      BY <3>1, <3>2
  <2>6. step \in PCs
    BY DEF PCs, AtLock
  <2>7. /\ (Types /\ Progress /\ BusyIsInUse)' /\ pc'[r] = step
        /\ \A q \in Requests \ {r} : pc'[q] = pc[q] /\ \A k \in Nodes : Holds(q, k)' <=> Holds(q, k)
    BY <1>4, <2>1, <2>2, <2>3, <2>4, <2>5, <2>6, RequestStep
  <2>8. status[n] = "IDLE"
    BY <1>1, <1>4
  <2>9. ASSUME n \notin shared', NEW q \in Requests, Holds(q, n)' PROVE q = r
    <3>1. SUFFICES ASSUME q # r PROVE FALSE
      OBVIOUS
    <3>2. Holds(q, n)
      BY <2>7, <2>9, <3>1
    <3>3. pc[q] \in {"sent", "idle"} /\ n \notin shared
      BY <1>4, <2>9, <3>2 DEF Holds
    <3>4. QED
      BY <2>8, <3>2, <3>3 DEF Pool, Opened, HeldIsNotIdle
  <2>10. ASSUME NEW k \in Nodes \ {n}, NEW q \in Requests, Holds(q, k)'
         PROVE  Holds(q, k) /\ pc'[q] = pc[q] /\ q # r
    <3>1. on'[q] = <<k, gen[k]>>
      BY <2>10 DEF Holds
    <3>2. q # r
      BY <2>1, <3>1
    <3>3. QED
      BY <2>7, <2>10, <3>2
  <2>11. SharedOnceOpened'
    <3> SUFFICES ASSUME NEW k \in Nodes, k \notin shared', NEW q \in Requests, NEW p \in Requests,
                        Holds(q, k)', Holds(p, k)'
                 PROVE  q = p
      BY DEF SharedOnceOpened
    <3>1. CASE k = n
      BY <2>9, <3>1
    <3>2. CASE k # n
      BY <2>4, <2>10, <3>2 DEF Pool, Opened, SharedOnceOpened
    <3>3. QED
      BY <3>1, <3>2
  <2>12. HeldIsNotIdle'
    <3> SUFFICES ASSUME NEW k \in Nodes, k \notin shared', NEW q \in Requests, Holds(q, k)', pc'[q] \in {"sent", "idle"}
                 PROVE  status'[k] # "IDLE"
      BY DEF HeldIsNotIdle
    <3>1. CASE k = n
      BY <2>3, <2>7, <2>9, <3>1
    <3>2. CASE k # n
      BY <1>1, <2>3, <2>4, <2>10, <3>2 DEF Pool, Opened, HeldIsNotIdle
    <3>3. QED
      BY <3>1, <3>2
  <2>13. QED
    BY <2>7, <2>11, <2>12 DEF Opened
<1>5. ASSUME NEW n \in Nodes, Available(Cleaned[n]), on' = [on EXCEPT ![r] = <<n, gen[n]>>],
             shared' = IF \E q \in Requests : Holds(q, n) /\ pc[q] = "busy" THEN shared \cup {n} ELSE shared,
             status' = [Cleaned EXCEPT ![n] = "BUSY"], marked' = marked \cup {n},
             queue' = rest, pc' = [pc EXCEPT ![r] = "sent"]
      PROVE  Pool'
  <2>1. (Types /\ Progress /\ BusyIsInUse /\ Opened)'
    <3>1. Cleaned[n] = "IDLE"
      BY <1>5 DEF Available
    <3>2. "sent" \in {"sent", "busy"} /\ "sent" # "busy"
      OBVIOUS
    <3>3. QED
      BY <1>4, <1>5, <3>1, <3>2
  <2>2. Waiting' = Waiting \ {r}
    BY <1>5, RequestWaits DEF Pool, AtLock
  <2>3. QED
    BY <1>5, <2>1, <2>2 DEF Pool, Lines
<1>6. ASSUME NEW n \in Nodes, Available(Cleaned[n]), on' = [on EXCEPT ![r] = <<n, gen[n]>>],
             shared' = IF \E q \in Requests : Holds(q, n) /\ pc[q] = "busy" THEN shared \cup {n} ELSE shared,
             status' = Cleaned, UNCHANGED marked, queue' = Append(rest, r), pc' = [pc EXCEPT ![r] = "busy"]
      PROVE  Pool'
  <2>1. (Types /\ Progress /\ BusyIsInUse /\ Opened)'
    <3>1. Cleaned[n] = "IDLE"
      BY <1>6 DEF Available
    <3>2. "busy" \in {"sent", "busy"} /\ "sent" # "busy"
      OBVIOUS
    <3>3. QED
      BY <1>4, <1>6, <3>1, <3>2
  <2>2. Waiting' = Waiting \cup {r}
    BY <1>6, RequestWaits DEF Pool, AtLock
  <2>3. Line(queue') /\ Members(queue') = (Waiting \ {r}) \cup {r}
    BY <1>6, LineGrows
  <2>4. QED
    BY <2>1, <2>2, <2>3 DEF Pool, Lines
<1>7. QED
  BY <1>3, <1>5, <1>6 DEF SelectThen

LEMMA ArrivePool ==
  ASSUME Pool, NEW r \in Requests, Arrive(r)
  PROVE  Pool'
<1>1. pc[r] = "new" /\ UNCHANGED <<gen, late, saved, holder, beat, crashes>>
  BY DEF Arrive
<1>2. r \notin Waiting
  BY <1>1, ServiceAssumption DEF Waiting, AtLock
<1>3. CASE Free /\ SelectThen(r, queue)
  <2>1. Line(queue) /\ Members(queue) = Waiting \ {r}
    BY <1>2 DEF Pool, Lines
  <2>2. QED
    BY <1>1, <1>3, <2>1, SelectPool
<1>4. CASE LineUp(r) /\ pc' = [pc EXCEPT ![r] = "select"] /\ UNCHANGED <<status, on, use>>
  <2>1. "select" \in PCs /\ {pc[r], "select"} \cap {"busy", "sent", "idle"} = {}
    BY <1>1 DEF PCs, AtLock
  <2>2. (Types /\ Progress /\ BusyIsInUse /\ Opened)'
    BY <1>1, <1>4, <2>1, PlainStep
  <2>3. Waiting' = Waiting \cup {r}
    BY <1>1, <1>4, RequestWaits DEF Pool, AtLock
  <2>4. QED
    BY <1>2, <1>4, <2>2, <2>3, LineGrows DEF LineUp, Pool, Lines
<1>5. QED
  BY <1>3, <1>4 DEF Arrive

LEMMA SelectTurnPool ==
  ASSUME Pool, NEW r \in Requests, Select(r)
  PROVE  Pool'
<1>1. Line(Tail(queue)) /\ Members(Tail(queue)) = Waiting \ {r}
  BY HeadLeaves DEF Select, Pool
<1>2. QED
  BY <1>1, SelectPool DEF Select

\* set_busy and set_idle mark the node of the request and no other.
LEMMA MarkEffect ==
  ASSUME Types, NEW r \in Requests, on[r] \in Nodes \X Nat, NEW s \in {"IDLE", "BUSY"}, Mark(r, s)
  PROVE  /\ status' \in [Nodes -> Marks] /\ marked' \subseteq Nodes
         /\ \A n \in Nodes : /\ status'[n] = IF on[r] = <<n, gen[n]>> THEN s ELSE status[n]
                             /\ n \in marked' => (n \in marked \/ s = "BUSY") /\ (on[r] = <<n, gen[n]>> => s = "BUSY")
                             /\ n \in marked' /\ on[r] # <<n, gen[n]>> => n \in marked
<1>1. PICK m \in Nodes, g \in Nat : on[r] = <<m, g>>
  OBVIOUS
<1>2. on[r][1] = m /\ on[r][2] = g
  BY <1>1
<1>3. \A n \in Nodes : on[r] = <<n, gen[n]>> <=> n = m /\ gen[m] = g
  BY <1>1
<1>4. CASE gen[m] = g
  <2>1. status' = [status EXCEPT ![m] = s] /\ marked' = IF s = "BUSY" THEN marked \cup {m} ELSE marked \ {m}
    BY <1>2, <1>4 DEF Mark, Sets
  <2>2. status' \in [Nodes -> Marks] /\ marked' \subseteq Nodes
    BY <2>1 DEF Types, Marks, Statuses
  <2>3. QED
    BY <1>3, <1>4, <2>1, <2>2 DEF Types
<1>5. CASE gen[m] # g
  BY <1>2, <1>3, <1>5 DEF Mark, Types
<1>6. QED
  BY <1>4, <1>5

LEMMA SetBusyPool ==
  ASSUME Pool, NEW r \in Requests, SetBusy(r)
  PROVE  Pool'
<1>1. /\ pc[r] = "busy" /\ Turn(r) /\ Mark(r, "BUSY") /\ queue' = Tail(queue)
      /\ pc' = [pc EXCEPT ![r] = "sent"]
      /\ UNCHANGED <<gen, late, saved, holder, shared, beat, on, crashes>>
  BY DEF SetBusy
<1>2. on[r] \in Nodes \X Nat /\ on[r][2] <= gen[on[r][1]]
  BY <1>1 DEF Pool, Progress
<1>3. /\ status' \in [Nodes -> Marks] /\ marked' \subseteq Nodes
      /\ \A n \in Nodes : /\ status'[n] = IF on[r] = <<n, gen[n]>> THEN "BUSY" ELSE status[n]
                          /\ n \in marked' /\ on[r] # <<n, gen[n]>> => n \in marked
  BY <1>1, <1>2, MarkEffect DEF Pool
<1>4. /\ (Types /\ Progress /\ BusyIsInUse)' /\ pc'[r] = "sent"
      /\ \A q \in Requests \ {r} : pc'[q] = pc[q] /\ \A n \in Nodes : Holds(q, n)' <=> Holds(q, n)
  <2>1. "sent" \in PCs /\ on' \in [Requests -> (Nodes \X Nat) \cup {None}] /\ shared' \subseteq Nodes
    BY <1>1 DEF PCs, Pool, Types
  <2>2. \A n \in marked' : status'[n] = "BUSY" =>
          \/ on'[r] = <<n, gen[n]>>
          \/ n \in marked /\ status[n] = "BUSY" /\ ~(on[r] = <<n, gen[n]>> /\ pc[r] \in {"sent", "idle"})
    BY <1>1, <1>3
  <2>3. QED
    BY <1>1, <1>2, <1>3, <2>1, <2>2, RequestStep
<1>5. \A q \in Requests, n \in Nodes : Holds(q, n)' <=> Holds(q, n)
  BY <1>1, <1>4 DEF Holds
<1>6. SharedOnceOpened'
  BY <1>1, <1>5 DEF Pool, Opened, SharedOnceOpened
<1>7. HeldIsNotIdle'
  <2> SUFFICES ASSUME NEW n \in Nodes, n \notin shared', NEW q \in Requests, Holds(q, n)', pc'[q] \in {"sent", "idle"}
               PROVE  status'[n] # "IDLE"
    BY DEF HeldIsNotIdle
  <2>1. CASE on[r] = <<n, gen[n]>>
    BY <1>3, <2>1
  <2>2. CASE on[r] # <<n, gen[n]>>
    <3>1. q # r
      BY <1>1, <2>2 DEF Holds
    <3>2. QED
      BY <1>1, <1>3, <1>4, <2>2, <3>1 DEF Pool, Opened, HeldIsNotIdle
  <2>3. QED
    BY <2>1, <2>2
<1>8. Waiting' = Waiting \ {r}
  BY <1>1, RequestWaits DEF Pool, AtLock
<1>9. QED
  BY <1>1, <1>4, <1>6, <1>7, <1>8, HeadLeaves DEF Pool, Lines, Opened

\* The node of r is idle again, and r goes on with the line it leaves.
LEMMA FreesPool ==
  ASSUME Pool, NEW r \in Requests, pc[r] \in {"sent", "idle"}, NEW answered, Frees(r, answered),
         Line(queue'), Members(queue') = Waiting \ {r},
         UNCHANGED <<gen, late, saved, holder, beat, crashes>>
  PROVE  Pool'
<1>1. PICK step \in {"load", "failed"} : pc' = [pc EXCEPT ![r] = step]
  BY DEF Frees
<1>2. on[r] \in Nodes \X Nat
  BY DEF Pool, Progress
<1>3. Mark(r, "IDLE") /\ shared' = {n \in shared : \E q \in Requests \ {r} : Holds(q, n)} /\ on' = [on EXCEPT ![r] = None]
  BY DEF Frees
<1>4. /\ status' \in [Nodes -> Marks] /\ marked' \subseteq Nodes
      /\ \A n \in Nodes : /\ status'[n] = IF on[r] = <<n, gen[n]>> THEN "IDLE" ELSE status[n]
                          /\ n \in marked' => n \in marked /\ on[r] # <<n, gen[n]>>
  BY <1>2, <1>3, MarkEffect DEF Pool
<1>5. /\ on' \in [Requests -> (Nodes \X Nat) \cup {None}] /\ \A q \in Requests \ {r} : on'[q] = on[q]
  BY <1>3 DEF Pool, Types
<1>6. step \in PCs /\ step \notin {"busy", "sent", "idle"} /\ step \notin AtLock
  BY <1>1 DEF PCs, Ended, AtLock
<1>7. /\ (Types /\ Progress /\ BusyIsInUse)' /\ pc'[r] = step
      /\ \A q \in Requests \ {r} : pc'[q] = pc[q] /\ \A n \in Nodes : Holds(q, n)' <=> Holds(q, n)
  <2>1. \A n \in marked' : status'[n] = "BUSY" =>
          n \in marked /\ status[n] = "BUSY" /\ ~(on[r] = <<n, gen[n]>> /\ pc[r] \in {"sent", "idle"})
    BY <1>4
  <2>2. shared' \subseteq Nodes
    BY <1>3 DEF Pool, Types
  <2>3. QED
    BY <1>1, <1>4, <1>5, <1>6, <2>1, <2>2, RequestStep
<1>8. ASSUME NEW n \in Nodes, NEW q \in Requests, Holds(q, n)', n \notin shared'
      PROVE  q # r /\ Holds(q, n) /\ n \notin shared /\ pc'[q] = pc[q]
  <2>1. q # r
    BY <1>6, <1>7, <1>8 DEF Holds
  <2>2. Holds(q, n) /\ pc'[q] = pc[q]
    BY <1>7, <1>8, <2>1
  <2>3. n \notin shared
    BY <1>3, <1>8, <2>1, <2>2
  <2>4. QED
    BY <2>1, <2>2, <2>3
<1>9. SharedOnceOpened'
  BY <1>8 DEF Pool, Opened, SharedOnceOpened
<1>10. HeldIsNotIdle'
  <2> SUFFICES ASSUME NEW n \in Nodes, n \notin shared', NEW q \in Requests, Holds(q, n)', pc'[q] \in {"sent", "idle"}
               PROVE  status'[n] # "IDLE"
    BY DEF HeldIsNotIdle
  <2>1. q # r /\ Holds(q, n) /\ n \notin shared /\ pc[q] \in {"sent", "idle"}
    BY <1>8
  <2>2. ~Holds(r, n)
    BY <2>1 DEF Pool, Opened, SharedOnceOpened
  <2>3. on[r] # <<n, gen[n]>>
    BY <2>2 DEF Holds
  <2>4. QED
    BY <1>4, <2>1, <2>3 DEF Pool, Opened, HeldIsNotIdle
<1>11. Waiting' = Waiting \ {r}
  BY <1>1, <1>6, RequestWaits DEF Pool
<1>12. QED
  BY <1>7, <1>9, <1>10, <1>11 DEF Pool, Lines, Opened

LEMMA AnswerPool ==
  ASSUME Pool, NEW r \in Requests, NEW answered, Answer(r, answered)
  PROVE  Pool'
<1>1. pc[r] = "sent" /\ UNCHANGED <<gen, late, saved, holder, beat, crashes>>
  BY DEF Answer
<1>2. r \notin Waiting
  BY <1>1, ServiceAssumption DEF Waiting, AtLock
<1>3. CASE Free /\ Frees(r, answered) /\ UNCHANGED queue
  <2>1. Line(queue') /\ Members(queue') = Waiting \ {r}
    BY <1>2, <1>3 DEF Pool, Lines
  <2>2. QED
    BY <1>1, <1>3, <2>1, FreesPool
<1>4. CASE LineUp(r) /\ pc' = [pc EXCEPT ![r] = "idle"] /\ UNCHANGED <<status, use, on>>
  <2>1. "idle" \in PCs
    BY DEF PCs, AtLock
  <2>2. (Types /\ Progress /\ BusyIsInUse /\ Opened)'
    BY <1>1, <1>4, <2>1, PlainStep
  <2>3. Waiting' = Waiting \cup {r}
    BY <1>1, <1>4, RequestWaits DEF Pool, AtLock
  <2>4. QED
    BY <1>2, <1>4, <2>2, <2>3, LineGrows DEF LineUp, Pool, Lines
<1>5. QED
  BY <1>3, <1>4 DEF Answer

LEMMA SetIdlePool ==
  ASSUME Pool, NEW r \in Requests, SetIdle(r)
  PROVE  Pool'
<1>1. /\ pc[r] = "idle" /\ Turn(r) /\ queue' = Tail(queue) /\ Frees(r, r \in ok)
      /\ UNCHANGED <<gen, late, saved, holder, beat, crashes>>
  BY DEF SetIdle
<1>2. Line(queue') /\ Members(queue') = Waiting \ {r}
  BY <1>1, HeadLeaves DEF Pool
<1>3. QED
  BY <1>1, <1>2, FreesPool

\* What comes after the answer leaves the pool alone.
LEMMA PaidPool ==
  ASSUME Pool, NEW r \in Requests, Charge(r) \/ Book(r)
  PROVE  Pool'
<1>1. UNCHANGED <<pool, queue, on, crashes>>
  BY DEF Charge, Book
<1>2. PICK step \in {"save", "book", "done"} : pc[r] \in {"load", "save", "book"} /\ pc' = [pc EXCEPT ![r] = step]
  BY DEF Charge, Book, Pool, Types
<1>3. step \in PCs /\ {pc[r], step} \cap {"busy", "sent", "idle"} = {} /\ step \notin AtLock
  BY <1>2 DEF PCs, Ended, AtLock
<1>4. (Types /\ Progress /\ BusyIsInUse /\ Opened)'
  BY <1>1, <1>2, <1>3, PlainStep DEF pool
<1>5. Waiting' = Waiting \ {r} /\ r \notin Waiting
  BY <1>1, <1>2, <1>3, RequestWaits, ServiceAssumption DEF Pool, Waiting, AtLock, pool
<1>6. QED
  BY <1>1, <1>4, <1>5 DEF Pool, Lines

LEMMA CrashPool == Pool /\ Crash => Pool'
<1> SUFFICES ASSUME Pool, Crash PROVE Pool'
  OBVIOUS
<1>1. /\ status' = saved /\ marked' = {} /\ shared' = {} /\ holder' = None /\ queue' = <<>>
      /\ beat' = [n \in Nodes |-> None] /\ on' = [r \in Requests |-> None] /\ UNCHANGED <<gen, late, saved>>
  BY DEF Crash
<1>2. /\ pc' \in [Requests -> PCs] /\ \A r \in Requests : pc'[r] \in Ended \cup {"new"}
  BY DEF Crash, Ended, PCs
<1>3. crashes' \in Nat /\ crashes' <= MaxCrashes
  BY ServiceAssumption DEF Crash, Pool, Types
<1>4. Types'
  BY <1>1, <1>2, <1>3 DEF Pool, Types
<1>5. \A r \in Requests : pc'[r] \notin {"busy", "sent", "idle"} /\ pc'[r] \notin AtLock
  BY <1>2 DEF Ended, AtLock
<1>6. Progress'
  BY <1>1, <1>5 DEF Pool, Progress
<1>7. BusyIsInUse' /\ Opened'
  BY <1>1, <1>5 DEF BusyIsInUse, Opened, SharedOnceOpened, HeldIsNotIdle, Holds
<1>8. Waiting' = {}
  BY <1>1, <1>5 DEF Waiting
<1>9. QED
  BY <1>1, <1>4, <1>6, <1>7, <1>8, EmptyLine DEF Pool, Lines

LEMMA StutterPool == Pool /\ UNCHANGED <<pool, queue, pc, on, crashes>> => Pool'
<1> SUFFICES ASSUME Pool, UNCHANGED <<pool, queue, pc, on, crashes>> PROVE Pool'
  OBVIOUS
<1>1. Types' /\ Progress' /\ Lines'
  BY DEF Pool, Types, Progress, Lines, Waiting, pool, use
<1>2. QED
  BY <1>1, SamePool DEF Pool, pool

LEMMA NextPool == Pool /\ [Next]_vars => Pool'
<1> SUFFICES ASSUME Pool, [Next]_vars PROVE Pool'
  OBVIOUS
<1>1. ASSUME NEW n \in Nodes, MessageTurn(n) \/ Silence(n) \/ \E m \in Messages : Message(n, m)
      PROVE  Pool'
  BY <1>1, MessagePool, MessageTurnPool, SilencePool
<1>2. CASE NodeSaved \/ Crash
  BY <1>2, NodeSavedPool, CrashPool
<1>3. ASSUME NEW r \in Requests, Serve(r)
      PROVE  Pool'
  BY <1>3, RefusePool, ArrivePool, SelectTurnPool, SetBusyPool, AnswerPool, SetIdlePool, PaidPool DEF Serve
<1>4. ASSUME NEW d \in Deposits, Deposit(d)
      PROVE  Pool'
  BY <1>4, StutterPool DEF Deposit, requests
<1>5. CASE UNCHANGED vars
  BY <1>5, StutterPool DEF vars, requests
<1>6. QED
  BY <1>1, <1>2, <1>3, <1>4, <1>5 DEF Next

(***************************************************************************)
(* Part II: the accounts                                                   *)
(***************************************************************************)
MoneyTypes ==
  /\ ok \subseteq Requests /\ booked \in [Requests -> Nat] /\ (\A r \in Requests : booked[r] <= 3)
  /\ account \in [Users -> Account] /\ copy \in [Tasks -> Account \cup {None}]
  /\ paying \in [Deposits -> {"new", "save", "done", "lost"}]
  /\ kept \in [Users -> SUBSET Tasks] /\ seen \in [Tasks -> SUBSET Tasks] /\ overlapped \subseteq Tasks

\* Only an answered request is charged, and one that is charged goes through the ledgers.
Answers ==
  \A r \in Requests :
    /\ r \in ok => pc[r] \in {"idle", "load", "save", "book", "done", "lost"}
    /\ pc[r] \in {"load", "save", "book", "done"} => r \in ok
    /\ pc[r] = "book" => booked[r] < 3
    /\ booked[r] > 0 => pc[r] \in {"book", "done", "lost"}

\* What may be in the row of user u, what has to be there, and what it is worth.
Written(u) ==
  {r \in ok : pc[r] \in {"book", "done", "lost"} /\ UserOf[r] = u} \cup {d \in Deposits : paying[d] = "done" /\ DepositOf[d] = u}
Done(u) ==
  {r \in Requests : pc[r] \in {"book", "done"} /\ UserOf[r] = u} \cup {d \in Deposits : paying[d] = "done" /\ DepositOf[d] = u}
Total(S) == SumFunction([t \in S |-> Effect(t)])
Says(a, S) == IsFiniteSet(S) /\ a.vibe - a.owed = Start + Total(S)

\* A row and every copy of it say what they account for; of two tasks that have
\* read and not yet written it, both are overlapped; and what has been done and
\* was not overlapped is accounted for in the row and in every copy.
Books(u) ==
  /\ kept[u] \subseteq Written(u) /\ Says(account[u], kept[u])
  /\ \A t \in Underway(u) : copy[t] \in Account /\ seen[t] \subseteq Written(u) /\ Says(copy[t], seen[t])
  /\ \A t, s \in Underway(u) : t # s => t \in overlapped
  /\ \A x \in Done(u) \ overlapped : x \in kept[u] /\ \A t \in Underway(u) : x \in seen[t]

Money == MoneyTypes /\ Answers /\ \A u \in Users : Books(u)
IInv == Pool /\ Money

LEMMA EffectType == \A t \in Tasks : Effect(t) \in Int
  BY ServiceAssumption DEF Effect, Tasks

LEMMA TotalGrows ==
  ASSUME NEW S, IsFiniteSet(S), S \subseteq Tasks, NEW t \in Tasks, t \notin S
  PROVE  IsFiniteSet(S \cup {t}) /\ Total(S \cup {t}) = Total(S) + Effect(t)
<1> DEFINE f == [x \in S |-> Effect(x)]
           g == [x \in S \cup {t} |-> Effect(x)]
<1>1. /\ DOMAIN f = S /\ DOMAIN g = DOMAIN f \cup {t} /\ g[t] = Effect(t) /\ g[t] \in Int
      /\ \A x \in DOMAIN f : g[x] = f[x] /\ f[x] \in Int
  BY EffectType
<1>2. Total(S) = SumFunction(f) /\ Total(S \cup {t}) = SumFunction(g)
  BY DEF Total
<1> HIDE DEF f, g
<1>3. SumFunction(g) = SumFunction(f) + g[t]
  BY <1>1, SumFunctionGrows
<1>4. QED
  BY <1>1, <1>2, <1>3, FS_AddElement

LEMMA TotalType ==
  ASSUME NEW S, IsFiniteSet(S), S \subseteq Tasks
  PROVE  Total(S) \in Int
<1> DEFINE f == [x \in S |-> Effect(x)]
<1>1. DOMAIN f = S /\ \A x \in S : f[x] \in Int
  BY EffectType
<1>2. Total(S) = SumFunction(f)
  BY DEF Total
<1> HIDE DEF f
<1>3. QED
  BY <1>1, <1>2, SumDomain, SumType

LEMMA WrittenTasks == MoneyTypes => \A u : Written(u) \subseteq Tasks /\ Done(u) \subseteq Tasks /\ Underway(u) \subseteq Tasks
  BY DEF MoneyTypes, Written, Done, Underway, Tasks

\* A balance that becomes that of one more task.
LEMMA SaysMore ==
  ASSUME NEW a \in Account, NEW b \in Account, NEW S, Says(a, S), S \subseteq Tasks, NEW t \in Tasks, t \notin S,
         b.vibe - b.owed = a.vibe - a.owed + Effect(t)
  PROVE  Says(b, S \cup {t})
<1>1. Total(S) \in Int /\ Effect(t) \in Int /\ Start \in Int
  BY TotalType, EffectType, ServiceAssumption DEF Says
<1>2. Total(S \cup {t}) = Total(S) + Effect(t) /\ IsFiniteSet(S \cup {t})
  BY TotalGrows DEF Says
<1>3. QED
  BY <1>1, <1>2 DEF Says

LEMMA ChargedType ==
  ASSUME NEW a \in Account, NEW c \in Nat
  PROVE  Charged(a, c) \in Account /\ Charged(a, c).vibe - Charged(a, c).owed = a.vibe - a.owed - c
<1>1. a.vibe \in Nat /\ a.owed \in Nat
  BY DEF Account
<1>2. CASE a.vibe >= c + a.owed
  BY <1>1, <1>2 DEF Charged, Account
<1>3. CASE ~(a.vibe >= c + a.owed)
  BY <1>1, <1>3 DEF Charged, Account
<1>4. QED
  BY <1>2, <1>3

\* A step that touches nothing of user u, though a copy of its row may be lost.
LEMMA SameBooks ==
  ASSUME NEW u \in Users, Books(u), account'[u] = account[u], kept'[u] = kept[u], overlapped \subseteq overlapped',
         Underway(u)' \subseteq Underway(u), Written(u) \subseteq Written(u)', Done(u)' \subseteq Done(u),
         \A t \in Underway(u)' : copy'[t] = copy[t] /\ seen'[t] = seen[t]
  PROVE  Books(u)'
<1>1. kept'[u] \subseteq Written(u)' /\ Says(account'[u], kept'[u])
  BY DEF Books
<1>2. \A t \in Underway(u)' : copy'[t] \in Account /\ seen'[t] \subseteq Written(u)' /\ Says(copy'[t], seen'[t])
  BY DEF Books
<1>3. \A t, s \in Underway(u)' : t # s => t \in overlapped'
  BY DEF Books
<1>4. \A x \in Done(u)' \ overlapped' : x \in kept'[u] /\ \A t \in Underway(u)' : x \in seen'[t]
  BY DEF Books
<1>5. QED
  BY <1>1, <1>2, <1>3, <1>4 DEF Books, Says, Total

\* Task t reads the row of u.
LEMMA LoadBooks ==
  ASSUME MoneyTypes, NEW u \in Users, Books(u), NEW t \in Tasks, t \notin Underway(u), LoadBalance(t, u),
         Underway(u)' = Underway(u) \cup {t}, Written(u)' = Written(u), Done(u)' = Done(u)
  PROVE  Books(u)'
<1>1. /\ copy'[t] = account[u] /\ seen'[t] = kept[u] /\ account' = account /\ kept' = kept
      /\ \A s \in Underway(u) : copy'[s] = copy[s] /\ seen'[s] = seen[s]
  BY WrittenTasks DEF LoadBalance, MoneyTypes
<1>2. overlapped \subseteq overlapped' /\ (Underway(u) # {} => Underway(u) \cup {t} \subseteq overlapped')
  BY DEF LoadBalance
<1>3. account[u] \in Account
  BY DEF MoneyTypes
<1>4. kept'[u] \subseteq Written(u)' /\ Says(account'[u], kept'[u])
  BY <1>1 DEF Books
<1>5. \A s \in Underway(u)' : copy'[s] \in Account /\ seen'[s] \subseteq Written(u)' /\ Says(copy'[s], seen'[s])
  BY <1>1, <1>3 DEF Books
<1>6. \A s, x \in Underway(u)' : s # x => s \in overlapped'
  BY <1>2 DEF Books
<1>7. \A x \in Done(u)' \ overlapped' : x \in kept'[u] /\ \A s \in Underway(u)' : x \in seen'[s]
  BY <1>1, <1>2 DEF Books
<1>8. QED
  BY <1>4, <1>5, <1>6, <1>7 DEF Books, Says, Total

\* Task t writes the row of u.
LEMMA SaveBooks ==
  ASSUME MoneyTypes, NEW u \in Users, Books(u), NEW t \in Underway(u), t \notin Written(u), NEW a \in Account,
         a.vibe - a.owed = copy[t].vibe - copy[t].owed + Effect(t), SaveBalance(t, u, a),
         Underway(u)' = Underway(u) \ {t}, Written(u)' = Written(u) \cup {t}, Done(u)' = Done(u) \cup {t}
  PROVE  Books(u)'
<1>1. t \in Tasks /\ Written(u) \subseteq Tasks
  BY WrittenTasks
<1>2. /\ account'[u] = a /\ kept'[u] = seen[t] \cup {t} /\ overlapped' = overlapped
      /\ \A s \in Underway(u)' : copy'[s] = copy[s] /\ seen'[s] = seen[s]
  BY WrittenTasks DEF SaveBalance, MoneyTypes
<1>3. copy[t] \in Account /\ seen[t] \subseteq Written(u) /\ Says(copy[t], seen[t])
  BY DEF Books
<1>4. Says(a, seen[t] \cup {t})
  BY <1>1, <1>3, SaysMore
<1>5. kept'[u] \subseteq Written(u)' /\ Says(account'[u], kept'[u])
  BY <1>2, <1>3, <1>4
<1>6. \A s \in Underway(u)' : copy'[s] \in Account /\ seen'[s] \subseteq Written(u)' /\ Says(copy'[s], seen'[s])
  BY <1>2 DEF Books
<1>7. \A s, x \in Underway(u)' : s # x => s \in overlapped'
  BY <1>2 DEF Books
<1>8. ASSUME NEW x \in Done(u)', x \notin overlapped'
      PROVE  x \in kept'[u] /\ \A s \in Underway(u)' : x \in seen'[s]
  <2>1. CASE x = t
    <3>1. Underway(u)' = {}
      BY <1>2, <1>8, <2>1 DEF Books
    <3>2. QED
      BY <1>2, <2>1, <3>1
  <2>2. CASE x # t
    BY <1>2, <1>8, <2>2 DEF Books
  <2>3. QED
    BY <2>1, <2>2
<1>9. QED
  BY <1>5, <1>6, <1>7, <1>8 DEF Books, Says, Total

\* The types of what a load and a save write.
LEMMA LoadTypes ==
  ASSUME MoneyTypes, NEW t \in Tasks, NEW u \in Users, LoadBalance(t, u), Underway(u) \subseteq Tasks
  PROVE  /\ account' \in [Users -> Account] /\ copy' \in [Tasks -> Account \cup {None}]
         /\ kept' \in [Users -> SUBSET Tasks] /\ seen' \in [Tasks -> SUBSET Tasks] /\ overlapped' \subseteq Tasks
         /\ overlapped \subseteq overlapped' /\ account' = account /\ kept' = kept
         /\ \A s \in Tasks \ {t} : copy'[s] = copy[s] /\ seen'[s] = seen[s]
<1>1. account[u] \in Account /\ kept[u] \subseteq Tasks
  BY DEF MoneyTypes
<1>2. QED
  BY <1>1 DEF MoneyTypes, LoadBalance

LEMMA SaveTypes ==
  ASSUME MoneyTypes, NEW t \in Tasks, NEW u \in Users, NEW a \in Account, SaveBalance(t, u, a)
  PROVE  /\ account' \in [Users -> Account] /\ copy' \in [Tasks -> Account \cup {None}]
         /\ kept' \in [Users -> SUBSET Tasks] /\ seen' \in [Tasks -> SUBSET Tasks] /\ overlapped' = overlapped
         /\ (\A v \in Users \ {u} : account'[v] = account[v] /\ kept'[v] = kept[v])
         /\ \A s \in Tasks \ {t} : copy'[s] = copy[s] /\ seen'[s] = seen[s]
<1>1. seen[t] \cup {t} \subseteq Tasks
  BY DEF MoneyTypes
<1>2. QED
  BY <1>1 DEF MoneyTypes, SaveBalance

\* Request r goes from its answer to the ledgers: what is under way, written and
\* done of the other users is as before.
LEMMA ChargeMoney ==
  ASSUME Types, Money, NEW r \in Requests, Charge(r)
  PROVE  Money'
<1> DEFINE u == UserOf[r]
<1>1. u \in Users /\ Cost[r] \in Nat /\ r \in Tasks /\ r \notin Deposits /\ Effect(r) = 0 - Cost[r]
  BY ServiceAssumption DEF Tasks, Effect
<1>2. UNCHANGED <<ok, booked, paying>> /\ pc[r] \in {"load", "save"} /\ r \in ok
  BY DEF Charge, Money, Answers
<1>3. MoneyTypes /\ Answers /\ Books(u)
  BY <1>1 DEF Money
<1>4. CASE pc[r] = "load" /\ LoadBalance(r, u) /\ pc' = [pc EXCEPT ![r] = "save"]
  <2>1. pc'[r] = "save" /\ \A q \in Requests \ {r} : pc'[q] = pc[q]
    BY <1>4 DEF Types
  <2>2. /\ Underway(u)' = Underway(u) \cup {r} /\ r \notin Underway(u)
        /\ \A v \in Users \ {u} : Underway(v)' = Underway(v)
    BY <1>1, <1>2, <1>4, <2>1 DEF Underway
  <2>3. \A v \in Users : Written(v)' = Written(v) /\ Done(v)' = Done(v)
    BY <1>2, <1>4, <2>1 DEF Written, Done
  <2>4. Books(u)'
    <3> HIDE DEF u
    <3>1. QED
      BY <1>1, <1>3, <1>4, <2>2, <2>3, LoadBooks
  <2>5. /\ account' \in [Users -> Account] /\ copy' \in [Tasks -> Account \cup {None}]
        /\ kept' \in [Users -> SUBSET Tasks] /\ seen' \in [Tasks -> SUBSET Tasks] /\ overlapped' \subseteq Tasks
        /\ overlapped \subseteq overlapped' /\ account' = account /\ kept' = kept
        /\ \A s \in Tasks \ {r} : copy'[s] = copy[s] /\ seen'[s] = seen[s]
    <3> HIDE DEF u
    <3>1. QED
      BY <1>1, <1>3, <1>4, WrittenTasks, LoadTypes
  <2>6. ASSUME NEW v \in Users \ {u} PROVE Books(v)'
    <3>1. \A t \in Underway(v)' : copy'[t] = copy[t] /\ seen'[t] = seen[t]
      BY <1>1, <1>3, <1>4, <2>2, <2>5, <2>6, WrittenTasks DEF Underway
    <3>2. Books(v)
      BY DEF Money
    <3>3. QED
      BY <2>2, <2>3, <2>5, <3>1, <3>2, SameBooks
  <2>7. MoneyTypes'
    BY <1>2, <1>3, <2>5 DEF MoneyTypes
  <2>8. Answers'
    BY <1>2, <1>3, <2>1 DEF Answers
  <2>9. QED
    BY <2>4, <2>6, <2>7, <2>8 DEF Money
<1>5. CASE pc[r] = "save" /\ SaveBalance(r, u, Charged(copy[r], Cost[r])) /\ pc' = [pc EXCEPT ![r] = "book"]
  <2>1. pc'[r] = "book" /\ \A q \in Requests \ {r} : pc'[q] = pc[q]
    BY <1>5 DEF Types
  <2>2. /\ Underway(u)' = Underway(u) \ {r} /\ r \in Underway(u)
        /\ \A v \in Users \ {u} : Underway(v)' = Underway(v) /\ r \notin Underway(v)
    BY <1>1, <1>2, <1>5, <2>1 DEF Underway
  <2>3. /\ Written(u)' = Written(u) \cup {r} /\ r \notin Written(u) /\ Done(u)' = Done(u) \cup {r}
        /\ \A v \in Users \ {u} : Written(v)' = Written(v) /\ Done(v)' = Done(v)
    BY <1>1, <1>2, <1>5, <2>1 DEF Written, Done
  <2>4. copy[r] \in Account
    BY <1>3, <2>2 DEF Books
  <2>5. /\ Charged(copy[r], Cost[r]) \in Account
        /\ Charged(copy[r], Cost[r]).vibe - Charged(copy[r], Cost[r]).owed = copy[r].vibe - copy[r].owed + Effect(r)
    <3> DEFINE a == copy[r]
    <3>1. a \in Account /\ a.vibe \in Nat /\ a.owed \in Nat /\ Cost[r] \in Nat
      BY <1>1, <2>4 DEF Account
    <3> HIDE DEF a
    <3>2. Charged(a, Cost[r]) \in Account /\ Charged(a, Cost[r]).vibe - Charged(a, Cost[r]).owed = a.vibe - a.owed - Cost[r]
      BY <3>1, ChargedType
    <3>3. a.vibe - a.owed - Cost[r] = a.vibe - a.owed + (0 - Cost[r])
      BY <3>1
    <3>4. QED
      BY <1>1, <3>2, <3>3 DEF a
  <2>6. Books(u)'
    <3> HIDE DEF u
    <3>1. QED
      BY <1>1, <1>3, <1>5, <2>2, <2>3, <2>5, SaveBooks
  <2>7. /\ account' \in [Users -> Account] /\ copy' \in [Tasks -> Account \cup {None}]
        /\ kept' \in [Users -> SUBSET Tasks] /\ seen' \in [Tasks -> SUBSET Tasks] /\ overlapped' = overlapped
        /\ (\A v \in Users \ {u} : account'[v] = account[v] /\ kept'[v] = kept[v])
        /\ \A s \in Tasks \ {r} : copy'[s] = copy[s] /\ seen'[s] = seen[s]
    <3> HIDE DEF u
    <3>1. QED
      BY <1>1, <1>3, <1>5, <2>5, SaveTypes
  <2>8. ASSUME NEW v \in Users \ {u} PROVE Books(v)'
    <3>1. \A t \in Underway(v)' : copy'[t] = copy[t] /\ seen'[t] = seen[t]
      BY <1>3, <2>2, <2>7, WrittenTasks
    <3>2. Books(v)
      BY DEF Money
    <3>3. QED
      BY <2>2, <2>3, <2>7, <3>1, <3>2, SameBooks
  <2>9. MoneyTypes'
    BY <1>2, <1>3, <2>7 DEF MoneyTypes
  <2>10. Answers'
    <3>1. booked[r] = 0
      BY <1>3, <1>5 DEF MoneyTypes, Answers
    <3>2. QED
      BY <1>2, <1>3, <2>1, <3>1 DEF Answers
  <2>11. QED
    BY <2>6, <2>8, <2>9, <2>10 DEF Money
<1>6. QED
  BY <1>4, <1>5 DEF Charge

LEMMA DepositMoney ==
  ASSUME Money, NEW d \in Deposits, Deposit(d)
  PROVE  Money'
<1> DEFINE u == DepositOf[d]
<1>1. u \in Users /\ Amount[d] \in Nat /\ d \in Tasks /\ d \notin Requests /\ Effect(d) = Amount[d]
  BY ServiceAssumption DEF Tasks, Effect
<1>2. UNCHANGED <<pc, ok, booked>>
  BY DEF Deposit, requests
<1>3. MoneyTypes /\ Answers /\ Books(u)
  BY <1>1 DEF Money
<1>4. Answers'
  BY <1>2, <1>3 DEF Answers
<1>5. CASE paying[d] = "new" /\ LoadBalance(d, u) /\ paying' = [paying EXCEPT ![d] = "save"]
  <2>1. paying'[d] = "save" /\ \A x \in Deposits \ {d} : paying'[x] = paying[x]
    BY <1>3, <1>5 DEF MoneyTypes
  <2>2. /\ Underway(u)' = Underway(u) \cup {d} /\ d \notin Underway(u)
        /\ \A v \in Users \ {u} : Underway(v)' = Underway(v) /\ d \notin Underway(v)
    BY <1>1, <1>2, <1>5, <2>1 DEF Underway
  <2>3. \A v \in Users : Written(v)' = Written(v) /\ Done(v)' = Done(v)
    BY <1>2, <1>5, <2>1 DEF Written, Done
  <2>4. Books(u)'
    <3> HIDE DEF u
    <3>1. QED
      BY <1>1, <1>3, <1>5, <2>2, <2>3, LoadBooks
  <2>5. /\ account' \in [Users -> Account] /\ copy' \in [Tasks -> Account \cup {None}]
        /\ kept' \in [Users -> SUBSET Tasks] /\ seen' \in [Tasks -> SUBSET Tasks] /\ overlapped' \subseteq Tasks
        /\ overlapped \subseteq overlapped' /\ account' = account /\ kept' = kept
        /\ \A s \in Tasks \ {d} : copy'[s] = copy[s] /\ seen'[s] = seen[s]
    <3> HIDE DEF u
    <3>1. QED
      BY <1>1, <1>3, <1>5, WrittenTasks, LoadTypes
  <2>6. ASSUME NEW v \in Users \ {u} PROVE Books(v)'
    <3>1. \A t \in Underway(v)' : copy'[t] = copy[t] /\ seen'[t] = seen[t]
      BY <1>3, <2>2, <2>5, WrittenTasks
    <3>2. Books(v)
      BY DEF Money
    <3>3. QED
      BY <2>2, <2>3, <2>5, <3>1, <3>2, SameBooks
  <2>7. MoneyTypes'
    <3>1. paying' \in [Deposits -> {"new", "save", "done", "lost"}]
      BY <1>3, <1>5 DEF MoneyTypes
    <3>2. QED
      BY <1>2, <1>3, <2>5, <3>1 DEF MoneyTypes
  <2>8. QED
    BY <1>4, <2>4, <2>6, <2>7 DEF Money
<1>6. CASE /\ paying[d] = "save" /\ SaveBalance(d, u, [copy[d] EXCEPT !.vibe = @ + Amount[d]])
           /\ paying' = [paying EXCEPT ![d] = "done"]
  <2>1. paying'[d] = "done" /\ \A x \in Deposits \ {d} : paying'[x] = paying[x]
    BY <1>3, <1>6 DEF MoneyTypes
  <2>2. /\ Underway(u)' = Underway(u) \ {d} /\ d \in Underway(u)
        /\ \A v \in Users \ {u} : Underway(v)' = Underway(v) /\ d \notin Underway(v)
    BY <1>1, <1>2, <1>6, <2>1 DEF Underway
  <2>3. /\ Written(u)' = Written(u) \cup {d} /\ d \notin Written(u) /\ Done(u)' = Done(u) \cup {d}
        /\ \A v \in Users \ {u} : Written(v)' = Written(v) /\ Done(v)' = Done(v)
    <3>1. d \notin ok
      BY <1>1, <1>3 DEF MoneyTypes
    <3>2. {x \in Deposits : paying'[x] = "done" /\ DepositOf[x] = u} = {x \in Deposits : paying[x] = "done" /\ DepositOf[x] = u} \cup {d}
      BY <1>6, <2>1
    <3>3. \A v \in Users \ {u} : {x \in Deposits : paying'[x] = "done" /\ DepositOf[x] = v} = {x \in Deposits : paying[x] = "done" /\ DepositOf[x] = v}
      BY <1>6, <2>1
    <3>4. QED
      BY <1>2, <1>6, <3>1, <3>2, <3>3 DEF Written, Done
  <2>4. copy[d] \in Account
    BY <1>3, <2>2 DEF Books
  <2>5. /\ [copy[d] EXCEPT !.vibe = @ + Amount[d]] \in Account
        /\ [copy[d] EXCEPT !.vibe = @ + Amount[d]].vibe - [copy[d] EXCEPT !.vibe = @ + Amount[d]].owed
             = copy[d].vibe - copy[d].owed + Effect(d)
    BY <1>1, <2>4 DEF Account
  <2>6. Books(u)'
    <3> DEFINE a == [copy[d] EXCEPT !.vibe = @ + Amount[d]]
    <3>1. a \in Account /\ a.vibe - a.owed = copy[d].vibe - copy[d].owed + Effect(d) /\ SaveBalance(d, u, a)
      BY <1>6, <2>5
    <3> HIDE DEF u, a
    <3>2. QED
      BY <1>1, <1>3, <2>2, <2>3, <3>1, SaveBooks
  <2>7. /\ account' \in [Users -> Account] /\ copy' \in [Tasks -> Account \cup {None}]
        /\ kept' \in [Users -> SUBSET Tasks] /\ seen' \in [Tasks -> SUBSET Tasks] /\ overlapped' = overlapped
        /\ (\A v \in Users \ {u} : account'[v] = account[v] /\ kept'[v] = kept[v])
        /\ \A s \in Tasks \ {d} : copy'[s] = copy[s] /\ seen'[s] = seen[s]
    <3> HIDE DEF u
    <3>1. QED
      BY <1>1, <1>3, <1>6, <2>5, SaveTypes
  <2>8. ASSUME NEW v \in Users \ {u} PROVE Books(v)'
    <3>1. \A t \in Underway(v)' : copy'[t] = copy[t] /\ seen'[t] = seen[t]
      BY <1>3, <2>2, <2>7, WrittenTasks
    <3>2. Books(v)
      BY DEF Money
    <3>3. QED
      BY <2>2, <2>3, <2>7, <3>1, <3>2, SameBooks
  <2>9. MoneyTypes'
    <3>1. paying' \in [Deposits -> {"new", "save", "done", "lost"}]
      BY <1>3, <1>6 DEF MoneyTypes
    <3>2. QED
      BY <1>2, <1>3, <2>7, <3>1 DEF MoneyTypes
  <2>10. QED
    BY <1>4, <2>6, <2>8, <2>9 DEF Money
<1>7. QED
  BY <1>5, <1>6 DEF Deposit

\* A step that reads and writes no row, and loses at most what is under way.
LEMMA OtherMoney ==
  ASSUME Money, UNCHANGED <<account, kept, overlapped>>, ok \subseteq ok', MoneyTypes', Answers',
         \A d \in Deposits : paying'[d] = paying[d] \/ (paying[d] = "save" /\ paying'[d] = "lost"),
         \A r \in Requests : /\ pc'[r] = "save" => pc[r] = "save"
                             /\ pc'[r] \in {"book", "done"} => pc[r] \in {"book", "done"}
                             /\ pc[r] \in {"book", "done", "lost"} => pc'[r] \in {"book", "done", "lost"},
         \/ UNCHANGED <<copy, seen>>
         \/ \A t \in Tasks : (t \in Requests => pc'[t] # "save") /\ (t \in Deposits => paying'[t] # "save")
  PROVE  Money'
<1>1. ASSUME NEW u \in Users PROVE Books(u)'
  <2>1. Underway(u)' \subseteq Underway(u) /\ Underway(u) \subseteq Tasks
    BY DEF Underway, Tasks
  <2>2. Written(u) \subseteq Written(u)'
    BY DEF Written, Money, MoneyTypes
  <2>3. Done(u)' \subseteq Done(u)
    BY DEF Done
  <2>4. \A t \in Underway(u)' : copy'[t] = copy[t] /\ seen'[t] = seen[t]
    BY DEF Underway, Tasks
  <2>5. QED
    BY <2>1, <2>2, <2>3, <2>4, SameBooks DEF Money
<1>2. QED
  BY <1>1 DEF Money

LEMMA CrashMoney == Money /\ Crash => Money'
<1> SUFFICES ASSUME Money, Crash PROVE Money'
  OBVIOUS
<1>1. /\ UNCHANGED <<ok, booked, account, kept, overlapped>>
      /\ copy' = [t \in Tasks |-> None] /\ seen' = [t \in Tasks |-> {}]
  BY DEF Crash
<1>2. /\ paying' \in [Deposits -> {"new", "save", "done", "lost"}]
      /\ \A d \in Deposits : paying'[d] = (IF paying[d] = "save" THEN "lost" ELSE paying[d])
  BY DEF Crash, Money, MoneyTypes
<1>3. \A r \in Requests : pc'[r] = IF pc[r] \in Ended \cup {"new"} THEN pc[r] ELSE "lost"
  BY DEF Crash
<1>4. MoneyTypes'
  BY <1>1, <1>2 DEF Money, MoneyTypes
<1>5. Answers'
  BY <1>1, <1>3 DEF Money, Answers, Ended
<1>6. \A r \in Requests : /\ pc'[r] # "save"
                          /\ pc'[r] \in {"book", "done"} => pc[r] \in {"book", "done"}
                          /\ pc[r] \in {"book", "done", "lost"} => pc'[r] \in {"book", "done", "lost"}
  BY <1>3 DEF Ended
<1>7. QED
  BY <1>1, <1>2, <1>4, <1>5, <1>6, OtherMoney

\* A step of request r before it is charged, or after.
LEMMA RequestMoney ==
  ASSUME Pool, Money, NEW r \in Requests, Serve(r), ~Charge(r)
  PROVE  Money'
<1>1. UNCHANGED <<account, copy, kept, seen, overlapped, paying>>
  BY DEF Serve, Refuse, Arrive, Select, SetBusy, Answer, SetIdle, Book, money
<1>2. CASE Book(r)
  <2>1. /\ pc[r] = "book" /\ booked' = [booked EXCEPT ![r] = @ + 1] /\ ok' = ok /\ booked[r] \in Nat /\ booked[r] < 3
    BY <1>2 DEF Book, Money, MoneyTypes, Answers
  <2>2. PICK step \in {"book", "done"} : pc' = [pc EXCEPT ![r] = step] /\ (step = "book" => booked[r] # 2)
    BY <1>2 DEF Book, Pool, Types
  <2>3. pc'[r] = step /\ \A q \in Requests \ {r} : pc'[q] = pc[q]
    BY <2>2 DEF Pool, Types
  <2>4. /\ booked' \in [Requests -> Nat] /\ booked'[r] = booked[r] + 1 /\ booked'[r] <= 3
        /\ \A q \in Requests \ {r} : booked'[q] = booked[q]
    BY <2>1 DEF Money, MoneyTypes
  <2>5. MoneyTypes'
    BY <1>1, <2>1, <2>4 DEF Money, MoneyTypes
  <2>6. Answers'
    BY <2>1, <2>2, <2>3, <2>4 DEF Money, Answers
  <2>7. QED
    BY <1>1, <2>1, <2>3, <2>5, <2>6, OtherMoney
<1>3. CASE ~Book(r)
  <2>1. booked' = booked
    BY <1>3 DEF Serve, Refuse, Arrive, Select, SetBusy, Answer, SetIdle
  <2>2. PICK step \in PCs \ {"save", "book", "done", "lost"} :
          /\ pc' = [pc EXCEPT ![r] = step] /\ pc[r] \in {"new", "select", "busy", "sent", "idle"}
          /\ ok' \subseteq Requests /\ ok \subseteq ok' /\ ok' \ {r} \subseteq ok
          /\ r \in ok' => step \in {"idle", "load"}
          /\ step = "load" => r \in ok'
    <3>1. CASE Refuse(r)
      <4>1. "refused" \in PCs
        BY DEF PCs, Ended
      <4>2. QED
        <5>1. pc' = [pc EXCEPT ![r] = "refused"] /\ pc[r] = "new" /\ ok' = ok
          BY <3>1 DEF Refuse
        <5>2. r \notin ok /\ ok \subseteq Requests
          BY <5>1 DEF Money, MoneyTypes, Answers
        <5>3. "refused" \in PCs \ {"save", "book", "done", "lost"} /\ "refused" # "load" /\ r \notin ok'
          BY <4>1, <5>1, <5>2
        <5>4. ok' \subseteq Requests /\ ok \subseteq ok' /\ ok' \ {r} \subseteq ok /\ pc[r] \in {"new", "select", "busy", "sent", "idle"}
          BY <5>1, <5>2
        <5>5. QED
          BY <5>1, <5>3, <5>4, Zenon
    <3>2. CASE Arrive(r) \/ Select(r)
      <4>1. {"failed", "sent", "busy", "select"} \subseteq PCs
        BY DEF PCs, Ended, AtLock
      <4>2. \E step \in {"failed", "sent", "busy", "select"} : pc' = [pc EXCEPT ![r] = step]
        BY <3>2 DEF Arrive, Select, SelectThen
      <4>3. pc[r] \in {"new", "select"} /\ ok' = ok /\ r \notin ok /\ ok \subseteq Requests
        BY <3>2 DEF Arrive, Select, Money, MoneyTypes, Answers
      <4>4. QED
        BY <4>1, <4>2, <4>3
    <3>3. CASE SetBusy(r)
      <4>1. "sent" \in PCs
        BY DEF PCs
      <4>2. QED
        <5>1. pc' = [pc EXCEPT ![r] = "sent"] /\ pc[r] = "busy" /\ ok' = ok
          BY <3>3 DEF SetBusy
        <5>2. r \notin ok /\ ok \subseteq Requests
          BY <5>1 DEF Money, MoneyTypes, Answers
        <5>3. "sent" \in PCs \ {"save", "book", "done", "lost"} /\ "sent" # "load" /\ r \notin ok'
          BY <4>1, <5>1, <5>2
        <5>4. ok' \subseteq Requests /\ ok \subseteq ok' /\ ok' \ {r} \subseteq ok /\ pc[r] \in {"new", "select", "busy", "sent", "idle"}
          BY <5>1, <5>2
        <5>5. QED
          BY <5>1, <5>3, <5>4, Zenon
    <3>4. ASSUME NEW answered \in BOOLEAN, Answer(r, answered)
          PROVE  \E step \in {"load", "failed", "idle"} :
                   /\ pc' = [pc EXCEPT ![r] = step] /\ pc[r] = "sent"
                   /\ ok' = (IF answered THEN ok \cup {r} ELSE ok)
                   /\ r \notin ok /\ (step = "load" => answered) /\ (step = "failed" => ~answered)
      BY <3>4 DEF Answer, Frees, Money, Answers
    <3>5. CASE SetIdle(r)
      <4>1. {"load", "failed"} \subseteq PCs
        BY DEF PCs, Ended
      <4>2. pc' = [pc EXCEPT ![r] = IF r \in ok THEN "load" ELSE "failed"] /\ pc[r] = "idle" /\ ok' = ok
        BY <3>5 DEF SetIdle, Frees
      <4>3. ok \subseteq Requests
        BY DEF Money, MoneyTypes
      <4>4. PICK step \in {"load", "failed"} : pc' = [pc EXCEPT ![r] = step] /\ (step = "load" <=> r \in ok)
        BY <4>2
      <4>5. step \in PCs \ {"save", "book", "done", "lost"} /\ (r \in ok => step = "load")
        BY <4>1, <4>4
      <4>6. QED
        BY <4>2, <4>3, <4>4, <4>5
    <3>6. CASE Answer(r, TRUE) \/ Answer(r, FALSE)
      <4>1. {"load", "failed", "idle"} \subseteq PCs /\ ok \subseteq Requests
        BY DEF PCs, Ended, AtLock, Money, MoneyTypes
      <4>2. QED
        BY <3>4, <3>6, <4>1
    <3>7. QED
      BY <1>3, <3>1, <3>2, <3>3, <3>5, <3>6 DEF Serve
  <2>3. pc'[r] = step /\ \A q \in Requests \ {r} : pc'[q] = pc[q]
    BY <2>2 DEF Pool, Types
  <2>4. MoneyTypes'
    BY <1>1, <2>1, <2>2 DEF Money, MoneyTypes
  <2>5. Answers'
    <3>1. booked[r] \in Nat /\ ~(booked[r] > 0)
      BY <2>2 DEF Money, MoneyTypes, Answers
    <3>2. QED
      BY <2>1, <2>2, <2>3, <3>1 DEF Money, Answers
  <2>6. QED
    BY <1>1, <2>2, <2>3, <2>4, <2>5, OtherMoney
<1>4. QED
  BY <1>2, <1>3

LEMMA InitMoney == Init => Money
<1> SUFFICES ASSUME Init PROVE Money
  OBVIOUS
<1>1. MoneyTypes
  BY ServiceAssumption DEF Init, MoneyTypes, Account
<1>2. Answers
  BY DEF Init, Answers
<1>3. ASSUME NEW u \in Users PROVE Books(u)
  <2>1. kept[u] = {} /\ account[u].vibe = Start /\ account[u].owed = 0
    BY DEF Init
  <2>2. Underway(u) = {} /\ Done(u) = {}
    BY DEF Init, Underway, Done
  <2>3. Total({}) = 0
    <3> DEFINE f == [t \in {} |-> Effect(t)]
    <3>1. DOMAIN f = {} /\ Total({}) = SumFunction(f)
      BY DEF Total
    <3> HIDE DEF f
    <3>2. QED
      BY <3>1, SumDomain, SumEmpty
  <2>4. QED
    BY <2>1, <2>2, <2>3, FS_EmptySet, ServiceAssumption DEF Books, Says
<1>4. QED
  BY <1>1, <1>2, <1>3 DEF Money

LEMMA NextMoney == Pool /\ Money /\ [Next]_vars => Money'
<1> SUFFICES ASSUME Pool, Money, [Next]_vars PROVE Money'
  OBVIOUS
<1>1. ASSUME UNCHANGED <<requests, money>> PROVE Money'
  <2>1. MoneyTypes' /\ Answers'
    BY <1>1 DEF Money, MoneyTypes, Answers, requests, money
  <2>2. QED
    BY <1>1, <2>1, OtherMoney DEF requests, money
<1>2. ASSUME NEW r \in Requests, Serve(r) PROVE Money'
  BY <1>2, ChargeMoney, RequestMoney DEF Pool
<1>3. ASSUME NEW n \in Nodes, MessageTurn(n) \/ Silence(n) \/ \E m \in Messages : Message(n, m)
      PROVE  UNCHANGED <<requests, money>>
  BY <1>3 DEF Message, MessageTurn, Silence
<1>4. NodeSaved \/ UNCHANGED vars => UNCHANGED <<requests, money>>
  BY DEF NodeSaved, vars
<1>5. QED
  BY <1>1, <1>2, <1>3, <1>4, CrashMoney, DepositMoney DEF Next

(***************************************************************************)
(* Theorems                                                                *)
(***************************************************************************)
LEMMA Invariance == Spec => []IInv
<1>1. Init => IInv
  BY InitPool, InitMoney DEF IInv
<1>2. IInv /\ [Next]_vars => IInv'
  BY NextPool, NextMoney DEF IInv
<1>3. QED
  BY <1>1, <1>2, PTL DEF Spec

\* No node is lost to the pool by a request: one that a request has marked busy
\* has a request at work on it that will mark it idle (set_busy and set_idle of
\* the object the executor holds), whatever nodes report, however often they
\* register anew and the scheduler restarts.  Two requests are at work on one node
\* only after a selection before the first had its turn to mark it (select_node
\* and set_busy take the lock one after the other), or a heartbeat that called it
\* idle.  The queue of the lock is just the tasks that wait for it, each once.
THEOREM PoolLosesNoNode == Spec => []Safe
<1>1. IInv => Safe
  <2> SUFFICES ASSUME IInv PROVE Safe
    OBVIOUS
  <2>1. DOMAIN queue = 1..Len(queue) /\ Len(queue) = Cardinality(Members(queue)) /\ Members(queue) = Waiting
    BY LineCounts DEF IInv, Pool, Lines
  <2>2. /\ Len(queue) = Cardinality({queue[i] : i \in DOMAIN queue})
        /\ {queue[i] : i \in DOMAIN queue}
             = {r \in Requests : pc[r] \in AtLock} \cup {n \in Nodes : beat[n] # None}
    BY <2>1 DEF Members, Waiting
  <2>3. gen \in [Nodes -> 0..MaxRegisters] /\ crashes \in 0..MaxCrashes
    BY ServiceAssumption DEF IInv, Pool, Types
  <2>4. booked \in [Requests -> 0..3]
    BY DEF IInv, Money, MoneyTypes
  <2>5. TypeOK
    BY <2>2, <2>3, <2>4 DEF IInv, Pool, Money, Types, MoneyTypes, TypeOK, PCs, Marks
  <2>6. QED
    BY <2>5 DEF IInv, Pool, Opened, Safe
<1>2. QED
  BY <1>1, Invariance, PTL

\* No answered request goes unbilled, no failed one is billed, no deposit is lost
\* and debts are carried over (charge and deposit), unless two updates of the
\* user's row overlapped or the scheduler died; and a row is always worth what
\* the user started with and the updates it accounts for.
THEOREM AccountsAddUp == Spec => []AccountsBalance
<1>1. IInv => AccountsBalance
  <2> SUFFICES ASSUME IInv PROVE AccountsBalance
    OBVIOUS
  <2>1. ASSUME NEW u \in Users
        PROVE  /\ Explained(u)
               /\ kept[u] \cap Requests \subseteq {r \in ok : UserOf[r] = u}
               /\ kept[u] \cap Deposits \subseteq {d \in Deposits : paying[d] = "done" /\ DepositOf[d] = u}
    <3>1. kept[u] \subseteq Written(u) /\ Says(account[u], kept[u]) /\ ok \subseteq Requests
      BY DEF IInv, Money, Books, MoneyTypes
    <3>2. Explained(u)
      BY <3>1 DEF Explained, Says, Total
    <3>3. QED
      BY <3>1, <3>2, ServiceAssumption DEF Written
  <2>2. ASSUME NEW r \in ok, pc[r] \in Ended
        PROVE  pc[r] = "lost" \/ r \in overlapped \cup kept[UserOf[r]]
    <3>1. r \in Requests /\ pc[r] \in {"done", "lost"} /\ UserOf[r] \in Users
      BY <2>2, ServiceAssumption DEF IInv, Money, MoneyTypes, Answers, Ended
    <3>2. pc[r] = "done" => r \in Done(UserOf[r])
      BY <3>1 DEF Done
    <3>3. QED
      BY <3>1, <3>2 DEF IInv, Money, Books
  <2>3. ASSUME NEW d \in Deposits, paying[d] = "done"
        PROVE  d \in overlapped \cup kept[DepositOf[d]]
    <3>1. DepositOf[d] \in Users /\ d \in Done(DepositOf[d])
      BY <2>3, ServiceAssumption DEF Done
    <3>2. QED
      BY <3>1 DEF IInv, Money, Books
  <2>4. QED
    BY <2>1, <2>2, <2>3 DEF AccountsBalance
<1>2. QED
  BY <1>1, Invariance, PTL
=============================================================================
