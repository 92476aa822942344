-------------------------- MODULE DataVault_proofs --------------------------
(***************************************************************************)
(* Proofs about DataVault, for any grants, requests, limits, clock and     *)
(* number of restarts: neither table need be bounded.                      *)
(***************************************************************************)
EXTENDS DataVault, FiniteSums

Issued == {g \in Grants : grant[g] # None}
Known == {c \in Calls : call[c] # None}

(***************************************************************************)
(* The grants form a forest, and a lineage is the way up to its root.      *)
(***************************************************************************)
\* A row names itself; its lineage is its own and its parent's.
Rooted(g) ==
  /\ grant[g].id = g
  /\ grant[g].parent = None => grant[g].issuer = Owner /\ lineage[g] = {g}
  /\ grant[g].parent # None =>
       /\ grant[g].parent \in Issued /\ g \notin lineage[grant[g].parent]
       /\ lineage[g] = {g} \cup lineage[grant[g].parent]

\* A lineage is closed upwards, leads to one root, and from each of its members
\* to g through a child of that member.
Climbs(g) ==
  /\ lineage[g] \subseteq Issued
  /\ \A a \in lineage[g] : lineage[a] \subseteq lineage[g]
  /\ \A a, b \in lineage[g] : a \in lineage[b] \/ b \in lineage[a]
  /\ \A a \in lineage[g] : a = g \/ \E h \in lineage[g] : grant[h].parent = a
  /\ \E a \in lineage[g] : grant[a].parent = None

\* What a grant allows, every grant above it allows.
Covers(g) ==
  \A a \in lineage[g] :
    /\ grant[g].uses \subseteq grant[a].uses /\ grant[g].data = grant[a].data
    /\ grant[a].proof => grant[g].proof

\* What was begun under a grant, and what was delegated of it, fits in it.
Budgeted(g) == AllocatedCalls(g) <= grant[g].calls /\ AllocatedUnits(g) <= grant[g].units

Forest == \A g \in Issued : Rooted(g) /\ Climbs(g) /\ Covers(g)
Budgets == \A g \in Issued : Budgeted(g)

\* A reserved call is what its grant allowed, and has run once.
Begun(c) ==
  /\ call[c].id = c /\ call[c].grant \in Issued
  /\ call[c].use \in grant[call[c].grant].uses
  /\ grant[call[c].grant].proof => call[c].proof
  /\ state[c] # "none"

Reservations ==
  /\ \A c \in Known : Begun(c)
  /\ \A c \in Calls \ Known : state[c] = "none" /\ runs[c] = 0
  /\ \A c \in running : c \in Known /\ state[c] = "reserved"
  /\ \A t \in told : t[1].id \in Known

IInv ==
  /\ TypeOK
  /\ IsFiniteSet(Issued) /\ IsFiniteSet(Known) /\ revoked \subseteq Issued
  /\ Forest /\ Reservations /\ Budgets
  /\ ProcessedOnce /\ AnswersMatch
-----------------------------------------------------------------------------
\* Nothing is granted, asked for or counted at first.
LEMMA InitIInv == Init => IInv
<1> SUFFICES ASSUME Init PROVE IInv
  OBVIOUS
<1>1. TypeOK
  BY VaultAssumption DEF Init, TypeOK
<1>2. Issued = {} /\ Known = {} /\ IsFiniteSet({})
  BY FS_EmptySet DEF Init, Issued, Known
<1>. QED
  BY <1>1, <1>2 DEF Init, IInv, Forest, Reservations, Budgets, ProcessedOnce, AnswersMatch

\* What the rows of the two tables are.
LEMMA Rows ==
  ASSUME TypeOK
  PROVE  /\ \A g \in Issued : grant[g] \in Offer /\ g \in Grants /\ lineage[g] \subseteq Grants
         /\ \A c \in Known : call[c] \in Request /\ Price(c) \in Nat /\ c \in Calls
         /\ \A q \in Requests : q \in Request /\ Cost[q.use] \in Nat
         /\ \A o \in Offers : o \in Offer
  BY VaultAssumption DEF TypeOK, Issued, Known, Price, Offer, Request

\* What a grant has begun and delegated are numbers, and so is what it counts.
LEMMA DelegatedType ==
  ASSUME IInv, NEW g \in Grants
  PROVE  /\ IsFiniteSet(Children(g)) /\ Children(g) \subseteq Issued
         /\ SumFunction([h \in Children(g) |-> grant[h].calls]) \in Nat
         /\ SumFunction([h \in Children(g) |-> grant[h].units]) \in Nat
<1>1. IsFiniteSet(Children(g)) /\ Children(g) \subseteq Issued
  <2>1. Children(g) \subseteq Issued
    BY DEF Children, Issued
  <2>. QED BY <2>1, FS_Subset DEF IInv
<1> DEFINE calls == [h \in Children(g) |-> grant[h].calls]
           units == [h \in Children(g) |-> grant[h].units]
<1>2. /\ DOMAIN calls = Children(g) /\ \A h \in DOMAIN calls : calls[h] \in Nat
      /\ DOMAIN units = Children(g) /\ \A h \in DOMAIN units : units[h] \in Nat
  BY <1>1, Rows DEF IInv, Offer
<1>3. SumFunction(calls) \in Nat /\ SumFunction(units) \in Nat
  <2> HIDE DEF calls, units
  <2>. QED BY <1>1, <1>2, SumFunctionNat
<1>. QED BY <1>1, <1>3

LEMMA BegunType ==
  ASSUME IInv, NEW g \in Grants
  PROVE  /\ IsFiniteSet(Taken(g)) /\ Taken(g) \subseteq Known /\ Cardinality(Taken(g)) \in Nat
         /\ SumFunction([c \in Taken(g) |-> Price(c)]) \in Nat
<1>1. IsFiniteSet(Taken(g)) /\ Taken(g) \subseteq Known
  <2>1. Taken(g) \subseteq Known
    BY DEF Taken, CallsOf, Known
  <2>. QED BY <2>1, FS_Subset DEF IInv
<1>2. SumFunction([c \in Taken(g) |-> Price(c)]) \in Nat
  <2> DEFINE f == [c \in Taken(g) |-> Price(c)]
  <2>1. IsFiniteSet(DOMAIN f) /\ \A c \in DOMAIN f : f[c] \in Nat
    BY <1>1, Rows DEF IInv
  <2> HIDE DEF f
  <2>. QED BY <2>1, SumFunctionNat DEF f
<1>. QED BY <1>1, <1>2, FS_CardinalityType

LEMMA AllocatedType ==
  ASSUME IInv, NEW g \in Grants
  PROVE  AllocatedCalls(g) \in Nat /\ AllocatedUnits(g) \in Nat
  BY DelegatedType, BegunType DEF AllocatedCalls, AllocatedUnits

\* Steps that change neither the grants nor the calls keep what is said of them.
LEMMA Kept ==
  ASSUME IInv, UNCHANGED <<grant, lineage, call>>
  PROVE  /\ Issued' = Issued /\ Known' = Known /\ Forest' /\ Budgets'
         /\ IsFiniteSet(Issued)' /\ IsFiniteSet(Known)'
<1>1. Issued' = Issued /\ Known' = Known
  BY DEF Issued, Known
<1>2. Forest'
  BY <1>1 DEF IInv, Forest, Rooted, Climbs, Covers
<1>3. \A g \in Grants : /\ AllocatedCalls(g)' = AllocatedCalls(g)
                        /\ AllocatedUnits(g)' = AllocatedUnits(g)
  BY DEF AllocatedCalls, AllocatedUnits, Taken, CallsOf, Children, Price
<1>4. Budgets'
  BY <1>1, <1>3 DEF IInv, Budgets, Budgeted, Issued
<1>. QED BY <1>1, <1>2, <1>4 DEF IInv

LEMMA AddIInv ==
  ASSUME IInv, NEW d \in Data, Add(d)
  PROVE  IInv'
<1>1. UNCHANGED <<grant, lineage, revoked, call, state, running, runs, told>>
  BY DEF Add, work
<1>2. TypeOK'
  BY DEF IInv, TypeOK, Add, work
<1>3. Reservations' /\ ProcessedOnce' /\ AnswersMatch'
  BY <1>1, Kept DEF IInv, Reservations, Begun, ProcessedOnce, AnswersMatch
<1>. QED BY <1>1, <1>2, <1>3, Kept DEF IInv

LEMMA RevokeIInv ==
  ASSUME IInv, NEW a \in Actors, NEW g \in Grants, Revoke(a, g)
  PROVE  IInv'
<1>1. UNCHANGED <<grant, lineage, call, state, running, runs, told>>
  BY DEF Revoke, work
<1>2. TypeOK'
  BY DEF IInv, TypeOK, Revoke, work
<1>3. Reservations' /\ ProcessedOnce' /\ AnswersMatch'
  BY <1>1, Kept DEF IInv, Reservations, Begun, ProcessedOnce, AnswersMatch
<1>4. revoked' \subseteq Issued
  BY DEF IInv, Revoke, Issued
<1>. QED BY <1>1, <1>2, <1>3, <1>4, Kept DEF IInv

LEMMA TickIInv ==
  ASSUME IInv, Tick
  PROVE  IInv'
<1>1. UNCHANGED <<grant, lineage, revoked, call, state, running, runs, told>>
  BY DEF Tick, grants, work
<1>2. TypeOK'
  BY VaultAssumption DEF IInv, TypeOK, Tick, grants, work
<1>3. Reservations' /\ ProcessedOnce' /\ AnswersMatch'
  BY <1>1, Kept DEF IInv, Reservations, Begun, ProcessedOnce, AnswersMatch
<1>. QED BY <1>1, <1>2, <1>3, Kept DEF IInv

LEMMA CrashIInv ==
  ASSUME IInv, Crash
  PROVE  IInv'
<1>1. UNCHANGED <<grant, lineage, revoked, call, state, runs, told>> /\ running' = {}
  BY DEF Crash, grants
<1>2. TypeOK'
  BY VaultAssumption DEF IInv, TypeOK, Crash, grants
<1>3. Reservations' /\ ProcessedOnce' /\ AnswersMatch'
  BY <1>1, Kept DEF IInv, Reservations, Begun, ProcessedOnce, AnswersMatch
<1>. QED BY <1>1, <1>2, <1>3, Kept DEF IInv

LEMMA RepeatIInv ==
  ASSUME IInv, NEW q \in Requests, Repeat(q)
  PROVE  IInv'
<1>1. UNCHANGED <<grant, lineage, revoked, call, state, running, runs>>
  BY DEF Repeat, grants
<1>2. q \in Request /\ q.id \in Known /\ call[q.id] = q
  BY VaultAssumption, Rows DEF IInv, Repeat, SameRequest, Known, Request
<1> DEFINE answer == <<q, IF state[q.id] \in Receipts THEN state[q.id] ELSE "unknown">>
<1>3. told' = told \cup {answer}
  BY DEF Repeat
<1>4. answer \in Requests \X (Receipts \cup {"unknown"})
  OBVIOUS
<1>5. answer[1] = q /\ answer[2] \in {state[q.id], "unknown"}
  OBVIOUS
<1> HIDE DEF answer
<1>6. TypeOK'
  BY <1>1, <1>3, <1>4 DEF IInv, TypeOK, Repeat, grants
<1>7. Reservations' /\ ProcessedOnce'
  BY <1>1, <1>2, <1>3, <1>5, Kept DEF IInv, Reservations, Begun, ProcessedOnce
<1>8. AnswersMatch'
  BY <1>1, <1>2, <1>3, <1>5 DEF IInv, AnswersMatch
<1>. QED BY <1>1, <1>6, <1>7, <1>8, Kept DEF IInv

LEMMA FinishIInv ==
  ASSUME IInv, NEW c \in Calls, NEW r \in {"completed", "failed"}, Finish(c, r)
  PROVE  IInv'
<1>1. UNCHANGED <<grant, lineage, revoked, call, runs>>
  BY DEF Finish, grants
<1> DEFINE s == Outcome(c, r)
<1>2. s \in Receipts
  BY DEF Outcome, Receipts
<1>3. c \in Known /\ state[c] = "reserved" /\ call[c] \in Requests /\ call[c].id = c
  BY DEF Finish, IInv, Reservations, Begun, TypeOK, Known
<1>4. /\ state' = [state EXCEPT ![c] = s] /\ told' = told \cup {<<call[c], s>>}
      /\ running' = running \ {c}
  BY DEF Finish
<1> HIDE DEF s
<1>5. TypeOK'
  BY <1>1, <1>2, <1>3, <1>4 DEF IInv, TypeOK, Finish, grants
<1>6. state'[c] = s /\ \A d \in Calls \ {c} : state'[d] = state[d]
  BY <1>4 DEF IInv, TypeOK
<1>7. Reservations'
  <2>1. \A d \in Known' : Begun(d)'
    BY <1>1, <1>2, <1>6, Kept DEF IInv, Reservations, Begun, Receipts, Known
  <2>2. \A d \in Calls \ Known' : state'[d] = "none" /\ runs'[d] = 0
    BY <1>1, <1>3, <1>6, Kept DEF IInv, Reservations
  <2>3. \A d \in running' : d \in Known' /\ state'[d] = "reserved"
    BY <1>1, <1>4, <1>6, Kept DEF IInv, Reservations, TypeOK
  <2>4. \A t \in told' : t[1].id \in Known'
    BY <1>1, <1>3, <1>4, Kept DEF IInv, Reservations
  <2>. QED BY <2>1, <2>2, <2>3, <2>4 DEF Reservations
<1>8. AnswersMatch'
  <2> SUFFICES ASSUME NEW t \in told'
               PROVE  call'[t[1].id] = t[1] /\ t[2] \in {state'[t[1].id], "unknown"}
    BY DEF AnswersMatch
  <2>1. CASE t = <<call[c], s>>
    BY <2>1, <1>1, <1>3, <1>6
  <2>2. CASE t \in told
    <3>1. /\ call[t[1].id] = t[1] /\ t[2] \in {state[t[1].id], "unknown"}
          /\ t[1].id \in Known /\ t[2] # "reserved"
      BY <2>2 DEF IInv, AnswersMatch, Reservations, TypeOK, Receipts
    <3>2. CASE t[1].id = c
      BY <3>1, <3>2, <1>1, <1>3
    <3>3. CASE t[1].id # c
      BY <3>1, <3>3, <1>1, <1>6 DEF Known
    <3>. QED BY <3>2, <3>3
  <2>. QED BY <2>1, <2>2, <1>4
<1>9. ProcessedOnce'
  BY <1>1 DEF IInv, ProcessedOnce
<1>. QED BY <1>1, <1>5, <1>7, <1>8, <1>9, Kept DEF IInv

\* A call that is reserved adds itself and its price to its own grant only.
LEMMA BeginAllocates ==
  ASSUME IInv, NEW q \in Requests, Begin(q)
  PROVE  /\ AllocatedCalls(q.grant)' = AllocatedCalls(q.grant) + 1
         /\ AllocatedUnits(q.grant)' = AllocatedUnits(q.grant) + Cost[q.use]
         /\ \A x \in Grants \ {q.grant} : /\ AllocatedCalls(x)' = AllocatedCalls(x)
                                          /\ AllocatedUnits(x)' = AllocatedUnits(x)
<1> DEFINE c == q.id  g == q.grant
<1>1. q \in Request /\ c \in Calls /\ g \in Grants /\ Cost[q.use] \in Nat
  BY Rows DEF IInv, Request
<1>2. call[c] = None /\ call' = [call EXCEPT ![c] = q] /\ grant' = grant
  BY DEF Begin, Fresh, grants
<1>3. q # None
  BY <1>1, VaultAssumption
<1>4. call'[c] = q /\ \A d \in Calls \ {c} : call'[d] = call[d]
  BY <1>1, <1>2 DEF IInv, TypeOK
<1>5. \A x \in Grants : Children(x)' = Children(x)
  BY <1>2 DEF Children
<1>6. CallsOf(g)' = CallsOf(g) \cup {c} /\ c \notin CallsOf(g)
  BY <1>1, <1>2, <1>3, <1>4 DEF CallsOf
<1>7. \A x \in Grants \ {g} : CallsOf(x)' = CallsOf(x) /\ c \notin CallsOf(x)
  BY <1>1, <1>2, <1>3, <1>4 DEF CallsOf
<1>8. Price(c)' = Cost[q.use] /\ \A d \in Calls \ {c} : Price(d)' = Price(d)
  BY <1>4 DEF Price
<1>9. ASSUME NEW x \in Grants \ {g}
      PROVE  AllocatedCalls(x)' = AllocatedCalls(x) /\ AllocatedUnits(x)' = AllocatedUnits(x)
  <2>1. [d \in Taken(x) |-> Price(d)]' = [d \in Taken(x) |-> Price(d)]
    BY <1>7, <1>8 DEF Taken, CallsOf
  <2>2. Taken(x)' = Taken(x)
    BY <1>7 DEF Taken
  <2>3. /\ [h \in Children(x) |-> grant[h].calls]' = [h \in Children(x) |-> grant[h].calls]
        /\ [h \in Children(x) |-> grant[h].units]' = [h \in Children(x) |-> grant[h].units]
    BY <1>2, <1>5
  <2>. QED BY <2>1, <2>2, <2>3 DEF AllocatedCalls, AllocatedUnits
<1>10. IsFiniteSet(CallsOf(g))
  BY <1>1, BegunType DEF Taken
<1> DEFINE f == [d \in Taken(g) |-> Price(d)]
           F == [d \in Taken(g)' |-> Price(d)']
<1>11. Cardinality(Taken(g))' = Cardinality(Taken(g)) + 1 /\ Cardinality(Taken(g)) \in Nat
  BY <1>6, <1>10, FS_AddElement, FS_CardinalityType DEF Taken
<1>12. SumFunction(F) = SumFunction(f) + Cost[q.use] /\ SumFunction(f) \in Nat
  <2>1. \A d \in CallsOf(g) : d \in Known
    BY DEF CallsOf, Known
  <2>2. /\ DOMAIN f = CallsOf(g) /\ DOMAIN F = DOMAIN f \cup {c} /\ c \notin DOMAIN f
        /\ F[c] = Cost[q.use]
    BY <1>6, <1>8 DEF Taken
  <2>3. \A d \in DOMAIN f : F[d] = f[d] /\ f[d] \in Nat
    BY <1>6, <1>8, <2>1, Rows DEF Taken, CallsOf, IInv
  <2> HIDE DEF f, F
  <2>. QED BY <1>1, <1>10, <2>2, <2>3, SumFunctionGrows, SumFunctionNat
<1>13. /\ [h \in Children(g) |-> grant[h].calls]' = [h \in Children(g) |-> grant[h].calls]
       /\ [h \in Children(g) |-> grant[h].units]' = [h \in Children(g) |-> grant[h].units]
  BY <1>1, <1>2, <1>5
<1>14. /\ SumFunction([h \in Children(g) |-> grant[h].calls]) \in Nat
       /\ SumFunction([h \in Children(g) |-> grant[h].units]) \in Nat
  BY <1>1, DelegatedType
<1>15. AllocatedCalls(g)' = AllocatedCalls(g) + 1
  BY <1>11, <1>13, <1>14 DEF AllocatedCalls
<1>16. AllocatedUnits(g)' = AllocatedUnits(g) + Cost[q.use]
  BY <1>1, <1>12, <1>13, <1>14 DEF AllocatedUnits
<1>. QED BY <1>9, <1>15, <1>16

LEMMA BeginIInv ==
  ASSUME IInv, NEW q \in Requests, Begin(q)
  PROVE  IInv'
<1> DEFINE c == q.id  g == q.grant
<1>1. q \in Request /\ c \in Calls /\ g \in Grants /\ q # None /\ Cost[q.use] \in Nat
  BY Rows, VaultAssumption DEF IInv, Request
<1>2. /\ call[c] = None /\ call' = [call EXCEPT ![c] = q] /\ UNCHANGED <<grant, lineage, revoked>>
      /\ state' = [state EXCEPT ![c] = "reserved"] /\ running' = running \cup {c}
      /\ runs' = [runs EXCEPT ![c] = @ + 1] /\ told' = told
  BY DEF Begin, Fresh, grants
<1>3. /\ call'[c] = q /\ state'[c] = "reserved" /\ runs'[c] = runs[c] + 1
      /\ \A d \in Calls \ {c} : call'[d] = call[d] /\ state'[d] = state[d] /\ runs'[d] = runs[d]
  BY <1>1, <1>2 DEF IInv, TypeOK
<1>4. g \in Issued /\ q.use \in grant[g].uses /\ (grant[g].proof => q.proof)
  BY <1>1 DEF Begin, Permitted, Active, Issued
<1>5. Issued' = Issued /\ Known' = Known \cup {c} /\ c \notin Known
  BY <1>1, <1>2, <1>3 DEF Issued, Known
<1>6. TypeOK'
  BY <1>1, <1>2 DEF IInv, TypeOK, Begin, grants
<1>7. IsFiniteSet(Issued)' /\ IsFiniteSet(Known)'
  BY <1>5, FS_AddElement DEF IInv
<1>8. Forest'
  BY <1>2, <1>5 DEF IInv, Forest, Rooted, Climbs, Covers
<1>9. Reservations'
  <2>1. Begun(c)'
    BY <1>1, <1>2, <1>3, <1>4, <1>5 DEF Begun
  <2>2. \A d \in Known : Begun(d)'
    BY <1>2, <1>3, <1>5 DEF IInv, Reservations, Begun, Known
  <2>3. \A d \in Calls \ Known' : state'[d] = "none" /\ runs'[d] = 0
    BY <1>3, <1>5 DEF IInv, Reservations
  <2>4. \A d \in running' : d \in Known' /\ state'[d] = "reserved"
    BY <1>2, <1>3, <1>5 DEF IInv, Reservations, Known
  <2>5. \A t \in told' : t[1].id \in Known'
    BY <1>2, <1>5 DEF IInv, Reservations
  <2>. QED BY <1>5, <2>1, <2>2, <2>3, <2>4, <2>5 DEF Reservations
<1>10. ProcessedOnce'
  BY <1>1, <1>3, <1>5 DEF IInv, Reservations, ProcessedOnce
<1>11. AnswersMatch'
  BY <1>2, <1>3, <1>5 DEF IInv, Reservations, AnswersMatch, Known
<1>12. Budgets'
  <2>1. AllocatedCalls(g) < grant[g].calls /\ AllocatedUnits(g) + Cost[q.use] <= grant[g].units
    BY DEF Begin
  <2>2. AllocatedCalls(g) \in Nat /\ AllocatedUnits(g) \in Nat /\ grant[g] \in Offer
    BY <1>1, <1>4, AllocatedType, Rows DEF IInv
  <2>3. AllocatedCalls(g)' <= grant[g].calls /\ AllocatedUnits(g)' <= grant[g].units
    BY <2>1, <2>2, BeginAllocates DEF Offer
  <2>4. \A x \in Issued \ {g} : AllocatedCalls(x)' <= grant[x].calls /\ AllocatedUnits(x)' <= grant[x].units
    BY BeginAllocates DEF IInv, Budgets, Budgeted, Issued
  <2>. QED BY <1>2, <1>5, <2>3, <2>4 DEF Budgets, Budgeted
<1>. QED
  BY <1>2, <1>5, <1>6, <1>7, <1>8, <1>9, <1>10, <1>11, <1>12 DEF IInv

\* What a grant adds to the tables: one row, new, below an issued one.
LEMMA GrantRow ==
  ASSUME IInv, NEW o \in Offers, Grant(o)
  PROVE  /\ o \in Offer /\ o # None /\ o.id \in Grants \ Issued
         /\ o.parent # None => o.parent \in Issued
         /\ grant'[o.id] = o /\ \A g \in Grants \ {o.id} : grant'[g] = grant[g]
         /\ lineage'[o.id] = {o.id} \cup IF o.parent = None THEN {} ELSE lineage[o.parent]
         /\ \A g \in Grants \ {o.id} : lineage'[g] = lineage[g]
         /\ Issued' = Issued \cup {o.id}
         /\ UNCHANGED <<stored, revoked, call, state, running, runs, told, now, crashes>>
<1>1. o \in Offer /\ o # None /\ o.id \in Grants /\ grant[o.id] = None
  BY VaultAssumption DEF Offer, Grant
<1>2. o.parent # None => o.parent \in Issued
  BY <1>1 DEF Grant, Delegable, Active, Issued, Offer
<1>3. /\ grant'[o.id] = o /\ \A g \in Grants \ {o.id} : grant'[g] = grant[g]
      /\ lineage'[o.id] = {o.id} \cup IF o.parent = None THEN {} ELSE lineage[o.parent]
      /\ \A g \in Grants \ {o.id} : lineage'[g] = lineage[g]
  BY <1>1 DEF Grant, IInv, TypeOK
<1>4. Issued' = Issued \cup {o.id}
  BY <1>1, <1>3 DEF Issued
<1>. QED
  BY <1>1, <1>2, <1>3, <1>4 DEF Issued, Grant, work

\* A grant takes its allowance out of its parent's, and has none of its own taken.
LEMMA GrantAllocates ==
  ASSUME IInv, NEW o \in Offers, Grant(o)
  PROVE  /\ \A g \in Issued \ {o.parent} : /\ AllocatedCalls(g)' = AllocatedCalls(g)
                                           /\ AllocatedUnits(g)' = AllocatedUnits(g)
         /\ o.parent # None =>
              /\ AllocatedCalls(o.parent)' = AllocatedCalls(o.parent) + o.calls
              /\ AllocatedUnits(o.parent)' = AllocatedUnits(o.parent) + o.units
         /\ AllocatedCalls(o.id)' = 0 /\ AllocatedUnits(o.id)' = 0
<1> DEFINE x == o.id
           CallShares(g) == [h \in Children(g) |-> grant[h].calls]
           UnitShares(g) == [h \in Children(g) |-> grant[h].units]
<1>1. /\ o \in Offer /\ o # None /\ x \in Grants \ Issued
      /\ o.parent # None => o.parent \in Issued
      /\ grant'[x] = o /\ \A g \in Grants \ {x} : grant'[g] = grant[g]
      /\ call' = call
  BY GrantRow
<1>2. \A g \in Grants : Children(g) \subseteq Issued /\ x \notin Children(g)
  BY <1>1 DEF Children, Issued
<1>3. Taken(x) = {} /\ \A g \in Grants : Taken(g)' = Taken(g)
  BY <1>1 DEF Taken, CallsOf, IInv, Reservations, Begun, Known
<1>4. \A g \in Grants : [c \in Taken(g) |-> Price(c)]' = [c \in Taken(g) |-> Price(c)]
  BY <1>1, <1>3 DEF Price
<1>5. \A g \in Grants : g # o.parent => Children(g)' = Children(g)
  BY <1>1 DEF Children, Issued
<1>6. Children(x) = {} /\ x # o.parent
  BY <1>1, VaultAssumption DEF Children, IInv, Forest, Rooted, Issued
<1>7. ASSUME NEW g \in Grants, g # o.parent
      PROVE  AllocatedCalls(g)' = AllocatedCalls(g) /\ AllocatedUnits(g)' = AllocatedUnits(g)
  <2>1. CallShares(g)' = CallShares(g) /\ UnitShares(g)' = UnitShares(g)
    BY <1>1, <1>2, <1>5, <1>7 DEF Issued
  <2>. QED BY <1>3, <1>4, <2>1 DEF AllocatedCalls, AllocatedUnits
<1>8. AllocatedCalls(x) = 0 /\ AllocatedUnits(x) = 0
  <2>1. Cardinality({}) = 0
    BY FS_EmptySet
  <2>2. \A f : DOMAIN f = {} => SumFunction(f) = 0
    BY SumDomain, SumEmpty
  <2>3. /\ SumFunction(CallShares(x)) = 0 /\ SumFunction(UnitShares(x)) = 0
        /\ SumFunction([c \in Taken(x) |-> Price(c)]) = 0
    BY <1>3, <1>6, <2>2
  <2>. QED BY <1>3, <2>1, <2>3 DEF AllocatedCalls, AllocatedUnits
<1>9. ASSUME o.parent # None
      PROVE  /\ AllocatedCalls(o.parent)' = AllocatedCalls(o.parent) + o.calls
             /\ AllocatedUnits(o.parent)' = AllocatedUnits(o.parent) + o.units
  <2> DEFINE p == o.parent
             f == CallShares(p)  F == [h \in Children(p)' |-> grant'[h].calls]
             u == UnitShares(p)  U == [h \in Children(p)' |-> grant'[h].units]
  <2>1. p \in Grants /\ p \in Issued /\ p # x
    BY <1>1, <1>6, <1>9 DEF Issued
  <2>2. Children(p)' = Children(p) \cup {x} /\ x \notin Children(p)
    BY <1>1, <1>2, <2>1 DEF Children
  <2>3. /\ IsFiniteSet(Children(p)) /\ Children(p) \subseteq Issued
        /\ SumFunction(f) \in Nat /\ SumFunction(u) \in Nat
    BY <2>1, DelegatedType
  <2>4. /\ DOMAIN f = Children(p) /\ DOMAIN F = DOMAIN f \cup {x} /\ F[x] = o.calls
        /\ DOMAIN u = Children(p) /\ DOMAIN U = DOMAIN u \cup {x} /\ U[x] = o.units
    BY <1>1, <2>2
  <2>5. \A h \in Children(p) : F[h] = f[h] /\ f[h] \in Int /\ U[h] = u[h] /\ u[h] \in Int
    BY <1>1, <1>2, <2>1, <2>2, <2>3, Rows DEF IInv, Issued, Offer
  <2>6. o.calls \in Int /\ o.units \in Int
    BY <1>1 DEF Offer
  <2>7. SumFunction(F) = SumFunction(f) + o.calls /\ SumFunction(U) = SumFunction(u) + o.units
    <3> HIDE DEF f, F, u, U
    <3>. QED BY <2>2, <2>3, <2>4, <2>5, <2>6, SumFunctionGrows
  <2>8. SumFunction([c \in Taken(p) |-> Price(c)]) \in Nat /\ Cardinality(Taken(p)) \in Nat
    BY <2>1, BegunType
  <2>. QED
    BY <1>3, <1>4, <2>1, <2>3, <2>6, <2>7, <2>8 DEF AllocatedCalls, AllocatedUnits
<1>10. \A g \in Issued \ {o.parent} : /\ AllocatedCalls(g)' = AllocatedCalls(g)
                                      /\ AllocatedUnits(g)' = AllocatedUnits(g)
  BY <1>7 DEF Issued
<1>11. AllocatedCalls(x)' = 0 /\ AllocatedUnits(x)' = 0
  BY <1>1, <1>6, <1>7, <1>8
<1>. QED BY <1>9, <1>10, <1>11

\* The new row joins the forest: its lineage is its parent's and itself.
LEMMA GrantForest ==
  ASSUME IInv, NEW o \in Offers, Grant(o)
  PROVE  Forest'
<1> DEFINE x == o.id  p == o.parent
<1>1. /\ o \in Offer /\ o # None /\ x \in Grants \ Issued
      /\ p # None => p \in Issued
      /\ grant'[x] = o /\ \A g \in Grants \ {x} : grant'[g] = grant[g]
      /\ lineage'[x] = {x} \cup IF p = None THEN {} ELSE lineage[p]
      /\ \A g \in Grants \ {x} : lineage'[g] = lineage[g]
      /\ Issued' = Issued \cup {x}
  BY GrantRow
<1>2. \A g \in Issued : /\ g \in Grants \ {x} /\ grant'[g] = grant[g] /\ lineage'[g] = lineage[g]
                        /\ lineage[g] \subseteq Issued /\ g \in lineage[g]
                        /\ Rooted(g) /\ Climbs(g) /\ Covers(g)
  BY <1>1 DEF Issued, IInv, Forest, Climbs, Rooted
<1>3. p # x /\ (p # None => x \notin lineage[p])
  BY <1>1, <1>2, VaultAssumption
<1>4. ASSUME NEW g \in Issued
      PROVE  Rooted(g)' /\ Climbs(g)' /\ Covers(g)'
  <2>1. \A a \in lineage[g] : a \in Issued
    BY <1>2
  <2>2. Rooted(g)'
    <3>1. Rooted(g) /\ (grant[g].parent # None => grant[g].parent \in Issued)
      BY <1>2 DEF Rooted
    <3>. QED BY <1>1, <1>2, <3>1 DEF Rooted
  <2>3. Climbs(g)'
    BY <1>1, <1>2, <2>1 DEF Climbs
  <2>4. Covers(g)'
    BY <1>2, <2>1 DEF Covers
  <2>. QED BY <2>2, <2>3, <2>4
<1>5. Rooted(x)'
  BY <1>1, <1>2, <1>3 DEF Rooted, Grant
<1>6. Climbs(x)'
  <2>1. CASE p = None
    BY <1>1, <2>1 DEF Climbs
  <2>2. CASE p # None
    <3>1. lineage'[x] = {x} \cup lineage[p] /\ p \in lineage[p] /\ lineage[p] \subseteq Issued /\ Climbs(p)
      BY <1>1, <1>2, <2>2
    <3>2. lineage'[x] \subseteq Issued'
      BY <1>1, <3>1
    <3>3. \A a \in lineage[p] : lineage'[a] = lineage[a] /\ grant'[a] = grant[a] /\ lineage[a] \subseteq lineage[p]
      BY <1>2, <3>1 DEF Climbs
    <3>4. \A a \in lineage'[x] : lineage'[a] \subseteq lineage'[x]
      BY <3>1, <3>3
    <3>5. \A a, b \in lineage'[x] : a \in lineage'[b] \/ b \in lineage'[a]
      BY <3>1, <3>3 DEF Climbs
    <3>6. \A a \in lineage'[x] : a = x \/ \E h \in lineage'[x] : grant'[h].parent = a
      BY <1>1, <3>1, <3>3 DEF Climbs
    <3>7. \E a \in lineage'[x] : grant'[a].parent = None
      BY <3>1, <3>3 DEF Climbs
    <3>. QED BY <3>2, <3>4, <3>5, <3>6, <3>7 DEF Climbs
  <2>. QED BY <2>1, <2>2
<1>7. Covers(x)'
  <2>1. CASE p = None
    BY <1>1, <2>1 DEF Covers
  <2>2. CASE p # None
    <3>1. Within(o, grant[p])
      BY <2>2 DEF Grant, Delegable
    <3>2. \A a \in lineage[p] : a \in Issued /\ grant'[a] = grant[a] /\ Covers(p)
      BY <1>1, <1>2, <2>2
    <3>. QED BY <1>1, <2>2, <3>1, <3>2 DEF Covers, Within
  <2>. QED BY <2>1, <2>2
<1>. QED BY <1>1, <1>4, <1>5, <1>6, <1>7 DEF Forest

LEMMA GrantIInv ==
  ASSUME IInv, NEW o \in Offers, Grant(o)
  PROVE  IInv'
<1> DEFINE x == o.id  p == o.parent
<1>1. /\ o \in Offer /\ o # None /\ x \in Grants \ Issued
      /\ p # None => p \in Issued
      /\ grant'[x] = o /\ \A g \in Grants \ {x} : grant'[g] = grant[g]
      /\ lineage'[x] = {x} \cup IF p = None THEN {} ELSE lineage[p]
      /\ Issued' = Issued \cup {x}
      /\ UNCHANGED <<stored, revoked, call, state, running, runs, told, now, crashes>>
  BY GrantRow
<1>2. TypeOK'
  <2>1. grant' \in [Grants -> Offers \cup {None}]
    BY <1>1 DEF Grant, IInv, TypeOK
  <2>2. lineage' \in [Grants -> SUBSET Grants]
    <3>1. lineage'[x] \subseteq Grants
      BY <1>1 DEF IInv, TypeOK, Issued
    <3>. QED BY <1>1, <3>1 DEF Grant, IInv, TypeOK
  <2>. QED BY <1>1, <2>1, <2>2 DEF IInv, TypeOK
<1>3. Known' = Known
  BY <1>1 DEF Known
<1>4. IsFiniteSet(Issued)' /\ IsFiniteSet(Known)' /\ revoked' \subseteq Issued'
  BY <1>1, <1>3, FS_AddElement DEF IInv
<1>5. Reservations' /\ ProcessedOnce' /\ AnswersMatch'
  BY <1>1, <1>3 DEF IInv, Reservations, Begun, ProcessedOnce, AnswersMatch, Issued
<1>6. Budgets'
  <2>1. Budgeted(x)'
    BY <1>1, GrantAllocates DEF Budgeted, Offer
  <2>2. ASSUME NEW g \in Issued, g # p
        PROVE  Budgeted(g)'
    BY <1>1, <2>2, GrantAllocates DEF Budgeted, IInv, Budgets, Issued
  <2>3. p # None => Budgeted(p)'
    <3> SUFFICES ASSUME p # None PROVE Budgeted(p)'
      OBVIOUS
    <3>1. p \in Grants /\ p # x /\ Fits(o)
      BY <1>1 DEF Issued, Grant, Delegable
    <3>. QED BY <1>1, <3>1, GrantAllocates DEF Budgeted, Fits
  <2>4. ASSUME NEW g \in Issued PROVE Budgeted(g)'
    <3>1. g # None
      BY VaultAssumption DEF Issued
    <3>. QED BY <2>2, <2>3, <3>1
  <2>. QED BY <1>1, <2>1, <2>4 DEF Budgets
<1>. QED BY <1>2, <1>4, <1>5, <1>6, GrantForest DEF IInv

LEMMA Invariance == Spec => []IInv
<1>1. ASSUME IInv, [Next]_vars
      PROVE  IInv'
  <2>1. CASE UNCHANGED vars
    <3>1. UNCHANGED <<stored, grant, lineage, revoked, call, state, running, runs, told, now, crashes>>
      BY <2>1 DEF vars, grants, work
    <3>2. TypeOK' /\ Reservations' /\ ProcessedOnce' /\ AnswersMatch'
      BY <1>1, <3>1, Kept DEF IInv, TypeOK, Reservations, Begun, ProcessedOnce, AnswersMatch
    <3>. QED BY <1>1, <3>1, <3>2, Kept DEF IInv
  <2>2. CASE Next
    BY <1>1, <2>2, AddIInv, GrantIInv, RevokeIInv, BeginIInv, RepeatIInv, FinishIInv, TickIInv, CrashIInv
       DEF Next
  <2>. QED BY <1>1, <2>1, <2>2
<1>. QED BY InitIInv, <1>1, PTL DEF Spec

-----------------------------------------------------------------------------
(***************************************************************************)
(* The budget of a tree: what was begun below a grant was begun under it,  *)
(* or below one of its children, and never below two of them.              *)
(***************************************************************************)
LEMMA UnderChildren ==
  ASSUME IInv, NEW g \in Issued
  PROVE  /\ Under(g) \subseteq Known /\ IsFiniteSet(Under(g))
         /\ Under(g) = Taken(g) \cup UNION {Under(h) : h \in Children(g)}
         /\ \A h \in Children(g) : /\ h \in Issued /\ grant[h].parent = g
                                   /\ g \in lineage[h] /\ h \notin lineage[g]
                                   /\ Taken(g) \cap Under(h) = {}
         /\ \A h, i \in Children(g) : h # i => Under(h) \cap Under(i) = {}
<1>1. /\ Under(g) \subseteq Known
      /\ \A c \in Known : call[c].grant \in Issued /\ c \in Calls /\ call[c] # None
  BY DEF Under, Known, IInv, Reservations, Begun
<1>2. IsFiniteSet(Under(g))
  BY <1>1, FS_Subset DEF IInv
<1>3. \A x \in Issued : /\ x \in Grants /\ Rooted(x) /\ Climbs(x) /\ x \in lineage[x]
                        /\ lineage[x] \subseteq Issued /\ x # None
  BY VaultAssumption DEF IInv, Forest, Rooted, Climbs, Issued
<1>4. \A h \in Children(g) : /\ h \in Issued /\ grant[h].parent = g
                             /\ g \in lineage[h] /\ h \notin lineage[g]
                             /\ lineage[h] = {h} \cup lineage[g]
  BY <1>3 DEF Children, Issued, Rooted
<1>5. Under(g) \subseteq Taken(g) \cup UNION {Under(h) : h \in Children(g)}
  <2> SUFFICES ASSUME NEW c \in Under(g), call[c].grant # g
               PROVE  \E h \in Children(g) : c \in Under(h)
    BY <1>1 DEF Taken, CallsOf, Under
  <2> DEFINE x == call[c].grant
  <2>1. x \in Issued /\ g \in lineage[x] /\ Climbs(x)
    BY <1>1, <1>3 DEF Under
  <2>2. PICK h \in lineage[x] : grant[h].parent = g
    BY <2>1 DEF Climbs
  <2>3. h \in Children(g)
    BY <1>3, <2>1, <2>2 DEF Children, Issued
  <2>4. c \in Under(h)
    BY <1>1, <2>2 DEF Under
  <2>. QED BY <2>3, <2>4
<1>6. ASSUME NEW h \in Children(g)
      PROVE  Under(h) \subseteq Under(g) /\ Taken(g) \cap Under(h) = {}
  <2>1. \A x \in Issued : h \in lineage[x] => g \in lineage[x]
    BY <1>3, <1>4 DEF Climbs
  <2>. QED BY <1>1, <1>4, <2>1 DEF Under, Known, Taken, CallsOf
<1>7. Taken(g) \subseteq Under(g)
  BY <1>3 DEF Taken, CallsOf, Under
<1>8. ASSUME NEW h \in Children(g), NEW i \in Children(g), h # i
      PROVE  Under(h) \cap Under(i) = {}
  <2> SUFFICES ASSUME NEW c \in Known, h \in lineage[call[c].grant], i \in lineage[call[c].grant]
               PROVE  FALSE
    BY <1>1 DEF Under, Known
  <2>1. h \in lineage[i] \/ i \in lineage[h]
    BY <1>1, <1>3 DEF Climbs
  <2>. QED BY <1>4, <1>8, <2>1
<1>. QED BY <1>1, <1>2, <1>4, <1>5, <1>6, <1>7, <1>8

\* If what is summed below every child stays within its share, the sum below
\* the grant is at most what was begun under it and the shares.
LEMMA TreeSum ==
  ASSUME IInv, NEW g \in Issued, NEW f, \A c \in Known : f[c] \in Nat,
         NEW share, \A h \in Children(g) : share[h] \in Nat /\ SumFunctionOnSet(f, Under(h)) <= share[h]
  PROVE  SumFunctionOnSet(f, Under(g)) <= SumFunctionOnSet(f, Taken(g)) + SumFunctionOnSet(share, Children(g))
<1> DEFINE I == Children(g)
           Part == [h \in I |-> Under(h)]
           all == UNION {Part[h] : h \in I}
           part == [h \in I |-> SumFunctionOnSet(f, Part[h])]
<1>1. /\ IsFiniteSet(I) /\ I \subseteq Issued /\ IsFiniteSet(Taken(g)) /\ Taken(g) \subseteq Known
      /\ \A h \in I : Under(h) \subseteq Known /\ IsFiniteSet(Under(h))
  BY DelegatedType, BegunType, UnderChildren DEF Issued
<1>2. /\ all \subseteq Known /\ Under(g) = Taken(g) \cup all /\ Taken(g) \cap all = {}
  <2>1. all = UNION {Under(h) : h \in I}
    OBVIOUS
  <2>2. all \subseteq Known
    BY <1>1
  <2>3. Taken(g) \cap all = {}
    BY <2>1, UnderChildren
  <2>. QED BY <2>1, <2>2, <2>3, UnderChildren
<1>3. IsFiniteSet(all) /\ SumFunctionOnSet(f, all) = SumFunctionOnSet(part, I)
  <2>1. /\ \A h \in I : IsFiniteSet(Part[h])
        /\ \A h \in I : \A i \in I : h # i => Part[h] \cap Part[i] = {}
        /\ \A h \in I : \A c \in Part[h] : f[c] \in Int
    BY <1>1, UnderChildren
  <2>2. IsFiniteSet(I)
    BY <1>1
  <2>3. \A h \in I : part[h] = SumFunctionOnSet(f, Part[h])
    OBVIOUS
  <2>4. (\A h \in I : Part[h] \subseteq all) /\ \A c \in all : \E h \in I : c \in Part[h]
    OBVIOUS
  <2> HIDE DEF I, Part, part, all
  <2>. QED BY <2>1, <2>2, <2>3, <2>4, SumOfParts
<1>4. SumFunctionOnSet(part, I) <= SumFunctionOnSet(share, I)
  <2>1. \A h \in I : part[h] \in Int /\ share[h] \in Int /\ part[h] <= share[h]
    BY <1>1, SumNat
  <2> HIDE DEF part, I
  <2>. QED BY <1>1, <2>1, SumMonotone
<1>5. SumFunctionOnSet(f, Taken(g) \cup all) = SumFunctionOnSet(f, Taken(g)) + SumFunctionOnSet(f, all)
  <2>1. \A c \in Taken(g) \cup all : f[c] \in Int
    BY <1>1, <1>2
  <2> HIDE DEF all
  <2>. QED BY <1>1, <1>2, <1>3, <2>1, SumDisjoint
<1>6. SumFunctionOnSet(f, Taken(g)) \in Int /\ SumFunctionOnSet(f, all) \in Int
  <2>1. \A c \in Taken(g) \cup all : f[c] \in Int
    BY <1>1, <1>2
  <2> HIDE DEF all
  <2>. QED BY <1>1, <1>3, <2>1, SumType
<1>7. SumFunctionOnSet(share, I) \in Int
  BY <1>1, SumType
<1> HIDE DEF all, part, I
<1>. QED BY <1>2, <1>3, <1>4, <1>5, <1>6, <1>7 DEF I

\* What lies below a grant, and what the theorem claims of it.
Below(g) == {h \in Issued : g \in lineage[h]}
KeepsBudget(g) ==
  /\ Cardinality(Under(g)) <= grant[g].calls
  /\ SumFunction([c \in Under(g) |-> Price(c)]) <= grant[g].units

LEMMA BelowChild ==
  ASSUME IInv, NEW g \in Issued, NEW h \in Children(g)
  PROVE  h \in Issued /\ Below(h) \subseteq Below(g) /\ Below(h) # Below(g)
<1>1. h \in Issued /\ g \in lineage[h] /\ h \notin lineage[g] /\ g \in lineage[g]
  BY UnderChildren DEF IInv, Forest, Rooted
<1>2. \A x \in Issued : h \in lineage[x] => g \in lineage[x]
  BY <1>1 DEF IInv, Forest, Climbs
<1>. QED BY <1>1, <1>2 DEF Below

LEMMA ChildrenDecide ==
  ASSUME IInv, NEW g \in Issued, \A h \in Children(g) : KeepsBudget(h)
  PROVE  KeepsBudget(g)
<1> DEFINE one == [c \in Known |-> 1]
           price == [c \in Known |-> Price(c)]
           calls == [h \in Children(g) |-> grant[h].calls]
           units == [h \in Children(g) |-> grant[h].units]
<1>1. \A x \in Issued : /\ Cardinality(Under(x)) = SumFunctionOnSet(one, Under(x))
                        /\ SumFunction([c \in Under(x) |-> Price(c)]) = SumFunctionOnSet(price, Under(x))
  <2> SUFFICES ASSUME NEW x \in Issued
               PROVE  /\ Cardinality(Under(x)) = SumFunctionOnSet(one, Under(x))
                      /\ SumFunction([c \in Under(x) |-> Price(c)]) = SumFunctionOnSet(price, Under(x))
    OBVIOUS
  <2>1. IsFiniteSet(Under(x)) /\ Under(x) \subseteq Known
    BY UnderChildren
  <2> DEFINE f == [c \in Under(x) |-> Price(c)]
  <2>2. DOMAIN f = Under(x) /\ \A c \in Under(x) : f[c] = price[c] /\ one[c] = 1
    BY <2>1
  <2>3. SumFunction(f) = SumFunctionOnSet(price, Under(x)) /\ Cardinality(Under(x)) = SumFunctionOnSet(one, Under(x))
    <3> HIDE DEF f, one, price
    <3>. QED BY <2>1, <2>2, SumDomain, SumSame, CardinalityIsSum
  <2>. QED BY <2>3
<1>2. /\ Cardinality(Taken(g)) = SumFunctionOnSet(one, Taken(g))
      /\ SumFunction([c \in Taken(g) |-> Price(c)]) = SumFunctionOnSet(price, Taken(g))
  <2>1. IsFiniteSet(Taken(g)) /\ Taken(g) \subseteq Known
    BY BegunType DEF Issued
  <2> DEFINE f == [c \in Taken(g) |-> Price(c)]
  <2>2. DOMAIN f = Taken(g) /\ \A c \in Taken(g) : f[c] = price[c] /\ one[c] = 1
    BY <2>1
  <2>3. SumFunction(f) = SumFunctionOnSet(price, Taken(g)) /\ Cardinality(Taken(g)) = SumFunctionOnSet(one, Taken(g))
    <3> HIDE DEF f, one, price
    <3>. QED BY <2>1, <2>2, SumDomain, SumSame, CardinalityIsSum
  <2>. QED BY <2>3
<1>3. /\ \A c \in Known : one[c] \in Nat /\ price[c] \in Nat
      /\ DOMAIN calls = Children(g) /\ DOMAIN units = Children(g)
  BY Rows DEF IInv
<1>4. \A h \in Children(g) : /\ calls[h] \in Nat /\ SumFunctionOnSet(one, Under(h)) <= calls[h]
                             /\ units[h] \in Nat /\ SumFunctionOnSet(price, Under(h)) <= units[h]
  <2> SUFFICES ASSUME NEW h \in Children(g)
               PROVE  /\ calls[h] \in Nat /\ SumFunctionOnSet(one, Under(h)) <= calls[h]
                      /\ units[h] \in Nat /\ SumFunctionOnSet(price, Under(h)) <= units[h]
    OBVIOUS
  <2>1. h \in Issued /\ grant[h] \in Offer /\ calls[h] = grant[h].calls /\ units[h] = grant[h].units
    BY UnderChildren, Rows DEF IInv
  <2> HIDE DEF one, price, calls, units
  <2>. QED BY <1>1, <2>1 DEF KeepsBudget, Offer
<1> HIDE DEF one, price
<1>5. /\ SumFunctionOnSet(one, Under(g)) <= SumFunctionOnSet(one, Taken(g)) + SumFunctionOnSet(calls, Children(g))
      /\ SumFunctionOnSet(price, Under(g)) <= SumFunctionOnSet(price, Taken(g)) + SumFunctionOnSet(units, Children(g))
  <2> HIDE DEF calls, units
  <2>. QED BY <1>3, <1>4, TreeSum
<1>6. /\ AllocatedCalls(g) = SumFunctionOnSet(one, Taken(g)) + SumFunctionOnSet(calls, Children(g))
      /\ AllocatedUnits(g) = SumFunctionOnSet(price, Taken(g)) + SumFunctionOnSet(units, Children(g))
  <2>1. /\ SumFunction(calls) = SumFunctionOnSet(calls, Children(g))
        /\ SumFunction(units) = SumFunctionOnSet(units, Children(g))
    <3> HIDE DEF calls, units
    <3>. QED BY <1>3, SumDomain
  <2>. QED BY <1>2, <2>1 DEF AllocatedCalls, AllocatedUnits
<1>7. /\ SumFunctionOnSet(one, Under(g)) \in Nat /\ SumFunctionOnSet(price, Under(g)) \in Nat
  <2>1. IsFiniteSet(Under(g)) /\ Under(g) \subseteq Known
    BY UnderChildren
  <2>. QED BY <1>3, <2>1, SumNat
<1>8. /\ AllocatedCalls(g) \in Nat /\ AllocatedCalls(g) <= grant[g].calls
      /\ AllocatedUnits(g) \in Nat /\ AllocatedUnits(g) <= grant[g].units
      /\ grant[g].calls \in Nat /\ grant[g].units \in Nat
  BY AllocatedType, Rows DEF IInv, Budgets, Budgeted, Issued, Offer
<1> HIDE DEF calls, units
<1>9. /\ SumFunctionOnSet(one, Under(g)) <= grant[g].calls
      /\ SumFunctionOnSet(price, Under(g)) <= grant[g].units
  BY <1>5, <1>6, <1>7, <1>8
<1>. QED BY <1>1, <1>9 DEF KeepsBudget

LEMMA BudgetOfTrees == IInv => TreeBudget
<1> SUFFICES ASSUME IInv PROVE \A g \in Issued : KeepsBudget(g)
  BY DEF TreeBudget, KeepsBudget, Issued
<1> DEFINE Bad == {g \in Issued : ~KeepsBudget(g)}
           B == {Below(g) : g \in Bad}
<1>1. SUFFICES ASSUME Bad # {} PROVE FALSE
  OBVIOUS
<1>2. B \subseteq SUBSET Issued /\ B # {} /\ IsFiniteSet(Issued)
  BY <1>1 DEF Below, IInv
<1>3. PICK s \in B : \A t \in B : t \subseteq s => t = s
  <2> HIDE DEF B
  <2>. QED BY <1>2, MinimalSet
<1>4. PICK g \in Bad : s = Below(g)
  OBVIOUS
<1>5. \A h \in Children(g) : KeepsBudget(h)
  BY <1>3, <1>4, BelowChild
<1>. QED BY <1>4, <1>5, ChildrenDecide

-----------------------------------------------------------------------------
\* A processor is started once for a request, and an answer that reports a
\* result reports the state of that very request (execute's look at prior).
THEOREM ExecuteIsSafe == Spec => []Safe
<1>1. IInv => Safe
  BY DEF IInv, Safe
<1>. QED BY <1>1, Invariance, PTL

\* Whatever is processed, every grant above it allows: use, data and proof,
\* up to one the owner issued.
THEOREM ProcessingIsAuthorised == Spec => []Authorised
<1>1. IInv => Authorised
  <2> SUFFICES ASSUME IInv, NEW c \in Known
               PROVE  /\ \A a \in lineage[call[c].grant] :
                           /\ call[c].use \in grant[a].uses /\ grant[a].data = grant[call[c].grant].data
                           /\ grant[a].proof => call[c].proof
                      /\ \E a \in lineage[call[c].grant] : grant[a].parent = None /\ grant[a].issuer = Owner
    BY DEF Authorised, Known
  <2> DEFINE g == call[c].grant
  <2>1. g \in Issued /\ call[c].use \in grant[g].uses /\ (grant[g].proof => call[c].proof)
    BY DEF IInv, Reservations, Begun
  <2>2. Rooted(g) /\ Climbs(g) /\ Covers(g)
    BY <2>1 DEF IInv, Forest
  <2>3. PICK a \in lineage[g] : grant[a].parent = None
    BY <2>2 DEF Climbs
  <2>4. a \in Issued /\ Rooted(a)
    BY <2>2, <2>3 DEF IInv, Forest, Climbs
  <2>. QED BY <2>1, <2>2, <2>3, <2>4 DEF Covers, Rooted
<1>. QED BY <1>1, Invariance, PTL

\* The calls and units of a grant bound everything begun under it and under
\* what was delegated of it, at any depth (_allocated).
THEOREM TreesKeepTheirBudget == Spec => []TreeBudget
  BY BudgetOfTrees, Invariance, PTL

\* Once a grant is revoked, nothing of it or below it is begun or disclosed.
THEOREM RevocationHolds == Spec => RevocationReaches
<1>1. ASSUME IInv, [Next]_vars, NEW c \in Calls
      PROVE  \/ state'[c] = state[c]
             \/ state'[c] \in {"failed", "revoked"}
             \/ lineage[call'[c].grant] \cap revoked = {}
  <2>1. ASSUME NEW q \in Requests, Begin(q), state'[c] # state[c]
        PROVE  lineage[call'[c].grant] \cap revoked = {}
    <3>1. c = q.id /\ call'[c] = q
      BY <1>1, <2>1 DEF Begin, IInv, TypeOK
    <3>. QED BY <2>1, <3>1 DEF Begin, Permitted, Active
  <2>2. ASSUME NEW d \in Calls, NEW r \in {"completed", "failed"}, Finish(d, r), state'[c] # state[c]
        PROVE  state'[c] \in {"failed", "revoked"} \/ lineage[call'[c].grant] \cap revoked = {}
    <3>1. c = d /\ state'[c] = Outcome(c, r) /\ call' = call
      BY <1>1, <2>2 DEF Finish, IInv, TypeOK
    <3>. QED BY <2>2, <3>1 DEF Outcome, Active
  <2>3. CASE UNCHANGED state
    BY <2>3
  <2>. QED
    BY <1>1, <2>1, <2>2, <2>3 DEF Next, vars, work, Add, Grant, Revoke, Repeat, Tick, Crash
<1>2. IInv /\ [Next]_vars =>
         [\A c \in Calls :
            \/ state'[c] = state[c]
            \/ state'[c] \in {"failed", "revoked"}
            \/ lineage[call'[c].grant] \cap revoked = {}]_vars
  BY <1>1
<1>. QED BY <1>2, Invariance, PTL DEF Spec, RevocationReaches

-----------------------------------------------------------------------------
(***************************************************************************)
(* The vault implements the mandates of DataMandate: every step is one of  *)
(* theirs, or none.  The abstract state, root by root:                     *)
(***************************************************************************)
MandateOf(r) ==
  IF ~IsRoot(r) THEN None
  ELSE [calls |-> grant[r].calls, units |-> grant[r].units, from |-> grant[r].from, until |-> grant[r].until]
Tally(r) == {[work |-> c, units |-> Price(c)] : c \in IF IsRoot(r) THEN Under(r) ELSE {}}

aMandate == [r \in Roots |-> MandateOf(r)]
aWithdrawn == {r \in revoked : IsRoot(r)}
aUsed == [r \in Roots |-> Tally(r)]
aPublished == {c \in Calls : state[c] = "completed"}

\* An issued root is one of the roots that may be offered.
LEMMA IssuedRoots ==
  ASSUME IInv, NEW g, g \in Grants, IsRoot(g)
  PROVE  g \in Issued /\ g \in Roots /\ lineage[g] = {g} /\ grant[g] \in Offer /\ grant[g] \in Offers
<1>1. g \in Issued /\ grant[g] \in Offers /\ grant[g].parent = None /\ grant[g].id = g /\ lineage[g] = {g}
  BY DEF IsRoot, Issued, IInv, TypeOK, Forest, Rooted
<1>. QED BY <1>1, Rows DEF Roots, IInv

\* Every lineage leads to one root, and no other is in it.
LEMMA OneRoot ==
  ASSUME IInv, NEW g \in Issued
  PROVE  \E r \in lineage[g] : /\ r \in Issued /\ IsRoot(r)
                               /\ \A x \in lineage[g] : IsRoot(x) => x = r
<1>1. Climbs(g)
  BY DEF IInv, Forest
<1>2. PICK r \in lineage[g] : grant[r].parent = None
  BY <1>1 DEF Climbs
<1>3. r \in Issued /\ r \in Grants /\ IsRoot(r)
  BY <1>1, <1>2 DEF Climbs, Issued, IsRoot
<1>4. ASSUME NEW x \in lineage[g], IsRoot(x) PROVE x = r
  <2>1. x \in Grants
    BY <1>1 DEF Climbs, Issued
  <2>2. lineage[x] = {x} /\ lineage[r] = {r}
    BY <1>3, <1>4, <2>1, IssuedRoots
  <2>. QED BY <1>1, <2>2 DEF Climbs
<1>. QED BY <1>3, <1>4

LEMMA InitMandate == Init => Mandate!Init
<1> SUFFICES ASSUME Init PROVE Mandate!Init
  OBVIOUS
<1>1. \A r \in Grants : ~IsRoot(r)
  BY DEF Init, IsRoot
<1>2. \A r \in Roots : r \in Grants
  BY VaultAssumption DEF Roots, Offer
<1>3. aMandate = [r \in Roots |-> None] /\ aWithdrawn = {} /\ aUsed = [r \in Roots |-> {}] /\ aPublished = {}
  BY <1>1, <1>2 DEF Init, aMandate, MandateOf, aWithdrawn, aUsed, Tally, aPublished
<1>. QED
  BY <1>3 DEF Init, Mandate!Init, aMandate, MandateOf, aWithdrawn, aUsed, Tally, aPublished

\* Parts of the state that determine parts of the abstract one.
LEMMA Unmoved ==
  /\ UNCHANGED grant => UNCHANGED aMandate
  /\ UNCHANGED <<grant, revoked>> => UNCHANGED aWithdrawn
  /\ UNCHANGED <<grant, lineage, call>> => UNCHANGED aUsed
  /\ UNCHANGED state => UNCHANGED aPublished
  BY DEF aMandate, MandateOf, aWithdrawn, aUsed, Tally, aPublished, IsRoot, Under, Price

LEMMA Stutters ==
  ASSUME UNCHANGED <<now, aMandate, aWithdrawn, aUsed, aPublished>>
  PROVE  UNCHANGED Mandate!vars
  BY DEF Mandate!vars, aMandate, MandateOf, aWithdrawn, aUsed, Tally, aPublished

\* grant of a root issues a mandate; of a part of one, it changes none.
LEMMA GrantMandate ==
  ASSUME IInv, NEW o \in Offers, Grant(o)
  PROVE  Mandate!Next \/ UNCHANGED Mandate!vars
<1> DEFINE x == o.id
<1>1. /\ o \in Offer /\ o # None /\ x \in Grants \ Issued
      /\ grant'[x] = o /\ \A g \in Grants \ {x} : grant'[g] = grant[g]
      /\ \A g \in Grants \ {x} : lineage'[g] = lineage[g]
      /\ UNCHANGED <<revoked, call, state, now>>
  BY GrantRow
<1>2. /\ \A r \in Grants \ {x} : IsRoot(r)' = IsRoot(r) /\ MandateOf(r)' = MandateOf(r)
      /\ ~IsRoot(x) /\ IsRoot(x)' = (o.parent = None)
  BY <1>1 DEF IsRoot, MandateOf, Issued
<1>3. \A r \in Grants : Under(r)' = Under(r)
  BY <1>1 DEF Under, IInv, Reservations, Begun, Known, Issued
<1>4. Under(x) = {}
  BY <1>1 DEF Under, IInv, Reservations, Begun, Known, Forest, Climbs
<1>5. \A r \in Grants : Tally(r)' = Tally(r)
  <2>1. \A r \in Grants \ {x} : Tally(r)' = Tally(r)
    BY <1>1, <1>2, <1>3 DEF Tally, Price
  <2>2. Tally(x)' = {} /\ Tally(x) = {}
    BY <1>1, <1>2, <1>3, <1>4 DEF Tally
  <2>. QED BY <2>1, <2>2
<1>6. \A r \in Roots : r \in Grants
  BY VaultAssumption DEF Roots, Offer
<1>7. /\ aWithdrawn' = aWithdrawn /\ aUsed' = aUsed /\ aPublished' = aPublished /\ now' = now
  <2>1. \A r \in revoked : r \in Grants \ {x}
    BY <1>1 DEF IInv, Issued
  <2>. QED BY <1>1, <1>2, <1>5, <1>6, <2>1 DEF aWithdrawn, aUsed, aPublished
<1>8. CASE o.parent = None
  <2>1. x \in Roots
    BY <1>8 DEF Roots
  <2>2. /\ aMandate[x] = None
        /\ aMandate'[x] \in [calls : Nat, units : Nat, from : Nat, until : Nat]
    BY <1>1, <1>2, <1>8, <2>1 DEF aMandate, MandateOf, Offer
  <2>3. \A s \in Roots \ {x} : aMandate'[s] = aMandate[s]
    BY <1>2, <1>6 DEF aMandate
  <2>4. Mandate!Issue(x)
    BY <1>7, <2>2, <2>3
       DEF Mandate!Issue, aMandate, MandateOf, aWithdrawn, aUsed, Tally, aPublished
  <2>. QED BY <2>1, <2>4 DEF Mandate!Next
<1>9. CASE o.parent # None
  <2>1. MandateOf(x)' = MandateOf(x)
    BY <1>2, <1>9 DEF MandateOf
  <2>2. aMandate' = aMandate
    BY <1>2, <1>6, <2>1 DEF aMandate
  <2>. QED BY <1>7, <2>2, Stutters
<1>. QED BY <1>8, <1>9

\* revoke of a root withdraws its mandate.
LEMMA RevokeMandate ==
  ASSUME IInv, NEW a \in Actors, NEW g \in Grants, Revoke(a, g)
  PROVE  Mandate!Next \/ UNCHANGED Mandate!vars
<1>1. UNCHANGED <<grant, lineage, call, state, now>> /\ revoked' = revoked \cup {g}
  BY DEF Revoke, work
<1>2. UNCHANGED <<now, aMandate, aUsed, aPublished>>
  BY <1>1, Unmoved
<1>3. CASE IsRoot(g)
  <2>1. g \in Roots /\ aMandate[g] # None
    <3>1. g \in Roots
      BY <1>3, IssuedRoots
    <3>2. aMandate[g] = [calls |-> grant[g].calls, units |-> grant[g].units,
                         from |-> grant[g].from, until |-> grant[g].until]
      BY <1>3, <3>1 DEF aMandate, MandateOf
    <3>3. aMandate[g] # None
      BY <1>3, <3>2, VaultAssumption, IssuedRoots DEF Offer
    <3>. QED BY <3>1, <3>3
  <2>2. aWithdrawn' = aWithdrawn \cup {g}
    BY <1>1, <1>3 DEF aWithdrawn, IsRoot
  <2>3. Mandate!Withdraw(g)
    BY <1>2, <2>1, <2>2
       DEF Mandate!Withdraw, aMandate, MandateOf, aWithdrawn, aUsed, Tally, aPublished
  <2>. QED BY <2>1, <2>3 DEF Mandate!Next
<1>4. CASE ~IsRoot(g)
  <2>1. aWithdrawn' = aWithdrawn
    BY <1>1, <1>4 DEF aWithdrawn, IsRoot
  <2>. QED BY <1>2, <2>1, Stutters
<1>. QED BY <1>3, <1>4

\* A tally is worth what the calls in it are.
LEMMA TallyWorth ==
  ASSUME NEW S, IsFiniteSet(S), NEW price, DOMAIN price = S, \A c \in S : price[c] \in Nat,
         NEW T, \A c \in S : [work |-> c, units |-> price[c]] \in T,
         \A w \in T : \E c \in S : w = [work |-> c, units |-> price[c]]
  PROVE  /\ Cardinality(T) = Cardinality(S)
         /\ SumFunction([w \in T |-> w.units]) = SumFunction(price)
<1> DEFINE m == [c \in S |-> [work |-> c, units |-> price[c]]]
           f == [w \in T |-> w.units]
<1>1. /\ \A c, d \in S : m[c] = m[d] => c = d
      /\ \A c \in S : f[m[c]] = price[c] /\ price[c] \in Int /\ m[c] \in T
      /\ \A w \in T : \E c \in S : w = m[c]
      /\ DOMAIN f = T
<2>1. \A c, d \in S : m[c] = m[d] => c = d
  <3> SUFFICES ASSUME NEW c \in S, NEW d \in S, m[c] = m[d] PROVE c = d
    OBVIOUS
  <3>1. m[c].work = c /\ m[d].work = d
    OBVIOUS
  <3>. QED BY <3>1
<2>. QED BY <2>1
<1> HIDE DEF m, f
<1>2. Cardinality(T) = Cardinality(S) /\ SumFunctionOnSet(f, T) = SumFunctionOnSet(price, S)
  <2>1. /\ \A x, y \in S : m[x] = m[y] => x = y
        /\ \A x \in S : f[m[x]] = price[x] /\ price[x] \in Int
        /\ \A x \in S : m[x] \in T
        /\ \A y \in T : \E x \in S : y = m[x]
    BY <1>1
  <2>2. IsFiniteSet(S)
    OBVIOUS
  <2>. QED BY ONLY <2>1, <2>2, SumRenamed
<1>3. SumFunction(f) = SumFunction(price)
  BY <1>1, <1>2, SumDomain
<1>. QED BY <1>2, <1>3 DEF f

\* The mandate counts and sums as the vault does.
LEMMA SameSum == \A f : Mandate!SumFunction(f) = SumFunction(f)
  BY Zenon DEF Mandate!SumFunction, Mandate!SumFunctionOnSet, Mandate!FoldFunctionOnSet, Mandate!MapThenFoldSet,
               SumFunction, SumFunctionOnSet, FoldFunctionOnSet, MapThenFoldSet

LEMMA SameCardinality == \A S : Mandate!Cardinality(S) = Cardinality(S)
  BY DEF Mandate!Cardinality, Cardinality

\* A call that is reserved is one more use of the one root above it.
LEMMA BeginMandate ==
  ASSUME IInv, IInv', TreeBudget', NEW q \in Requests, Begin(q)
  PROVE  Mandate!Next
<1> DEFINE c == q.id  g == q.grant
<1>1. /\ q \in Request /\ q # None /\ c \in Calls /\ g \in Issued /\ Active(g)
      /\ call[c] = None /\ call'[c] = q /\ \A d \in Calls \ {c} : call'[d] = call[d]
      /\ UNCHANGED <<grant, lineage, revoked, now>>
  <2>1. q \in Request /\ q # None /\ c \in Calls /\ g \in Grants
    BY Rows, VaultAssumption DEF IInv, Request
  <2>. QED BY <2>1 DEF Begin, Fresh, Permitted, Active, Issued, grants, IInv, TypeOK
<1>2. PICK r \in lineage[g] : r \in Issued /\ IsRoot(r) /\ \A x \in lineage[g] : IsRoot(x) => x = r
  BY <1>1, OneRoot
<1>3. r \in Grants /\ r \in Roots /\ grant[r] \in Offer
  BY <1>2, IssuedRoots DEF Issued
<1>4. /\ UNCHANGED <<aMandate, aWithdrawn>>
      /\ \A x \in Grants : IsRoot(x)' = IsRoot(x)
  BY <1>1, Unmoved DEF IsRoot
<1>5. aPublished' = aPublished
  <2>1. state' = [state EXCEPT ![c] = "reserved"]
    BY DEF Begin
  <2>2. state[c] = "none"
    BY <1>1 DEF IInv, Reservations, Known
  <2>. QED BY <1>1, <2>1, <2>2 DEF aPublished, IInv, TypeOK
<1>6. aMandate[r] = [calls |-> grant[r].calls, units |-> grant[r].units,
                     from |-> grant[r].from, until |-> grant[r].until]
  BY <1>2, <1>3 DEF aMandate, MandateOf
<1>7. /\ aMandate[r] # None /\ r \notin aWithdrawn
      /\ aMandate[r].from <= now /\ now < aMandate[r].until
  <2>1. r \notin revoked /\ InTime(r)
    BY <1>1, <1>2 DEF Active
  <2>. QED BY <1>3, <1>6, <2>1, VaultAssumption DEF InTime, aWithdrawn, Offer
<1> DEFINE w == [work |-> c, units |-> Price(c)']
<1>8. Under(r)' = Under(r) \cup {c} /\ c \notin Under(r)
  BY <1>1, <1>2 DEF Under
<1>9. \A d \in Calls \ {c} : Price(d)' = Price(d)
  BY <1>1 DEF Price
<1>10. Tally(r)' = Tally(r) \cup {w}
  <2>1. \A d \in Under(r) : d \in Calls \ {c}
    BY <1>8 DEF Under
  <2>2. Tally(r) = {[work |-> d, units |-> Price(d)] : d \in Under(r)}
    BY <1>2 DEF Tally
  <2>3. Tally(r)' = {[work |-> d, units |-> Price(d)'] : d \in Under(r)'}
    BY <1>2, <1>3, <1>4 DEF Tally
  <2>4. {[work |-> d, units |-> Price(d)'] : d \in Under(r)} = {[work |-> d, units |-> Price(d)] : d \in Under(r)}
    BY <1>9, <2>1
  <2>5. Tally(r)' = {[work |-> d, units |-> Price(d)'] : d \in Under(r)} \cup {w}
    BY <1>8, <2>3
  <2>. QED BY <2>2, <2>4, <2>5
<1>11. \A s \in Roots : \A v \in Tally(s) : v.work # c
  BY <1>1 DEF Tally, Under
<1>12. ASSUME NEW s \in Roots \ {r}
       PROVE  Tally(s)' = Tally(s)
  <2>1. s \in Grants
    BY VaultAssumption DEF Roots, Offer
  <2>2. IsRoot(s) => Under(s)' = Under(s)
    BY <1>1, <1>2, <2>1 DEF Under
  <2>. QED BY <1>1, <1>4, <1>9, <2>1, <2>2 DEF Tally, Under
<1>13. aUsed' = [aUsed EXCEPT ![r] = @ \cup {w}]
  BY <1>3, <1>10, <1>12 DEF aUsed
<1>14. aUsed'[r] = Tally(r)' /\ aUsed[r] = Tally(r) /\ w \in aUsed'[r] \ aUsed[r]
  BY <1>3, <1>10, <1>11 DEF aUsed
<1>15. /\ Cardinality(aUsed'[r]) <= aMandate[r].calls
       /\ SumFunction([v \in aUsed'[r] |-> v.units]) <= aMandate[r].units
  <2> DEFINE S == Under(r)'  price == [d \in Under(r) |-> Price(d)]'  T == Tally(r)'
  <2>1. /\ IsFiniteSet(S) /\ DOMAIN price = S /\ \A d \in S : price[d] \in Nat
        /\ \A d \in S : [work |-> d, units |-> price[d]] \in T
        /\ \A v \in T : \E d \in S : v = [work |-> d, units |-> price[d]]
    <3>1. Known' = Known \cup {c} /\ S \subseteq Known'
      BY <1>1 DEF Known, Under
    <3>2. IsFiniteSet(S)
      BY <3>1, FS_Subset DEF IInv
    <3>3. \A d \in Calls : call'[d] # None => Price(d)' \in Nat
      BY VaultAssumption DEF IInv, TypeOK, Price, Request
    <3>4. T = {[work |-> d, units |-> Price(d)'] : d \in S}
      BY <1>2, <1>3, <1>4 DEF Tally
    <3>. QED BY <3>1, <3>2, <3>3, <3>4 DEF Known
  <2>2. Cardinality(T) = Cardinality(S) /\ SumFunction([v \in T |-> v.units]) = SumFunction(price)
    <3> HIDE DEF S, price, T
    <3>. QED BY <2>1, TallyWorth
  <2>3. Cardinality(S) <= grant[r].calls /\ SumFunction(price) <= grant[r].units
    BY <1>1, <1>2, <1>3 DEF TreeBudget, Issued
  <2>. QED BY <1>6, <1>14, <2>2, <2>3
<1>16. \A s \in Roots : w.work \notin {v.work : v \in aUsed[s]}
  BY <1>11 DEF aUsed
<1> HIDE DEF w
<1>17. \E v \in aUsed'[r] \ aUsed[r] :
         /\ \A s \in Roots : v.work \notin {u.work : u \in aUsed[s]}
         /\ aUsed' = [aUsed EXCEPT ![r] = @ \cup {v}]
  BY <1>13, <1>14, <1>16
<1>18. Mandate!Use(r)
  <2> USE DEF aMandate, MandateOf, aWithdrawn, aUsed, Tally, aPublished
  <2>1. Mandate!InForce(r)
    BY <1>7 DEF Mandate!InForce
  <2>2. Mandate!Units(aUsed'[r]) <= aMandate[r].units
    BY <1>15, SameSum DEF Mandate!Units
  <2>3. Mandate!Cardinality(aUsed'[r]) <= aMandate[r].calls
    BY <1>15, SameCardinality
  <2>. QED BY <1>1, <1>4, <1>5, <1>15, <1>17, <2>1, <2>2, <2>3, Zenon DEF Mandate!Use
<1>. QED BY <1>3, <1>18 DEF Mandate!Next

\* A receipt that discloses is published under the one root above its call.
LEMMA FinishMandate ==
  ASSUME IInv, NEW c \in Calls, NEW o \in {"completed", "failed"}, Finish(c, o)
  PROVE  Mandate!Next \/ UNCHANGED Mandate!vars
<1>1. /\ UNCHANGED <<grant, lineage, revoked, call, now>>
      /\ state' = [state EXCEPT ![c] = Outcome(c, o)]
  BY DEF Finish, grants
<1>2. /\ c \in Known /\ state[c] = "reserved" /\ call[c].grant \in Issued
  BY DEF Finish, IInv, Reservations, Begun
<1>3. UNCHANGED <<now, aMandate, aWithdrawn, aUsed>>
  BY <1>1, Unmoved
<1>4. CASE Outcome(c, o) = "completed"
  <2> DEFINE g == call[c].grant
  <2>1. Active(g)
    BY <1>4 DEF Outcome
  <2>2. PICK r \in lineage[g] : r \in Issued /\ IsRoot(r) /\ \A x \in lineage[g] : IsRoot(x) => x = r
    BY <1>2, OneRoot
  <2>3. r \in Grants /\ r \in Roots /\ grant[r] \in Offer
    BY <2>2, IssuedRoots DEF Issued
  <2>4. aMandate[r] = [calls |-> grant[r].calls, units |-> grant[r].units,
                       from |-> grant[r].from, until |-> grant[r].until]
    BY <2>2, <2>3 DEF aMandate, MandateOf
  <2>5. /\ aMandate[r] # None /\ r \notin aWithdrawn
        /\ aMandate[r].from <= now /\ now < aMandate[r].until
    <3>1. r \notin revoked /\ InTime(r)
      BY <2>1, <2>2 DEF Active
    <3>. QED BY <2>3, <2>4, <3>1, VaultAssumption DEF InTime, aWithdrawn, Offer
  <2> DEFINE w == [work |-> c, units |-> Price(c)]
  <2>6. w \in aUsed[r] /\ w.work = c
    BY <1>2, <2>2, <2>3 DEF aUsed, Tally, Under, Known
  <2>7. c \notin aPublished /\ aPublished' = aPublished \cup {c}
    BY <1>1, <1>2, <1>4 DEF aPublished, IInv, TypeOK
  <2> HIDE DEF w
  <2>8. Mandate!Publish(r)
    BY <1>3, <2>5, <2>6, <2>7
       DEF Mandate!Publish, Mandate!InForce, aMandate, MandateOf, aWithdrawn, aUsed, Tally, aPublished
  <2>. QED BY <2>3, <2>8 DEF Mandate!Next
<1>5. CASE Outcome(c, o) # "completed"
  <2>1. aPublished' = aPublished
    BY <1>1, <1>2, <1>5 DEF aPublished, IInv, TypeOK
  <2>. QED BY <1>3, <2>1, Stutters
<1>. QED BY <1>4, <1>5

\* The vault keeps the mandate of every root grant: within its calls, units
\* and time, however it was delegated, and nothing published once withdrawn.
THEOREM VaultKeepsMandates == Spec => ImplementsMandate
<1>1. IInv /\ IInv' /\ TreeBudget' /\ [Next]_vars => [Mandate!Next]_(Mandate!vars)
  <2> SUFFICES ASSUME IInv, IInv', TreeBudget', [Next]_vars
               PROVE  Mandate!Next \/ UNCHANGED Mandate!vars
    OBVIOUS
  <2>1. CASE UNCHANGED <<now, grant, lineage, revoked, call, state>>
    <3>1. UNCHANGED <<now, aMandate, aWithdrawn, aUsed, aPublished>>
      BY <2>1, Unmoved
    <3>. QED BY <3>1, Stutters
  <2>2. CASE Tick
    <3>1. now' = now + 1 /\ now' > now
      BY <2>2 DEF Tick, IInv, TypeOK
    <3>2. UNCHANGED <<aMandate, aWithdrawn, aUsed, aPublished>>
      BY <2>2, Unmoved DEF Tick, grants, work
    <3>3. Mandate!Tick
      BY <3>1, <3>2 DEF Mandate!Tick, aMandate, MandateOf, aWithdrawn, aUsed, Tally, aPublished
    <3>. QED BY <3>3 DEF Mandate!Next
  <2>3. ASSUME NEW d \in Data, Add(d)
        PROVE  UNCHANGED <<now, grant, lineage, revoked, call, state>>
    BY <2>3 DEF Add, work
  <2>4. ASSUME NEW q \in Requests, Repeat(q)
        PROVE  UNCHANGED <<now, grant, lineage, revoked, call, state>>
    BY <2>4 DEF Repeat, grants
  <2>5. ASSUME Crash
        PROVE  UNCHANGED <<now, grant, lineage, revoked, call, state>>
    BY <2>5 DEF Crash, grants
  <2>6. ASSUME UNCHANGED vars
        PROVE  UNCHANGED <<now, grant, lineage, revoked, call, state>>
    BY <2>6 DEF vars, grants, work
  <2>7. CASE Next
    BY <2>1, <2>2, <2>3, <2>4, <2>5, <2>7, GrantMandate, RevokeMandate, BeginMandate, FinishMandate DEF Next
  <2>. QED BY <2>1, <2>6, <2>7
<1>. QED
  BY <1>1, InitMandate, Invariance, TreesKeepTheirBudget, PTL DEF Spec, ImplementsMandate, Mandate!Spec
=============================================================================
