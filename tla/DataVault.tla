----------------------------- MODULE DataVault ------------------------------
(***************************************************************************)
(* PrivateDataVault (autonomy/authorization.py): the owner of private data *)
(* grants others a number of processing calls and units of it, grantees    *)
(* delegate parts of what they hold, and installed processors run outside  *)
(* the transactions that reserve a call before and record its receipt      *)
(* after them.  Grants may be revoked, time passes, and the process may    *)
(* die, while a processor runs.                                            *)
(*                                                                         *)
(* purposes, operations and disclosures are sets treated alike: a use      *)
(* stands for one of each.  A proof is verified or it is not.  Receipts    *)
(* are known by their state; originals are immutable and not looked into.  *)
(*                                                                         *)
(* A slip is a plausible mistake in the definition it precedes; no action  *)
(* uses it, the project substitutes it to see a check notice.              *)
(***************************************************************************)
EXTENDS Naturals, FiniteSets, Functions

CONSTANTS
  Owner, Actors, Data, Uses,
  Cost,         \* [Uses -> units], the owner-installed rates
  Grants,       \* grant identifiers
  Offers,       \* what grant() may be called with
  Calls,        \* request identifiers
  Requests,     \* what execute() may be called with
  MaxDepth,     \* 8 in the code
  MaxFanout,    \* 12 in the code
  MaxTime,      \* bound: the clock
  MaxCrashes,   \* bound: restarts
  None          \* no grant, no call

Offer == [id : Grants, data : Data, parent : Grants \cup {None}, issuer : Actors, grantee : Actors,
          uses : (SUBSET Uses) \ {{}}, calls : Nat \ {0}, units : Nat, from : Nat, until : Nat, proof : BOOLEAN]
Request == [id : Calls, actor : Actors, grant : Grants, use : Uses, proof : BOOLEAN]

ASSUME VaultAssumption ==
  /\ Owner \in Actors /\ Cost \in [Uses -> Nat \ {0}]
  /\ Offers \subseteq Offer /\ Requests \subseteq Request
  /\ MaxDepth \in Nat /\ MaxFanout \in Nat /\ MaxTime \in Nat /\ MaxCrashes \in Nat
  /\ None \notin Grants \cup Offer \cup Request
  /\ None \notin [calls : Nat, units : Nat, from : Nat, until : Nat]

VARIABLES
  stored,       \* the private_data table
  grant,        \* the data_grants table
  lineage,      \* the rows a look at a grant visits: itself, its parent, and so on
  revoked,
  call, state,  \* the data_calls table: the request and the state of each id
  running,      \* calls whose processor is at work
  runs,         \* history: how often a processor was started for each call
  told,         \* history: what callers were answered
  now, crashes

grants == <<stored, grant, lineage, revoked>>
work == <<call, state, running, runs, told>>
vars == <<grants, work, now, crashes>>

Receipts == {"completed", "failed", "revoked"}

TypeOK ==
  /\ stored \subseteq Data
  /\ grant \in [Grants -> Offers \cup {None}] /\ lineage \in [Grants -> SUBSET Grants]
  /\ revoked \subseteq Grants
  /\ call \in [Calls -> Requests \cup {None}]
  /\ state \in [Calls -> {"none", "reserved"} \cup Receipts]
  /\ running \subseteq Calls /\ runs \in [Calls -> Nat]
  /\ told \subseteq Requests \X (Receipts \cup {"unknown"})
  /\ now \in 0..MaxTime /\ crashes \in 0..MaxCrashes

Init ==
  /\ stored = {} /\ grant = [g \in Grants |-> None] /\ lineage = [g \in Grants |-> {}]
  /\ revoked = {}
  /\ call = [c \in Calls |-> None] /\ state = [c \in Calls |-> "none"]
  /\ running = {} /\ runs = [c \in Calls |-> 0] /\ told = {}
  /\ now = 0 /\ crashes = 0

-----------------------------------------------------------------------------
InTime(g) == grant[g].from <= now /\ now < grant[g].until

\* _grant(active=True); slip: the parents are not asked
ActiveAlone(g) == grant[g] # None /\ g \notin revoked /\ InTime(g)
Active(g) == grant[g] # None /\ \A a \in lineage[g] : a \notin revoked /\ InTime(a)

\* add: an original that is there already is not replaced
Add(d) ==
  /\ stored' = stored \cup {d}
  /\ UNCHANGED <<grant, lineage, revoked, work, now, crashes>>

Children(g) == {h \in Grants : grant[h] # None /\ grant[h].parent = g}
CallsOf(g) == {c \in Calls : call[c] # None /\ call[c].grant = g}

\* the calls a grant counts as taken; slip: only those that have a receipt
TakenDone(g) == {c \in CallsOf(g) : state[c] \in Receipts}
Taken(g) == CallsOf(g)

\* _allocated: what was begun costs its rate, what was delegated its whole allowance
Price(c) == Cost[call[c].use]
AllocatedCalls(g) == Cardinality(Taken(g)) + SumFunction([h \in Children(g) |-> grant[h].calls])
AllocatedUnits(g) ==
  SumFunction([c \in Taken(g) |-> Price(c)]) + SumFunction([h \in Children(g) |-> grant[h].units])

\* what may be delegated of parent p; slip: a proof the parent asks for is dropped
WithinUnproven(o, p) ==
  /\ p.grantee = o.issuer /\ o.data = p.data /\ o.uses \subseteq p.uses
  /\ p.from <= o.from /\ o.until <= p.until
Within(o, p) ==
  /\ p.grantee = o.issuer /\ o.data = p.data /\ o.uses \subseteq p.uses
  /\ p.from <= o.from /\ o.until <= p.until
  /\ p.proof => o.proof

\* slip: calls are compared, units are not
FitsCalls(o) == AllocatedCalls(o.parent) + o.calls <= grant[o.parent].calls
Fits(o) ==
  /\ AllocatedCalls(o.parent) + o.calls <= grant[o.parent].calls
  /\ AllocatedUnits(o.parent) + o.units <= grant[o.parent].units

Delegable(o) ==
  /\ Active(o.parent)
  /\ Within(o, grant[o.parent]) /\ Fits(o)
  /\ Cardinality(lineage[o.parent]) <= MaxDepth
  /\ Cardinality(Children(o.parent)) < MaxFanout

\* grant: a known id changes nothing; the caller's clock was read before the
\* transaction, so the interval may be over when the row is inserted
Grant(o) ==
  /\ o.from < o.until
  /\ o.data \in stored
  /\ grant[o.id] = None
  /\ IF o.parent = None THEN o.issuer = Owner ELSE Delegable(o)
  /\ grant' = [grant EXCEPT ![o.id] = o]
  /\ lineage' = [lineage EXCEPT ![o.id] = {o.id} \cup IF o.parent = None THEN {} ELSE lineage[o.parent]]
  /\ UNCHANGED <<stored, revoked, work, now, crashes>>

Revoke(a, g) ==
  /\ grant[g] # None
  /\ a \in {Owner, grant[g].issuer}
  /\ revoked' = revoked \cup {g}
  /\ UNCHANGED <<stored, grant, lineage, work, now, crashes>>

-----------------------------------------------------------------------------
\* the first transaction of execute, up to the look at earlier calls
Permitted(q) ==
  /\ Active(q.grant)
  /\ LET g == grant[q.grant]
     IN q.actor = g.grantee /\ q.use \in g.uses /\ (g.proof => q.proof)

\* may the processor be started for q; slip: a call without a receipt is tried again
FreshOrLost(q) == call[q.id] = None \/ (call[q.id] = q /\ state[q.id] = "reserved")
Fresh(q) == call[q.id] = None

\* ... the rest of it: the call is reserved, whatever becomes of it
Begin(q) ==
  /\ Permitted(q) /\ Fresh(q)
  /\ AllocatedCalls(q.grant) < grant[q.grant].calls
  /\ AllocatedUnits(q.grant) + Cost[q.use] <= grant[q.grant].units
  /\ call' = [call EXCEPT ![q.id] = q]
  /\ state' = [state EXCEPT ![q.id] = "reserved"]
  /\ running' = running \cup {q.id}
  /\ runs' = [runs EXCEPT ![q.id] = @ + 1]
  /\ UNCHANGED <<told, grants, now, crashes>>

\* is a known id this request again
SameRequest(q) == call[q.id] = q

\* ... or it was reserved before: its receipt, or the answer that nobody knows
Repeat(q) ==
  /\ Permitted(q) /\ SameRequest(q)
  /\ told' = told \cup {<<q, IF state[q.id] \in Receipts THEN state[q.id] ELSE "unknown">>}
  /\ UNCHANGED <<call, state, running, runs, grants, now, crashes>>

\* what the second transaction makes of a processor's result; slip: the grant
\* is not asked again
OutcomeUnchecked(c, r) == r
Outcome(c, r) == IF Active(call[c].grant) THEN r ELSE "revoked"

\* the processor returned r, or raised; the second transaction
Finish(c, r) ==
  /\ c \in running
  /\ LET s == Outcome(c, r)
     IN /\ state' = [state EXCEPT ![c] = s]
        /\ told' = told \cup {<<call[c], s>>}
  /\ running' = running \ {c}
  /\ UNCHANGED <<call, runs, grants, now, crashes>>

Tick ==
  /\ now < MaxTime
  /\ now' = now + 1
  /\ UNCHANGED <<grants, work, crashes>>

\* the process dies: reservations stay, and nobody works on them
Crash ==
  /\ crashes < MaxCrashes /\ running # {}
  /\ crashes' = crashes + 1
  /\ running' = {}
  /\ UNCHANGED <<grants, call, state, runs, told, now>>

Next ==
  \/ \E d \in Data : Add(d)
  \/ \E o \in Offers : Grant(o)
  \/ \E a \in Actors, g \in Grants : Revoke(a, g)
  \/ \E q \in Requests : Begin(q) \/ Repeat(q)
  \/ \E c \in Calls : Finish(c, "completed") \/ Finish(c, "failed")
  \/ Tick \/ Crash

Spec == Init /\ [][Next]_vars

-----------------------------------------------------------------------------
Under(g) == {c \in Calls : call[c] # None /\ g \in lineage[call[c].grant]}

\* However executions and delegations race, and whatever became of the calls,
\* all that was begun under a grant and under what was delegated of it stays
\* within the calls and units of that grant.
TreeBudget ==
  \A g \in Grants : grant[g] # None =>
    /\ Cardinality(Under(g)) <= grant[g].calls
    /\ SumFunction([c \in Under(g) |-> Price(c)]) <= grant[g].units

\* Every processing is covered by every grant above it, up to one the owner
\* issued on the same data: in its use, and in the proof it asks for.
Authorised ==
  \A c \in Calls : call[c] # None =>
    /\ \A a \in lineage[call[c].grant] :
         /\ call[c].use \in grant[a].uses /\ grant[a].data = grant[call[c].grant].data
         /\ grant[a].proof => call[c].proof
    /\ \E a \in lineage[call[c].grant] : grant[a].parent = None /\ grant[a].issuer = Owner

\* No processor is started twice for a request, also when a crash lost its
\* result, and a call without a receipt is never anything but unknown.
ProcessedOnce == \A c \in Calls : runs[c] <= 1

\* An answer that reports a result reports it to the very request it is of.
AnswersMatch == \A t \in told : call[t[1].id] = t[1] /\ t[2] \in {state[t[1].id], "unknown"}

\* Both, in well typed records: what execute promises of a request id.
Safe == TypeOK /\ ProcessedOnce /\ AnswersMatch

\* "future_execution: denied_including_descendants" (authorization.py:182):
\* once a grant is revoked no call of it or below it is begun or discloses.
RevocationReaches ==
  [][\A c \in Calls :
       \/ state'[c] = state[c]
       \/ state'[c] \in {"failed", "revoked"}
       \/ lineage[call'[c].grant] \cap revoked = {}]_vars

\* Seen from the owner, the tree of grants is one mandate per root grant.
Roots == {o.id : o \in {p \in Offers : p.parent = None}}
IsRoot(g) == grant[g] # None /\ grant[g].parent = None
Mandate == INSTANCE DataMandate WITH
  Works <- Calls,
  Unissued <- None,
  mandate <- [r \in Roots |-> IF ~IsRoot(r) THEN None
                              ELSE [calls |-> grant[r].calls, units |-> grant[r].units,
                                    from |-> grant[r].from, until |-> grant[r].until]],
  withdrawn <- {r \in revoked : IsRoot(r)},
  used <- [r \in Roots |-> {[work |-> c, units |-> Price(c)] : c \in IF IsRoot(r) THEN Under(r) ELSE {}}],
  published <- {c \in Calls : state[c] = "completed"}
ImplementsMandate == Mandate!Spec
=============================================================================
