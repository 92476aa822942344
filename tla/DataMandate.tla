---------------------------- MODULE DataMandate ----------------------------
(***************************************************************************)
(* What an owner relies on who lets others process private data            *)
(* (autonomy/authorization.py): a root grant is a mandate for so many      *)
(* calls, so many units and so long.  Whoever the work was delegated to,   *)
(* everything done under it counts against it, and nothing is published    *)
(* once it has run out or was withdrawn.                                   *)
(***************************************************************************)
EXTENDS Naturals, FiniteSets, Functions

CONSTANTS
  Roots,        \* identifiers of root grants
  Works,        \* identifiers of processing requests
  Unissued      \* no mandate yet

VARIABLES
  now,
  mandate,      \* root -> [calls, units, from, until], or Unissued
  withdrawn,    \* roots the owner revoked
  used,         \* root -> set of [work, units] ever begun under it
  published     \* works whose output left the vault

vars == <<now, mandate, withdrawn, used, published>>

InForce(r) ==
  /\ mandate[r] # Unissued /\ r \notin withdrawn
  /\ mandate[r].from <= now /\ now < mandate[r].until

Units(S) == SumFunction([w \in S |-> w.units])

Init ==
  /\ now = 0 /\ mandate = [r \in Roots |-> Unissued]
  /\ withdrawn = {} /\ used = [r \in Roots |-> {}] /\ published = {}

Issue(r) ==
  /\ mandate[r] = Unissued
  /\ mandate'[r] \in [calls : Nat, units : Nat, from : Nat, until : Nat]
  /\ \A s \in Roots \ {r} : mandate'[s] = mandate[s]
  /\ UNCHANGED <<now, withdrawn, used, published>>

Use(r) ==
  /\ InForce(r)
  /\ \E w \in used'[r] \ used[r] :
       /\ \A s \in Roots : w.work \notin {v.work : v \in used[s]}
       /\ used' = [used EXCEPT ![r] = @ \cup {w}]
  /\ Cardinality(used'[r]) <= mandate[r].calls /\ Units(used'[r]) <= mandate[r].units
  /\ UNCHANGED <<now, mandate, withdrawn, published>>

Publish(r) ==
  /\ InForce(r)
  /\ \E w \in used[r] : w.work \notin published /\ published' = published \cup {w.work}
  /\ UNCHANGED <<now, mandate, withdrawn, used>>

Withdraw(r) ==
  /\ mandate[r] # Unissued
  /\ withdrawn' = withdrawn \cup {r}
  /\ UNCHANGED <<now, mandate, used, published>>

Tick ==
  /\ now' > now
  /\ UNCHANGED <<mandate, withdrawn, used, published>>

Next == Tick \/ \E r \in Roots : Issue(r) \/ Use(r) \/ Publish(r) \/ Withdraw(r)
Spec == Init /\ [][Next]_vars
=============================================================================
