---------------------------- MODULE EscrowPromise ----------------------------
(***************************************************************************)
(* What an escrow service promises its clients, without saying how: money  *)
(* is held before anything can be paid out, one irrevocable payout plan is *)
(* chosen while it is held, each planned party is paid at most once, and   *)
(* the escrow is closed only when all of them were.  A transfer whose      *)
(* outcome is not known sends the escrow to "unknown", where it stays; the *)
(* money of that transfer may still move there, once.                      *)
(*                                                                         *)
(* VibeEscrow implements it; A2ARuntime is written against it.             *)
(***************************************************************************)
EXTENDS FiniteSets

CONSTANTS
  Escrows,   \* escrow identifiers
  Parties    \* accounts outside the custody account

VARIABLES
  phase,     \* [Escrows -> Phases]
  funded,    \* has the deposit reached custody?
  op,        \* the operation the escrow was committed to
  plan,      \* the parties that operation pays
  paid       \* the parties that have been paid

vars == <<phase, funded, op, plan, paid>>

Phases == {"none", "opening", "open", "transferring", "released", "refunded", "uncertain"}
Ops == {"none", "release", "refund", "split"}

Init ==
  /\ phase = [e \in Escrows |-> "none"]
  /\ funded = [e \in Escrows |-> FALSE]
  /\ op = [e \in Escrows |-> "none"]
  /\ plan = [e \in Escrows |-> {}]
  /\ paid = [e \in Escrows |-> {}]

\* The identifier is taken before any money is asked for.
Reserve(e) ==
  /\ phase[e] = "none"
  /\ phase' = [phase EXCEPT ![e] = "opening"]
  /\ UNCHANGED <<funded, op, plan, paid>>

\* The deposit arrives: at most once, and possibly after the service gave up
\* knowing whether it would.
Deposit(e) ==
  /\ phase[e] \in {"opening", "uncertain"}
  /\ ~funded[e]
  /\ funded' = [funded EXCEPT ![e] = TRUE]
  /\ UNCHANGED <<phase, op, plan, paid>>

\* "open" is said only of money that is there.
Hold(e) ==
  /\ phase[e] = "opening" /\ funded[e]
  /\ phase' = [phase EXCEPT ![e] = "open"]
  /\ UNCHANGED <<funded, op, plan, paid>>

\* The one choice of how the held money leaves.
Commit(e, o, S) ==
  /\ phase[e] = "open"
  /\ o \in Ops \ {"none"} /\ S # {}
  /\ phase' = [phase EXCEPT ![e] = "transferring"]
  /\ op' = [op EXCEPT ![e] = o]
  /\ plan' = [plan EXCEPT ![e] = S]
  /\ UNCHANGED <<funded, paid>>

\* A planned party is paid, never twice.
Pay(e, p) ==
  /\ phase[e] \in {"transferring", "uncertain"}
  /\ p \in plan[e] \ paid[e]
  /\ paid' = [paid EXCEPT ![e] = @ \cup {p}]
  /\ UNCHANGED <<phase, funded, op, plan>>

\* Closing says the whole plan was carried out.
Close(e) ==
  /\ phase[e] = "transferring" /\ paid[e] = plan[e]
  /\ phase' = [phase EXCEPT ![e] = IF op[e] = "refund" THEN "refunded" ELSE "released"]
  /\ UNCHANGED <<funded, op, plan, paid>>

\* A transfer without a confirmed outcome: the escrow is on hold for good.
Doubt(e) ==
  /\ phase[e] \in {"opening", "transferring"}
  /\ phase' = [phase EXCEPT ![e] = "uncertain"]
  /\ UNCHANGED <<funded, op, plan, paid>>

Next ==
  \E e \in Escrows :
    \/ Reserve(e) \/ Deposit(e) \/ Hold(e) \/ Close(e) \/ Doubt(e)
    \/ \E o \in Ops, S \in SUBSET Parties : Commit(e, o, S)
    \/ \E p \in Parties : Pay(e, p)

Spec == Init /\ [][Next]_vars
=============================================================================
