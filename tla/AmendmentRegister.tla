-------------------------- MODULE AmendmentRegister --------------------------
(***************************************************************************)
(* What amending a commitment promises: a commitment and everything that   *)
(* supersedes it, directly or through other amendments, form a chain, and  *)
(* a chain is a register.  It is empty until its first commitment is in    *)
(* force; then it holds exactly one commitment at a time, each amendment   *)
(* at most once and never again after it was replaced; once fulfilled it   *)
(* keeps what it holds.                                                    *)
(***************************************************************************)
CONSTANTS
  Chains,         \* one per commitment that amends no other
  Commitments,
  Nobody          \* the register is still empty

VARIABLES
  holder,         \* the commitment in force, per chain
  replaced,       \* those that were in force before it
  fulfilled       \* was what the chain holds adopted?

vars == <<holder, replaced, fulfilled>>

Init ==
  /\ holder = [r \in Chains |-> Nobody]
  /\ replaced = [r \in Chains |-> {}]
  /\ fulfilled = [r \in Chains |-> FALSE]

\* the first commitment of a chain is agreed upon
Agree(r, c) ==
  /\ holder[r] = Nobody
  /\ holder' = [holder EXCEPT ![r] = c]
  /\ UNCHANGED <<replaced, fulfilled>>

\* an amendment takes its place, in one step
Amend(r, c) ==
  /\ holder[r] # Nobody /\ ~fulfilled[r]
  /\ c \notin replaced[r] \cup {holder[r]}
  /\ replaced' = [replaced EXCEPT ![r] = @ \cup {holder[r]}]
  /\ holder' = [holder EXCEPT ![r] = c]
  /\ UNCHANGED fulfilled

Fulfil(r) ==
  /\ holder[r] # Nobody /\ ~fulfilled[r]
  /\ fulfilled' = [fulfilled EXCEPT ![r] = TRUE]
  /\ UNCHANGED <<holder, replaced>>

Next == \E r \in Chains : Fulfil(r) \/ \E c \in Commitments : Agree(r, c) \/ Amend(r, c)

Spec == Init /\ [][Next]_vars
=============================================================================
