------------------------- MODULE ExperienceJournal -------------------------
(***************************************************************************)
(* ExperienceJournal (autonomy/learning.py): what a subject learned, under *)
(* which evidence, and what is withdrawn when evidence is corrected.       *)
(*                                                                         *)
(* Evidence is resolved by owner-installed code before the transaction    *)
(* that writes, so a correction may come in between; a promotion resolves  *)
(* the lesson's own evidence once more inside.  Several processes share    *)
(* the file.                                                               *)
(*                                                                         *)
(* A slip is a plausible mistake in the definition it precedes; no action  *)
(* uses it, the project substitutes it to see a check notice.              *)
(***************************************************************************)
EXTENDS Naturals, FiniteSets

CONSTANTS
  Experiences, Refs,
  Evidence,     \* the references each experience stands on
  DependsOn,    \* the experiences each is derived from
  Disputed,     \* experiences drafted with counter-evidence
  Causes,       \* what an invalidation cites: a correction and a reason
  Proofs        \* [units, resolved, gate]: promotion evidence that can be resolved

States == {"none", "candidate", "probation", "validated", "promoted_skill", "deprecated", "revoked"}
Withdrawn == {"deprecated", "revoked"}
Validated == {"validated", "promoted_skill"}

ASSUME ExperienceAssumption ==
  /\ Evidence \in [Experiences -> (SUBSET Refs) \ {{}}]
  /\ DependsOn \in [Experiences -> SUBSET Experiences]
  /\ Disputed \subseteq Experiences
  /\ Proofs \subseteq [units : Nat, resolved : BOOLEAN, gate : BOOLEAN]

VARIABLES
  corrected,       \* references the resolver no longer vouches for
  drafted,         \* experiences whose evidence was resolved, not written yet
  experience,      \* [state, review] of each
  transitions,     \* the promotions on record, by what was asked
  invalidations    \* [ref, cause, revoked] events; history: was ref refused by then?

learned == <<corrected, drafted, experience, transitions, invalidations>>

LearnedTypeOK ==
  /\ corrected \subseteq Refs /\ drafted \subseteq Experiences
  /\ experience \in [Experiences -> [state : States, review : BOOLEAN]]
  /\ transitions \subseteq Experiences \X States \X Proofs
  /\ invalidations \subseteq [ref : Refs, cause : Causes, revoked : BOOLEAN, refused : BOOLEAN]

LearnedInit ==
  /\ corrected = {} /\ drafted = {} /\ transitions = {} /\ invalidations = {}
  /\ experience = [e \in Experiences |-> [state |-> "none", review |-> FALSE]]

-----------------------------------------------------------------------------
Resolves(e) == Evidence[e] \cap corrected = {}

\* the source of a piece of evidence corrects it
Correct(ref) ==
  /\ corrected' = corrected \cup {ref}
  /\ UNCHANGED <<drafted, experience, transitions, invalidations>>

\* candidate, up to its transaction
Resolve(e) ==
  /\ Resolves(e)
  /\ drafted' = drafted \cup {e}
  /\ UNCHANGED <<corrected, experience, transitions, invalidations>>

\* ... the transaction: a candidate is immutable, and derives from validated ones
Candidate(e) ==
  /\ e \in drafted
  /\ drafted' = drafted \ {e}
  /\ experience[e].state = "none"
  /\ \A d \in DependsOn[e] : experience[d].state \in Validated
  /\ experience' = [experience EXCEPT ![e].state = "candidate"]
  /\ UNCHANGED <<corrected, transitions, invalidations>>

Allowed == [s \in States |->
  CASE s = "candidate"      -> {"probation"} \cup Withdrawn
    [] s = "probation"      -> {"validated"} \cup Withdrawn
    [] s = "validated"      -> {"promoted_skill"} \cup Withdrawn
    [] s = "promoted_skill" -> Withdrawn
    [] s = "deprecated"     -> {"probation", "revoked"}
    [] OTHER                -> {}]

\* ExperienceLoop.transition: what each rung of the ladder asks for
Proven(e, target, p) ==
  CASE target = "probation"      -> p.units >= 1
    [] target = "validated"      -> p.units >= 2 /\ (e \in Disputed => p.resolved)
    [] target = "promoted_skill" -> p.units >= 3 /\ p.gate /\ (e \in Disputed => p.resolved)
    [] OTHER                     -> TRUE

\* may a lesson rise; slip: its evidence is not resolved again
NotFlagged(e, target) == target \notin Withdrawn => ~experience[e].review
MayRise(e, target) == target \notin Withdrawn => ~experience[e].review /\ Resolves(e)

\* A transition asked for before is answered from the record, whatever the
\* state of the experience has become.
Transition(e, target, p) ==
  /\ experience[e].state # "none"
  /\ MayRise(e, target)
  /\ <<e, target, p>> \notin transitions
  /\ target \in Allowed[experience[e].state]
  /\ Proven(e, target, p)
  /\ transitions' = transitions \cup {<<e, target, p>>}
  /\ experience' = [experience EXCEPT ![e].state = target]
  /\ UNCHANGED <<corrected, drafted, invalidations>>

\* the experiences on record that stand on a reference, and all derived from them
Standing(ref) == {e \in Experiences : experience[e].state # "none" /\ ref \in Evidence[e]}
Derived(S) == {e \in Experiences : experience[e].state # "none" /\ DependsOn[e] \cap S # {}}

ImpactedBy(ref) ==
  {e \in Experiences : \A S \in SUBSET Experiences :
     Standing(ref) \subseteq S /\ Derived(S) \subseteq S => e \in S}

Flagged(r, revoked) ==
  [state |-> IF r.state = "revoked" \/ revoked THEN "revoked" ELSE "deprecated", review |-> TRUE]

\* invalidate: a correction, or the revocation of a licence, once for each cause.
\* Nothing here asks whether the owner's resolver refuses the reference by then.
Invalidate(ref, cause, revoked) ==
  /\ \A i \in invalidations : ~(i.ref = ref /\ i.cause = cause /\ i.revoked = revoked)
  /\ experience' = [e \in Experiences |-> IF e \in ImpactedBy(ref) THEN Flagged(experience[e], revoked)
                                           ELSE experience[e]]
  /\ invalidations' = invalidations \cup
       {[ref |-> ref, cause |-> cause, revoked |-> revoked, refused |-> ref \in corrected]}
  /\ UNCHANGED <<corrected, drafted, transitions>>

Learn ==
  \/ \E r \in Refs : Correct(r) \/ \E c \in Causes, b \in BOOLEAN : Invalidate(r, c, b)
  \/ \E e \in Experiences :
       Resolve(e) \/ Candidate(e) \/ \E t \in States, p \in Proofs : Transition(e, t, p)

-----------------------------------------------------------------------------
\* Nothing invalidated is relied on: an experience offered to the policy as
\* applicable stands on no reference that was invalidated once its resolver
\* refused it, nor does anything it was derived from, although its evidence was
\* resolved before it was written (candidate, transition, invalidate).  Of a
\* reference invalidated while it still resolves a lesson may be written later.
Applicable == {e \in Experiences : experience[e].state \in Validated /\ ~experience[e].review}
Ancestry(e) ==
  {d \in Experiences : \A S \in SUBSET Experiences :
     e \in S /\ (\A x \in S : DependsOn[x] \subseteq S) => d \in S}
ApplicableIsSound ==
  \A e \in Applicable : \A d \in Ancestry(e), i \in invalidations : i.refused => i.ref \notin Evidence[d]
=============================================================================
