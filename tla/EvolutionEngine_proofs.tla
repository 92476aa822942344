----------------------- MODULE EvolutionEngine_proofs -----------------------
(***************************************************************************)
(* Proofs about EvolutionEngine and ExperienceJournal, for any hosts and   *)
(* limits, inputs, runs, experiences and evidence: what the file of a      *)
(* subject says of its decisions, and which lessons it may rely on.        *)
(***************************************************************************)
EXTENDS EvolutionEngine, FiniteSums, SequenceTheorems

(***************************************************************************)
(* Lessons: what is derived from evidence that was withdrawn               *)
(***************************************************************************)
OnRecord == {e \in Experiences : experience[e].state # "none"}
Closed(S) == \A x \in S : DependsOn[x] \subseteq S
Tainted(e) == \E d \in Ancestry(e), i \in invalidations : i.refused /\ i.ref \in Evidence[d]

\* What was refused when invalidated does not resolve.  What is derived is written after what
\* it is derived from.  A lesson on withdrawn evidence, its own or that of what it
\* is derived from, has not risen, and will not: it is flagged, or its evidence
\* does not resolve.
LessonsInv ==
  /\ \A i \in invalidations : i.refused => i.ref \in corrected
  /\ Closed(OnRecord)
  /\ \A e \in OnRecord : Tainted(e) =>
       /\ experience[e].state \in {"candidate"} \cup Withdrawn
       /\ experience[e].review \/ ~Resolves(e)

\* An experience is of its own ancestry, and whatever else is in it is in that
\* of one it is derived from.
LEMMA OwnAncestry ==
  ASSUME NEW e \in Experiences
  PROVE  e \in Ancestry(e)
  BY DEF Ancestry

LEMMA AncestryWithin ==
  ASSUME NEW e \in Experiences, NEW S \in SUBSET Experiences, e \in S, Closed(S)
  PROVE  Ancestry(e) \subseteq S
  BY DEF Ancestry, Closed

LEMMA AncestrySplits ==
  ASSUME NEW e \in Experiences, NEW d \in Ancestry(e), d # e
  PROVE  \E p \in DependsOn[e] : d \in Ancestry(p)
<1> DEFINE S == {e} \cup {x \in Experiences : \E p \in DependsOn[e] : x \in Ancestry(p)}
<1>1. \A x \in Experiences : DependsOn[x] \subseteq Experiences
  BY ExperienceAssumption
<1>2. Closed(S)
  <2>1. DependsOn[e] \subseteq S
    BY <1>1, OwnAncestry
  <2>2. ASSUME NEW p \in DependsOn[e], NEW x \in Ancestry(p), NEW y \in DependsOn[x]
        PROVE  y \in Ancestry(p)
    <3>1. y \in Experiences /\ x \in Experiences
      BY <1>1 DEF Ancestry
    <3>2. QED
      BY <3>1 DEF Ancestry
  <2>3. QED
    BY <1>1, <2>1, <2>2 DEF Closed, Ancestry
<1>3. Ancestry(e) \subseteq S
  <2>1. S \in SUBSET Experiences /\ e \in S
    OBVIOUS
  <2> HIDE DEF S
  <2>2. QED
    BY <1>2, <2>1, AncestryWithin
<1>4. QED
  BY <1>3

\* What derives from an experience that stands on a reference is impacted by it.
LEMMA ImpactReaches ==
  ASSUME Closed(OnRecord), NEW e \in OnRecord, NEW d \in Ancestry(e), NEW ref, ref \in Evidence[d]
  PROVE  e \in ImpactedBy(ref)
<1>1. e \in Experiences /\ OnRecord \in SUBSET Experiences /\ \A x \in Experiences : DependsOn[x] \subseteq Experiences
  BY ExperienceAssumption DEF OnRecord
<1>2. d \in OnRecord
  BY <1>1, AncestryWithin
<1>3. ASSUME NEW S \in SUBSET Experiences, Standing(ref) \subseteq S, Derived(S) \subseteq S
      PROVE  e \in S
  <2>1. d \in S
    BY <1>2, <1>3 DEF Standing, OnRecord
  <2> DEFINE T == OnRecord \ S
  <2>2. SUFFICES ASSUME e \in T PROVE FALSE
    BY DEF OnRecord
  <2>3. Closed(T)
    <3> SUFFICES ASSUME NEW x \in T, NEW y \in DependsOn[x] PROVE y \in T
      BY DEF Closed
    <3>1. y \in OnRecord
      BY DEF Closed
    <3>2. y \notin S
      BY <1>3 DEF Derived, OnRecord
    <3>3. QED
      BY <3>1, <3>2
  <2>4. T \in SUBSET Experiences
    BY <1>1
  <2> HIDE DEF T
  <2>5. Ancestry(e) \subseteq T
    BY <1>1, <2>2, <2>3, <2>4, AncestryWithin
  <2>6. QED
    BY <2>1, <2>5 DEF T
<1>4. QED
  BY <1>1, <1>3 DEF ImpactedBy

LEMMA InitLessons == Init => LearnedTypeOK /\ LessonsInv
<1> SUFFICES ASSUME Init PROVE LearnedTypeOK /\ LessonsInv
  OBVIOUS
<1>1. OnRecord = {} /\ invalidations = {}
  BY DEF Init, LearnedInit, OnRecord
<1>2. LearnedTypeOK
  BY DEF Init, LearnedInit, LearnedTypeOK, States
<1>3. QED
  BY <1>1, <1>2 DEF LessonsInv, Closed

\* A step that withdraws no evidence and changes no record but that of e.
LEMMA OneLesson ==
  ASSUME LearnedTypeOK, LessonsInv, NEW e \in Experiences, invalidations' = invalidations, corrected' = corrected,
         \A x \in Experiences \ {e} : experience'[x] = experience[x],
         experience'[e].state # "none", DependsOn[e] \subseteq OnRecord,
         Tainted(e) => /\ experience'[e].state \in {"candidate"} \cup Withdrawn
                       /\ experience'[e].review \/ ~Resolves(e)
  PROVE  LessonsInv'
<1>1. OnRecord' = OnRecord \cup {e}
  BY DEF OnRecord
<1>2. \A x : Tainted(x)' <=> Tainted(x)
  BY DEF Tainted, Ancestry
<1>3. \A x : Resolves(x)' <=> Resolves(x)
  BY DEF Resolves
<1>4. Closed(OnRecord)'
  BY <1>1 DEF LessonsInv, Closed
<1>5. QED
  <2>1. \A x \in OnRecord' : Tainted(x)' =>
          /\ experience'[x].state \in {"candidate"} \cup Withdrawn
          /\ experience'[x].review \/ ~Resolves(x)'
    BY <1>1, <1>2, <1>3 DEF LessonsInv, OnRecord
  <2>2. QED
    BY <1>4, <2>1 DEF LessonsInv

LEMMA CorrectLessons ==
  ASSUME LearnedTypeOK, LessonsInv, NEW ref \in Refs, Correct(ref)
  PROVE  LearnedTypeOK' /\ LessonsInv'
<1>1. corrected' = corrected \cup {ref} /\ UNCHANGED <<drafted, experience, transitions, invalidations>>
  BY DEF Correct
<1>2. LearnedTypeOK'
  BY <1>1 DEF LearnedTypeOK
<1>3. OnRecord' = OnRecord /\ (\A x : Tainted(x)' <=> Tainted(x)) /\ \A x : ~Resolves(x) => ~Resolves(x)'
  BY <1>1 DEF OnRecord, Tainted, Ancestry, Resolves
<1>4. Closed(OnRecord)'
  BY <1>3 DEF LessonsInv, Closed
<1>5. \A x \in OnRecord' : Tainted(x)' =>
        /\ experience'[x].state \in {"candidate"} \cup Withdrawn
        /\ experience'[x].review \/ ~Resolves(x)'
  BY <1>1, <1>3 DEF LessonsInv
<1>6. QED
  BY <1>1, <1>2, <1>4, <1>5 DEF LessonsInv

LEMMA CandidateLessons ==
  ASSUME LearnedTypeOK, LessonsInv, NEW e \in Experiences, Candidate(e)
  PROVE  LearnedTypeOK' /\ LessonsInv'
<1>1. /\ experience[e].state = "none" /\ (\A d \in DependsOn[e] : experience[d].state \in Validated)
      /\ experience' = [experience EXCEPT ![e].state = "candidate"]
      /\ drafted' \subseteq drafted /\ UNCHANGED <<corrected, transitions, invalidations>>
  BY DEF Candidate
<1>2. /\ experience' \in [Experiences -> [state : States, review : BOOLEAN]]
      /\ experience'[e].state = "candidate" /\ \A x \in Experiences \ {e} : experience'[x] = experience[x]
  BY <1>1 DEF LearnedTypeOK, States
<1>3. LearnedTypeOK'
  BY <1>1, <1>2 DEF LearnedTypeOK
<1>4. DependsOn[e] \subseteq OnRecord
  BY <1>1, ExperienceAssumption DEF OnRecord, Validated
<1>5. Tainted(e) => ~Resolves(e)
  <2> SUFFICES ASSUME NEW d \in Ancestry(e), NEW i \in invalidations, i.refused, i.ref \in Evidence[d]
               PROVE  ~Resolves(e)
    BY DEF Tainted
  <2>1. CASE d = e
    BY <2>1 DEF LessonsInv, Resolves
  <2>2. CASE d # e
    <3>1. PICK p \in DependsOn[e] : d \in Ancestry(p)
      BY <2>2, AncestrySplits
    <3>2. p \in OnRecord /\ Tainted(p)
      BY <1>4, <3>1 DEF Tainted
    <3>3. QED
      BY <1>1, <3>2 DEF LessonsInv, Validated, Withdrawn
  <2>3. QED
    BY <2>1, <2>2
<1>6. QED
  BY <1>1, <1>2, <1>3, <1>4, <1>5, OneLesson

LEMMA TransitionLessons ==
  ASSUME LearnedTypeOK, LessonsInv, NEW e \in Experiences, NEW t \in States, NEW p \in Proofs, Transition(e, t, p)
  PROVE  LearnedTypeOK' /\ LessonsInv'
<1>1. /\ experience[e].state # "none" /\ MayRise(e, t) /\ t \in Allowed[experience[e].state]
      /\ experience' = [experience EXCEPT ![e].state = t] /\ transitions' = transitions \cup {<<e, t, p>>}
      /\ UNCHANGED <<corrected, drafted, invalidations>>
  BY DEF Transition
<1>2. /\ experience' \in [Experiences -> [state : States, review : BOOLEAN]]
      /\ experience'[e].state = t /\ experience'[e].review = experience[e].review
      /\ \A x \in Experiences \ {e} : experience'[x] = experience[x]
  BY <1>1 DEF LearnedTypeOK
<1>3. LearnedTypeOK'
  BY <1>1, <1>2 DEF LearnedTypeOK
<1>4. t # "none"
  <2>1. experience[e].state \in States
    BY DEF LearnedTypeOK
  <2>2. QED
    BY <1>1, <2>1 DEF Allowed, Withdrawn
<1>5. e \in OnRecord /\ DependsOn[e] \subseteq OnRecord
  BY <1>1 DEF LessonsInv, Closed, OnRecord
<1>6. Tainted(e) => t \in Withdrawn /\ (experience[e].review \/ ~Resolves(e))
  BY <1>1, <1>5 DEF LessonsInv, MayRise
<1>7. QED
  BY <1>1, <1>2, <1>3, <1>4, <1>5, <1>6, OneLesson

LEMMA InvalidateLessons ==
  ASSUME LearnedTypeOK, LessonsInv, NEW ref \in Refs, NEW cause \in Causes, NEW revoked \in BOOLEAN,
         Invalidate(ref, cause, revoked)
  PROVE  LearnedTypeOK' /\ LessonsInv'
<1>b. PICK refused \in BOOLEAN : refused = (ref \in corrected)
  <2>1. CASE ref \in corrected
    <3>1. (ref \in corrected) = TRUE
      BY <2>1
    <3>2. QED
      BY <3>1, Zenon
  <2>2. CASE ref \notin corrected
    <3>1. (ref \in corrected) = FALSE
      BY <2>2
    <3>2. QED
      BY <3>1, Zenon
  <2>3. QED
    BY <2>1, <2>2
<1> DEFINE event == [ref |-> ref, cause |-> cause, revoked |-> revoked, refused |-> refused]
<1>1. /\ invalidations' = invalidations \cup {event}
      /\ UNCHANGED <<corrected, drafted, transitions>>
  BY <1>b, Zenon DEF Invalidate
<1>2. /\ experience' \in [Experiences -> [state : States, review : BOOLEAN]]
      /\ \A e \in Experiences :
           IF e \in ImpactedBy(ref) THEN experience'[e] = Flagged(experience[e], revoked)
           ELSE experience'[e] = experience[e]
  BY DEF Invalidate, LearnedTypeOK, Flagged, States
<1>0. /\ event \in [ref : Refs, cause : Causes, revoked : BOOLEAN, refused : BOOLEAN]
      /\ event.ref = ref /\ (event.refused => ref \in corrected)
  BY <1>b
<1> HIDE DEF event
<1>3. LearnedTypeOK'
  BY <1>0, <1>1, <1>2 DEF LearnedTypeOK
<1>4. \A e \in ImpactedBy(ref) : e \in OnRecord /\ experience'[e].state \in Withdrawn /\ experience'[e].review
  <2>1. ImpactedBy(ref) \subseteq OnRecord
    BY DEF ImpactedBy, OnRecord, Standing, Derived
  <2>2. QED
    BY <1>2, <2>1 DEF Flagged, Withdrawn, OnRecord
<1>5. OnRecord' = OnRecord
  BY <1>2, <1>4 DEF OnRecord, Withdrawn
<1>6. ASSUME NEW e \in OnRecord, Tainted(e)', e \notin ImpactedBy(ref)
      PROVE  Tainted(e)
  <2>1. PICK d \in Ancestry(e), i \in invalidations' : i.refused /\ i.ref \in Evidence[d]
    BY <1>6 DEF Tainted, Ancestry
  <2>2. i \in invalidations
    BY <1>0, <1>1, <1>6, <2>1, ImpactReaches DEF LessonsInv
  <2>3. QED
    BY <2>1, <2>2 DEF Tainted
<1>7. \A e \in OnRecord : Tainted(e)' =>
        /\ experience'[e].state \in {"candidate"} \cup Withdrawn
        /\ experience'[e].review \/ ~Resolves(e)'
  BY <1>1, <1>2, <1>4, <1>6 DEF LessonsInv, Resolves, OnRecord
<1>8. Closed(OnRecord)' /\ \A i \in invalidations' : i.refused => i.ref \in corrected'
  <2>1. Closed(OnRecord)'
    BY <1>5 DEF LessonsInv, Closed
  <2>2. \A i \in invalidations' : i.refused => i.ref \in corrected'
    BY <1>0, <1>1 DEF LessonsInv
  <2>3. QED
    BY <2>1, <2>2
<1>9. QED
  BY <1>3, <1>5, <1>7, <1>8 DEF LessonsInv

LEMMA SameLessons ==
  ASSUME LearnedTypeOK, LessonsInv, UNCHANGED <<corrected, experience, transitions, invalidations>>, drafted' \subseteq Experiences
  PROVE  LearnedTypeOK' /\ LessonsInv'
<1>1. LearnedTypeOK'
  BY DEF LearnedTypeOK
<1>2. OnRecord' = OnRecord /\ \A x : (Tainted(x)' <=> Tainted(x)) /\ (Resolves(x)' <=> Resolves(x))
  BY DEF OnRecord, Tainted, Ancestry, Resolves
<1>3. QED
  BY <1>1, <1>2 DEF LessonsInv, Closed

LEMMA NextLessons == LearnedTypeOK /\ LessonsInv /\ [Next]_vars => LearnedTypeOK' /\ LessonsInv'
<1> SUFFICES ASSUME LearnedTypeOK, LessonsInv, [Next]_vars PROVE LearnedTypeOK' /\ LessonsInv'
  OBVIOUS
<1>1. CASE Learn
  <2>1. ASSUME NEW e \in Experiences, Resolve(e) PROVE LearnedTypeOK' /\ LessonsInv'
    BY <2>1, SameLessons DEF Resolve, LearnedTypeOK
  <2>2. QED
    BY <1>1, <2>1, CorrectLessons, InvalidateLessons, CandidateLessons, TransitionLessons DEF Learn
<1>2. CASE UNCHANGED learned
  BY <1>2, SameLessons DEF learned, LearnedTypeOK
<1>3. QED
  BY <1>1, <1>2 DEF Next, Recover, Decide, Observe, Acknowledge, RecordRemote, Feedback, Expire, vars

\* What the policy is offered as applicable stands on no withdrawn evidence, its
\* own or that of anything it was derived from, although its evidence was
\* resolved before the transaction that wrote it (candidate, transition and
\* invalidate of ExperienceJournal).
THEOREM LessonsAreSound == Spec => []ApplicableIsSound
<1>1. LearnedTypeOK /\ LessonsInv => ApplicableIsSound
  BY DEF LessonsInv, ApplicableIsSound, Applicable, OnRecord, Validated, Tainted, Withdrawn
<1>2. QED
  BY <1>1, InitLessons, NextLessons, PTL DEF Spec

(***************************************************************************)
(* Sets of numbers, sizes and appended rows                                *)
(***************************************************************************)
LEMMA HasFirst ==
  ASSUME NEW n \in Nat, NEW S, S \subseteq 1..n, S # {}
  PROVE  \E i \in S : \A j \in S : i <= j
<1> DEFINE upto(i) == {j \in S : j <= i}
<1>1. IsFiniteSet(S)
  <2>1. IsFiniteSet(1..n)
    BY FS_Interval
  <2>2. QED
    BY <2>1, FS_Subset
<1> PICK B : B = {upto(i) : i \in S}
  OBVIOUS
<1>2. PICK s \in B : \A t \in B : t \subseteq s => t = s
  <2>1. B \subseteq SUBSET S /\ B # {}
    OBVIOUS
  <2>2. QED
    BY ONLY <1>1, <2>1, MinimalSet
<1>3. PICK i \in S : s = upto(i)
  BY <1>2
<1>4. ASSUME NEW j \in S PROVE i <= j
  <2>1. CASE j < i
    <3>1. i \in Nat /\ j \in Nat /\ S \subseteq Nat
      OBVIOUS
    <3>2. \A k \in Nat : k <= j => k <= i
      BY <2>1, <3>1
    <3>3. upto(j) \subseteq s /\ upto(j) \in B
      BY <1>3, <3>1, <3>2
    <3>4. upto(j) = s
      BY <1>2, <3>3
    <3>5. i \in upto(j)
      BY <1>3, <3>1, <3>4
    <3>6. QED
      BY <3>5
  <2>2. QED
    BY <2>1
<1>5. QED
  BY <1>4

LEMMA HasLast ==
  ASSUME NEW n \in Nat, NEW S, S \subseteq 1..n, S # {}
  PROVE  LastOf(S) \in S /\ \A j \in S : j <= LastOf(S)
<1> DEFINE T == {(n + 1) - i : i \in S}
<1>1. T \subseteq 1..n /\ T # {}
  <2>1. ASSUME NEW i \in S PROVE (n + 1) - i \in 1..n
    <3>1. i \in 1..n
      OBVIOUS
    <3>2. QED
      BY <3>1
  <2>2. T # {}
    OBVIOUS
  <2>3. QED
    BY <2>1, <2>2
<1>2. PICK t \in T : \A u \in T : t <= u
  <2> HIDE DEF T
  <2>1. QED
    BY <1>1, HasFirst
<1>3. PICK i \in S : t = (n + 1) - i
  BY <1>2
<1>4. \A j \in S : j <= i
  BY <1>2, <1>3
<1>5. QED
  BY <1>4 DEF LastOf

LEMMA SameSize ==
  ASSUME NEW S, IsFiniteSet(S), NEW T, NEW f \in [S -> T],
         \A x, y \in S : f[x] = f[y] => x = y, \A y \in T : \E x \in S : f[x] = y
  PROVE  IsFiniteSet(T) /\ Cardinality(T) = Cardinality(S)
<1>1. f \in Bijection(S, T)
  BY DEF Bijection, Injection, IsInjective, Surjection
<1>2. QED
  BY <1>1, FS_Bijection DEF ExistsBijection

LEMMA AppendRow ==
  ASSUME NEW S, NEW s \in Seq(S), NEW x
  PROVE  /\ Append(s, x) \in Seq(S \cup {x})
         /\ Len(s) \in Nat /\ DOMAIN s = 1..Len(s) /\ Len(Append(s, x)) = Len(s) + 1
         /\ DOMAIN Append(s, x) = (DOMAIN s) \cup {Len(s) + 1}
         /\ Append(s, x)[Len(s) + 1] = x
         /\ \A i \in DOMAIN s : Append(s, x)[i] = s[i]
<1>1. s \in Seq(S \cup {x})
  BY SeqMonotonic
<1>2. Len(s) \in Nat /\ DOMAIN s = 1..Len(s)
  BY LenProperties
<1>3. /\ Append(s, x) \in Seq(S \cup {x}) /\ Len(Append(s, x)) = Len(s) + 1
      /\ \A i \in 1..Len(s) : Append(s, x)[i] = s[i]
      /\ Append(s, x)[Len(s) + 1] = x
  BY <1>1, AppendProperties
<1>4. DOMAIN Append(s, x) = 1..(Len(s) + 1)
  BY <1>3, LenProperties
<1>5. QED
  BY <1>2, <1>3, <1>4

(***************************************************************************)
(* The file: what its rows say                                             *)
(***************************************************************************)
Goals == Made(DOMAIN decisions, "create_goal")
Proposed == Made(DOMAIN decisions, "propose_action")
Acts(n) == decisions[n].kind # "wait"

EngineTypes ==
  /\ bound \in {None} \cup Limit
  /\ late \in BOOLEAN
  /\ observed \in [Observations -> {None} \cup Item]
  /\ remote \in [Runs -> {None} \cup RunStates] /\ heard \subseteq Runs \X RunStates
  /\ feedbacks \subseteq Observations

Columns == {"kind", "concern", "assessment", "phase", "key", "evidence", "invalidations", "context"}

\* A decision to wait concerns nothing and settles no invalidation; a goal answers a gap.
Row(d) ==
  /\ d.kind \in Kinds
  /\ d.kind = "wait" => d.concern = None /\ d.invalidations = {}
  /\ d.kind = "create_goal" => d.concern \in Concerns /\ d.phase = "gap"
  /\ d.context.items \subseteq Item

Rows ==
  /\ \E S : decisions \in Seq(S)
  /\ \A n \in DOMAIN decisions : Row(decisions[n])
  /\ bound = None => decisions = <<>>

\* A decision is acknowledged once, and the effects in the order they were
\* decided: only the newest one can be pending.
Acknowledged ==
  /\ applied \in Seq(DOMAIN decisions)
  /\ \A i, j \in DOMAIN applied : applied[i] = applied[j] => i = j
  /\ \A i, j \in DOMAIN applied : i < j /\ Acts(applied[i]) /\ Acts(applied[j]) => applied[i] < applied[j]
  /\ \A n \in DOMAIN decisions : Acts(n) /\ n \notin Applied => n = Len(decisions)

FileInv ==
  /\ EngineTypes /\ Rows /\ Acknowledged
  /\ Grounded /\ ReviewedOnce /\ RemoteAgrees
  /\ NothingForgotten /\ OneGoalAtATime /\ LimitsHold

-----------------------------------------------------------------------------
\* What the policies can come to, whichever of them it was.
Fits(d, x, limits) ==
  /\ DOMAIN d = Columns /\ d.kind \in Kinds
  /\ d.kind = "wait" => d.concern = None /\ d.invalidations = {}
  /\ d.invalidations \subseteq Reviews(x)
  /\ d.evidence \subseteq x.fresh
  /\ d.kind = "create_goal" =>
       d.concern \in Concerns /\ d.phase = "gap" /\ ~UnderWay(x.memory.concerns[d.concern])
  /\ d.kind = "propose_action" => Proposes(x, limits) /\ d.key = x.wants

LEMMA PlainFits ==
  ASSUME NEW x, NEW limits, NEW kind \in Kinds \ {"create_goal", "propose_action"}
  PROVE  Fits(Plain(kind), x, limits)
  BY DEF Fits, Plain, Columns, Kinds

LEMMA AnswerFits ==
  ASSUME NEW x, NEW limits, NEW a \in Assessment, NEW max, Answers(x, a, max) # "wait"
  PROVE  Fits(Responding(Answers(x, a, max), a), x, limits)
<1> DEFINE m == x.memory.concerns[a.concern]
           d == Responding(Answers(x, a, max), a)
<1>1. /\ a.obs \in x.fresh /\ Answers(x, a, max) \in {"reconsider", "create_goal"}
      /\ Answers(x, a, max) = "create_goal" => a.status = "gap" /\ ~UnderWay(m)
  <2> HIDE DEF m
  <2>1. Answers(x, a, max) = IF a.obs \in x.fresh THEN Response(a, m, max) ELSE "wait"
    BY DEF Answers, m
  <2>2. QED
    BY <2>1 DEF Response
<1>2. /\ DOMAIN d = Columns /\ d.kind = Answers(x, a, max) /\ d.concern = a.concern /\ d.phase = a.status
      /\ d.evidence = {a.obs} /\ d.invalidations = {}
  BY DEF Responding, Plain, Columns
<1>3. a.concern \in Concerns
  BY DEF Assessment
<1> HIDE DEF d
<1>4. Fits(d, x, limits)
  BY <1>1, <1>2, <1>3 DEF Fits, Kinds
<1>5. QED
  BY <1>4 DEF d

LEMMA ChoiceFits ==
  ASSUME NEW x, NEW limits, x.assessments \in Seq(Assessment),
         x.needs \in {None, "request_resource", "request_capability"}
  PROVE  Fits(Choice(x, limits), x, limits)
<1> DEFINE max == limits.episodes
           live == Live(x, max)
           first == CHOOSE k \in live : \A j \in live : k <= j
           a == x.assessments[first]
           answer == Responding(Answers(x, a, max), a)
           review == [Plain("reconsider") EXCEPT !.invalidations = Reviews(x)]
           request == [Plain("propose_action") EXCEPT !.key = x.wants]
<1>1. live # {} => Fits(answer, x, limits)
  <2> SUFFICES ASSUME live # {} PROVE Fits(answer, x, limits)
    OBVIOUS
  <2>1. Len(x.assessments) \in Nat /\ DOMAIN x.assessments = 1..Len(x.assessments)
    BY LenProperties
  <2>2. live \subseteq 1..Len(x.assessments)
    BY <2>1 DEF Live
  <2>3. first \in live
    <3> HIDE DEF live
    <3>1. \E k \in live : \A j \in live : k <= j
      BY <2>1, <2>2, HasFirst
    <3>2. QED
      BY <3>1
  <2>4. a \in Assessment /\ Answers(x, a, max) # "wait"
    <3> HIDE DEF first
    <3>1. first \in 1..Len(x.assessments) /\ Answers(x, x.assessments[first], max) # "wait"
      BY <2>1, <2>3 DEF Live
    <3>2. QED
      BY <3>1, ElementOfSeq
  <2> HIDE DEF a
  <2>5. QED
    BY <2>4, AnswerFits
<1>2. Fits(review, x, limits)
  BY DEF Fits, Plain, Columns, Kinds
<1>3. Proposes(x, limits) => Fits(request, x, limits)
  BY DEF Fits, Plain, Columns, Kinds
<1>4. Fits(Plain("wait"), x, limits) /\ (x.needs # None => Fits(Plain(x.needs), x, limits))
  BY PlainFits DEF Kinds
<1>5. Choice(x, limits) =
        IF Reviews(x) # {} THEN review
        ELSE IF live # {} THEN answer
        ELSE IF \E r \in Runs : x.memory.remotes[r] = "unknown" THEN Plain("wait")
        ELSE IF x.needs # None THEN Plain(x.needs)
        ELSE IF Proposes(x, limits) THEN request
        ELSE Plain("wait")
  BY DEF Choice
<1> HIDE DEF review, live, answer, request
<1>6. QED
  BY <1>1, <1>2, <1>3, <1>4, <1>5

\* A decision that is made: nothing was pending, and goals are within the budget.
LEMMA DecideEffect ==
  ASSUME NEW h \in Hosts, NEW in \in Inputs, Decide(h, in)
  PROVE  \E d : /\ decisions' = Append(decisions, d)
                /\ d.context = Context(in) /\ Fits(d, Context(in), Limits[h])
                /\ Pending = {} /\ Len(decisions) < Limits[h].decisions
                /\ d.kind = "create_goal" => ~(Cardinality(Goals) >= Limits[h].episodes)
                /\ Observe(h, in)
<1> DEFINE x == Context(in)
           choice == Choice(x, Limits[h])
           spent == Cardinality(Goals) >= Limits[h].episodes
           result == IF choice.kind = "create_goal" /\ spent THEN Plain("wait") ELSE choice
           d == [result EXCEPT !.context = x]
<1>1. /\ decisions' = Append(decisions, d) /\ Observe(h, in)
      /\ Pending = {} /\ Len(decisions) < Limits[h].decisions
  BY DEF Decide, MayDecide, Goals
<1>2. Fits(choice, x, Limits[h])
  <2>1. x.assessments \in Seq(Assessment) /\ x.needs \in {None, "request_resource", "request_capability"}
    BY EngineAssumption DEF Context
  <2> HIDE DEF x
  <2>2. QED
    BY <2>1, ChoiceFits
<1>3. Fits(Plain("wait"), x, Limits[h]) /\ Plain("wait").kind = "wait"
  <2> HIDE DEF x
  <2>1. Fits(Plain("wait"), x, Limits[h])
    BY PlainFits DEF Kinds
  <2>2. QED
    BY <2>1 DEF Plain
<1> HIDE DEF x, choice, spent
<1>4. Fits(result, x, Limits[h]) /\ (result.kind = "create_goal" => ~spent)
  BY <1>2, <1>3
<1> HIDE DEF result
<1>5. /\ d.context = x /\ DOMAIN d = DOMAIN result
      /\ \A f \in Columns \ {"context"} : d[f] = result[f]
  BY <1>4 DEF Fits, Columns
<1>6. /\ d.kind = result.kind /\ d.concern = result.concern /\ d.phase = result.phase /\ d.key = result.key
      /\ d.evidence = result.evidence /\ d.invalidations = result.invalidations
  BY <1>5 DEF Columns
<1> HIDE DEF d
<1>7. Fits(d, x, Limits[h])
  BY <1>4, <1>5, <1>6 DEF Fits
<1>8. QED
  BY <1>1, <1>4, <1>5, <1>6, <1>7 DEF x, spent

-----------------------------------------------------------------------------
GoalsOf(c) == {n \in Goals : decisions[n].concern = c}

LEMMA Numbers ==
  ASSUME Rows, Acknowledged
  PROVE  /\ Len(decisions) \in Nat /\ DOMAIN decisions = 1..Len(decisions) /\ DOMAIN decisions \subseteq Nat
         /\ Len(applied) \in Nat /\ DOMAIN applied = 1..Len(applied)
         /\ \A i \in DOMAIN applied : applied[i] \in DOMAIN decisions
         /\ Applied \subseteq DOMAIN decisions
<1>1. PICK S : decisions \in Seq(S)
  BY DEF Rows
<1>2. Len(decisions) \in Nat /\ DOMAIN decisions = 1..Len(decisions)
  BY <1>1, LenProperties
<1>3. Len(applied) \in Nat /\ DOMAIN applied = 1..Len(applied) /\ applied \in [1..Len(applied) -> DOMAIN decisions]
  BY LenProperties DEF Acknowledged
<1>4. QED
  BY <1>2, <1>3 DEF Applied

\* With nothing pending the journal tells all the subject has decided to do.
LEMMA Remembers ==
  ASSUME Rows, Acknowledged, Pending = {}
  PROVE  /\ Memory.actions = {decisions[n].key : n \in Proposed}
         /\ \A n \in DOMAIN decisions : decisions[n].invalidations \subseteq Memory.handled
         /\ \A c \in Concerns : Memory.concerns[c] = ConcernMemory(c)
<1>1. \A n \in DOMAIN decisions : Acts(n) => n \in Applied
  BY DEF Pending, Acts
<1>2. Made(Applied, "propose_action") = Proposed
  BY <1>1, Numbers DEF Made, Proposed, Acts
<1>3. /\ Memory.actions = {decisions[n].key : n \in Made(Applied, "propose_action")}
      /\ Memory.handled = UNION {decisions[n].invalidations : n \in Applied}
      /\ Memory.concerns = [c \in Concerns |-> ConcernMemory(c)]
  BY DEF Memory
<1>4. \A n \in DOMAIN decisions : decisions[n].invalidations \subseteq Memory.handled
  BY <1>1, <1>3 DEF Rows, Row, Acts
<1>5. QED
  BY <1>2, <1>3, <1>4

\* ... of each concern: how many goals, and when the last of them was reached.
LEMMA RemembersGoals ==
  ASSUME Rows, Acknowledged, Pending = {}, NEW c \in Concerns
  PROVE  /\ ConcernMemory(c).episodes = Cardinality(GoalsOf(c))
         /\ ~UnderWay(ConcernMemory(c)) =>
              \A m \in GoalsOf(c) : \E k \in Applied :
                m < k /\ decisions[k].concern = c /\ decisions[k].phase = "aligned"
<1> DEFINE events == EventsOf(c)
           goals == {i \in events : decisions[applied[i]].kind = "create_goal"}
           memory == ConcernMemory(c)
<1>1. /\ memory.episodes = Cardinality(goals)
      /\ memory.goal = IF goals = {} THEN None ELSE applied[LastOf(goals)]
      /\ events # {} => memory.phase = decisions[applied[LastOf(events)]].phase
  BY DEF ConcernMemory
<1>2. events \subseteq DOMAIN applied /\ goals \subseteq events
  BY DEF EventsOf
<1>3. \A m \in GoalsOf(c) : \E i \in goals : applied[i] = m
  <2> SUFFICES ASSUME NEW m \in GoalsOf(c) PROVE \E i \in goals : applied[i] = m
    OBVIOUS
  <2>1. m \in DOMAIN decisions /\ decisions[m].kind = "create_goal" /\ decisions[m].concern = c
    BY DEF GoalsOf, Goals, Made
  <2>2. m \in Applied
    BY <2>1 DEF Pending
  <2>3. QED
    BY <2>1, <2>2 DEF Applied, EventsOf
<1>4. \A i \in goals : applied[i] \in GoalsOf(c)
  BY Numbers DEF EventsOf, GoalsOf, Goals, Made
<1>5. Cardinality(goals) = Cardinality(GoalsOf(c))
  <2> DEFINE f == [i \in goals |-> applied[i]]
  <2>1. IsFiniteSet(goals)
    <3>1. IsFiniteSet(1..Len(applied)) /\ goals \subseteq 1..Len(applied)
      BY <1>2, Numbers, FS_Interval
    <3> HIDE DEF goals
    <3>2. QED
      BY <3>1, FS_Subset
  <2>2. \A x, y \in goals : f[x] = f[y] => x = y
    BY <1>2 DEF Acknowledged
  <2>3. f \in [goals -> GoalsOf(c)] /\ \A y \in GoalsOf(c) : \E x \in goals : f[x] = y
    BY <1>3, <1>4
  <2> HIDE DEF f, goals
  <2>4. QED
    BY <2>1, <2>2, <2>3, SameSize
<1>6. ASSUME ~UnderWay(memory), NEW m \in GoalsOf(c)
      PROVE  \E k \in Applied : m < k /\ decisions[k].concern = c /\ decisions[k].phase = "aligned"
  <2>1. PICK i \in goals : applied[i] = m
    BY <1>3
  <2>2. LastOf(goals) \in goals /\ LastOf(events) \in events /\ \A j \in events : j <= LastOf(events)
    <3>1. goals # {} /\ events # {} /\ goals \subseteq 1..Len(applied) /\ events \subseteq 1..Len(applied)
      BY <1>2, <2>1, Numbers
    <3> HIDE DEF goals, events
    <3>2. QED
      BY <3>1, Numbers, HasLast
  <2> DEFINE last == LastOf(events)
             k == applied[last]
  <2>3. memory.goal # None
    <3>1. memory.goal \in Nat
      BY <1>1, <1>2, <2>1, <2>2, Numbers
    <3>2. QED
      BY <3>1, EngineAssumption
  <2>4. memory.phase = decisions[k].phase /\ memory.phase = "aligned"
    BY <1>1, <1>6, <2>2, <2>3 DEF UnderWay
  <2> HIDE DEF memory
  <2>5. last \in DOMAIN applied /\ k \in Applied /\ k \in DOMAIN decisions /\ decisions[k].concern = c
    BY <2>2, Numbers DEF EventsOf, Applied
  <2>6. decisions[m].phase = "gap" /\ Acts(m) /\ m \in DOMAIN decisions
    BY DEF GoalsOf, Goals, Made, Acts, Rows, Row
  <2>7. Acts(k)
    BY <2>5, EngineAssumption DEF Acts, Rows, Row
  <2>8. i \in DOMAIN applied /\ i # last /\ i <= last
    BY <1>2, <2>1, <2>2, <2>4, <2>6
  <2>9. i < last
    <3>1. i \in Nat /\ last \in Nat
      BY <2>5, <2>8, Numbers
    <3> HIDE DEF last
    <3>2. QED
      BY <2>8, <3>1
  <2>10. m < k
    BY <2>1, <2>5, <2>6, <2>7, <2>8, <2>9 DEF Acknowledged
  <2>11. QED
    BY <2>4, <2>5, <2>10
<1>7. QED
  BY <1>1, <1>5, <1>6

-----------------------------------------------------------------------------
GoalsBefore(n, c) == {m \in Before(n, "create_goal") : decisions[m].concern = c}
KeysBefore(n) == {decisions[m].key : m \in Before(n, "propose_action")}

LimitsUnder(limit) ==
  /\ Len(decisions) <= limit.decisions
  /\ Cardinality(Goals) <= limit.episodes
  /\ Cardinality(Proposed) <= limit.requests
  /\ \A m, n \in Proposed : decisions[m].key = decisions[n].key => m = n

LEMMA InitFile == Init => FileInv
<1> SUFFICES ASSUME Init PROVE FileInv
  OBVIOUS
<1>1. decisions = <<>> /\ applied = <<>> /\ bound = None /\ heard = {} /\ remote = [r \in Runs |-> None]
  BY DEF Init
<1>2. EngineTypes
  BY DEF Init, EngineTypes
<1>3. decisions \in Seq({}) /\ DOMAIN decisions = {} /\ applied \in Seq(DOMAIN decisions) /\ DOMAIN applied = {}
  BY <1>1
<1>4. Rows /\ Acknowledged
  BY <1>1, <1>3 DEF Rows, Acknowledged
<1>5. Grounded /\ ReviewedOnce /\ NothingForgotten /\ OneGoalAtATime
  BY <1>3 DEF Grounded, ReviewedOnce, NothingForgotten, OneGoalAtATime, Made
<1>6. RemoteAgrees /\ LimitsHold
  BY <1>1 DEF RemoteAgrees, LimitsHold
<1>7. QED
  BY <1>2, <1>4, <1>5, <1>6 DEF FileInv

LEMMA SameFile ==
  ASSUME FileInv, UNCHANGED <<bound, decisions, applied, observed>>, EngineTypes', RemoteAgrees'
  PROVE  FileInv'
<1>1. Rows' /\ Acknowledged'
  BY DEF FileInv, Rows, Row, Acknowledged, Acts, Applied
<1>2. Grounded' /\ ReviewedOnce' /\ NothingForgotten' /\ OneGoalAtATime' /\ LimitsHold'
  BY DEF FileInv, Grounded, ReviewedOnce, NothingForgotten, Before, OneGoalAtATime, LimitsHold, Made, Applied
<1>3. QED
  BY <1>1, <1>2 DEF FileInv

\* Observing takes nothing off the record, and the file is bound as it was or
\* for the first time, when it is empty.
LEMMA ObserveEffect ==
  ASSUME FileInv, NEW h \in Hosts, NEW in \in Inputs, Observe(h, in)
  PROVE  /\ EngineTypes' /\ RemoteAgrees' /\ bound' = Limits[h] /\ bound' # None /\ LimitsUnder(Limits[h])
         /\ Visible(in) \subseteq Item /\ \A o \in Visible(in) : o.readable /\ observed'[o.id] = o
         /\ \A o \in Item : observed[o.id] = o => observed'[o.id] = o
         /\ UNCHANGED <<late, applied, remote, heard, feedbacks>>
<1>1. /\ SameVersions(in) /\ Binds(h) /\ bound' = Limits[h]
      /\ observed' = [i \in Observations |->
           IF \E o \in Visible(in) : o.id = i THEN CHOOSE o \in Visible(in) : o.id = i ELSE observed[i]]
      /\ UNCHANGED <<late, applied, remote, heard, feedbacks>>
  BY DEF Observe
<1>2. Limits[h] \in Limit /\ bound' # None
  BY <1>1, EngineAssumption
<1>3. Visible(in) \subseteq Item /\ \A o \in Visible(in) : o.readable
  BY EngineAssumption DEF Visible
<1>4. \A o \in Visible(in) : observed'[o.id] = o
  <2> SUFFICES ASSUME NEW o \in Visible(in) PROVE observed'[o.id] = o
    OBVIOUS
  <2>1. o.id \in Observations
    BY <1>3 DEF Item
  <2>2. \A p \in Visible(in) : p.id = o.id => p = o
    BY <1>1 DEF SameVersions
  <2>3. observed'[o.id] = CHOOSE p \in Visible(in) : p.id = o.id
    BY <1>1, <2>1
  <2>4. QED
    BY <2>2, <2>3
<1>5. \A i \in Observations : observed'[i] = observed[i] \/ \E o \in Visible(in) : o.id = i /\ observed'[i] = o
  <2> SUFFICES ASSUME NEW i \in Observations, observed'[i] # observed[i]
               PROVE  \E o \in Visible(in) : o.id = i /\ observed'[i] = o
    OBVIOUS
  <2>1. PICK o \in Visible(in) : o.id = i
    BY <1>1
  <2>2. QED
    BY <1>4, <2>1
<1>6. observed' \in [Observations -> {None} \cup Item]
  <2>1. \A i \in Observations : observed'[i] \in {None} \cup Item
    BY <1>3, <1>5 DEF FileInv, EngineTypes
  <2>2. QED
    BY <1>1, <2>1
<1>7. ASSUME NEW o \in Item, observed[o.id] = o PROVE observed'[o.id] = o
  <2>1. o.id \in Observations /\ o # None
    BY EngineAssumption DEF Item
  <2>2. QED
    BY <1>1, <1>4, <1>5, <1>7, <2>1 DEF SameVersions
<1>8. EngineTypes'
  BY <1>1, <1>2, <1>6 DEF FileInv, EngineTypes
<1>9. RemoteAgrees'
  BY <1>1 DEF FileInv, RemoteAgrees
<1>10. LimitsUnder(Limits[h])
  <2>1. CASE bound = None
    <3>1. decisions = <<>>
      BY <2>1 DEF FileInv, Rows
    <3>2. Len(decisions) = 0 /\ Goals = {} /\ Proposed = {}
      BY <3>1 DEF Goals, Proposed, Made
    <3>3. Limits[h].decisions \in Nat /\ Limits[h].episodes \in Nat /\ Limits[h].requests \in Nat
      BY <1>2 DEF Limit
    <3>4. QED
      BY <3>2, <3>3, FS_EmptySet DEF LimitsUnder
  <2>2. CASE bound # None
    BY <1>1, <2>2 DEF FileInv, LimitsHold, LimitsUnder, Binds, Goals, Proposed
  <2>3. QED
    BY <2>1, <2>2
<1>11. QED
  BY <1>1, <1>2, <1>3, <1>4, <1>7, <1>8, <1>9, <1>10

LEMMA RecoverFile ==
  ASSUME FileInv, NEW h \in Hosts, NEW in \in Inputs, Recover(h, in)
  PROVE  FileInv'
<1>1. Observe(h, in) /\ decisions' = decisions
  BY DEF Recover
<1>2. /\ EngineTypes' /\ RemoteAgrees' /\ bound' = Limits[h] /\ bound' # None /\ LimitsUnder(Limits[h])
      /\ \A o \in Item : observed[o.id] = o => observed'[o.id] = o
      /\ applied' = applied
  BY <1>1, ObserveEffect
<1>3. Rows' /\ Acknowledged'
  BY <1>1, <1>2 DEF FileInv, Rows, Row, Acknowledged, Acts, Applied
<1>4. Grounded'
  BY <1>1, <1>2 DEF FileInv, Grounded, Rows, Row
<1>5. ReviewedOnce' /\ NothingForgotten' /\ OneGoalAtATime'
  BY <1>1, <1>2 DEF FileInv, ReviewedOnce, NothingForgotten, Before, OneGoalAtATime, Made, Applied
<1>6. LimitsHold'
  BY <1>1, <1>2 DEF LimitsHold, LimitsUnder, Goals, Proposed, Made
<1>7. QED
  BY <1>2, <1>3, <1>4, <1>5, <1>6 DEF FileInv

LEMMA AcknowledgeFile ==
  ASSUME FileInv, NEW n \in DOMAIN decisions, Acknowledge(n)
  PROVE  FileInv'
<1>1. /\ n \notin Applied /\ applied' = Append(applied, n)
      /\ UNCHANGED <<bound, late, observed, decisions, remote, heard, feedbacks>>
  BY DEF Acknowledge
<1>2. Rows /\ Acknowledged
  BY DEF FileInv
<1> DEFINE new == Len(applied) + 1
<1>3. /\ applied' \in Seq(DOMAIN decisions)
      /\ DOMAIN applied' = (DOMAIN applied) \cup {new} /\ applied'[new] = n
      /\ \A i \in DOMAIN applied : applied'[i] = applied[i]
  <2>1. applied \in Seq(DOMAIN decisions) /\ (DOMAIN decisions) \cup {n} = DOMAIN decisions
    BY <1>2 DEF Acknowledged
  <2>2. QED
    BY <1>1, <2>1, AppendRow
<1>4. Applied' = Applied \cup {n}
  BY <1>3 DEF Applied
<1>5. \A i \in DOMAIN applied : i < new /\ ~(new < i) /\ i # new
  BY <1>2, Numbers
<1> HIDE DEF new
<1>6. \A i, j \in DOMAIN applied' : applied'[i] = applied'[j] => i = j
  BY <1>1, <1>2, <1>3 DEF Acknowledged, Applied
<1>7. \A i, j \in DOMAIN applied' : i < j /\ Acts(applied'[i]) /\ Acts(applied'[j]) => applied'[i] < applied'[j]
  <2>1. ASSUME NEW i \in DOMAIN applied, Acts(applied[i]), Acts(n) PROVE applied[i] < n
    <3>1. n = Len(decisions)
      BY <1>1, <1>2, <2>1 DEF Acknowledged
    <3>2. applied[i] \in 1..Len(decisions) /\ applied[i] # n /\ Len(decisions) \in Nat
      BY <1>1, <1>2, Numbers DEF Applied
    <3>3. QED
      BY <3>1, <3>2
  <2>2. ~(new < new)
    BY <1>2, Numbers DEF new
  <2>3. QED
    BY <1>2, <1>3, <1>5, <2>1, <2>2 DEF Acknowledged
<1>8. Acknowledged'
  BY <1>1, <1>2, <1>3, <1>4, <1>6, <1>7 DEF Acknowledged, Acts
<1>9. EngineTypes' /\ Rows' /\ Grounded' /\ ReviewedOnce' /\ RemoteAgrees' /\ NothingForgotten' /\ LimitsHold'
  BY <1>1 DEF FileInv, EngineTypes, Rows, Row, Grounded, ReviewedOnce, RemoteAgrees, NothingForgotten, Before,
              LimitsHold, Made
<1>10. OneGoalAtATime'
  BY <1>1, <1>4 DEF FileInv, OneGoalAtATime, Made
<1>11. QED
  BY <1>8, <1>9, <1>10 DEF FileInv

LEMMA RemoteFile ==
  ASSUME FileInv, NEW r \in Runs, NEW s \in RunStates, RecordRemote(r, s)
  PROVE  FileInv'
<1>1. /\ remote[r] \in Terminal => s = remote[r]
      /\ remote' = [remote EXCEPT ![r] = s] /\ heard' = heard \cup {<<r, s>>}
      /\ UNCHANGED <<bound, late, observed, decisions, applied, feedbacks>>
  BY DEF RecordRemote, MayMove
<1>2. EngineTypes'
  BY <1>1 DEF FileInv, EngineTypes
<1>3. remote'[r] = s /\ \A q \in Runs \ {r} : remote'[q] = remote[q]
  BY <1>1 DEF FileInv, EngineTypes
<1>4. RemoteAgrees'
  <2> SUFFICES ASSUME NEW q \in Runs
               PROVE  /\ remote'[q] # None => remote'[q] \in RunStates /\ <<q, remote'[q]>> \in heard'
                      /\ \A t \in RunStates \cap Terminal : <<q, t>> \in heard' => remote'[q] = t
    BY DEF RemoteAgrees
  <2>1. /\ remote[q] # None => remote[q] \in RunStates /\ <<q, remote[q]>> \in heard
        /\ \A t \in RunStates \cap Terminal : <<q, t>> \in heard => remote[q] = t
    BY DEF FileInv, RemoteAgrees
  <2>2. CASE q = r
    BY <1>1, <1>3, <2>1, <2>2
  <2>3. CASE q # r
    BY <1>1, <1>3, <2>1, <2>3
  <2>4. QED
    BY <2>2, <2>3
<1>5. QED
  BY <1>1, <1>2, <1>4, SameFile

LEMMA DecideFile ==
  ASSUME FileInv, NEW h \in Hosts, NEW in \in Inputs, Decide(h, in)
  PROVE  FileInv'
<1> DEFINE x == Context(in)
           n == Len(decisions) + 1
           L == Limits[h]
<1>1. PICK d : /\ decisions' = Append(decisions, d)
               /\ d.context = x /\ Fits(d, x, L)
               /\ Pending = {} /\ Len(decisions) < L.decisions
               /\ d.kind = "create_goal" => ~(Cardinality(Goals) >= L.episodes)
               /\ Observe(h, in)
  BY DecideEffect
<1>2. /\ EngineTypes' /\ RemoteAgrees' /\ bound' = L /\ bound' # None /\ LimitsUnder(L)
      /\ Visible(in) \subseteq Item /\ \A o \in Visible(in) : o.readable /\ observed'[o.id] = o
      /\ \A o \in Item : observed[o.id] = o => observed'[o.id] = o
      /\ applied' = applied
  BY <1>1, ObserveEffect
<1>3. Rows /\ Acknowledged /\ NothingForgotten
  BY DEF FileInv
<1>4. /\ Len(decisions) \in Nat /\ DOMAIN decisions = 1..Len(decisions) /\ n \in Nat /\ n \notin DOMAIN decisions
      /\ Applied \subseteq DOMAIN decisions
  BY <1>3, Numbers
<1>5. /\ \E S : decisions' \in Seq(S)
      /\ DOMAIN decisions' = (DOMAIN decisions) \cup {n} /\ Len(decisions') = n
      /\ decisions'[n] = d /\ \A m \in DOMAIN decisions : decisions'[m] = decisions[m]
  <2>1. PICK S : decisions \in Seq(S)
    BY <1>3 DEF Rows
  <2>2. /\ Append(decisions, d) \in Seq(S \cup {d})
        /\ DOMAIN Append(decisions, d) = (DOMAIN decisions) \cup {n} /\ Len(Append(decisions, d)) = n
        /\ Append(decisions, d)[n] = d /\ \A m \in DOMAIN decisions : Append(decisions, d)[m] = decisions[m]
    BY <2>1, AppendRow
  <2>3. QED
    BY <1>1, <2>2
<1>6. /\ x.items = Visible(in) /\ x.memory = Memory
      /\ Reviews(x) = invalidations \ Memory.handled
  BY DEF Context, Reviews, Memory
<1>7. /\ Memory.actions = {decisions[m].key : m \in Proposed}
      /\ \A m \in DOMAIN decisions : decisions[m].invalidations \subseteq Memory.handled
      /\ \A c \in Concerns : Memory.concerns[c] = ConcernMemory(c)
  BY <1>1, <1>3, Remembers
<1> HIDE DEF x, n, L
<1>8. decisions' # <<>> /\ DOMAIN decisions' \subseteq Nat /\ \A m \in DOMAIN decisions : m < n /\ ~(n < m)
  <2>1. DOMAIN decisions' # {}
    BY <1>5
  <2>2. QED
    BY <1>4, <1>5, <2>1 DEF n
<1>9. Rows'
  <2>1. Row(d)'
    BY <1>1, <1>2, <1>6 DEF Row, Fits
  <2>2. \A m \in DOMAIN decisions : Row(decisions[m])'
    BY <1>3, <1>5 DEF Rows, Row
  <2>3. \A m \in DOMAIN decisions' : Row(decisions'[m])
    BY <1>5, <2>1, <2>2 DEF Row
  <2>4. QED
    BY <1>2, <1>5, <2>3 DEF Rows, Row
<1>10. Acknowledged'
  <2>1. applied \in Seq(DOMAIN decisions')
    BY <1>3, <1>5, SeqMonotonic DEF Acknowledged
  <2>2. \A i \in DOMAIN applied : applied[i] \in DOMAIN decisions
    BY <1>3, Numbers
  <2>3. \A i, j \in DOMAIN applied : i < j /\ decisions'[applied[i]].kind # "wait" /\ decisions'[applied[j]].kind # "wait"
                                       => applied[i] < applied[j]
    BY <1>3, <1>5, <2>2 DEF Acknowledged, Acts
  <2>4. \A m \in DOMAIN decisions' : decisions'[m].kind # "wait" /\ m \notin Applied => m = n
    BY <1>1, <1>5 DEF Pending
  <2>5. QED
    BY <1>2, <1>3, <1>5, <2>1, <2>3, <2>4 DEF Acknowledged, Acts, Applied
<1>11. Grounded'
  <2>1. d.evidence \subseteq d.context.fresh /\ \A o \in d.context.items : o.readable /\ observed'[o.id] = o
    BY <1>1, <1>2, <1>6 DEF Fits
  <2>2. \A m \in DOMAIN decisions : /\ decisions[m].evidence \subseteq decisions[m].context.fresh
                                    /\ \A o \in decisions[m].context.items : o.readable /\ observed'[o.id] = o
    BY <1>2, <1>3 DEF FileInv, Grounded, Rows, Row
  <2>3. \A m \in DOMAIN decisions' : /\ decisions'[m].evidence \subseteq decisions'[m].context.fresh
                                     /\ \A o \in decisions'[m].context.items : o.readable /\ observed'[o.id] = o
    BY <1>5, <2>1, <2>2
  <2>4. QED
    BY <2>3 DEF Grounded
<1>12. ReviewedOnce'
  <2>1. \A m \in DOMAIN decisions : decisions[m].invalidations \cap d.invalidations = {}
    BY <1>1, <1>6, <1>7 DEF Fits
  <2>2. QED
    BY <1>5, <2>1 DEF FileInv, ReviewedOnce
<1>13. /\ Goals' = IF d.kind = "create_goal" THEN Goals \cup {n} ELSE Goals
       /\ Proposed' = IF d.kind = "propose_action" THEN Proposed \cup {n} ELSE Proposed
       /\ Goals \subseteq DOMAIN decisions /\ Proposed \subseteq DOMAIN decisions
       /\ IsFiniteSet(Goals) /\ IsFiniteSet(Proposed)
  <2>1. Goals \subseteq DOMAIN decisions /\ Proposed \subseteq DOMAIN decisions
    BY DEF Goals, Proposed, Made
  <2>2. IsFiniteSet(DOMAIN decisions)
    BY <1>4, FS_Interval
  <2>3. IsFiniteSet(Goals) /\ IsFiniteSet(Proposed)
    BY <2>1, <2>2, FS_Subset
  <2>4. Goals' = IF d.kind = "create_goal" THEN Goals \cup {n} ELSE Goals
    BY <1>5 DEF Goals, Made
  <2>5. Proposed' = IF d.kind = "propose_action" THEN Proposed \cup {n} ELSE Proposed
    BY <1>5 DEF Proposed, Made
  <2>6. QED
    BY <2>1, <2>3, <2>4, <2>5
<1>14. \A m \in DOMAIN decisions', kind \in Kinds : Before(m, kind)' = Before(m, kind)
  <2> SUFFICES ASSUME NEW m \in DOMAIN decisions', NEW kind \in Kinds PROVE Before(m, kind)' = Before(m, kind)
    OBVIOUS
  <2>1. 1..(m - 1) \subseteq DOMAIN decisions
    BY <1>4, <1>5 DEF n
  <2>2. QED
    BY <1>5, <2>1 DEF Before
<1>15. Before(n, "create_goal") = Goals /\ Before(n, "propose_action") = Proposed
  <2>1. 1..(n - 1) = DOMAIN decisions
    BY <1>4 DEF n
  <2>2. QED
    BY <2>1 DEF Before, Goals, Proposed, Made
<1>16. NothingForgotten'
  <2>1. \A m \in DOMAIN decisions' : Before(m, "create_goal") \cup Before(m, "propose_action") \subseteq DOMAIN decisions
    BY <1>4, <1>5 DEF Before, n
  <2>2. \A m \in DOMAIN decisions' :
          (\A c : GoalsBefore(m, c)' = GoalsBefore(m, c)) /\ KeysBefore(m)' = KeysBefore(m)
    BY <1>5, <1>14, <2>1 DEF GoalsBefore, KeysBefore, Kinds
  <2>3. \A m \in DOMAIN decisions :
          /\ \A c \in Concerns : decisions[m].context.memory.concerns[c].episodes = Cardinality(GoalsBefore(m, c))
          /\ decisions[m].context.memory.actions = KeysBefore(m)
    BY <1>3 DEF NothingForgotten, GoalsBefore, KeysBefore
  <2>4. \A c \in Concerns : GoalsBefore(n, c) = GoalsOf(c)
    BY <1>15 DEF GoalsBefore, GoalsOf
  <2>5. \A c \in Concerns : Memory.concerns[c].episodes = Cardinality(GoalsBefore(n, c))
    BY <1>1, <1>3, <1>7, <2>4, RemembersGoals
  <2>6. Memory.actions = KeysBefore(n)
    BY <1>7, <1>15 DEF KeysBefore
  <2>7. \A m \in DOMAIN decisions' :
          /\ \A c \in Concerns : decisions'[m].context.memory.concerns[c].episodes = Cardinality(GoalsBefore(m, c)')
          /\ decisions'[m].context.memory.actions = KeysBefore(m)'
    BY <1>1, <1>5, <1>6, <2>2, <2>3, <2>5, <2>6
  <2>8. QED
    BY <2>7 DEF NothingForgotten, GoalsBefore, KeysBefore
<1>17. OneGoalAtATime'
  <2> DEFINE Reached(m, g) == \E k \in (m + 1)..(g - 1) :
               k \in Applied /\ decisions'[k].concern = decisions'[g].concern /\ decisions'[k].phase = "aligned"
  <2>1. ASSUME NEW m \in Goals, NEW g \in Goals, m < g, decisions[m].concern = decisions[g].concern
        PROVE  Reached(m, g)
    <3>1. PICK k \in (m + 1)..(g - 1) :
            k \in Applied /\ decisions[k].concern = decisions[g].concern /\ decisions[k].phase = "aligned"
      BY <2>1 DEF FileInv, OneGoalAtATime, Goals
    <3>2. QED
      BY <1>4, <1>5, <1>13, <3>1
  <2>2. ASSUME NEW m \in Goals, d.kind = "create_goal", decisions[m].concern = d.concern
        PROVE  Reached(m, n)
    <3>1. d.concern \in Concerns /\ ~UnderWay(ConcernMemory(d.concern)) /\ m \in GoalsOf(d.concern)
      BY <1>1, <1>6, <1>7, <2>2 DEF Fits, GoalsOf
    <3>2. PICK k \in Applied : m < k /\ decisions[k].concern = d.concern /\ decisions[k].phase = "aligned"
      BY <1>1, <1>3, <3>1, RemembersGoals
    <3>3. k \in DOMAIN decisions /\ m \in DOMAIN decisions /\ n \in Nat
      BY <1>4, <1>13
    <3>4. k \in (m + 1)..(n - 1)
      BY <1>4, <3>2, <3>3 DEF n
    <3>5. QED
      BY <1>5, <3>2, <3>3, <3>4
  <2>3. \A m, g \in Goals' : m < g /\ decisions'[m].concern = decisions'[g].concern => Reached(m, g)
    <3> HIDE DEF Reached
    <3>1. \A m \in Goals : decisions'[m] = decisions[m] /\ m \in DOMAIN decisions
      BY <1>5, <1>13
    <3>2. \A m \in Goals' : m # n => m \in Goals
      BY <1>13
    <3>3. n \in Goals' => d.kind = "create_goal"
      BY <1>4, <1>13
    <3>4. ~(n < n)
      BY <1>4
    <3>5. QED
      BY <1>5, <1>8, <2>1, <2>2, <3>1, <3>2, <3>3, <3>4
  <2>4. Applied' = Applied
    BY <1>2 DEF Applied
  <2>5. QED
    BY <2>3, <2>4 DEF OneGoalAtATime, Goals
<1>18. LimitsHold'
  <2>1. L \in Limit /\ L.decisions \in Nat /\ L.episodes \in Nat /\ L.requests \in Nat
    BY EngineAssumption DEF Limit, L
  <2>2. Len(decisions') <= L.decisions
    BY <1>1, <1>4, <1>5, <2>1 DEF n
  <2>3. n \notin Goals /\ n \notin Proposed
    BY <1>4, <1>13
  <2>4. Cardinality(Goals') <= L.episodes
    <3>1. Cardinality(Goals) \in Nat /\ Cardinality(Goals \cup {n}) = Cardinality(Goals) + 1
      BY <1>13, <2>3, FS_CardinalityType, FS_AddElement
    <3>2. QED
      BY <1>1, <1>2, <1>13, <2>1, <3>1 DEF LimitsUnder
  <2>5. Cardinality(Proposed) = Cardinality({decisions[m].key : m \in Proposed})
    <3> DEFINE f == [m \in Proposed |-> decisions[m].key]
               T == {decisions[m].key : m \in Proposed}
    <3>1. f \in [Proposed -> T] /\ \A y \in T : \E m \in Proposed : f[m] = y
      OBVIOUS
    <3>2. \A m, q \in Proposed : f[m] = f[q] => m = q
      BY <1>2 DEF LimitsUnder
    <3> HIDE DEF f, T
    <3>3. Cardinality(T) = Cardinality(Proposed)
      BY <1>13, <3>1, <3>2, SameSize
    <3>4. QED
      BY <3>3 DEF T
  <2>6. d.kind = "propose_action" =>
          Cardinality(Proposed) < L.requests /\ \A m \in Proposed : decisions[m].key # d.key
    BY <1>1, <1>6, <1>7, <2>5 DEF Fits, Proposes
  <2>7. Cardinality(Proposed') <= L.requests
    <3>1. Cardinality(Proposed) \in Nat /\ Cardinality(Proposed \cup {n}) = Cardinality(Proposed) + 1
      BY <1>13, <2>3, FS_CardinalityType, FS_AddElement
    <3>2. QED
      BY <1>2, <1>13, <2>1, <2>6, <3>1 DEF LimitsUnder
  <2>8. \A m, q \in Proposed' : decisions'[m].key = decisions'[q].key => m = q
    <3>1. \A m \in Proposed : decisions'[m] = decisions[m]
      BY <1>5, <1>13
    <3>2. QED
      BY <1>2, <1>5, <1>13, <2>6, <3>1 DEF LimitsUnder
  <2>9. QED
    BY <1>2, <2>2, <2>4, <2>7, <2>8 DEF LimitsHold, Goals, Proposed
<1>19. QED
  BY <1>2, <1>9, <1>10, <1>11, <1>12, <1>16, <1>17, <1>18 DEF FileInv

LEMMA NextFile == FileInv /\ [Next]_vars => FileInv'
<1> SUFFICES ASSUME FileInv, [Next]_vars PROVE FileInv'
  OBVIOUS
<1>1. CASE UNCHANGED engine
  <2>1. EngineTypes' /\ RemoteAgrees'
    BY <1>1 DEF engine, FileInv, EngineTypes, RemoteAgrees
  <2>2. QED
    BY <1>1, <2>1, SameFile DEF engine
<1>2. ASSUME NEW o \in Observations, Feedback(o) PROVE FileInv'
  <2>1. EngineTypes' /\ RemoteAgrees'
    BY <1>2 DEF Feedback, FileInv, EngineTypes, RemoteAgrees
  <2>2. QED
    BY <1>2, <2>1, SameFile DEF Feedback
<1>3. CASE Expire
  <2>1. EngineTypes' /\ RemoteAgrees'
    BY <1>3 DEF Expire, FileInv, EngineTypes, RemoteAgrees
  <2>2. QED
    BY <1>3, <2>1, SameFile DEF Expire
<1>4. CASE UNCHANGED vars
  BY <1>1, <1>4 DEF vars
<1>5. QED
  BY <1>1, <1>2, <1>3, <1>4, RecoverFile, DecideFile, AcknowledgeFile, RemoteFile DEF Next

LEMMA FileAlways == Spec => [](LearnedTypeOK /\ FileInv)
  BY InitLessons, NextLessons, InitFile, NextFile, PTL DEF Spec

-----------------------------------------------------------------------------
\* The file is a true record: rows are well typed, the evidence of a decision is
\* still on record as its subject could read it, no invalidation is reconsidered
\* twice, and the final result of a run is the journalled one (cycle and
\* record_remote_result of EvolutionEngine).
THEOREM RecordIsTrue == Spec => []Safe
<1>1. LearnedTypeOK /\ FileInv => Safe
  BY DEF FileInv, Safe, TypeOK, EngineTypes, Rows, Row, Acknowledged
<1>2. QED
  BY <1>1, FileAlways, PTL

\* A decision is made knowing the effect of every decision before it, whichever
\* host made or acknowledged it, and however late: a host that finds an effect
\* not acknowledged recovers it and decides nothing new (the memory read back
\* from the journal, and the pending effects, in cycle of EvolutionEngine).
THEOREM DecisionsAreInformed == Spec => []NothingForgotten
  BY FileAlways, PTL DEF FileInv

\* No second goal is created for a concern before the first was seen reached
\* (feedback_decision, over the memory of acknowledged decisions).
THEOREM GoalsFollowOneAnother == Spec => []OneGoalAtATime
  BY FileAlways, PTL DEF FileInv

\* The limits the file was first bound to hold over all its hosts and their
\* crashes: decisions, goals, and requests under distinct keys (the metadata
\* check of EvolutionEngine, and the budgets of the policies).
THEOREM LimitsAreKept == Spec => []LimitsHold
  BY FileAlways, PTL DEF FileInv
=============================================================================
