--------------------- MODULE CollaborationJournal_proofs ---------------------
(***************************************************************************)
(* Proofs about CollaborationJournal, for any actors, terms, requests,     *)
(* instances and additive configurations.                                  *)
(***************************************************************************)
EXTENDS CollaborationJournal, FiniteSetTheorems, TLAPS

RecordsTyped ==
  /\ owner \in [Goals -> Actors \cup {None}] /\ revision \in [Goals -> Nat]
  /\ impacts \subseteq Goals \X Nat \X Commitments
  /\ terms \in [Commitments -> Terms \cup {None}]
  /\ accepted \in [Commitments -> SUBSET Actors]
  /\ status \in [Commitments -> {"none", "proposed", "active", "superseded", "adopted"}]
  /\ artifact \in [Artifacts -> Artifact \cup {None}]
  /\ adoptions \subseteq [commitment : Commitments, artifact : Artifacts, current : BOOLEAN]

\* Terms, consents and status of one commitment agree; its basis was in force.
CommitmentInv(c) ==
  /\ status[c] = "none" <=> terms[c] = None
  /\ status[c] = "none" => accepted[c] = {}
  /\ terms[c] # None =>
       /\ terms[c].id = c
       /\ {terms[c].requester, terms[c].provider} \subseteq terms[c].parties
       /\ \A v \in terms[c].verifiers : MayVerify(v, terms[c])
       /\ accepted[c] \subseteq terms[c].parties
       /\ status[c] \in InForceOnce => accepted[c] = terms[c].parties
       /\ terms[c].revision <= revision[terms[c].goal]
  /\ Basis(c) # None =>
       /\ Basis(c) # c /\ Basis(c) \in Commitments
       /\ status[Basis(c)] \in InForceOnce
       /\ terms[Basis(c)].parties \subseteq terms[c].parties

\* A commitment is superseded exactly when an amendment of it came into force,
\* and only one ever does.
HeirInv ==
  /\ \A c, d \in Commitments :
       /\ status[c] \in InForceOnce /\ status[d] \in InForceOnce
       /\ Basis(c) # None /\ Basis(c) = Basis(d)
       => c = d
  /\ \A d \in Commitments : status[d] \in InForceOnce /\ Basis(d) # None => status[Basis(d)] = "superseded"
  /\ \A c \in Commitments : status[c] = "superseded" =>
       \E d \in Commitments : Basis(d) = c /\ status[d] \in InForceOnce

\* One verdict per verifier; an adoption stands on passes that never change.
WorkInv ==
  /\ \A a \in Artifacts : artifact[a] # None =>
       \A r, s \in artifact[a].reviews : r.verifier = s.verifier => r = s
  /\ \A d \in adoptions :
       /\ status[d.commitment] = "adopted"
       /\ artifact[d.artifact] # None /\ artifact[d.artifact].of = d.commitment
       /\ AllPassed(terms[d.commitment], d.artifact)
  /\ \A c \in Commitments : status[c] = "adopted" => \E d \in adoptions : d.commitment = c
  /\ \A d, e \in adoptions : d.commitment = e.commitment => d = e

\* A goal that was never created has no revision.
GoalsInv == \A g \in Goals : owner[g] = None => revision[g] = 0

RecordsInv ==
  /\ RecordsTyped
  /\ GoalsInv
  /\ \A c \in Commitments : CommitmentInv(c)
  /\ HeirInv
  /\ WorkInv
  /\ NoSilentRevision

HostsTyped ==
  /\ binding \in Versions
  /\ opened \in [Instances -> Versions \cup {0}]

ReceiptsInv ==
  /\ receipts \subseteq Requests /\ told \subseteq Requests \X Requests
  /\ IsFiniteSet(receipts)
  /\ ExactReplay
  /\ BudgetHolds

IInv == HostsTyped /\ RecordsInv /\ ReceiptsInv

-----------------------------------------------------------------------------
(* Small facts the steps rest on. *)

\* What terms are made of.
LEMMA TermsFacts ==
  ASSUME NEW t \in Terms
  PROVE  /\ t.id \in Commitments /\ t.goal \in Goals /\ t.revision \in Nat \ {0}
         /\ t.requester \in Actors /\ t.provider \in Actors
         /\ t.verifiers \subseteq Actors /\ t.profile \in Modes
         /\ t.supersedes \in Commitments \cup {None} /\ t.parties \subseteq Actors
         /\ t # None
<1>1. t # None
  BY JournalAssumption
<1>2. t \in [id : Commitments, goal : Goals, revision : Nat \ {0},
            requester : Actors, provider : Actors, verifiers : (SUBSET Actors) \ {{}},
            profile : Modes, supersedes : Commitments \cup {None}, parties : SUBSET Actors]
  BY JournalAssumption
<1>3. t.verifiers \in SUBSET Actors
  BY <1>2
<1>6. t.revision \in Nat \ {0}
  BY <1>2
<1>4. t.id \in Commitments /\ t.goal \in Goals /\ t.requester \in Actors /\ t.provider \in Actors
  BY <1>2
<1>5. t.profile \in Modes /\ t.supersedes \in Commitments \cup {None} /\ t.parties \subseteq Actors
  BY <1>2
<1>. QED BY <1>1, <1>3, <1>4, <1>5, <1>6

\* A configuration that is in force.
LEMMA ConfigFacts ==
  ASSUME NEW k \in Versions
  PROVE  Configs[k] \in [can : [Actors -> SUBSET Ops], profiles : SUBSET Modes, budget : Nat]
<1>. DEFINE S == [can : [Actors -> SUBSET Ops], profiles : SUBSET Modes, budget : Nat]
<1>1. Configs \in Seq(S)
  BY JournalAssumption
<1>. HIDE DEF S
<1>2. Configs[k] \in S
  BY <1>1 DEF Versions
<1>. QED BY <1>2 DEF S

\* The basis of a commitment is a commitment, or there is none.
LEMMA BasisType ==
  ASSUME RecordsTyped, NEW c \in Commitments
  PROVE  /\ Basis(c) \in Commitments \cup {None}
         /\ terms[c] # None => terms[c] \in Terms /\ Basis(c) = terms[c].supersedes
  BY TermsFacts DEF RecordsTyped, Basis

\* A step that leaves commitments, artifacts and adoptions alone and only adds
\* to goals keeps everything but the notice of revisions.
LEMMA GoalsOnly ==
  ASSUME RecordsInv, UNCHANGED <<commitments, artifact, adoptions>>,
         \A g \in Goals : revision[g] <= revision'[g], revision' \in [Goals -> Nat]
  PROVE  /\ \A c \in Commitments : CommitmentInv(c)'
         /\ HeirInv' /\ WorkInv'
<1>1. terms' = terms /\ accepted' = accepted /\ status' = status /\ artifact' = artifact /\ adoptions' = adoptions
  BY DEF commitments
<1>2. \A c \in Commitments : Basis(c)' = Basis(c)
  BY <1>1 DEF Basis
<1>3. ASSUME NEW c \in Commitments PROVE CommitmentInv(c)'
  <2>1. CommitmentInv(c)
    BY DEF RecordsInv
  <2>2. terms[c] # None => terms[c].revision <= revision'[terms[c].goal]
    <3>. SUFFICES ASSUME terms[c] # None PROVE terms[c].revision <= revision'[terms[c].goal]
      OBVIOUS
    <3>1. terms[c] \in Terms /\ terms[c].goal \in Goals /\ terms[c].revision \in Nat
      BY TermsFacts DEF RecordsInv, RecordsTyped
    <3>2. revision[terms[c].goal] \in Nat /\ revision'[terms[c].goal] \in Nat
      BY <3>1 DEF RecordsInv, RecordsTyped
    <3>. QED BY <2>1, <3>1, <3>2 DEF CommitmentInv
  <2>3. \A v, t : MayVerify(v, t)' = MayVerify(v, t)
    BY DEF MayVerify, Excluded
  <2>. QED BY <1>1, <1>2, <2>1, <2>2, <2>3 DEF CommitmentInv
<1>4. HeirInv'
  BY <1>1, <1>2 DEF RecordsInv, HeirInv
<1>5. WorkInv'
  BY <1>1 DEF RecordsInv, WorkInv, AllPassed
<1>. QED BY <1>3, <1>4, <1>5

\* A step that leaves goals, commitments and adoptions alone keeps what is
\* said of them.
LEMMA ArtifactsOnly ==
  ASSUME RecordsInv, UNCHANGED <<goals, commitments, adoptions>>
  PROVE  /\ GoalsInv' /\ (\A c \in Commitments : CommitmentInv(c)')
         /\ HeirInv' /\ NoSilentRevision'
<1>1. /\ owner' = owner /\ revision' = revision /\ impacts' = impacts
      /\ terms' = terms /\ accepted' = accepted /\ status' = status /\ adoptions' = adoptions
  BY DEF goals, commitments
<1>2. \A c : Basis(c)' = Basis(c)
  BY <1>1 DEF Basis
<1>3. \A v, t : MayVerify(v, t)' = MayVerify(v, t)
  BY DEF MayVerify, Excluded
<1>4. \A c \in Commitments : CommitmentInv(c)'
  BY <1>1, <1>2, <1>3 DEF RecordsInv, CommitmentInv
<1>5. HeirInv'
  BY <1>1, <1>2 DEF RecordsInv, HeirInv
<1>6. GoalsInv' /\ NoSilentRevision'
  BY <1>1 DEF RecordsInv, GoalsInv, NoSilentRevision
<1>. QED BY <1>4, <1>5, <1>6

-----------------------------------------------------------------------------
(* Each handler keeps the records' invariant. *)

LEMMA GoalCreateInv ==
  ASSUME RecordsInv, NEW actor \in Actors, NEW g \in Goals, GoalCreate(actor, g)
  PROVE  RecordsInv'
<1>1. RecordsTyped'
  BY DEF RecordsInv, RecordsTyped, GoalCreate, commitments
<1>2. revision[g] = 0 /\ revision' = [revision EXCEPT ![g] = 1] /\ revision \in [Goals -> Nat]
  BY DEF RecordsInv, RecordsTyped, GoalsInv, GoalCreate
<1>3. GoalsInv'
  BY <1>2, JournalAssumption DEF RecordsInv, RecordsTyped, GoalsInv, GoalCreate
<1>4. UNCHANGED <<commitments, artifact, adoptions>> /\ impacts' = impacts
  BY DEF GoalCreate
<1>5. \A h \in Goals : revision[h] <= revision'[h]
  BY <1>2
<1>6. (\A c \in Commitments : CommitmentInv(c)') /\ HeirInv' /\ WorkInv'
  BY <1>2, <1>4, <1>5, GoalsOnly, <1>1 DEF RecordsTyped
<1>7. NoSilentRevision'
  <2>1. terms' = terms /\ status' = status
    BY <1>4 DEF commitments
  <2>2. ASSUME NEW c \in Commitments, status[c] \in {"proposed", "active"}
        PROVE  terms[c].goal \in Goals /\ terms[c].goal # g
    <3>1. terms[c] # None /\ terms[c] \in Terms /\ terms[c].revision <= revision[terms[c].goal]
      BY <2>2, BasisType DEF RecordsInv, CommitmentInv
    <3>. QED BY <1>2, <3>1, TermsFacts
  <2>3. ASSUME NEW c \in Commitments, status[c] \in {"proposed", "active"}
        PROVE  revision'[terms[c].goal] = revision[terms[c].goal]
    BY <2>2, <2>3, <1>2
  <2>. QED BY <1>4, <2>1, <2>3 DEF RecordsInv, NoSilentRevision
<1>. QED BY <1>1, <1>3, <1>6, <1>7 DEF RecordsInv

LEMMA GoalReviseInv ==
  ASSUME RecordsInv, NEW actor \in Actors, NEW g \in Goals, NEW base \in Nat,
         GoalRevise(actor, g, base)
  PROVE  RecordsInv'
<1>1. /\ revision' = [revision EXCEPT ![g] = base + 1] /\ revision[g] = base
      /\ impacts' = impacts \cup ImpactRows(g, base + 1) /\ owner' = owner
      /\ revision \in [Goals -> Nat] /\ owner[g] # None
  BY JournalAssumption DEF RecordsInv, RecordsTyped, GoalRevise
<1>2. UNCHANGED <<commitments, artifact, adoptions>>
  BY DEF GoalRevise
<1>3. ImpactRows(g, base + 1) \subseteq Goals \X Nat \X Commitments
  BY DEF ImpactRows, Impacted
<1>4. RecordsTyped'
  BY <1>1, <1>2, <1>3 DEF RecordsInv, RecordsTyped, commitments
<1>5. GoalsInv'
  BY <1>1 DEF RecordsInv, GoalsInv
<1>6. \A h \in Goals : revision[h] <= revision'[h]
  BY <1>1
<1>7. (\A c \in Commitments : CommitmentInv(c)') /\ HeirInv' /\ WorkInv'
  BY <1>2, <1>4, <1>6, GoalsOnly DEF RecordsTyped
<1>8. NoSilentRevision'
  <2>1. terms' = terms /\ status' = status /\ adoptions' = adoptions
    BY <1>2 DEF commitments
  <2>2. ASSUME NEW c \in Commitments, status[c] \in {"proposed", "active"},
               NEW r \in (terms[c].revision + 1)..revision'[terms[c].goal]
        PROVE  <<terms[c].goal, r, c>> \in impacts'
    <3>1. terms[c] # None /\ terms[c] \in Terms
      BY <2>2, BasisType DEF RecordsInv, CommitmentInv
    <3>2. terms[c].goal \in Goals /\ terms[c].revision \in Nat
      BY <3>1, TermsFacts
    <3>3. CASE r \in (terms[c].revision + 1)..revision[terms[c].goal]
      BY <1>1, <2>2, <3>3 DEF RecordsInv, NoSilentRevision
    <3>4. CASE r \notin (terms[c].revision + 1)..revision[terms[c].goal]
      <4>1. terms[c].goal = g /\ r = base + 1
        BY <1>1, <3>2, <3>4
      <4>. QED BY <1>1, <2>2, <4>1 DEF ImpactRows, Impacted
    <3>. QED BY <3>3, <3>4
  <2>. QED BY <1>1, <2>1, <2>2 DEF RecordsInv, NoSilentRevision
<1>. QED BY <1>4, <1>5, <1>7, <1>8 DEF RecordsInv

LEMMA SubmitInv ==
  ASSUME RecordsInv, NEW actor \in Actors, NEW t \in Terms, NEW a \in Artifacts,
         Submit(actor, t, a)
  PROVE  RecordsInv'
<1>1. /\ artifact[a] = None /\ artifact' = [artifact EXCEPT ![a] = [of |-> t.id, reviews |-> {}]]
      /\ UNCHANGED <<goals, commitments, adoptions>>
  BY DEF Submit
<1>2. terms' = terms /\ status' = status /\ adoptions' = adoptions
  BY <1>1 DEF commitments
<1>3. [of |-> t.id, reviews |-> {}] \in Artifact
  BY TermsFacts DEF Artifact
<1>4. RecordsTyped'
  BY <1>1, <1>3 DEF RecordsInv, RecordsTyped, goals, commitments
<1>5. WorkInv'
  <2>1. \A d \in adoptions : artifact'[d.artifact] = artifact[d.artifact]
    BY <1>1 DEF RecordsInv, RecordsTyped, WorkInv
  <2>2. \A b \in Artifacts : b # a => artifact'[b] = artifact[b]
    BY <1>1 DEF RecordsInv, RecordsTyped
  <2>3. artifact'[a].reviews = {}
    BY <1>1 DEF RecordsInv, RecordsTyped
  <2>. QED BY <1>2, <2>1, <2>2, <2>3 DEF RecordsInv, WorkInv, AllPassed
<1>. QED BY <1>1, <1>4, <1>5, ArtifactsOnly DEF RecordsInv

LEMMA RecordReviewInv ==
  ASSUME RecordsInv, NEW actor \in Actors, NEW t \in Terms, NEW a \in Artifacts,
         NEW passed \in BOOLEAN, RecordReview(actor, t, a, passed)
  PROVE  RecordsInv'
<1>. DEFINE verdict == [verifier |-> actor, passed |-> passed]
<1>1. /\ artifact[a] # None /\ ReviewsBy(actor, a) = {}
      /\ artifact' = [artifact EXCEPT ![a].reviews = (@ \ ReviewsBy(actor, a)) \cup {verdict}]
      /\ UNCHANGED <<goals, commitments, adoptions>>
  BY DEF RecordReview, FirstReview
<1>2. terms' = terms /\ status' = status /\ adoptions' = adoptions
  BY <1>1 DEF commitments
<1>3. artifact[a] \in Artifact /\ verdict \in Review
  BY <1>1 DEF RecordsInv, RecordsTyped, Review
<1>4. artifact[a] \in [of : Commitments, reviews : SUBSET Review]
  BY <1>3 DEF Artifact
<1>5. /\ artifact'[a] = [of |-> artifact[a].of, reviews |-> artifact[a].reviews \cup {verdict}]
      /\ \A b \in Artifacts : b # a => artifact'[b] = artifact[b]
  BY <1>1, <1>4 DEF RecordsInv, RecordsTyped
<1>6. artifact'[a] \in Artifact
  BY <1>3, <1>4, <1>5 DEF Artifact
<1>7. RecordsTyped'
  <2>1. artifact' \in [Artifacts -> Artifact \cup {None}]
    BY <1>1, <1>5, <1>6 DEF RecordsInv, RecordsTyped
  <2>. QED BY <1>1, <2>1 DEF RecordsInv, RecordsTyped, goals, commitments
<1>8. WorkInv'
  <2>1. \A r \in artifact[a].reviews : r.verifier # actor
    BY <1>1 DEF ReviewsBy
  <2>2. ASSUME NEW b \in Artifacts, artifact'[b] # None,
               NEW r \in artifact'[b].reviews, NEW s \in artifact'[b].reviews,
               r.verifier = s.verifier
        PROVE  r = s
    BY <1>1, <1>5, <2>1, <2>2 DEF RecordsInv, WorkInv
  <2>3. \A d \in adoptions :
          /\ artifact'[d.artifact] # None /\ artifact'[d.artifact].of = artifact[d.artifact].of
          /\ artifact[d.artifact].reviews \subseteq artifact'[d.artifact].reviews
    <3>1. artifact'[a] # None
      BY <1>6, RequestAssumption
    <3>. QED BY <1>5, <3>1 DEF RecordsInv, RecordsTyped, WorkInv
  <2>. QED BY <1>2, <2>2, <2>3 DEF RecordsInv, WorkInv, AllPassed
<1>. QED BY <1>1, <1>7, <1>8, ArtifactsOnly DEF RecordsInv

LEMMA AdoptInv ==
  ASSUME RecordsInv, NEW actor \in Actors, NEW t \in Terms, NEW a \in Artifacts,
         Adopt(actor, t, a)
  PROVE  RecordsInv'
<1>. DEFINE new == [commitment |-> t.id, artifact |-> a, current |-> t.revision = revision[t.goal]]
<1>1. /\ artifact[a] # None /\ artifact[a].of = t.id
      /\ status[t.id] = "active" /\ terms[t.id] = t /\ AllPassed(t, a)
      /\ adoptions' = adoptions \cup {new}
      /\ status' = [status EXCEPT ![t.id] = "adopted"]
      /\ owner' = owner /\ revision' = revision /\ impacts' = impacts
      /\ terms' = terms /\ accepted' = accepted /\ artifact' = artifact
  BY DEF Adopt, Active, goals
<1>2. t.id \in Commitments /\ t # None /\ t.goal \in Goals /\ t.revision \in Nat
  BY TermsFacts
<1>3. RecordsTyped'
  <2>1. new \in [commitment : Commitments, artifact : Artifacts, current : BOOLEAN]
    BY <1>2
  <2>. HIDE DEF new
  <2>. QED BY <1>1, <2>1 DEF RecordsInv, RecordsTyped
<1>4. GoalsInv'
  BY <1>1 DEF RecordsInv, GoalsInv
<1>5. /\ status'[t.id] = "adopted"
      /\ \A c \in Commitments : c # t.id => status'[c] = status[c]
  BY <1>1, <1>2 DEF RecordsInv, RecordsTyped
<1>6. \A c : Basis(c)' = Basis(c)
  BY <1>1 DEF Basis
<1>7. ASSUME NEW c \in Commitments PROVE CommitmentInv(c)'
  <2>1. CommitmentInv(c)
    BY DEF RecordsInv
  <2>2. status'[c] \in InForceOnce <=> status[c] \in InForceOnce
    BY <1>1, <1>5 DEF InForceOnce
  <2>3. (status'[c] = "none" <=> status[c] = "none")
    BY <1>1, <1>5
  <2>4. Basis(c) # None => Basis(c) \in Commitments /\ status'[Basis(c)] \in InForceOnce
    BY <1>1, <1>5, <2>1 DEF CommitmentInv, InForceOnce
  <2>5. \A v, u : MayVerify(v, u)' = MayVerify(v, u)
    BY DEF MayVerify, Excluded
  <2>. QED BY <1>1, <1>6, <2>1, <2>2, <2>3, <2>4, <2>5 DEF CommitmentInv
<1>8. HeirInv'
  <2>1. \A c \in Commitments : status'[c] \in InForceOnce <=> status[c] \in InForceOnce
    BY <1>1, <1>5 DEF InForceOnce
  <2>2. \A c \in Commitments : status'[c] = "superseded" <=> status[c] = "superseded"
    BY <1>1, <1>5
  <2>3. \A c \in Commitments : Basis(c) \in Commitments \cup {None}
    BY BasisType DEF RecordsInv
  <2>. QED BY <1>6, <2>1, <2>2, <2>3 DEF RecordsInv, HeirInv
<1>9. WorkInv'
  <2>1. \A d \in adoptions : d.commitment # t.id /\ d.commitment \in Commitments
    BY <1>1 DEF RecordsInv, RecordsTyped, WorkInv
  <2>2. \A d \in adoptions' : \/ d \in adoptions /\ d.commitment # t.id
                              \/ d = new /\ d.commitment = t.id /\ d.artifact = a
    BY <1>1, <2>1
  <2>3. ASSUME NEW d \in adoptions'
        PROVE  /\ status'[d.commitment] = "adopted"
               /\ artifact'[d.artifact] # None /\ artifact'[d.artifact].of = d.commitment
               /\ AllPassed(terms[d.commitment], d.artifact)'
    <3>1. \A u, b : AllPassed(u, b)' = AllPassed(u, b)
      BY <1>1 DEF AllPassed
    <3>2. terms' = terms
      BY <1>1
    <3>3. CASE d \in adoptions /\ d.commitment # t.id
      <4>1. status'[d.commitment] = "adopted"
        BY <1>5, <2>1, <3>3 DEF RecordsInv, WorkInv
      <4>2. AllPassed(terms[d.commitment], d.artifact)'
        BY <1>1, <3>3 DEF RecordsInv, WorkInv, AllPassed
      <4>. QED BY <1>1, <3>3, <4>1, <4>2 DEF RecordsInv, WorkInv
    <3>4. CASE d.commitment = t.id /\ d.artifact = a
      <4>1. AllPassed(terms[d.commitment], d.artifact)'
        BY <1>1, <3>4 DEF AllPassed
      <4>. QED BY <1>1, <1>5, <3>4, <4>1
    <3>. QED BY <2>2, <3>3, <3>4
  <2>4. ASSUME NEW c \in Commitments, status'[c] = "adopted"
        PROVE  \E d \in adoptions' : d.commitment = c
    <3>1. new \in adoptions' /\ new.commitment = t.id /\ adoptions \subseteq adoptions'
      BY <1>1
    <3>. QED BY <1>5, <2>4, <3>1 DEF RecordsInv, WorkInv
  <2>5. \A d, e \in adoptions' : d.commitment = e.commitment => d = e
    BY <2>2 DEF RecordsInv, WorkInv
  <2>6. \A b \in Artifacts : artifact'[b] # None =>
          \A r, s \in artifact'[b].reviews : r.verifier = s.verifier => r = s
    BY <1>1 DEF RecordsInv, WorkInv
  <2>. QED BY <2>3, <2>4, <2>5, <2>6 DEF WorkInv
<1>10. NoSilentRevision'
  <2>1. ASSUME NEW c \in Commitments, status'[c] \in {"proposed", "active"}
        PROVE  \A r \in (terms[c].revision + 1)..revision[terms[c].goal] : <<terms[c].goal, r, c>> \in impacts
    BY <1>5, <2>1 DEF RecordsInv, NoSilentRevision
  <2>2. ASSUME t.revision # revision[t.goal]
        PROVE  <<t.goal, t.revision + 1, t.id>> \in impacts
    <3>1. t.revision <= revision[t.goal] /\ revision[t.goal] \in Nat
      BY <1>1, <1>2 DEF RecordsInv, RecordsTyped, CommitmentInv
    <3>2. t.revision + 1 \in (t.revision + 1)..revision[t.goal]
      BY <1>2, <2>2, <3>1
    <3>. QED BY <1>1, <1>2, <3>2 DEF RecordsInv, NoSilentRevision
  <2>3. ASSUME NEW d \in adoptions', NEW c \in Commitments, d.commitment = c, ~ d.current
        PROVE  <<terms[c].goal, terms[c].revision + 1, c>> \in impacts
    <3>1. CASE d \in adoptions
      BY <2>3, <3>1 DEF RecordsInv, NoSilentRevision
    <3>2. CASE d = new
      <4>1. c = t.id /\ t.revision # revision[t.goal]
        BY <2>3, <3>2
      <4>. QED BY <1>1, <2>2, <4>1
    <3>. QED BY <1>1, <3>1, <3>2
  <2>. QED BY <1>1, <2>1, <2>3 DEF NoSilentRevision
<1>. QED BY <1>3, <1>4, <1>7, <1>8, <1>9, <1>10 DEF RecordsInv

LEMMA ProposeInv ==
  ASSUME RecordsInv, NEW actor \in Actors, NEW t \in Terms, NEW conf, Propose(actor, t, conf)
  PROVE  RecordsInv'
<1>1. /\ t.requester = actor /\ t.revision = revision[t.goal]
      /\ \A v \in t.verifiers : MayVerify(v, t)
      /\ t.supersedes # None => status[t.supersedes] = "active"
      /\ t.parties = RequiredParties(t)
      /\ status[t.id] = "none"
      /\ terms' = [terms EXCEPT ![t.id] = t]
      /\ status' = [status EXCEPT ![t.id] = "proposed"]
      /\ owner' = owner /\ revision' = revision /\ impacts' = impacts
      /\ accepted' = accepted /\ artifact' = artifact /\ adoptions' = adoptions
  BY DEF Propose, goals
<1>2. /\ t.id \in Commitments /\ t # None /\ t.goal \in Goals /\ t.revision \in Nat
      /\ t.supersedes \in Commitments \cup {None}
  BY TermsFacts
<1>3. RecordsTyped'
  BY <1>1, <1>2 DEF RecordsInv, RecordsTyped
<1>4. GoalsInv'
  BY <1>1 DEF RecordsInv, GoalsInv
<1>5. /\ terms'[t.id] = t /\ status'[t.id] = "proposed" /\ Basis(t.id)' = t.supersedes
      /\ \A c \in Commitments : c # t.id =>
           terms'[c] = terms[c] /\ status'[c] = status[c] /\ Basis(c)' = Basis(c)
  BY <1>1, <1>2 DEF RecordsInv, RecordsTyped, Basis
<1>6. \A c \in Commitments : status'[c] \in InForceOnce <=> status[c] \in InForceOnce /\ c # t.id
  BY <1>1, <1>5 DEF InForceOnce
<1>7. \A v, u : MayVerify(v, u)' = MayVerify(v, u)
  BY DEF MayVerify, Excluded
<1>8. ASSUME NEW c \in Commitments PROVE CommitmentInv(c)'
  <2>1. CommitmentInv(c)
    BY DEF RecordsInv
  <2>2. CASE c = t.id
    <3>1. accepted[t.id] = {} /\ accepted' = accepted
      BY <1>1, <2>1, <2>2 DEF CommitmentInv
    <3>2. {t.requester, t.provider} \subseteq t.parties
      BY <1>1 DEF RequiredParties
    <3>3. t.supersedes # None =>
            /\ t.supersedes # t.id /\ t.supersedes \in Commitments
            /\ status'[t.supersedes] \in InForceOnce
            /\ terms'[t.supersedes].parties \subseteq t.parties
      BY <1>1, <1>2, <1>5 DEF RequiredParties, InForceOnce
    <3>4. t.revision <= revision[t.goal]
      BY <1>1, <1>2
    <3>. QED BY <1>1, <1>2, <1>5, <1>6, <1>7, <2>2, <3>1, <3>2, <3>3, <3>4 DEF CommitmentInv
  <2>3. CASE c # t.id
    <3>1. Basis(c) # None => Basis(c) # t.id
      BY <1>1, <2>1 DEF CommitmentInv, InForceOnce
    <3>. QED BY <1>1, <1>5, <1>6, <1>7, <2>1, <2>3, <3>1 DEF CommitmentInv
  <2>. QED BY <2>2, <2>3
<1>9. HeirInv'
  <2>1. \A c \in Commitments : status'[c] = "superseded" <=> status[c] = "superseded"
    BY <1>1, <1>5
  <2>2. \A c \in Commitments : Basis(c) \in Commitments \cup {None}
    BY BasisType DEF RecordsInv
  <2>3. ASSUME NEW d \in Commitments, status'[d] \in InForceOnce
        PROVE  /\ d # t.id /\ status[d] \in InForceOnce /\ Basis(d)' = Basis(d)
               /\ Basis(d) # None => status'[Basis(d)] = "superseded"
    BY <1>5, <1>6, <2>1, <2>2, <2>3 DEF RecordsInv, HeirInv
  <2>4. ASSUME NEW c \in Commitments, status'[c] = "superseded"
        PROVE  \E d \in Commitments : Basis(d)' = c /\ status'[d] \in InForceOnce
    <3>1. PICK d \in Commitments : Basis(d) = c /\ status[d] \in InForceOnce
      BY <2>1, <2>4 DEF RecordsInv, HeirInv
    <3>2. d # t.id
      BY <1>1, <3>1 DEF InForceOnce
    <3>. QED BY <1>5, <1>6, <3>1, <3>2
  <2>5. ASSUME NEW c \in Commitments, NEW d \in Commitments,
               status'[c] \in InForceOnce, status'[d] \in InForceOnce,
               Basis(c)' # None, Basis(c)' = Basis(d)'
        PROVE  c = d
    BY <2>3, <2>5 DEF RecordsInv, HeirInv
  <2>. QED BY <2>3, <2>4, <2>5 DEF HeirInv
<1>10. \A d \in adoptions : d.commitment \in Commitments /\ d.commitment # t.id
  BY <1>1 DEF RecordsInv, RecordsTyped, WorkInv
<1>11. WorkInv'
  <2>1. ASSUME NEW d \in adoptions
        PROVE  status'[d.commitment] = "adopted" /\ AllPassed(terms[d.commitment], d.artifact)'
    BY <1>1, <1>5, <1>10 DEF RecordsInv, WorkInv, AllPassed
  <2>2. \A c \in Commitments : status'[c] = "adopted" => status[c] = "adopted"
    BY <1>5
  <2>. QED BY <1>1, <2>1, <2>2 DEF RecordsInv, WorkInv
<1>12. NoSilentRevision'
  <2>1. ASSUME NEW c \in Commitments, status'[c] \in {"proposed", "active"},
               NEW r \in (terms'[c].revision + 1)..revision[terms'[c].goal]
        PROVE  <<terms'[c].goal, r, c>> \in impacts
    <3>1. CASE c = t.id
      BY <1>1, <1>2, <1>5, <2>1, <3>1
    <3>2. CASE c # t.id
      BY <1>5, <2>1, <3>2 DEF RecordsInv, NoSilentRevision
    <3>. QED BY <3>1, <3>2
  <2>. QED BY <1>1, <1>5, <1>10, <2>1 DEF RecordsInv, NoSilentRevision
<1>. QED BY <1>3, <1>4, <1>8, <1>9, <1>11, <1>12 DEF RecordsInv

LEMMA AcceptInv ==
  ASSUME RecordsInv, NEW actor \in Actors, NEW t \in Terms, Accept(actor, t)
  PROVE  RecordsInv'
<1>1. /\ status[t.id] \in {"proposed", "active"} /\ terms[t.id] = t
      /\ actor \in t.parties \ accepted[t.id]
      /\ accepted' = [accepted EXCEPT ![t.id] = @ \cup {actor}]
      /\ owner' = owner /\ revision' = revision /\ impacts' = impacts
      /\ terms' = terms /\ artifact' = artifact /\ adoptions' = adoptions
  BY DEF Accept, goals
<1>2. t.id \in Commitments /\ t # None /\ t.supersedes \in Commitments \cup {None}
  BY TermsFacts
<1>3. status[t.id] = "proposed"
  BY <1>1, <1>2 DEF RecordsInv, CommitmentInv, InForceOnce
<1>4. /\ accepted'[t.id] = accepted[t.id] \cup {actor}
      /\ \A c \in Commitments : c # t.id => accepted'[c] = accepted[c]
      /\ accepted' \in [Commitments -> SUBSET Actors]
  BY <1>1, <1>2 DEF RecordsInv, RecordsTyped
<1>5. \A c : Basis(c)' = Basis(c)
  BY <1>1 DEF Basis
<1>6. \A v, u : MayVerify(v, u)' = MayVerify(v, u)
  BY DEF MayVerify, Excluded
<1>7. Basis(t.id) = t.supersedes
  BY <1>1, <1>2 DEF Basis
<1>8. CASE accepted'[t.id] # t.parties
  <2>1. status' = status
    BY <1>8 DEF Accept
  <2>2. RecordsTyped' /\ GoalsInv'
    BY <1>1, <1>4, <2>1 DEF RecordsInv, RecordsTyped, GoalsInv
  <2>3. ASSUME NEW c \in Commitments PROVE CommitmentInv(c)'
    <3>1. CommitmentInv(c)
      BY DEF RecordsInv
    <3>2. CASE c # t.id
      BY <1>1, <1>4, <1>5, <1>6, <2>1, <3>1, <3>2 DEF CommitmentInv
    <3>3. CASE c = t.id
      <4>1. accepted'[c] \subseteq t.parties /\ status[c] \notin InForceOnce /\ terms[c] = t
        BY <1>1, <1>2, <1>3, <1>4, <3>1, <3>3 DEF CommitmentInv, InForceOnce
      <4>. QED BY <1>1, <1>2, <1>3, <1>5, <1>6, <2>1, <3>1, <3>3, <4>1 DEF CommitmentInv
    <3>. QED BY <3>2, <3>3
  <2>4. HeirInv' /\ WorkInv' /\ NoSilentRevision'
    BY <1>1, <1>5, <2>1 DEF RecordsInv, HeirInv, WorkInv, AllPassed, NoSilentRevision
  <2>. QED BY <2>2, <2>3, <2>4 DEF RecordsInv
<1>9. CASE accepted'[t.id] = t.parties
  <2>. DEFINE b == t.supersedes
  <2>1. /\ b # None => status[b] = "active"
        /\ status' = [c \in Commitments |-> CASE c = t.id -> "active"
                                              [] c = b -> "superseded"
                                              [] OTHER -> status[c]]
    BY <1>9 DEF Accept, BasisInForce
  <2>2. b # t.id
    BY <1>2, <1>7, JournalAssumption DEF RecordsInv, CommitmentInv
  <2>3. /\ status'[t.id] = "active"
        /\ b # None => status'[b] = "superseded"
        /\ \A c \in Commitments : c # t.id /\ c # b => status'[c] = status[c]
        /\ status' \in [Commitments -> {"none", "proposed", "active", "superseded", "adopted"}]
    BY <1>2, <2>1, <2>2 DEF RecordsInv, RecordsTyped
  <2>4. \A c \in Commitments :
          /\ status'[c] \in InForceOnce <=> status[c] \in InForceOnce \/ c = t.id
          /\ status'[c] = "superseded" <=> status[c] = "superseded" \/ c = b
          /\ status'[c] = "adopted" <=> status[c] = "adopted"
          /\ status'[c] = "none" <=> status[c] = "none"
          /\ status'[c] \in {"proposed", "active"} => status[c] \in {"proposed", "active"}
    <3>. TAKE c \in Commitments
    <3>1. CASE c = t.id
      BY <1>3, <2>2, <2>3, <3>1 DEF InForceOnce
    <3>2. CASE c = b
      BY <1>2, <2>1, <2>2, <2>3, <3>2, JournalAssumption DEF InForceOnce
    <3>3. CASE c # t.id /\ c # b
      BY <2>3, <3>3 DEF InForceOnce
    <3>. QED BY <3>1, <3>2, <3>3
  <2>. HIDE DEF b
  <2>5. RecordsTyped' /\ GoalsInv'
    BY <1>1, <1>4, <2>3 DEF RecordsInv, RecordsTyped, GoalsInv
  <2>6. ASSUME NEW c \in Commitments PROVE CommitmentInv(c)'
    <3>1. CommitmentInv(c)
      BY DEF RecordsInv
    <3>2. Basis(c) # None => Basis(c) # c /\ Basis(c) \in Commitments
                             /\ status'[Basis(c)] \in InForceOnce
      BY <2>4, <3>1 DEF CommitmentInv
    <3>3. CASE c # t.id
      BY <1>1, <1>4, <1>5, <1>6, <2>4, <3>1, <3>2, <3>3 DEF CommitmentInv
    <3>4. CASE c = t.id
      BY <1>1, <1>2, <1>3, <1>5, <1>6, <1>9, <2>4, <3>1, <3>2, <3>4 DEF CommitmentInv
    <3>. QED BY <3>3, <3>4
  <2>7. HeirInv'
    <3>1. ASSUME NEW d \in Commitments, status[d] \in InForceOnce, Basis(d) # None
          PROVE  Basis(d) # b /\ Basis(d) \in Commitments /\ status[Basis(d)] = "superseded"
      BY <1>2, <2>1, <3>1, BasisType DEF RecordsInv, HeirInv, b
    <3>2. ASSUME NEW c \in Commitments, NEW d \in Commitments,
                 status'[c] \in InForceOnce, status'[d] \in InForceOnce,
                 Basis(c) # None, Basis(c) = Basis(d)
          PROVE  c = d
      BY <1>7, <2>4, <3>1, <3>2 DEF RecordsInv, HeirInv, b
    <3>3. ASSUME NEW d \in Commitments, status'[d] \in InForceOnce, Basis(d) # None
          PROVE  status'[Basis(d)] = "superseded"
      BY <1>7, <2>3, <2>4, <3>1, <3>3 DEF b
    <3>4. ASSUME NEW c \in Commitments, status'[c] = "superseded"
          PROVE  \E d \in Commitments : Basis(d) = c /\ status'[d] \in InForceOnce
      <4>1. CASE c = b
        BY <1>2, <1>7, <2>4, <4>1 DEF b
      <4>2. CASE status[c] = "superseded"
        BY <2>4, <4>2 DEF RecordsInv, HeirInv
      <4>. QED BY <2>4, <3>4, <4>1, <4>2
    <3>. QED BY <1>5, <3>2, <3>3, <3>4 DEF HeirInv
  <2>8. WorkInv'
    <3>1. \A d \in adoptions : d.commitment \in Commitments
      BY DEF RecordsInv, RecordsTyped
    <3>. QED BY <1>1, <2>4, <3>1 DEF RecordsInv, WorkInv, AllPassed
  <2>9. NoSilentRevision'
    BY <1>1, <2>4 DEF RecordsInv, NoSilentRevision
  <2>. QED BY <2>5, <2>6, <2>7, <2>8, <2>9 DEF RecordsInv
<1>. QED BY <1>8, <1>9

-----------------------------------------------------------------------------
(* The steps of an instance. *)

\* What a command carries.
LEMMA CommandFacts ==
  ASSUME NEW cmd \in Commands
  PROVE  /\ cmd.op \in {"create", "revise"} => cmd.goal \in Goals
         /\ cmd.op = "revise" => cmd.base \in Nat
         /\ cmd.op \notin {"create", "revise"} => cmd.terms \in Terms
         /\ cmd.op \in {"submit", "review", "adopt"} => cmd.artifact \in Artifacts
         /\ cmd.op = "review" => cmd.passed \in BOOLEAN
<1>1. CASE cmd \in [op : {"create"}, goal : Goals] \cup [op : {"revise"}, goal : Goals, base : Nat]
  BY <1>1
<1>2. CASE cmd \in [op : {"propose", "accept"}, terms : Terms]
  BY <1>2
<1>3. CASE cmd \in [op : {"submit", "adopt"}, terms : Terms, artifact : Artifacts]
  BY <1>3
<1>4. CASE cmd \in [op : {"review"}, terms : Terms, artifact : Artifacts, passed : BOOLEAN]
  BY <1>4
<1>. QED BY <1>1, <1>2, <1>3, <1>4 DEF Commands

LEMMA HandleInv ==
  ASSUME RecordsInv, NEW q \in Requests, NEW conf, Handle(q.actor, q.cmd, conf)
  PROVE  RecordsInv'
<1>. DEFINE cmd == q.cmd
<1>1. q.actor \in Actors /\ cmd \in Commands
  BY RequestAssumption
<1>2. /\ cmd.op \in {"create", "revise"} => cmd.goal \in Goals
      /\ cmd.op = "revise" => cmd.base \in Nat
      /\ cmd.op \notin {"create", "revise"} => cmd.terms \in Terms
      /\ cmd.op \in {"submit", "review", "adopt"} => cmd.artifact \in Artifacts
      /\ cmd.op = "review" => cmd.passed \in BOOLEAN
  BY <1>1, CommandFacts
<1>3. CASE cmd.op = "create" /\ GoalCreate(q.actor, cmd.goal)
  BY <1>1, <1>2, <1>3, GoalCreateInv
<1>4. CASE cmd.op = "revise" /\ GoalRevise(q.actor, cmd.goal, cmd.base)
  BY <1>1, <1>2, <1>4, GoalReviseInv
<1>5. CASE cmd.op = "propose" /\ Propose(q.actor, cmd.terms, conf)
  BY <1>1, <1>2, <1>5, ProposeInv
<1>6. CASE cmd.op = "accept" /\ Accept(q.actor, cmd.terms)
  BY <1>1, <1>2, <1>6, AcceptInv
<1>7. CASE cmd.op = "submit" /\ Submit(q.actor, cmd.terms, cmd.artifact)
  BY <1>1, <1>2, <1>7, SubmitInv
<1>8. CASE cmd.op = "review" /\ RecordReview(q.actor, cmd.terms, cmd.artifact, cmd.passed)
  BY <1>1, <1>2, <1>8, RecordReviewInv
<1>9. CASE cmd.op = "adopt" /\ Adopt(q.actor, cmd.terms, cmd.artifact)
  BY <1>1, <1>2, <1>9, AdoptInv
<1>. QED BY <1>3, <1>4, <1>5, <1>6, <1>7, <1>8, <1>9 DEF Handle

\* A step that leaves the records alone keeps their invariant.
LEMMA RecordsStutter ==
  ASSUME RecordsInv, UNCHANGED records
  PROVE  RecordsInv'
<1>1. UNCHANGED <<goals, commitments, adoptions>> /\ artifact' = artifact
  BY DEF records
<1>2. terms' = terms /\ status' = status /\ adoptions' = adoptions
  BY <1>1 DEF commitments
<1>3. RecordsTyped'
  BY <1>1 DEF RecordsInv, RecordsTyped, goals, commitments
<1>4. WorkInv'
  BY <1>1, <1>2 DEF RecordsInv, WorkInv, AllPassed
<1>. QED BY <1>1, <1>3, <1>4, ArtifactsOnly DEF RecordsInv

LEMMA ExecuteInv ==
  ASSUME IInv, NEW i \in Instances, NEW q \in Requests, Execute(i, q)
  PROVE  IInv'
<1>1. /\ binding' = binding /\ opened' = opened /\ opened[i] = binding
      /\ Prior(q) = {} /\ Cardinality(receipts) < Configs[binding].budget
      /\ receipts' = receipts \cup {q} /\ told' = told \cup {<<q, q>>}
      /\ Handle(q.actor, q.cmd, Configs[opened[i]])
  BY DEF Execute, Admitted, HasBudget, hosts
<1>2. HostsTyped'
  BY <1>1 DEF IInv, HostsTyped
<1>3. RecordsInv'
  BY <1>1, HandleInv DEF IInv
<1>4. receipts' \subseteq Requests /\ told' \subseteq Requests \X Requests
  BY <1>1 DEF IInv, ReceiptsInv
<1>5. /\ IsFiniteSet(receipts')
      /\ Cardinality(receipts') \in Nat /\ Cardinality(receipts') <= Cardinality(receipts) + 1
  <2>1. IsFiniteSet(receipts)
    BY DEF IInv, ReceiptsInv
  <2>2. IsFiniteSet(receipts') /\ Cardinality(receipts') \in Nat
    BY <1>1, <2>1, FS_AddElement, FS_CardinalityType
  <2>3. Cardinality(receipts') \in {Cardinality(receipts), Cardinality(receipts) + 1}
    BY <1>1, <2>1, FS_AddElement
  <2>4. Cardinality(receipts) \in Nat
    BY <2>1, FS_CardinalityType
  <2>. QED BY <2>2, <2>3, <2>4
<1>6. BudgetHolds'
  <2>1. Configs[binding].budget \in Nat
    BY ConfigFacts DEF IInv, HostsTyped
  <2>2. Cardinality(receipts) \in Nat
    BY FS_CardinalityType DEF IInv, ReceiptsInv
  <2>. QED BY <1>1, <1>5, <2>1, <2>2 DEF BudgetHolds
<1>7. ExactReplay'
  BY <1>1 DEF IInv, ReceiptsInv, ExactReplay, Prior
<1>. QED BY <1>2, <1>3, <1>4, <1>5, <1>6, <1>7 DEF IInv, ReceiptsInv

LEMMA ReplayInv ==
  ASSUME IInv, NEW i \in Instances, NEW q \in Requests, Replay(i, q)
  PROVE  IInv'
<1>1. UNCHANGED <<hosts, records, receipts>>
  BY DEF Replay
<1>2. PICK r \in SameInput(q) : told' = told \cup {<<q, r>>}
  BY DEF Replay
<1>3. r = q /\ q \in receipts
  BY <1>2 DEF SameInput, Prior
<1>4. RecordsInv' /\ HostsTyped'
  BY <1>1, RecordsStutter DEF IInv, HostsTyped, hosts
<1>5. ReceiptsInv'
  BY <1>1, <1>2, <1>3 DEF IInv, ReceiptsInv, ExactReplay, BudgetHolds, hosts
<1>. QED BY <1>4, <1>5 DEF IInv

LEMMA OpenInv ==
  ASSUME IInv, NEW i \in Instances, Open(i)
  PROVE  IInv'
<1>1. UNCHANGED <<binding, records, receipts, told>> /\ opened' = [opened EXCEPT ![i] = binding]
  BY DEF Open
<1>2. HostsTyped'
  BY <1>1 DEF IInv, HostsTyped
<1>3. ReceiptsInv'
  BY <1>1 DEF IInv, ReceiptsInv, ExactReplay, BudgetHolds
<1>. QED BY <1>1, <1>2, <1>3, RecordsStutter DEF IInv

LEMMA MigrateInv ==
  ASSUME IInv, NEW i \in Instances, Migrate(i)
  PROVE  IInv'
<1>1. /\ UNCHANGED <<opened, records, receipts, told>>
      /\ binding' = binding + 1 /\ binding < Len(Configs)
  BY DEF Migrate
<1>2. binding \in Versions /\ binding' \in Versions /\ binding < binding'
  <2>1. Len(Configs) \in Nat
    BY JournalAssumption
  <2>. QED BY <1>1, <2>1 DEF IInv, HostsTyped, Versions
<1>3. HostsTyped'
  BY <1>1, <1>2 DEF IInv, HostsTyped
<1>4. BudgetHolds'
  <2>1. Configs[binding].budget <= Configs[binding'].budget
    BY <1>2, AdditiveAssumption
  <2>2. Configs[binding].budget \in Nat /\ Configs[binding'].budget \in Nat
    BY <1>2, ConfigFacts
  <2>3. Cardinality(receipts) \in Nat
    BY FS_CardinalityType DEF IInv, ReceiptsInv
  <2>. QED BY <1>1, <2>1, <2>2, <2>3 DEF IInv, ReceiptsInv, BudgetHolds
<1>5. ReceiptsInv'
  BY <1>1, <1>4 DEF IInv, ReceiptsInv, ExactReplay
<1>. QED BY <1>1, <1>3, <1>5, RecordsStutter DEF IInv

LEMMA InitInv == Init => IInv
<1>. SUFFICES ASSUME Init PROVE IInv
  OBVIOUS
<1>1. HostsTyped
  <2>1. Len(Configs) \in Nat \ {0}
    BY JournalAssumption
  <2>. QED BY <2>1 DEF Init, HostsTyped, Versions
<1>2. RecordsTyped
  BY DEF Init, RecordsTyped
<1>3. \A c \in Commitments : CommitmentInv(c)
  BY DEF Init, CommitmentInv, Basis, InForceOnce
<1>4. GoalsInv /\ HeirInv /\ WorkInv /\ NoSilentRevision
  BY DEF Init, GoalsInv, HeirInv, WorkInv, NoSilentRevision, Basis, InForceOnce
<1>5. ReceiptsInv
  <2>1. IsFiniteSet(receipts) /\ Cardinality(receipts) = 0
    BY FS_EmptySet DEF Init
  <2>2. BudgetHolds
    BY <1>1, <2>1, ConfigFacts DEF BudgetHolds, HostsTyped
  <2>. QED BY <2>1, <2>2 DEF Init, ReceiptsInv, ExactReplay
<1>. QED BY <1>1, <1>2, <1>3, <1>4, <1>5 DEF IInv, RecordsInv

LEMMA StepInv == IInv /\ [Next]_vars => IInv'
<1>. SUFFICES ASSUME IInv, [Next]_vars PROVE IInv'
  OBVIOUS
<1>1. ASSUME NEW i \in Instances, Open(i) PROVE IInv'
  BY <1>1, OpenInv
<1>2. ASSUME NEW i \in Instances, Migrate(i) PROVE IInv'
  BY <1>2, MigrateInv
<1>3. ASSUME NEW i \in Instances, NEW q \in Requests, Execute(i, q) PROVE IInv'
  BY <1>3, ExecuteInv
<1>4. ASSUME NEW i \in Instances, NEW q \in Requests, Replay(i, q) PROVE IInv'
  BY <1>4, ReplayInv
<1>5. CASE UNCHANGED vars
  <2>1. RecordsInv'
    BY <1>5, RecordsStutter DEF IInv, vars
  <2>2. HostsTyped' /\ ReceiptsInv'
    BY <1>5 DEF IInv, HostsTyped, ReceiptsInv, ExactReplay, BudgetHolds, vars, hosts
  <2>. QED BY <2>1, <2>2 DEF IInv
<1>. QED BY <1>1, <1>2, <1>3, <1>4, <1>5 DEF Next

LEMMA Invariance == Spec => []IInv
  BY InitInv, StepInv, PTL DEF Spec

-----------------------------------------------------------------------------
(* What the invariant means. *)

\* A set whose elements are all equal has at most one.
LEMMA AtMostOne ==
  ASSUME NEW S, \A x, y \in S : x = y
  PROVE  Cardinality(S) <= 1
<1>1. CASE S = {}
  BY <1>1, FS_EmptySet
<1>2. CASE S # {}
  <2>1. PICK x \in S : TRUE
    BY <1>2
  <2>2. S = {x}
    BY <2>1
  <2>. QED BY <2>2, FS_Singleton
<1>. QED BY <1>1, <1>2

\* The journal's records have their types whatever instances and callers do.
THEOREM TypeCorrect == Spec => []TypeOK
<1>1. IInv => TypeOK
  BY DEF IInv, HostsTyped, RecordsInv, RecordsTyped, ReceiptsInv, TypeOK
<1>. QED BY <1>1, Invariance, PTL

\* What came into force was accepted by every party, those of the replaced
\* commitment included, for any terms and any race of proposals.
THEOREM Consent == Spec => []ByConsent
<1>1. ASSUME IInv PROVE ByConsent
  <2>1. SUFFICES ASSUME NEW c \in Commitments, status[c] \in InForceOnce
                 PROVE  /\ accepted[c] = terms[c].parties
                        /\ {terms[c].requester, terms[c].provider} \subseteq accepted[c]
                        /\ Basis(c) # None => terms[Basis(c)].parties \subseteq accepted[c]
    BY DEF ByConsent
  <2>2. CommitmentInv(c)
    BY <1>1 DEF IInv, RecordsInv
  <2>. QED BY <2>1, <2>2 DEF CommitmentInv, InForceOnce
<1>. QED BY <1>1, Invariance, PTL

\* At most one of any number of racing amendments of a commitment comes into
\* force, and the commitment is retired exactly then.
THEOREM SoleHeir == Spec => []OneHeir
<1>1. ASSUME IInv PROVE OneHeir
  <2>. SUFFICES ASSUME NEW c \in Commitments
                PROVE  LET heirs == {d \in Commitments : Basis(d) = c /\ status[d] \in InForceOnce}
                       IN Cardinality(heirs) <= 1 /\ (status[c] = "superseded" <=> heirs # {})
    BY DEF OneHeir
  <2>. DEFINE heirs == {d \in Commitments : Basis(d) = c /\ status[d] \in InForceOnce}
  <2>0. c # None /\ HeirInv
    BY <1>1, JournalAssumption DEF IInv, RecordsInv
  <2>1. \A d, e \in heirs : d = e
    BY <2>0 DEF HeirInv
  <2>2. Cardinality(heirs) <= 1
    <3>. HIDE DEF heirs
    <3>. QED BY <2>1, AtMostOne
  <2>3. status[c] = "superseded" <=> heirs # {}
    BY <2>0 DEF HeirInv
  <2>. QED BY <2>2, <2>3
<1>. QED BY <1>1, Invariance, PTL

\* An adoption rests on an artifact of its commitment that every named verifier
\* passed and none failed, by verifiers its profile allows.
THEOREM Earned == Spec => []AdoptionEarned
<1>1. ASSUME IInv, NEW c \in Commitments, NEW d \in adoptions, d.commitment = c,
             NEW v \in terms[c].verifiers
      PROVE  /\ artifact[d.artifact].of = c
             /\ artifact[d.artifact].reviews \cap {[verifier |-> v, passed |-> FALSE]} = {}
             /\ [verifier |-> v, passed |-> TRUE] \in artifact[d.artifact].reviews
             /\ terms[c].profile # "self" => Controller[v] # Controller[terms[c].provider]
  <2>1. /\ status[c] = "adopted" /\ d.artifact \in Artifacts
        /\ artifact[d.artifact] # None /\ artifact[d.artifact].of = c
        /\ AllPassed(terms[c], d.artifact)
    BY <1>1 DEF IInv, RecordsInv, RecordsTyped, WorkInv
  <2>2. [verifier |-> v, passed |-> TRUE] \in artifact[d.artifact].reviews
    BY <1>1, <2>1 DEF AllPassed
  <2>3. [verifier |-> v, passed |-> FALSE] \notin artifact[d.artifact].reviews
    <3>. DEFINE no == [verifier |-> v, passed |-> FALSE]
                yes == [verifier |-> v, passed |-> TRUE]
    <3>1. no.verifier = yes.verifier /\ no.passed # yes.passed
      OBVIOUS
    <3>2. \A r, s \in artifact[d.artifact].reviews : r.verifier = s.verifier => r = s
      BY <1>1, <2>1 DEF IInv, RecordsInv, WorkInv
    <3>. HIDE DEF no, yes
    <3>3. yes \in artifact[d.artifact].reviews
      BY <2>2 DEF yes
    <3>4. no \notin artifact[d.artifact].reviews
      BY <3>1, <3>2, <3>3
    <3>. QED BY <3>4 DEF no
  <2>4. terms[c] \in Terms /\ MayVerify(v, terms[c])
    BY <1>1, <2>1, BasisType DEF IInv, RecordsInv, CommitmentInv
  <2>5. terms[c].profile \in {"independent", "peer"} => terms[c].provider \in Excluded(terms[c])
    BY DEF Excluded
  <2>6. terms[c].profile # "self" => Controller[v] # Controller[terms[c].provider]
    BY <2>4, <2>5, TermsFacts DEF MayVerify, Modes
  <2>. QED BY <2>1, <2>2, <2>3, <2>6
<1>2. ASSUME IInv PROVE AdoptionEarned
  <2>. SUFFICES ASSUME NEW c \in Commitments
                PROVE  LET adopted == {d \in adoptions : d.commitment = c}
                       IN /\ status[c] = "adopted" <=> adopted # {}
                          /\ Cardinality(adopted) <= 1
                          /\ \A d \in adopted : \A v \in terms[c].verifiers :
                               /\ artifact[d.artifact].of = c
                               /\ artifact[d.artifact].reviews \cap {[verifier |-> v, passed |-> FALSE]} = {}
                               /\ [verifier |-> v, passed |-> TRUE] \in artifact[d.artifact].reviews
                               /\ terms[c].profile # "self" => Controller[v] # Controller[terms[c].provider]
    BY DEF AdoptionEarned
  <2>. DEFINE adopted == {d \in adoptions : d.commitment = c}
  <2>1. status[c] = "adopted" <=> adopted # {}
    BY <1>2 DEF IInv, RecordsInv, WorkInv
  <2>2. \A d, e \in adopted : d = e
    BY <1>2 DEF IInv, RecordsInv, WorkInv
  <2>3. Cardinality(adopted) <= 1
    <3>. HIDE DEF adopted
    <3>. QED BY <2>2, AtMostOne
  <2>4. \A d \in adopted : d \in adoptions /\ d.commitment = c
    OBVIOUS
  <2>. HIDE DEF adopted
  <2>. QED BY <1>1, <1>2, <2>1, <2>3, <2>4 DEF adopted
<1>. QED BY <1>2, Invariance, PTL

\* Every revision a live commitment has not seen is on record with it.
THEOREM Noticed == Spec => []NoSilentRevision
<1>1. IInv => NoSilentRevision
  BY DEF IInv, RecordsInv
<1>. QED BY <1>1, Invariance, PTL

\* A command id takes effect once and is answered with that effect, at any
\* instance, before and after any migration.
THEOREM Replays == Spec => []ExactReplay
<1>1. IInv => ExactReplay
  BY DEF IInv, ReceiptsInv
<1>. QED BY <1>1, Invariance, PTL

\* The budget in force bounds the commands that took effect, through any
\* number of additive migrations.
THEOREM WithinBudget == Spec => []BudgetHolds
<1>1. IInv => BudgetHolds
  BY DEF IInv, ReceiptsInv
<1>. QED BY <1>1, Invariance, PTL

-----------------------------------------------------------------------------
(* What a command never does to the records. *)

CommitmentsFrozen ==
  \A c \in Commitments :
    /\ status[c] # "none" => terms'[c] = terms[c] /\ accepted[c] \subseteq accepted'[c]
    /\ status[c] \in {"superseded", "adopted"} => status'[c] = status[c]

ArtifactsFrozen ==
  \A a \in Artifacts :
    /\ artifact[a] # None =>
         artifact'[a].of = artifact[a].of /\ artifact[a].reviews \subseteq artifact'[a].reviews
    /\ artifact'[a] # artifact[a] => status[artifact'[a].of] = "active"

LEMMA FrozenCommitments ==
  ASSUME RecordsInv, NEW q \in Requests, NEW conf, Handle(q.actor, q.cmd, conf)
  PROVE  CommitmentsFrozen
<1>. DEFINE cmd == q.cmd
<1>1. /\ cmd \in Commands
      /\ terms \in [Commitments -> Terms \cup {None}]
      /\ accepted \in [Commitments -> SUBSET Actors]
      /\ status \in [Commitments -> {"none", "proposed", "active", "superseded", "adopted"}]
  BY RequestAssumption DEF RecordsInv, RecordsTyped
<1>2. cmd.op \notin {"create", "revise"} => cmd.terms \in Terms /\ cmd.terms.id \in Commitments
  BY <1>1, CommandFacts, TermsFacts
<1>. HIDE DEF cmd
<1>3. CASE UNCHANGED commitments
  BY <1>3 DEF CommitmentsFrozen, commitments
<1>4. CASE cmd.op = "propose" /\ Propose(q.actor, cmd.terms, conf)
  BY <1>1, <1>2, <1>4 DEF CommitmentsFrozen, Propose
<1>5. CASE cmd.op = "accept" /\ Accept(q.actor, cmd.terms)
  <2>. DEFINE t == cmd.terms
  <2>1. t \in Terms /\ t.id \in Commitments
    BY <1>2, <1>5
  <2>. HIDE DEF t
  <2>2. /\ status[t.id] \in {"proposed", "active"} /\ terms' = terms
        /\ accepted' = [accepted EXCEPT ![t.id] = @ \cup {q.actor}]
    BY <1>5 DEF Accept, t
  <2>3. \A c \in Commitments : accepted[c] \subseteq accepted'[c]
    BY <1>1, <2>1, <2>2
  <2>4. CASE accepted'[t.id] # t.parties
    <3>1. status' = status
      BY <1>5, <2>4 DEF Accept, t
    <3>. QED BY <2>2, <2>3, <3>1 DEF CommitmentsFrozen
  <2>5. CASE accepted'[t.id] = t.parties
    <3>1. /\ t.supersedes # None => status[t.supersedes] = "active"
          /\ status' = [c \in Commitments |-> CASE c = t.id -> "active"
                                                [] c = t.supersedes -> "superseded"
                                                [] OTHER -> status[c]]
      BY <1>5, <2>5 DEF Accept, BasisInForce, t
    <3>2. ASSUME NEW c \in Commitments, status[c] \in {"superseded", "adopted"}
          PROVE  status'[c] = status[c]
      <4>1. c # t.id /\ c # t.supersedes
        BY <2>2, <3>1, <3>2, JournalAssumption
      <4>. QED BY <3>1, <4>1
    <3>. QED BY <2>2, <2>3, <3>2 DEF CommitmentsFrozen
  <2>. QED BY <2>4, <2>5
<1>6. CASE cmd.op = "adopt" /\ Adopt(q.actor, cmd.terms, cmd.artifact)
  BY <1>1, <1>2, <1>6 DEF CommitmentsFrozen, Adopt, Active
<1>. QED BY <1>3, <1>4, <1>5, <1>6 DEF Handle, GoalCreate, GoalRevise, Submit, RecordReview, cmd

LEMMA FrozenArtifacts ==
  ASSUME RecordsInv, NEW q \in Requests, NEW conf, Handle(q.actor, q.cmd, conf)
  PROVE  ArtifactsFrozen
<1>. DEFINE cmd == q.cmd
<1>1. cmd \in Commands /\ artifact \in [Artifacts -> Artifact \cup {None}]
  BY RequestAssumption DEF RecordsInv, RecordsTyped
<1>. HIDE DEF cmd
<1>2. cmd.op \in {"submit", "review"} =>
        cmd.artifact \in Artifacts /\ cmd.terms \in Terms
  BY <1>1, CommandFacts
<1>3. CASE artifact' = artifact
  BY <1>3 DEF ArtifactsFrozen
<1>4. CASE cmd.op = "submit" /\ Submit(q.actor, cmd.terms, cmd.artifact)
  BY <1>1, <1>2, <1>4 DEF ArtifactsFrozen, Submit, Active
<1>5. CASE cmd.op = "review" /\ RecordReview(q.actor, cmd.terms, cmd.artifact, cmd.passed)
  <2>. DEFINE a == cmd.artifact
              verdict == [verifier |-> q.actor, passed |-> cmd.passed]
  <2>1. /\ artifact[a] # None /\ ReviewsBy(q.actor, a) = {} /\ status[artifact[a].of] = "active"
        /\ artifact' = [artifact EXCEPT ![a].reviews = (@ \ ReviewsBy(q.actor, a)) \cup {verdict}]
    BY <1>5 DEF RecordReview, FirstReview, Active
  <2>2. a \in Artifacts /\ artifact[a] \in [of : Commitments, reviews : SUBSET Review]
    BY <1>1, <1>2, <1>5, <2>1 DEF Artifact
  <2>. HIDE DEF a, verdict
  <2>3. /\ artifact'[a].of = artifact[a].of
        /\ artifact'[a].reviews = artifact[a].reviews \cup {verdict}
        /\ \A b \in Artifacts : b # a => artifact'[b] = artifact[b]
    BY <1>1, <2>1, <2>2
  <2>. QED BY <2>1, <2>2, <2>3 DEF ArtifactsFrozen
<1>. QED BY <1>3, <1>4, <1>5 DEF Handle, GoalCreate, GoalRevise, Propose, Accept, Adopt, cmd

\* Agreed terms, consents, endings and verdicts are immutable, and work is only
\* recorded under a commitment in force.
THEOREM Immutable == Spec => Frozen
<1>1. ASSUME IInv, [Next]_vars PROVE [CommitmentsFrozen /\ ArtifactsFrozen]_records
  <2>1. ASSUME NEW i \in Instances, NEW q \in Requests, Execute(i, q)
        PROVE  CommitmentsFrozen /\ ArtifactsFrozen
    BY <1>1, <2>1, FrozenCommitments, FrozenArtifacts DEF Execute, IInv
  <2>2. ASSUME NEW i \in Instances, NEW q \in Requests, Replay(i, q)
        PROVE  UNCHANGED records
    BY <2>2 DEF Replay
  <2>3. ASSUME NEW i \in Instances, Open(i) \/ Migrate(i) PROVE UNCHANGED records
    BY <2>3 DEF Open, Migrate
  <2>4. CASE UNCHANGED vars
    BY <2>4 DEF vars
  <2>. QED BY <1>1, <2>1, <2>2, <2>3, <2>4 DEF Next
<1>. QED BY <1>1, Invariance, PTL DEF Spec, Frozen, CommitmentsFrozen, ArtifactsFrozen

-----------------------------------------------------------------------------
(* The receipts and the records.  Consents and proposals are of terms on   *)
(* record, submissions and verdicts of artifacts on record: terms and      *)
(* artifacts never change, so what a receipt says stays true, and a        *)
(* command whose effect is on record cannot take effect again.             *)

GoalEvents ==
  /\ \A g \in Goals : revision[g] = Cardinality(GoalReceipts(g))
  /\ \A r \in Applied("create") : revision[r.cmd.goal] > 0
  /\ \A r \in Applied("revise") : r.cmd.base < revision[r.cmd.goal]
CommitmentEvents ==
  /\ \A c \in Commitments :
       /\ accepted[c] = Consents(c)
       /\ status[c] # "none" <=> \E r \in Applied("propose") : r.cmd.terms = terms[c]
  /\ \A r \in Applied("accept") \cup Applied("propose") : terms[r.cmd.terms.id] = r.cmd.terms
ArtifactEvents ==
  \A a \in Artifacts :
    /\ Submissions(a) = IF artifact[a] = None THEN {} ELSE {artifact[a].of}
    /\ Verdicts(a) = IF artifact[a] = None THEN {} ELSE artifact[a].reviews
Adopted == {<<d.commitment, d.artifact>> : d \in adoptions}
AdoptionReceipts == {<<r.cmd.terms.id, r.cmd.artifact>> : r \in Applied("adopt")}
AdoptionEvents == Adopted = AdoptionReceipts
EventsInv == GoalEvents /\ CommitmentEvents /\ ArtifactEvents /\ AdoptionEvents
OnceOnly == \A r, s \in receipts : r.actor = s.actor /\ r.cmd = s.cmd => r = s

\* A command adds its receipt to those of its kind.
LEMMA AppliedGrows ==
  ASSUME NEW q, receipts' = receipts \cup {q}, NEW op
  PROVE  /\ q.cmd.op = op => Applied(op)' = Applied(op) \cup {q}
         /\ q.cmd.op # op => Applied(op)' = Applied(op)
  BY DEF Applied

LEMMA SameGoalEvents ==
  ASSUME GoalEvents, UNCHANGED goals, Applied("create")' = Applied("create"), Applied("revise")' = Applied("revise")
  PROVE  GoalEvents'
  BY DEF GoalEvents, GoalReceipts, goals

LEMMA SameCommitmentEvents ==
  ASSUME CommitmentEvents, UNCHANGED <<terms, accepted>>,
         \A c \in Commitments : status'[c] # "none" <=> status[c] # "none",
         Applied("accept")' = Applied("accept"), Applied("propose")' = Applied("propose")
  PROVE  CommitmentEvents'
  BY DEF CommitmentEvents, Consents

LEMMA SameArtifactEvents ==
  ASSUME ArtifactEvents, UNCHANGED artifact, Applied("submit")' = Applied("submit"), Applied("review")' = Applied("review")
  PROVE  ArtifactEvents'
  BY DEF ArtifactEvents, Submissions, Verdicts

\* A goal's revision is the number of commands that created and revised it.
LEMMA GoalEventsStep ==
  ASSUME RecordsInv, EventsInv, IsFiniteSet(receipts), NEW q \in Requests, q \notin receipts,
         receipts' = receipts \cup {q}, NEW g \in Goals, q.cmd.goal = g, q.cmd.op \in {"create", "revise"},
         revision' = [revision EXCEPT ![g] = revision[g] + 1], receipts \subseteq Requests,
         q.cmd.op = "revise" => q.cmd.base = revision[g]
  PROVE  GoalEvents'
<1>1. GoalReceipts(g)' = GoalReceipts(g) \cup {q} /\ \A h \in Goals \ {g} : GoalReceipts(h)' = GoalReceipts(h)
  BY DEF GoalReceipts, Applied
<1>2. q \notin GoalReceipts(g) /\ GoalReceipts(g) \subseteq receipts
  BY DEF GoalReceipts, Applied
<1>3. Cardinality(GoalReceipts(g)') = Cardinality(GoalReceipts(g)) + 1
  <2>1. IsFiniteSet(GoalReceipts(g))
    BY <1>2, FS_Subset
  <2>2. QED
    BY <1>1, <1>2, <2>1, FS_AddElement
<1>4. revision'[g] = revision[g] + 1 /\ \A h \in Goals \ {g} : revision'[h] = revision[h]
  BY DEF RecordsInv, RecordsTyped
<1>5. \A h \in Goals : revision[h] \in Nat /\ revision'[h] \in Nat /\ revision[h] <= revision'[h]
  BY <1>4 DEF RecordsInv, RecordsTyped
<1>6. \A r \in Applied("create") \cup Applied("revise") :
        r.cmd.goal \in Goals /\ (r.cmd.op = "revise" => r.cmd.base \in Nat)
  BY RequestAssumption, CommandFacts DEF Applied
<1>7. \A r \in Applied("create")' : revision'[r.cmd.goal] > 0
  <2> SUFFICES ASSUME NEW r \in Applied("create")' PROVE revision'[r.cmd.goal] > 0
    OBVIOUS
  <2>1. CASE r = q
    BY <1>4, <1>5, <2>1
  <2>2. CASE r # q
    <3>1. r \in Applied("create")
      BY <2>2 DEF Applied
    <3>2. QED
      BY <1>5, <1>6, <3>1 DEF EventsInv, GoalEvents
  <2>3. QED
    BY <2>1, <2>2
<1>8. \A r \in Applied("revise")' : r.cmd.base < revision'[r.cmd.goal]
  <2> SUFFICES ASSUME NEW r \in Applied("revise")' PROVE r.cmd.base < revision'[r.cmd.goal]
    OBVIOUS
  <2>1. CASE r = q
    BY <1>4, <1>5, <2>1 DEF Applied
  <2>2. CASE r # q
    <3>1. r \in Applied("revise") /\ r.cmd.op = "revise"
      BY <2>2 DEF Applied
    <3>2. r.cmd.goal \in Goals /\ r.cmd.base \in Nat /\ r.cmd.base < revision[r.cmd.goal]
      BY <1>6, <3>1 DEF EventsInv, GoalEvents
    <3>3. QED
      BY <1>5, <3>2
  <2>3. QED
    BY <2>1, <2>2
<1>9. QED
  BY <1>1, <1>3, <1>4, <1>7, <1>8 DEF EventsInv, GoalEvents

LEMMA ProposeEvents ==
  ASSUME RecordsInv, EventsInv, receipts \subseteq Requests, NEW q \in Requests, NEW conf,
         receipts' = receipts \cup {q}, q.cmd.op = "propose", Propose(q.actor, q.cmd.terms, conf)
  PROVE  EventsInv'
<1> DEFINE t == q.cmd.terms
<1>1. t \in Terms /\ t.id \in Commitments /\ t # None
  BY RequestAssumption, CommandFacts, TermsFacts
<1>2. /\ status[t.id] = "none" /\ terms' = [terms EXCEPT ![t.id] = t]
      /\ status' = [status EXCEPT ![t.id] = "proposed"]
      /\ accepted' = accepted /\ UNCHANGED <<goals, artifact, adoptions>>
  BY DEF Propose
<1>3. Applied("propose")' = Applied("propose") \cup {q}
      /\ \A op \in Ops \ {"propose"} : Applied(op)' = Applied(op)
  BY AppliedGrows
<1>4. GoalEvents' /\ AdoptionEvents'
  BY <1>2, <1>3, SameGoalEvents DEF EventsInv, AdoptionEvents, Adopted, AdoptionReceipts, Ops
<1>5. ArtifactEvents'
  BY <1>2, <1>3, SameArtifactEvents DEF EventsInv, Ops
<1> HIDE DEF t
<1>6. /\ terms'[t.id] = t /\ status'[t.id] = "proposed" /\ terms[t.id] = None
      /\ \A c \in Commitments \ {t.id} : terms'[c] = terms[c] /\ status'[c] = status[c]
  BY <1>1, <1>2 DEF RecordsInv, RecordsTyped, CommitmentInv
<1>7. \A r \in Applied("accept") \cup Applied("propose") :
        r.cmd.terms \in Terms /\ r.cmd.terms # t /\ r.cmd.terms.id # t.id
  <2> SUFFICES ASSUME NEW r \in Applied("accept") \cup Applied("propose")
               PROVE  r.cmd.terms \in Terms /\ r.cmd.terms.id # t.id
    OBVIOUS
  <2>1. r.cmd.terms \in Terms
    BY RequestAssumption, CommandFacts DEF Applied
  <2>2. terms[r.cmd.terms.id] = r.cmd.terms /\ r.cmd.terms # None
    BY <2>1, JournalAssumption DEF EventsInv, CommitmentEvents
  <2>3. QED
    BY <1>6, <2>1, <2>2
<1>8. ASSUME NEW c \in Commitments
      PROVE  /\ accepted'[c] = Consents(c)'
             /\ status'[c] # "none" <=> \E r \in Applied("propose")' : r.cmd.terms = terms'[c]
  <2>1. Consents(c)' = {r.actor : r \in {s \in Applied("accept") : s.cmd.terms = terms'[c]}}
    BY <1>3 DEF Consents, Ops
  <2>2. CASE c = t.id
    <3>1. accepted'[c] = {}
      BY <1>1, <1>2, <2>2 DEF RecordsInv, CommitmentInv
    <3>2. {s \in Applied("accept") : s.cmd.terms = terms'[c]} = {}
      BY <1>6, <1>7, <2>2
    <3>3. QED
      BY <1>3, <1>6, <2>1, <2>2, <3>1, <3>2 DEF t
  <2>3. CASE c # t.id
    <3>1. terms'[c] = terms[c] /\ status'[c] = status[c] /\ accepted'[c] = accepted[c]
      BY <1>2, <1>6, <2>3
    <3>2. terms[c] # t
      BY <1>1, <2>3 DEF RecordsInv, CommitmentInv
    <3>3. accepted[c] = Consents(c) /\ (status[c] # "none" <=> \E r \in Applied("propose") : r.cmd.terms = terms[c])
      BY DEF EventsInv, CommitmentEvents
    <3>4. Consents(c)' = Consents(c)
      BY <2>1, <3>1 DEF Consents
    <3>5. (\E r \in Applied("propose")' : r.cmd.terms = terms[c]) <=> \E r \in Applied("propose") : r.cmd.terms = terms[c]
      BY <1>3, <3>2 DEF t
    <3>6. QED
      BY <3>1, <3>3, <3>4, <3>5
  <2>4. QED
    BY <2>2, <2>3
<1>9. \A r \in (Applied("accept") \cup Applied("propose"))' : terms'[r.cmd.terms.id] = r.cmd.terms
  <2>1. \A r \in Applied("accept") \cup Applied("propose") : r.cmd.terms.id \in Commitments \ {t.id}
    BY <1>7, TermsFacts
  <2>2. (Applied("accept") \cup Applied("propose"))' = Applied("accept") \cup Applied("propose") \cup {q}
    BY <1>3 DEF Ops
  <2>3. terms'[q.cmd.terms.id] = q.cmd.terms
    BY <1>6 DEF t
  <2>4. QED
    BY <1>6, <2>1, <2>2, <2>3 DEF EventsInv, CommitmentEvents
<1>10. CommitmentEvents'
  BY <1>8, <1>9 DEF CommitmentEvents
<1>11. QED
  BY <1>4, <1>5, <1>10 DEF EventsInv

LEMMA AcceptEvents ==
  ASSUME RecordsInv, EventsInv, receipts \subseteq Requests, NEW q \in Requests,
         receipts' = receipts \cup {q}, q.cmd.op = "accept", Accept(q.actor, q.cmd.terms)
  PROVE  EventsInv'
<1> DEFINE t == q.cmd.terms
<1>1. t \in Terms /\ t.id \in Commitments /\ t # None
  BY RequestAssumption, CommandFacts, TermsFacts
<1>2. /\ status[t.id] \in {"proposed", "active"} /\ terms[t.id] = t
      /\ accepted' = [accepted EXCEPT ![t.id] = @ \cup {q.actor}]
      /\ terms' = terms /\ UNCHANGED <<goals, artifact, adoptions>>
  BY DEF Accept
<1>3. \A c \in Commitments : status'[c] # "none" <=> status[c] # "none"
  <2>1. t.supersedes # None => t.supersedes \in Commitments /\ status[t.supersedes] # "none"
    BY <1>1, <1>2 DEF RecordsInv, CommitmentInv, Basis, InForceOnce
  <2>2. CASE UNCHANGED status
    BY <2>2
  <2>3. CASE status' = [c \in Commitments |-> CASE c = t.id -> "active"
                                                [] c = t.supersedes -> "superseded"
                                                [] OTHER -> status[c]]
    <3>1. None \notin Commitments
      BY JournalAssumption
    <3>2. ASSUME NEW c \in Commitments
          PROVE  /\ c \in {t.id, t.supersedes} => status'[c] \in {"active", "superseded"}
                 /\ c \notin {t.id, t.supersedes} => status'[c] = status[c]
      BY <2>3
    <3>3. QED
      BY <1>2, <2>1, <3>1, <3>2
  <2>4. QED
    BY <2>2, <2>3 DEF Accept
<1>4. Applied("accept")' = Applied("accept") \cup {q}
      /\ \A op \in Ops \ {"accept"} : Applied(op)' = Applied(op)
  BY AppliedGrows
<1>5. GoalEvents' /\ AdoptionEvents'
  BY <1>2, <1>4, SameGoalEvents DEF EventsInv, AdoptionEvents, Adopted, AdoptionReceipts, Ops
<1>6. ArtifactEvents'
  BY <1>2, <1>4, SameArtifactEvents DEF EventsInv, Ops
<1>7. ASSUME NEW c \in Commitments
      PROVE  accepted'[c] = Consents(c)'
  <2>1. accepted[c] = Consents(c)
    BY DEF EventsInv, CommitmentEvents
  <2>2. Consents(c)' = {r.actor : r \in {s \in Applied("accept") \cup {q} : s.cmd.terms = terms[c]}}
    BY <1>2, <1>4 DEF Consents
  <2>3. CASE c = t.id
    <3>1. accepted'[c] = accepted[c] \cup {q.actor}
      BY <1>1, <1>2, <2>3 DEF RecordsInv, RecordsTyped
    <3>2. Consents(c)' = Consents(c) \cup {q.actor}
      BY <1>2, <2>2, <2>3 DEF Consents
    <3>3. QED
      BY <2>1, <3>1, <3>2
  <2>4. CASE c # t.id
    <3>1. accepted'[c] = accepted[c]
      BY <1>2, <2>4 DEF RecordsInv, RecordsTyped
    <3>2. terms[c] # t
      BY <1>1, <2>4 DEF RecordsInv, CommitmentInv
    <3>3. Consents(c)' = Consents(c)
      BY <2>2, <3>2 DEF Consents
    <3>4. QED
      BY <2>1, <3>1, <3>3
  <2>5. QED
    BY <2>3, <2>4
<1>8. \A c \in Commitments : status'[c] # "none" <=> \E r \in Applied("propose")' : r.cmd.terms = terms'[c]
  BY <1>2, <1>3, <1>4 DEF EventsInv, CommitmentEvents, Ops
<1>9. \A r \in (Applied("accept") \cup Applied("propose"))' : terms'[r.cmd.terms.id] = r.cmd.terms
  BY <1>2, <1>4 DEF EventsInv, CommitmentEvents, Ops
<1>10. QED
  BY <1>5, <1>6, <1>7, <1>8, <1>9 DEF EventsInv, CommitmentEvents

\* An artifact, a verdict and an adoption.
LEMMA WorkEvents ==
  ASSUME RecordsInv, EventsInv, receipts \subseteq Requests, IsFiniteSet(receipts),
         NEW q \in Requests, q \notin receipts, receipts' = receipts \cup {q}, NEW conf,
         Handle(q.actor, q.cmd, conf), q.cmd.op \in {"submit", "review", "adopt"}
  PROVE  EventsInv'
<1> DEFINE a == q.cmd.artifact
           t == q.cmd.terms
<1>1. a \in Artifacts /\ t \in Terms /\ t.id \in Commitments
  BY RequestAssumption, CommandFacts, TermsFacts
<1>2. /\ q.cmd.op = "submit" => Submit(q.actor, t, a)
      /\ q.cmd.op = "review" => RecordReview(q.actor, t, a, q.cmd.passed)
      /\ q.cmd.op = "adopt" => Adopt(q.actor, t, a)
  BY DEF Handle
<1>3. UNCHANGED <<goals, terms, accepted>>
  BY <1>2 DEF Submit, RecordReview, Adopt, commitments
<1>4. \A c \in Commitments : status'[c] # "none" <=> status[c] # "none"
  <2>1. q.cmd.op \in {"submit", "review"} => status' = status
    BY <1>2 DEF Submit, RecordReview, commitments
  <2>2. q.cmd.op = "adopt" => status' = [status EXCEPT ![t.id] = "adopted"] /\ status[t.id] = "active"
    BY <1>2 DEF Adopt, Active
  <2>3. QED
    BY <1>1, <2>1, <2>2 DEF RecordsInv, RecordsTyped
<1>5. Applied(q.cmd.op)' = Applied(q.cmd.op) \cup {q} /\ \A op \in Ops \ {q.cmd.op} : Applied(op)' = Applied(op)
  BY AppliedGrows
<1>6. GoalEvents' /\ CommitmentEvents'
  BY <1>3, <1>4, <1>5, SameGoalEvents, SameCommitmentEvents DEF EventsInv, Ops
<1>7. ASSUME NEW b \in Artifacts
      PROVE  /\ ~(q.cmd.op = "submit" /\ b = a) => Submissions(b)' = Submissions(b)
             /\ q.cmd.op = "submit" /\ b = a => Submissions(b)' = Submissions(b) \cup {t.id}
             /\ ~(q.cmd.op = "review" /\ b = a) => Verdicts(b)' = Verdicts(b)
             /\ q.cmd.op = "review" /\ b = a =>
                  Verdicts(b)' = Verdicts(b) \cup {[verifier |-> q.actor, passed |-> q.cmd.passed]}
  <2>1. /\ ~(q.cmd.op = "submit" /\ b = a) =>
             {s \in Applied("submit") : s.cmd.artifact = b}' = {s \in Applied("submit") : s.cmd.artifact = b}
        /\ q.cmd.op = "submit" /\ b = a =>
             {s \in Applied("submit") : s.cmd.artifact = b}' = {s \in Applied("submit") : s.cmd.artifact = b} \cup {q}
    BY DEF Applied
  <2>2. /\ ~(q.cmd.op = "review" /\ b = a) =>
             {s \in Applied("review") : s.cmd.artifact = b}' = {s \in Applied("review") : s.cmd.artifact = b}
        /\ q.cmd.op = "review" /\ b = a =>
             {s \in Applied("review") : s.cmd.artifact = b}' = {s \in Applied("review") : s.cmd.artifact = b} \cup {q}
    BY DEF Applied
  <2>3. QED
    BY <2>1, <2>2 DEF Submissions, Verdicts
<1>8. ArtifactEvents'
  <2>1. CASE q.cmd.op = "submit"
    <3> DEFINE new == [of |-> t.id, reviews |-> {}]
    <3>1. artifact[a] = None /\ artifact' = [artifact EXCEPT ![a] = new]
      BY <1>2, <2>1 DEF Submit
    <3>2. new \in Artifact /\ new # None
      BY <1>1, RequestAssumption DEF Artifact
    <3>3. artifact'[a] = new /\ new.of = t.id /\ new.reviews = {} /\ \A b \in Artifacts \ {a} : artifact'[b] = artifact[b]
      BY <1>1, <3>1 DEF RecordsInv, RecordsTyped
    <3> HIDE DEF new, a, t
    <3>4. Submissions(a) = {} /\ Verdicts(a) = {}
      BY <1>1, <3>1 DEF EventsInv, ArtifactEvents
    <3>5. Submissions(a)' = {t.id} /\ Verdicts(a)' = {}
      BY <1>1, <1>7, <2>1, <3>4
    <3>6. \A b \in Artifacts \ {a} : Submissions(b)' = Submissions(b) /\ Verdicts(b)' = Verdicts(b)
      BY <1>7, <2>1
    <3>7. QED
      BY <3>2, <3>3, <3>5, <3>6 DEF EventsInv, ArtifactEvents
  <2>2. CASE q.cmd.op = "adopt"
    <3>1. artifact' = artifact
      BY <1>2, <2>2 DEF Adopt
    <3>2. QED
      BY <1>5, <2>2, <3>1, SameArtifactEvents DEF EventsInv, Ops
  <2>3. CASE q.cmd.op = "review"
    <3> DEFINE verdict == [verifier |-> q.actor, passed |-> q.cmd.passed]
    <3>1. /\ artifact[a] # None /\ ReviewsBy(q.actor, a) = {}
          /\ artifact' = [artifact EXCEPT ![a].reviews = (@ \ ReviewsBy(q.actor, a)) \cup {verdict}]
      BY <1>2, <2>3 DEF RecordReview, FirstReview
    <3>2. artifact[a] \in [of : Commitments, reviews : SUBSET Review]
      BY <1>1, <3>1 DEF RecordsInv, RecordsTyped, Artifact
    <3>3. verdict \in Review
      BY <2>3, RequestAssumption, CommandFacts DEF Review
    <3>4. \A b \in Artifacts : Submissions(b)' = Submissions(b) /\ (b # a => Verdicts(b)' = Verdicts(b))
      BY <1>7, <2>3
    <3>5. Verdicts(a)' = Verdicts(a) \cup {verdict}
      BY <1>1, <1>7, <2>3
    <3> HIDE DEF verdict, a
    <3>6. /\ artifact'[a] = [of |-> artifact[a].of, reviews |-> artifact[a].reviews \cup {verdict}]
          /\ \A b \in Artifacts \ {a} : artifact'[b] = artifact[b]
      BY <1>1, <3>1, <3>2 DEF RecordsInv, RecordsTyped
    <3>7. artifact'[a] # None
      <4>1. artifact[a].of \in Commitments /\ artifact[a].reviews \cup {verdict} \in SUBSET Review
        BY <3>2, <3>3
      <4>2. artifact'[a] \in Artifact
        BY <3>6, <4>1 DEF Artifact
      <4>3. QED
        BY <4>2, RequestAssumption
    <3>8. artifact'[a].of = artifact[a].of /\ artifact'[a].reviews = artifact[a].reviews \cup {verdict}
      BY <3>6
    <3>9. Submissions(a)' = {artifact'[a].of} /\ Verdicts(a)' = artifact'[a].reviews
      BY <1>1, <3>1, <3>4, <3>5, <3>8 DEF EventsInv, ArtifactEvents
    <3>10. QED
      BY <3>4, <3>6, <3>7, <3>9 DEF EventsInv, ArtifactEvents
  <2>4. QED
    BY <2>1, <2>2, <2>3
<1>9. AdoptionEvents'
  <2>1. CASE q.cmd.op # "adopt"
    <3>1. adoptions' = adoptions
      BY <1>2, <2>1 DEF Submit, RecordReview
    <3>2. QED
      BY <1>5, <2>1, <3>1 DEF EventsInv, AdoptionEvents, Adopted, AdoptionReceipts, Ops
  <2>2. CASE q.cmd.op = "adopt"
    <3>1. PICK new : adoptions' = adoptions \cup {new} /\ new.commitment = t.id /\ new.artifact = a
      <4>1. PICK b : b = (t.revision = revision[t.goal])
        OBVIOUS
      <4> DEFINE row == [commitment |-> t.id, artifact |-> a, current |-> b]
      <4>2. row.commitment = t.id /\ row.artifact = a
        OBVIOUS
      <4>3. adoptions' = adoptions \cup {row}
        BY <1>2, <2>2, <4>1 DEF Adopt
      <4> HIDE DEF row
      <4>4. QED
        BY <4>2, <4>3, Zenon
    <3>2. Adopted' = Adopted \cup {<<t.id, a>>}
      BY <3>1 DEF Adopted
    <3>3. Applied("adopt")' = Applied("adopt") \cup {q}
      BY <1>5, <2>2
    <3>4. AdoptionReceipts' = AdoptionReceipts \cup {<<t.id, a>>}
      BY <3>3 DEF AdoptionReceipts
    <3>5. QED
      BY <3>2, <3>4 DEF EventsInv, AdoptionEvents
  <2>3. QED
    BY <2>1, <2>2
<1>10. QED
  BY <1>6, <1>8, <1>9 DEF EventsInv

LEMMA HandleEvents ==
  ASSUME RecordsInv, EventsInv, receipts \subseteq Requests, IsFiniteSet(receipts),
         NEW q \in Requests, q \notin receipts, receipts' = receipts \cup {q}, NEW conf,
         Handle(q.actor, q.cmd, conf)
  PROVE  EventsInv'
<1> DEFINE g == q.cmd.goal
<1>1. CASE q.cmd.op \in {"create", "revise"}
  <2>1. g \in Goals /\ UNCHANGED <<commitments, artifact, adoptions>>
    BY <1>1, RequestAssumption, CommandFacts DEF Handle, GoalCreate, GoalRevise
  <2>2. revision' = [revision EXCEPT ![g] = revision[g] + 1]
    <3>1. q.cmd.op = "create" => revision' = [revision EXCEPT ![g] = 1] /\ revision[g] = 0
      BY <1>1, <2>1 DEF Handle, GoalCreate, RecordsInv, GoalsInv
    <3>2. q.cmd.op = "revise" => revision' = [revision EXCEPT ![g] = revision[g] + 1]
      BY <1>1 DEF Handle, GoalRevise
    <3>3. QED
      BY <1>1, <3>1, <3>2
  <2>3. \A op \in Ops \ {"create", "revise"} : Applied(op)' = Applied(op)
    BY <1>1, AppliedGrows
  <2>4. GoalEvents'
    <3>1. q.cmd.op = "revise" => q.cmd.base = revision[g]
      BY DEF Handle, GoalRevise
    <3>2. QED
      BY <1>1, <2>1, <2>2, <3>1, GoalEventsStep
  <2>5. CommitmentEvents' /\ ArtifactEvents' /\ AdoptionEvents'
    BY <2>1, <2>3, SameCommitmentEvents, SameArtifactEvents
       DEF EventsInv, AdoptionEvents, Adopted, AdoptionReceipts, commitments, Ops
  <2>6. QED
    BY <2>4, <2>5 DEF EventsInv
<1>2. CASE q.cmd.op = "propose"
  BY <1>2, ProposeEvents DEF Handle
<1>3. CASE q.cmd.op = "accept"
  BY <1>3, AcceptEvents DEF Handle
<1>4. CASE q.cmd.op \in {"submit", "review", "adopt"}
  BY <1>4, WorkEvents
<1>5. QED
  BY <1>1, <1>2, <1>3, <1>4 DEF Handle

\* What a receipt did is on record, and its handler refuses to do it again.
LEMMA NotAgain ==
  ASSUME RecordsInv, EventsInv, receipts \subseteq Requests, NEW q \in Requests, NEW conf,
         Handle(q.actor, q.cmd, conf), NEW r \in receipts, r.actor = q.actor, r.cmd = q.cmd
  PROVE  FALSE
<1> DEFINE g == q.cmd.goal
           t == q.cmd.terms
           a == q.cmd.artifact
<1>1. r \in Applied(q.cmd.op)
  BY DEF Applied
<1>2. CASE q.cmd.op = "create"
  <2>1. g \in Goals /\ revision[g] > 0
    BY <1>1, <1>2, RequestAssumption, CommandFacts DEF EventsInv, GoalEvents
  <2>2. revision[g] = 0
    BY <1>2, <2>1 DEF Handle, GoalCreate, RecordsInv, GoalsInv
  <2>3. QED
    BY <2>1, <2>2
<1>3. CASE q.cmd.op = "revise"
  <2>1. g \in Goals /\ q.cmd.base < revision[g]
    BY <1>1, <1>3, RequestAssumption, CommandFacts DEF EventsInv, GoalEvents
  <2>2. q.cmd.base = revision[g] /\ revision[g] \in Nat
    BY <1>3, <2>1 DEF Handle, GoalRevise, RecordsInv, RecordsTyped
  <2>3. QED
    BY <2>1, <2>2
<1>4. ASSUME q.cmd.op \notin {"create", "revise"}
      PROVE  t \in Terms /\ t.id \in Commitments /\ t # None
  BY <1>4, RequestAssumption, CommandFacts, TermsFacts
<1>5. CASE q.cmd.op = "propose"
  <2>1. terms[t.id] = t
    BY <1>1, <1>5 DEF EventsInv, CommitmentEvents
  <2>2. terms[t.id] = None
    BY <1>4, <1>5 DEF Handle, Propose, RecordsInv, CommitmentInv
  <2>3. QED
    BY <1>4, <1>5, <2>1, <2>2
<1>6. CASE q.cmd.op = "accept"
  <2>1. terms[t.id] = t /\ q.actor \notin accepted[t.id]
    BY <1>6 DEF Handle, Accept
  <2>2. q.actor \in Consents(t.id)
    BY <1>1, <1>6, <2>1 DEF Consents
  <2>3. QED
    BY <1>4, <1>6, <2>1, <2>2 DEF EventsInv, CommitmentEvents
<1>7. ASSUME q.cmd.op \in {"submit", "review", "adopt"}
      PROVE  a \in Artifacts
  BY <1>7, RequestAssumption, CommandFacts
<1>8. CASE q.cmd.op = "submit"
  <2>1. artifact[a] = None
    BY <1>8 DEF Handle, Submit
  <2>2. t.id \in Submissions(a)
    BY <1>1, <1>8 DEF Submissions
  <2>3. QED
    BY <1>7, <1>8, <2>1, <2>2 DEF EventsInv, ArtifactEvents
<1>9. CASE q.cmd.op = "review"
  <2> DEFINE verdict == [verifier |-> q.actor, passed |-> q.cmd.passed]
  <2>1. artifact[a] # None /\ ReviewsBy(q.actor, a) = {}
    BY <1>9 DEF Handle, RecordReview, FirstReview
  <2>2. verdict \in Verdicts(a)
    BY <1>1, <1>9 DEF Verdicts
  <2>3. verdict \in artifact[a].reviews
    BY <1>7, <1>9, <2>1, <2>2 DEF EventsInv, ArtifactEvents
  <2>4. QED
    BY <2>1, <2>3 DEF ReviewsBy
<1>10. CASE q.cmd.op = "adopt"
  <2>1. status[t.id] = "active"
    BY <1>10 DEF Handle, Adopt, Active
  <2>2. <<t.id, a>> \in Adopted
    BY <1>1, <1>10 DEF EventsInv, AdoptionEvents, AdoptionReceipts
  <2>3. PICK d \in adoptions : d.commitment = t.id
    BY <2>2 DEF Adopted
  <2>4. QED
    BY <2>1, <2>3 DEF RecordsInv, WorkInv
<1>11. QED
  BY <1>2, <1>3, <1>5, <1>6, <1>8, <1>9, <1>10 DEF Handle

\* The revisions, consents, proposals, submissions, verdicts and adoptions on
\* record are exactly those of the receipts, and nothing was done twice under two
\* command ids, whichever instances wrote them and through all migrations (apply
\* writes records and receipt in one transaction).
THEOREM Explained == Spec => []EventsExplainRecords
<1>1. Init => EventsInv /\ OnceOnly
  <2> SUFFICES ASSUME Init PROVE EventsInv /\ OnceOnly
    OBVIOUS
  <2>1. \A op : Applied(op) = {}
    BY DEF Init, Applied
  <2>2. \A g : GoalReceipts(g) = {}
    BY <2>1 DEF GoalReceipts
  <2>3. \A c : Consents(c) = {}
    BY <2>1 DEF Consents
  <2>4. \A a : Submissions(a) = {} /\ Verdicts(a) = {}
    BY <2>1 DEF Submissions, Verdicts
  <2>5. GoalEvents /\ CommitmentEvents
    BY <2>1, <2>2, <2>3, FS_EmptySet DEF Init, GoalEvents, CommitmentEvents
  <2>6. ArtifactEvents /\ AdoptionEvents /\ OnceOnly
    BY <2>1, <2>4 DEF Init, ArtifactEvents, AdoptionEvents, Adopted, AdoptionReceipts, OnceOnly
  <2>7. QED
    BY <2>5, <2>6 DEF EventsInv
<1>2. IInv /\ EventsInv /\ OnceOnly /\ [Next]_vars => EventsInv' /\ OnceOnly'
  <2> SUFFICES ASSUME IInv, EventsInv, OnceOnly, [Next]_vars PROVE EventsInv' /\ OnceOnly'
    OBVIOUS
  <2>1. RecordsInv /\ receipts \subseteq Requests /\ IsFiniteSet(receipts)
    BY DEF IInv, ReceiptsInv
  <2>2. ASSUME NEW i \in Instances, NEW q \in Requests, Execute(i, q) PROVE EventsInv' /\ OnceOnly'
    <3>1. receipts' = receipts \cup {q} /\ q \notin receipts /\ Handle(q.actor, q.cmd, Configs[opened[i]])
      BY <2>2 DEF Execute, Prior
    <3>2. EventsInv'
      BY <2>1, <3>1, HandleEvents
    <3>3. \A r \in receipts : ~(r.actor = q.actor /\ r.cmd = q.cmd)
      BY <2>1, <3>1, NotAgain
    <3>4. QED
      BY <3>1, <3>2, <3>3 DEF OnceOnly
  <2>3. ASSUME UNCHANGED <<records, receipts>> PROVE EventsInv' /\ OnceOnly'
    <3>1. UNCHANGED <<goals, terms, accepted, status, artifact, adoptions, receipts>>
      BY <2>3 DEF records, commitments
    <3>2. \A op : Applied(op)' = Applied(op)
      BY <3>1 DEF Applied
    <3>3. GoalEvents' /\ CommitmentEvents' /\ ArtifactEvents'
      BY <3>1, <3>2, SameGoalEvents, SameCommitmentEvents, SameArtifactEvents DEF EventsInv
    <3>4. AdoptionEvents' /\ OnceOnly'
      BY <3>1, <3>2 DEF EventsInv, AdoptionEvents, Adopted, AdoptionReceipts, OnceOnly
    <3>5. QED
      BY <3>3, <3>4 DEF EventsInv
  <2>4. QED
    BY <2>2, <2>3 DEF Next, Open, Migrate, Replay, vars
<1>3. EventsInv /\ OnceOnly => EventsExplainRecords
  BY DEF EventsInv, EventsExplainRecords, GoalEvents, CommitmentEvents, ArtifactEvents, AdoptionEvents, Adopted, AdoptionReceipts, OnceOnly
<1>4. QED
  BY <1>1, <1>2, <1>3, Invariance, PTL DEF Spec

-----------------------------------------------------------------------------
(* Chains of amendments.  The recursion of root follows the bases of a      *)
(* commitment; here a chain is what amendments reach from a commitment      *)
(* that amends none, and the two are shown to agree.                        *)
Closed(S) == \A d \in Commitments : Basis(d) \in S => d \in S
Chain(r) ==
  {c \in Commitments : \A S \in SUBSET Commitments : (Basis(r) = None => r \in S) /\ Closed(S) => c \in S}

\* What is on record stands in the chain of a root, and one commitment of a
\* chain is in force.
Rooted == \A c \in Commitments : status[c] # "none" => \E r \in Roots : c \in Chain(r)
OneHolds == \A r \in Roots : \A c, d \in Chain(r) :
  status[c] \in {"active", "adopted"} /\ status[d] \in {"active", "adopted"} => c = d
ChainInv == Rooted /\ OneHolds

LEMMA ChainWithin ==
  ASSUME NEW r, NEW S \in SUBSET Commitments, Basis(r) = None => r \in S, Closed(S)
  PROVE  Chain(r) \subseteq S
  BY DEF Chain

LEMMA ChainRoot ==
  ASSUME NEW r \in Commitments, Basis(r) = None
  PROVE  r \in Chain(r)
  BY DEF Chain

LEMMA ChainGrows ==
  ASSUME NEW r, NEW d \in Commitments, Basis(d) \in Chain(r)
  PROVE  d \in Chain(r)
  BY DEF Chain, Closed

LEMMA ChainSplits ==
  ASSUME NEW r \in Commitments, NEW c \in Chain(r)
  PROVE  (c = r /\ Basis(r) = None) \/ Basis(c) \in Chain(r)
<1>. DEFINE S == {x \in Chain(r) : (x = r /\ Basis(r) = None) \/ Basis(x) \in Chain(r)}
<1>1. S \in SUBSET Commitments /\ S \subseteq Chain(r)
  BY DEF Chain
<1>2. Basis(r) = None => r \in S
  BY ChainRoot
<1>3. Closed(S)
  BY <1>1, ChainGrows DEF Closed
<1>4. Chain(r) \subseteq S
  <2>. HIDE DEF S
  <2>. QED BY <1>1, <1>2, <1>3, ChainWithin
<1>. QED BY <1>4

\* A commitment stands in one chain.
LEMMA ChainsApart ==
  ASSUME NEW r \in Commitments, NEW q \in Commitments, NEW c \in Chain(r), c \in Chain(q)
  PROVE  r = q
<1>. SUFFICES ASSUME r # q PROVE FALSE
  OBVIOUS
<1>. DEFINE S == Chain(r) \ Chain(q)
<1>0. None \notin Commitments /\ \A x : Chain(x) \subseteq Commitments
  BY JournalAssumption DEF Chain
<1>1. Basis(r) = None => r \in S
  BY <1>0, ChainRoot, ChainSplits
<1>2. Closed(S)
  <2>. SUFFICES ASSUME NEW d \in Commitments, Basis(d) \in S PROVE d \in S
    BY DEF Closed
  <2>1. d \in Chain(r)
    BY ChainGrows
  <2>2. d \notin Chain(q)
    BY <1>0, ChainSplits
  <2>. QED BY <2>1, <2>2
<1>3. Chain(r) \subseteq S
  <2>1. S \in SUBSET Commitments
    BY <1>0
  <2>. HIDE DEF S
  <2>. QED BY <1>1, <1>2, <2>1, ChainWithin
<1>. QED BY <1>3

\* The recursion finds the chain a commitment stands in.
LEMMA RootOfChain ==
  RecordsInv /\ Rooted => \A c, r \in Commitments : root[c] = r <=> c \in Chain(r)
<1>. SUFFICES ASSUME RecordsInv, Rooted PROVE \A c, r \in Commitments : root[c] = r <=> c \in Chain(r)
  OBVIOUS
<1>. DEFINE Follows(g) == g = [c \in Commitments |-> IF Basis(c) = None THEN c ELSE g[Basis(c)]]
           f == [c \in Commitments |-> CHOOSE r \in Commitments : c \in Chain(r)]
<1>1. \A c \in Commitments : Basis(c) # None => Basis(c) \in Commitments
  BY BasisType DEF RecordsInv
<1>2. \A c \in Commitments : \E r \in Commitments : c \in Chain(r)
  <2>. SUFFICES ASSUME NEW c \in Commitments PROVE \E r \in Commitments : c \in Chain(r)
    OBVIOUS
  <2>1. CASE Basis(c) = None
    BY <2>1, ChainRoot
  <2>2. CASE Basis(c) # None
    <3>1. status[c] # "none"
      BY <2>2 DEF RecordsInv, CommitmentInv, Basis
    <3>. QED BY <3>1, TermsFacts DEF Rooted, Roots
  <2>. QED BY <2>1, <2>2
<1>3. \A c \in Commitments : f[c] \in Commitments /\ c \in Chain(f[c])
  BY <1>2
<1>4. \A c, r \in Commitments : c \in Chain(r) => f[c] = r
  <2>. HIDE DEF f
  <2>. QED BY <1>3, ChainsApart
<1>5. Follows(f)
  <2>1. \A c \in Commitments : f[c] = IF Basis(c) = None THEN c ELSE f[Basis(c)]
    <3>. HIDE DEF f
    <3>. QED BY <1>1, <1>3, <1>4, ChainRoot, ChainGrows
  <2>2. f = [c \in Commitments |-> f[c]]
    OBVIOUS
  <2>. HIDE DEF f
  <2>. QED BY <2>1, <2>2
<1>6. Follows(root)
  <2>. HIDE DEF f
  <2>1. root = CHOOSE g : Follows(g)
    BY DEF root
  <2>. QED BY <1>5, <2>1
<1>7. \A c \in Commitments : root[c] = IF Basis(c) = None THEN c ELSE root[Basis(c)]
  BY <1>6
<1>8. ASSUME NEW r \in Commitments PROVE \A c \in Chain(r) : root[c] = r
  <2>. DEFINE S == {c \in Commitments : root[c] = r}
  <2>1. Basis(r) = None => r \in S
    BY <1>7
  <2>2. Closed(S)
    BY <1>7, JournalAssumption DEF Closed
  <2>3. Chain(r) \subseteq S
    <3>1. S \in SUBSET Commitments
      OBVIOUS
    <3>. HIDE DEF S
    <3>. QED BY <2>1, <2>2, <3>1, ChainWithin
  <2>. QED BY <2>3
<1>. QED BY <1>2, <1>8

LEMMA RootOfChainNext ==
  (RecordsInv /\ Rooted => \A c, r \in Commitments : root[c] = r <=> c \in Chain(r))'
  BY RootOfChain, PTL

-----------------------------------------------------------------------------
(* The register the chains implement, step by step. *)
HolderOf(S) == IF S = {} THEN None ELSE CHOOSE c \in S : TRUE
Holders == [r \in Roots |-> IF Held(r) = {} THEN None ELSE CHOOSE c \in Held(r) : TRUE]
Replaced == [r \in Roots |-> InChain(r, {"superseded"})]
Fulfilled == [r \in Roots |-> InChain(r, {"adopted"}) # {}]

RegisterStep ==
  \/ UNCHANGED <<Holders, Replaced, Fulfilled>>
  \/ \E r \in Roots, c \in Commitments :
       /\ Holders[r] = None
       /\ Holders' = [Holders EXCEPT ![r] = c] /\ UNCHANGED <<Replaced, Fulfilled>>
  \/ \E r \in Roots, c \in Commitments :
       /\ Holders[r] # None /\ ~Fulfilled[r] /\ c \notin Replaced[r] \cup {Holders[r]}
       /\ Replaced' = [Replaced EXCEPT ![r] = @ \cup {Holders[r]}]
       /\ Holders' = [Holders EXCEPT ![r] = c] /\ UNCHANGED Fulfilled
  \/ \E r \in Roots :
       /\ Holders[r] # None /\ ~Fulfilled[r]
       /\ Fulfilled' = [Fulfilled EXCEPT ![r] = TRUE] /\ UNCHANGED <<Holders, Replaced>>

LEMMA RootsFacts ==
  /\ Roots \subseteq Commitments
  /\ \A t \in Terms : t.supersedes = None => t.id \in Roots
  /\ None \notin Commitments
  BY TermsFacts, JournalAssumption DEF Roots

LEMMA InChainFacts ==
  RecordsInv /\ Rooted =>
    \A r \in Roots : \A s, c : c \in InChain(r, s) <=> c \in Commitments /\ c \in Chain(r) /\ status[c] \in s
  BY RootOfChain, RootsFacts DEF InChain

LEMMA InChainFactsNext ==
  (RecordsInv /\ Rooted =>
    \A r \in Roots : \A s, c : c \in InChain(r, s) <=> c \in Commitments /\ c \in Chain(r) /\ status[c] \in s)'
  BY InChainFacts, PTL

\* A proposal is not the basis of anything: alone in its chain.
LEMMA Fresh ==
  ASSUME RecordsInv, NEW c \in Commitments, status[c] \notin InForceOnce
  PROVE  /\ \A d \in Commitments : Basis(d) # c
         /\ Chain(c) \subseteq {c}
<1>1. \A d \in Commitments : Basis(d) # c
  BY RootsFacts DEF RecordsInv, CommitmentInv
<1>2. Closed({c})
  BY <1>1 DEF Closed
<1>. QED BY <1>1, <1>2, ChainWithin

LEMMA HoldersAre == Holders = [r \in Roots |-> HolderOf(Held(r))]
  BY DEF Holders, HolderOf

LEMMA HoldersAreNext == (Holders = [r \in Roots |-> HolderOf(Held(r))])'
  BY HoldersAre, PTL

\* Where the commitments that came into force keep chain and status, the
\* register stands still.
LEMMA SameRegister ==
  ASSUME RecordsInv, Rooted, RecordsInv', Rooted',
         \A r \in Roots, c \in Commitments : status[c] \in InForceOnce \/ status'[c] \in InForceOnce =>
           status'[c] = status[c] /\ (c \in Chain(r)' <=> c \in Chain(r))
  PROVE  RegisterStep
<1>1. ASSUME NEW r \in Roots, NEW s \in SUBSET InForceOnce PROVE InChain(r, s)' = InChain(r, s)
  <2>1. \A c : c \in InChain(r, s) <=> c \in Commitments /\ c \in Chain(r) /\ status[c] \in s
    BY InChainFacts
  <2>2. \A c : c \in InChain(r, s)' <=> c \in Commitments /\ c \in Chain(r)' /\ status'[c] \in s
    BY InChainFactsNext
  <2>. QED BY <2>1, <2>2
<1>2. \A r \in Roots : /\ Held(r)' = Held(r) /\ InChain(r, {"superseded"})' = InChain(r, {"superseded"})
                       /\ InChain(r, {"adopted"})' = InChain(r, {"adopted"})
  BY <1>1 DEF Held, InForceOnce
<1>3. Holders' = Holders
  BY <1>2, HoldersAre, HoldersAreNext
<1>4. Replaced' = Replaced
  BY <1>2 DEF Replaced
<1>5. Fulfilled' = Fulfilled
  BY <1>2 DEF Fulfilled
<1>. QED BY <1>3, <1>4, <1>5 DEF RegisterStep

LEMMA SameTermsChain ==
  ASSUME terms' = terms
  PROVE  \A r : Chain(r)' = Chain(r)
  BY DEF Chain, Closed, Basis

LEMMA StillRegister ==
  ASSUME RecordsInv, ChainInv, RecordsInv', terms' = terms, status' = status
  PROVE  ChainInv' /\ RegisterStep
<1>1. \A r : Chain(r)' = Chain(r)
  BY SameTermsChain
<1>2. ChainInv'
  BY <1>1 DEF ChainInv, Rooted, OneHolds
<1>. QED BY <1>1, <1>2, SameRegister DEF ChainInv

LEMMA ProposeRegister ==
  ASSUME RecordsInv, ChainInv, RecordsInv', NEW actor, NEW t \in Terms, NEW conf, Propose(actor, t, conf)
  PROVE  ChainInv' /\ RegisterStep
<1>. DEFINE n == t.id
            b == t.supersedes
<1>1. /\ status[n] = "none" /\ terms' = [terms EXCEPT ![n] = t] /\ status' = [status EXCEPT ![n] = "proposed"]
      /\ b # None => status[b] = "active"
  BY DEF Propose
<1>2. n \in Commitments /\ b \in Commitments \cup {None} /\ None \notin Commitments /\ t # None
  BY TermsFacts, RootsFacts
<1>. HIDE DEF n
<1>3. /\ Basis(n) = None /\ Basis(n)' = b /\ status'[n] = "proposed"
      /\ \A c \in Commitments \ {n} : Basis(c)' = Basis(c) /\ status'[c] = status[c]
  <2>1. terms[n] = None
    BY <1>1, <1>2 DEF RecordsInv, CommitmentInv
  <2>2. terms'[n] = t /\ \A c \in Commitments \ {n} : terms'[c] = terms[c]
    BY <1>1, <1>2 DEF RecordsInv, RecordsTyped
  <2>3. status'[n] = "proposed" /\ \A c \in Commitments \ {n} : status'[c] = status[c]
    BY <1>1, <1>2 DEF RecordsInv, RecordsTyped
  <2>. QED BY <1>2, <2>1, <2>2, <2>3 DEF Basis
<1>4. /\ \A d \in Commitments : Basis(d) # n
      /\ \A d \in Commitments : Basis(d)' # n
      /\ Chain(n) \subseteq {n}
  <2>1. (\A d \in Commitments : Basis(d) # n) /\ Chain(n) \subseteq {n}
    BY <1>1, <1>2, Fresh DEF InForceOnce
  <2>2. b # n
    BY <1>1, <1>2
  <2>. QED BY <1>3, <2>1, <2>2
<1>5. ASSUME NEW r \in Commitments, NEW c \in Commitments \ {n} PROVE c \in Chain(r)' <=> c \in Chain(r)
  <2>1. CASE r = n
    <3>1. Closed({n})'
      BY <1>4 DEF Closed
    <3>2. Chain(n)' \subseteq {n}
      BY <1>2, <3>1 DEF Chain
    <3>. QED BY <1>4, <2>1, <3>2
  <2>2. CASE r # n
    <3>1. Basis(r)' = Basis(r)
      BY <1>3, <2>2
    <3>2. ASSUME c \in Chain(r), NEW S \in SUBSET Commitments, Basis(r) = None => r \in S, Closed(S)'
          PROVE  c \in S
      <4>1. Closed(S)
        BY <1>2, <1>3, <3>2 DEF Closed
      <4>. QED BY <3>2, <4>1 DEF Chain
    <3>3. ASSUME c \in Chain(r)', NEW S \in SUBSET Commitments, Basis(r) = None => r \in S, Closed(S)
          PROVE  c \in S
      <4>1. Closed(S \cup {n})'
        BY <1>3, <1>4, <3>3 DEF Closed
      <4>2. c \in S \cup {n}
        BY <1>2, <3>1, <3>3, <4>1 DEF Chain
      <4>. QED BY <4>2
    <3>. QED BY <3>1, <3>2, <3>3 DEF Chain
  <2>. QED BY <2>1, <2>2
<1>6. ASSUME NEW r \in Commitments, b # None => b \in Chain(r), b = None => r = n PROVE n \in Chain(r)'
  <2>1. CASE b = None
    BY <1>2, <1>3, <1>6, <2>1 DEF Chain
  <2>2. CASE b # None
    <3>1. b \in Chain(r)' /\ b \in Commitments
      BY <1>1, <1>2, <1>5, <1>6, <2>2
    <3>. QED BY <1>2, <1>3, <3>1 DEF Chain, Closed
  <2>. QED BY <2>1, <2>2
<1>7. Rooted'
  <2>1. ASSUME NEW c \in Commitments \ {n}, status[c] # "none" PROVE \E r \in Roots : c \in Chain(r)'
    BY <1>5, <2>1, RootsFacts DEF ChainInv, Rooted
  <2>2. \E r \in Roots : n \in Chain(r)'
    <3>1. CASE b = None
      BY <1>2, <1>6, <3>1, RootsFacts DEF n
    <3>2. CASE b # None
      <4>1. PICK r \in Roots : b \in Chain(r)
        BY <1>1, <1>2, <3>2 DEF ChainInv, Rooted
      <4>. QED BY <1>6, <3>2, <4>1, RootsFacts
    <3>. QED BY <3>1, <3>2
  <2>. QED BY <1>3, <2>1, <2>2 DEF Rooted
<1>8. OneHolds'
  <2>1. ASSUME NEW r \in Roots, NEW c \in Chain(r)', NEW d \in Chain(r)',
               status'[c] \in {"active", "adopted"}, status'[d] \in {"active", "adopted"}
        PROVE  c = d
    <3>1. c \in Commitments /\ d \in Commitments /\ c # n /\ d # n
      BY <1>3, <2>1 DEF Chain
    <3>2. c \in Chain(r) /\ d \in Chain(r) /\ status[c] = status'[c] /\ status[d] = status'[d]
      BY <1>3, <1>5, <3>1, RootsFacts
    <3>. QED BY <2>1, <3>2 DEF ChainInv, OneHolds
  <2>. QED BY <2>1 DEF OneHolds
<1>9. RegisterStep
  <2>1. ASSUME NEW r \in Roots, NEW c \in Commitments, status[c] \in InForceOnce \/ status'[c] \in InForceOnce
        PROVE  status'[c] = status[c] /\ (c \in Chain(r)' <=> c \in Chain(r))
    <3>1. c # n
      BY <1>1, <1>3, <2>1 DEF InForceOnce
    <3>. QED BY <1>3, <1>5, <3>1, RootsFacts
  <2>. QED BY <1>7, <2>1, SameRegister DEF ChainInv
<1>. QED BY <1>7, <1>8, <1>9 DEF ChainInv

\* What the registers show of a chain, before and after a step.
LEMMA RegisterFacts ==
  \A r \in Roots :
    /\ Held(r) = {} => Holders[r] = None
    /\ \A c : Held(r) = {c} => Holders[r] = c
    /\ Replaced[r] = InChain(r, {"superseded"})
    /\ Fulfilled[r] = (InChain(r, {"adopted"}) # {})
<1>1. ASSUME NEW r \in Roots PROVE Holders[r] = IF Held(r) = {} THEN None ELSE CHOOSE c \in Held(r) : TRUE
  BY DEF Holders
<1>2. ASSUME NEW r \in Roots, NEW c, Held(r) = {c} PROVE Holders[r] = c
  <2>1. (CHOOSE x \in {c} : TRUE) = c
    OBVIOUS
  <2>. QED BY <1>1, <1>2, <2>1
<1>3. ASSUME NEW r \in Roots, Held(r) = {} PROVE Holders[r] = None
  BY <1>1, <1>3
<1>4. \A r \in Roots : /\ Replaced[r] = InChain(r, {"superseded"})
                       /\ Fulfilled[r] = (InChain(r, {"adopted"}) # {})
  BY DEF Replaced, Fulfilled
<1>. QED BY <1>2, <1>3, <1>4

LEMMA RegisterFactsNext ==
  (\A r \in Roots :
    /\ Held(r) = {} => Holders[r] = None
    /\ \A c : Held(r) = {c} => Holders[r] = c
    /\ Replaced[r] = InChain(r, {"superseded"})
    /\ Fulfilled[r] = (InChain(r, {"adopted"}) # {}))'
  BY RegisterFacts, PTL

\* The registers of the chains nothing happened in stand still.
LEMMA OtherRegisters ==
  ASSUME NEW q \in Roots,
         \A r \in Roots : r # q =>
           /\ Held(r)' = Held(r) /\ InChain(r, {"superseded"})' = InChain(r, {"superseded"})
           /\ InChain(r, {"adopted"})' = InChain(r, {"adopted"})
  PROVE  /\ Holders' = [Holders EXCEPT ![q] = Holders'[q]]
         /\ Replaced' = [Replaced EXCEPT ![q] = Replaced'[q]]
         /\ Fulfilled' = [Fulfilled EXCEPT ![q] = Fulfilled'[q]]
<1>1. Holders' = [Holders EXCEPT ![q] = Holders'[q]]
  BY HoldersAre, HoldersAreNext
<1>2. Replaced' = [Replaced EXCEPT ![q] = Replaced'[q]]
  BY DEF Replaced
<1>3. Fulfilled' = [Fulfilled EXCEPT ![q] = Fulfilled'[q]]
  BY DEF Fulfilled
<1>. QED BY <1>1, <1>2, <1>3

LEMMA AcceptRegister ==
  ASSUME RecordsInv, ChainInv, RecordsInv', NEW actor, NEW t \in Terms, Accept(actor, t)
  PROVE  ChainInv' /\ RegisterStep
<1>. DEFINE n == t.id
            b == t.supersedes
<1>1. status[n] \in {"proposed", "active"} /\ terms[n] = t /\ terms' = terms
  BY DEF Accept
<1>2. n \in Commitments /\ b \in Commitments \cup {None} /\ None \notin Commitments /\ t # None
  BY TermsFacts, RootsFacts
<1>3. Basis(n) = b /\ status[n] = "proposed"
  <2>1. actor \in t.parties \ accepted[n]
    BY DEF Accept
  <2>. QED BY <1>1, <1>2, <2>1 DEF RecordsInv, CommitmentInv, InForceOnce, Basis
<1>4. CASE accepted'[n] # t.parties
  <2>1. status' = status
    BY <1>4 DEF Accept
  <2>. QED BY <1>1, <2>1, StillRegister
<1>5. CASE accepted'[n] = t.parties
  <2>1. /\ b # None => status[b] = "active"
        /\ status' = [c \in Commitments |-> CASE c = n -> "active"
                                              [] c = b -> "superseded"
                                              [] OTHER -> status[c]]
    BY <1>5 DEF Accept, BasisInForce
  <2>. HIDE DEF n, b
  <2>2. b # n
    BY <1>3, <2>1, <1>2
  <2>3. /\ status'[n] = "active" /\ (b # None => status'[b] = "superseded")
        /\ \A c \in Commitments \ {n, b} : status'[c] = status[c]
    BY <1>2, <2>1, <2>2
  <2>4. \A r : Chain(r)' = Chain(r) /\ Chain(r) \subseteq Commitments
    BY <1>1, SameTermsChain DEF Chain
  <2>5. \A c \in Commitments : status'[c] # "none" => status[c] # "none"
    BY <1>2, <1>3, <2>1, <2>3
  <2>6. Rooted'
    BY <2>4, <2>5 DEF ChainInv, Rooted
  <2>7. PICK q \in Roots : n \in Chain(q)
    BY <1>2, <1>3 DEF ChainInv, Rooted
  <2>8. q \in Commitments /\ (b # None => b \in Chain(q)) /\ (b = None => q = n /\ Chain(q) = {n})
    <3>1. q \in Commitments
      BY RootsFacts
    <3>2. (n = q /\ b = None) \/ b \in Chain(q)
      BY <1>3, <2>7, <3>1, ChainSplits
    <3>3. b = None => Chain(n) \subseteq {n}
      BY <1>2, <1>3, Fresh DEF InForceOnce
    <3>. QED BY <1>2, <2>4, <2>7, <3>1, <3>2, <3>3
  <2>9. \A c \in Chain(q) : status[c] \in {"active", "adopted"} <=> c = b
    BY <1>2, <1>3, <2>1, <2>8 DEF ChainInv, OneHolds
  <2>10. \A r \in Roots : r # q => n \notin Chain(r) /\ b \notin Chain(r)
    BY <1>2, <2>4, <2>7, <2>8, RootsFacts, ChainsApart
  <2>11. OneHolds'
    <3>1. ASSUME NEW r \in Roots, NEW c \in Chain(r), NEW d \in Chain(r),
                 status'[c] \in {"active", "adopted"}, status'[d] \in {"active", "adopted"}
          PROVE  c = d
      <4>1. CASE r = q
        BY <1>2, <2>3, <2>4, <2>9, <3>1, <4>1
      <4>2. CASE r # q
        <5>1. status'[c] = status[c] /\ status'[d] = status[d]
          BY <2>3, <2>4, <2>10, <4>2
        <5>. QED BY <3>1, <5>1 DEF ChainInv, OneHolds
      <4>. QED BY <4>1, <4>2
    <3>. QED BY <2>4, <3>1 DEF OneHolds
  <2>12. \A r \in Roots : \A s, c :
           /\ c \in InChain(r, s) <=> c \in Chain(r) /\ status[c] \in s
           /\ c \in InChain(r, s)' <=> c \in Chain(r) /\ status'[c] \in s
    BY <2>4, <2>6, InChainFacts, InChainFactsNext DEF ChainInv
  <2>13. \A r \in Roots : r # q =>
           /\ Held(r)' = Held(r) /\ InChain(r, {"superseded"})' = InChain(r, {"superseded"})
           /\ InChain(r, {"adopted"})' = InChain(r, {"adopted"})
    <3>1. ASSUME NEW r \in Roots, r # q, NEW s PROVE InChain(r, s)' = InChain(r, s)
      <4>1. \A c \in Chain(r) : status'[c] = status[c]
        BY <2>3, <2>4, <2>10, <3>1
      <4>2. \A c : c \in InChain(r, s)' <=> c \in InChain(r, s)
        BY <2>12, <3>1, <4>1
      <4>. QED BY <4>2 DEF InChain
    <3>. QED BY <3>1 DEF Held
  <2>14. Held(q) = {b} \ {None} /\ Held(q)' = {n}
    <3>1. ASSUME NEW c \in Chain(q) PROVE status'[c] \in {"active", "adopted"} <=> c = n
      BY <1>2, <2>2, <2>3, <2>4, <2>9
    <3>. QED BY <1>2, <2>7, <2>8, <2>9, <2>12, <3>1 DEF Held
  <2>15. InChain(q, {"adopted"}) = {} /\ InChain(q, {"adopted"})' = {}
    <3>1. \A c \in Chain(q) : status[c] # "adopted" /\ status'[c] # "adopted"
      BY <1>2, <1>3, <2>1, <2>2, <2>3, <2>4, <2>9
    <3>. QED BY <2>12, <3>1
  <2>16. /\ InChain(q, {"superseded"})' = InChain(q, {"superseded"}) \cup ({b} \ {None})
         /\ n \notin InChain(q, {"superseded"})
    <3>1. \A c \in Chain(q) : status'[c] = "superseded" <=> status[c] = "superseded" \/ c = b
      BY <1>2, <1>3, <2>2, <2>3, <2>4, <2>8
    <3>. QED BY <1>2, <1>3, <2>8, <2>12, <3>1
  <2>17. /\ Holders' = [Holders EXCEPT ![q] = Holders'[q]]
         /\ Replaced' = [Replaced EXCEPT ![q] = Replaced'[q]]
         /\ Fulfilled' = [Fulfilled EXCEPT ![q] = Fulfilled'[q]]
    BY <2>13, OtherRegisters
  <2>18. /\ Holders[q] = b /\ Holders'[q] = n /\ ~Fulfilled[q] /\ ~Fulfilled'[q]
         /\ Replaced'[q] = Replaced[q] \cup ({b} \ {None}) /\ n \notin Replaced[q]
    <3>1. Holders[q] = b
      <4>1. CASE b = None
        BY <2>14, <4>1, RegisterFacts
      <4>2. CASE b # None
        BY <2>14, <4>2, RegisterFacts
      <4>. QED BY <4>1, <4>2
    <3>2. Holders'[q] = n
      BY <2>14, RegisterFactsNext
    <3>3. ~Fulfilled[q] /\ ~Fulfilled'[q]
      BY <2>15, RegisterFacts, RegisterFactsNext
    <3>4. Replaced[q] = InChain(q, {"superseded"}) /\ Replaced'[q] = InChain(q, {"superseded"})'
      BY RegisterFacts, RegisterFactsNext
    <3>. QED BY <2>16, <3>1, <3>2, <3>3, <3>4
  <2>19. /\ Fulfilled = [Fulfilled EXCEPT ![q] = Fulfilled[q]]
         /\ Replaced = [Replaced EXCEPT ![q] = Replaced[q]]
         /\ Fulfilled[q] = FALSE /\ Fulfilled'[q] = FALSE
    BY <2>18 DEF Fulfilled, Replaced
  <2>20. Fulfilled' = Fulfilled
    BY <2>17, <2>19
  <2>21. RegisterStep
    <3>1. CASE b = None
      <4>1. Replaced'[q] = Replaced[q]
        BY <2>18, <3>1
      <4>2. Replaced' = Replaced
        BY <2>17, <2>19, <4>1
      <4>. QED BY <1>2, <2>17, <2>18, <2>20, <3>1, <4>2 DEF RegisterStep
    <3>2. CASE b # None
      <4>1. Holders[q] # None /\ ~Fulfilled[q] /\ n \notin Replaced[q] \cup {Holders[q]}
        BY <2>2, <2>18, <3>2
      <4>2. Replaced'[q] = Replaced[q] \cup {Holders[q]}
        BY <2>18, <3>2
      <4>3. /\ Replaced' = [Replaced EXCEPT ![q] = Replaced[q] \cup {Holders[q]}]
            /\ Holders' = [Holders EXCEPT ![q] = n]
        BY <2>17, <2>18, <4>2
      <4>. QED BY <1>2, <2>20, <4>1, <4>3 DEF RegisterStep
    <3>. QED BY <3>1, <3>2
  <2>. QED BY <2>6, <2>11, <2>21 DEF ChainInv
<1>. QED BY <1>4, <1>5

LEMMA AdoptRegister ==
  ASSUME RecordsInv, ChainInv, RecordsInv', NEW actor, NEW t \in Terms, NEW a, Adopt(actor, t, a)
  PROVE  ChainInv' /\ RegisterStep
<1>. DEFINE n == t.id
<1>1. status[n] = "active" /\ terms' = terms /\ status' = [status EXCEPT ![n] = "adopted"]
  BY DEF Adopt, Active
<1>2. n \in Commitments
  BY TermsFacts
<1>. HIDE DEF n
<1>3. status'[n] = "adopted" /\ \A c \in Commitments \ {n} : status'[c] = status[c]
  BY <1>1, <1>2 DEF RecordsInv, RecordsTyped
<1>4. \A r : Chain(r)' = Chain(r) /\ Chain(r) \subseteq Commitments
  BY <1>1, SameTermsChain DEF Chain
<1>5. \A c \in Commitments : /\ status'[c] \in {"active", "adopted"} <=> status[c] \in {"active", "adopted"}
                             /\ status'[c] = "superseded" <=> status[c] = "superseded"
                             /\ status'[c] # "none" => status[c] # "none"
  BY <1>1, <1>2, <1>3
<1>6. Rooted'
  BY <1>4, <1>5 DEF ChainInv, Rooted
<1>7. OneHolds'
  BY <1>4, <1>5 DEF ChainInv, OneHolds
<1>8. PICK q \in Roots : n \in Chain(q)
  BY <1>1, <1>2 DEF ChainInv, Rooted
<1>9. \A c \in Chain(q) : status[c] \in {"active", "adopted"} <=> c = n
  BY <1>1, <1>8 DEF ChainInv, OneHolds
<1>10. \A r \in Roots : \A s, c :
         /\ c \in InChain(r, s) <=> c \in Chain(r) /\ status[c] \in s
         /\ c \in InChain(r, s)' <=> c \in Chain(r) /\ status'[c] \in s
  BY <1>4, <1>6, InChainFacts, InChainFactsNext DEF ChainInv
<1>11. \A r \in Roots : Held(r)' = Held(r) /\ InChain(r, {"superseded"})' = InChain(r, {"superseded"})
  <2>1. ASSUME NEW r \in Roots, NEW s \in {{"active", "adopted"}, {"superseded"}} PROVE InChain(r, s)' = InChain(r, s)
    <3>1. \A c : c \in InChain(r, s)' <=> c \in InChain(r, s)
      BY <1>4, <1>5, <1>10, <2>1
    <3>. QED BY <3>1 DEF InChain
  <2>. QED BY <2>1 DEF Held
<1>12. \A r \in Roots : r # q => InChain(r, {"adopted"})' = InChain(r, {"adopted"})
  <2>1. ASSUME NEW r \in Roots, r # q PROVE \A c \in Chain(r) : status'[c] = status[c]
    <3>1. n \notin Chain(r)
      BY <1>8, <2>1, RootsFacts, ChainsApart
    <3>. QED BY <1>3, <1>4, <3>1
  <2>2. ASSUME NEW r \in Roots, r # q PROVE InChain(r, {"adopted"})' = InChain(r, {"adopted"})
    <3>1. \A c : c \in InChain(r, {"adopted"})' <=> c \in InChain(r, {"adopted"})
      BY <1>10, <2>1, <2>2
    <3>. QED BY <3>1 DEF InChain
  <2>. QED BY <2>2
<1>13. Held(q) = {n} /\ InChain(q, {"adopted"}) = {} /\ InChain(q, {"adopted"})' # {}
  <2>1. Held(q) = {n}
    BY <1>8, <1>9, <1>10 DEF Held
  <2>2. \A c \in Chain(q) : status[c] # "adopted"
    BY <1>1, <1>9
  <2>. QED BY <1>3, <1>8, <1>10, <2>1, <2>2
<1>14. Holders[q] = n /\ ~Fulfilled[q] /\ Fulfilled'[q] = TRUE
  <2>1. Holders[q] = n
    BY <1>13, RegisterFacts
  <2>2. ~Fulfilled[q]
    BY <1>13, RegisterFacts
  <2>3. Fulfilled'[q] = TRUE
    BY <1>13, RegisterFactsNext
  <2>. QED BY <2>1, <2>2, <2>3
<1>15. Fulfilled' = [Fulfilled EXCEPT ![q] = TRUE]
  BY <1>11, <1>12, <1>14, OtherRegisters
<1>16. Holders' = Holders
  BY <1>11, HoldersAre, HoldersAreNext
<1>17. Replaced' = Replaced
  BY <1>11 DEF Replaced
<1>18. Holders[q] # None
  BY <1>2, <1>14, RootsFacts
<1>19. RegisterStep
  BY <1>14, <1>15, <1>16, <1>17, <1>18 DEF RegisterStep
<1>. QED BY <1>6, <1>7, <1>19 DEF ChainInv

LEMMA HandleRegister ==
  ASSUME RecordsInv, ChainInv, NEW q \in Requests, NEW conf, Handle(q.actor, q.cmd, conf)
  PROVE  ChainInv' /\ RegisterStep
<1>. DEFINE cmd == q.cmd
<1>1. cmd \in Commands /\ (cmd.op \notin {"create", "revise"} => cmd.terms \in Terms)
  BY RequestAssumption, CommandFacts
<1>2. RecordsInv'
  BY HandleInv
<1>3. CASE cmd.op = "create" /\ GoalCreate(q.actor, cmd.goal)
  BY <1>2, <1>3, StillRegister DEF GoalCreate, commitments
<1>4. CASE cmd.op = "revise" /\ GoalRevise(q.actor, cmd.goal, cmd.base)
  BY <1>2, <1>4, StillRegister DEF GoalRevise, commitments
<1>5. CASE cmd.op = "propose" /\ Propose(q.actor, cmd.terms, conf)
  BY <1>1, <1>2, <1>5, ProposeRegister
<1>6. CASE cmd.op = "accept" /\ Accept(q.actor, cmd.terms)
  BY <1>1, <1>2, <1>6, AcceptRegister
<1>7. CASE cmd.op = "submit" /\ Submit(q.actor, cmd.terms, cmd.artifact)
  BY <1>2, <1>7, StillRegister DEF Submit, commitments
<1>8. CASE cmd.op = "review" /\ RecordReview(q.actor, cmd.terms, cmd.artifact, cmd.passed)
  BY <1>2, <1>8, StillRegister DEF RecordReview, commitments
<1>9. CASE cmd.op = "adopt" /\ Adopt(q.actor, cmd.terms, cmd.artifact)
  BY <1>1, <1>2, <1>9, AdoptRegister
<1>. QED BY <1>3, <1>4, <1>5, <1>6, <1>7, <1>8, <1>9 DEF Handle

LEMMA NextRegister ==
  ASSUME IInv, ChainInv, [Next]_vars
  PROVE  ChainInv' /\ RegisterStep
<1>1. ASSUME NEW i \in Instances, NEW q \in Requests, Execute(i, q) PROVE ChainInv' /\ RegisterStep
  BY <1>1, HandleRegister DEF IInv, Execute
<1>2. ASSUME UNCHANGED records PROVE ChainInv' /\ RegisterStep
  <2>1. terms' = terms /\ status' = status
    BY <1>2 DEF records, commitments
  <2>. QED BY <1>2, <2>1, RecordsStutter, StillRegister DEF IInv
<1>3. CASE UNCHANGED vars
  BY <1>2, <1>3 DEF vars
<1>4. ASSUME NEW i \in Instances, Open(i) \/ Migrate(i) PROVE ChainInv' /\ RegisterStep
  BY <1>2, <1>4 DEF Open, Migrate
<1>5. ASSUME NEW i \in Instances, NEW q \in Requests, Replay(i, q) PROVE ChainInv' /\ RegisterStep
  BY <1>2, <1>5 DEF Replay
<1>. QED BY <1>1, <1>3, <1>4, <1>5 DEF Next

LEMMA InitRegister ==
  ASSUME Init
  PROVE  ChainInv /\ Register!Init
<1>1. \A c \in Commitments : status[c] = "none"
  BY DEF Init
<1>2. ChainInv
  BY <1>1 DEF ChainInv, Rooted, OneHolds, Chain
<1>3. \A r, s : "none" \notin s => InChain(r, s) = {}
  BY <1>1 DEF InChain
<1>4. \A r \in Roots : Held(r) = {} /\ InChain(r, {"superseded"}) = {} /\ InChain(r, {"adopted"}) = {}
  BY <1>3 DEF Held
<1>5. Holders = [r \in Roots |-> None]
  BY <1>4, RegisterFacts, HoldersAre DEF HolderOf
<1>6. Replaced = [r \in Roots |-> {}] /\ Fulfilled = [r \in Roots |-> FALSE]
  BY <1>4 DEF Replaced, Fulfilled
<1>. QED BY <1>2, <1>5, <1>6 DEF Register!Init, Holders, Replaced, Fulfilled

LEMMA StepOfRegister ==
  ASSUME RegisterStep
  PROVE  [Register!Next]_(Register!vars)
  BY DEF RegisterStep, Register!Next, Register!Agree, Register!Amend, Register!Fulfil, Register!vars,
         Holders, Replaced, Fulfilled

\* A commitment and its amendments are one register, however proposals,
\* consents and adoptions of several instances interleave: it holds one
\* commitment at a time, an amendment takes its basis's place in one step and
\* never twice, and what was adopted stays (_accept, _adopt).
THEOREM ChainsAreRegisters == Spec => ImplementsRegister
<1>1. Init => ChainInv /\ Register!Init
  BY InitRegister
<1>2. IInv /\ ChainInv /\ [Next]_vars => ChainInv' /\ [Register!Next]_(Register!vars)
  BY NextRegister, StepOfRegister
<1>. QED BY <1>1, <1>2, Invariance, PTL DEF Spec, ImplementsRegister, Register!Spec
=============================================================================
