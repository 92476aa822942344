------------------------ MODULE CollaborationJournal ------------------------
(***************************************************************************)
(* CollaborationJournal (autonomy/journal.py) with its configuration fence *)
(* and migrate_journal (autonomy/migration.py).                            *)
(*                                                                         *)
(* Several instances, each opened with some configuration, share one       *)
(* SQLite file.  apply is one IMMEDIATE transaction: fence, replay of a    *)
(* known command id, budget, handler, receipt.  Callers race each other,   *)
(* and repeat commands whose answer they lost.                             *)
(*                                                                         *)
(* A hash stands for what it is taken of: commands carry the terms they    *)
(* mean.  The terms of a commitment name its required parties, which the   *)
(* journal computes when it is proposed.                                   *)
(*                                                                         *)
(* A slip is a plausible mistake in the definition it precedes; no action  *)
(* uses it, the project substitutes it to see a check notice.              *)
(***************************************************************************)
EXTENDS Naturals, FiniteSets, Sequences

CONSTANTS
  Actors, Goals, Commitments, Artifacts, Instances,
  Controller,   \* [Actors -> controllers], the same in every configuration
  Configs,      \* the configurations the host installs, in order of migration
  Terms,        \* what can be proposed
  Requests,     \* [id, actor, cmd] callers may send
  None          \* no record, no basis

Ops == {"create", "revise", "propose", "accept", "submit", "review", "adopt"}
Modes == {"independent", "peer", "self"}
Versions == 1..Len(Configs)
Commands ==
  [op : {"create"}, goal : Goals] \cup [op : {"revise"}, goal : Goals, base : Nat]
  \cup [op : {"propose", "accept"}, terms : Terms]
  \cup [op : {"submit", "adopt"}, terms : Terms, artifact : Artifacts]
  \cup [op : {"review"}, terms : Terms, artifact : Artifacts, passed : BOOLEAN]
Review == [verifier : Actors, passed : BOOLEAN]
Artifact == [of : Commitments, reviews : SUBSET Review]

ASSUME JournalAssumption ==
  /\ None \notin Actors \cup Commitments \cup Terms
  /\ Configs \in Seq([can : [Actors -> SUBSET Ops], profiles : SUBSET Modes, budget : Nat])
  /\ Configs # <<>>
  /\ Terms \subseteq [id : Commitments, goal : Goals, revision : Nat \ {0},
                      requester : Actors, provider : Actors, verifiers : (SUBSET Actors) \ {{}},
                      profile : Modes, supersedes : Commitments \cup {None}, parties : SUBSET Actors]

\* _additive: migrations only add (a larger budget, profiles, actors with capabilities)
ASSUME AdditiveAssumption ==
  \A k, m \in Versions : k < m =>
    /\ Configs[k].budget <= Configs[m].budget /\ Configs[k].profiles \subseteq Configs[m].profiles
    /\ \A a \in Actors : Configs[k].can[a] # {} => Configs[k].can[a] = Configs[m].can[a]

ASSUME RequestAssumption ==
  /\ \A q \in Requests : q.actor \in Actors /\ q.cmd \in Commands
  /\ None \notin Artifact

VARIABLES
  binding,                          \* the configuration the file is bound to
  opened,                           \* the configuration of each instance, 0 when closed
  owner, revision,                  \* goals; revision 0 of those not created
  impacts,                          \* <<goal, revision, commitment>> rows
  terms, accepted, status,          \* commitments
  artifact,                         \* artifacts with the reviews attached to them
  adoptions,                        \* adoption records
  receipts,                         \* the commands that took effect
  told                              \* history: <<request, the receipt it was answered with>>

hosts == <<binding, opened>>
goals == <<owner, revision, impacts>>
commitments == <<terms, accepted, status>>
records == <<goals, commitments, artifact, adoptions>>
vars == <<hosts, records, receipts, told>>

TypeOK ==
  /\ binding \in Versions
  /\ opened \in [Instances -> Versions \cup {0}]
  /\ owner \in [Goals -> Actors \cup {None}] /\ revision \in [Goals -> Nat]
  /\ impacts \subseteq Goals \X Nat \X Commitments
  /\ terms \in [Commitments -> Terms \cup {None}]
  /\ accepted \in [Commitments -> SUBSET Actors]
  /\ status \in [Commitments -> {"none", "proposed", "active", "superseded", "adopted"}]
  /\ artifact \in [Artifacts -> Artifact \cup {None}]
  /\ adoptions \subseteq [commitment : Commitments, artifact : Artifacts, current : BOOLEAN]
  /\ receipts \subseteq Requests
  /\ told \subseteq Requests \X Requests

Init ==
  /\ binding = 1 /\ opened = [i \in Instances |-> 0]
  /\ owner = [g \in Goals |-> None] /\ revision = [g \in Goals |-> 0] /\ impacts = {}
  /\ terms = [c \in Commitments |-> None]
  /\ accepted = [c \in Commitments |-> {}]
  /\ status = [c \in Commitments |-> "none"]
  /\ artifact = [a \in Artifacts |-> None]
  /\ adoptions = {} /\ receipts = {} /\ told = {}

-----------------------------------------------------------------------------
GoalCreate(actor, g) ==
  /\ owner[g] = None
  /\ owner' = [owner EXCEPT ![g] = actor]
  /\ revision' = [revision EXCEPT ![g] = 1]
  /\ UNCHANGED <<impacts, commitments, artifact, adoptions>>

\* the commitments whose parties a revision of g concerns, and the rows that
\* say so; slip: proposals left out
ActiveImpacts(g) == {c \in Commitments : status[c] = "active" /\ terms[c].goal = g}
Impacted(g) == {c \in Commitments : status[c] \in {"proposed", "active"} /\ terms[c].goal = g}

ImpactRows(g, n) == {<<g, n, c>> : c \in Impacted(g)}

\* Compare-and-set on the revision; commitments keep their terms.
GoalRevise(actor, g, base) ==
  /\ owner[g] = actor
  /\ base = revision[g]
  /\ revision' = [revision EXCEPT ![g] = @ + 1]
  /\ impacts' = impacts \cup ImpactRows(g, base + 1)
  /\ UNCHANGED <<owner, commitments, artifact, adoptions>>

\* who a verifier must not share a controller with
Excluded(t) == CASE t.profile = "independent" -> {t.requester, t.provider}
                 [] t.profile = "peer" -> {t.provider}
                 [] t.profile = "self" -> {}
MayVerify(v, t) == \A p \in Excluded(t) : Controller[v] # Controller[p]

\* the parties whose consent a commitment needs; slip: those of the basis forgotten
NewParties(t) == {t.requester, t.provider}
RequiredParties(t) ==
  {t.requester, t.provider} \cup
    (IF t.supersedes = None THEN {} ELSE terms[t.supersedes].parties)

Propose(actor, t, conf) ==
  /\ owner[t.goal] = actor /\ t.requester = actor
  /\ t.revision = revision[t.goal]
  /\ t.provider # actor
  /\ t.profile \in conf.profiles
  /\ \A v \in t.verifiers : "review" \in conf.can[v] /\ MayVerify(v, t)
  /\ t.supersedes # None =>
       status[t.supersedes] = "active" /\ terms[t.supersedes].goal = t.goal
  /\ t.parties = RequiredParties(t)
  /\ \A p \in t.parties : "accept" \in conf.can[p]
  /\ "submit" \in conf.can[t.provider]
  /\ status[t.id] = "none"
  /\ terms' = [terms EXCEPT ![t.id] = t]
  /\ status' = [status EXCEPT ![t.id] = "proposed"]
  /\ UNCHANGED <<goals, accepted, artifact, adoptions>>

\* the basis of an amendment when its last party accepts; slip: checked when proposed only
AnyBasis(t) == TRUE
BasisInForce(t) == t.supersedes # None => status[t.supersedes] = "active"

\* The last consent puts a commitment in force and retires its basis.
Accept(actor, t) ==
  /\ status[t.id] \in {"proposed", "active"} /\ terms[t.id] = t
  /\ actor \in t.parties \ accepted[t.id]
  /\ accepted' = [accepted EXCEPT ![t.id] = @ \cup {actor}]
  /\ IF accepted'[t.id] = t.parties
     THEN /\ BasisInForce(t)
          /\ status' = [c \in Commitments |-> CASE c = t.id -> "active"
                                                [] c = t.supersedes -> "superseded"
                                                [] OTHER -> status[c]]
     ELSE UNCHANGED status
  /\ UNCHANGED <<goals, terms, artifact, adoptions>>

\* _active; slips: any agreed commitment, another commitment's terms
Agreed(t) == status[t.id] \in {"active", "superseded"} /\ terms[t.id] = t
Active(t) == status[t.id] = "active" /\ terms[t.id] = t

Submit(actor, t, a) ==
  /\ Active(t) /\ t.provider = actor
  /\ artifact[a] = None
  /\ artifact' = [artifact EXCEPT ![a] = [of |-> t.id, reviews |-> {}]]
  /\ UNCHANGED <<goals, commitments, adoptions>>

ReviewsBy(v, a) == {r \in artifact[a].reviews : r.verifier = v}

\* one immutable verdict per agreed verifier and artifact; slip: replaced by a later one
MayReplace(v, a) == TRUE
FirstReview(v, a) == ReviewsBy(v, a) = {}

RecordReview(actor, t, a, passed) ==
  /\ artifact[a] # None /\ artifact[a].of = t.id
  /\ Active(t) /\ actor \in t.verifiers
  /\ FirstReview(actor, a)
  /\ artifact' = [artifact EXCEPT ![a].reviews =
                    (@ \ ReviewsBy(actor, a)) \cup {[verifier |-> actor, passed |-> passed]}]
  /\ UNCHANGED <<goals, commitments, adoptions>>

\* the reviews an adoption needs; slip: one verifier's is enough
OnePassed(t, a) == \E v \in t.verifiers : [verifier |-> v, passed |-> TRUE] \in artifact[a].reviews
AllPassed(t, a) == \A v \in t.verifiers : [verifier |-> v, passed |-> TRUE] \in artifact[a].reviews

Adopt(actor, t, a) ==
  /\ artifact[a] # None /\ artifact[a].of = t.id
  /\ Active(t) /\ t.requester = actor
  /\ AllPassed(t, a)
  /\ adoptions' = adoptions \cup
       {[commitment |-> t.id, artifact |-> a, current |-> t.revision = revision[t.goal]]}
  /\ status' = [status EXCEPT ![t.id] = "adopted"]
  /\ UNCHANGED <<goals, terms, accepted, artifact>>

Handle(actor, cmd, conf) ==
  \/ cmd.op = "create" /\ GoalCreate(actor, cmd.goal)
  \/ cmd.op = "revise" /\ GoalRevise(actor, cmd.goal, cmd.base)
  \/ cmd.op = "propose" /\ Propose(actor, cmd.terms, conf)
  \/ cmd.op = "accept" /\ Accept(actor, cmd.terms)
  \/ cmd.op = "submit" /\ Submit(actor, cmd.terms, cmd.artifact)
  \/ cmd.op = "review" /\ RecordReview(actor, cmd.terms, cmd.artifact, cmd.passed)
  \/ cmd.op = "adopt" /\ Adopt(actor, cmd.terms, cmd.artifact)

-----------------------------------------------------------------------------
\* apply up to the handler: the capability in the instance's configuration,
\* and the fence
Admitted(i, q) ==
  /\ opened[i] # 0 /\ q.cmd.op \in Configs[opened[i]].can[q.actor]
  /\ opened[i] = binding

\* the receipts under a request's id, and those it may be answered with;
\* slip: the input hash is not compared
Prior(q) == {r \in receipts : r.id = q.id}
SameIdOnly(q) == Prior(q)
SameInput(q) == Prior(q) \cap {q}

\* a command id that took effect: its receipt again, or a conflict
Replay(i, q) ==
  /\ Admitted(i, q)
  /\ \E r \in SameInput(q) : told' = told \cup {<<q, r>>}
  /\ UNCHANGED <<hosts, records, receipts>>

\* is there room for a command; slip: one too many
RoomForOne(conf) == Cardinality(receipts) <= conf.budget
HasBudget(conf) == Cardinality(receipts) < conf.budget

Execute(i, q) ==
  /\ Admitted(i, q)
  /\ Prior(q) = {}
  /\ HasBudget(Configs[opened[i]])
  /\ Handle(q.actor, q.cmd, Configs[opened[i]])
  /\ receipts' = receipts \cup {q}
  /\ told' = told \cup {<<q, q>>}
  /\ UNCHANGED hosts

\* the constructor: bind_scope refuses any configuration but the one bound
Open(i) ==
  /\ opened[i] # binding
  /\ opened' = [opened EXCEPT ![i] = binding]
  /\ UNCHANGED <<binding, records, receipts, told>>

\* migrate_journal by an instance that is not fenced, approved by all controllers
Migrate(i) ==
  /\ opened[i] = binding
  /\ binding < Len(Configs)
  /\ binding' = binding + 1
  /\ UNCHANGED <<opened, records, receipts, told>>

Next ==
  \E i \in Instances :
    \/ Open(i) \/ Migrate(i)
    \/ \E q \in Requests : Execute(i, q) \/ Replay(i, q)

Spec == Init /\ [][Next]_vars

-----------------------------------------------------------------------------
Basis(c) == IF terms[c] = None THEN None ELSE terms[c].supersedes
InForceOnce == {"active", "superseded", "adopted"}

\* However amendments of one commitment race, at most one of them ever came
\* into force, and the commitment was retired exactly then.
OneHeir ==
  \A c \in Commitments :
    LET heirs == {d \in Commitments : Basis(d) = c /\ status[d] \in InForceOnce}
    IN Cardinality(heirs) <= 1 /\ (status[c] = "superseded" <=> heirs # {})

\* Nobody is bound, and nobody is released, without having agreed: what came
\* into force was accepted by all its parties, the parties of what it
\* replaced included.
ByConsent ==
  \A c \in Commitments : status[c] \in InForceOnce =>
    /\ accepted[c] = terms[c].parties
    /\ {terms[c].requester, terms[c].provider} \subseteq accepted[c]
    /\ Basis(c) # None => terms[Basis(c)].parties \subseteq accepted[c]

\* An adopted commitment has one adoption, of an artifact submitted under it
\* and passed by every verifier its terms name, none of whom shares the
\* provider's controller where its profile excludes that.
AdoptionEarned ==
  \A c \in Commitments :
    LET adopted == {d \in adoptions : d.commitment = c}
    IN /\ status[c] = "adopted" <=> adopted # {}
       /\ Cardinality(adopted) <= 1
       /\ \A d \in adopted : \A v \in terms[c].verifiers :
            /\ artifact[d.artifact].of = c
            /\ artifact[d.artifact].reviews \cap {[verifier |-> v, passed |-> FALSE]} = {}
            /\ [verifier |-> v, passed |-> TRUE] \in artifact[d.artifact].reviews
            /\ terms[c].profile # "self" => Controller[v] # Controller[terms[c].provider]

\* No obligation falls behind its goal unnoticed: every revision made since a
\* live commitment was proposed, or an adoption that says it is out of date,
\* is on record with that commitment.
NoSilentRevision ==
  \A c \in Commitments :
    /\ status[c] \in {"proposed", "active"} =>
         \A r \in (terms[c].revision + 1)..revision[terms[c].goal] : <<terms[c].goal, r, c>> \in impacts
    /\ \A d \in adoptions : d.commitment = c /\ ~d.current =>
         <<terms[c].goal, terms[c].revision + 1, c>> \in impacts

\* A command id takes effect once, for one input, and every answer to it
\* cites that effect: however often and at whatever instance it is repeated.
ExactReplay ==
  /\ \A r, s \in receipts : r.id = s.id => r = s
  /\ \A a \in told : a[1] = a[2] /\ a[2] \in receipts

\* The event stream explains the records: the revisions of a goal, the consents
\* and proposals of commitments, what artifacts were submitted under, their
\* verdicts, and the adoptions are exactly those of the receipts; and nothing
\* was done twice under two command ids, so that no receipt had no effect.
Applied(op) == {r \in receipts : r.cmd.op = op}
GoalReceipts(g) == {r \in Applied("create") \cup Applied("revise") : r.cmd.goal = g}
Consents(c) == {r.actor : r \in {s \in Applied("accept") : s.cmd.terms = terms[c]}}
Submissions(a) == {r.cmd.terms.id : r \in {s \in Applied("submit") : s.cmd.artifact = a}}
Verdicts(a) == {[verifier |-> r.actor, passed |-> r.cmd.passed] : r \in {s \in Applied("review") : s.cmd.artifact = a}}
EventsExplainRecords ==
  /\ \A g \in Goals : revision[g] = Cardinality(GoalReceipts(g))
  /\ \A c \in Commitments :
       /\ accepted[c] = Consents(c)
       /\ status[c] # "none" <=> \E r \in Applied("propose") : r.cmd.terms = terms[c]
  /\ \A r \in Applied("propose") : terms[r.cmd.terms.id] = r.cmd.terms
  /\ \A a \in Artifacts :
       /\ Submissions(a) = IF artifact[a] = None THEN {} ELSE {artifact[a].of}
       /\ Verdicts(a) = IF artifact[a] = None THEN {} ELSE artifact[a].reviews
  /\ {<<d.commitment, d.artifact>> : d \in adoptions} = {<<r.cmd.terms.id, r.cmd.artifact>> : r \in Applied("adopt")}
  /\ \A r, s \in receipts : r.actor = s.actor /\ r.cmd = s.cmd => r = s

\* The budget of the configuration in force bounds the commands that took
\* effect, across instances and migrations.
BudgetHolds == Cardinality(receipts) <= Configs[binding].budget

\* Terms are frozen, superseded and adopted commitments stay so, verdicts are
\* immutable, and nothing is recorded under a commitment not in force.
Frozen ==
  [][/\ \A c \in Commitments :
          /\ status[c] # "none" => terms'[c] = terms[c] /\ accepted[c] \subseteq accepted'[c]
          /\ status[c] \in {"superseded", "adopted"} => status'[c] = status[c]
     /\ \A a \in Artifacts :
          /\ artifact[a] # None => artifact'[a].of = artifact[a].of /\ artifact[a].reviews \subseteq artifact'[a].reviews
          /\ artifact'[a] # artifact[a] => status[artifact'[a].of] = "active"]_records

\* The chains of amendments implement AmendmentRegister.
root[c \in Commitments] == IF Basis(c) = None THEN c ELSE root[Basis(c)]
InChain(r, s) == {c \in Commitments : status[c] \in s /\ root[c] = r}
Held(r) == InChain(r, {"active", "adopted"})
Roots == {t.id : t \in {u \in Terms : u.supersedes = None}}

Register == INSTANCE AmendmentRegister WITH
  Chains <- Roots,
  Nobody <- None,
  holder <- [r \in Roots |-> IF Held(r) = {} THEN None ELSE CHOOSE c \in Held(r) : TRUE],
  replaced <- [r \in Roots |-> InChain(r, {"superseded"})],
  fulfilled <- [r \in Roots |-> InChain(r, {"adopted"}) # {}]
ImplementsRegister == Register!Spec
=============================================================================
