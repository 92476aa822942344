-------------------------- MODULE EvolutionEngine --------------------------
(***************************************************************************)
(* EvolutionEngine with ReferenceDecisionPolicy (autonomy/evolution.py)    *)
(* and the action keys and budgets of CollaborationPolicy                  *)
(* (autonomy/collaboration.py), over the same private file as the          *)
(* experiences of ExperienceJournal.                                       *)
(*                                                                         *)
(* Several hosts of one subject, perhaps opened with different limits,     *)
(* share the file; each operation is one IMMEDIATE transaction.  A host    *)
(* that received a decision may die before it acknowledges it, and another *)
(* acknowledges it later, so an acknowledgement is not tied to a caller.   *)
(*                                                                         *)
(* The journal is kept as its parts: applied decisions in order, results   *)
(* heard of remote runs, feedback.  The hash of an input is the input.  A  *)
(* receipt, and the goal it creates, is the number of its decision.        *)
(***************************************************************************)
EXTENDS ExperienceJournal, Sequences

CONSTANTS
  Hosts,
  Limits,        \* [episodes, decisions, requests] each host was opened with
  Observations,  \* ids
  Concerns, Runs,
  Inputs,        \* what a host may offer a cycle
  None

Kinds == {"wait", "create_goal", "reconsider", "request_resource", "request_capability", "propose_action"}
RunStates == {"accepted", "running", "completed", "failed", "unknown"}
Terminal == {"completed", "failed"}
Limit == [episodes : Nat \ {0}, decisions : Nat \ {0}, requests : Nat \ {0}]
\* an observation; content stands for everything of it that must not change
Item == [id : Observations, content : Nat, valid : BOOLEAN, expires : BOOLEAN, readable : BOOLEAN]
\* the subject's own assessments; ids are numbers
Assessment == [id : Nat, concern : Concerns, obs : Observations, status : {"gap", "aligned", "unknown"}]

ASSUME EngineAssumption ==
  /\ Limits \in [Hosts -> Limit]
  /\ \A in \in Inputs : in.items \subseteq Item /\ in.assessments \in Seq(Assessment)
                       /\ in.needs \in {None, "request_resource", "request_capability"}
  /\ None \notin Limit \cup Item \cup RunStates \cup Nat \cup Concerns

VARIABLES
  bound,          \* the limits the file is bound to
  late,           \* has the time come at which observations expire?
  observed,       \* the table of observations
  decisions,      \* decisions in the order they were made
  applied,        \* numbers of the acknowledged ones, in the order of their events
  remote, heard,  \* the state of each run; the results journalled for it
  feedbacks       \* observations feedback was given on

engine == <<bound, late, observed, decisions, applied, remote, heard, feedbacks>>
vars == <<learned, engine>>

TypeOK ==
  /\ LearnedTypeOK
  /\ bound \in {None} \cup Limit
  /\ late \in BOOLEAN
  /\ observed \in [Observations -> {None} \cup Item]
  /\ \A n \in DOMAIN decisions : decisions[n].kind \in Kinds
  /\ applied \in Seq(DOMAIN decisions)
  /\ remote \in [Runs -> {None} \cup RunStates] /\ heard \subseteq Runs \X RunStates
  /\ feedbacks \subseteq Observations

Init ==
  /\ LearnedInit
  /\ bound = None /\ late = FALSE
  /\ observed = [o \in Observations |-> None]
  /\ decisions = <<>> /\ applied = <<>>
  /\ remote = [r \in Runs |-> None] /\ heard = {} /\ feedbacks = {}

-----------------------------------------------------------------------------
\* memory: what the journal says the subject has done
Made(S, kind) == {n \in S : decisions[n].kind = kind}
Applied == {applied[i] : i \in DOMAIN applied}
EventsOf(c) == {i \in DOMAIN applied : decisions[applied[i]].concern = c}
LastOf(S) == CHOOSE i \in S : \A j \in S : j <= i

ConcernMemory(c) ==
  LET events == EventsOf(c)
      goals == {i \in events : decisions[applied[i]].kind = "create_goal"}
      last == decisions[applied[LastOf(events)]]
  IN [episodes |-> Cardinality(goals),
      goal |-> IF goals = {} THEN None ELSE applied[LastOf(goals)],
      seen |-> IF events = {} THEN None ELSE last.assessment,
      phase |-> IF events = {} THEN None ELSE last.phase]

Memory ==
  [concerns |-> [c \in Concerns |-> ConcernMemory(c)],
   actions |-> {decisions[n].key : n \in Made(Applied, "propose_action")},
   handled |-> UNION {decisions[n].invalidations : n \in Applied},
   experiences |-> experience, invalidations |-> invalidations,
   remotes |-> remote, feedback |-> feedbacks]

\* cycle sees what the subject may read, as fresh as its clock says
Visible(in) == {o \in in.items : o.readable}
Effective(o) == o.valid /\ ~(o.expires /\ late)

Context(in) ==
  [items |-> Visible(in), fresh |-> {o.id : o \in {p \in Visible(in) : Effective(p)}},
   assessments |-> in.assessments, needs |-> in.needs, wants |-> in.wants,
   memory |-> Memory]

-----------------------------------------------------------------------------
\* is a goal for the concern under way; slip: the phase is compared the other way
WasReached(m) == m.goal # None /\ m.phase = "aligned"
UnderWay(m) == m.goal # None /\ m.phase # "aligned"

\* feedback_decision, for an assessment whose evidence is fresh
Response(a, m, max) ==
  IF a.status = "unknown" \/ m.seen = a.id THEN "wait"
  ELSE IF a.status # "gap" \/ UnderWay(m) THEN "reconsider"
  ELSE IF m.episodes >= max THEN "wait" ELSE "create_goal"

Plain(kind) ==
  [kind |-> kind, concern |-> None, assessment |-> None, phase |-> None, key |-> None,
   evidence |-> {}, invalidations |-> {}, context |-> None]
Responding(kind, a) ==
  [Plain(kind) EXCEPT !.concern = a.concern, !.assessment = a.id, !.phase = a.status, !.evidence = {a.obs}]

\* invalidations to reconsider
Reviews(x) == x.memory.invalidations \ x.memory.handled
Answers(x, a, max) ==
  IF a.obs \in x.fresh THEN Response(a, x.memory.concerns[a.concern], max) ELSE "wait"
Live(x, max) == {k \in DOMAIN x.assessments : Answers(x, x.assessments[k], max) # "wait"}

\* CollaborationPolicy.propose: a key is used once, under a budget for life; all
\* keys of the model are requests for execution
Proposes(x, limits) ==
  /\ x.wants \notin x.memory.actions \cup {None}
  /\ Cardinality(x.memory.actions) < limits.requests

\* decide, in the order the policies try things
Choice(x, limits) ==
  LET live == Live(x, limits.episodes)
      first == CHOOSE k \in live : \A j \in live : k <= j
      a == x.assessments[first]
  IN IF Reviews(x) # {} THEN [Plain("reconsider") EXCEPT !.invalidations = Reviews(x)]
     ELSE IF live # {} THEN Responding(Answers(x, a, limits.episodes), a)
     ELSE IF \E r \in Runs : x.memory.remotes[r] = "unknown" THEN Plain("wait")
     ELSE IF x.needs # None THEN Plain(x.needs)
     ELSE IF Proposes(x, limits) THEN [Plain("propose_action") EXCEPT !.key = x.wants]
     ELSE Plain("wait")

\* the effects not acknowledged yet; slip: nothing is recovered
NonePending == {}
Pending == {n \in DOMAIN decisions : decisions[n].kind # "wait"} \ Applied

\* the file keeps its subject, policy and limits; slip: a host brings its own
AnyLimits(h) == TRUE
Binds(h) == bound \in {None, Limits[h]}

\* observations are immutable, and one of an id is given; slip: the newest version wins
AnyVersion(in) == TRUE
SameVersions(in) == \A o, p \in Visible(in) : observed[o.id] \in {None, o} /\ (o.id = p.id => o = p)

\* cycle, up to the question whether a decision is to be made
Observe(h, in) ==
  /\ SameVersions(in)
  /\ Binds(h)
  /\ bound' = Limits[h]
  /\ observed' = [i \in Observations |->
       IF \E o \in Visible(in) : o.id = i THEN CHOOSE o \in Visible(in) : o.id = i ELSE observed[i]]
  /\ UNCHANGED <<learned, late, applied, remote, heard, feedbacks>>

Known(x) == \E n \in DOMAIN decisions : decisions[n].context = x
MayDecide(h, x) == ~Known(x) /\ Pending = {} /\ Len(decisions) < Limits[h].decisions

\* a known input, an effect to recover, or no budget: nothing is decided
Recover(h, in) ==
  /\ ~MayDecide(h, Context(in))
  /\ Observe(h, in)
  /\ UNCHANGED decisions

\* a new decision; goals beyond the budget of episodes are not created
Decide(h, in) ==
  LET x == Context(in)
      choice == Choice(x, Limits[h])
      spent == Cardinality(Made(DOMAIN decisions, "create_goal")) >= Limits[h].episodes
      result == IF choice.kind = "create_goal" /\ spent THEN Plain("wait") ELSE choice
  IN /\ MayDecide(h, x)
     /\ Observe(h, in)
     /\ decisions' = Append(decisions, [result EXCEPT !.context = x])

\* the first receipt stands; another one is refused, the same one answered again
Acknowledge(n) ==
  /\ n \notin Applied
  /\ applied' = Append(applied, n)
  /\ UNCHANGED <<learned, bound, late, observed, decisions, remote, heard, feedbacks>>

\* may a run move on to a state
MayMove(r, s) ==
  /\ remote[r] \in Terminal => s = remote[r]
  /\ remote[r] \in {"running", "unknown"} => s # "accepted"

RecordRemote(r, s) ==
  /\ bound # None
  /\ MayMove(r, s)
  /\ remote' = [remote EXCEPT ![r] = s]
  /\ heard' = heard \cup {<<r, s>>}
  /\ UNCHANGED <<learned, bound, late, observed, decisions, applied, feedbacks>>

Feedback(o) ==
  /\ bound # None /\ observed[o] # None
  /\ feedbacks' = feedbacks \cup {o}
  /\ UNCHANGED <<learned, bound, late, observed, decisions, applied, remote, heard>>

\* the clock passes the expiry of observations
Expire ==
  /\ late' = TRUE
  /\ UNCHANGED <<learned, bound, observed, decisions, applied, remote, heard, feedbacks>>

Next ==
  \/ \E h \in Hosts, in \in Inputs : Recover(h, in) \/ Decide(h, in)
  \/ \E n \in DOMAIN decisions : Acknowledge(n)
  \/ \E r \in Runs, s \in RunStates : RecordRemote(r, s)
  \/ \E o \in Observations : Feedback(o)
  \/ Expire
  \/ Learn /\ UNCHANGED engine

Spec == Init /\ [][Next]_vars

-----------------------------------------------------------------------------
Before(n, kind) == {m \in 1..(n - 1) : decisions[m].kind = kind}

\* Nothing decided is forgotten: every decision was made knowing the effect of
\* each decision before it, whoever applied it and however late.
NothingForgotten ==
  \A n \in DOMAIN decisions :
    LET known == decisions[n].context.memory
    IN /\ \A c \in Concerns :
            known.concerns[c].episodes = Cardinality({m \in Before(n, "create_goal") : decisions[m].concern = c})
       /\ known.actions = {decisions[m].key : m \in Before(n, "propose_action")}

\* One goal at a time for a concern: between two goals created for it, the
\* condition was seen aligned and that was applied.
OneGoalAtATime ==
  \A m, n \in Made(DOMAIN decisions, "create_goal") :
    m < n /\ decisions[m].concern = decisions[n].concern =>
      \E k \in (m + 1)..(n - 1) :
        k \in Applied /\ decisions[k].concern = decisions[n].concern /\ decisions[k].phase = "aligned"

\* The limits the file was bound to hold for its life, over all hosts: goals,
\* decisions, and requests under distinct keys.
LimitsHold ==
  bound # None =>
    LET proposed == Made(DOMAIN decisions, "propose_action")
    IN /\ Len(decisions) <= bound.decisions
       /\ Cardinality(Made(DOMAIN decisions, "create_goal")) <= bound.episodes
       /\ Cardinality(proposed) <= bound.requests
       /\ \A m, n \in proposed : decisions[m].key = decisions[n].key => m = n

\* A decision rests on evidence its subject could read, that was valid when it
\* was made, and that is still on record as it was.
Grounded ==
  \A n \in DOMAIN decisions :
    LET x == decisions[n].context
    IN /\ decisions[n].evidence \subseteq x.fresh
       /\ \A o \in x.items : o.readable /\ observed[o.id] = o

\* Each invalidation of an experience is reconsidered once: never twice, and
\* an opportunity once taken is not spent on one already handled.
ReviewedOnce ==
  \A m, n \in DOMAIN decisions : m # n => decisions[m].invalidations \cap decisions[n].invalidations = {}

\* The final result of a run is the one that was journalled, and no other was.
RemoteAgrees ==
  \A r \in Runs :
    LET results == {s \in RunStates : <<r, s>> \in heard}
    IN /\ remote[r] # None => remote[r] \in results
       /\ \A s \in results \cap Terminal : remote[r] = s

\* The file as a record, in well typed rows: evidence and results stand as they
\* were journalled, and no invalidation is reconsidered twice.
Safe == TypeOK /\ Grounded /\ ReviewedOnce /\ RemoteAgrees
=============================================================================
