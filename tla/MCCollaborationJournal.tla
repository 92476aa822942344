----------------------- MODULE MCCollaborationJournal -----------------------
(* Small instances of CollaborationJournal. *)
EXTENDS CollaborationJournal, TLC
CONSTANTS owen, pia, quin, vera, g1, k1, k2, k3, k4, a1, a2, i1, i2

\* vera is an independent verifier, quin shares pia's controller
Controllers == [a \in Actors |-> IF a = quin THEN pia ELSE a]

Free == [can |-> [a \in Actors |-> Ops], profiles |-> Modes, budget |-> 99]

\* a commitment on revision r of g1, and amendments of it that race: to another
\* provider, to other terms, and (k4) of an amendment
Offer(id, rev, prov, verifiers, mode, base, others) ==
  [id |-> id, goal |-> g1, revision |-> rev, requester |-> owen, provider |-> prov,
   verifiers |-> verifiers, profile |-> mode, supersedes |-> base,
   parties |-> {owen, prov} \cup others]

\* one id offered with two verifiers, or with one the profile excludes or allows
Both == Offer(k1, 1, pia, {vera, owen}, "peer", None, {})
Reviewed ==
  {Both, Offer(k1, 1, pia, {quin}, "peer", None, {}), Offer(k1, 1, pia, {quin}, "self", None, {})}
AmendedTerms ==
  Reviewed \cup
  {Offer(k2, 1, quin, {vera}, "independent", k1, {pia}), Offer(k2, 1, quin, {vera}, "independent", k1, {}),
   Offer(k3, 2, pia, {vera}, "peer", k1, {}), Offer(k4, 1, pia, {vera}, "self", k2, {quin})}

Do(op, t) == [op |-> op, terms |-> t]
Cmds ==
  {<<owen, [op |-> "create", goal |-> g1]>>}
  \cup {<<owen, [op |-> "revise", goal |-> g1, base |-> 1]>>}
  \cup {<<owen, Do("propose", t)>> : t \in Terms}
  \cup {<<a, Do("accept", t)>> : a \in Actors, t \in Terms}
ArtifactCmds ==
  {<<p, [op |-> "submit", terms |-> t, artifact |-> a]>> : p \in {pia, quin}, t \in Terms, a \in Artifacts}
  \cup {<<v, [op |-> "review", terms |-> t, artifact |-> a, passed |-> b]>> :
          v \in Actors, t \in Terms, a \in Artifacts, b \in BOOLEAN}
  \cup {<<owen, [op |-> "adopt", terms |-> t, artifact |-> a]>> : t \in Terms, a \in Artifacts}

\* every command under an id of its own
OwnIds(S) == {[id |-> c, actor |-> c[1], cmd |-> c[2]] : c \in S}
\* a second artifact competes with the first under one of the terms only, and
\* nobody fails it
Rival(cmd) == cmd.terms = Both /\ (cmd.op = "review" => cmd.passed)
AmendedRequests == OwnIds(Cmds \cup {c \in ArtifactCmds : c[2].artifact = a1 \/ Rival(c[2])})

\* a few ids are used again, for another command or by another actor
Named(i, a, c) == [id |-> i, actor |-> a, cmd |-> c]
First == <<owen, [op |-> "create", goal |-> g1]>>
Reused ==
  {Named(First, owen, [op |-> "revise", goal |-> g1, base |-> 1]),
   Named(First, owen, Do("propose", Both)),
   Named(<<owen, Do("accept", Both)>>, pia, Do("accept", Both))}
\* and the same may be asked again under one new id
Again ==
  {Named(None, pia, Do("accept", Both)), Named(None, owen, [op |-> "adopt", terms |-> Both, artifact |-> a1])}
AllRequests == AmendedRequests \cup Reused \cup Again

\* the first configuration has room for one command, and pia has no part in it
Tight == [can |-> [a \in Actors |-> IF a = pia THEN {} ELSE Ops], profiles |-> {"peer"}, budget |-> 1]
TwoConfigs == <<Tight, Free>>
Alike == Permutations(Instances)
=============================================================================
