------------------------- MODULE MCEvolutionEngine -------------------------
(* A small instance of EvolutionEngine. *)
EXTENDS EvolutionEngine
CONSTANTS h1, h2, o1, o2, o3, c1, run1, k1, k2, e1, e2, r1, r2

\* e2 is derived from e1; e1 was drafted with counter-evidence
Stands == [e \in Experiences |-> IF e = e1 THEN {r1} ELSE {r2}]
Derives == [e \in Experiences |-> IF e = e2 THEN {e1} ELSE {}]
Full == {[units |-> 3, resolved |-> TRUE, gate |-> TRUE]}

\* two hosts opened with different limits
TwoLimits == [h \in Hosts |->
  IF h = h1 THEN [episodes |-> 2, decisions |-> 3, requests |-> 1]
            ELSE [episodes |-> 1, decisions |-> 2, requests |-> 2]]

Seen(i, n, valid, expires) == [id |-> i, content |-> n, valid |-> valid, expires |-> expires, readable |-> TRUE]
Given(items, assessments, needs, wants) ==
  [items |-> items, assessments |-> assessments, needs |-> needs, wants |-> wants]
Judged(n, o, status) == [id |-> n, concern |-> c1, obs |-> o, status |-> status]

\* a gap, its alignment, a second gap together with the first, a changed
\* observation, a shortage, two actions the collaboration policy would take
SmallInputs ==
  {Given({Seen(o1, 1, TRUE, FALSE)}, <<Judged(1, o1, "gap")>>, None, None),
   Given({Seen(o1, 2, TRUE, FALSE)}, <<Judged(1, o1, "gap")>>, None, None),
   Given({Seen(o2, 1, TRUE, FALSE)}, <<Judged(2, o2, "aligned")>>, None, None),
   Given({Seen(o1, 1, TRUE, FALSE), Seen(o3, 1, TRUE, TRUE)}, <<Judged(1, o1, "gap"), Judged(3, o3, "gap")>>, None, None),
   Given({}, <<>>, "request_resource", None),
   Given({}, <<>>, None, k1),
   Given({}, <<>>, None, k2)}

\* bounds: besides its decisions a history has few other events, and fewer when
\* it has lessons, or invalidations of references that still resolve
Asides == (IF late THEN 1 ELSE 0) + Cardinality(heard) + Cardinality(feedbacks)
Corrections == Cardinality(corrected) + Cardinality(invalidations)
Unrefused == {i \in invalidations : ~i.refused}
Lessons == {e \in Experiences : e \in drafted \/ experience[e].state # "none"}
FewEvents ==
  /\ Len(decisions) + Asides + Corrections + Cardinality(Lessons) <= 4
  /\ Len(decisions) > 2 => Asides = 0
  /\ Corrections > 0 => Asides = 0 /\ Len(decisions) <= 2
  /\ Unrefused # {} => Len(decisions) + Corrections + Cardinality(Lessons) <= 2
  /\ Lessons # {} => Len(decisions) + Asides + Cardinality(Lessons) <= 2 /\ Len(decisions) + Corrections <= 2
=============================================================================
