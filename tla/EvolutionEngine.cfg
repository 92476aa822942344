\* two hosts of one subject, three observations of one concern, two lessons
SPECIFICATION Spec
CONSTANTS
  h1 = h1  h2 = h2  o1 = o1  o2 = o2  o3 = o3  c1 = c1  run1 = run1
  k1 = k1  k2 = k2  e1 = e1  e2 = e2  r1 = r1  r2 = r2
  None = None
  Hosts = {h1, h2}
  Limits <- TwoLimits
  Observations = {o1, o2, o3}
  Concerns = {c1}
  Runs = {run1}
  Inputs <- SmallInputs
  Experiences = {e1, e2}
  Refs = {r1, r2}
  Evidence <- Stands
  DependsOn <- Derives
  Disputed = {e1}
  Causes = {k1}
  Proofs <- Full
CONSTRAINT FewEvents
CHECK_DEADLOCK FALSE
INVARIANTS Safe NothingForgotten OneGoalAtATime LimitsHold ApplicableIsSound
