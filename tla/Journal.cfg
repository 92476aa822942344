\* two amendments of one commitment and an amendment of one of them race each other,
\* revisions and the work, at two instances and across a migration
SPECIFICATION Spec
CONSTANTS
  owen = owen  pia = pia  quin = quin  vera = vera  g1 = g1
  k1 = k1  k2 = k2  k3 = k3  k4 = k4  a1 = a1  a2 = a2  i1 = i1  i2 = i2
  None = None
  Actors = {owen, pia, quin, vera}
  Goals = {g1}
  Controller <- Controllers
  Commitments = {k1, k2, k3, k4}
  Artifacts = {a1, a2}
  Instances = {i1, i2}
  Configs <- TwoConfigs
  Terms <- AmendedTerms
  Requests <- AllRequests
SYMMETRY Alike
CHECK_DEADLOCK FALSE
INVARIANTS ByConsent NoSilentRevision EventsExplainRecords AdoptionEarned OneHeir ExactReplay BudgetHolds
PROPERTIES Frozen ImplementsRegister
