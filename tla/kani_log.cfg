SPECIFICATION Spec
CONSTANTS
  Harnesses = {h1, h2, h3}
  Threads = {t1, t2}
  Main = Main
  Findings <- MCFindings
  None = None
  Refused = Refused
SYMMETRY Symmetry
INVARIANTS
  TypeOK
  OwnVerdict
  OwnObligations
  ContractRestsOnRefutation
  SatisfactionIsObserved
CHECK_DEADLOCK FALSE
