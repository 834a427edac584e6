SPECIFICATION RunSpec
CONSTANTS
  s1 = s1
  s2 = s2
  s3 = s3
  State <- MCState
  Systems <- MCSystems
  Bounds <- MCBounds
  Predicates <- MCPredicates
  Unconditional = Unconditional
  None = None
  Ids = {o1, o2}
  TargetId = TargetId
SYMMETRY Symmetry
INVARIANTS
  TypeOK
  ExhaustiveIsReachable
  BreadthFirst
  PassIsEarned
  StatusesAreHonest
PROPERTY
  SearchAdvances
CHECK_DEADLOCK FALSE
