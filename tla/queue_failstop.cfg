SPECIFICATION Spec
CONSTANTS
  Torn = Torn
  NoCandidate = NoCandidate
  Targets = {t1, t2}
  Candidates = {c1, c2}
  Raises = {"nothing", "prefix"}
  Crashes = {"nothing", "prefix", "complete"}
  MaxEvents = 8
  MaxFaults = 1
SYMMETRY Symmetry
INVARIANTS
  TypeOK
  CacheIsFold
  LogIsWalk
PROPERTY
  ImplementsDiagram
CHECK_DEADLOCK FALSE
