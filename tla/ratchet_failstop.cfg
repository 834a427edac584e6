SPECIFICATION Spec
CONSTANTS
  Torn = Torn
  NoCandidate = NoCandidate
  NoArtifact = NoArtifact
  Targets = {t1, t2}
  Candidates = {c1, c2}
  Deps = {d1, d2}
  Raises = {"nothing", "prefix"}
  Crashes = {"nothing", "prefix", "complete"}
  MembersOnly = TRUE
  MaxEvents = 5
  MaxFaults = 1
SYMMETRY Symmetry
INVARIANTS
  TypeOK
  AcceptedIsFold
  OwedIsRemembered
  MarkedIsFoldForMembers
PROPERTY
  ImplementsMonotoneSet
CHECK_DEADLOCK FALSE
