SPECIFICATION Spec
CONSTANTS
  Torn = Torn
  NoCandidate = NoCandidate
  Targets = {t1}
  Candidates = {c1}
  Raises = {}
  Crashes = {"nothing", "prefix", "unterminated", "complete"}
  MaxEvents = 6
  MaxFaults = 1
INVARIANT
  AuditIsAtomic
CHECK_DEADLOCK FALSE
