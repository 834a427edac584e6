SPECIFICATION Spec
CONSTANTS
  Torn = Torn
  NoCandidate = NoCandidate
  Targets = {t1}
  Candidates = {c1, c2}
  Raises = {"nothing", "prefix", "unterminated", "complete"}
  Crashes = {"nothing", "prefix", "unterminated", "complete"}
  MaxEvents = 11
  MaxFaults = 2
SYMMETRY Symmetry
INVARIANTS
  EvidenceChain
  DecisionsAnswerVerdicts
  NothingAfterAcceptance
CHECK_DEADLOCK FALSE
