SPECIFICATION Spec
CONSTANTS
  Torn = Torn
  NoCandidate = NoCandidate
  NoArtifact = NoArtifact
  Targets = {t1, t2}
  Candidates = {c1}
  Deps = {d1, d2}
  Raises = {"nothing", "prefix", "unterminated", "complete"}
  Crashes = {"nothing", "prefix", "unterminated", "complete"}
  MembersOnly = FALSE
  MaxEvents = 5
  MaxFaults = 2
SYMMETRY Symmetry
INVARIANT
  RechecksAnswerMarks
CHECK_DEADLOCK FALSE
