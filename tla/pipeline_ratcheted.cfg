SPECIFICATION Spec
CONSTANTS
  t1 = t1
  t2 = t2
  c1 = c1
  c2 = c2
  Attempts <- OneAttempt
  Torn = Torn
  NoCandidate = NoCandidate
  NoRun = NoRun
  NoFile = NoFile
  Targets = {t1}
  Candidates = {c1}
  Raises = {}
  Crashes = {"nothing"}
  MaxEvents = 14
  MaxFaults = 1
INVARIANT
  AcceptedMeansRatcheted
CHECK_DEADLOCK FALSE
