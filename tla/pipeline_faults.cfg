SPECIFICATION FairSpec
CONSTANTS
  t1 = t1
  t2 = t2
  c1 = c1
  c2 = c2
  Attempts <- MCAttempts
  Torn = Torn
  NoCandidate = NoCandidate
  NoRun = NoRun
  NoFile = NoFile
  Targets = {t1, t2}
  Candidates = {c1, c2}
  Raises = {"nothing", "complete"}
  Crashes = {"nothing", "prefix", "complete"}
  MaxEvents = 14
  MaxFaults = 2
INVARIANTS
  TypeOK
  RatchetFollowsQueue
  EvidenceOnDisk
  OnlyTheDeadLeaveTemps
  OneFailureOneTarget
PROPERTY
  RunSettles
CHECK_DEADLOCK FALSE
