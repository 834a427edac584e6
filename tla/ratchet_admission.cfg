SPECIFICATION Spec
CONSTANTS
  Torn = Torn
  NoCandidate = NoCandidate
  NoArtifact = NoArtifact
  Targets = {t1}
  Candidates = {c1}
  Deps = {d1}
  Raises = {}
  Crashes = {}
  MembersOnly = FALSE
  MaxEvents = 5
  MaxFaults = 0
PROPERTY
  OnlyAcceptAdmits
