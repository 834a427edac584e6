SPECIFICATION Spec
CONSTANTS
  Harnesses = {h1, h2, h3}
  Threads = {t1, t2}
  Main = Main
  Findings <- MCFindings
  None = None
  Refused = Refused
INVARIANT
  TruncatedLogIsParsed
CHECK_DEADLOCK FALSE
