CONSTANTS
  d1 = d1 d2 = d2 a = a b = b c = c e = e
  None = None
  Devices = {d1} Addresses = {a, b, c, e}
  N = 1
  Old <- OneOld New <- OneNew Home <- OneHome
  WorkerCounts = {0, 1}
  VerifyDeadline = 7 Window = 3 Poll = 1 ProbeTimeout = 2
  LiveApply = TRUE Losses = {TRUE, FALSE} DhcpSets = {{}, {d1}} Skews <- BackOrForth
SPECIFICATION Spec
INVARIANTS TypeOK SilentSkipTouchedNothing OkMeansStored DeadlineVerdictIsFresh VerifyEndsInTime
PROPERTIES WindowNeedsSilence
