CONSTANTS
  d1 = d1 d2 = d2 a = a b = b c = c e = e
  None = None
  Devices = {d1, d2} Addresses = {a, b, c, e}
  N = 2
  Old <- FreshOld New <- FreshNew Home <- TwoHomes
  WorkerCounts = {0, 1, 2}
  VerifyDeadline = 3 Window = 2 Poll = 1 ProbeTimeout = 0
  LiveApply = TRUE Losses = {TRUE, FALSE} DhcpSets = {{d1}} Skews <- Back
SPECIFICATION FairSpec
INVARIANTS OkMeansMoved ExitZeroMeansMoved
PROPERTIES ImplementsReport Ends RebootsOnlyTheWritten
