CONSTANTS
  d1 = d1 d2 = d2 a = a b = b c = c e = e
  None = None
  Devices = {d1} Addresses = {a, b, c, e}
  N = 1
  Old <- OneOld New <- OneNew Home <- OneHome
  WorkerCounts = {1}
  VerifyDeadline = 2 Window = 1 Poll = 1 ProbeTimeout = 0
  LiveApply = FALSE Losses = {FALSE} DhcpSets = {{}} Skews = {}
SPECIFICATION Spec
INVARIANTS LostWriteIsRediscovered
