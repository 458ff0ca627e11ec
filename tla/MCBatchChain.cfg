CONSTANTS
  d1 = d1 d2 = d2 a = a b = b c = c e = e
  None = None
  Devices = {d1, d2} Addresses = {a, b, c, e}
  N = 2
  Old <- ChainOld New <- ChainNew Home <- TwoHomes
  WorkerCounts = {2}
  VerifyDeadline = 2 Window = 1 Poll = 1 ProbeTimeout = 0
  LiveApply = FALSE Losses = {FALSE} DhcpSets = {{}} Skews = {}
SPECIFICATION Spec
PROPERTIES NewOpenIsTheCamera
