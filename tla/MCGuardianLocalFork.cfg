SPECIFICATION Spec
CONSTANTS
  e1 = e1
  e2 = e2
  g1 = g1
  g2 = g2
  s1 = s1
  s2 = s2
  signer = signer
  other = other
  v1 = v1
  v2 = v2
  KeySets = {v1}
  Threshold <- ThresholdTwo
  EnclaveKeys = {e1}
  Credentials = {c1}
  Versions = {genesis, holesky}
  GENESIS_FORK_VERSION = genesis
  Sessions = {s1, s2}
  NoEvidence = NoEvidence
  Guardians = {g1}
  Home <- HomeOne
  WorkloadOf <- TwoWorkloads
  Revocable = {s1}
  NoWorkload = NoWorkload
  Handlers = {h1}
  NoRequest = NoRequest
  MaxShares = 1
  MaxForeign = 0
  MaxPayloads = 1
  MaxApprovals = 2
  MaxFaults = 0
SYMMETRY Symmetries
INVARIANT LocalKeygenVerifies
CHECK_DEADLOCK FALSE
