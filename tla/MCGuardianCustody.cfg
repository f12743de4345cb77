SPECIFICATION FairSpec
CONSTANTS
  e1 = e1
  e2 = e2
  g1 = g1
  g2 = g2
  s1 = s1
  s2 = s2
  signer = signer
  other = other
  v1 = v1
  v2 = v2
  KeySets = {v1, v2}
  Threshold <- ThresholdsApart
  EnclaveKeys = {e1, e2}
  Credentials = {c1}
  Versions = {genesis, holesky}
  GENESIS_FORK_VERSION = genesis
  Sessions = {}
  NoEvidence = NoEvidence
  Guardians = {g1, g2}
  Home <- HomeApart
  WorkloadOf <- NoSessions
  Revocable = {}
  NoWorkload = NoWorkload
  Handlers = {h1, h2}
  NoRequest = NoRequest
  MaxShares = 2
  MaxForeign = 0
  MaxPayloads = 1
  MaxApprovals = 2
  MaxFaults = 1
INVARIANTS ApprovalsBackedByShares PublishedKeysKept
PROPERTIES ImplementsCustody GenuineCustodyApproved GenuineStaysOnCourse HeldSharesKept ApprovedSharesCanExit
CHECK_DEADLOCK FALSE
