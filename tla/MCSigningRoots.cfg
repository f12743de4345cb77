SPECIFICATION Spec
CONSTANTS
  v0 = v0
  v1 = v1
  v2 = v2
  Objects = {o1}
  Chains = {mainnet, testnet}
  ZeroRoot = ZeroRoot
  GENESIS_FORK_VERSION = v0
  genesis_fork_version = v1
  Schedule <- ThreeForks
  SLOTS_PER_EPOCH = 2
  MaxSlot = 6
  MaxSignatures = 2
INVARIANTS
  KindsApart
  VerifiesOnChain
  RecordedRootSigned
