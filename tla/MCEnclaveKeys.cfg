SPECIFICATION FairSpec
CONSTANTS
  EthKeys = {e1}
  BlsKeys = {b1, b2}
  Clients = {c1}
  Handlers = {h1, h2}
  Nobody = Nobody
  NoKey = NoKey
  MaxFaults = 1
INVARIANTS TypeOK ReceivedKeysComplete ListedKeysComplete ListingsComplete
PROPERTIES CallsEnd KeysGetFinished
CHECK_DEADLOCK FALSE
