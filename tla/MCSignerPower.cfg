SPECIFICATION PowerSpec
CONSTANTS
  r1 = r1
  r2 = r2
  Roots = {r1, r2}
  Messages <- PowerMessages
  Keys = {k1}
  NoKey = NoKey
  NoMessage = NoMessage
  Handlers = {h1, h2}
  MaxFaults = 2
SYMMETRY HandlerSymmetry
INVARIANTS
  SafeUnlessDbLost
  RefusalJustified
  RecordedBeforeReleased
