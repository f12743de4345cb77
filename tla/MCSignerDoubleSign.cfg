SPECIFICATION Spec
CONSTANTS
  r1 = r1
  r2 = r2
  Roots = {r1, r2}
  Messages <- ConflictMessages
  Keys = {k1}
  NoKey = NoKey
  NoMessage = NoMessage
  Handlers = {h1, h2}
  MaxFaults = 0
SYMMETRY HandlerSymmetry
INVARIANTS
  NoSlashableOffence
