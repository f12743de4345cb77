SPECIFICATION FairSerialSpec
CONSTANTS
  r1 = r1
  r2 = r2
  Roots = {r1, r2}
  Messages <- SerialMessages
  Keys = {k1}
  NoKey = NoKey
  NoMessage = NoMessage
  Handlers = {h1, h2}
  MaxFaults = 1
INVARIANTS
  TypeOK
  SerialInv
  NoSlashableOffence
  RecordedStaysCovered
PROPERTIES
  BrickedStaysBricked
  ImplementsNoSlashing
  FreshRequestSigned
  FreshStaysOnCourse
