SPECIFICATION Spec
CONSTANTS
  Roots = {r1, r2}
  MaxSlot = 3
  MaxEpoch = 3
  Messages <- MCMessages
INVARIANTS
  TypeOK
  AcceptedNeverSlashable
  CompactRefusesAsFull
  BlockedOnlyByLast
