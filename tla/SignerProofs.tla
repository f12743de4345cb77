---------------------------- MODULE SignerProofs ----------------------------
(***************************************************************************)
(* Proofs about Signer, for every set of keys, handlers and messages and   *)
(* every number of faults.                                                 *)
(***************************************************************************)
EXTENDS Signer, SlashProtectionProofs

(***************************************************************************)
(* The type of database files and of what write() may leave in one.        *)
(***************************************************************************)
LEMMA FileTypes ==
  /\ \A st \in FileState : Unreadable(st) \in DbFile /\ OneEntry(Unreadable(st).data)
  /\ \A f, d : Small(d) =>
       \A o \in WriteOutcomes(f, d) : o \in DbFile /\ OneEntry(o.data)
<1>1. ASSUME NEW st \in FileState
      PROVE  Unreadable(st) \in DbFile /\ OneEntry(Unreadable(st).data)
  <2>1. Unreadable(st).data = NewData /\ Unreadable(st).st = st
    BY DEF Unreadable
  <2>2. Unreadable(st) \in DbFile
    BY NewDataSmall DEF Unreadable, DbFile, Small
  <2> QED BY <2>1, <2>2, NewDataSmall DEF Small, OneEntry
<1>2. ASSUME NEW f, NEW d, Small(d), NEW o \in WriteOutcomes(f, d)
      PROVE  o \in DbFile /\ OneEntry(o.data)
  <2>1. CASE o = [st |-> "ok", data |-> d]
    <3>1. o \in DbFile /\ o.data = d
      BY <1>2, <2>1 DEF DbFile, FileState, Small
    <3> QED BY <1>2, <3>1 DEF Small, OneEntry
  <2>2. CASE o = Unreadable("torn")
    BY <1>1, <2>2 DEF FileState
  <2> QED BY <1>2, <2>1, <2>2 DEF WriteOutcomes
<1> QED BY <1>1, <1>2

(***************************************************************************)
(* An update of a small database gives a small database.                   *)
(***************************************************************************)
LEMMA UpdatedSmall ==
  ASSUME NEW db, Small(db), NEW m \in Messages
  PROVE  Small(Updated(db, m, ALLOW_GROWABLE_SLASH_PROTECTION_DB))
<1>1. m \in BLSSignMsg
  BY MessagesAssumption
<1> QED BY <1>1, RecordBlock, RecordAttestation DEF ALLOW_GROWABLE_SLASH_PROTECTION_DB

(***************************************************************************)
(* Databases in files and in handlers are small.                           *)
(***************************************************************************)
LEMMA TypeSmall ==
  TypeOK => /\ \A k \in Keys : Small(dbFile[k].data)
            /\ \A h \in Handlers : Small(data[h])
BY DEF TypeOK, DbFile, Small, OneEntry

(***************************************************************************)
(* The server starts with no files and no requests, all well typed.        *)
(***************************************************************************)
LEMMA TypeInit == Init => TypeOK
<1> SUFFICES ASSUME Init PROVE TypeOK
  OBVIOUS
<1>1. dbFile \in [Keys -> DbFile] /\ \A k \in Keys : OneEntry(dbFile[k].data)
  BY FileTypes DEF Init, FileState
<1>2. data \in [Handlers -> SlashingProtectionData] /\ \A h \in Handlers : OneEntry(data[h])
  BY NewDataSmall DEF Init, Small, OneEntry
<1> QED BY <1>1, <1>2, MaxFaultsAssumption
        DEF Init, TypeOK, FileState, NoReply, SignSteps, KeygenSteps

\* What a handler step needs of the type invariant, in one place.
HandlerTypes ==
  /\ pc \in [Handlers -> {"idle", "done"} \cup SignSteps \cup KeygenSteps]
  /\ key \in [Handlers -> Keys \cup {NoKey}]
  /\ msg \in [Handlers -> Messages \cup {NoMessage}]
  /\ reply \in [Handlers -> StatusCodes \cup {NoReply}]
  /\ \A h \in Handlers : pc[h] \in SignSteps \cup KeygenSteps => key[h] \in Keys
  /\ \A h \in Handlers : pc[h] \in SignSteps => msg[h] \in Messages

StoreTypes ==
  /\ keyFile \in [Keys -> FileState]
  /\ dbFile \in [Keys -> DbFile]
  /\ data \in [Handlers -> SlashingProtectionData]
  /\ released \in [Keys -> SUBSET Messages]
  /\ recorded \in [Keys -> SUBSET Messages]
  /\ faults \in 0..MaxFaults
  /\ \A k \in Keys : OneEntry(dbFile[k].data)
  /\ \A h \in Handlers : OneEntry(data[h])

(***************************************************************************)
(* TypeOK is the conjunction of its two halves, now and after a step.      *)
(***************************************************************************)
LEMMA TypeParts == (TypeOK <=> HandlerTypes /\ StoreTypes) /\ (TypeOK' <=> HandlerTypes' /\ StoreTypes')
BY DEF TypeOK, HandlerTypes, StoreTypes

(***************************************************************************)
(* Every step keeps pc, key, msg and reply well typed.                     *)
(***************************************************************************)
LEMMA HandlerStep == TypeOK /\ [Next]_vars => HandlerTypes'
<1> SUFFICES ASSUME TypeOK, [Next]_vars PROVE HandlerTypes'
  OBVIOUS
<1> USE DEF SignSteps, KeygenSteps, StatusCodes, NoReply
<1>0. HandlerTypes
  BY TypeParts
<1>1. ASSUME NEW h \in Handlers, NEW k \in Keys \cup {NoKey}, NEW m \in Messages \cup {NoMessage},
             NEW step \in {"check", "create_key"}, k \in Keys, step = "check" => m \in Messages,
             Accept(h, k, m, step)
      PROVE  HandlerTypes'
  BY <1>0, <1>1 DEF HandlerTypes, Accept, Goto
<1>2. ASSUME NEW h \in Handlers, NEW k \in Keys \cup {NoKey}, NEW m \in Messages \cup {NoMessage},
             NEW status \in StatusCodes, AnswerAtOnce(h, k, m, status)
      PROVE  HandlerTypes'
  BY <1>0, <1>2 DEF HandlerTypes, AnswerAtOnce, Answer
<1>3. ASSUME NEW h \in Handlers, NEW status \in StatusCodes, Answer(h, status), UNCHANGED <<key, msg>>
      PROVE  HandlerTypes'
  BY <1>0, <1>3 DEF HandlerTypes, Answer
<1>4. ASSUME NEW h \in Handlers, NEW step \in SignSteps, pc[h] \in SignSteps,
             Goto(h, step), UNCHANGED <<key, msg>>
      PROVE  HandlerTypes'
  BY <1>0, <1>4 DEF HandlerTypes, Goto
<1>5. ASSUME NEW h \in Handlers, NEW step \in KeygenSteps, pc[h] \in KeygenSteps,
             Goto(h, step), UNCHANGED <<key, msg>>
      PROVE  HandlerTypes'
  BY <1>0, <1>5 DEF HandlerTypes, Goto
<1>6. ASSUME NEW H, Reset(H)
      PROVE  HandlerTypes'
  BY <1>0, <1>6 DEF HandlerTypes, Reset
<1>7. ASSUME NEW h \in Handlers, SignRejected(h) PROVE HandlerTypes'
  BY <1>2, <1>7 DEF SignRejected
<1>8. ASSUME NEW h \in Handlers, SignRequest(h) PROVE HandlerTypes'
  BY <1>1, <1>8 DEF SignRequest
<1>9. ASSUME NEW h \in Handlers, Keygen(h) PROVE HandlerTypes'
  BY <1>1, <1>9 DEF Keygen
<1>10. ASSUME NEW h \in Handlers, ValidatorDeposit(h) PROVE HandlerTypes'
  BY <1>2, <1>10 DEF ValidatorDeposit
<1>11. ASSUME NEW h \in Handlers, Check(h) PROVE HandlerTypes'
  BY <1>3, <1>4, <1>11 DEF Check, request
<1>12. ASSUME NEW h \in Handlers, Update(h) PROVE HandlerTypes'
  BY <1>3, <1>4, <1>12 DEF Update
<1>13. ASSUME NEW h \in Handlers, Open(h) \/ Write(h) PROVE HandlerTypes'
  BY <1>4, <1>13 DEF Open, Write, request
<1>14. ASSUME NEW h \in Handlers, Sign(h) PROVE HandlerTypes'
  BY <1>3, <1>14 DEF Sign, request
<1>15. ASSUME NEW h \in Handlers, CreateKey(h) \/ WriteKey(h) \/ OpenNew(h) \/ WriteNew(h)
       PROVE  HandlerTypes'
  BY <1>5, <1>15 DEF CreateKey, WriteKey, OpenNew, WriteNew, request
<1>16. ASSUME NEW h \in Handlers, Attest(h) \/ IoError(h) \/ WriteError(h) PROVE HandlerTypes'
  BY <1>3, <1>16 DEF Attest, IoError, WriteError, request
<1>17. ASSUME NEW h \in Handlers, Deliver(h) \/ HangUp(h) PROVE HandlerTypes'
  BY <1>6, <1>17 DEF Deliver, HangUp
<1>18. CASE Crash
  BY <1>6, <1>18 DEF Crash
<1>19. CASE UNCHANGED vars
  BY <1>0, <1>19 DEF HandlerTypes, vars, request
<1> QED
  BY <1>7, <1>8, <1>9, <1>10, <1>11, <1>12, <1>13, <1>14, <1>15, <1>16, <1>17, <1>18, <1>19
  DEF Next, Step

(***************************************************************************)
(* Every step keeps the files, the working databases and the histories     *)
(* well typed.                                                             *)
(***************************************************************************)
LEMMA StoreStep == TypeOK /\ [Next]_vars => StoreTypes'
<1> SUFFICES ASSUME TypeOK, [Next]_vars PROVE StoreTypes'
  OBVIOUS
<1>0. HandlerTypes /\ StoreTypes
  BY TypeParts
<1>1. CASE UNCHANGED <<files, data, history, faults>>
  BY <1>0, <1>1 DEF StoreTypes, files, history
<1>2. ASSUME UNCHANGED <<files, history>>, faults' = faults \/ Fault, NEW H, Reset(H)
      PROVE  StoreTypes'
  <2>1. data' \in [Handlers -> SlashingProtectionData] /\ \A h \in Handlers : OneEntry(data'[h])
    BY <1>0, <1>2, NewDataSmall DEF StoreTypes, Reset, Small, OneEntry
  <2> QED BY <1>0, <1>2, <2>1, MaxFaultsAssumption DEF StoreTypes, files, history, Fault
<1>3. ASSUME NEW k \in Keys, NEW f \in DbFile, OneEntry(f.data),
             dbFile' = [dbFile EXCEPT ![k] = f], UNCHANGED <<keyFile, data, released>>,
             recorded' \in [Keys -> SUBSET Messages], faults' = faults \/ Fault
      PROVE  StoreTypes'
  BY <1>0, <1>3, MaxFaultsAssumption DEF StoreTypes, Fault
<1>4. ASSUME NEW k \in Keys, NEW st \in FileState, keyFile' = [keyFile EXCEPT ![k] = st],
             UNCHANGED <<dbFile, data, history>>, faults' = faults \/ Fault
      PROVE  StoreTypes'
  BY <1>0, <1>4, MaxFaultsAssumption DEF StoreTypes, history, Fault
<1>5. ASSUME NEW h \in Handlers,
             SignRejected(h) \/ SignRequest(h) \/ Keygen(h) \/ ValidatorDeposit(h)
      PROVE  StoreTypes'
  BY <1>1, <1>5 DEF SignRejected, SignRequest, Keygen, ValidatorDeposit, Accept, AnswerAtOnce
<1>6. ASSUME NEW h \in Handlers, Check(h) \/ Attest(h) PROVE StoreTypes'
  BY <1>1, <1>6 DEF Check, Attest, request
<1>7. ASSUME NEW h \in Handlers, Update(h) PROVE StoreTypes'
  <2>1. CASE UNCHANGED data
    BY <1>1, <1>7, <2>1 DEF Update
  <2>2. CASE data' = [data EXCEPT ![h] = Updated(dbFile[key[h]].data, msg[h],
                                           ALLOW_GROWABLE_SLASH_PROTECTION_DB)]
    <3>1. key[h] \in Keys /\ msg[h] \in Messages
      BY <1>0, <1>7 DEF Update, HandlerTypes, SignSteps
    <3>2. Small(Updated(dbFile[key[h]].data, msg[h], ALLOW_GROWABLE_SLASH_PROTECTION_DB))
      BY <3>1, TypeSmall, UpdatedSmall
    <3>3. data' \in [Handlers -> SlashingProtectionData] /\ \A g \in Handlers : OneEntry(data'[g])
      BY <1>0, <2>2, <3>2 DEF StoreTypes, Small, OneEntry
    <3> QED BY <1>0, <1>7, <3>3 DEF Update, StoreTypes, files, history
  <2> QED BY <1>7, <2>1, <2>2 DEF Update
<1>8. ASSUME NEW h \in Handlers, Open(h) \/ OpenNew(h) PROVE StoreTypes'
  <2>1. key[h] \in Keys
    BY <1>0, <1>8 DEF Open, OpenNew, HandlerTypes, SignSteps, KeygenSteps
  <2>2. Unreadable("empty") \in DbFile /\ OneEntry(Unreadable("empty").data)
    BY FileTypes DEF FileState
  <2> QED BY <1>0, <1>3, <1>8, <2>1, <2>2 DEF Open, OpenNew, OpenDb, request, history, StoreTypes
<1>9. ASSUME NEW h \in Handlers, Write(h) PROVE StoreTypes'
  <2>1. key[h] \in Keys /\ msg[h] \in Messages
    BY <1>0, <1>9 DEF Write, HandlerTypes, SignSteps
  <2>2. PICK f \in WriteOutcomes(dbFile[key[h]], data[h]) : dbFile' = [dbFile EXCEPT ![key[h]] = f]
    BY <1>9 DEF Write
  <2>3. f \in DbFile /\ OneEntry(f.data)
    BY <2>2, TypeSmall, FileTypes
  <2>4. recorded' \in [Keys -> SUBSET Messages]
    BY <1>0, <1>9, <2>1 DEF Write, StoreTypes
  <2> QED BY <1>3, <1>9, <2>1, <2>2, <2>3, <2>4 DEF Write, request
<1>10. ASSUME NEW h \in Handlers, WriteNew(h) PROVE StoreTypes'
  <2>1. key[h] \in Keys
    BY <1>0, <1>10 DEF WriteNew, HandlerTypes, KeygenSteps
  <2>2. PICK f \in WriteOutcomes(dbFile[key[h]], NewData) : dbFile' = [dbFile EXCEPT ![key[h]] = f]
    BY <1>10 DEF WriteNew
  <2>3. f \in DbFile /\ OneEntry(f.data)
    BY <2>2, NewDataSmall, FileTypes
  <2> QED BY <1>0, <1>3, <1>10, <2>1, <2>2, <2>3 DEF WriteNew, request, history, StoreTypes
<1>11. ASSUME NEW h \in Handlers, Sign(h) PROVE StoreTypes'
  <2>1. key[h] \in Keys /\ msg[h] \in Messages
    BY <1>0, <1>11 DEF Sign, HandlerTypes, SignSteps
  <2>2. released' \in [Keys -> SUBSET Messages]
    BY <1>0, <1>11, <2>1 DEF Sign, StoreTypes
  <2> QED BY <1>0, <1>11, <2>2 DEF Sign, StoreTypes, files, request
<1>12. ASSUME NEW h \in Handlers, CreateKey(h) \/ WriteKey(h) PROVE StoreTypes'
  <2>1. key[h] \in Keys
    BY <1>0, <1>12 DEF CreateKey, WriteKey, HandlerTypes, KeygenSteps
  <2> QED BY <1>4, <1>12, <2>1 DEF CreateKey, WriteKey, request, FileState
<1>13. ASSUME NEW h \in Handlers, Deliver(h) \/ HangUp(h) PROVE StoreTypes'
  BY <1>2, <1>13 DEF Deliver, HangUp
<1>14. ASSUME NEW h \in Handlers, IoError(h) PROVE StoreTypes'
  BY <1>0, <1>14, MaxFaultsAssumption DEF IoError, Fault, StoreTypes, files, request, history
<1>15. ASSUME NEW h \in Handlers, WriteError(h) PROVE StoreTypes'
  <2>1. key[h] \in Keys
    BY <1>0, <1>15 DEF WriteError, HandlerTypes, SignSteps, KeygenSteps
  <2>2. Unreadable("torn") \in DbFile /\ OneEntry(Unreadable("torn").data)
    BY FileTypes DEF FileState
  <2>3. CASE dbFile' = [dbFile EXCEPT ![key[h]] = Unreadable("torn")] /\ UNCHANGED keyFile
    BY <1>0, <1>3, <1>15, <2>1, <2>2, <2>3 DEF WriteError, request, history, StoreTypes
  <2>4. CASE keyFile' = [keyFile EXCEPT ![key[h]] = "torn"] /\ UNCHANGED dbFile
    BY <1>4, <1>15, <2>1, <2>4 DEF WriteError, request, FileState
  <2> QED BY <1>15, <2>3, <2>4 DEF WriteError
<1>16. CASE Crash
  BY <1>2, <1>16 DEF Crash
<1>17. CASE UNCHANGED vars
  BY <1>1, <1>17 DEF vars, request
<1> QED
  BY <1>5, <1>6, <1>7, <1>8, <1>9, <1>10, <1>11, <1>12, <1>13, <1>14, <1>15, <1>16, <1>17
  DEF Next, Step

(***************************************************************************)
(* The handlers of the signing, key generation and deposit routes keep     *)
(* every variable in its type, and every database at one block and one     *)
(* attestation, however they interleave and fail.                          *)
(***************************************************************************)
THEOREM TypeCorrect == Spec => []TypeOK
<1>1. TypeOK /\ [Next]_vars => TypeOK'
  BY HandlerStep, StoreStep, TypeParts
<1> QED BY <1>1, TypeInit, PTL DEF Spec

----------------------------------------------------------------------------
(***************************************************************************)
(* Serial requests.  A database that accepts m and covers n neither        *)
(* forgets n nor makes m slashable together with n.                        *)
(***************************************************************************)
LEMMA UpdateAdvances ==
  ASSUME NEW db, Small(db), NEW m \in Messages, can_be_slashed(m), ~UpdateBails(db, m)
  PROVE  LET e == Updated(db, m, ALLOW_GROWABLE_SLASH_PROTECTION_DB) IN
           /\ Covers(e, m)
           /\ \A n \in Messages : Covers(db, n) => Covers(e, n) /\ ~SlashablePair(m, n)
<1> DEFINE e == Updated(db, m, FALSE)
<1>1. m \in BLSSignMsg /\ m.slot \in Nat /\ m.source \in Nat /\ m.target \in Nat
  BY MessagesAssumption DEF BLSSignMsg
<1>2. ASSUME NEW n \in Messages
      PROVE  n.slot \in Nat /\ n.source \in Nat /\ n.target \in Nat /\ ~(IsBlock(n) /\ IsAttestation(n))
  BY MessagesAssumption DEF BLSSignMsg, IsBlock, IsAttestation, BlockTags, AttestationTags
<1>3. /\ get_latest_signed_block_slot(db) \in Nat
      /\ LatestSource(db) \in Nat
      /\ LatestTarget(db) \in Nat
  BY LatestTypes
<1>4. CASE IsBlock(m)
  <2>1. /\ get_latest_signed_block_slot(e) = m.slot
        /\ LatestSource(e) = LatestSource(db)
        /\ LatestTarget(e) = LatestTarget(db)
    BY <1>1, <1>4, RecordBlock
  <2>2. m.slot > get_latest_signed_block_slot(db)
    BY <1>1, <1>3, <1>4 DEF UpdateBails, NewBlockBails
  <2>3. ~IsAttestation(m)
    BY <1>2, <1>4
  <2> HIDE DEF e
  <2>4. Covers(e, m)
    BY <1>1, <2>1, <2>3 DEF Covers
  <2>5. ASSUME NEW n \in Messages, Covers(db, n) PROVE Covers(e, n) /\ ~SlashablePair(m, n)
    <3>1. Covers(e, n)
      BY <1>1, <1>2, <1>3, <2>1, <2>2, <2>5 DEF Covers
    <3>2. ~SlashablePair(m, n)
      BY <1>1, <1>2, <1>3, <2>2, <2>3, <2>5
      DEF Covers, SlashablePair, DoubleProposal, DoubleVote, Surrounds
    <3> QED BY <3>1, <3>2
  <2> QED BY <2>4, <2>5 DEF e, ALLOW_GROWABLE_SLASH_PROTECTION_DB
<1>5. CASE ~IsBlock(m)
  <2>1. /\ get_latest_signed_block_slot(e) = get_latest_signed_block_slot(db)
        /\ LatestSource(e) = m.source
        /\ LatestTarget(e) = m.target
    BY <1>1, <1>5, RecordAttestation
  <2>2. IsAttestation(m) /\ m.source >= LatestSource(db) /\ m.target > LatestTarget(db)
    BY <1>1, <1>3, <1>5 DEF UpdateBails, NewAttestationBails, can_be_slashed
  <2> HIDE DEF e
  <2>4. Covers(e, m)
    BY <1>1, <1>5, <2>1 DEF Covers
  <2>5. ASSUME NEW n \in Messages, Covers(db, n) PROVE Covers(e, n) /\ ~SlashablePair(m, n)
    <3>1. Covers(e, n)
      BY <1>1, <1>2, <1>3, <2>1, <2>2, <2>5 DEF Covers
    <3>2. ~SlashablePair(m, n)
      BY <1>1, <1>2, <1>3, <1>5, <2>2, <2>5
      DEF Covers, SlashablePair, DoubleProposal, DoubleVote, Surrounds
    <3> QED BY <3>1, <3>2
  <2> QED BY <2>4, <2>5 DEF e, ALLOW_GROWABLE_SLASH_PROTECTION_DB
<1> QED BY <1>4, <1>5

(***************************************************************************)
(* The consensus rules are symmetric and only concern blocks and           *)
(* attestations, and no message is slashable together with itself.         *)
(***************************************************************************)
LEMMA RulesSymmetric ==
  ASSUME NEW m \in Messages, NEW n \in Messages
  PROVE  /\ SlashablePair(m, n) <=> SlashablePair(n, m)
         /\ SlashablePair(m, n) => can_be_slashed(m) /\ can_be_slashed(n)
         /\ ~SlashablePair(m, m)
<1>1. m.source \in Nat /\ m.target \in Nat /\ n.source \in Nat /\ n.target \in Nat
  BY MessagesAssumption DEF BLSSignMsg
<1> QED
  BY <1>1 DEF SlashablePair, DoubleProposal, DoubleVote, Surrounds, can_be_slashed

(***************************************************************************)
(* The invariant of serial requests holds before the first request.        *)
(***************************************************************************)
LEMMA SerialInit == Init => SerialInv
<1> SUFFICES ASSUME Init PROVE SerialInv
  OBVIOUS
<1>1. /\ \A h \in Handlers : pc[h] = "idle"
      /\ \A k \in Keys : recorded[k] = {} /\ released[k] = {}
  BY DEF Init
<1>2. \A k \in Keys : dbFile[k].st # "ok"
  BY DEF Init, Unreadable
<1> USE DEF SignSteps, KeygenSteps
<1>3. OneSignerPerKey /\ OneKeygenPerKey /\ UpdatesAreSlashable
  BY <1>1 DEF OneSignerPerKey, OneKeygenPerKey, UpdatesAreSlashable
<1>4. UnbornUntouched /\ PendingWriteSafe /\ SignsRecorded
  BY <1>1, <1>2 DEF UnbornUntouched, PendingWriteSafe, SignsRecorded
<1>5. RecordedNeverSlashable /\ RecordedStaysCovered /\ RecordedBeforeReleased
  BY <1>1 DEF RecordedNeverSlashable, RecordedStaysCovered, RecordedBeforeReleased
<1> QED BY <1>3, <1>4, <1>5 DEF SerialInv
(***************************************************************************)
(* Every step of serial requests keeps the invariant.                      *)
(***************************************************************************)
LEMMA SerialStep == TypeOK /\ SerialInv /\ [SerialNext]_vars => SerialInv'
<1> SUFFICES ASSUME TypeOK, SerialInv, [SerialNext]_vars PROVE SerialInv'
  OBVIOUS
<1> USE DEF SignSteps, KeygenSteps, BeforeDb, files, request, history
<1>0. OneSignerPerKey'
  BY DEF SerialInv, SerialNext, vars, OneSignerPerKey
<1>1. ASSUME NEW h \in Handlers, SignRejected(h) PROVE SerialInv'
  <2>1. UnbornUntouched' /\ OneKeygenPerKey' /\ UpdatesAreSlashable' /\
      PendingWriteSafe' /\ SignsRecorded' /\ RecordedNeverSlashable' /\
      RecordedStaysCovered' /\ RecordedBeforeReleased'
    BY <1>1 DEF SignRejected, AnswerAtOnce, Answer, TypeOK, SerialInv, UnbornUntouched,
        Unborn, ReadOk, OneKeygenPerKey, UpdatesAreSlashable,
        PendingWriteSafe, SignsRecorded, RecordedNeverSlashable, RecordedStaysCovered,
        RecordedBeforeReleased
  <2> QED BY <1>0, <2>1 DEF SerialInv
<1>2. ASSUME NEW h \in Handlers, SignRequest(h) PROVE SerialInv'
  <2>1. UnbornUntouched' /\ OneKeygenPerKey' /\ UpdatesAreSlashable' /\
      PendingWriteSafe' /\ SignsRecorded' /\ RecordedNeverSlashable' /\
      RecordedStaysCovered' /\ RecordedBeforeReleased'
    BY <1>2 DEF SignRequest, Accept, Goto, TypeOK, SerialInv, UnbornUntouched, Unborn,
        ReadOk, OneKeygenPerKey, UpdatesAreSlashable, PendingWriteSafe,
        SignsRecorded, RecordedNeverSlashable, RecordedStaysCovered, RecordedBeforeReleased
  <2> QED BY <1>0, <2>1 DEF SerialInv
<1>3. ASSUME NEW h \in Handlers, Keygen(h) PROVE SerialInv'
  <2>1. UnbornUntouched' /\ OneKeygenPerKey' /\ UpdatesAreSlashable' /\
      PendingWriteSafe' /\ SignsRecorded' /\ RecordedNeverSlashable' /\
      RecordedStaysCovered' /\ RecordedBeforeReleased'
    BY <1>3 DEF Keygen, Accept, Goto, TypeOK, SerialInv, UnbornUntouched, Unborn, ReadOk,
        OneKeygenPerKey, UpdatesAreSlashable, PendingWriteSafe,
        SignsRecorded, RecordedNeverSlashable, RecordedStaysCovered, RecordedBeforeReleased
  <2> QED BY <1>0, <2>1 DEF SerialInv
<1>4. ASSUME NEW h \in Handlers, ValidatorDeposit(h) PROVE SerialInv'
  <2>1. UnbornUntouched' /\ OneKeygenPerKey' /\ UpdatesAreSlashable' /\
      PendingWriteSafe' /\ SignsRecorded' /\ RecordedNeverSlashable' /\
      RecordedStaysCovered' /\ RecordedBeforeReleased'
    BY <1>4 DEF ValidatorDeposit, AnswerAtOnce, Answer, TypeOK, SerialInv, UnbornUntouched,
        Unborn, ReadOk, OneKeygenPerKey, UpdatesAreSlashable,
        PendingWriteSafe, SignsRecorded, RecordedNeverSlashable, RecordedStaysCovered,
        RecordedBeforeReleased
  <2> QED BY <1>0, <2>1 DEF SerialInv
<1>5. ASSUME NEW h \in Handlers, Check(h) PROVE SerialInv'
  <2>1. UnbornUntouched' /\ OneKeygenPerKey' /\ UpdatesAreSlashable' /\
      PendingWriteSafe' /\ SignsRecorded' /\ RecordedNeverSlashable' /\
      RecordedStaysCovered' /\ RecordedBeforeReleased'
    BY <1>5 DEF Check, Answer, Goto, TypeOK, SerialInv, UnbornUntouched, Unborn, ReadOk,
        OneKeygenPerKey, UpdatesAreSlashable, PendingWriteSafe,
        SignsRecorded, RecordedNeverSlashable, RecordedStaysCovered, RecordedBeforeReleased
  <2> QED BY <1>0, <2>1 DEF SerialInv
<1>6. ASSUME NEW h \in Handlers, Update(h) PROVE SerialInv'
  <2>1. UnbornUntouched' /\ OneKeygenPerKey' /\ UpdatesAreSlashable' /\
      SignsRecorded' /\ RecordedNeverSlashable' /\ RecordedStaysCovered' /\
      RecordedBeforeReleased'
    BY <1>6 DEF Update, Answer, Goto, TypeOK, SerialInv, UnbornUntouched, Unborn, ReadOk,
        OneKeygenPerKey, UpdatesAreSlashable, SignsRecorded,
        RecordedNeverSlashable, RecordedStaysCovered, RecordedBeforeReleased
  <2>2. PendingWriteSafe'
    <3>1. key[h] \in Keys /\ msg[h] \in Messages /\ can_be_slashed(msg[h])
      BY <1>6 DEF Update, TypeOK, SerialInv, UpdatesAreSlashable
    <3>2. Small(dbFile[key[h]].data) /\ recorded[key[h]] \subseteq Messages
      BY <3>1, TypeSmall DEF TypeOK
    <3>3. CASE Answer(h, 500) /\ UNCHANGED data
      BY <1>6, <3>3 DEF Update, Answer, TypeOK, SerialInv, PendingWriteSafe
    <3>4. CASE /\ ReadOk(key[h]) /\ ~UpdateBails(dbFile[key[h]].data, msg[h])
               /\ data' = [data EXCEPT ![h] = Updated(dbFile[key[h]].data, msg[h],
                                                ALLOW_GROWABLE_SLASH_PROTECTION_DB)]
               /\ Goto(h, "open")
      <4>1. \A n \in recorded[key[h]] : Covers(dbFile[key[h]].data, n)
        BY <3>1, <3>4 DEF SerialInv, RecordedStaysCovered, ReadOk
      <4>2. Covers(data'[h], msg[h])
        BY <3>1, <3>2, <3>4, UpdateAdvances DEF TypeOK
      <4>3. \A n \in recorded[key[h]] : Covers(data'[h], n) /\ ~SlashablePair(msg[h], n)
        BY <3>1, <3>2, <3>4, <4>1, UpdateAdvances DEF TypeOK
      <4>4. \A g \in Handlers \ {h} : data'[g] = data[g] /\ pc'[g] = pc[g]
        BY <3>4 DEF Goto, TypeOK
      <4> QED BY <1>6, <4>2, <4>3, <4>4 DEF Update, SerialInv, PendingWriteSafe
    <3> QED BY <1>6, <3>3, <3>4 DEF Update
  <2> QED BY <1>0, <2>1, <2>2 DEF SerialInv
<1>7. ASSUME NEW h \in Handlers, Open(h) PROVE SerialInv'
  <2>0. dbFile'[key[h]].st = "empty" /\ \A k \in Keys \ {key[h]} : dbFile'[k] = dbFile[k]
    BY <1>7 DEF Open, OpenDb, Unreadable, TypeOK
  <2>1. UnbornUntouched' /\ OneKeygenPerKey' /\ UpdatesAreSlashable' /\
      PendingWriteSafe' /\ SignsRecorded' /\ RecordedNeverSlashable' /\
      RecordedBeforeReleased'
    BY <1>7, <2>0 DEF Open, Goto, TypeOK, SerialInv, UnbornUntouched, Unborn, ReadOk,
        OneKeygenPerKey, UpdatesAreSlashable, PendingWriteSafe,
        SignsRecorded, RecordedNeverSlashable, RecordedBeforeReleased
  <2>2. RecordedStaysCovered'
    <3>1. ~(dbFile'[key[h]].st = "ok") /\ \A k \in Keys \ {key[h]} : dbFile'[k] = dbFile[k]
      BY <1>7 DEF Open, OpenDb, Unreadable, TypeOK
    <3> QED BY <1>7, <3>1 DEF Open, SerialInv, RecordedStaysCovered
  <2> QED BY <1>0, <2>1, <2>2 DEF SerialInv
<1>8. ASSUME NEW h \in Handlers, Write(h) PROVE SerialInv'
  <2>0. dbFile'[key[h]].st # "absent" /\ \A k \in Keys \ {key[h]} : dbFile'[k] = dbFile[k]
    BY <1>8 DEF Write, WriteOutcomes, Unreadable, TypeOK
  <2>1. UnbornUntouched' /\ OneKeygenPerKey' /\ UpdatesAreSlashable' /\
      SignsRecorded' /\ RecordedBeforeReleased'
    BY <1>8, <2>0 DEF Write, Goto, TypeOK, SerialInv, UnbornUntouched, Unborn, ReadOk,
        OneKeygenPerKey, UpdatesAreSlashable, SignsRecorded,
        RecordedBeforeReleased
  <2>2. PendingWriteSafe'
    <3>1. \A g \in Handlers \ {h} : pc[g] \in {"open", "write"} => key[g] # key[h]
      BY <1>8 DEF Write, SerialInv, OneSignerPerKey
    <3>2. \A g \in Handlers : pc'[g] \in {"open", "write"} =>
            g # h /\ pc[g] = pc'[g] /\ recorded'[key[g]] = recorded[key[g]]
      BY <1>8, <3>1 DEF Write, Goto, TypeOK
    <3> QED BY <1>8, <3>2 DEF Write, SerialInv, PendingWriteSafe
  <2>3. RecordedNeverSlashable'
    <3>1. key[h] \in Keys /\ msg[h] \in Messages /\ recorded[key[h]] \subseteq Messages
      BY <1>8 DEF Write, TypeOK
    <3>2. \A n \in recorded[key[h]] : ~SlashablePair(msg[h], n) /\ ~SlashablePair(n, msg[h])
      BY <1>8, <3>1, RulesSymmetric DEF Write, SerialInv, PendingWriteSafe
    <3>3. ~SlashablePair(msg[h], msg[h])
      BY <3>1, RulesSymmetric
    <3>4. \A k \in Keys : recorded'[k] = IF k = key[h] THEN recorded[k] \cup {msg[h]} ELSE recorded[k]
      BY <1>8 DEF Write, TypeOK
    <3> QED BY <3>2, <3>3, <3>4 DEF SerialInv, RecordedNeverSlashable
  <2>4. RecordedStaysCovered'
    <3>1. PICK f \in WriteOutcomes(dbFile[key[h]], data[h]) : dbFile' = [dbFile EXCEPT ![key[h]] = f]
      BY <1>8 DEF Write
    <3>2. f.st = "ok" => f.data = data[h]
      BY <3>1 DEF WriteOutcomes, Unreadable
    <3>3. \A n \in recorded[key[h]] \cup {msg[h]} : Covers(data[h], n)
      BY <1>8 DEF Write, SerialInv, PendingWriteSafe
    <3>4. \A k \in Keys : /\ dbFile'[k] = IF k = key[h] THEN f ELSE dbFile[k]
                          /\ recorded'[k] = IF k = key[h] THEN recorded[k] \cup {msg[h]} ELSE recorded[k]
      BY <1>8, <3>1 DEF Write, TypeOK
    <3> QED BY <3>2, <3>3, <3>4 DEF SerialInv, RecordedStaysCovered
  <2> QED BY <1>0, <2>1, <2>2, <2>3, <2>4 DEF SerialInv
<1>9. ASSUME NEW h \in Handlers, Sign(h) PROVE SerialInv'
  <2>1. UnbornUntouched' /\ OneKeygenPerKey' /\ UpdatesAreSlashable' /\
      PendingWriteSafe' /\ SignsRecorded' /\ RecordedNeverSlashable' /\
      RecordedStaysCovered'
    BY <1>9 DEF Sign, Answer, TypeOK, SerialInv, UnbornUntouched, Unborn, ReadOk,
        OneKeygenPerKey, UpdatesAreSlashable, PendingWriteSafe,
        SignsRecorded, RecordedNeverSlashable, RecordedStaysCovered
  <2>2. RecordedBeforeReleased'
    <3>1. key[h] \in Keys /\ (can_be_slashed(msg[h]) => msg[h] \in recorded[key[h]])
      BY <1>9 DEF Sign, TypeOK, SerialInv, SignsRecorded
    <3>2. \A k \in Keys : released'[k] \subseteq released[k] \cup (IF k = key[h] THEN {msg[h]} ELSE {})
      BY <1>9 DEF Sign, TypeOK
    <3> QED BY <1>9, <3>1, <3>2 DEF Sign, SerialInv, RecordedBeforeReleased
  <2> QED BY <1>0, <2>1, <2>2 DEF SerialInv
<1>10. ASSUME NEW h \in Handlers, CreateKey(h) PROVE SerialInv'
  <2>1. UnbornUntouched' /\ OneKeygenPerKey' /\ UpdatesAreSlashable' /\
      PendingWriteSafe' /\ SignsRecorded' /\ RecordedNeverSlashable' /\
      RecordedStaysCovered' /\ RecordedBeforeReleased'
    BY <1>10 DEF CreateKey, Goto, TypeOK, SerialInv, UnbornUntouched, Unborn, ReadOk,
        OneKeygenPerKey, UpdatesAreSlashable, PendingWriteSafe,
        SignsRecorded, RecordedNeverSlashable, RecordedStaysCovered, RecordedBeforeReleased
  <2> QED BY <1>0, <2>1 DEF SerialInv
<1>11. ASSUME NEW h \in Handlers, WriteKey(h) PROVE SerialInv'
  <2>1. UnbornUntouched' /\ OneKeygenPerKey' /\ UpdatesAreSlashable' /\
      PendingWriteSafe' /\ SignsRecorded' /\ RecordedNeverSlashable' /\
      RecordedStaysCovered' /\ RecordedBeforeReleased'
    BY <1>11 DEF WriteKey, Goto, TypeOK, SerialInv, UnbornUntouched, Unborn, ReadOk,
        OneKeygenPerKey, UpdatesAreSlashable, PendingWriteSafe,
        SignsRecorded, RecordedNeverSlashable, RecordedStaysCovered, RecordedBeforeReleased
  <2> QED BY <1>0, <2>1 DEF SerialInv
<1>12. ASSUME NEW h \in Handlers, OpenNew(h) PROVE SerialInv'
  <2>1. OneKeygenPerKey' /\ UpdatesAreSlashable' /\ PendingWriteSafe'
      /\ SignsRecorded' /\ RecordedNeverSlashable' /\ RecordedBeforeReleased'
    BY <1>12 DEF OpenNew, OpenDb, Goto, TypeOK, SerialInv, OneKeygenPerKey,
        UpdatesAreSlashable, PendingWriteSafe, SignsRecorded,
        RecordedNeverSlashable, RecordedBeforeReleased
  <2>2. UnbornUntouched'
    <3>1. ~(dbFile'[key[h]].st = "ok") /\ \A k \in Keys \ {key[h]} : dbFile'[k] = dbFile[k]
      BY <1>12 DEF OpenNew, OpenDb, Unreadable, TypeOK
    <3> QED BY <1>12, <3>1 DEF OpenNew, Goto, TypeOK, SerialInv, UnbornUntouched, Unborn, ReadOk
  <2>3. RecordedStaysCovered'
    <3>1. ~(dbFile'[key[h]].st = "ok") /\ \A k \in Keys \ {key[h]} : dbFile'[k] = dbFile[k]
      BY <1>12 DEF OpenNew, OpenDb, Unreadable, TypeOK
    <3> QED BY <1>12, <3>1 DEF OpenNew, SerialInv, RecordedStaysCovered
  <2> QED BY <1>0, <2>1, <2>2, <2>3 DEF SerialInv
<1>13. ASSUME NEW h \in Handlers, WriteNew(h) PROVE SerialInv'
  <2>1. OneKeygenPerKey' /\ UpdatesAreSlashable' /\ PendingWriteSafe'
      /\ SignsRecorded' /\ RecordedNeverSlashable' /\ RecordedBeforeReleased'
    BY <1>13 DEF WriteNew, Goto, TypeOK, SerialInv, OneKeygenPerKey, UpdatesAreSlashable, PendingWriteSafe, SignsRecorded, RecordedNeverSlashable,
        RecordedBeforeReleased
  <2>2. UnbornUntouched'
    <3>1. \A g \in Handlers \ {h} : key[g] = key[h] => pc[g] \notin BeforeDb
      BY <1>13 DEF WriteNew, SerialInv, OneKeygenPerKey
    <3>0. dbFile'[key[h]].st # "absent"
      BY <1>13 DEF WriteNew, WriteOutcomes, Unreadable, TypeOK
    <3>2. /\ \A k \in Keys \ {key[h]} : dbFile'[k] = dbFile[k]
          /\ \A g \in Handlers : pc'[g] = IF g = h THEN "attest" ELSE pc[g]
      BY <1>13 DEF WriteNew, Goto, TypeOK
    <3>3. ~Unborn(key[h])'
      BY <1>13, <3>0, <3>1, <3>2 DEF WriteNew, Unborn
    <3>4. \A k \in Keys \ {key[h]} : Unborn(k)' => Unborn(k) /\ dbFile'[k] = dbFile[k]
      BY <1>13, <3>2 DEF WriteNew, Unborn
    <3> QED BY <1>13, <3>2, <3>3, <3>4 DEF WriteNew, SerialInv, UnbornUntouched, ReadOk
  <2>3. RecordedStaysCovered'
    <3>1. key[h] \in Keys /\ recorded[key[h]] = {}
      BY <1>13 DEF WriteNew, TypeOK, SerialInv, UnbornUntouched, Unborn
    <3>2. \A k \in Keys \ {key[h]} : dbFile'[k] = dbFile[k]
      BY <1>13 DEF WriteNew, TypeOK
    <3> QED BY <1>13, <3>1, <3>2 DEF WriteNew, SerialInv, RecordedStaysCovered
  <2> QED BY <1>0, <2>1, <2>2, <2>3 DEF SerialInv
<1>14. ASSUME NEW h \in Handlers, Attest(h) PROVE SerialInv'
  <2>1. UnbornUntouched' /\ OneKeygenPerKey' /\ UpdatesAreSlashable' /\
      PendingWriteSafe' /\ SignsRecorded' /\ RecordedNeverSlashable' /\
      RecordedStaysCovered' /\ RecordedBeforeReleased'
    BY <1>14 DEF Attest, Answer, TypeOK, SerialInv, UnbornUntouched, Unborn, ReadOk,
        OneKeygenPerKey, UpdatesAreSlashable, PendingWriteSafe,
        SignsRecorded, RecordedNeverSlashable, RecordedStaysCovered, RecordedBeforeReleased
  <2> QED BY <1>0, <2>1 DEF SerialInv
<1>15. ASSUME NEW h \in Handlers, Deliver(h) PROVE SerialInv'
  <2>1. UnbornUntouched' /\ OneKeygenPerKey' /\ UpdatesAreSlashable' /\
      PendingWriteSafe' /\ SignsRecorded' /\ RecordedNeverSlashable' /\
      RecordedStaysCovered' /\ RecordedBeforeReleased'
    BY <1>15 DEF Deliver, Reset, TypeOK, SerialInv, UnbornUntouched, Unborn, ReadOk,
        OneKeygenPerKey, UpdatesAreSlashable, PendingWriteSafe,
        SignsRecorded, RecordedNeverSlashable, RecordedStaysCovered, RecordedBeforeReleased
  <2> QED BY <1>0, <2>1 DEF SerialInv
<1>16. ASSUME NEW h \in Handlers, HangUp(h) PROVE SerialInv'
  <2>1. UnbornUntouched' /\ OneKeygenPerKey' /\ UpdatesAreSlashable' /\
      PendingWriteSafe' /\ SignsRecorded' /\ RecordedNeverSlashable' /\
      RecordedStaysCovered' /\ RecordedBeforeReleased'
    BY <1>16 DEF HangUp, Reset, TypeOK, SerialInv, UnbornUntouched, Unborn, ReadOk,
        OneKeygenPerKey, UpdatesAreSlashable, PendingWriteSafe,
        SignsRecorded, RecordedNeverSlashable, RecordedStaysCovered, RecordedBeforeReleased
  <2> QED BY <1>0, <2>1 DEF SerialInv
<1>17. ASSUME NEW h \in Handlers, IoError(h) PROVE SerialInv'
  <2>1. UnbornUntouched' /\ OneKeygenPerKey' /\ UpdatesAreSlashable' /\
      PendingWriteSafe' /\ SignsRecorded' /\ RecordedNeverSlashable' /\
      RecordedStaysCovered' /\ RecordedBeforeReleased'
    BY <1>17 DEF IoError, Answer, Fault, TypeOK, SerialInv, UnbornUntouched, Unborn, ReadOk,
        OneKeygenPerKey, UpdatesAreSlashable, PendingWriteSafe,
        SignsRecorded, RecordedNeverSlashable, RecordedStaysCovered, RecordedBeforeReleased
  <2> QED BY <1>0, <2>1 DEF SerialInv
<1>18. ASSUME NEW h \in Handlers, WriteError(h) PROVE SerialInv'
  <2>1. OneKeygenPerKey' /\ UpdatesAreSlashable' /\ PendingWriteSafe'
      /\ SignsRecorded' /\ RecordedNeverSlashable' /\ RecordedBeforeReleased'
    BY <1>18 DEF WriteError, Answer, Fault, TypeOK, SerialInv, OneKeygenPerKey,
        UpdatesAreSlashable, PendingWriteSafe, SignsRecorded,
        RecordedNeverSlashable, RecordedBeforeReleased
  <2>2. UnbornUntouched'
    <3>1. \A k \in Keys : dbFile'[k] = dbFile[k] \/ dbFile'[k].st = "torn"
      BY <1>18 DEF WriteError, Unreadable, TypeOK
    <3> QED BY <1>18, <3>1 DEF WriteError, Answer, TypeOK, SerialInv, UnbornUntouched, Unborn, ReadOk
  <2>3. RecordedStaysCovered'
    <3>1. \A k \in Keys : dbFile'[k] = dbFile[k] \/ ~(dbFile'[k].st = "ok")
      BY <1>18 DEF WriteError, Unreadable, TypeOK
    <3> QED BY <1>18, <3>1 DEF WriteError, SerialInv, RecordedStaysCovered
  <2> QED BY <1>0, <2>1, <2>2, <2>3 DEF SerialInv
<1>19. CASE Crash
  BY <1>0, <1>19 DEF Crash, Reset, TypeOK, SerialInv, UnbornUntouched, Unborn, ReadOk,
      OneKeygenPerKey, UpdatesAreSlashable, PendingWriteSafe,
      SignsRecorded, RecordedNeverSlashable, RecordedStaysCovered, RecordedBeforeReleased
<1>20. CASE UNCHANGED vars
  BY <1>0, <1>20 DEF vars, SerialInv, UnbornUntouched, Unborn, ReadOk, OneKeygenPerKey,
      UpdatesAreSlashable, PendingWriteSafe, SignsRecorded,
      RecordedNeverSlashable, RecordedStaysCovered, RecordedBeforeReleased
<1> QED
  BY <1>1, <1>2, <1>3, <1>4, <1>5, <1>6, <1>7, <1>8, <1>9, <1>10, <1>11, <1>12, <1>13,
      <1>14, <1>15, <1>16, <1>17, <1>18, <1>19, <1>20
  DEF SerialNext, Next, Step

(***************************************************************************)
(* With one signing request per key at a time, TypeOK and SerialInv hold   *)
(* in every reachable state, through crashes and failed file accesses.     *)
(***************************************************************************)
THEOREM SerialInvariant == SerialSpec => [](TypeOK /\ SerialInv)
<1>1. Init => TypeOK /\ SerialInv
  BY TypeInit, SerialInit
<1>2. TypeOK /\ SerialInv /\ [SerialNext]_vars => (TypeOK /\ SerialInv)'
  <2>1. [SerialNext]_vars => [Next]_vars
    BY DEF SerialNext
  <2>2. TypeOK /\ [Next]_vars => TypeOK'
    BY HandlerStep, StoreStep, TypeParts
  <2> QED BY <2>1, <2>2, SerialStep
<1> QED BY <1>1, <1>2, PTL DEF SerialSpec

(***************************************************************************)
(* What is recorded is never slashable and what is released was recorded,  *)
(* so what is released is never slashable.                                 *)
(***************************************************************************)
LEMMA InvariantIsSafe == TypeOK /\ SerialInv => NoSlashableOffence
<1> SUFFICES ASSUME TypeOK, SerialInv, NEW k \in Keys,
                    NEW m \in released[k], NEW n \in released[k], SlashablePair(m, n)
             PROVE  FALSE
  BY DEF NoSlashableOffence
<1>1. m \in Messages /\ n \in Messages
  BY DEF TypeOK
<1>2. can_be_slashed(m) /\ can_be_slashed(n)
  BY <1>1, RulesSymmetric
<1>3. m \in recorded[k] /\ n \in recorded[k]
  BY <1>2 DEF SerialInv, RecordedBeforeReleased
<1> QED BY <1>3 DEF SerialInv, RecordedNeverSlashable

(***************************************************************************)
(* With one signing request per key at a time, the signing route never     *)
(* releases two signatures that slash the validator together: for any      *)
(* number of keys, handlers and messages, any number of crashes and I/O    *)
(* errors, and key generation and deposits running alongside.              *)
(***************************************************************************)
THEOREM SerialSafety == SerialSpec => []NoSlashableOffence
BY SerialInvariant, InvariantIsSafe, PTL

(***************************************************************************)
(* Under the same discipline a readable database always covers every       *)
(* message that was ever recorded: the watermarks never go back.           *)
(***************************************************************************)
THEOREM SerialCoverage == SerialSpec => []RecordedStaysCovered
<1>1. SerialInv => RecordedStaysCovered
  BY DEF SerialInv
<1> QED BY <1>1, SerialInvariant, PTL

(***************************************************************************)
(* A serial step either leaves the released signatures alone or is a       *)
(* SignSafely step of the abstract promise.                                *)
(***************************************************************************)
LEMMA StepImplements ==
  TypeOK /\ SerialInv /\ [SerialNext]_vars => [Promise!Next]_released
<1> SUFFICES ASSUME TypeOK, SerialInv, [SerialNext]_vars, released' # released
             PROVE  Promise!Next
  OBVIOUS
<1>1. PICK h \in Handlers : Sign(h)
  <2>1. ~Crash /\ ~UNCHANGED vars
    BY DEF Crash, vars, history
  <2>2. PICK h \in Handlers :
          \/ SignRejected(h) \/ SignRequest(h) \/ Keygen(h) \/ ValidatorDeposit(h)
          \/ Step(h) \/ Attest(h)
          \/ Deliver(h) \/ HangUp(h) \/ IoError(h) \/ WriteError(h)
    BY <2>1 DEF SerialNext, Next
  <2>3. ~(SignRejected(h) \/ SignRequest(h) \/ Keygen(h) \/ ValidatorDeposit(h))
    BY DEF SignRejected, SignRequest, Keygen, ValidatorDeposit, Accept, AnswerAtOnce, history
  <2>4. ~(Attest(h) \/ Deliver(h) \/ HangUp(h) \/ IoError(h) \/ WriteError(h))
    BY DEF Attest, Deliver, HangUp, IoError, WriteError, history
  <2>5. ~(Check(h) \/ Update(h) \/ Open(h) \/ Write(h))
    BY DEF Check, Update, Open, Write, history
  <2>6. ~(CreateKey(h) \/ WriteKey(h) \/ OpenNew(h) \/ WriteNew(h))
    BY DEF CreateKey, WriteKey, OpenNew, WriteNew, history
  <2> QED BY <2>2, <2>3, <2>4, <2>5, <2>6 DEF Step
<1>2. key[h] \in Keys /\ msg[h] \in Messages /\ released[key[h]] \subseteq Messages
  BY <1>1 DEF Sign, TypeOK, SignSteps
<1>3. released' = [released EXCEPT ![key[h]] = @ \cup {msg[h]}]
  BY <1>1 DEF Sign
<1>4. \A n \in released[key[h]] : ~SlashablePair(msg[h], n)
  <2> SUFFICES ASSUME NEW n \in released[key[h]], SlashablePair(msg[h], n) PROVE FALSE
    OBVIOUS
  <2>1. can_be_slashed(msg[h]) /\ can_be_slashed(n)
    BY <1>2, RulesSymmetric
  <2>2. msg[h] \in recorded[key[h]]
    BY <1>1, <2>1 DEF Sign, SerialInv, SignsRecorded
  <2>3. n \in recorded[key[h]]
    BY <1>2, <2>1 DEF SerialInv, RecordedBeforeReleased
  <2> QED BY <1>2, <2>2, <2>3 DEF SerialInv, RecordedNeverSlashable
<1>5. Promise!SignSafely(key[h], msg[h])
  BY <1>3, <1>4 DEF Promise!SignSafely, Promise!SlashablePair, SlashablePair,
     Promise!DoubleProposal, DoubleProposal, Promise!DoubleVote, DoubleVote,
     Promise!Surrounds, Surrounds, Promise!IsBlock, IsBlock,
     Promise!IsAttestation, IsAttestation, Promise!BlockTags, BlockTags,
     Promise!AttestationTags, AttestationTags
<1> QED BY <1>2, <1>5 DEF Promise!Next

(***************************************************************************)
(* The serial signer implements NoSlashing: whatever happens inside, its   *)
(* clients see a signer that only ever releases harmless signatures.       *)
(***************************************************************************)
THEOREM SerialRefinement == SerialSpec => ImplementsNoSlashing
<1>1. Init => Promise!Init
  BY DEF Init, Promise!Init
<1> QED BY <1>1, StepImplements, SerialInvariant, PTL
        DEF SerialSpec, ImplementsNoSlashing, Promise!Spec

----------------------------------------------------------------------------
(***************************************************************************)
(* Requests without any discipline.  Three guarantees survive every        *)
(* interleaving of handlers, crashes and failed file accesses.             *)
(***************************************************************************)

\* The watermarks of db come from blocks and attestations in R.
Justified(db, R) ==
  /\ \/ get_latest_signed_block_slot(db) = 0
     \/ \E n \in R : IsBlock(n) /\ get_latest_signed_block_slot(db) = n.slot
  /\ \/ LatestSource(db) = 0
     \/ \E n \in R : IsAttestation(n) /\ LatestSource(db) = n.source
  /\ \/ LatestTarget(db) = 0
     \/ \E n \in R : IsAttestation(n) /\ LatestTarget(db) = n.target

FilesJustified == \A k \in Keys : Justified(dbFile[k].data, recorded[k])

PendingJustified ==
  \A h \in Handlers :
    pc[h] \in {"open", "write"} => Justified(data[h], recorded[key[h]] \cup {msg[h]})

RepliesWhenDone == \A h \in Handlers : pc[h] # "done" => reply[h] = NoReply

RaceInv ==
  /\ RepliesWhenDone
  /\ UpdatesAreSlashable
  /\ SignsRecorded
  /\ RecordedBeforeReleased
  /\ FilesJustified
  /\ PendingJustified
  /\ RefusalJustified

(***************************************************************************)
(* The watermarks of a fresh database are zero and need no reason.         *)
(***************************************************************************)
LEMMA NewDataJustified == \A R : Justified(NewData, R)
<1>1. Range(NewData.signed_blocks) = {} /\ Range(NewData.signed_attestations) = {}
  BY DEF NewData, Range
<1>2. /\ {a.source_epoch : a \in Range(NewData.signed_attestations)} = {}
      /\ {a.target_epoch : a \in Range(NewData.signed_attestations)} = {}
  BY <1>1
<1>3. /\ get_latest_signed_block_slot(NewData) = 0
      /\ LatestSource(NewData) = 0
      /\ LatestTarget(NewData) = 0
  BY <1>1, <1>2, MaxOfOne DEF get_latest_signed_block_slot, LatestSource, LatestTarget
<1> QED BY <1>3 DEF Justified

(***************************************************************************)
(* A reason found among the recorded messages stays one when more are      *)
(* recorded.                                                               *)
(***************************************************************************)
LEMMA JustifiedMonotone ==
  ASSUME NEW db, NEW R, NEW S, R \subseteq S, Justified(db, R) PROVE Justified(db, S)
BY DEF Justified

(***************************************************************************)
(* An update puts the epochs or the slot of its own message in place of    *)
(* what was there.                                                         *)
(***************************************************************************)
LEMMA UpdateJustified ==
  ASSUME NEW db, Small(db), NEW R, Justified(db, R), NEW m \in Messages, can_be_slashed(m)
  PROVE  Justified(Updated(db, m, ALLOW_GROWABLE_SLASH_PROTECTION_DB), R \cup {m})
<1> DEFINE e == Updated(db, m, FALSE)
<1>1. m \in BLSSignMsg
  BY MessagesAssumption
<1>2. CASE IsBlock(m)
  <2>1. /\ get_latest_signed_block_slot(e) = m.slot
        /\ LatestSource(e) = LatestSource(db)
        /\ LatestTarget(e) = LatestTarget(db)
    BY <1>1, <1>2, RecordBlock
  <2> HIDE DEF e
  <2>2. Justified(e, R \cup {m})
    BY <1>2, <2>1 DEF Justified
  <2> QED BY <2>2 DEF e, ALLOW_GROWABLE_SLASH_PROTECTION_DB
<1>3. CASE ~IsBlock(m)
  <2>1. /\ get_latest_signed_block_slot(e) = get_latest_signed_block_slot(db)
        /\ LatestSource(e) = m.source
        /\ LatestTarget(e) = m.target
    BY <1>1, <1>3, RecordAttestation
  <2> HIDE DEF e
  <2>2. IsAttestation(m)
    BY <1>3 DEF can_be_slashed
  <2>3. Justified(e, R \cup {m})
    BY <2>1, <2>2 DEF Justified
  <2> QED BY <2>3 DEF e, ALLOW_GROWABLE_SLASH_PROTECTION_DB
<1> QED BY <1>2, <1>3

(***************************************************************************)
(* A database whose watermarks are justified refuses for a good reason.    *)
(***************************************************************************)
LEMMA RefusedForReason ==
  ASSUME NEW db, Small(db), NEW R, R \subseteq Messages, Justified(db, R),
         NEW m \in Messages, IsSlashable(db, m)
  PROVE  \/ /\ IsBlock(m)
            /\ m.slot = 0 \/ \E n \in R : IsBlock(n) /\ m.slot <= n.slot
         \/ /\ IsAttestation(m)
            /\ \/ m.target = 0
               \/ \E n \in R : IsAttestation(n) /\ (m.source < n.source \/ m.target <= n.target)
<1>1. m.slot \in Nat /\ m.source \in Nat /\ m.target \in Nat
  BY MessagesAssumption DEF BLSSignMsg
<1>2. CASE IsBlock(m) /\ m.slot <= get_latest_signed_block_slot(db)
  BY <1>1, <1>2 DEF Justified
<1>3. CASE IsAttestation(m) /\ m.source < LatestSource(db)
  BY <1>1, <1>3 DEF Justified
<1>4. CASE IsAttestation(m) /\ m.target <= LatestTarget(db)
  BY <1>1, <1>4 DEF Justified
<1> QED BY <1>2, <1>3, <1>4 DEF IsSlashable, is_slashable_block_slot, is_slashable_attestation_epochs

(***************************************************************************)
(* The invariant of concurrent requests holds before the first request.    *)
(***************************************************************************)
LEMMA RaceInit == Init => RaceInv
<1> SUFFICES ASSUME Init PROVE RaceInv
  OBVIOUS
<1>1. FilesJustified
  BY NewDataJustified DEF Init, FilesJustified, Unreadable
<1> QED BY <1>1 DEF Init, RaceInv, RepliesWhenDone, UpdatesAreSlashable, SignsRecorded,
                    RecordedBeforeReleased, PendingJustified, RefusalJustified, NoReply

(***************************************************************************)
(* A file is only ever replaced by an unreadable one, an empty database or *)
(* the database a handler has prepared.                                    *)
(***************************************************************************)
LEMMA OutcomeData ==
  ASSUME NEW f, NEW d, NEW o \in WriteOutcomes(f, d) PROVE o.data \in {d, NewData}
BY DEF WriteOutcomes, Unreadable
(***************************************************************************)
(* Every step, however requests interleave, keeps the invariant.           *)
(***************************************************************************)
LEMMA RaceStep == TypeOK /\ RaceInv /\ [Next]_vars => RaceInv'
<1> SUFFICES ASSUME TypeOK, RaceInv, [Next]_vars PROVE RaceInv'
  OBVIOUS
<1> USE DEF SignSteps, KeygenSteps, files, request, history
<1>1. ASSUME NEW h \in Handlers, SignRejected(h) PROVE RaceInv'
  <2>1. RepliesWhenDone' /\ UpdatesAreSlashable' /\ SignsRecorded' /\
      RecordedBeforeReleased' /\ FilesJustified' /\ PendingJustified' /\ RefusalJustified'
    BY <1>1 DEF SignRejected, AnswerAtOnce, Answer, TypeOK, RaceInv, RepliesWhenDone,
        UpdatesAreSlashable, SignsRecorded, RecordedBeforeReleased, FilesJustified,
        PendingJustified, RefusalJustified, NoReply
  <2> QED BY <2>1 DEF RaceInv
<1>2. ASSUME NEW h \in Handlers, SignRequest(h) PROVE RaceInv'
  <2>1. RepliesWhenDone' /\ UpdatesAreSlashable' /\ SignsRecorded' /\
      RecordedBeforeReleased' /\ FilesJustified' /\ PendingJustified' /\ RefusalJustified'
    BY <1>2 DEF SignRequest, Accept, Goto, TypeOK, RaceInv, RepliesWhenDone,
        UpdatesAreSlashable, SignsRecorded, RecordedBeforeReleased, FilesJustified,
        PendingJustified, RefusalJustified, NoReply
  <2> QED BY <2>1 DEF RaceInv
<1>3. ASSUME NEW h \in Handlers, Keygen(h) PROVE RaceInv'
  <2>1. RepliesWhenDone' /\ UpdatesAreSlashable' /\ SignsRecorded' /\
      RecordedBeforeReleased' /\ FilesJustified' /\ PendingJustified' /\ RefusalJustified'
    BY <1>3 DEF Keygen, Accept, Goto, TypeOK, RaceInv, RepliesWhenDone, UpdatesAreSlashable,
        SignsRecorded, RecordedBeforeReleased, FilesJustified, PendingJustified,
        RefusalJustified, NoReply
  <2> QED BY <2>1 DEF RaceInv
<1>4. ASSUME NEW h \in Handlers, ValidatorDeposit(h) PROVE RaceInv'
  <2>1. RepliesWhenDone' /\ UpdatesAreSlashable' /\ SignsRecorded' /\
      RecordedBeforeReleased' /\ FilesJustified' /\ PendingJustified' /\ RefusalJustified'
    BY <1>4 DEF ValidatorDeposit, AnswerAtOnce, Answer, TypeOK, RaceInv, RepliesWhenDone,
        UpdatesAreSlashable, SignsRecorded, RecordedBeforeReleased, FilesJustified,
        PendingJustified, RefusalJustified, NoReply
  <2> QED BY <2>1 DEF RaceInv
<1>5. ASSUME NEW h \in Handlers, Check(h) PROVE RaceInv'
  <2>1. RepliesWhenDone' /\ UpdatesAreSlashable' /\ SignsRecorded' /\
      RecordedBeforeReleased' /\ FilesJustified' /\ PendingJustified'
    BY <1>5 DEF Check, Answer, Goto, TypeOK, RaceInv, RepliesWhenDone, UpdatesAreSlashable,
        SignsRecorded, RecordedBeforeReleased, FilesJustified, PendingJustified, NoReply
  <2>2. RefusalJustified'
    <3>1. key[h] \in Keys /\ msg[h] \in Messages
      BY <1>5 DEF Check, TypeOK
    <3>2. Small(dbFile[key[h]].data) /\ recorded[key[h]] \subseteq Messages
      BY <3>1, TypeSmall DEF TypeOK
    <3>3. Justified(dbFile[key[h]].data, recorded[key[h]])
      BY <3>1 DEF RaceInv, FilesJustified
    <3>4. \A g \in Handlers \ {h} : reply'[g] = reply[g]
      BY <1>5 DEF Check, Answer, Goto, TypeOK
    <3>5. CASE IsSlashable(dbFile[key[h]].data, msg[h])
      BY <1>5, <3>1, <3>2, <3>3, <3>4, <3>5, RefusedForReason DEF Check, RaceInv, RefusalJustified
    <3>6. CASE reply'[h] = 500 \/ reply' = reply
      BY <1>5, <3>4, <3>6 DEF Check, RaceInv, RefusalJustified
    <3> QED BY <1>5, <3>5, <3>6 DEF Check, Answer, Goto, TypeOK
  <2> QED BY <2>1, <2>2 DEF RaceInv
<1>6. ASSUME NEW h \in Handlers, Update(h) PROVE RaceInv'
  <2>1. RepliesWhenDone' /\ UpdatesAreSlashable' /\ SignsRecorded' /\
      RecordedBeforeReleased' /\ FilesJustified' /\ RefusalJustified'
    BY <1>6 DEF Update, Answer, Goto, TypeOK, RaceInv, RepliesWhenDone, UpdatesAreSlashable,
        SignsRecorded, RecordedBeforeReleased, FilesJustified, RefusalJustified, NoReply
  <2>2. PendingJustified'
    <3>1. key[h] \in Keys /\ msg[h] \in Messages /\ can_be_slashed(msg[h])
      BY <1>6 DEF Update, TypeOK, RaceInv, UpdatesAreSlashable
    <3>2. Small(dbFile[key[h]].data) /\ Justified(dbFile[key[h]].data, recorded[key[h]])
      BY <3>1, TypeSmall DEF RaceInv, FilesJustified
    <3>3. CASE Answer(h, 500) /\ UNCHANGED data
      BY <1>6, <3>3 DEF Update, Answer, TypeOK, RaceInv, PendingJustified
    <3>4. CASE /\ data' = [data EXCEPT ![h] = Updated(dbFile[key[h]].data, msg[h],
                                                ALLOW_GROWABLE_SLASH_PROTECTION_DB)]
               /\ Goto(h, "open")
      <4>1. Justified(data'[h], recorded[key[h]] \cup {msg[h]})
        BY <3>1, <3>2, <3>4, UpdateJustified DEF TypeOK
      <4>2. \A g \in Handlers \ {h} : data'[g] = data[g] /\ pc'[g] = pc[g]
        BY <3>4 DEF Goto, TypeOK
      <4> QED BY <1>6, <4>1, <4>2 DEF Update, RaceInv, PendingJustified
    <3> QED BY <1>6, <3>3, <3>4 DEF Update
  <2> QED BY <2>1, <2>2 DEF RaceInv
<1>7. ASSUME NEW h \in Handlers, Open(h) PROVE RaceInv'
  <2>1. RepliesWhenDone' /\ UpdatesAreSlashable' /\ SignsRecorded' /\
      RecordedBeforeReleased' /\ PendingJustified' /\ RefusalJustified'
    BY <1>7 DEF Open, OpenDb, Goto, TypeOK, RaceInv, RepliesWhenDone, UpdatesAreSlashable,
        SignsRecorded, RecordedBeforeReleased, PendingJustified, RefusalJustified, NoReply
  <2>2. FilesJustified'
    <3>1. \A k \in Keys : dbFile'[k] = dbFile[k] \/ dbFile'[k].data = NewData
      BY <1>7 DEF Open, OpenDb, Unreadable, TypeOK
    <3> QED BY <1>7, <3>1, NewDataJustified DEF Open, RaceInv, FilesJustified
  <2> QED BY <2>1, <2>2 DEF RaceInv
<1>8. ASSUME NEW h \in Handlers, Write(h) PROVE RaceInv'
  <2>1. RepliesWhenDone' /\ UpdatesAreSlashable' /\ SignsRecorded' /\
      RecordedBeforeReleased'
    BY <1>8 DEF Write, Goto, TypeOK, RaceInv, RepliesWhenDone, UpdatesAreSlashable,
        SignsRecorded, RecordedBeforeReleased, NoReply
  <2>2. FilesJustified'
    <3>1. key[h] \in Keys /\ Justified(data[h], recorded[key[h]] \cup {msg[h]})
      BY <1>8 DEF Write, TypeOK, RaceInv, PendingJustified
    <3>2. PICK f \in WriteOutcomes(dbFile[key[h]], data[h]) : dbFile' = [dbFile EXCEPT ![key[h]] = f]
      BY <1>8 DEF Write
    <3>3. f.data \in {data[h], NewData}
      BY <3>2, OutcomeData
    <3>4. \A k \in Keys : /\ dbFile'[k] = IF k = key[h] THEN f ELSE dbFile[k]
                          /\ recorded'[k] = IF k = key[h] THEN recorded[k] \cup {msg[h]} ELSE recorded[k]
      BY <1>8, <3>2 DEF Write, TypeOK
    <3> QED BY <3>1, <3>3, <3>4, NewDataJustified DEF RaceInv, FilesJustified
  <2>3. PendingJustified'
    <3>1. \A k \in Keys : recorded[k] \subseteq recorded'[k]
      BY <1>8 DEF Write, TypeOK
    <3>2. \A g \in Handlers : pc'[g] \in {"open", "write"} => pc[g] = pc'[g] /\ key[g] \in Keys
      BY <1>8 DEF Write, Goto, TypeOK
    <3>3. ASSUME NEW g \in Handlers, pc'[g] \in {"open", "write"}
          PROVE  Justified(data'[g], recorded'[key'[g]] \cup {msg'[g]})
      <4>1. Justified(data[g], recorded[key[g]] \cup {msg[g]})
        BY <3>2, <3>3 DEF RaceInv, PendingJustified
      <4>2. recorded[key[g]] \cup {msg[g]} \subseteq recorded'[key[g]] \cup {msg[g]}
        BY <3>1, <3>2, <3>3
      <4> QED BY <1>8, <4>1, <4>2, JustifiedMonotone DEF Write
    <3> QED BY <3>3 DEF PendingJustified
  <2>4. RefusalJustified'
    <3>1. \A g \in Handlers : key[g] \in Keys => recorded[key[g]] \subseteq recorded'[key[g]]
      BY <1>8 DEF Write, TypeOK
    <3>2. \A g \in Handlers : key[g] \notin Keys => recorded[key[g]] = recorded'[key[g]]
      BY <1>8 DEF Write, TypeOK
    <3>3. UNCHANGED <<reply, msg, key>>
      BY <1>8 DEF Write, Goto
    <3> QED BY <3>1, <3>2, <3>3 DEF RaceInv, RefusalJustified
  <2> QED BY <2>1, <2>2, <2>3, <2>4 DEF RaceInv
<1>9. ASSUME NEW h \in Handlers, Sign(h) PROVE RaceInv'
  <2>1. RepliesWhenDone' /\ UpdatesAreSlashable' /\ SignsRecorded' /\ FilesJustified' /\
      PendingJustified' /\ RefusalJustified'
    BY <1>9 DEF Sign, Answer, TypeOK, RaceInv, RepliesWhenDone, UpdatesAreSlashable,
        SignsRecorded, FilesJustified, PendingJustified, RefusalJustified, NoReply
  <2>2. RecordedBeforeReleased'
    <3>1. key[h] \in Keys /\ (can_be_slashed(msg[h]) => msg[h] \in recorded[key[h]])
      BY <1>9 DEF Sign, TypeOK, RaceInv, SignsRecorded
    <3>2. \A k \in Keys : released'[k] \subseteq released[k] \cup (IF k = key[h] THEN {msg[h]} ELSE {})
      BY <1>9 DEF Sign, TypeOK
    <3> QED BY <1>9, <3>1, <3>2 DEF Sign, RaceInv, RecordedBeforeReleased
  <2> QED BY <2>1, <2>2 DEF RaceInv
<1>10. ASSUME NEW h \in Handlers, CreateKey(h) PROVE RaceInv'
  <2>1. RepliesWhenDone' /\ UpdatesAreSlashable' /\ SignsRecorded' /\
      RecordedBeforeReleased' /\ FilesJustified' /\ PendingJustified' /\ RefusalJustified'
    BY <1>10 DEF CreateKey, Goto, TypeOK, RaceInv, RepliesWhenDone, UpdatesAreSlashable,
        SignsRecorded, RecordedBeforeReleased, FilesJustified, PendingJustified,
        RefusalJustified, NoReply
  <2> QED BY <2>1 DEF RaceInv
<1>11. ASSUME NEW h \in Handlers, WriteKey(h) PROVE RaceInv'
  <2>1. RepliesWhenDone' /\ UpdatesAreSlashable' /\ SignsRecorded' /\
      RecordedBeforeReleased' /\ FilesJustified' /\ PendingJustified' /\ RefusalJustified'
    BY <1>11 DEF WriteKey, Goto, TypeOK, RaceInv, RepliesWhenDone, UpdatesAreSlashable,
        SignsRecorded, RecordedBeforeReleased, FilesJustified, PendingJustified,
        RefusalJustified, NoReply
  <2> QED BY <2>1 DEF RaceInv
<1>12. ASSUME NEW h \in Handlers, OpenNew(h) PROVE RaceInv'
  <2>1. RepliesWhenDone' /\ UpdatesAreSlashable' /\ SignsRecorded' /\
      RecordedBeforeReleased' /\ PendingJustified' /\ RefusalJustified'
    BY <1>12 DEF OpenNew, OpenDb, Goto, TypeOK, RaceInv, RepliesWhenDone,
        UpdatesAreSlashable, SignsRecorded, RecordedBeforeReleased, PendingJustified,
        RefusalJustified, NoReply
  <2>2. FilesJustified'
    <3>1. \A k \in Keys : dbFile'[k] = dbFile[k] \/ dbFile'[k].data = NewData
      BY <1>12 DEF OpenNew, OpenDb, Unreadable, TypeOK
    <3> QED BY <1>12, <3>1, NewDataJustified DEF OpenNew, RaceInv, FilesJustified
  <2> QED BY <2>1, <2>2 DEF RaceInv
<1>13. ASSUME NEW h \in Handlers, WriteNew(h) PROVE RaceInv'
  <2>1. RepliesWhenDone' /\ UpdatesAreSlashable' /\ SignsRecorded' /\
      RecordedBeforeReleased' /\ PendingJustified' /\ RefusalJustified'
    BY <1>13 DEF WriteNew, Goto, TypeOK, RaceInv, RepliesWhenDone, UpdatesAreSlashable,
        SignsRecorded, RecordedBeforeReleased, PendingJustified, RefusalJustified, NoReply
  <2>2. FilesJustified'
    <3>1. \A k \in Keys : dbFile'[k] = dbFile[k] \/ dbFile'[k].data = NewData
      BY <1>13, OutcomeData DEF WriteNew, TypeOK
    <3> QED BY <1>13, <3>1, NewDataJustified DEF WriteNew, RaceInv, FilesJustified
  <2> QED BY <2>1, <2>2 DEF RaceInv
<1>14. ASSUME NEW h \in Handlers, Attest(h) PROVE RaceInv'
  <2>1. RepliesWhenDone' /\ UpdatesAreSlashable' /\ SignsRecorded' /\
      RecordedBeforeReleased' /\ FilesJustified' /\ PendingJustified' /\ RefusalJustified'
    BY <1>14 DEF Attest, Answer, TypeOK, RaceInv, RepliesWhenDone, UpdatesAreSlashable,
        SignsRecorded, RecordedBeforeReleased, FilesJustified, PendingJustified,
        RefusalJustified, NoReply
  <2> QED BY <2>1 DEF RaceInv
<1>15. ASSUME NEW h \in Handlers, Deliver(h) PROVE RaceInv'
  <2>1. RepliesWhenDone' /\ UpdatesAreSlashable' /\ SignsRecorded' /\
      RecordedBeforeReleased' /\ FilesJustified' /\ PendingJustified' /\ RefusalJustified'
    BY <1>15 DEF Deliver, Reset, TypeOK, RaceInv, RepliesWhenDone, UpdatesAreSlashable,
        SignsRecorded, RecordedBeforeReleased, FilesJustified, PendingJustified,
        RefusalJustified, NoReply
  <2> QED BY <2>1 DEF RaceInv
<1>16. ASSUME NEW h \in Handlers, HangUp(h) PROVE RaceInv'
  <2>1. /\ UNCHANGED <<dbFile, keyFile, recorded, released>>
        /\ \A g \in Handlers :
             \/ pc'[g] = "idle" /\ reply'[g] = NoReply
             \/ /\ pc'[g] = pc[g] /\ key'[g] = key[g] /\ msg'[g] = msg[g]
                /\ data'[g] = data[g] /\ reply'[g] = reply[g]
    BY <1>16 DEF HangUp, Reset, TypeOK, files, history
  <2>2. RepliesWhenDone' /\ UpdatesAreSlashable' /\ SignsRecorded'
    BY <2>1 DEF RaceInv, RepliesWhenDone, UpdatesAreSlashable, SignsRecorded, SignSteps
  <2>3. RecordedBeforeReleased' /\ FilesJustified'
    BY <2>1 DEF RaceInv, RecordedBeforeReleased, FilesJustified
  <2>4. PendingJustified'
    BY <2>1 DEF RaceInv, PendingJustified
  <2>5. RefusalJustified'
    BY <2>1 DEF RaceInv, RefusalJustified, NoReply
  <2> QED BY <2>2, <2>3, <2>4, <2>5 DEF RaceInv
<1>17. ASSUME NEW h \in Handlers, IoError(h) PROVE RaceInv'
  <2>1. RepliesWhenDone' /\ UpdatesAreSlashable' /\ SignsRecorded' /\
      RecordedBeforeReleased' /\ FilesJustified' /\ PendingJustified' /\ RefusalJustified'
    BY <1>17 DEF IoError, Answer, Fault, TypeOK, RaceInv, RepliesWhenDone,
        UpdatesAreSlashable, SignsRecorded, RecordedBeforeReleased, FilesJustified,
        PendingJustified, RefusalJustified, NoReply
  <2> QED BY <2>1 DEF RaceInv
<1>18. ASSUME NEW h \in Handlers, WriteError(h) PROVE RaceInv'
  <2>1. RepliesWhenDone' /\ UpdatesAreSlashable' /\ SignsRecorded' /\
      RecordedBeforeReleased' /\ PendingJustified' /\ RefusalJustified'
    BY <1>18 DEF WriteError, Answer, Fault, TypeOK, RaceInv, RepliesWhenDone,
        UpdatesAreSlashable, SignsRecorded, RecordedBeforeReleased, PendingJustified,
        RefusalJustified, NoReply
  <2>2. FilesJustified'
    <3>1. \A k \in Keys : dbFile'[k] = dbFile[k] \/ dbFile'[k].data = NewData
      BY <1>18 DEF WriteError, Unreadable, TypeOK
    <3> QED BY <1>18, <3>1, NewDataJustified DEF WriteError, RaceInv, FilesJustified
  <2> QED BY <2>1, <2>2 DEF RaceInv
<1>19. CASE Crash
  BY <1>19 DEF Crash, Reset, TypeOK, NoReply, RaceInv, RepliesWhenDone, UpdatesAreSlashable,
      SignsRecorded, RecordedBeforeReleased, FilesJustified, PendingJustified,
      RefusalJustified
<1>20. CASE UNCHANGED vars
  BY <1>20 DEF vars, RaceInv, RepliesWhenDone, UpdatesAreSlashable, SignsRecorded,
      RecordedBeforeReleased, FilesJustified, PendingJustified, RefusalJustified
<1> QED
  BY <1>1, <1>2, <1>3, <1>4, <1>5, <1>6, <1>7, <1>8, <1>9, <1>10, <1>11, <1>12, <1>13,
      <1>14, <1>15, <1>16, <1>17, <1>18, <1>19, <1>20
  DEF Next, Step

(***************************************************************************)
(* However requests interleave and fail, no signature of a block or        *)
(* attestation is released before its database write has returned.         *)
(***************************************************************************)
THEOREM RecordingPrecedesRelease == Spec => []RecordedBeforeReleased
<1>1. RaceInv => RecordedBeforeReleased
  BY DEF RaceInv
<1> QED BY <1>1, RaceInit, RaceStep, TypeCorrect, PTL DEF Spec

(***************************************************************************)
(* However requests interleave and fail, a 412 answer has its reason in    *)
(* what was recorded for the key, or in slot 0 or target epoch 0.          *)
(***************************************************************************)
THEOREM RefusalsAreJustified == Spec => []RefusalJustified
<1>1. RaceInv => RefusalJustified
  BY DEF RaceInv
<1> QED BY <1>1, RaceInit, RaceStep, TypeCorrect, PTL DEF Spec

(***************************************************************************)
(* No step, of any number of handlers, makes a key sign again whose        *)
(* database is unreadable and that nobody is writing.                      *)
(***************************************************************************)
THEOREM BrickedForGood == Spec => BrickedStaysBricked
<1>1. ASSUME TypeOK, [Next]_vars, NEW k \in Keys, Bricked(k)
      PROVE  Bricked(k)' /\ released'[k] = released[k]
  <2> USE <1>1 DEF Bricked, SignSteps, KeygenSteps, files, request, history
  <2>1. ASSUME NEW h \in Handlers,
               SignRejected(h) \/ SignRequest(h) \/ Keygen(h) \/ ValidatorDeposit(h)
        PROVE  Bricked(k)' /\ released'[k] = released[k]
    BY <2>1 DEF SignRejected, SignRequest, Keygen, ValidatorDeposit, Accept, AnswerAtOnce,
                Answer, Goto, TypeOK
  <2>2. ASSUME NEW h \in Handlers, Check(h) \/ Update(h) \/ Attest(h) \/ IoError(h)
        PROVE  Bricked(k)' /\ released'[k] = released[k]
    BY <2>2 DEF Check, Update, Attest, IoError, Answer, Goto, ReadOk, TypeOK
  <2>3. ASSUME NEW h \in Handlers, Open(h) \/ Write(h) \/ OpenNew(h) \/ WriteNew(h)
        PROVE  Bricked(k)' /\ released'[k] = released[k]
    <3>1. key[h] # k
      BY <2>3 DEF Open, Write, OpenNew, WriteNew
    <3>2. dbFile'[k] = dbFile[k]
      BY <2>3, <3>1 DEF Open, Write, OpenNew, WriteNew, OpenDb, TypeOK
    <3> QED BY <2>3, <3>1, <3>2 DEF Open, Write, OpenNew, WriteNew, Goto, TypeOK
  <2>4. ASSUME NEW h \in Handlers, Sign(h) \/ CreateKey(h) \/ WriteKey(h)
        PROVE  Bricked(k)' /\ released'[k] = released[k]
    BY <2>4 DEF Sign, CreateKey, WriteKey, Answer, Goto, TypeOK
  <2>5. ASSUME NEW h \in Handlers, WriteError(h)
        PROVE  Bricked(k)' /\ released'[k] = released[k]
    <3>1. key[h] # k
      BY <2>5 DEF WriteError
    <3>2. dbFile'[k] = dbFile[k] /\ keyFile'[k] = keyFile[k]
      BY <2>5, <3>1 DEF WriteError, TypeOK
    <3> QED BY <2>5, <3>1, <3>2 DEF WriteError, Answer, TypeOK
  <2>6. ASSUME NEW H, Reset(H), UNCHANGED <<files, history>>
        PROVE  Bricked(k)' /\ released'[k] = released[k]
    BY <2>6 DEF Reset, TypeOK
  <2>7. CASE UNCHANGED vars
    BY <2>7 DEF vars
  <2> QED BY <2>1, <2>2, <2>3, <2>4, <2>5, <2>6, <2>7 DEF Next, Step, Deliver, HangUp, Crash
<1>2. TypeOK /\ [Next]_vars =>
        [\A k \in Keys : Bricked(k) => Bricked(k)' /\ released'[k] = released[k]]_vars
  BY <1>1
<1> QED BY <1>2, TypeCorrect, PTL DEF Spec, BrickedStaysBricked

(***************************************************************************)
(* What the check lets through, the update does not refuse for the same    *)
(* database.                                                               *)
(***************************************************************************)
LEMMA CheckAgreesWithUpdate ==
  ASSUME NEW db, NEW m, ~IsSlashable(db, m)
  PROVE  ~UpdateBails(db, m)
BY DEF IsSlashable, UpdateBails, NewBlockBails, NewAttestationBails,
       is_slashable_block_slot, is_slashable_attestation_epochs

(***************************************************************************)
(* While h is on its course, nobody else is about to touch the files of    *)
(* its key.                                                                *)
(***************************************************************************)
LEMMA AloneOnCourse ==
  ASSUME TypeOK, SerialInv, NEW h \in Handlers, NEW k \in Keys, NEW m \in Messages,
         OnCourse(h, k, m), NEW g \in Handlers, g # h, key[g] = k
  PROVE  pc[g] \notin SignSteps \cup BeforeDb
<1> USE DEF SignSteps, KeygenSteps, BeforeDb
<1>1. ~Unborn(k)
  BY DEF OnCourse, ReadOk, SerialInv, UnbornUntouched
<1>2. pc[g] \notin BeforeDb
  BY <1>1 DEF Unborn
<1>3. pc[g] \notin SignSteps
  BY DEF OnCourse, SerialInv, OneSignerPerKey
<1> QED BY <1>2, <1>3

(***************************************************************************)
(* Between its first read of the database and its signature, only a fault  *)
(* of its own or a crash turns down a request that was not refused at      *)
(* first: with serial requests for one key, and any number of other        *)
(* requests, key generations and faults at the same time.                  *)
(***************************************************************************)
THEOREM FreshNotTurnedDown == SerialSpec => FreshStaysOnCourse
<1>1. ASSUME TypeOK, SerialInv, [SerialNext]_vars, NEW h \in Handlers, NEW k \in Keys,
             NEW m \in Messages, OnCourse(h, k, m)
      PROVE  OnCourse(h, k, m)' \/ m \in released'[k] \/ IoError(h) \/ WriteError(h) \/ Crash
  <2> DEFINE Goal == OnCourse(h, k, m)' \/ m \in released'[k] \/ IoError(h) \/ WriteError(h) \/ Crash
  <2> USE <1>1 DEF SignSteps, KeygenSteps, BeforeDb, files, request, history
  <2>0. /\ pc[h] \in SignSteps /\ key[h] = k /\ msg[h] = m /\ keyFile[k] = "ok"
        /\ pc[h] \in {"check", "update"} => ReadOk(k)
    BY DEF OnCourse
  <2> DEFINE Undisturbed ==
        /\ pc'[h] = pc[h] /\ key'[h] = k /\ msg'[h] = m
        /\ keyFile'[k] = "ok"
        /\ pc[h] \in {"check", "update"} => dbFile'[k] = dbFile[k]
  <2>u. Undisturbed => Goal
    BY DEF OnCourse, ReadOk
  <2>1. ASSUME NEW g \in Handlers,
               SignRejected(g) \/ SignRequest(g) \/ Keygen(g) \/ ValidatorDeposit(g)
        PROVE  Goal
    <3>1. g # h
      BY <2>0, <2>1 DEF SignRejected, SignRequest, Keygen, ValidatorDeposit, Accept, AnswerAtOnce
    <3>2. Undisturbed
      BY <2>0, <2>1, <3>1 DEF SignRejected, SignRequest, Keygen, ValidatorDeposit, Accept,
         AnswerAtOnce, Answer, Goto, TypeOK
    <3> QED BY <2>u, <3>2
  <2>2. ASSUME NEW g \in Handlers, g # h,
               Check(g) \/ Update(g) \/ Sign(g) \/ Attest(g)
        PROVE  Goal
    <3>1. Undisturbed
      BY <2>0, <2>2 DEF Check, Update, Sign, Attest, Answer, Goto, TypeOK
    <3> QED BY <2>u, <3>1
  <2>3. ASSUME NEW g \in Handlers, g # h,
               CreateKey(g) \/ WriteKey(g) \/ OpenNew(g) \/ WriteNew(g)
        PROVE  Goal
    <3>1. key[g] # k
      BY <2>3, AloneOnCourse DEF CreateKey, WriteKey, OpenNew, WriteNew
    <3>2. keyFile'[k] = keyFile[k] /\ dbFile'[k] = dbFile[k]
      BY <2>3, <3>1 DEF CreateKey, WriteKey, OpenNew, WriteNew, OpenDb, TypeOK
    <3>3. Undisturbed
      BY <2>0, <2>3, <3>2 DEF CreateKey, WriteKey, OpenNew, WriteNew, Goto, TypeOK
    <3> QED BY <2>u, <3>3
  <2>4. ASSUME NEW g \in Handlers, g # h, Open(g) \/ Write(g)
        PROVE  Goal
    <3>1. key[g] # k
      BY <2>4, AloneOnCourse DEF Open, Write
    <3>2. dbFile'[k] = dbFile[k]
      BY <2>4, <3>1 DEF Open, Write, OpenDb, TypeOK
    <3>3. Undisturbed
      BY <2>0, <2>4, <3>2 DEF Open, Write, Goto, TypeOK
    <3> QED BY <2>u, <3>3
  <2>5. CASE Check(h)
    <3>1. ~IsSlashable(dbFile[k].data, m)
      BY <2>5 DEF Check, OnCourse
    <3>2. ~UpdateBails(dbFile[k].data, m)
      BY <3>1, CheckAgreesWithUpdate
    <3>3. pc'[h] \in {"update", "sign"}
      BY <2>0, <2>5, <3>1 DEF Check, Goto, TypeOK
    <3> QED BY <2>0, <2>5, <3>2, <3>3 DEF Check, OnCourse, ReadOk
  <2>6. CASE Update(h)
    <3>1. ~UpdateBails(dbFile[k].data, m)
      BY <2>6 DEF Update, OnCourse
    <3>2. pc'[h] = "open"
      BY <2>0, <2>6, <3>1 DEF Update, Goto, TypeOK
    <3> QED BY <2>0, <2>6, <3>2 DEF Update, OnCourse
  <2>7. CASE Open(h) \/ Write(h)
    BY <2>0, <2>7 DEF Open, Write, Goto, OnCourse, TypeOK
  <2>8. CASE Sign(h)
    BY <2>0, <2>8 DEF Sign, TypeOK
  <2>9. CASE CreateKey(h) \/ WriteKey(h) \/ OpenNew(h) \/ WriteNew(h) \/ Attest(h)
    BY <2>0, <2>9 DEF CreateKey, WriteKey, OpenNew, WriteNew, Attest
  <2>10. ASSUME NEW g \in Handlers, Deliver(g) \/ HangUp(g) PROVE Goal
    <3>1. g # h
      BY <2>0, <2>10 DEF Deliver, HangUp
    <3>2. Undisturbed
      BY <2>0, <2>10, <3>1 DEF Deliver, HangUp, Reset, TypeOK
    <3> QED BY <2>u, <3>2
  <2>11. CASE UNCHANGED vars
    BY <2>0, <2>u, <2>11 DEF vars
  <2>12. ASSUME NEW g \in Handlers, g # h, IoError(g) PROVE Goal
    <3>1. Undisturbed
      BY <2>0, <2>12 DEF IoError, Answer, TypeOK
    <3> QED BY <2>u, <3>1
  <2>13. ASSUME NEW g \in Handlers, g # h, WriteError(g) PROVE Goal
    <3>1. key[g] # k
      BY <2>13, AloneOnCourse DEF WriteError
    <3>2. keyFile'[k] = keyFile[k] /\ dbFile'[k] = dbFile[k]
      BY <2>13, <3>1 DEF WriteError, TypeOK
    <3>3. Undisturbed
      BY <2>0, <2>13, <3>2 DEF WriteError, Answer, TypeOK
    <3> QED BY <2>u, <3>3
  <2> HIDE DEF Goal
  <2> QED
    BY <2>1, <2>2, <2>3, <2>4, <2>5, <2>6, <2>7, <2>8, <2>9, <2>10, <2>11, <2>12, <2>13
    DEF SerialNext, Next, Step, Goal
<1>2. TypeOK /\ SerialInv /\ [SerialNext]_vars =>
        [\A h \in Handlers, k \in Keys, m \in Messages :
           OnCourse(h, k, m) =>
             OnCourse(h, k, m)' \/ m \in released'[k] \/ IoError(h) \/ WriteError(h) \/ Crash]_vars
  BY <1>1
<1> QED BY <1>2, SerialInvariant, PTL DEF SerialSpec, FreshStaysOnCourse
=============================================================================
