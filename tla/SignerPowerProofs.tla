-------------------------- MODULE SignerPowerProofs --------------------------
(***************************************************************************)
(* What a loss of power can and cannot do, for any number of keys and      *)
(* handlers and any number of losses and other faults.                     *)
(*                                                                         *)
(* The disk has what the files had at some time, so that its watermarks    *)
(* have their reasons in what was recorded (DiskJustified), and a loss of  *)
(* power keeps the invariant of racing requests.  It keeps the invariant   *)
(* of serial requests if no slashing protection file is set back, for      *)
(* that invariant says nothing of key files.                               *)
(***************************************************************************)
EXTENDS SignerPower, SignerProofs

DiskTypes ==
  /\ keyDisk \in [Keys -> FileState]
  /\ dbDisk \in [Keys -> DbFile]
  /\ \A k \in Keys : OneEntry(dbDisk[k].data)

DiskJustified == \A k \in Keys : Justified(dbDisk[k].data, recorded[k])

PowerInv ==
  /\ TypeOK /\ DiskTypes
  /\ RaceInv /\ DiskJustified
  /\ ~lostDb /\ ~raced => SerialInv

\* The disk is as empty as the files at first.
LEMMA PowerInitially == PowerInit => PowerInv
<1> SUFFICES ASSUME PowerInit PROVE PowerInv
  OBVIOUS
<1>1. TypeOK /\ RaceInv /\ SerialInv
  BY TypeInit, RaceInit, SerialInit DEF PowerInit
<1>2. DiskTypes /\ DiskJustified
  BY <1>1 DEF PowerInit, DiskTypes, TypeOK, DiskJustified, RaceInv, FilesJustified
<1> QED BY <1>1, <1>2 DEF PowerInv

\* A step of the signer keeps its own invariants.
LEMMA SignerSteps ==
  ASSUME TypeOK, RaceInv, [Next]_vars
  PROVE  TypeOK' /\ RaceInv'
  BY HandlerStep, StoreStep, TypeParts, RaceStep

\* What was recorded is never forgotten.
LEMMA RecordedGrows ==
  ASSUME TypeOK, [Next]_vars
  PROVE  \A k \in Keys : recorded[k] \subseteq recorded'[k]
<1>1. CASE recorded' = recorded
  BY <1>1
<1>2. ASSUME NEW h \in Handlers, Write(h)
      PROVE  \A k \in Keys : recorded[k] \subseteq recorded'[k]
  BY <1>2 DEF Write, TypeOK
<1>3. ASSUME NEW h \in Handlers,
             \/ SignRejected(h) \/ SignRequest(h) \/ Keygen(h) \/ ValidatorDeposit(h)
             \/ Deliver(h) \/ HangUp(h) \/ IoError(h) \/ WriteError(h)
      PROVE  recorded' = recorded
  BY <1>3 DEF SignRejected, SignRequest, Keygen, ValidatorDeposit, Accept, AnswerAtOnce, Deliver,
              HangUp, IoError, WriteError, history
<1>4. ASSUME NEW h \in Handlers, Step(h) \/ Attest(h) PROVE recorded' = recorded \/ Write(h)
  BY <1>4 DEF Step, Check, Update, Open, Sign, CreateKey, WriteKey, OpenNew, WriteNew, Attest, history
<1>5. Crash \/ UNCHANGED vars => recorded' = recorded
  BY DEF Crash, vars, history
<1>6. recorded' = recorded \/ \E h \in Handlers : Write(h)
  BY <1>3, <1>4, <1>5 DEF Next
<1> QED BY <1>1, <1>2, <1>6

\* A loss of power ends all requests and brings back files that have a reason.
LEMMA PowerLossKeeps ==
  ASSUME PowerInv, PowerLoss
  PROVE  PowerInv'
<1> USE DEF PowerInv
<1>1. /\ \A h \in Handlers : /\ pc'[h] = "idle" /\ key'[h] = NoKey /\ msg'[h] = NoMessage
                             /\ data'[h] = NewData /\ reply'[h] = NoReply
      /\ keyFile' = keyDisk /\ dbFile' = dbDisk /\ keyDisk' = keyDisk /\ dbDisk' = dbDisk
      /\ released' = released /\ recorded' = recorded /\ raced' = raced
      /\ ~lostDb' => ~lostDb /\ dbFile' = dbFile
      /\ faults < MaxFaults /\ faults' = faults + 1
  BY DEF PowerLoss, Reset, Fault, history
<1>2. TypeOK'
  <2>1. /\ pc' \in [Handlers -> {"idle"}] /\ key' \in [Handlers -> {NoKey}]
        /\ msg' \in [Handlers -> {NoMessage}] /\ data' \in [Handlers -> {NewData}]
        /\ reply' \in [Handlers -> {NoReply}]
    BY DEF PowerLoss, Reset
  <2>2. NewData \in SlashingProtectionData /\ OneEntry(NewData)
    BY DEF NewData, SlashingProtectionData, OneEntry
  <2>3. faults' \in 0..MaxFaults
    BY <1>1, MaxFaultsAssumption DEF TypeOK
  <2> QED BY <1>1, <2>1, <2>2, <2>3 DEF TypeOK, DiskTypes, SignSteps, KeygenSteps
<1>3. DiskTypes' /\ DiskJustified'
  BY <1>1 DEF DiskTypes, DiskJustified
<1>4. RaceInv'
  BY <1>1 DEF RaceInv, RepliesWhenDone, UpdatesAreSlashable, SignsRecorded, RecordedBeforeReleased,
              FilesJustified, DiskJustified, PendingJustified, RefusalJustified
<1>5. ~lostDb' /\ ~raced' => SerialInv'
  <2> SUFFICES ASSUME ~lostDb', ~raced' PROVE SerialInv'
    OBVIOUS
  <2>1. SerialInv /\ dbFile' = dbFile
    BY <1>1
  <2> QED BY <1>1, <2>1
          DEF SerialInv, OneSignerPerKey, UnbornUntouched, Unborn, BeforeDb, OneKeygenPerKey,
              UpdatesAreSlashable, PendingWriteSafe, SignsRecorded, RecordedNeverSlashable,
              RecordedStaysCovered, RecordedBeforeReleased, SignSteps, KeygenSteps
<1> QED BY <1>2, <1>3, <1>4, <1>5

\* Every step keeps the invariant.
LEMMA PowerStep == PowerInv /\ [PowerNext]_powerVars => PowerInv'
<1> SUFFICES ASSUME PowerInv, [PowerNext]_powerVars PROVE PowerInv'
  OBVIOUS
<1> USE DEF PowerInv
<1>1. CASE Next /\ raced' = (raced \/ ~OneSignerPerKey') /\ UNCHANGED <<keyDisk, dbDisk, lostDb>>
  <2>1. TypeOK' /\ RaceInv'
    BY <1>1, SignerSteps
  <2>2. DiskTypes' /\ DiskJustified'
    BY <1>1, RecordedGrows, JustifiedMonotone DEF DiskTypes, DiskJustified
  <2>3. ~lostDb' /\ ~raced' => SerialInv'
    BY <1>1, SerialStep DEF SerialNext
  <2> QED BY <2>1, <2>2, <2>3
<1>2. ASSUME NEW k \in Keys, WriteBack(k) PROVE PowerInv'
  <2>1. TypeOK' /\ RaceInv' /\ (SerialInv => SerialInv')
    BY <1>2, SignerSteps, SerialStep DEF WriteBack
  <2>2. recorded' = recorded /\ lostDb' = lostDb /\ raced' = raced
    BY <1>2 DEF WriteBack, vars, history
  <2>3. DiskTypes'
    BY <1>2 DEF WriteBack, DiskTypes, TypeOK
  <2>4. DiskJustified'
    BY <1>2, <2>2 DEF WriteBack, DiskJustified, DiskTypes, RaceInv, FilesJustified
  <2> QED BY <2>1, <2>2, <2>3, <2>4
<1>3. CASE UNCHANGED powerVars
  <2>1. TypeOK' /\ RaceInv' /\ (SerialInv => SerialInv')
    BY <1>3, SignerSteps, SerialStep DEF powerVars
  <2>2. DiskTypes' /\ DiskJustified' /\ lostDb' = lostDb /\ raced' = raced
    BY <1>3 DEF powerVars, vars, history, DiskTypes, DiskJustified
  <2> QED BY <2>1, <2>2
<1> QED BY <1>1, <1>2, <1>3, PowerLossKeeps DEF PowerNext

\* It is an invariant.
LEMMA PowerInvariant == PowerSpec => []PowerInv
  BY PowerInitially, PowerStep, PTL DEF PowerSpec

(***************************************************************************)
(* Only a slashing protection file that was set back by a loss of power,   *)
(* or racing requests, can lead to a slashable pair: SerialInv holds as    *)
(* long as neither has happened.                                           *)
(***************************************************************************)
THEOREM OnlyLostDbHarms == PowerSpec => []SafeUnlessDbLost
<1>1. PowerInv => SafeUnlessDbLost
  BY InvariantIsSafe DEF PowerInv, SafeUnlessDbLost
<1> QED BY <1>1, PowerInvariant, PTL

(***************************************************************************)
(* Nothing slashable is released before its record is written, whatever    *)
(* the power does.                                                         *)
(***************************************************************************)
THEOREM PowerRecordsFirst == PowerSpec => []RecordedBeforeReleased
<1>1. PowerInv => RecordedBeforeReleased
  BY DEF PowerInv, RaceInv
<1> QED BY <1>1, PowerInvariant, PTL

(***************************************************************************)
(* Refusals have their reason in what was recorded, on whatever files a    *)
(* loss of power brings back.                                              *)
(***************************************************************************)
THEOREM PowerRefusalsJustified == PowerSpec => []RefusalJustified
<1>1. PowerInv => RefusalJustified
  BY DEF PowerInv, RaceInv
<1> QED BY <1>1, PowerInvariant, PTL
=============================================================================
