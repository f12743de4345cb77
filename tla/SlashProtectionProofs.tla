----------------------- MODULE SlashProtectionProofs -----------------------
(***************************************************************************)
(* What the operations of SlashProtection compute on a database that keeps *)
(* at most one block and one attestation, the form the enclave uses.       *)
(***************************************************************************)
EXTENDS SlashProtection, SequenceTheorems, TLAPS

Small(db) ==
  /\ db \in SlashingProtectionData
  /\ Len(db.signed_blocks) <= 1
  /\ Len(db.signed_attestations) <= 1

(***************************************************************************)
(* The maximum of at most one number, as get_latest_* takes it.            *)
(***************************************************************************)
LEMMA MaxOfOne ==
  /\ MaxOrZero({}) = 0
  /\ \A x \in Nat : MaxOrZero({x}) = x
<1>1. MaxOrZero({}) = 0
  BY DEF MaxOrZero
<1>2. ASSUME NEW x \in Nat PROVE MaxOrZero({x}) = x
  <2>1. \E y \in {x} : \A z \in {x} : y >= z
    OBVIOUS
  <2>2. Max({x}) \in {x}
    BY <2>1 DEF Max
  <2> QED BY <2>2 DEF MaxOrZero
<1> QED BY <1>1, <1>2

(***************************************************************************)
(* A list of at most one entry is empty or a single entry.                 *)
(***************************************************************************)
LEMMA ShortList ==
  ASSUME NEW S, NEW s \in Seq(S), Len(s) <= 1
  PROVE  \/ s = <<>> /\ Range(s) = {}
         \/ \E x \in S : s = <<x>> /\ Range(s) = {x}
<1>1. CASE s = <<>>
  BY <1>1 DEF Range
<1>2. CASE s # <<>>
  <2>1. Len(s) = 1 /\ s[1] \in S /\ DOMAIN s = {1}
    BY <1>2
  <2>2. s = <<s[1]>>
    BY <2>1
  <2>3. Range(s) = {s[1]}
    BY <2>1 DEF Range
  <2> QED BY <2>1, <2>2, <2>3
<1> QED BY <1>1, <1>2

(***************************************************************************)
(* The latest slot and epochs of a small database are natural numbers.     *)
(***************************************************************************)
LEMMA LatestTypes ==
  ASSUME NEW db, Small(db)
  PROVE  /\ get_latest_signed_block_slot(db) \in Nat
         /\ LatestSource(db) \in Nat
         /\ LatestTarget(db) \in Nat
<1>1. db.signed_blocks \in Seq(Nat) /\ Len(db.signed_blocks) <= 1
  BY DEF Small, SlashingProtectionData
<1>2. db.signed_attestations \in Seq(SignedAttestationEpochs) /\ Len(db.signed_attestations) <= 1
  BY DEF Small, SlashingProtectionData
<1>3. get_latest_signed_block_slot(db) \in Nat
  <2>1. CASE Range(db.signed_blocks) = {}
    <3>1. get_latest_signed_block_slot(db) = 0
      BY <2>1, MaxOfOne DEF get_latest_signed_block_slot
    <3> QED BY <3>1
  <2>2. CASE \E x \in Nat : Range(db.signed_blocks) = {x}
    <3>1. PICK x \in Nat : Range(db.signed_blocks) = {x}
      BY <2>2
    <3>2. get_latest_signed_block_slot(db) = x
      BY <3>1, MaxOfOne DEF get_latest_signed_block_slot
    <3> QED BY <3>2
  <2> QED BY <1>1, <2>1, <2>2, ShortList
<1>4. LatestSource(db) \in Nat /\ LatestTarget(db) \in Nat
  <2>1. CASE Range(db.signed_attestations) = {}
    <3>1. /\ {a.source_epoch : a \in Range(db.signed_attestations)} = {}
          /\ {a.target_epoch : a \in Range(db.signed_attestations)} = {}
      BY <2>1
    <3>2. LatestSource(db) = 0 /\ LatestTarget(db) = 0
      BY <3>1, MaxOfOne DEF LatestSource, LatestTarget
    <3> QED BY <3>2
  <2>2. CASE \E x \in SignedAttestationEpochs : Range(db.signed_attestations) = {x}
    <3>1. PICK x \in SignedAttestationEpochs : Range(db.signed_attestations) = {x}
      BY <2>2
    <3>2. /\ {a.source_epoch : a \in Range(db.signed_attestations)} = {x.source_epoch}
          /\ {a.target_epoch : a \in Range(db.signed_attestations)} = {x.target_epoch}
      BY <3>1
    <3>3. x.source_epoch \in Nat /\ x.target_epoch \in Nat
      BY DEF SignedAttestationEpochs
    <3>4. LatestSource(db) = x.source_epoch /\ LatestTarget(db) = x.target_epoch
      BY <3>2, <3>3, MaxOfOne DEF LatestSource, LatestTarget
    <3> QED BY <3>3, <3>4
  <2> QED BY <1>2, <2>1, <2>2, ShortList
<1> QED BY <1>3, <1>4

(***************************************************************************)
(* A fresh database is small and has recorded nothing.                     *)
(***************************************************************************)
LEMMA NewDataSmall == Small(NewData)
<1>1. /\ NewData.signed_blocks = <<>> /\ NewData.signed_attestations = <<>>
      /\ NewData \in SlashingProtectionData
  BY DEF NewData, SlashingProtectionData
<1> QED BY <1>1 DEF Small

(***************************************************************************)
(* Overwriting the only entry, or appending the first one, leaves a list   *)
(* with exactly the new entry.                                             *)
(***************************************************************************)
LEMMA PutOne ==
  ASSUME NEW S, NEW s \in Seq(S), Len(s) <= 1, NEW x \in S
  PROVE  /\ Put(s, x, FALSE) \in Seq(S)
         /\ Len(Put(s, x, FALSE)) = 1
         /\ Range(Put(s, x, FALSE)) = {x}
<1>1. ASSUME NEW t \in Seq(S), Len(t) = 1, t[1] = x PROVE Range(t) = {x}
  <2>1. DOMAIN t = {1}
    BY <1>1
  <2> QED BY <1>1, <2>1 DEF Range
<1>2. CASE s = <<>>
  <2>1. Put(s, x, FALSE) = Append(s, x)
    BY <1>2 DEF Put
  <2>2. Append(s, x) \in Seq(S) /\ Len(Append(s, x)) = 1 /\ Append(s, x)[1] = x
    BY <1>2
  <2> QED BY <1>1, <2>1, <2>2
<1>3. CASE s # <<>>
  <2>1. Len(s) = 1 /\ 1 \in 1..Len(s)
    BY <1>3, EmptySeq, LenProperties
  <2>2. Put(s, x, FALSE) = [s EXCEPT ![1] = x]
    BY <1>3 DEF Put
  <2>3. /\ [s EXCEPT ![1] = x] \in Seq(S)
        /\ Len([s EXCEPT ![1] = x]) = 1
        /\ [s EXCEPT ![1] = x][1] = x
    BY <2>1, ExceptSeq
  <2> QED BY <1>1, <2>2, <2>3
<1> QED BY <1>2, <1>3

(***************************************************************************)
(* Recording a block moves the latest slot to the slot of the block and    *)
(* leaves the attestation watermarks alone.                                *)
(***************************************************************************)
LEMMA RecordBlock ==
  ASSUME NEW db, Small(db), NEW m \in BLSSignMsg, IsBlock(m)
  PROVE  LET e == Updated(db, m, FALSE) IN
           /\ Small(e)
           /\ get_latest_signed_block_slot(e) = m.slot
           /\ LatestSource(e) = LatestSource(db)
           /\ LatestTarget(e) = LatestTarget(db)
<1> DEFINE e == Updated(db, m, FALSE)
           new == Put(db.signed_blocks, m.slot, FALSE)
<1>1. m.slot \in Nat
  BY DEF BLSSignMsg
<1>2. db.signed_blocks \in Seq(Nat) /\ Len(db.signed_blocks) <= 1 /\ db \in SlashingProtectionData
  BY DEF Small, SlashingProtectionData
<1>3. e = [db EXCEPT !.signed_blocks = new]
  BY DEF Updated, new_block
<1> HIDE DEF e
<1>4. new \in Seq(Nat) /\ Len(new) = 1 /\ Range(new) = {m.slot}
  <2>1. \A list \in Seq(Nat), slot \in Nat : Len(list) <= 1 =>
          LET put == Put(list, slot, FALSE) IN
            put \in Seq(Nat) /\ Len(put) = 1 /\ Range(put) = {slot}
    BY PutOne
  <2> QED BY ONLY <1>1, <1>2, <2>1, Zenon
<1> HIDE DEF new
<1>5. e.signed_blocks = new /\ e.signed_attestations = db.signed_attestations
  BY <1>2, <1>3 DEF SlashingProtectionData
<1>6. Small(e)
  <2>1. e \in SlashingProtectionData
    BY <1>2, <1>3, <1>4 DEF SlashingProtectionData
  <2>2. Len(e.signed_attestations) <= 1
    BY <1>5 DEF Small
  <2>3. Len(e.signed_blocks) = 1
    BY <1>4, <1>5
  <2>4. Len(e.signed_blocks) <= 1
    BY <2>3
  <2> QED BY <2>1, <2>2, <2>4 DEF Small
<1>7. get_latest_signed_block_slot(e) = m.slot
  BY <1>1, <1>5, <1>4, MaxOfOne DEF get_latest_signed_block_slot
<1>8. LatestSource(e) = LatestSource(db) /\ LatestTarget(e) = LatestTarget(db)
  BY <1>5 DEF LatestSource, LatestTarget
<1> QED BY <1>6, <1>7, <1>8 DEF e

(***************************************************************************)
(* Recording an attestation moves the latest source and target to those of *)
(* the attestation and leaves the block watermark alone.                   *)
(***************************************************************************)
LEMMA RecordAttestation ==
  ASSUME NEW db, Small(db), NEW m \in BLSSignMsg, ~IsBlock(m)
  PROVE  LET e == Updated(db, m, FALSE) IN
           /\ Small(e)
           /\ get_latest_signed_block_slot(e) = get_latest_signed_block_slot(db)
           /\ LatestSource(e) = m.source
           /\ LatestTarget(e) = m.target
<1> DEFINE e == Updated(db, m, FALSE)
           x == [source_epoch |-> m.source, target_epoch |-> m.target]
           new == Put(db.signed_attestations, x, FALSE)
<1>1. m.source \in Nat /\ m.target \in Nat /\ x \in SignedAttestationEpochs
  BY DEF BLSSignMsg, SignedAttestationEpochs
<1>2. /\ db.signed_attestations \in Seq(SignedAttestationEpochs)
      /\ Len(db.signed_attestations) <= 1
      /\ db \in SlashingProtectionData
  BY DEF Small, SlashingProtectionData
<1>3. e = [db EXCEPT !.signed_attestations = new]
  BY DEF Updated, new_attestation
<1>4. x.source_epoch = m.source /\ x.target_epoch = m.target
  OBVIOUS
<1> HIDE DEF e, x
<1>5. new \in Seq(SignedAttestationEpochs) /\ Len(new) = 1 /\ Range(new) = {x}
  <2>1. \A list \in Seq(SignedAttestationEpochs), entry \in SignedAttestationEpochs :
          Len(list) <= 1 =>
            LET put == Put(list, entry, FALSE) IN
              put \in Seq(SignedAttestationEpochs) /\ Len(put) = 1 /\ Range(put) = {entry}
    BY PutOne
  <2> QED BY ONLY <1>1, <1>2, <2>1, Zenon
<1> HIDE DEF new
<1>6. e.signed_attestations = new /\ e.signed_blocks = db.signed_blocks
  BY <1>2, <1>3 DEF SlashingProtectionData
<1>7. Small(e)
  <2>1. e \in SlashingProtectionData
    BY <1>2, <1>3, <1>5 DEF SlashingProtectionData
  <2>2. Len(e.signed_blocks) <= 1
    BY <1>6 DEF Small
  <2>3. Len(e.signed_attestations) = 1
    BY <1>5, <1>6
  <2>4. Len(e.signed_attestations) <= 1
    BY <2>3
  <2> QED BY <2>1, <2>2, <2>4 DEF Small
<1>8. get_latest_signed_block_slot(e) = get_latest_signed_block_slot(db)
  BY <1>6 DEF get_latest_signed_block_slot
<1>9. /\ {a.source_epoch : a \in Range(e.signed_attestations)} = {m.source}
      /\ {a.target_epoch : a \in Range(e.signed_attestations)} = {m.target}
  BY <1>4, <1>5, <1>6
<1>10. LatestSource(e) = m.source /\ LatestTarget(e) = m.target
  BY <1>1, <1>9, MaxOfOne DEF LatestSource, LatestTarget
<1> QED BY <1>7, <1>8, <1>10 DEF e
============================================================================
