------------------------- MODULE SlashHistoryProofs -------------------------
(***************************************************************************)
(* The compact database never accepts a slashable pair, and refuses what   *)
(* the growable one refuses, for all slots, epochs and histories.          *)
(***************************************************************************)
EXTENDS SlashHistory, SlashProtectionProofs

\* What the compact database keeps bounds everything it has accepted.
CompactCovers ==
  \A m \in accepted :
    /\ IsBlock(m) => m.slot <= get_latest_signed_block_slot(compact)
    /\ IsAttestation(m) => /\ m.source <= LatestSource(compact)
                           /\ m.target <= LatestTarget(compact)

\* It also bounds what the growable one keeps, whose maxima are the same.
FullBelow ==
  /\ \A slot \in Range(full.signed_blocks) : slot <= get_latest_signed_block_slot(compact)
  /\ \A a \in Range(full.signed_attestations) :
       a.source_epoch <= LatestSource(compact) /\ a.target_epoch <= LatestTarget(compact)

SameWatermarks ==
  /\ get_latest_signed_block_slot(full) = get_latest_signed_block_slot(compact)
  /\ LatestSource(full) = LatestSource(compact)
  /\ LatestTarget(full) = LatestTarget(compact)

HistoryInv ==
  TypeOK /\ CompactCovers /\ FullBelow /\ SameWatermarks /\ AcceptedNeverSlashable

(***************************************************************************)
(* The maximum of a set and a number that nothing in it exceeds.           *)
(***************************************************************************)
LEMMA MaxOfLargest ==
  ASSUME NEW S, S \subseteq Nat, NEW x \in Nat, \A y \in S : y <= x
  PROVE  MaxOrZero(S \cup {x}) = x
<1>1. x \in S \cup {x} /\ \A y \in S \cup {x} : x >= y
  OBVIOUS
<1>2. /\ Max(S \cup {x}) \in S \cup {x}
      /\ \A y \in S \cup {x} : Max(S \cup {x}) >= y
  BY <1>1 DEF Max
<1>3. Max(S \cup {x}) = x
  <2> DEFINE top == Max(S \cup {x})
  <2>1. top >= x /\ (top = x \/ top \in S)
    BY <1>1, <1>2
  <2> HIDE DEF top
  <2>2. ASSUME top \in S PROVE top = x
    <3>1. top \in Nat /\ top <= x
      BY <2>2
    <3> QED BY <2>1, <3>1
  <2>3. top = x
    BY <2>1, <2>2
  <2> QED BY <2>3 DEF top
<1> QED BY <1>3 DEF MaxOrZero

(***************************************************************************)
(* Appending adds one element to what a list holds.                        *)
(***************************************************************************)
LEMMA AppendRange ==
  ASSUME NEW S, NEW s \in Seq(S), NEW x \in S
  PROVE  /\ Put(s, x, TRUE) \in Seq(S)
         /\ Range(Put(s, x, TRUE)) = Range(s) \cup {x}
<1>1. Put(s, x, TRUE) = Append(s, x)
  BY DEF Put
<1>2. /\ Append(s, x) \in Seq(S)
      /\ DOMAIN Append(s, x) = (DOMAIN s) \cup {Len(s) + 1}
      /\ Append(s, x)[Len(s) + 1] = x
      /\ \A i \in DOMAIN s : Append(s, x)[i] = s[i]
  OBVIOUS
<1>3. Range(Append(s, x)) = Range(s) \cup {x}
  BY <1>2 DEF Range
<1> QED BY <1>1, <1>2, <1>3

(***************************************************************************)
(* A message is a block or an attestation, never both.                     *)
(***************************************************************************)
LEMMA KindsDisjoint == \A m : ~(IsBlock(m) /\ IsAttestation(m))
  BY DEF IsBlock, IsAttestation, BlockTags, AttestationTags

(***************************************************************************)
(* The databases of a fresh key satisfy the invariant.                     *)
(***************************************************************************)
LEMMA HistoryInit == Init => HistoryInv
<1> SUFFICES ASSUME Init PROVE HistoryInv
  OBVIOUS
<1>1. Small(NewData) /\ full = NewData /\ compact = NewData /\ accepted = {}
  BY NewDataSmall DEF Init
<1>2. Range(full.signed_blocks) = {} /\ Range(full.signed_attestations) = {}
  BY <1>1 DEF NewData, Range
<1>3. TypeOK
  BY <1>1 DEF TypeOK, Small
<1> QED BY <1>1, <1>2, <1>3
        DEF HistoryInv, CompactCovers, FullBelow, SameWatermarks, AcceptedNeverSlashable

(***************************************************************************)
(* A block that is not refused becomes the latest one of both databases.   *)
(***************************************************************************)
LEMMA BlockStep ==
  ASSUME HistoryInv, NEW m \in Messages, Record(m), IsBlock(m), ~UpdateBails(compact, m)
  PROVE  HistoryInv'
<1> USE MessagesAssumption
<1>1. /\ m \in BLSSignMsg /\ m.slot \in Nat
      /\ Small(compact) /\ full \in SlashingProtectionData
      /\ ~UpdateBails(full, m)
      /\ m.slot > get_latest_signed_block_slot(compact)
  <2>1. Small(compact)
    BY DEF HistoryInv, TypeOK, Small
  <2>2. m \in BLSSignMsg /\ m.slot \in Nat /\ ~IsAttestation(m)
    BY KindsDisjoint DEF BLSSignMsg
  <2>3. ~NewBlockBails(compact, m.slot) /\ get_latest_signed_block_slot(compact) \in Nat
    BY <2>1, LatestTypes DEF UpdateBails
  <2>4. m.slot > get_latest_signed_block_slot(compact)
    BY <2>2, <2>3 DEF NewBlockBails
  <2>5. ~UpdateBails(full, m)
    BY <2>2, <2>3 DEF UpdateBails, NewBlockBails, HistoryInv, SameWatermarks
  <2> QED BY <2>1, <2>2, <2>4, <2>5 DEF HistoryInv, TypeOK
<1>2. /\ compact' = Updated(compact, m, FALSE)
      /\ full' = Updated(full, m, TRUE)
      /\ accepted' = accepted \cup {m}
  BY <1>1 DEF Record, Offer
<1>3. /\ Small(compact')
      /\ get_latest_signed_block_slot(compact') = m.slot
      /\ LatestSource(compact') = LatestSource(compact)
      /\ LatestTarget(compact') = LatestTarget(compact)
  BY <1>1, <1>2, RecordBlock
<1>4. /\ full' \in SlashingProtectionData
      /\ Range(full'.signed_blocks) = Range(full.signed_blocks) \cup {m.slot}
      /\ full'.signed_attestations = full.signed_attestations
  <2> DEFINE list == full.signed_blocks
             slot == m.slot
             new == Put(list, slot, TRUE)
  <2>1. list \in Seq(Nat) /\ slot \in Nat
    BY <1>1 DEF SlashingProtectionData
  <2>2. full' = [full EXCEPT !.signed_blocks = new]
    BY <1>2 DEF Updated, new_block
  <2> HIDE DEF list, slot
  <2>3. new \in Seq(Nat) /\ Range(new) = Range(list) \cup {slot}
    <3>1. \A s \in Seq(Nat), n \in Nat :
            Put(s, n, TRUE) \in Seq(Nat) /\ Range(Put(s, n, TRUE)) = Range(s) \cup {n}
      BY AppendRange
    <3> QED BY ONLY <2>1, <3>1, Zenon
  <2> HIDE DEF new
  <2> QED BY <1>1, <2>2, <2>3 DEF SlashingProtectionData, list, slot
<1>5. get_latest_signed_block_slot(full') = m.slot
  <2>1. Range(full.signed_blocks) \subseteq Nat
    BY <1>1 DEF SlashingProtectionData, Range
  <2>2. \A slot \in Range(full.signed_blocks) : slot <= m.slot
    BY <1>1, <2>1, LatestTypes DEF HistoryInv, FullBelow
  <2> QED BY <1>1, <1>4, <2>1, <2>2, MaxOfLargest DEF get_latest_signed_block_slot
<1>6. SameWatermarks'
  BY <1>3, <1>4, <1>5 DEF HistoryInv, SameWatermarks, LatestSource, LatestTarget
<1>7. FullBelow'
  <2>1. \A slot \in Range(full'.signed_blocks) : slot <= m.slot
    <3>1. Range(full.signed_blocks) \subseteq Nat
      BY <1>1 DEF SlashingProtectionData, Range
    <3> QED BY <1>1, <1>4, <3>1, LatestTypes DEF HistoryInv, FullBelow
  <2> QED BY <1>3, <1>4, <2>1 DEF HistoryInv, FullBelow
<1>8. CompactCovers'
  <2>1. \A n \in accepted : n \in BLSSignMsg /\ n.slot \in Nat
    BY DEF HistoryInv, TypeOK, BLSSignMsg
  <2>2. \A n \in accepted : IsBlock(n) => n.slot <= m.slot
    BY <1>1, <2>1, LatestTypes DEF HistoryInv, CompactCovers
  <2>3. \A n \in accepted' : IsBlock(n) => n.slot <= get_latest_signed_block_slot(compact')
    <3>1. \A n \in accepted \cup {m} : IsBlock(n) => n.slot <= m.slot
      BY <1>1, <2>2
    <3> QED BY <1>2, <1>3, <3>1
  <2>4. \A n \in accepted' : IsAttestation(n) => n \in accepted
    BY <1>2, KindsDisjoint
  <2>5. \A n \in accepted' : IsAttestation(n) =>
          n.source <= LatestSource(compact') /\ n.target <= LatestTarget(compact')
    BY <1>3, <2>4 DEF HistoryInv, CompactCovers
  <2> QED BY <2>3, <2>5 DEF CompactCovers
<1>9. AcceptedNeverSlashable'
  <2>1. \A n \in accepted : IsBlock(n) => n.slot # m.slot
    <3>1. \A n \in accepted : n.slot \in Nat
      BY DEF HistoryInv, TypeOK, BLSSignMsg
    <3> QED BY <1>1, <3>1, LatestTypes DEF HistoryInv, CompactCovers
  <2>2. ~IsAttestation(m)
    BY KindsDisjoint
  <2>3. \A n \in accepted : ~SlashablePair(m, n) /\ ~SlashablePair(n, m)
    BY <2>1, <2>2 DEF SlashablePair, DoubleProposal, DoubleVote, Surrounds
  <2>4. ~SlashablePair(m, m)
    BY <2>2 DEF SlashablePair, DoubleProposal, DoubleVote, Surrounds
  <2> QED BY <1>2, <2>3, <2>4 DEF HistoryInv, AcceptedNeverSlashable
<1>10. TypeOK'
  BY <1>2, <1>3, <1>4 DEF HistoryInv, TypeOK, Small
<1> QED BY <1>6, <1>7, <1>8, <1>9, <1>10 DEF HistoryInv

(***************************************************************************)
(* An attestation that is not refused has the latest source and the latest *)
(* target of both databases.                                               *)
(***************************************************************************)
LEMMA AttestationStep ==
  ASSUME HistoryInv, NEW m \in Messages, Record(m), IsAttestation(m), ~UpdateBails(compact, m)
  PROVE  HistoryInv'
<1> USE MessagesAssumption
<1> DEFINE x == [source_epoch |-> m.source, target_epoch |-> m.target]
<1>1. /\ m \in BLSSignMsg /\ m.source \in Nat /\ m.target \in Nat /\ ~IsBlock(m)
      /\ Small(compact) /\ full \in SlashingProtectionData
  BY KindsDisjoint DEF BLSSignMsg, HistoryInv, TypeOK, Small
<1>2. /\ LatestSource(compact) \in Nat /\ LatestTarget(compact) \in Nat
      /\ m.source >= LatestSource(compact) /\ m.target > LatestTarget(compact)
  <2>1. LatestSource(compact) \in Nat /\ LatestTarget(compact) \in Nat
    BY <1>1, LatestTypes
  <2>2. ~NewAttestationBails(compact, m.source, m.target)
    BY DEF UpdateBails
  <2> QED BY <1>1, <2>1, <2>2 DEF NewAttestationBails
<1>3. ~UpdateBails(full, m)
  BY <1>1 DEF UpdateBails, NewAttestationBails, HistoryInv, SameWatermarks
<1>4. /\ compact' = Updated(compact, m, FALSE)
      /\ full' = Updated(full, m, TRUE)
      /\ accepted' = accepted \cup {m}
  BY <1>3 DEF Record, Offer
<1>5. /\ Small(compact')
      /\ get_latest_signed_block_slot(compact') = get_latest_signed_block_slot(compact)
      /\ LatestSource(compact') = m.source
      /\ LatestTarget(compact') = m.target
  BY <1>1, <1>4, RecordAttestation
<1>6. /\ full' \in SlashingProtectionData
      /\ Range(full'.signed_attestations) = Range(full.signed_attestations) \cup {x}
      /\ full'.signed_blocks = full.signed_blocks
  <2> DEFINE list == full.signed_attestations
             new == Put(list, x, TRUE)
  <2>1. list \in Seq(SignedAttestationEpochs) /\ x \in SignedAttestationEpochs
    BY <1>1 DEF SlashingProtectionData, SignedAttestationEpochs
  <2>2. full' = [full EXCEPT !.signed_attestations = new]
    BY <1>1, <1>4 DEF Updated, new_attestation
  <2> HIDE DEF x, list
  <2>3. new \in Seq(SignedAttestationEpochs) /\ Range(new) = Range(list) \cup {x}
    <3>1. \A s \in Seq(SignedAttestationEpochs), a \in SignedAttestationEpochs :
            /\ Put(s, a, TRUE) \in Seq(SignedAttestationEpochs)
            /\ Range(Put(s, a, TRUE)) = Range(s) \cup {a}
      BY AppendRange
    <3> QED BY ONLY <2>1, <3>1, Zenon
  <2> HIDE DEF new
  <2> QED BY <1>1, <2>2, <2>3 DEF SlashingProtectionData, list
<1>7. \A a \in Range(full.signed_attestations) :
        /\ a.source_epoch \in Nat /\ a.source_epoch <= m.source
        /\ a.target_epoch \in Nat /\ a.target_epoch <= m.target
  <2>1. Range(full.signed_attestations) \subseteq SignedAttestationEpochs
    BY <1>1 DEF SlashingProtectionData, Range
  <2>2. \A a \in Range(full.signed_attestations) : a.source_epoch \in Nat /\ a.target_epoch \in Nat
    BY <2>1 DEF SignedAttestationEpochs
  <2> QED BY <1>1, <1>2, <2>2 DEF HistoryInv, FullBelow
<1>8. LatestSource(full') = m.source /\ LatestTarget(full') = m.target
  <2> DEFINE S == {a.source_epoch : a \in Range(full.signed_attestations)}
             T == {a.target_epoch : a \in Range(full.signed_attestations)}
  <2>1. /\ {a.source_epoch : a \in Range(full'.signed_attestations)} = S \cup {m.source}
        /\ {a.target_epoch : a \in Range(full'.signed_attestations)} = T \cup {m.target}
    <3> DEFINE R == Range(full.signed_attestations)
    <3>1. x.source_epoch = m.source /\ x.target_epoch = m.target
      OBVIOUS
    <3> HIDE DEF x
    <3>2. Range(full'.signed_attestations) = R \cup {x}
      BY <1>6
    <3> HIDE DEF R
    <3>3. /\ {a.source_epoch : a \in R \cup {x}} = {a.source_epoch : a \in R} \cup {m.source}
          /\ {a.target_epoch : a \in R \cup {x}} = {a.target_epoch : a \in R} \cup {m.target}
      BY <3>1
    <3> QED BY <3>2, <3>3 DEF R
  <2>2. /\ S \subseteq Nat /\ \A y \in S : y <= m.source
        /\ T \subseteq Nat /\ \A y \in T : y <= m.target
    BY <1>7
  <2> HIDE DEF S, T
  <2>3. MaxOrZero(S \cup {m.source}) = m.source /\ MaxOrZero(T \cup {m.target}) = m.target
    BY <1>1, <2>2, MaxOfLargest
  <2> QED BY <2>1, <2>3 DEF LatestSource, LatestTarget
<1>9. SameWatermarks'
  BY <1>5, <1>6, <1>8 DEF HistoryInv, SameWatermarks, get_latest_signed_block_slot
<1>10. FullBelow'
  <2>1. \A a \in Range(full'.signed_attestations) :
          a.source_epoch <= m.source /\ a.target_epoch <= m.target
    BY <1>1, <1>6, <1>7
  <2> QED BY <1>5, <1>6, <2>1 DEF HistoryInv, FullBelow
<1>11. \A n \in accepted :
         /\ n.source \in Nat /\ n.target \in Nat
         /\ IsAttestation(n) => n.source <= m.source /\ n.target < m.target
  <2>1. \A n \in accepted : n.source \in Nat /\ n.target \in Nat
    BY DEF HistoryInv, TypeOK, BLSSignMsg
  <2> QED BY <1>1, <1>2, <2>1 DEF HistoryInv, CompactCovers
<1>12. CompactCovers'
  <2>1. \A n \in accepted' : IsAttestation(n) => n.source <= m.source /\ n.target <= m.target
    BY <1>1, <1>4, <1>11
  <2> QED BY <1>1, <1>4, <1>5, <2>1 DEF HistoryInv, CompactCovers
<1>13. AcceptedNeverSlashable'
  <2>1. \A n \in accepted : ~SlashablePair(m, n) /\ ~SlashablePair(n, m)
    BY <1>1, <1>11 DEF SlashablePair, DoubleProposal, DoubleVote, Surrounds
  <2>2. ~SlashablePair(m, m)
    BY <1>1 DEF SlashablePair, DoubleProposal, DoubleVote, Surrounds
  <2> QED BY <1>4, <2>1, <2>2 DEF HistoryInv, AcceptedNeverSlashable
<1>14. TypeOK'
  BY <1>4, <1>5, <1>6 DEF HistoryInv, TypeOK, Small
<1> QED BY <1>9, <1>10, <1>12, <1>13, <1>14 DEF HistoryInv

(***************************************************************************)
(* Every call keeps the invariant; one that is refused by the compact      *)
(* database is refused by the growable one and changes nothing.            *)
(***************************************************************************)
LEMMA HistoryStep == HistoryInv /\ [Next]_vars => HistoryInv'
<1> SUFFICES ASSUME HistoryInv, [Next]_vars PROVE HistoryInv'
  OBVIOUS
<1>1. CASE UNCHANGED vars
  BY <1>1 DEF vars, HistoryInv, TypeOK, CompactCovers, FullBelow, SameWatermarks,
     AcceptedNeverSlashable
<1>2. ASSUME NEW m \in Messages, Record(m) PROVE HistoryInv'
  <2>1. CASE UpdateBails(compact, m)
    <3>1. UpdateBails(full, m)
      BY <2>1 DEF UpdateBails, NewBlockBails, NewAttestationBails, HistoryInv, SameWatermarks
    <3>2. UNCHANGED vars
      BY <1>2, <2>1, <3>1 DEF Record, Offer, vars
    <3> QED BY <1>1, <3>2
  <2>2. CASE ~UpdateBails(compact, m)
    <3>1. IsBlock(m) \/ IsAttestation(m)
      BY <1>2 DEF Record, can_be_slashed
    <3> QED BY <1>2, <2>2, <3>1, BlockStep, AttestationStep
  <2> QED BY <2>1, <2>2
<1> QED BY <1>1, <1>2 DEF Next

(***************************************************************************)
(* The invariant always holds; new_block and new_attestation keep the      *)
(* databases well formed, the compact one with at most one entry each.     *)
(***************************************************************************)
THEOREM HistoryInvariant == Spec => []HistoryInv
  BY HistoryInit, HistoryStep, PTL DEF Spec

(***************************************************************************)
(* Both databases keep their types; the compact one never holds more than  *)
(* one block and one attestation.                                          *)
(***************************************************************************)
THEOREM HistoryTypes == Spec => []TypeOK
<1>1. HistoryInv => TypeOK
  BY DEF HistoryInv
<1> QED BY <1>1, HistoryInvariant, PTL

(***************************************************************************)
(* No sequence of calls makes the one-entry database record two messages   *)
(* that slash the validator together.                                      *)
(***************************************************************************)
THEOREM NeverSlashable == Spec => []AcceptedNeverSlashable
<1>1. HistoryInv => AcceptedNeverSlashable
  BY DEF HistoryInv
<1> QED BY <1>1, HistoryInvariant, PTL

(***************************************************************************)
(* Keeping one entry refuses exactly what keeping all of them refuses.     *)
(***************************************************************************)
THEOREM ForgettingCostsNothing == Spec => []CompactRefusesAsFull
<1>1. HistoryInv => CompactRefusesAsFull
  BY DEF HistoryInv, SameWatermarks, CompactRefusesAsFull, IsSlashable,
     is_slashable_block_slot, is_slashable_attestation_epochs
<1> QED BY <1>1, HistoryInvariant, PTL
----------------------------------------------------------------------------
(***************************************************************************)
(* What blocks a key for good.                                             *)
(***************************************************************************)
\* The watermarks of the compact database come from messages it has accepted.
SlotAttained ==
  LET slot == get_latest_signed_block_slot(compact)
  IN  slot = 0 \/ \E n \in accepted : IsBlock(n) /\ n.slot = slot

EpochsAttained ==
  /\ LatestSource(compact) = 0
       \/ \E n \in accepted : IsAttestation(n) /\ n.source = LatestSource(compact)
  /\ LatestTarget(compact) = 0
       \/ \E n \in accepted : IsAttestation(n) /\ n.target = LatestTarget(compact)

\* A fresh database has watermarks of 0; one that moves is that of the message recorded.
LEMMA AttainedInit == Init => SlotAttained /\ EpochsAttained
<1> SUFFICES ASSUME Init PROVE SlotAttained /\ EpochsAttained
  OBVIOUS
<1>1. Range(compact.signed_blocks) = {} /\ Range(compact.signed_attestations) = {}
  BY DEF Init, NewData, Range
<1>2. {a.source_epoch : a \in {}} = {} /\ {a.target_epoch : a \in {}} = {}
  OBVIOUS
<1>3. /\ get_latest_signed_block_slot(compact) = 0
      /\ LatestSource(compact) = 0 /\ LatestTarget(compact) = 0
  BY <1>1, <1>2, MaxOfOne DEF get_latest_signed_block_slot, LatestSource, LatestTarget
<1> QED BY <1>3 DEF SlotAttained, EpochsAttained

LEMMA AttainedStep ==
  HistoryInv /\ SlotAttained /\ EpochsAttained /\ [Next]_vars => SlotAttained' /\ EpochsAttained'
<1> SUFFICES ASSUME HistoryInv, SlotAttained, EpochsAttained, [Next]_vars
             PROVE  SlotAttained' /\ EpochsAttained'
  OBVIOUS
<1>1. CASE compact' = compact /\ accepted' = accepted
  BY <1>1 DEF SlotAttained, EpochsAttained
<1>2. ASSUME NEW m \in Messages, Record(m), ~UpdateBails(compact, m)
      PROVE  SlotAttained' /\ EpochsAttained'
  <2>1. compact' = Updated(compact, m, FALSE) /\ accepted' = accepted \cup {m}
    BY <1>2 DEF Record, Offer
  <2>2. Small(compact) /\ m \in BLSSignMsg
    BY MessagesAssumption DEF HistoryInv, TypeOK, Small
  <2>3. CASE IsBlock(m)
    <3>1. /\ get_latest_signed_block_slot(compact') = m.slot
          /\ LatestSource(compact') = LatestSource(compact)
          /\ LatestTarget(compact') = LatestTarget(compact)
      BY <2>1, <2>2, <2>3, RecordBlock
    <3> QED BY <2>1, <2>3, <3>1 DEF SlotAttained, EpochsAttained
  <2>4. CASE IsAttestation(m)
    <3>1. ~IsBlock(m)
      BY <2>4, KindsDisjoint
    <3>2. /\ get_latest_signed_block_slot(compact') = get_latest_signed_block_slot(compact)
          /\ LatestSource(compact') = m.source
          /\ LatestTarget(compact') = m.target
      BY <2>1, <2>2, <3>1, RecordAttestation
    <3> QED BY <2>1, <2>4, <3>2 DEF SlotAttained, EpochsAttained
  <2> QED BY <1>2, <2>3, <2>4 DEF Record, can_be_slashed
<1>3. ASSUME NEW m \in Messages, Record(m), UpdateBails(compact, m)
      PROVE  compact' = compact /\ accepted' = accepted
  BY <1>3 DEF Record, Offer
<1> QED BY <1>1, <1>2, <1>3 DEF Next, vars

\* The last slot and the last epoch are those of messages clients can send.
LEMMA LastMessages ==
  /\ LastSlot \in Nat \ {0} /\ \A n \in Blocks : n.slot <= LastSlot
  /\ \E m \in Blocks : m.slot = LastSlot
  /\ LastEpoch \in Nat \ {0} /\ \A n \in SoundVotes : n.target <= LastEpoch
  /\ \E m \in SoundVotes : m.source = LastEpoch - 1 /\ m.target = LastEpoch
<1>1. \A m \in Messages : m.slot \in Nat /\ m.source \in Nat /\ m.target \in Nat
  BY MessagesAssumption DEF BLSSignMsg
<1>2. PICK b \in Blocks : b.slot > 0 /\ \A n \in Blocks : n.slot <= b.slot
  BY LastAssumption
<1>3. PICK v \in SoundVotes : v.source = v.target - 1 /\ \A n \in SoundVotes : n.target <= v.target
  BY LastAssumption
<1>4. ASSUME NEW S \in SUBSET Nat, NEW x \in S, \A y \in S : y <= x PROVE Max(S) = x
  <2>1. \A y \in S : x >= y
    BY <1>4
  <2>2. Max(S) \in S /\ \A y \in S : Max(S) >= y
    BY <2>1 DEF Max
  <2>3. Max(S) >= x /\ Max(S) <= x /\ Max(S) \in Nat
    BY <1>4, <2>2
  <2> QED BY <2>3
<1>5. LastSlot = b.slot
  BY <1>1, <1>2, <1>4 DEF LastSlot, Blocks
<1>6. LastEpoch = v.target
  BY <1>1, <1>3, <1>4 DEF LastEpoch, SoundVotes
<1> QED BY <1>1, <1>2, <1>3, <1>5, <1>6 DEF Blocks, SoundVotes

\* No block can be signed once the watermark is the last slot, which a block has set.
LEMMA SlotBlocked ==
  ASSUME HistoryInv, SlotAttained
  PROVE  (\A m \in Blocks : IsSlashable(compact, m)) <=>
           \E n \in accepted : IsBlock(n) /\ n.slot = LastSlot
<1> DEFINE latest == get_latest_signed_block_slot(compact)
<1>1. latest \in Nat
  BY LatestTypes DEF HistoryInv, TypeOK, Small
<1>2. /\ \A m \in Messages : m.slot \in Nat
      /\ accepted \subseteq Messages
      /\ \A n \in accepted : IsBlock(n) => n.slot <= latest
  BY MessagesAssumption DEF BLSSignMsg, HistoryInv, TypeOK, CompactCovers
<1>3. \A m \in Blocks : m \in Messages /\ (IsSlashable(compact, m) <=> m.slot <= latest)
  BY KindsDisjoint DEF Blocks, IsSlashable, is_slashable_block_slot
<1>4. SlotAttained <=> latest = 0 \/ \E n \in accepted : IsBlock(n) /\ n.slot = latest
  BY DEF SlotAttained
<1>5. \A n \in accepted : IsBlock(n) => n \in Blocks
  BY <1>2 DEF Blocks
<1> HIDE DEF latest
<1>6. ASSUME NEW n \in accepted, IsBlock(n), n.slot = LastSlot
      PROVE  \A m \in Blocks : IsSlashable(compact, m)
  <2>1. LastSlot <= latest /\ LastSlot \in Nat
    BY <1>2, <1>6, LastMessages
  <2> QED BY <1>1, <1>2, <1>3, <2>1, LastMessages
<1>7. ASSUME \A m \in Blocks : IsSlashable(compact, m)
      PROVE  \E n \in accepted : IsBlock(n) /\ n.slot = LastSlot
  <2>1. LastSlot <= latest /\ LastSlot \in Nat \ {0}
    BY <1>3, <1>7, LastMessages
  <2>2. PICK n \in accepted : IsBlock(n) /\ n.slot = latest
    BY <1>1, <1>4, <2>1
  <2>3. n.slot <= LastSlot
    BY <1>5, <2>2, LastMessages
  <2> QED BY <1>1, <2>1, <2>2, <2>3
<1> QED BY <1>6, <1>7

\* No sound vote can be signed once a watermark is the last epoch, which a vote has set.
LEMMA VotesBlocked ==
  ASSUME HistoryInv, EpochsAttained
  PROVE  (\A m \in SoundVotes : IsSlashable(compact, m)) <=>
           \E n \in accepted : IsAttestation(n) /\ (n.source >= LastEpoch \/ n.target >= LastEpoch)
<1> DEFINE src == LatestSource(compact)
           tgt == LatestTarget(compact)
<1>1. src \in Nat /\ tgt \in Nat
  BY LatestTypes DEF HistoryInv, TypeOK, Small
<1>2. /\ \A m \in Messages : m.source \in Nat /\ m.target \in Nat
      /\ accepted \subseteq Messages
      /\ \A n \in accepted : IsAttestation(n) => n.source <= src /\ n.target <= tgt
  BY MessagesAssumption DEF BLSSignMsg, HistoryInv, TypeOK, CompactCovers
<1>3. \A m \in SoundVotes :
        /\ m \in Messages /\ m.source < m.target
        /\ IsSlashable(compact, m) <=> m.source < src \/ m.target <= tgt
  BY KindsDisjoint DEF SoundVotes, IsSlashable, is_slashable_attestation_epochs
<1>4. /\ src = 0 \/ \E n \in accepted : IsAttestation(n) /\ n.source = src
      /\ tgt = 0 \/ \E n \in accepted : IsAttestation(n) /\ n.target = tgt
  BY DEF EpochsAttained
<1> HIDE DEF src, tgt
<1>5. ASSUME NEW n \in accepted, IsAttestation(n), n.source >= LastEpoch \/ n.target >= LastEpoch
      PROVE  \A m \in SoundVotes : IsSlashable(compact, m)
  <2>1. (LastEpoch <= src \/ LastEpoch <= tgt) /\ LastEpoch \in Nat
    BY <1>1, <1>2, <1>5, LastMessages
  <2>2. \A m \in SoundVotes : m.source < m.target /\ m.target <= LastEpoch
    BY <1>3, LastMessages
  <2> QED BY <1>1, <1>2, <1>3, <2>1, <2>2
<1>6. ASSUME \A m \in SoundVotes : IsSlashable(compact, m)
      PROVE  \E n \in accepted : IsAttestation(n) /\ (n.source >= LastEpoch \/ n.target >= LastEpoch)
  <2>1. LastEpoch - 1 < src \/ LastEpoch <= tgt
    BY <1>3, <1>6, LastMessages
  <2>2. LastEpoch \in Nat \ {0}
    BY LastMessages
  <2>3. CASE LastEpoch - 1 < src
    BY <1>1, <1>4, <2>2, <2>3
  <2>4. CASE LastEpoch <= tgt
    BY <1>1, <1>4, <2>2, <2>4
  <2> QED BY <2>1, <2>3, <2>4
<1> QED BY <1>5, <1>6

(***************************************************************************)
(* Only a message for the last slot or the last epoch there is blocks a    *)
(* key for good.                                                           *)
(***************************************************************************)
THEOREM OnlyLastBlocks == Spec => []BlockedOnlyByLast
<1>1. HistoryInv /\ SlotAttained /\ EpochsAttained => BlockedOnlyByLast
  BY SlotBlocked, VotesBlocked DEF BlockedOnlyByLast
<1>2. Spec => [](SlotAttained /\ EpochsAttained)
  BY HistoryInvariant, AttainedInit, AttainedStep, PTL DEF Spec
<1> QED BY <1>1, <1>2, HistoryInvariant, PTL
============================================================================
