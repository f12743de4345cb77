---------------------------- MODULE SlashHistory ----------------------------
(***************************************************************************)
(* A slashing protection database over the life of a key, in its two       *)
(* forms: "full" is growable and keeps every accepted message, "compact"   *)
(* is the form the enclave uses (ALLOW_GROWABLE_SLASH_PROTECTION_DB is     *)
(* false) and overwrites its only entry.  Both are offered the same        *)
(* messages.                                                               *)
(***************************************************************************)
EXTENDS SlashProtection

VARIABLES full,       \* the growable database
          compact,    \* the one-entry database
          accepted    \* the messages compact has recorded so far

vars == <<full, compact, accepted>>

Init == full = NewData /\ compact = NewData /\ accepted = {}

Offer(db, m, growable) == IF UpdateBails(db, m) THEN db ELSE Updated(db, m, growable)

Record(m) ==
  /\ can_be_slashed(m)
  /\ full' = Offer(full, m, TRUE)
  /\ compact' = Offer(compact, m, FALSE)
  /\ accepted' = IF UpdateBails(compact, m) THEN accepted ELSE accepted \cup {m}

Next == \E m \in Messages : Record(m)

Spec == Init /\ [][Next]_vars

----------------------------------------------------------------------------
(***************************************************************************)
(* Both databases hold well-formed entries, and the compact one never more *)
(* than one block and one attestation, as get_latest_* and the update      *)
(* functions of slash_protection.rs assume.                                *)
(***************************************************************************)
TypeOK ==
  /\ full \in SlashingProtectionData
  /\ compact \in SlashingProtectionData
  /\ Len(compact.signed_blocks) <= 1
  /\ Len(compact.signed_attestations) <= 1
  /\ accepted \subseteq Messages

(***************************************************************************)
(* No sequence of calls of new_block and new_attestation makes the         *)
(* database record two messages that slash the validator together, or      *)
(* record a message that is slashable against one forgotten long ago.      *)
(***************************************************************************)
AcceptedNeverSlashable ==
  \A m, n \in accepted : ~SlashablePair(m, n)

(***************************************************************************)
(* Forgetting costs nothing: after any history the one-entry database and  *)
(* the growable one refuse exactly the same messages, although the latest  *)
(* source and the latest target of the growable one are maxima over all    *)
(* entries and the compact one only has the last entry to look at.         *)
(***************************************************************************)
CompactRefusesAsFull ==
  \A m \in Messages : IsSlashable(compact, m) <=> IsSlashable(full, m)

\* What the next property is about.
Blocks == {m \in Messages : IsBlock(m)}
SoundVotes == {m \in Messages : IsAttestation(m) /\ m.source < m.target}
LastSlot == Max({m.slot : m \in Blocks})
LastEpoch == Max({m.target : m \in SoundVotes})

\* Slots and epochs are u64: clients can send a block for the last slot, and a vote for
\* the last epoch with the one before it as its source.
ASSUME LastAssumption ==
  /\ \E m \in Blocks : m.slot > 0 /\ \A n \in Blocks : n.slot <= m.slot
  /\ \E m \in SoundVotes :
       m.source = m.target - 1 /\ \A n \in SoundVotes : n.target <= m.target

(***************************************************************************)
(* A key can be blocked for good, for the largest slot and the largest     *)
(* epoch are recorded like any other; but by nothing less.  No block can   *)
(* be signed any more exactly if one was recorded at the last slot of all, *)
(* and no sound vote (source before target) exactly if a vote was recorded *)
(* with the last epoch as its target, or as its source, though no vote     *)
(* with such a source is sound: source and target are never compared.      *)
(***************************************************************************)
BlockedOnlyByLast ==
  /\ (\A m \in Blocks : IsSlashable(compact, m)) <=>
     \E n \in accepted : IsBlock(n) /\ n.slot = LastSlot
  /\ (\A m \in SoundVotes : IsSlashable(compact, m)) <=>
     \E n \in accepted : IsAttestation(n) /\ (n.source >= LastEpoch \/ n.target >= LastEpoch)
=============================================================================
