-------------------------- MODULE SlashProtection --------------------------
(***************************************************************************)
(* The slashing protection data of one key, SlashingProtectionData, as a   *)
(* value: the rules that refuse a message and the updates that record one. *)
(* An entry keeps the slot, or the source and target epochs; its optional  *)
(* signing_root is stored but never read, so it is left out.               *)
(***************************************************************************)
EXTENDS SlashingRules, Sequences, FiniteSetsExt

SignedAttestationEpochs == [source_epoch: Nat, target_epoch: Nat]

SlashingProtectionData ==
  [signed_blocks: Seq(Nat), signed_attestations: Seq(SignedAttestationEpochs)]

\* SlashingProtectionData::new: the database of a fresh key.
NewData == [signed_blocks |-> <<>>, signed_attestations |-> <<>>]

MaxOrZero(S) == IF S = {} THEN 0 ELSE Max(S)

\* Mutant: the latest slot is taken for the first free one.
LatestSlotPlusOne(db) == MaxOrZero(Range(db.signed_blocks)) + 1

get_latest_signed_block_slot(db) == MaxOrZero(Range(db.signed_blocks))

\* get_latest_signed_attestation_epochs returns the pair (source, target); the two
\* maxima are taken separately and may come from different attestations.
LatestSource(db) == MaxOrZero({a.source_epoch : a \in Range(db.signed_attestations)})

\* Mutant: the latest target is computed from the sources.
LatestTargetOfSources(db) == MaxOrZero({a.source_epoch : a \in Range(db.signed_attestations)})

LatestTarget(db) == MaxOrZero({a.target_epoch : a \in Range(db.signed_attestations)})

is_slashable_block_slot(db, slot) == slot <= get_latest_signed_block_slot(db)

is_slashable_attestation_epochs(db, src, tgt) ==
  src < LatestSource(db) \/ tgt <= LatestTarget(db)

\* The dispatch of shared::is_slashable once the file has been read.
IsSlashable(db, m) ==
  \/ IsBlock(m) /\ is_slashable_block_slot(db, m.slot)
  \/ IsAttestation(m) /\ is_slashable_attestation_epochs(db, m.source, m.target)

----------------------------------------------------------------------------
\* Mutants: the list grows whatever the flag says; the entry is never replaced.
PutAppends(list, entry, growable) == Append(list, entry)
PutKeepsFirst(list, entry, growable) ==
  IF growable \/ list = <<>> THEN Append(list, entry) ELSE list

\* A growable list is appended to; a list that may not grow keeps one entry.
Put(list, entry, growable) ==
  IF growable \/ list = <<>> THEN Append(list, entry)
                             ELSE [list EXCEPT ![1] = entry]

\* Mutants: slot + 1 is refused too; an attestation must go back in both epochs.
NewBlockBailsEarly(db, slot) == slot <= get_latest_signed_block_slot(db) + 1
NewAttestationBailsOnBoth(db, src, tgt) ==
  src < LatestSource(db) /\ tgt <= LatestTarget(db)

\* new_block and new_attestation repeat the check on the data they are about to
\* change and bail out without changing it.
NewBlockBails(db, slot) == slot <= get_latest_signed_block_slot(db)

NewAttestationBails(db, src, tgt) == src < LatestSource(db) \/ tgt <= LatestTarget(db)

\* Mutant: recording a block starts a new database.
NewBlockForgetsVotes(db, slot, growable) ==
  [NewData EXCEPT !.signed_blocks = Put(db.signed_blocks, slot, growable)]

new_block(db, slot, growable) ==
  [db EXCEPT !.signed_blocks = Put(@, slot, growable)]

new_attestation(db, src, tgt, growable) ==
  [db EXCEPT !.signed_attestations =
     Put(@, [source_epoch |-> src, target_epoch |-> tgt], growable)]

\* The update that update_slash_protection_db applies to the data it has read.
UpdateBails(db, m) ==
  \/ IsBlock(m) /\ NewBlockBails(db, m.slot)
  \/ IsAttestation(m) /\ NewAttestationBails(db, m.source, m.target)

Updated(db, m, growable) ==
  IF IsBlock(m) THEN new_block(db, m.slot, growable)
                ELSE new_attestation(db, m.source, m.target, growable)
============================================================================
