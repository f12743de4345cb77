-------------------------- MODULE MCSlashHistory --------------------------
(***************************************************************************)
(* Every order of offering blocks of slots 0..MaxSlot and attestations     *)
(* with epochs 0..MaxEpoch, two signing roots each.  An attestation may    *)
(* have its source after its target: no code rejects one.                  *)
(***************************************************************************)
EXTENDS SlashHistory

CONSTANTS MaxSlot, MaxEpoch

MCMessages ==
  [tag: {"BLOCK", "block_v2"}, slot: 0..MaxSlot, source: {0}, target: {0}, root: Roots]
    \cup
  [tag: {"attestation"}, slot: {0}, source: 0..MaxEpoch, target: 0..MaxEpoch, root: Roots]
===========================================================================
