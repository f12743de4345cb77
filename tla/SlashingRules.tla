--------------------------- MODULE SlashingRules ---------------------------
(***************************************************************************)
(* The messages a validator key can be asked to sign, and the Ethereum     *)
(* consensus rules that say which pairs of signed messages get the         *)
(* validator slashed.                                                      *)
(*                                                                         *)
(* A message is the request body of POST /api/v1/eth2/sign/:bls_pk_hex,    *)
(* enum BLSSignMsg.  Its payload is abstracted to the fields the slashing  *)
(* rules read: the slot of a block (for BLOCK_V2 the slot of its header),  *)
(* the source and target epoch of an attestation, and the signing root,    *)
(* which stands for everything else the signature commits to.              *)
(***************************************************************************)
EXTENDS Naturals

CONSTANTS Roots,      \* signing roots
          Messages    \* the requests clients may send

\* The serde tags of the enum: each kind has an upper and a lower case variant.
BlockTags == {"BLOCK", "block", "BLOCK_V2", "block_v2"}
AttestationTags == {"ATTESTATION", "attestation"}
DepositTags == {"DEPOSIT", "deposit"}
OtherTags ==
  {"RANDAO_REVEAL", "AGGREGATE_AND_PROOF", "AGGREGATION_SLOT", "VOLUNTARY_EXIT",
   "SYNC_COMMITTEE_MESSAGE", "SYNC_COMMITTEE_SELECTION_PROOF",
   "SYNC_COMMITTEE_CONTRIBUTION_AND_PROOF", "VALIDATOR_REGISTRATION",
   "randao_reveal", "aggregate_and_proof", "aggregation_slot", "voluntary_exit",
   "sync_committee_message", "sync_committee_selection_proof",
   "sync_committee_contribution_and_proof", "validator_registration"}

BLSSignMsg ==
  [tag: BlockTags \cup AttestationTags \cup DepositTags \cup OtherTags,
   slot: Nat, source: Nat, target: Nat, root: Roots]

ASSUME MessagesAssumption == Messages \subseteq BLSSignMsg

IsBlock(m) == m.tag \in BlockTags
IsAttestation(m) == m.tag \in AttestationTags

\* Mutant: the lower case variants are forgotten.
CanBeSlashedUpperCase(m) == m.tag \in {"BLOCK", "BLOCK_V2", "ATTESTATION"}

\* Only block proposals and attestations can be slashed.
can_be_slashed(m) == IsBlock(m) \/ IsAttestation(m)

----------------------------------------------------------------------------
(***************************************************************************)
(* The consensus rules, independent of this program.                       *)
(***************************************************************************)
DoubleProposal(m, n) ==
  IsBlock(m) /\ IsBlock(n) /\ m.slot = n.slot /\ m.root # n.root

DoubleVote(m, n) ==
  IsAttestation(m) /\ IsAttestation(n) /\ m.target = n.target /\ m.root # n.root

\* The vote m surrounds the vote n.
Surrounds(m, n) ==
  IsAttestation(m) /\ IsAttestation(n) /\ m.source < n.source /\ n.target < m.target

\* A validator whose signatures over m and over n are both public is slashed.
SlashablePair(m, n) ==
  DoubleProposal(m, n) \/ DoubleVote(m, n) \/ Surrounds(m, n) \/ Surrounds(n, m)
============================================================================
