------------------------------ MODULE MCSigner ------------------------------
(***************************************************************************)
(* Small instances of Signer.                                              *)
(***************************************************************************)
EXTENDS Signer, TLC

CONSTANTS r1, r2

Block(tag, slot, root) ==
  [tag |-> tag, slot |-> slot, source |-> 0, target |-> 0, root |-> root]
Attestation(tag, source, target, root) ==
  [tag |-> tag, slot |-> 0, source |-> source, target |-> target, root |-> root]
Plain(tag) == [tag |-> tag, slot |-> 0, source |-> 0, target |-> 0, root |-> r1]

\* Two blocks of one slot and a later one, two votes for one target and a vote
\* that surrounds both, and a kind that cannot be slashed.
SerialMessages ==
  {Block("BLOCK", 1, r1), Block("block_v2", 1, r2), Block("block", 2, r1),
   Attestation("ATTESTATION", 1, 2, r1), Attestation("attestation", 1, 2, r2),
   Attestation("ATTESTATION", 0, 3, r1),
   Plain("voluntary_exit")}

\* One double proposal, deposits in upper and in lower case.
ConflictMessages ==
  {Block("BLOCK", 1, r1), Block("block_v2", 1, r2), Plain("DEPOSIT"), Plain("deposit")}

HandlerSymmetry == Permutations(Handlers)
=============================================================================
