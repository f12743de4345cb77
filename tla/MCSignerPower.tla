---------------------------- MODULE MCSignerPower ----------------------------
(***************************************************************************)
(* Small instances of SignerPower: two blocks of one slot, a vote, and a   *)
(* block for slot 0 and a vote for epoch 0, which no key ever signs.       *)
(***************************************************************************)
EXTENDS SignerPower, TLC

CONSTANTS r1, r2

Message(tag, slot, target, root) ==
  [tag |-> tag, slot |-> slot, source |-> 0, target |-> target, root |-> root]

PowerMessages ==
  {Message("BLOCK", 1, 0, r1), Message("block_v2", 1, 0, r2),
   Message("attestation", 0, 1, r2),
   Message("BLOCK", 0, 0, r2), Message("ATTESTATION", 0, 0, r1)}

HandlerSymmetry == Permutations(Handlers)
==============================================================================
