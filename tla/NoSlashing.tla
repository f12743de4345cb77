----------------------------- MODULE NoSlashing -----------------------------
(***************************************************************************)
(* What a remote signer promises its owner: it hands out signatures, one   *)
(* at a time, and never one that could get the validator slashed together  *)
(* with a signature of the same key handed out before.  Nothing is said    *)
(* about how it remembers them.                                            *)
(***************************************************************************)
EXTENDS SlashingRules

CONSTANT Keys        \* the BLS keys of the signer

VARIABLE released    \* released[k]: the messages signed with k so far

Init == released = [k \in Keys |-> {}]

SignSafely(k, m) ==
  /\ \A n \in released[k] : ~SlashablePair(m, n)
  /\ released' = [released EXCEPT ![k] = @ \cup {m}]

Next == \E k \in Keys, m \in Messages : SignSafely(k, m)

Spec == Init /\ [][Next]_released
=============================================================================
