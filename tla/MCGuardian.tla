----------------------------- MODULE MCGuardian -----------------------------
(***************************************************************************)
(* Instances of Guardian: two guardians with an enclave key each, or one;  *)
(* key sets with a threshold of 2, or also one with a threshold of 1.      *)
(***************************************************************************)
EXTENDS Guardian, TLC

CONSTANTS e1, e2, g1, g2, s1, s2, signer, other, v1, v2

HomeApart == (e1 :> g1) @@ (e2 :> g2)
HomeOne == e1 :> g1

\* The session s1 runs the validator workload, s2 another one.
TwoWorkloads == (s1 :> signer) @@ (s2 :> other)
NoSessions == <<>>

ThresholdTwo == [v \in KeySets |-> 2]
ThresholdsApart == (v1 :> 1) @@ (v2 :> 2)

\* The guardians with their keys, exchanged.
Twins == (e1 :> e2) @@ (e2 :> e1) @@ (g1 :> g2) @@ (g2 :> g1)

Symmetries == Permutations(KeySets) \cup Permutations(Credentials)
TwinSymmetries == Symmetries \cup {Twins}
=============================================================================
