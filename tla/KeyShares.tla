----------------------------- MODULE KeyShares -----------------------------
(***************************************************************************)
(* The threshold scheme behind custody: how a validator key is saved, how  *)
(* it is cut into the guardians' shares, and how a client gathers the      *)
(* guardians' exit signatures and puts them together, while the chain goes *)
(* from fork to fork.  The library (blsttc) is modelled by its arithmetic. *)
(*                                                                         *)
(* A secret key set is a polynomial over a prime field, the sequence of    *)
(* its coefficients from the constant one up; the secret key is its value  *)
(* at 0, the share of guardian id its value at id + 1.  Signing is linear  *)
(* in the key, and the points that different messages are hashed to are    *)
(* independent: a signature is represented by the key that makes it for    *)
(* each version the exit may be signed under.                              *)
(***************************************************************************)
EXTENDS Integers, SequencesExt

CONSTANTS Prime,       \* order of the field
          N,           \* number of guardians
          Thresholds,  \* values of the field threshold of a keygen request
          MaxFork      \* bound on the forks of the chain, the first is 0

ASSUME PrimeAssumption ==
  /\ Prime \in Nat /\ Prime > 1 /\ N \in Nat /\ N < Prime
  /\ \A x \in 1..(Prime - 1) : \E y \in 0..(Prime - 1) : (x * y) % Prime = 1
ASSUME ThresholdsAssumption == Thresholds \subseteq Nat \ {0}
ASSUME MaxForkAssumption == MaxFork \in Nat

VARIABLES threshold,   \* of the keygen request
          fork,        \* the fork that the client's beacon node reports
          answers      \* the exit signatures so far: who signed, under which version

vars == <<threshold, fork, answers>>

F == 0..(Prime - 1)
Guardians == 0..(N - 1)
Versions == 0..MaxFork

----------------------------------------------------------------------------
(***************************************************************************)
(* The library: evaluation and interpolation.                              *)
(***************************************************************************)
SumMod(f, S) == FoldFunctionOnSet(LAMBDA x, y : (x + y) % Prime, 0, f, S)
ProductMod(f, S) == FoldFunctionOnSet(LAMBDA x, y : (x * y) % Prime, 1, f, S)

\* From the last coefficient to the first (Horner).
evaluate(p, x) == FoldRight(LAMBDA c, y : (c + x * y) % Prime, p, 0)

InverseMod(x) == CHOOSE y \in F : (x * y) % Prime = 1

\* The signature of the exit message under version v.
sign(sk, v) == [w \in Versions |-> IF w = v THEN sk ELSE 0]

\* Interpolation at 0 through the samples at ids + 1; it uses as many of them, in the
\* order of their ids, as the degree needs, and fails if there are fewer.
NoSignature == <<>>

\* The weight of sample i among the samples I.
Basis(I, i) ==
  ProductMod([j \in I |-> IF j = i THEN 1 ELSE (j + 1) * InverseMod((j - i) % Prime)], I)

combine_signatures(degree, samples) ==
  LET I == 0..degree
  IN  IF I \subseteq DOMAIN samples
      THEN [v \in Versions |-> SumMod([i \in I |-> samples[i][v] * Basis(I, i)], I)]
      ELSE NoSignature

----------------------------------------------------------------------------
\* Mutants: the threshold is passed on as it is; one too many is taken off.
DegreeIsThreshold(t) == t
DegreeTooSmall(t) == IF t > 1 THEN t - 2 ELSE 0

\* attest_fresh_bls_key calls new_bls_key(threshold - 1).
Degree(t) == t - 1

new_bls_key(degree) == [1..(degree + 1) -> F]
KeySetsOf(t) == new_bls_key(Degree(t))

\* distribute_key_shares.
ShareOf(p, id) == evaluate(p, id + 1)

\* What is read back of a key set: all of it from a key file (save_bls_key), the
\* secret key as a set of degree 0 from a keystore (save_bls_keystore).
Saved(p, form) == IF form = "bls_key" THEN p ELSE <<p[1]>>

bls_agg_sign(p, v) == sign(p[1], v)

\* The map is built from the position of each signature in the vector.
aggregate_signature_shares(degree, shares) ==
  combine_signatures(degree, [id \in 0..(Len(shares) - 1) |-> shares[id + 1]])

----------------------------------------------------------------------------
\* Mutant: the exit is signed under the current version of the fork.
CurrentVersion(f) == f

\* The exit is for epoch 0, before any fork but the first: its version is the
\* previous one of the fork that the request states.
ExitVersion(f) == IF f = 0 THEN 0 ELSE f - 1

Init ==
  /\ threshold \in Thresholds
  /\ fork = 0
  /\ answers = <<>>

\* One more guardian signs the exit with its share: sign_voluntary_exit_message.
SignExit(id) ==
  /\ \A k \in DOMAIN answers : answers[k].id # id
  /\ answers' = Append(answers, [id |-> id, version |-> ExitVersion(fork)])
  /\ UNCHANGED <<threshold, fork>>

\* The chain forks while the client gathers the answers.
Upgrade ==
  /\ fork < MaxFork
  /\ fork' = fork + 1
  /\ UNCHANGED <<threshold, answers>>

Next == Upgrade \/ \E id \in Guardians : SignExit(id)

Spec == Init /\ [][Next]_vars

\* The exit signature for the key set p.
Exit(p) ==
  aggregate_signature_shares(Degree(threshold),
    [k \in DOMAIN answers |-> sign(ShareOf(p, answers[k].id), answers[k].version)])

----------------------------------------------------------------------------
ValidExit(v) ==
  \A p \in KeySetsOf(threshold), form \in {"bls_key", "keystore"} :
    Exit(p) = bls_agg_sign(Saved(p, form), v)

\* The first answers, as many as the threshold, are under version v and come from the
\* guardians step - 1, 2 * step - 1 and so on, in this order.
InOrder(step, v) ==
  /\ Len(answers) >= threshold
  /\ \A k \in 1..threshold : answers[k] = [id |-> step * k - 1, version |-> v]

(***************************************************************************)
(* The guardians' aggregate is the exit that the validator's own key would *)
(* sign, whatever the key and in whatever file it was saved, if the first  *)
(* guardians, as many as the threshold, have answered in the order of      *)
(* their ids, all under one version. Every second guardian, or every       *)
(* third, will do too: the weights of the shares are the same.             *)
(***************************************************************************)
InOrderAggregates ==
  \A v \in Versions, step \in 1..N : InOrder(step, v) => ValidExit(v)

\* The first answers are under version v, and each of them weighs as much at its
\* position as the share of its guardian does among these guardians.
Fitting(v) ==
  LET first == 1..threshold
      ids == {answers[k].id : k \in first}
  IN  /\ Len(answers) >= threshold
      /\ \A k \in first :
           /\ answers[k].version = v
           /\ Basis(0..(threshold - 1), k - 1) = Basis(ids, answers[k].id)

(***************************************************************************)
(* Which answers aggregate to a valid exit, whatever the key: those that   *)
(* weigh the same by position as by guardian, all under one version. Such  *)
(* are, for a threshold of 4, those of the guardians 0 to 3 with 0 and 2   *)
(* exchanged, but hardly any others than the ones in order.                *)
(***************************************************************************)
OnlyFittingAggregate == \A v \in Versions : ValidExit(v) <=> Fitting(v)

\* All but one of the first answers come from the guardians whose positions they have.
OneOutOfPlace ==
  \E k \in 1..threshold :
    /\ answers[k].id # k - 1
    /\ \A j \in 1..threshold : j # k => answers[j].id = j - 1

MixedVersions == \E j, k \in 1..threshold : answers[j].version # answers[k].version

(***************************************************************************)
(* A client that leaves out one guardian and takes another one's answer    *)
(* instead, or that mixes answers from before and after a fork, has no     *)
(* valid exit, though each answer verifies by itself and there are as many *)
(* as the threshold. (With a threshold of 1 any answer is an exit.)        *)
(***************************************************************************)
StrayAnswerSpoils ==
  Len(answers) >= threshold /\ ((threshold > 1 /\ OneOutOfPlace) \/ MixedVersions)
    => \A v \in Versions : ~ValidExit(v)

(***************************************************************************)
(* The first fork does no harm, whenever it comes while the answers are    *)
(* gathered: an exit is signed under the genesis version before it and     *)
(* after it.                                                               *)
(***************************************************************************)
FirstForkHarmless ==
  fork <= 1 /\ Len(answers) >= threshold /\ (\A k \in 1..threshold : answers[k].id = k - 1)
    => ValidExit(0)

(***************************************************************************)
(* Fewer guardians than the threshold can neither sign an exit nor learn   *)
(* anything of the key: for any two secrets there are key sets with the    *)
(* same shares, that is, one with the difference that has shares of 0.     *)
(***************************************************************************)
BelowThresholdNothing ==
  Len(answers) < threshold =>
    /\ \A p \in KeySetsOf(threshold) : Exit(p) = NoSignature
    /\ \A secret \in F : \E p \in KeySetsOf(threshold) :
         p[1] = secret /\ \A k \in DOMAIN answers : ShareOf(p, answers[k].id) = 0

(***************************************************************************)
(* Any guardians, as many as the threshold, can sign an exit together, if  *)
(* they all sign under one version: the comment on keygen has it that "t + *)
(* 1 signature shares can be combined into a full signature".              *)
(***************************************************************************)
AnyThresholdAggregates ==
  Len(answers) >= threshold => fork > 1 \/ ValidExit(0)
============================================================================
