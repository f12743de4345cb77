--------------------------- MODULE KeygenPayload ---------------------------
(***************************************************************************)
(* What a validator key generation hands out, struct BlsKeygenPayload, and *)
(* what a guardian checks about it.                                        *)
(*                                                                         *)
(* Cryptography is symbolic.  A BLS signature is the tuple of its key and  *)
(* of what it commits to, a hash is the tuple of its input, and a          *)
(* ciphertext names its recipient, the only one who can open it.  Two such *)
(* values are equal only if all parts are.  The shares of a key set differ *)
(* if its threshold is 2 or more; with threshold 1 they are one and the    *)
(* same, the key itself.                                                   *)
(***************************************************************************)
EXTENDS SequencesExt

CONSTANTS KeySets,        \* BLS key sets, each of one validator
          Threshold,      \* Threshold[v]: the threshold that v is generated for
          EnclaveKeys,    \* secp256k1 keys of guardian enclaves
          Credentials,    \* withdrawal credentials
          Versions,       \* fork versions
          GENESIS_FORK_VERSION,
          Sessions,       \* CVM sessions that validator enclaves run in
          NoEvidence      \* the empty AttestationEvidence::default()

ASSUME GenesisAssumption == GENESIS_FORK_VERSION \in Versions
ASSUME ThresholdAssumption == Threshold \in [KeySets -> Nat \ {0}]
ASSUME NoEvidenceAssumption == NoEvidence \notin Sessions

\* The deposit message is signed under the domain of a fork version; the data
\* root commits to the message and its signature, not to the fork version.
DepositSignature(v, wc, version) == <<v, wc, version>>
DepositDataRoot(v, wc, sig) == <<v, wc, sig>>

\* The i-th key share of v, which its public key stands for: the value at i of a
\* polynomial of degree Threshold[v] - 1.  The code counts from 0, this module from 1.
KeyShare(v, i) == [set |-> v, index |-> IF Threshold[v] = 1 THEN 1 ELSE i]

\* The i-th share of v, encrypted to enclave key e, and what is in such a ciphertext.
Ciphertext(v, i, e) == [set |-> v, index |-> i, to |-> e]
ShareIn(c) == KeyShare(c.set, c.index)

\* distribute_key_shares and encrypt_to_recipient: the i-th share for the i-th key.
EncryptShares(v, to) == [i \in DOMAIN to |-> Ciphertext(v, i, to[i])]

\* build_validator_remote_attestation_payload: what the CVM agent signs.
AttestationPayload(p) ==
  <<p.bls_pub_key_set, p.signature, p.deposit_data_root,
    Zip(p.bls_enc_priv_key_shares, p.guardian_eth_pub_keys)>>

Unattested(v, to, wc, signedVersion, statedVersion) ==
  LET sig == DepositSignature(v, wc, signedVersion) IN
    [bls_pub_key_set |-> v, bls_pub_key |-> v, signature |-> sig,
     deposit_data_root |-> DepositDataRoot(v, wc, sig),
     bls_enc_priv_key_shares |-> EncryptShares(v, to),
     guardian_eth_pub_keys |-> to, withdrawal_credentials |-> wc,
     fork_version |-> statedVersion, evidence |-> NoEvidence]

\* The validator enclave: s is its session, or NoEvidence when the request does
\* not ask for remote attestation or the agent is stubbed.
attest_fresh_bls_key(v, to, wc, version, s) ==
  LET p == Unattested(v, to, wc, version, version) IN
    IF s = NoEvidence THEN p
    ELSE [p EXCEPT !.evidence = [session_id |-> s, signed |-> AttestationPayload(p)]]

\* The library function a client calls to generate a key locally: no evidence, and
\* the payload states the genesis version whatever version the deposit is for.
generate_bls_keystore(v, to, wc, version) ==
  Unattested(v, to, wc, version, GENESIS_FORK_VERSION)

\* A client that has key set v itself need not send what the library made of it.  It
\* can sign another deposit, state any version, and encrypt any of the shares to any
\* enclave keys: share index[i] to key to[i].
own_keygen_payload(v, index, to, wc, signedVersion, statedVersion) ==
  [Unattested(v, to, wc, signedVersion, statedVersion) EXCEPT
     !.bls_enc_priv_key_shares = [i \in DOMAIN to |-> Ciphertext(v, index[i], to[i])]]

----------------------------------------------------------------------------
(***************************************************************************)
(* The checks of a guardian.                                               *)
(***************************************************************************)
\* Mutant: the domain is computed without the fork version of the payload.
DepositUnderGenesis(p) ==
  p.signature =
    DepositSignature(p.bls_pub_key_set, p.withdrawal_credentials, GENESIS_FORK_VERSION)

verify_deposit_message(p) ==
  /\ p.signature = DepositSignature(p.bls_pub_key_set, p.withdrawal_credentials, p.fork_version)
  /\ p.deposit_data_root =
       DepositDataRoot(p.bls_pub_key_set, p.withdrawal_credentials, p.signature)

verify_public_keys_match(p) == p.bls_pub_key_set = p.bls_pub_key

\* Mutant: a share opens for any key.
OpensForAnyone(p, i, e) == ShareIn(p.bls_enc_priv_key_shares[i]) = KeyShare(p.bls_pub_key_set, i)

\* Ciphertext i opens with key e and holds the share that belongs at position i.
decrypt_sk_share(p, i, e) ==
  LET c == p.bls_enc_priv_key_shares[i] IN
    c.to = e /\ ShareIn(c) = KeyShare(p.bls_pub_key_set, i)

\* verify_custody: the positions at which the loop would stop; it takes the first.
CustodyAt(p, e) == {i \in DOMAIN p.bls_enc_priv_key_shares : decrypt_sk_share(p, i, e)}

verify_custody(p, e) == verify_public_keys_match(p) /\ CustodyAt(p, e) # {}

\* Mutant: the name of the file is off by one.
ShareForOffByOne(p, e) ==
  LET c == p.bls_enc_priv_key_shares[Min(CustodyAt(p, e))] IN [set |-> c.set, index |-> c.index - 1]

\* The share that is saved, under the name of its own public key share.
ShareFor(p, e) == ShareIn(p.bls_enc_priv_key_shares[Min(CustodyAt(p, e))])
============================================================================
