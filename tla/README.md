# TLA+ model of validator-guardian

This directory holds TLA+ models of the enclave programs of validator-guardian,
TLC configurations that check them on small instances, and TLAPS proofs for every
instance. Definitions keep the names of the code where TLA+ allows it.
`PROJECT.json` maps each definition to the source lines it stands for and lists
runs, mutants, hazards, findings and theorems.

To repeat the checks: `tlc -config MCSignerSerial.cfg MCSigner` (and likewise for
the other configurations, see the table of runs) and `tlapm M.tla` for
`SlashProtectionProofs`, `SlashHistoryProofs`, `SignerProofs`, `SignerPowerProofs`,
`GuardianProofs`, `KeySharesProofs`, `EnclaveKeysProofs` and `SigningRootsProofs`.

## 1. Inventory of the system

Three servers, `validator`, `secure-signer` and `guardian`, run in confidential
VMs. Each is an axum router on a multi-threaded tokio runtime. None keeps shared
memory between requests: **all state is in files**, read and written with
`fs::read` and `fs::write`, without a lock, a rename or an `fsync`.

| Component | State | Operations | Correct if |
| --- | --- | --- | --- |
| Slashing protection data (`eth2/slash_protection.rs`) | one file per key: last block slot, last attestation epochs | check, record, read, write | nothing it accepts is slashable together with anything it accepted before; forgetting old entries changes no decision |
| Signing route (`enclave/shared/mod.rs`) | the above and the key file | `sign_validator_message`: check, update, write, sign | no two released signatures slash the validator; recorded before released; refusals have a reason |
| BLS key generation (`enclave/validator/mod.rs`, `enclave/secure_signer/mod.rs`) | key file, then empty database | generate, save, attest, encrypt shares to guardians | a key never signs without its database; the payload commits to what the guardians check |
| Deposit route (`secure_signer/handlers/validator_deposit.rs`) | none | sign a deposit with a saved key | only for keys that are complete |
| Guardian (`enclave/guardian/mod.rs`) | enclave ETH key files, key share files | `attest_new_eth_key_with_blockhash`, `verify_and_sign_custody_received`, `sign_voluntary_exit_message` | approvals mean that shares are in custody and can sign exits, distinct ones if an enclave made them for a threshold above 1; shares reach only their recipients; attested approvals cover attested payloads only |
| Threshold key shares (`crypto/bls_keys.rs`) | none | save, load, distribute, aggregate | the threshold is exact; what the guardians sign together is what the key itself would sign |
| Local key generation (`client/keygen.rs`) | keystore file | the payload of the enclave, without it | guardians accept its deposit |
| Session registry client (`io/session_registry.rs`) | none, a contract outside | verify a session signature, read a session's workload | a session that was revoked before a request backs no approval |
| CVM agent client, attestation evidence (`io/cvm_agent.rs`, `io/remote_attestation.rs`) | none, a service outside | sign a payload with the session key | evidence ties a payload to its session |
| ETH keys of secure-signer (`enclave/secure_signer/mod.rs`) | key file | generate, save, attest | a key that was handed out is complete on the disk |
| Key files, listing routes (`io/key_management.rs`, `enclave/shared/handlers`) | files and directories | write, read, list | a listing shows every complete key, and does not fail once there is one |
| HTTP clients (`client/*.rs`) | none, or one call in work | key generation, listing, custody, exits | a key that a client received is complete; calls end |
| Signing roots and domains (`eth2/eth_signing.rs`, `eth2/eth_types.rs`) | none | signing root of each kind of message | the root commits to kind, content and domain |
| Health route, keystore import, mock clients, command line tool | none | | |

How they interact: a client asks guardians for enclave keys; it asks a validator
enclave (or the library, locally) for a BLS key whose shares are encrypted to these
keys; it sends the payload to each guardian, which may look at the session evidence
on chain, checks the deposit and its share, stores the share and approves; consensus
clients send blocks and attestations to the signing route; at the end, guardians
sign a voluntary exit and the client aggregates the signature shares.

What is hard here, and what the properties are aimed at:

- **interleaving**: every request is a sequence of file accesses, and two requests
  for one key may take turns at any of them;
- **atomicity and crashes**: `fs::write` truncates before it writes, and a process
  or a machine may die in between, or after the write and before the data is on disk;
- **stale state**: the database is read for the check and again for the update;
- **forgetting**: the database keeps one block and one attestation;
- **partial failure**: keys, databases and shares are saved step by step, and an
  error in the middle leaves the earlier files behind;
- **what evidence covers**: a payload has nine fields, the attestation covers
  some, the deposit signature others, and the guardian has to tie them together;
- **numbering**: shares are numbered by position, on the way out and on the way in;
- **forks in between**: the fork is stated by the client with each request, and may
  have changed between two guardians' answers;
- **lost answers**: a client that sees its connection break does not know whether its
  key was generated, and neither side sets a timeout.

The list of hazards in `PROJECT.json` names each at its line.

## 2. Modules

    SlashingRules     messages, tags, consensus slashing rules
      NoSlashing      abstract promise of a remote signer
      SlashProtection the database of one key, as a value
        SlashHistory  one-entry database next to a growable one      (MCSlashHistory)
        Signer        signing, key generation and deposits on files  (MCSigner)
          SignerPower the signer on a machine that can lose power    (MCSignerPower)
        SlashProtectionProofs, SlashHistoryProofs, SignerProofs, SignerPowerProofs
    Custody           abstract promise of the guardians
    KeygenPayload     the keygen payload and the guardian's checks
      Guardian        the guardian enclaves and what surrounds them  (MCGuardian)
        GuardianProofs
    KeyShares         Shamir sharing over a prime field, and gathering of exits
      KeySharesProofs
    EnclaveKeys       key generation and listing routes, and their clients
      EnclaveKeysProofs
    SigningRoots      domains and signing roots across forks         (MCSigningRoots)
      SigningRootsProofs

**SlashingRules, SlashProtection.** A message is its serde tag, its slot or its
epochs, and a signing root that stands for everything else a signature commits to.
`IsSlashable` is `is_slashable`; `UpdateBails` and `Updated` are
`update_slash_protection_db` with `new_block` and `new_attestation`, which repeat
the check on the data they read. The optional signing root of an entry is stored by
the code and never read, so it is left out. The consensus rules (`SlashablePair`)
are stated apart from the program.

**Signer.** `keyFile` and `dbFile` are the two files of a key; `pc`, `key`, `msg`,
`data` what a request in work holds in memory; `released` and `recorded` are history.
Each step of a handler ends at a file access: `Check` (first read), `Update` (second
read), `Open` and `Write` (the two halves of `fs::write`), `Sign` (read of the key
file); `CreateKey`, `WriteKey`, `OpenNew`, `WriteNew`, `Attest` for key generation.
A write into a file that another writer has filled since the truncation may leave
the tail of a longer text behind (`WriteOutcomes`). `Crash` keeps the files and
drops every request; `IoError` and `WriteError` are a failed read or open, and a
write that fails after the truncation; `HangUp` cancels key generation at its only
await. The signing route has no await, so nothing cancels it.

**SignerPower** adds what is on the disk: the kernel writes files back when it likes,
and a loss of power brings back what the disk has. Two more variables remember whether
that has set back a slashing protection file (`lostDb`) and whether two requests have
been signing with one key at a time (`raced`).

**NoSlashing** is the abstract specification: one action, releasing a signature that
is not slashable together with an earlier one. `Signer` with serial requests
implements it (`INSTANCE NoSlashing WITH released <- released`).

**KeygenPayload** treats cryptography symbolically: a signature is the tuple of its
key and of what it commits to, a hash the tuple of its input, a ciphertext names its
only reader. What commits to what is taken from the code: the deposit signature
covers key, credentials and fork version; the data root covers key, credentials and
signature; the attested payload covers key, signature, data root, shares and guardian
keys. Malformed hex and wrong lengths, answered before any state changes, are out.
Shares are compared as the code compares them, by their public key: those of a key set
are the values of a polynomial, so they differ if its `Threshold` is 2 or more, and with
threshold 1 they are one and the same at every position, under one file name (`KeyShare`).

**Guardian.** `ethFile` and `shareFile` are files, `made` the payloads made so far: by
an enclave (`ValidatorKeygen`), by the library (`LocalKeygen`), or by a client out of a
key that the library generated for it (`OwnKeygen`). Such a client has all shares: it may
encrypt any of them to any enclave keys, in several payloads, and sign and state what it
likes. Clients send a payload as made, or with up to `MaxForeign` of its fields taken from
another one, or with the shares reversed, and repeat requests as they like. A guardian's answer leaves no trace in the guardian, so
an answered handler is idle at once. The registry is asked twice, for the signature
(`VerifySession`) and for the workload (`GetSession`); a session may be revoked at any
moment (`Revoke`), and a request counts as `late` if its session had been revoked when
it came. `HangUp` cancels a handler at one of its remote calls, `CallError` and
`WriteError` fail a call or a file access, `Crash` takes one guardian down.

**Custody** is what guardians promise together, without payloads, files or requests:
which share was dealt to which enclave key, who holds which share, which approvals stand
for which share, which shares have signed exits. A guardian holds only what was dealt to a
key of its own, and approves only what it holds. Some shares are `sole`: for one enclave
key only. In `Guardian`, `Promise == INSTANCE Custody WITH ...` maps `dealt` to `Dealt`
(the ciphertexts in the payloads made so far), `sole` to the shares of keys that a
validator enclave generated for a threshold of 2 or more, `held` to `Holdings` (the file is
complete, or a request that has truncated it has the share in memory), `granted` to the
approvals, cut down to key and share, and `damaged` to `faults > 0`. A truncation by a
repeated request is a stutter of `Custody`; only a fault may lose a share. That shares of
other keys are sole is not promised, and is not so: with threshold 1 two honest guardians
hold one share, and a client may give one share of its own key to all guardians. The
approvals of several guardians for such a key can mean a single share.

**SigningRoots** has `to_signing_root` for every kind of message, with a beacon chain
that goes through its forks and a client whose copy of the fork may lag. SSZ roots are
opaque and common to all kinds: containers of one shape have one root, and the bytes a
sync committee message signs are the client's choice, so that only the domain can keep
the kinds apart. The other modules take signing roots as opaque values.

**KeyShares** computes with polynomials over a field of `Prime` elements: a key set is
the sequence of a polynomial's coefficients, guardian `id` holds its value at `id + 1`
(`evaluate`, from the last coefficient to the first, as the library does), and a
signature is represented by the key that makes it, since signing is linear in the key, with one component for
each version an exit can be signed under. `aggregate_signature_shares` numbers shares by
their position, as the code does. `Saved` is what is read back of a key from either kind
of file. The client gathers `answers` one guardian at a time while the chain may fork in
between (`Upgrade`); an exit is for epoch 0, so that its version is the previous one of
the fork the request states (`ExitVersion`).

**EnclaveKeys** has the routes that generate and list keys, for whichever of the three
servers runs (`program`), with the clients in front of them. Key generation is a step per
file access, as in `Signer`, with the directory made first; a listing opens its directory
(`OpenDir`, an error as long as there is none) and reads it, and may or may not see names
that appear meanwhile (`ReadDir`). A client has one call at a time and waits for it
(`client`) until the answer comes (`Receive`) or the connection breaks (`GiveUp`); the
server drops the handler of a broken connection at its await or when it has answered
(`Cancel`). `got` holds the responses, `heard` every key a client got or saw listed. A
handed-out ETH key has its uncompressed form, a listed one its compressed form; `got`
keeps the form that tells them apart.

## 3. What the runs check

| Run | Configuration | Result | What it shows |
| --- | --- | --- | --- |
| `slash_history` | `MCSlashHistory.cfg` | holds | slots and epochs 0..3, two roots, every order of offers, source after target too: nothing accepted is slashable with anything ever accepted (`AcceptedNeverSlashable`), the one-entry database decides as a growable one (`CompactRefusesAsFull`), and a key is blocked for good only by a message for the last slot or epoch there is (`BlockedOnlyByLast`; the code does not compare source and target with each other) |
| `signer_serial` | `MCSignerSerial.cfg` | holds | two handlers, one key, one fault, one signing request per key at a time: `NoSlashableOffence`, `RecordedStaysCovered`, the refinement `ImplementsNoSlashing`, the inductive invariant `SerialInv`; a key that has lost its database never signs again (`BrickedStaysBricked`); the liveness property `FreshRequestSigned` and its safety half `FreshStaysOnCourse` |
| `signer_double_sign` | `MCSignerDoubleSign.cfg` | **violated** | two handlers that may both sign with one key: `NoSlashableOffence` fails, finding 1 |
| `signer_deposit` | `MCSignerDeposit.cfg` | **violated** | finding 2 |
| `power_holds` | `MCSignerPower.cfg` | holds | racing requests and two losses of power or other faults: nothing is slashable unless requests raced or a database file was set back (`SafeUnlessDbLost`); nothing is released before its record is written (`RecordedBeforeReleased`), and refusals stay justified (`RefusalJustified`), with a block for slot 0 and a vote for epoch 0 among the requests. The code does not sync the file before it releases the signature, so a loss of power can set it back, and then the same slot is signed again |
| `guardian_mixed` | `MCGuardianMixed.cfg` | holds | two guardians, key sets, credentials, fork versions and sessions, one of them revocable; payloads of one share, mixed from two, each an enclave's, the library's or one that a client with the key makes up, who may encrypt its share to both guardians: an attested approval covers one attested payload and nothing else (`ApprovalsAttested`), and none rests on a session revoked before the request came (`NoLateApproval`); shares reach only those that they were encrypted to (`SharesAtRecipients`) |
| `guardian_custody` | `MCGuardianCustody.cfg` | holds | two guardians, two handlers, a key for threshold 1 or for threshold 2 from an enclave or the library, up to two shares, repeated keys, reordered shares, a fault: approvals stand for shares on disk, and for different ones where the shares of a key differ (`ApprovalsBackedByShares`), `PublishedKeysKept`, the refinement `ImplementsCustody`, also where two guardians hold one share; a share is lost only by a crash of its own guardian or a failed write of this share (`HeldSharesKept`); the liveness properties `GenuineCustodyApproved`, with its safety half `GenuineStaysOnCourse`, and `ApprovedSharesCanExit` |
| `guardian_local_fork` | `MCGuardianLocalFork.cfg` | **violated** | finding 3 |
| `signing_roots` | `MCSigningRoots.cfg` | holds | three forks, the middle one a single epoch long, two chains, two signatures: a signature serves one purpose only (`KindsApart`), has the domain of the fork in force in its epoch when the client's view is at most one fork off (`VerifiesOnChain`), and is the one the database keeps (`RecordedRootSigned`) |
| `key_shares` | `MCKeyShares.cfg` | holds | field of 7, five guardians, thresholds 1 to 4, every polynomial, every order of answers, two forks in between: the first guardians in order, or every second or third one, make the exit of the saved key (`InOrderAggregates`); answers make one if and only if each weighs as much by its position as by its guardian (`OnlyFittingAggregate`); a single answer out of its place or under another version spoils it (`StrayAnswerSpoils`), the first fork spoils nothing (`FirstForkHarmless`), fewer than the threshold make no signature and their shares agree with every secret (`BelowThresholdNothing`) |
| `key_shares_any_order` | `MCKeySharesAnyOrder.cfg` | **violated** | finding 4 |
| `enclave_keys` | `MCEnclaveKeys.cfg` | holds | each of the three servers, one ETH key and two BLS keys, two handlers, a client that calls, gives up and calls again, one fault: a key that was received is complete for good (`ReceivedKeysComplete`), without faults a listed key is complete or in work (`ListedKeysComplete`), a key once begun is finished though its client hangs up, and stays complete (`KeysGetFinished`), a listing shows all keys heard of before (`ListingsComplete`), and a call ends unless the CVM agent stays silent (`CallsEnd`) |

**Why the bounds are enough.** A slashable pair needs two messages of one key, and an
interleaving that goes wrong needs two handlers; the message sets hold a double
proposal, a double vote and a surround vote, with upper and lower case tags. One fault
interrupts any one step; the proofs remove the bound. A third handler, a second key or
more faults are covered by the theorems. A payload mixed from two needs two, one foreign
field at a time shows which field is bound by nothing (`GuardianProofs` has no bound on
them), and one revocable session next to one that stays shows the order of revocation
and request. `MaxPayloads` bounds what is made: one payload for the run with faults and two
handlers, two where payloads are mixed or a client follows the library's payload with one of
its own. `MaxApprovals` stops new custody requests after two different approvals, as many as
`ApprovalsBackedByShares` compares; requests that repeat an approved one go on while there is
but one approval, and two handlers can be at work when it is given. The theorems are for
every value of both. With five guardians and thresholds up to 4, answers can leave one guardian
out, skip every second one and be reordered, also in the one way that does no harm:
guardians 0 and 2 exchanged among four. A field of 7 has a distinct point for each
guardian and 0; the theorems are for every field. Two forks are needed before the previous version of a fork changes. In
`EnclaveKeys` one client that has given up a call leaves its handler behind and makes
the next call next to it: two handlers interleave, and with a second BLS key a listing
meets a complete key and one in work.

**Symmetry** (over handlers, key sets, credentials, guardians with their keys) is used in safety runs only.

**Deadlock** is not checked in the guardian, key share and enclave key runs: the finite
supply of enclave keys, key sets or guardians runs out there and everything is done. In
the signer runs a request can always arrive, and deadlock is checked.

**Fairness.** `FairSerialSpec` and the `FairSpec` of `Guardian` and `EnclaveKeys` assume
weak fairness of `Step(h)`, the steps a handler takes by itself: each handler is driven
by a thread of its own in a multi-threaded runtime, and no handler holds a lock or waits
for another. `EnclaveKeys` also assumes it of `Receive(h)`: an answer that was given
reaches its client, unless the connection breaks first. Nothing is assumed of clients, of
the CVM agent or of the registry: no timeout is set on either side, so `CallsEnd` excepts
a handler that waits for the agent. The liveness properties of the signer and the
guardians end in "or a fault has happened".

Mutants (operators marked so in the modules) are plausible bugs in single definitions;
`PROJECT.json` names for each property one that breaks it.

## 4. What is proved

TLAPS proves, for any sets of keys, handlers, clients, messages, guardians, sessions and
forks, any prime field and threshold, and any number of payloads and faults:

| Module | Theorem | Statement |
| --- | --- | --- |
| `SignerProofs` | `TypeCorrect` | `Spec => []TypeOK`, with at most one block and one attestation in every database |
| | `SerialInvariant` | `SerialSpec => [](TypeOK /\ SerialInv)` |
| | `SerialSafety` | `SerialSpec => []NoSlashableOffence` |
| | `SerialCoverage` | `SerialSpec => []RecordedStaysCovered` |
| | `SerialRefinement` | `SerialSpec => ImplementsNoSlashing` |
| | `RecordingPrecedesRelease` | `Spec => []RecordedBeforeReleased` |
| | `RefusalsAreJustified` | `Spec => []RefusalJustified` |
| | `BrickedForGood` | `Spec => BrickedStaysBricked` |
| | `FreshNotTurnedDown` | `SerialSpec => FreshStaysOnCourse` |
| `SignerPowerProofs` | `OnlyLostDbHarms` | `PowerSpec => []SafeUnlessDbLost` |
| | `PowerRecordsFirst` | `PowerSpec => []RecordedBeforeReleased` |
| | `PowerRefusalsJustified` | `PowerSpec => []RefusalJustified` |
| `SlashHistoryProofs` | `HistoryTypes` | `Spec => []TypeOK` |
| | `NeverSlashable` | `Spec => []AcceptedNeverSlashable` |
| | `ForgettingCostsNothing` | `Spec => []CompactRefusesAsFull` |
| | `OnlyLastBlocks` | `Spec => []BlockedOnlyByLast` |
| `GuardianProofs` | `GuardianTypes` | `Spec => []TypeOK` |
| | `VerifiedApprovals` | `Spec => []ApprovalsAttested` |
| | `RevokedBefore` | `Spec => []NoLateApproval` |
| | `OnlyRecipients` | `Spec => []SharesAtRecipients` |
| | `ApprovalsAreBacked` | `Spec => []ApprovalsBackedByShares` |
| | `PublishedKept` | `Spec => []PublishedKeysKept` |
| | `CustodyImplemented` | `Spec => ImplementsCustody` |
| | `HeldUntilOwnFault` | `Spec => HeldSharesKept` |
| | `GenuineNotTurnedDown` | `Spec => GenuineStaysOnCourse` |
| | `LocalAcceptedUnderGenesis` | the deposit check accepts a locally generated payload exactly if it was signed under the genesis version |
| `KeySharesProofs` | `KeySharesTyped` | `Spec => []KeySharesInv` |
| | `AnySharesRecover` | the shares of any guardians, as many as the coefficients, interpolate to the secret key if each has its own number |
| | `InOrderSuffices` | `Spec => []InOrderAggregates` |
| | `WeightsDecide` | `Spec => []OnlyFittingAggregate` |
| | `StraySpoils` | `Spec => []StrayAnswerSpoils` |
| | `GenesisForkHarmless` | `Spec => []FirstForkHarmless` |
| | `FewerLearnNothing` | `Spec => []BelowThresholdNothing` |
| `EnclaveKeysProofs` | `EnclaveTypes` | `Spec => []TypeOK` |
| | `ReceivedComplete` | `Spec => []ReceivedKeysComplete` |
| | `ListedComplete` | `Spec => []ListedKeysComplete` |
| | `ListingsMissNothing` | `Spec => []ListingsComplete` |
| | `KeysFinished` | `Spec => KeysGetFinished` |
| `SigningRootsProofs` | `PurposesSeparated` | `Spec => []KindsApart` |
| | `SignaturesVerify` | `Spec => []VerifiesOnChain` |
| | `RecordsWhatIsSigned` | `Spec => []RecordedRootSigned` |

Assumptions on the constants: `Messages` are well-formed requests (`MessagesAssumption`);
`NoKey` and `NoMessage` are no key and no message; every enclave key has a guardian
(`HomeAssumption`), every session a workload (`WorkloadAssumption`), only sessions are
revoked (`RevocableAssumption`); `NoEvidence` is no session; the genesis version is a
version; ETH and BLS keys are apart (`KindsAssumption`) and `Nobody` is no client; an
epoch has a slot, and the forks are a sequence in the order of their epochs
(`ScheduleAssumption`); there is a last slot and a last epoch, as in `u64`, and clients can
send a block for the one and a vote for the other from the epoch before it
(`LastAssumption`); every field element but 0 has an inverse, and there are fewer guardians
than elements (`PrimeAssumption`; the field of BLS12-381 has about 2^255); thresholds are
positive (`ThresholdAssumption`); bounds are natural numbers.

**Signing.** `NoSlashableOffence` is not inductive: it says nothing of what a handler is
about to write or of what the file has. `SerialInv` adds that a readable database covers
every recorded message (`RecordedStaysCovered`); that the content a handler is about to
write covers them too, and that its message is slashable with none of them
(`PendingWriteSafe`); that a handler which signs has recorded (`SignsRecorded`); that
recorded messages are pairwise harmless (`RecordedNeverSlashable`); and that while a key
has no database file, or a key generation has not yet written it, nothing has been
recorded for the key, so that its empty database forgets nothing (`UnbornUntouched`). The discipline
`OneSignerPerKey` is what makes `PendingWriteSafe` inductive: between the second read and
the write nobody else records. It is an assumption on clients; the code does not enforce
it, and finding 1 is what happens without it. For arbitrary interleavings `RaceInv` is
inductive: every watermark that is in a file or about to be written has its reason in a
recorded message or is 0, a handler that signs has recorded, and a 412 answer is
justified.

`FreshStaysOnCourse` follows from `SerialInv` too. Between the two reads the file of the
key stays as it was, since one handler at a time signs with a key and a key generation
makes a new one (`AloneOnCourse`); and what `is_slashable` lets through, the checks of the
update let through as well (`CheckAgreesWithUpdate`). With racing requests a request may
pass the first and fail the second.

**Loss of power.** `PowerInv` puts the two together: the watermarks on the disk have their
reasons too, since the disk has what the files had once (`DiskJustified`), so that a loss
of power keeps `RaceInv`; and as long as no database file was set back and no requests
raced, `SerialInv` holds. It survives such a loss because it says nothing of key files,
which may be set back at will.

**The database.** `SlashProtectionProofs` holds the lemmas about a list of at most one
entry: what its latest slot and epochs are, and that an update moves no watermark back.
`HistoryInv` says of the compact database that its watermarks bound everything accepted
(`CompactCovers`) and everything the growable one keeps (`FullBelow`), and that they are
the growable one's (`SameWatermarks`). The growable list needs no induction: appending
adds one element to its range, and a new entry is the largest. `BlockedOnlyByLast` needs
the converse of `CompactCovers`: every watermark above 0 comes from an accepted message
(`SlotAttained`, `EpochsAttained`), so that a database which refuses every block, or every
sound vote, has accepted one for the last slot or epoch.

**Guardians.** `GuardianInv` follows the data. Payloads that were made have a shape, with
evidence over their own fields, and there is no other payload of a key that an enclave
generated (`MadeInv`). Whatever clients mix, every ciphertext of a request stems from a
payload that was made (`Traceable`), and so does the evidence (`EvidenceGenuine`);
after the registry's answer the evidence covers the request, after the checks the share
in memory was encrypted to the enclave key (`RequestsInv`). Hence a share is only on
disks entitled to it (`FilesInv`), every approval stands for such a share and is backed by
it (`ApprovalsTraced`), and two handlers never write the file of one enclave key
(`KeygenInv`). The refinement proof takes each kind of step that touches a share file, an
approval or an exit (`NextCases`) to a step of `Custody`; a payload that is made deals
shares (`DealsAreShares`). That a share is for one enclave key only (`OneKeyPerShare`) needs
both conditions: if the threshold is 2 or more, a share tells the position it was encrypted
at, and if an enclave generated the key, its payload is the only one to encrypt it. Without
either it does not hold, and neither `ApprovalsAreBacked` nor `CustodyImplemented` says so. What it needs of cryptography is
in the symbolic terms: a signature determines what was signed.

In the refinement a single fault anywhere lets `Custody` lose shares. `HeldSharesKept` is
sharper: a guardian loses a share only by its own crash or a failed write of this share. It
rests on the file name: whoever truncates the file under a held share is about to write the
same share again, and the share counts as held while such a handler is at work.
`GenuineStaysOnCourse` needs in addition that a validator enclave states the fork version it
signed under (`EnclavePayloadAccepted`), and that a request in memory is not changed by
others. For a locally generated payload `LocalAcceptedUnderGenesis` gives the exact extent
of finding 3: only the genesis version passes.

**Key shares.** The state is simple: each guardian has answered once, and no answer is under a later version than that of an
exit for the last fork seen (`KeySharesInv`), and before the second fork this leaves only
the genesis version. The arithmetic is not. Sums, products and polynomials are folds of
the library; that each obeys its recursion, and that sums and products may be taken in any
order, is proved once for folds over finite sets (`FoldDefined`, `FoldAgrees`,
`FoldAnyOrder`), by induction on the size of the set. The library's induction theorems take
an operator as parameter, which the provers cannot instantiate; `NatSet` and
`SubsetInduction` take the set of the good numbers, or of the good subsets, instead. With `Null(a - b)` for congruence,
`NodeAway` relates the interpolation over a set of nodes to the one without a node: times
the nodes, the values interpolate to `s + 1` times the difference of the two. From this it
follows by induction that the weights add up to 1 (`WeightsAddUp`), and that the values of
a polynomial interpolate to its first coefficient if there are as many nodes as
coefficients (`Interpolation`; Horner's scheme takes off a coefficient and `NodeAway` a
node). For fewer guardians `Vanishing` builds, one guardian at a time, a polynomial with a
given secret and shares of 0. `AnySharesRecover` shows what finding 4 is about: any
guardians' shares would do if they were numbered by their guardians.

`OnlyFittingAggregate` is exact. What the aggregate does to a share is to multiply it with
the weight of its position; what would be right is the weight of its guardian
(`SumRenamed`, `ProductRenamed` carry the one numbering over to the other). If the weights
agree the exit is valid (`FittingSuffices`). If it is valid for every key, take the key set
under which one of the guardians has a share of 1 and the others have 0, which `Vanishing`
builds: its secret is the weight of that guardian (`OwnWeight`), its aggregate the weight of
the position, so the two agree (`FittingNeeded`). No weight is 0 (`WeightNotNull`), so an
answer under another version is missed; and if just one guardian is out of its place, the
weight of every other one has changed (`OutOfPlaceUnfit`).

**Enclave keys.** A key belongs to the one handler that generates it, whose step tells how
far its files are (`KeygenInv`); nobody else touches them, and no file becomes absent
again (`FilesInv`). Hence a key that is there is complete or in work unless there was a
fault (`PresentInv`), and a received key stays complete. `KeysGetFinished` says what the invariant
is for: from the first file on a handler leaves its key only complete, or by a fault of its
own, whatever became of its client, and a complete key is never touched again. A listing has, once it has
opened the directory, every key that was heard of before the call (`ListInv`).

**Signing roots.** `KindsApart` and `RecordedRootSigned` rest on one inductive invariant:
every signature carries the domain type of its kind and its own chain (`Shaped`); that the
domain types differ is a lemma about the constants. `VerifiesOnChain` needs that the
client's copy of the fork was the chain's at some time (`ViewInv`) and that the domain was
computed from it (`Dated`); the rest is about the schedule: `ForkIndex` finds the fork
that has begun with all later ones to come (`ForkInForce`).

**Only model-checked**: the liveness properties (`FreshRequestSigned`,
`GenuineCustodyApproved`, `ApprovedSharesCanExit`, `CallsEnd`). Liveness under fairness is
outside what TLAPS can prove here. What could go wrong on the way is a matter of safety, and
that is proved: `FreshStaysOnCourse` for the first, `GenuineStaysOnCourse` for the second,
and for the third `HeldSharesKept`, by which the share of an approval is still there.
What stays with TLC is that a handler whose step is enabled takes it in the end, and that a
step is enabled wherever it waits for none but the CVM agent or the registry.

## 5. Findings

1. *Two concurrent requests for one slot can both be signed.* `is_slashable` and
   `update_slash_protection_db` read the file separately and nothing locks it
   (`enclave/shared/mod.rs`), although the program is there "to prevents slashable
   offenses" (`docs/index.md`).
2. *The signing route signs deposits* sent under the tag `deposit`: only the variant
   `DEPOSIT` is turned away with "Signing deposit message not allowed".
3. *A locally generated payload for another fork version fails the guardian's deposit
   check*: `generate_bls_keystore` signs under the fork version of the request and
   states `GENESIS_FORK_VERSION` in the payload. It passes under the genesis version and
   no other (`LocalAcceptedUnderGenesis`). The test that is quoted uses the genesis version,
   where nothing goes wrong; other versions are in no test.
4. *Signature shares of other than the first guardians, or in another order, aggregate to a
   wrong signature*: `aggregate_signature_shares` numbers them by position in the vector.
   The exceptions are those of `OnlyFittingAggregate`.

## 6. Not modelled

- The health route, which answers 200 and reads nothing.
- The command line tool under `src/src/cli`: no module declares it.
- The mock clients: queues of prepared answers for tests of other programs.
- Keystore import (`crypto/keystore.rs`) and the encryption of the keystore file: pure
  cryptography. A keystore is read back as the secret key it was made from.
- The interchange type `SlashingProtectionDB`: it has no caller.
- SSZ encoding and tree hashing: libraries; roots are opaque values. The special rule by
  which the chain verifies voluntary exits in its later forks is not in this repository;
  guardians sign exits for epoch 0 under the fork the request states.
- What happens inside the CVM agent and the session registry contract: external, they
  answer, fail or stay silent. The type of the session key is dropped when the payload is
  built (`enclave/validator/mod.rs:128`) and the guardian takes it for secp256k1; what the
  registry makes of a wrong type is decided outside this repository.
- What `blsttc` makes of an empty or torn share file in `sign_voluntary_exit_message`:
  its source is not here; the model counts no valid exit signature then.
- Polynomials that a client makes up so that two shares of its key, or shares of two keys,
  coincide: `KeyShare` has them different from threshold 2 on. For random polynomials, as
  `new_bls_key` makes them, they differ but for a negligible chance; for a client's own keys
  nothing is claimed that rests on it.
- A threshold of 0, which panics before anything is saved. No code refuses a threshold
  above the number of guardians either; the runs have none, the theorems of
  `KeySharesProofs` cover it (no exit can be aggregated then).
- The width of slots and epochs: the code compares and stores `u64` and never adds, so
  nothing overflows. What a message for the largest value does is in `BlockedOnlyByLast`.

## 7. Plan

Done: slashing protection, the signing route and loss of power; keygen payload, guardians
and their abstract custody; key shares and the gathering of exits; signing roots; key
generation, listings and their clients; proofs of all safety properties of these.

What would come next: key generation, custody and exit end to end in one module, with
`KeyShares` for the last step; today they meet in the shares that `Guardian` and
`KeyShares` both name.
