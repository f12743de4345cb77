---------------------------- MODULE SigningRoots ----------------------------
(***************************************************************************)
(* What a signature commits to: the signing root of each kind of message,  *)
(* made of the message's SSZ root and of a domain that depends on the kind *)
(* and on the fork the message belongs to.                                 *)
(*                                                                         *)
(* The client sends its view of the fork with every request and may lag    *)
(* behind the chain.  SSZ roots are opaque, and every kind may have every  *)
(* root: containers of one shape have one root, and the root under a       *)
(* SYNC_COMMITTEE_MESSAGE is chosen by the client.  Hashes are the tuples  *)
(* of their inputs.                                                        *)
(***************************************************************************)
EXTENDS Integers, Sequences, FiniteSets, FiniteSetsExt

CONSTANTS Objects,          \* SSZ roots of messages
          Chains,           \* genesis validators roots
          ZeroRoot,         \* Root::default()
          Schedule,         \* the chain's forks, [version, epoch], oldest first
          SLOTS_PER_EPOCH,  \* 32 in the code
          GENESIS_FORK_VERSION,  \* the default for a missing version
          genesis_fork_version,  \* the version the server was started with
          MaxSlot,          \* bound on the chain's clock
          MaxSignatures     \* bound on the number of signatures

Versions == {Schedule[i].version : i \in DOMAIN Schedule}

ASSUME ZeroRootAssumption == ZeroRoot \notin Chains
ASSUME SlotsAssumption == SLOTS_PER_EPOCH \in Nat \ {0}
ASSUME ScheduleAssumption ==
  /\ Schedule \in Seq([version : Versions, epoch : Nat])
  /\ Schedule # <<>> /\ Schedule[1].epoch = 0
  /\ \A i, j \in DOMAIN Schedule :
       i < j => Schedule[i].epoch < Schedule[j].epoch /\ Schedule[i].version # Schedule[j].version

VARIABLES slot,       \* the slot the chain has reached
          fork,       \* the client's copy of the chain's struct Fork
          signed      \* signatures made so far

vars == <<slot, fork, signed>>

----------------------------------------------------------------------------
\* The kinds of BLSSignMsg.  The lower case tags behave as the upper case ones.
SlotKinds == {"BLOCK", "BLOCK_V2", "AGGREGATE_AND_PROOF", "AGGREGATION_SLOT",
              "SYNC_COMMITTEE_MESSAGE", "SYNC_COMMITTEE_SELECTION_PROOF",
              "SYNC_COMMITTEE_CONTRIBUTION_AND_PROOF"}
EpochKinds == {"ATTESTATION", "RANDAO_REVEAL", "VOLUNTARY_EXIT"}
SlashableKinds == {"BLOCK", "BLOCK_V2", "ATTESTATION"}

DOMAIN_BEACON_PROPOSER == <<0, 0, 0, 0>>
DOMAIN_BEACON_ATTESTER == <<1, 0, 0, 0>>
DOMAIN_RANDAO == <<2, 0, 0, 0>>
DOMAIN_DEPOSIT == <<3, 0, 0, 0>>
DOMAIN_VOLUNTARY_EXIT == <<4, 0, 0, 0>>
\* Mutant: the constant of the line below.
SelectionProofTypo == <<6, 0, 0, 0>>
DOMAIN_SELECTION_PROOF == <<5, 0, 0, 0>>
DOMAIN_AGGREGATE_AND_PROOF == <<6, 0, 0, 0>>
DOMAIN_SYNC_COMMITTEE == <<7, 0, 0, 0>>
DOMAIN_SYNC_COMMITTEE_SELECTION_PROOF == <<8, 0, 0, 0>>
DOMAIN_CONTRIBUTION_AND_PROOF == <<9, 0, 0, 0>>
DOMAIN_APPLICATION_BUILDER == <<0, 0, 0, 1>>

\* The domain type that to_signing_root takes for each kind.
DomainType ==
  [BLOCK |-> DOMAIN_BEACON_PROPOSER,
   BLOCK_V2 |-> DOMAIN_BEACON_PROPOSER,
   ATTESTATION |-> DOMAIN_BEACON_ATTESTER,
   RANDAO_REVEAL |-> DOMAIN_RANDAO,
   AGGREGATE_AND_PROOF |-> DOMAIN_AGGREGATE_AND_PROOF,
   AGGREGATION_SLOT |-> DOMAIN_SELECTION_PROOF,
   DEPOSIT |-> DOMAIN_DEPOSIT,
   VOLUNTARY_EXIT |-> DOMAIN_VOLUNTARY_EXIT,
   SYNC_COMMITTEE_MESSAGE |-> DOMAIN_SYNC_COMMITTEE,
   SYNC_COMMITTEE_SELECTION_PROOF |-> DOMAIN_SYNC_COMMITTEE_SELECTION_PROOF,
   SYNC_COMMITTEE_CONTRIBUTION_AND_PROOF |-> DOMAIN_CONTRIBUTION_AND_PROOF,
   VALIDATOR_REGISTRATION |-> DOMAIN_APPLICATION_BUILDER]

compute_epoch_at_slot(s) == s \div SLOTS_PER_EPOCH

\* Four bytes of domain type, then the fork data root.  The code cuts this root to
\* 28 bytes, which a hash does not notice.
compute_domain(type, version, chain) == [type |-> type, version |-> version, chain |-> chain]

\* Mutant: the first epoch of a fork still belongs to the previous one.
GetDomainLate(f, chain, type, epoch) ==
  compute_domain(type, IF epoch <= f.epoch THEN f.previous_version ELSE f.current_version, chain)

get_domain(f, chain, type, epoch) ==
  compute_domain(type, IF epoch < f.epoch THEN f.previous_version ELSE f.current_version, chain)

compute_signing_root(object, domain) == [object_root |-> object, domain |-> domain]

\* A request for a kind with fork information; at is its slot or its epoch.
ForkRequest(kind, at, object, f, chain) ==
  [kind |-> kind, at |-> at, object |-> object, fork |-> f, chain |-> chain]

DepositRequest(object, version) ==
  [kind |-> "DEPOSIT", object |-> object, genesis_fork_version |-> version]

ValidatorRegistrationRequest(object) == [kind |-> "VALIDATOR_REGISTRATION", object |-> object]

EpochOf(r) == IF r.kind \in SlotKinds THEN compute_epoch_at_slot(r.at) ELSE r.at

\* Mutant: attestations too.
ServerVersionKindsWide == {"VALIDATOR_REGISTRATION", "ATTESTATION"}

\* The kinds whose domain has the version the caller of to_signing_root passes.
ServerVersionKinds == {"VALIDATOR_REGISTRATION"}

\* BLSSignMsg::to_signing_root; genesis is the version the caller passes, or the
\* default that stands for None.
to_signing_root(r, genesis) ==
  LET type == DomainType[r.kind] IN
    compute_signing_root(r.object,
      CASE r.kind = "DEPOSIT" -> compute_domain(type, r.genesis_fork_version, ZeroRoot)
        [] r.kind \in ServerVersionKinds -> compute_domain(type, genesis, ZeroRoot)
        [] OTHER -> get_domain(r.fork, r.chain, type, EpochOf(r)))

----------------------------------------------------------------------------
\* The Fork of the beacon state in an epoch.
ForkIndex(epoch) == Max({i \in DOMAIN Schedule : Schedule[i].epoch <= epoch})
ForkAt(epoch) ==
  LET i == ForkIndex(epoch) IN
    [previous_version |-> Schedule[IF i = 1 THEN 1 ELSE i - 1].version,
     current_version |-> Schedule[i].version,
     epoch |-> Schedule[i].epoch]

Init == slot = 0 /\ fork = ForkAt(0) /\ signed = {}

Tick == slot < MaxSlot /\ slot' = slot + 1 /\ UNCHANGED <<fork, signed>>

\* The client updates its view of the fork.
Refresh == fork' = ForkAt(compute_epoch_at_slot(slot)) /\ UNCHANGED <<slot, signed>>

Release(s) ==
  /\ Cardinality(signed) < MaxSignatures
  /\ signed' = signed \cup {s}
  /\ UNCHANGED <<slot, fork>>

\* Clients ask for the slots and the epochs around the present one.
Times(kind) ==
  LET now == IF kind \in SlotKinds THEN slot ELSE compute_epoch_at_slot(slot)
  IN  {t \in {now - 1, now, now + 1} : t >= 0}

\* A signature over r, with the epoch and the chain it is meant for.
Signature(r, genesis, epoch, chain) ==
  [kind |-> r.kind, epoch |-> epoch, chain |-> chain, fork |-> fork,
   root |-> to_signing_root(r, genesis),
   recorded |-> to_signing_root(r, GENESIS_FORK_VERSION)]

\* sign_validator_message signs the root made with the server's genesis version;
\* update_slash_protection_db records the root made with none.
SignMessage ==
  \E kind \in SlotKinds \cup EpochKinds, object \in Objects, chain \in Chains :
    \E at \in Times(kind) :
      LET r == ForkRequest(kind, at, object, fork, chain)
      IN  Release(Signature(r, genesis_fork_version, EpochOf(r), chain))

SignRegistration ==
  \E object \in Objects :
    Release(Signature(ValidatorRegistrationRequest(object), genesis_fork_version, 0, ZeroRoot))

\* get_deposit_signature and sign_full_deposit: the version is the client's.
SignDeposit ==
  \E object \in Objects, version \in Versions :
    Release(Signature(DepositRequest(object, version), GENESIS_FORK_VERSION, 0, ZeroRoot))

\* sign_vem: the guardians always sign an exit for epoch 0.
SignExit ==
  \E object \in Objects, chain \in Chains :
    Release(Signature(ForkRequest("VOLUNTARY_EXIT", 0, object, fork, chain),
                      GENESIS_FORK_VERSION, 0, chain))

Next == Tick \/ Refresh \/ SignMessage \/ SignRegistration \/ SignDeposit \/ SignExit

Spec == Init /\ [][Next]_vars

----------------------------------------------------------------------------
(***************************************************************************)
(* A signature can be used for its own purpose only: two signatures of one *)
(* signing root were asked for under one kind of message (a block and its  *)
(* header are one kind), on one chain.  A selection proof is never an exit *)
(* and a sync committee message never a block, whatever bytes the client   *)
(* has signed and whichever fork it believes in.                           *)
(***************************************************************************)
Purpose(kind) == IF kind = "BLOCK_V2" THEN "BLOCK" ELSE kind

KindsApart ==
  \A s, t \in signed : s.root = t.root => Purpose(s.kind) = Purpose(t.kind) /\ s.chain = t.chain

(***************************************************************************)
(* A signature verifies on the chain: its domain is that of the fork in    *)
(* force in the epoch of the message, although the client's view of the    *)
(* fork may have been older or newer than the message by up to one fork.   *)
(* Only a client that missed a fork before the message's epoch, or that    *)
(* is two forks ahead of it, gets a useless signature.                     *)
(***************************************************************************)
SeesFork(s) ==
  LET i == ForkIndex(s.epoch) IN
    \/ s.fork.epoch = Schedule[i].epoch
    \/ i < Len(Schedule) /\ s.fork.epoch = Schedule[i + 1].epoch

VerifiesOnChain ==
  \A s \in signed :
    s.kind \in SlotKinds \cup EpochKinds /\ SeesFork(s) =>
      s.root.domain = compute_domain(DomainType[s.kind], Schedule[ForkIndex(s.epoch)].version, s.chain)

(***************************************************************************)
(* The slashing protection database keeps the root that was really signed, *)
(* although update_slash_protection_db computes it anew, without the       *)
(* genesis fork version of the server.                                     *)
(***************************************************************************)
RecordedRootSigned ==
  \A s \in signed : s.kind \in SlashableKinds => s.recorded = s.root
=============================================================================
