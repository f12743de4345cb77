------------------------- MODULE SigningRootsProofs -------------------------
(***************************************************************************)
(* Signatures of different kinds have different signing roots, and have    *)
(* the domain of the fork in force if the client's copy of it is close,    *)
(* for any fork schedule and any number of chains.                         *)
(***************************************************************************)
EXTENDS SigningRoots, WellFoundedInduction, TLAPS

ForkKinds == SlotKinds \cup EpochKinds
Kinds == ForkKinds \cup {"DEPOSIT", "VALIDATOR_REGISTRATION"}

\* Every signature carries the domain type of its kind and its chain, and the root in
\* the database of a slashable kind is its own.
SignatureShaped(s) ==
  /\ s.kind \in Kinds
  /\ s.root.domain.type = DomainType[s.kind]
  /\ s.root.domain.chain = s.chain
  /\ s.kind \in SlashableKinds => s.recorded = s.root

Shaped == \A s \in signed : SignatureShaped(s)

USE DEF DOMAIN_BEACON_PROPOSER, DOMAIN_BEACON_ATTESTER, DOMAIN_RANDAO, DOMAIN_DEPOSIT,
        DOMAIN_VOLUNTARY_EXIT, DOMAIN_SELECTION_PROOF, DOMAIN_AGGREGATE_AND_PROOF,
        DOMAIN_SYNC_COMMITTEE, DOMAIN_SYNC_COMMITTEE_SELECTION_PROOF,
        DOMAIN_CONTRIBUTION_AND_PROOF, DOMAIN_APPLICATION_BUILDER

\* The domain types tell the purposes apart: only a block and its header share one.
LEMMA DomainTypesApart ==
  \A k, l \in Kinds : DomainType[k] = DomainType[l] => Purpose(k) = Purpose(l)
BY DEF Kinds, ForkKinds, SlotKinds, EpochKinds, DomainType, Purpose

\* The signature of a request with fork information, whatever fork it states.
LEMMA ForkRequestShaped ==
  ASSUME NEW kind \in ForkKinds, NEW at, NEW object, NEW chain, NEW genesis, NEW epoch
  PROVE  SignatureShaped(Signature(ForkRequest(kind, at, object, fork, chain), genesis, epoch, chain))
<1> DEFINE r == ForkRequest(kind, at, object, fork, chain)
<1>1. r.kind = kind /\ r.chain = chain /\ r.kind \notin {"DEPOSIT", "VALIDATOR_REGISTRATION"}
  BY DEF ForkRequest, ForkKinds, SlotKinds, EpochKinds
<1>2. \A g : to_signing_root(r, g) =
              compute_signing_root(r.object, get_domain(r.fork, chain, DomainType[kind], EpochOf(r)))
  BY <1>1 DEF to_signing_root, ServerVersionKinds
<1> QED
  BY <1>1, <1>2 DEF Signature, SignatureShaped, compute_signing_root, get_domain, compute_domain, Kinds

\* The signatures of a deposit and of a registration.
LEMMA ApplicationShaped ==
  ASSUME NEW object, NEW version, NEW genesis
  PROVE  /\ SignatureShaped(Signature(DepositRequest(object, version), genesis, 0, ZeroRoot))
         /\ SignatureShaped(Signature(ValidatorRegistrationRequest(object), genesis, 0, ZeroRoot))
BY DEF DepositRequest, ValidatorRegistrationRequest, Signature, SignatureShaped, to_signing_root,
       ServerVersionKinds, compute_signing_root, compute_domain, Kinds, SlashableKinds

\* Every step keeps the shape of all signatures.
LEMMA ShapedStep == Shaped /\ [Next]_vars => Shaped'
<1> SUFFICES ASSUME Shaped, [Next]_vars PROVE Shaped'
  OBVIOUS
<1>1. ASSUME NEW s, SignatureShaped(s), Release(s) PROVE Shaped'
  BY <1>1 DEF Release, Shaped
<1>2. CASE SignMessage
  BY <1>1, <1>2, ForkRequestShaped DEF SignMessage, ForkKinds
<1>3. CASE SignRegistration
  BY <1>1, <1>3, ApplicationShaped DEF SignRegistration
<1>4. CASE SignDeposit
  BY <1>1, <1>4, ApplicationShaped DEF SignDeposit
<1>5. CASE SignExit
  BY <1>1, <1>5, ForkRequestShaped DEF SignExit, ForkKinds, EpochKinds
<1>6. CASE Tick \/ Refresh \/ UNCHANGED vars
  BY <1>6 DEF Tick, Refresh, vars, Shaped
<1> QED
  BY <1>2, <1>3, <1>4, <1>5, <1>6 DEF Next

\* Every signature has the shape, in every state.
LEMMA AlwaysShaped == Spec => []Shaped
<1>1. Init => Shaped
  BY DEF Init, Shaped
<1> QED
  BY <1>1, ShapedStep, PTL DEF Spec

(***************************************************************************)
(* Signatures can be used for their own purpose only: to_signing_root      *)
(* separates the kinds of message and the chains by the domain alone.      *)
(***************************************************************************)
THEOREM PurposesSeparated == Spec => []KindsApart
<1>1. Shaped => KindsApart
  BY DomainTypesApart DEF Shaped, SignatureShaped, KindsApart
<1> QED
  BY <1>1, AlwaysShaped, PTL

(***************************************************************************)
(* The root that update_slash_protection_db stores is the one that         *)
(* sign_validator_message signs, whichever genesis version is configured.  *)
(***************************************************************************)
THEOREM RecordsWhatIsSigned == Spec => []RecordedRootSigned
<1>1. Shaped => RecordedRootSigned
  BY DEF Shaped, SignatureShaped, RecordedRootSigned
<1> QED
  BY <1>1, AlwaysShaped, PTL
----------------------------------------------------------------------------
(***************************************************************************)
(* The forks of the chain.  ForkIndex takes a maximum: the numbers below   *)
(* a bound are well-founded when counted downward.                         *)
(***************************************************************************)
LEMMA MaxIsIn ==
  ASSUME NEW n \in Nat, NEW S, S \subseteq 1..n, S # {}
  PROVE  Max(S) \in S /\ \A x \in S : Max(S) >= x
<1> DEFINE T == {m \in Nat : n - m \in S}
<1>1. T \subseteq Nat /\ T # {}
  <2>1. PICK x \in S : TRUE
    OBVIOUS
  <2>2. n - x \in Nat /\ n - (n - x) = x
    BY <2>1
  <2> QED BY <2>1, <2>2
<1> HIDE DEF T
<1>2. PICK m \in T : \A l \in T : ~(<<l, m>> \in OpToRel(<, Nat))
  BY <1>1, NatLessThanWellFounded, WFMin
<1>3. \A l \in T : ~(l < m)
  BY <1>1, <1>2 DEF OpToRel
<1>4. \A x \in S : n - m >= x
  <2> TAKE x \in S
  <2>1. n - x \in Nat /\ n - (n - x) = x
    OBVIOUS
  <2>2. n - x \in T
    BY <2>1 DEF T
  <2> QED BY <1>1, <1>3, <2>1, <2>2
<1>5. n - m \in S
  BY <1>2 DEF T
<1> QED BY <1>4, <1>5 DEF Max

\* The schedule is a sequence of forks with epochs.
LEMMA ScheduleTypes ==
  /\ Len(Schedule) \in Nat /\ DOMAIN Schedule = 1..Len(Schedule) /\ 1 \in DOMAIN Schedule
  /\ \A i \in DOMAIN Schedule : i \in Nat /\ Schedule[i].epoch \in Nat
<1> DEFINE Forks == [version : Versions, epoch : Nat]
<1>1. \A f \in Forks : f.epoch \in Nat
  OBVIOUS
<1>2. Schedule \in Seq(Forks) /\ Schedule # <<>>
  BY ScheduleAssumption
<1> HIDE DEF Forks
<1>3. \A i \in DOMAIN Schedule : Schedule[i] \in Forks
  BY <1>2
<1> QED BY <1>1, <1>2, <1>3

\* The fork in force in an epoch has begun and the ones after it have not.
LEMMA ForkInForce ==
  ASSUME NEW epoch \in Nat
  PROVE  /\ ForkIndex(epoch) \in DOMAIN Schedule
         /\ Schedule[ForkIndex(epoch)].epoch <= epoch
         /\ \A i \in DOMAIN Schedule : i > ForkIndex(epoch) => epoch < Schedule[i].epoch
<1> DEFINE S == {i \in DOMAIN Schedule : Schedule[i].epoch <= epoch}
<1>1. S \subseteq 1..Len(Schedule) /\ 1 \in S
  BY ScheduleTypes, ScheduleAssumption
<1>2. ForkIndex(epoch) \in S /\ \A i \in S : ForkIndex(epoch) >= i
  BY <1>1, ScheduleTypes, MaxIsIn DEF ForkIndex
<1>3. \A i \in DOMAIN Schedule : i > ForkIndex(epoch) => i \notin S
  BY <1>2, ScheduleTypes
<1>4. \A i \in DOMAIN Schedule : i \notin S => epoch < Schedule[i].epoch
  BY ScheduleTypes
<1> QED BY <1>2, <1>3, <1>4

\* Forks are told apart by the epoch they begin in.
LEMMA ForksApart ==
  ASSUME NEW i \in DOMAIN Schedule, NEW j \in DOMAIN Schedule, Schedule[i].epoch = Schedule[j].epoch
  PROVE  i = j
BY ScheduleTypes, ScheduleAssumption

\* Slots belong to epochs.
LEMMA EpochsAreNumbers == \A s \in Nat : compute_epoch_at_slot(s) \in Nat
BY SlotsAssumption DEF compute_epoch_at_slot

\* The client's copy of the fork was right at some time, and a signature over a message
\* with fork information has the domain that get_domain made of such a copy.
IsFork(f) == \E epoch \in Nat : f = ForkAt(epoch)

ViewInv == slot \in Nat /\ IsFork(fork)

SignatureDated(s) ==
  s.kind \in ForkKinds =>
    /\ s.epoch \in Nat
    /\ IsFork(s.fork)
    /\ s.root.domain = get_domain(s.fork, s.chain, DomainType[s.kind], s.epoch)

Dated == \A s \in signed : SignatureDated(s)

\* The signature of a request with fork information.
LEMMA ForkRequestDated ==
  ASSUME NEW kind \in ForkKinds, NEW at \in Nat, NEW object, NEW chain, NEW genesis, IsFork(fork)
  PROVE  LET r == ForkRequest(kind, at, object, fork, chain)
         IN  SignatureDated(Signature(r, genesis, EpochOf(r), chain))
<1> DEFINE r == ForkRequest(kind, at, object, fork, chain)
<1>1. r.kind = kind /\ r.chain = chain /\ r.at = at /\ r.fork = fork
      /\ r.kind \notin {"DEPOSIT", "VALIDATOR_REGISTRATION"}
  BY DEF ForkRequest, ForkKinds, SlotKinds, EpochKinds
<1>2. to_signing_root(r, genesis) =
        compute_signing_root(r.object, get_domain(fork, chain, DomainType[kind], EpochOf(r)))
  BY <1>1 DEF to_signing_root, ServerVersionKinds
<1>3. EpochOf(r) \in Nat
  BY <1>1, EpochsAreNumbers DEF EpochOf
<1> DEFINE s == Signature(r, genesis, EpochOf(r), chain)
<1>4. /\ s.kind = kind /\ s.epoch = EpochOf(r) /\ s.chain = chain /\ s.fork = fork
      /\ s.root = to_signing_root(r, genesis)
  BY <1>1 DEF Signature
<1>5. s.root.domain = get_domain(fork, chain, DomainType[kind], EpochOf(r))
  BY <1>2, <1>4 DEF compute_signing_root
<1> HIDE DEF r, s
<1>6. SignatureDated(s)
  BY <1>3, <1>4, <1>5 DEF SignatureDated
<1> QED BY <1>6 DEF r, s

\* Every step keeps the client's view and dates the signature it makes.
LEMMA DatedStep == ViewInv /\ Dated /\ [Next]_vars => ViewInv' /\ Dated'
<1> SUFFICES ASSUME ViewInv, Dated, [Next]_vars PROVE ViewInv' /\ Dated'
  OBVIOUS
<1>1. ASSUME NEW s, SignatureDated(s), Release(s) PROVE ViewInv' /\ Dated'
  BY <1>1 DEF Release, ViewInv, Dated
<1>2. CASE SignMessage
  <2>1. PICK kind \in ForkKinds, object \in Objects, chain \in Chains :
          \E at \in Times(kind) :
            LET r == ForkRequest(kind, at, object, fork, chain)
            IN  Release(Signature(r, genesis_fork_version, EpochOf(r), chain))
    BY <1>2 DEF SignMessage, ForkKinds
  <2>2. PICK at \in Times(kind) :
          LET r == ForkRequest(kind, at, object, fork, chain)
          IN  Release(Signature(r, genesis_fork_version, EpochOf(r), chain))
    BY <2>1
  <2>3. at \in Nat
    BY EpochsAreNumbers DEF Times, ViewInv
  <2> QED BY <1>1, <2>2, <2>3, ForkRequestDated DEF ViewInv
<1>3. CASE SignRegistration
  BY <1>1, <1>3 DEF SignRegistration, SignatureDated, Signature, ValidatorRegistrationRequest,
                    ForkKinds, SlotKinds, EpochKinds
<1>4. CASE SignDeposit
  BY <1>1, <1>4 DEF SignDeposit, SignatureDated, Signature, DepositRequest, ForkKinds, SlotKinds, EpochKinds
<1>5. CASE SignExit
  <2>1. PICK object \in Objects, chain \in Chains :
          Release(Signature(ForkRequest("VOLUNTARY_EXIT", 0, object, fork, chain),
                            GENESIS_FORK_VERSION, 0, chain))
    BY <1>5 DEF SignExit
  <2>2. EpochOf(ForkRequest("VOLUNTARY_EXIT", 0, object, fork, chain)) = 0 /\ "VOLUNTARY_EXIT" \in ForkKinds
    BY DEF EpochOf, ForkRequest, ForkKinds, SlotKinds, EpochKinds
  <2> QED BY <1>1, <2>1, <2>2, ForkRequestDated DEF ViewInv
<1>6. CASE Tick
  BY <1>6 DEF Tick, ViewInv, Dated
<1>7. CASE Refresh
  BY <1>7, EpochsAreNumbers DEF Refresh, ViewInv, IsFork, Dated
<1>8. CASE UNCHANGED vars
  BY <1>8 DEF vars, ViewInv, Dated
<1> QED BY <1>2, <1>3, <1>4, <1>5, <1>6, <1>7, <1>8 DEF Next

\* Every signature is dated, in every state.
LEMMA AlwaysDated == Spec => [](ViewInv /\ Dated)
<1>1. Init => ViewInv /\ Dated
  BY DEF Init, ViewInv, IsFork, Dated
<1> QED
  BY <1>1, DatedStep, PTL DEF Spec

\* A copy of the fork of the message's epoch, or of the fork after it, gives the version
\* in force.
LEMMA VersionInForce ==
  ASSUME NEW s, SignatureDated(s), s.kind \in ForkKinds, SeesFork(s)
  PROVE  s.root.domain =
           compute_domain(DomainType[s.kind], Schedule[ForkIndex(s.epoch)].version, s.chain)
<1> DEFINE i == ForkIndex(s.epoch)
<1>1. s.epoch \in Nat /\ s.root.domain = get_domain(s.fork, s.chain, DomainType[s.kind], s.epoch)
  BY DEF SignatureDated
<1>2. PICK e \in Nat : s.fork = ForkAt(e)
  BY DEF SignatureDated, IsFork
<1> DEFINE j == ForkIndex(e)
<1>3. /\ s.fork.epoch = Schedule[j].epoch /\ s.fork.current_version = Schedule[j].version
      /\ s.fork.previous_version = Schedule[IF j = 1 THEN 1 ELSE j - 1].version
  BY <1>2 DEF ForkAt
<1>4. i \in DOMAIN Schedule /\ j \in DOMAIN Schedule /\ Schedule[i].epoch <= s.epoch
      /\ \A l \in DOMAIN Schedule : l > i => s.epoch < Schedule[l].epoch
  BY <1>1, <1>2, ForkInForce
<1> HIDE DEF i, j
<1>5. Schedule[i].epoch \in Nat
  BY <1>4, ScheduleTypes
<1>6. CASE s.fork.epoch = Schedule[i].epoch
  <2>1. j = i
    BY <1>3, <1>4, <1>6, ForksApart
  <2>2. ~(s.epoch < s.fork.epoch)
    BY <1>1, <1>4, <1>5, <1>6
  <2> QED BY <1>1, <1>3, <2>1, <2>2 DEF get_domain, i
<1>7. CASE i < Len(Schedule) /\ s.fork.epoch = Schedule[i + 1].epoch
  <2>1. i + 1 \in DOMAIN Schedule /\ i + 1 > i /\ i + 1 # 1 /\ (i + 1) - 1 = i
    BY <1>4, <1>7, ScheduleTypes
  <2>2. j = i + 1
    BY <1>3, <1>4, <1>7, <2>1, ForksApart
  <2>3. s.epoch < s.fork.epoch /\ s.fork.previous_version = Schedule[i].version
    BY <1>3, <1>4, <1>7, <2>1, <2>2
  <2> QED BY <1>1, <2>3 DEF get_domain, i
<1> QED BY <1>6, <1>7 DEF SeesFork, i

(***************************************************************************)
(* A signature verifies on the chain if the client's copy of the fork is   *)
(* at most one fork ahead of the message, whatever the schedule.           *)
(***************************************************************************)
THEOREM SignaturesVerify == Spec => []VerifiesOnChain
<1>1. Dated => VerifiesOnChain
  BY VersionInForce DEF Dated, VerifiesOnChain, ForkKinds
<1> QED
  BY <1>1, AlwaysDated, PTL
=============================================================================
