--------------------------- MODULE GuardianProofs ---------------------------
(***************************************************************************)
(* The safety of the guardians, for any number of guardians, enclave keys, *)
(* validators, sessions and handlers, and through any crashes and I/O      *)
(* errors.                                                                 *)
(*                                                                         *)
(* The argument follows the data.  Payloads that were made have a shape;   *)
(* whatever clients send, every ciphertext in it stems from a payload that *)
(* was made (Traceable), and so does the evidence (EvidenceGenuine); what  *)
(* a handler has checked stays checked (RequestInv); hence so do the files *)
(* (FilesInv), the approvals (ApprovalsTraced) and the keys (KeygenInv).   *)
(***************************************************************************)
EXTENDS Guardian, SequenceTheorems, WellFoundedInduction, TLAPS

CustodySteps == {"verify_session", "get_session", "custody", "open", "write", "approve"}
SettledSteps == {"custody", "open", "write", "approve"}
CheckedSteps == {"open", "write", "approve"}

\* Payloads of key generations.
KeyLists == UNION {[1..n -> EnclaveKeys] : n \in 1..MaxShares}
Ciphertexts(v) == [set: {v}, index: 1..MaxShares, to: EnclaveKeys]

Shaped(m) ==
  LET p == m.payload
      v == p.bls_pub_key_set
      to == p.guardian_eth_pub_keys
  IN  /\ DOMAIN p = Field
      /\ v \in KeySets /\ p.bls_pub_key = v /\ to \in KeyLists
      /\ p.bls_enc_priv_key_shares \in Seq(Ciphertexts(v))
      /\ m.by # "client" => p.bls_enc_priv_key_shares = EncryptShares(v, to)
      /\ \E signed :
           /\ p.signature = DepositSignature(v, p.withdrawal_credentials, signed)
           /\ m.by = "enclave" => signed = p.fork_version
      /\ p.deposit_data_root = DepositDataRoot(v, p.withdrawal_credentials, p.signature)
      /\ p.evidence # NoEvidence => m.by = "enclave" /\ p.evidence.signed = AttestationPayload(p)

\* Nobody else makes payloads of a key that a validator enclave generated.
AllShaped(M) ==
  /\ \A m \in M : Shaped(m)
  /\ \A m, n \in M :
       m.by = "enclave" /\ m.payload.bls_pub_key_set = n.payload.bls_pub_key_set => m = n

MadeInv == AllShaped(made)

\* Of the payloads in M, one has share s encrypted to enclave key e.
SharedIn(M, e, s) ==
  \E m \in M :
    LET cs == m.payload.bls_enc_priv_key_shares IN
      \E i \in DOMAIN cs : cs[i].to = e /\ ShareIn(cs[i]) = s

SharedTo(e, s) == SharedIn(made, e, s)

\* Payloads that clients send when those in M were made.
Traceable(M, p) ==
  /\ DOMAIN p.bls_enc_priv_key_shares \subseteq Nat
  /\ \A i \in DOMAIN p.bls_enc_priv_key_shares :
       LET c == p.bls_enc_priv_key_shares[i] IN SharedIn(M, c.to, ShareIn(c))

EvidenceGenuine(M, p) ==
  p.evidence # NoEvidence =>
    \E m \in M : m.by = "enclave" /\ p.evidence = m.payload.evidence

\* What holds of a custody request q at a step, with the share s: as it was received,
\* once the registry has answered, once its evidence is settled, once it is checked.
ReceivedInv(M, R, q) ==
  /\ q.key \in EnclaveKeys /\ q.verify \in BOOLEAN
  /\ Traceable(M, q.payload) /\ EvidenceGenuine(M, q.payload)
  /\ q.verify => q.payload.evidence # NoEvidence
  /\ q.late => q.verify /\ q.payload.evidence.session_id \in R

VerifiedInv(q) == ~q.late /\ (q.verify => verify_session_signature(q.payload))

SettledInv(q) ==
  q.verify /\ q.workload # NoWorkload => WorkloadOf[q.payload.evidence.session_id] = q.workload

CheckedInv(M, q, s) ==
  /\ verify_deposit_message(q.payload)
  /\ SharedIn(M, q.key, s) /\ s \in Shares
  /\ s.set = q.payload.bls_pub_key_set

CustodyInv(M, R, step, q, s) ==
  /\ step \in CustodySteps => ReceivedInv(M, R, q)
  /\ step \in SettledSteps \cup {"get_session"} => VerifiedInv(q)
  /\ step \in SettledSteps => SettledInv(q)
  /\ step \in CheckedSteps => CheckedInv(M, q, s)

RequestInv(h) == CustodyInv(made, revoked, pc[h], req[h], share[h])

RequestsInv == \A h \in Handlers : RequestInv(h)

\* Every share that is approved, or about to be, is on disk.
Backed(g, s) == shareFile[g][s] = "ok" \/ Rewriting(g, s) \/ faults > 0

FilesInv ==
  /\ SharesAtRecipients
  /\ \A h \in Handlers : pc[h] = "approve" => Backed(Home[req[h].key], share[h])

ApprovalsTraced ==
  \A a \in approvals :
    /\ SharedTo(a.key, a.share) /\ a.share.set = a.pubkey
    /\ Backed(Home[a.key], a.share)

\* Enclave keys under generation.
KeygenSteps == {"create", "write_key", "attest"}

KeygenInv ==
  /\ \A h \in Handlers : pc[h] \in KeygenSteps => \E e \in EnclaveKeys : req[h] = KeygenRequest(e)
  /\ \A h \in Handlers : pc[h] = "attest" => ethFile[req[h].key] = "ok"
  /\ \A h \in Handlers : pc[h] \in {"create", "write_key"} =>
       /\ req[h].key \notin published
       /\ \A g \in Handlers \ {h} : pc[g] \in KeygenSteps => req[g].key # req[h].key
  /\ PublishedKeysKept

GuardianInv ==
  /\ TypeOK /\ MadeInv /\ RequestsInv
  /\ FilesInv /\ ApprovalsTraced /\ KeygenInv
  /\ ApprovalsAttested /\ NoLateApproval

----------------------------------------------------------------------------
(***************************************************************************)
(* What a step of the system means to one handler, and to the data.        *)
(***************************************************************************)
Same(g) == pc'[g] = pc[g] /\ req'[g] = req[g] /\ share'[g] = share[g]
Moved(g, from, to) == pc[g] = from /\ pc'[g] = to /\ req'[g] = req[g] /\ share'[g] = share[g]

BeginsKeygen(g) ==
  \E e \in EnclaveKeys : pc[g] = "idle" /\ pc'[g] = "create" /\ req'[g] = KeygenRequest(e)

BeginsCustody(g) ==
  \E e \in EnclaveKeys, p \in Sendable, verify \in BOOLEAN : \E w :
    /\ ~verify => w = NoWorkload
    /\ verify => p.evidence # NoEvidence
    /\ req'[g] = CustodyRequest(e, p, verify, w)
    /\ pc[g] = "idle"
    /\ pc'[g] = IF verify THEN "verify_session" ELSE "custody"

PassesRegistry(g) ==
  \/ /\ Moved(g, "verify_session", "custody")
     /\ SessionVerified(req[g].payload) /\ req[g].workload = NoWorkload
  \/ Moved(g, "verify_session", "get_session") /\ SessionVerified(req[g].payload)
  \/ /\ Moved(g, "get_session", "custody")
     /\ WorkloadOf[req[g].payload.evidence.session_id] = req[g].workload

PassesChecks(g) ==
  /\ pc[g] = "custody" /\ pc'[g] = "open" /\ req'[g] = req[g]
  /\ verify_deposit_message(req[g].payload)
  /\ verify_custody(req[g].payload, req[g].key)
  /\ share'[g] = ShareFor(req[g].payload, req[g].key)

Moves(g) ==
  \/ Same(g) \/ pc'[g] = "idle"
  \/ BeginsKeygen(g) \/ BeginsCustody(g) \/ PassesRegistry(g) \/ PassesChecks(g)
  \/ Moved(g, "create", "write_key") \/ Moved(g, "write_key", "attest")
  \/ Moved(g, "open", "write") \/ Moved(g, "write", "approve")

Grows ==
  /\ made \subseteq made' /\ revoked \subseteq revoked' /\ published \subseteq published'
  /\ faults' = faults \/ faults' = faults + 1

(***************************************************************************)
(* Every step moves each handler in one of these ways.                     *)
(***************************************************************************)
LEMMA HandlersMove == TypeOK /\ [Next]_vars => \A g \in Handlers : Moves(g)
<1> SUFFICES ASSUME TypeOK, [Next]_vars, NEW g \in Handlers PROVE Moves(g)
  OBVIOUS
<1>0. pc \in [Handlers -> Steps] /\ DOMAIN req = Handlers /\ DOMAIN share = Handlers
  BY DEF TypeOK
<1>1. CASE UNCHANGED vars
  BY <1>1 DEF vars, work, Moves, Same
<1>2. ASSUME NEW h \in Handlers, AttestFreshEthKey(h) PROVE Moves(g)
  BY <1>0, <1>2 DEF AttestFreshEthKey, Goto, Moves, Same, BeginsKeygen
<1>3. ASSUME NEW h \in Handlers, ValidateCustody(h) PROVE Moves(g)
  <2>1. PICK e \in EnclaveKeys, p \in Sendable, verify \in BOOLEAN, w \in Workloads \cup {NoWorkload} :
          /\ pc[h] = "idle" /\ (~verify => w = NoWorkload) /\ (verify => p.evidence # NoEvidence)
          /\ req' = [req EXCEPT ![h] = CustodyRequest(e, p, verify, w)]
          /\ pc' = [pc EXCEPT ![h] = IF verify THEN "verify_session" ELSE "custody"]
          /\ share' = share
    BY <1>3 DEF ValidateCustody, Goto
  <2>2. CASE g = h
    BY <1>0, <2>1, <2>2 DEF Moves, BeginsCustody
  <2>3. CASE g # h
    BY <1>0, <2>1, <2>3 DEF Moves, Same
  <2> QED BY <2>2, <2>3
<1>4. ASSUME NEW h \in Handlers, CreateEthKey(h) PROVE Moves(g)
  BY <1>0, <1>4 DEF CreateEthKey, Goto, Moves, Same, Moved
<1>5. ASSUME NEW h \in Handlers, WriteEthKey(h) PROVE Moves(g)
  BY <1>0, <1>5 DEF WriteEthKey, Goto, Answer, Drop, Moves, Same, Moved
<1>6. ASSUME NEW h \in Handlers, AttestEthKey(h) PROVE Moves(g)
  BY <1>0, <1>6 DEF AttestEthKey, Answer, Drop, Moves, Same
<1>7. ASSUME NEW h \in Handlers, VerifySession(h) PROVE Moves(g)
  BY <1>0, <1>7 DEF VerifySession, Goto, Answer, Drop, Moves, Same, PassesRegistry, Moved
<1>8. ASSUME NEW h \in Handlers, GetSession(h) PROVE Moves(g)
  BY <1>0, <1>8 DEF GetSession, Goto, Answer, Drop, Moves, Same, PassesRegistry, Moved
<1>9. ASSUME NEW h \in Handlers, CheckCustody(h) PROVE Moves(g)
  BY <1>0, <1>9 DEF CheckCustody, Goto, Answer, Drop, Moves, Same, PassesChecks
<1>10. ASSUME NEW h \in Handlers, OpenShare(h) PROVE Moves(g)
  BY <1>0, <1>10 DEF OpenShare, Goto, Moves, Same, Moved
<1>11. ASSUME NEW h \in Handlers, WriteShare(h) PROVE Moves(g)
  BY <1>0, <1>11 DEF WriteShare, Goto, Moves, Same, Moved
<1>12. ASSUME NEW h \in Handlers, Approve(h) PROVE Moves(g)
  BY <1>0, <1>12 DEF Approve, Answer, Drop, Moves, Same
<1>13. ASSUME NEW h \in Handlers, HangUp(h) \/ CallError(h) \/ WriteError(h) PROVE Moves(g)
  BY <1>0, <1>13 DEF HangUp, CallError, WriteError, Answer, Drop, Moves, Same
<1>14. CASE SignExit \/ ValidatorKeygen \/ LocalKeygen \/ OwnKeygen \/ Revoke
  BY <1>14 DEF SignExit, ValidatorKeygen, LocalKeygen, OwnKeygen, Revoke, work, Moves, Same
<1>15. ASSUME NEW x \in Guardians, Crash(x) PROVE Moves(g)
  BY <1>0, <1>15 DEF Crash, Drop, Moves, Same
<1> QED BY <1>1, <1>2, <1>3, <1>4, <1>5, <1>6, <1>7, <1>8, <1>9, <1>10, <1>11, <1>12, <1>13,
           <1>14, <1>15 DEF Next, Step

(***************************************************************************)
(* Nothing that was made, revoked or handed out is ever taken back.        *)
(***************************************************************************)
LEMMA Growth == TypeOK /\ [Next]_vars => Grows
<1> SUFFICES ASSUME TypeOK, [Next]_vars PROVE Grows
  OBVIOUS
<1> USE DEF Grows
<1>1. CASE UNCHANGED vars
  BY <1>1 DEF vars, released
<1>2. ASSUME NEW h \in Handlers, AttestFreshEthKey(h) \/ ValidateCustody(h) PROVE Grows
  BY <1>2 DEF AttestFreshEthKey, ValidateCustody, released
<1>3. ASSUME NEW h \in Handlers, Step(h) PROVE Grows
  BY <1>3 DEF Step, CreateEthKey, WriteEthKey, CheckCustody, OpenShare, WriteShare, Approve, released
<1>4. ASSUME NEW h \in Handlers, AttestEthKey(h) \/ VerifySession(h) \/ GetSession(h) \/ HangUp(h)
      PROVE Grows
  BY <1>4 DEF AttestEthKey, VerifySession, GetSession, HangUp, released
<1>5. ASSUME NEW h \in Handlers, CallError(h) \/ WriteError(h) PROVE Grows
  BY <1>5 DEF CallError, WriteError, Fault, released
<1>6. CASE SignExit \/ ValidatorKeygen \/ LocalKeygen \/ OwnKeygen \/ Revoke
  BY <1>6 DEF SignExit, ValidatorKeygen, LocalKeygen, OwnKeygen, Revoke, released
<1>7. ASSUME NEW x \in Guardians, Crash(x) PROVE Grows
  BY <1>7 DEF Crash, Fault, released
<1> QED BY <1>1, <1>2, <1>3, <1>4, <1>5, <1>6, <1>7 DEF Next

----------------------------------------------------------------------------
(***************************************************************************)
(* Types.                                                                  *)
(***************************************************************************)
LEMMA TypeInit == Init => TypeOK
  BY BoundsAssumption
     DEF Init, TypeOK, FileState, Steps

(***************************************************************************)
(* The files and what was released have their types after every step.      *)
(***************************************************************************)
StoreTypes ==
  /\ ethFile \in [EnclaveKeys -> FileState]
  /\ shareFile \in [Guardians -> [Shares -> FileState]]
  /\ published \subseteq EnclaveKeys
  /\ \A a \in approvals : a.key \in EnclaveKeys /\ a.share \in Shares
  /\ exits \subseteq [guardian: Guardians, share: Shares]
  /\ revoked \subseteq Sessions
  /\ faults \in 0..MaxFaults

\* Opening or writing a share file changes this file of the handler's guardian only.
LEMMA PutShareType ==
  ASSUME TypeOK, NEW h \in Handlers, pc[h] \in {"open", "write"}, NEW st \in FileState, PutShare(h, st)
  PROVE  /\ shareFile' \in [Guardians -> [Shares -> FileState]]
         /\ Home[req[h].key] \in Guardians /\ share[h] \in Shares
         /\ \A g \in Guardians, s \in Shares :
              shareFile'[g][s] =
                IF g = Home[req[h].key] /\ s = share[h] THEN st ELSE shareFile[g][s]
<1> DEFINE x == Home[req[h].key]  y == share[h]
<1>1. x \in Guardians /\ y \in Shares
  BY HomeAssumption DEF TypeOK
<1>2. shareFile' = [shareFile EXCEPT ![x][y] = st]
  BY DEF PutShare
<1>3. shareFile \in [Guardians -> [Shares -> FileState]]
  BY DEF TypeOK
<1> HIDE DEF x, y
<1>4. shareFile' \in [Guardians -> [Shares -> FileState]]
  BY <1>1, <1>2, <1>3
<1>5. \A g \in Guardians, s \in Shares :
        shareFile'[g][s] = IF g = x /\ s = y THEN st ELSE shareFile[g][s]
  BY <1>1, <1>2, <1>3
<1> QED BY <1>1, <1>4, <1>5 DEF x, y

\* Every step keeps the types of the files and of what was released.
LEMMA StoreStep == TypeOK /\ [Next]_vars => StoreTypes'
<1> SUFFICES ASSUME TypeOK, [Next]_vars PROVE StoreTypes'
  OBVIOUS
<1>0. StoreTypes /\ pc \in [Handlers -> Steps]
  BY DEF TypeOK, StoreTypes
<1>1. CASE UNCHANGED vars
  BY <1>0, <1>1 DEF vars, files, released, StoreTypes
<1>2. ASSUME NEW h \in Handlers, AttestFreshEthKey(h) \/ ValidateCustody(h) PROVE StoreTypes'
  BY <1>0, <1>2 DEF AttestFreshEthKey, ValidateCustody, files, released, StoreTypes
<1>3. ASSUME NEW h \in Handlers, CreateEthKey(h) \/ WriteEthKey(h) PROVE StoreTypes'
  BY <1>0, <1>3 DEF CreateEthKey, WriteEthKey, released, StoreTypes, FileState
<1>4. ASSUME NEW h \in Handlers, AttestEthKey(h) PROVE StoreTypes'
  <2>1. req[h].key \in EnclaveKeys
    BY <1>4 DEF AttestEthKey, TypeOK
  <2> QED BY <1>0, <1>4, <2>1 DEF AttestEthKey, files, StoreTypes
<1>5. ASSUME NEW h \in Handlers, VerifySession(h) \/ GetSession(h) \/ CheckCustody(h) \/ HangUp(h)
      PROVE StoreTypes'
  BY <1>0, <1>5 DEF VerifySession, GetSession, CheckCustody, HangUp, files, released, StoreTypes
<1>6. ASSUME NEW h \in Handlers, OpenShare(h) \/ WriteShare(h) PROVE StoreTypes'
  <2>1. pc[h] \in {"open", "write"} /\ \E st \in FileState : PutShare(h, st)
    BY <1>6 DEF OpenShare, WriteShare, FileState
  <2>2. shareFile' \in [Guardians -> [Shares -> FileState]]
    BY <2>1, PutShareType
  <2> QED BY <1>0, <1>6, <2>2 DEF OpenShare, WriteShare, released, StoreTypes
<1>7. ASSUME NEW h \in Handlers, Approve(h) PROVE StoreTypes'
  <2>1. req[h].key \in EnclaveKeys /\ share[h] \in Shares
    BY <1>7 DEF Approve, TypeOK
  <2>2. /\ Approval(req[h], share[h]).key = req[h].key
        /\ Approval(req[h], share[h]).share = share[h]
    BY DEF Approval
  <2> QED BY <1>0, <1>7, <2>1, <2>2 DEF Approve, files, StoreTypes
<1>8. ASSUME NEW h \in Handlers, CallError(h) \/ WriteError(h) PROVE StoreTypes'
  <2>1. faults' \in 0..MaxFaults
    BY <1>0, <1>8, BoundsAssumption DEF CallError, WriteError, Fault, StoreTypes
  <2>2. CASE CallError(h)
    BY <1>0, <2>1, <2>2 DEF CallError, files, released, StoreTypes
  <2>3. CASE WriteError(h) /\ pc[h] = "write"
    <3>1. PutShare(h, "torn") /\ ethFile' = ethFile
      BY <2>3 DEF WriteError
    <3>2. shareFile' \in [Guardians -> [Shares -> FileState]]
      BY <2>3, <3>1, PutShareType DEF FileState
    <3> QED BY <1>0, <2>1, <2>3, <3>1, <3>2 DEF WriteError, released, StoreTypes
  <2>4. CASE WriteError(h) /\ pc[h] # "write"
    BY <1>0, <2>1, <2>4 DEF WriteError, released, StoreTypes, FileState
  <2> QED BY <1>8, <2>2, <2>3, <2>4
<1>9. CASE SignExit
  BY <1>0, <1>9 DEF SignExit, files, StoreTypes
<1>10. CASE ValidatorKeygen \/ LocalKeygen \/ OwnKeygen
  BY <1>0, <1>10 DEF ValidatorKeygen, LocalKeygen, OwnKeygen, files, released, StoreTypes
<1>11. CASE Revoke
  BY <1>0, <1>11, RevocableAssumption DEF Revoke, files, released, StoreTypes
<1>12. ASSUME NEW x \in Guardians, Crash(x) PROVE StoreTypes'
  <2>1. faults' \in 0..MaxFaults
    BY <1>0, <1>12, BoundsAssumption DEF Crash, Fault, StoreTypes
  <2> QED BY <1>0, <1>12, <2>1 DEF Crash, files, released, StoreTypes
<1> QED BY <1>1, <1>2, <1>3, <1>4, <1>5, <1>6, <1>7, <1>8, <1>9, <1>10, <1>11, <1>12 DEF Next, Step

\* Every step keeps the shape of the handlers' own variables.
LEMMA HandlerShape ==
  TypeOK /\ [Next]_vars =>
    /\ pc' \in [Handlers -> Steps]
    /\ DOMAIN req' = Handlers /\ DOMAIN share' = Handlers
<1> DEFINE Shape == pc \in [Handlers -> Steps] /\ DOMAIN req = Handlers /\ DOMAIN share = Handlers
<1> SUFFICES ASSUME TypeOK, [Next]_vars PROVE Shape'
  OBVIOUS
<1>0. Shape
  BY DEF TypeOK
<1>1. CASE UNCHANGED vars
  BY <1>0, <1>1 DEF vars, work
<1>2. ASSUME NEW h \in Handlers, AttestFreshEthKey(h) \/ ValidateCustody(h) PROVE Shape'
  BY <1>0, <1>2 DEF AttestFreshEthKey, ValidateCustody, Goto, Steps
<1>3. ASSUME NEW h \in Handlers, CreateEthKey(h) \/ OpenShare(h) \/ WriteShare(h) PROVE Shape'
  BY <1>0, <1>3 DEF CreateEthKey, OpenShare, WriteShare, Goto, Steps
<1>4. ASSUME NEW H, Drop(H) PROVE Shape'
  BY <1>0, <1>4 DEF Drop, Steps
<1>5. ASSUME NEW h \in Handlers, Answer(h) PROVE Shape'
  BY <1>4, <1>5 DEF Answer
<1>6. ASSUME NEW h \in Handlers, WriteEthKey(h) \/ VerifySession(h) \/ GetSession(h) \/ CheckCustody(h)
      PROVE Shape'
  <2>1. CASE Answer(h)
    BY <1>5, <2>1
  <2>2. CASE ~Answer(h)
    BY <1>0, <1>6, <2>2 DEF WriteEthKey, VerifySession, GetSession, CheckCustody, Goto, Steps
  <2> QED BY <2>1, <2>2
<1>7. ASSUME NEW h \in Handlers, AttestEthKey(h) \/ Approve(h) \/ HangUp(h) \/ CallError(h) \/ WriteError(h)
      PROVE Shape'
  <2>1. Drop({h})
    BY <1>7 DEF AttestEthKey, Approve, HangUp, CallError, WriteError, Answer
  <2> QED BY <1>4, <2>1
<1>8. CASE SignExit \/ ValidatorKeygen \/ LocalKeygen \/ OwnKeygen \/ Revoke
  BY <1>0, <1>8 DEF SignExit, ValidatorKeygen, LocalKeygen, OwnKeygen, Revoke, work
<1>9. ASSUME NEW x \in Guardians, Crash(x) PROVE Shape'
  BY <1>4, <1>9 DEF Crash
<1> QED BY <1>1, <1>2, <1>3, <1>6, <1>7, <1>8, <1>9 DEF Next, Step

(***************************************************************************)
(* A handler at work keeps the enclave key it began with.                  *)
(***************************************************************************)
LEMMA KeyTypes ==
  ASSUME TypeOK, NEW g \in Handlers, Moves(g)
  PROVE  pc'[g] # "idle" => req'[g].key \in EnclaveKeys
<1>1. pc[g] # "idle" => req[g].key \in EnclaveKeys
  BY DEF TypeOK
<1>2. CASE pc[g] # "idle" /\ req'[g] = req[g]
  BY <1>1, <1>2
<1>3. CASE Same(g) \/ pc'[g] = "idle"
  BY <1>1, <1>3 DEF Same
<1>4. CASE BeginsKeygen(g)
  BY <1>4 DEF BeginsKeygen, KeygenRequest
<1>5. CASE BeginsCustody(g)
  BY <1>5 DEF BeginsCustody, CustodyRequest
<1> QED BY <1>2, <1>3, <1>4, <1>5 DEF Moves, Moved, PassesRegistry, PassesChecks

----------------------------------------------------------------------------
(***************************************************************************)
(* Payloads.  First, a list over a set is a sequence over it.              *)
(***************************************************************************)
LEMMA ListIsSeq ==
  ASSUME NEW S, NEW n \in Nat, NEW f \in [1..n -> S]
  PROVE  f \in Seq(S)
  BY SeqDef

\* What is in a sequence, and in a sequence over a larger set.
LEMMA SeqMember ==
  ASSUME NEW S, NEW f \in Seq(S)
  PROVE  /\ \A i \in DOMAIN f : f[i] \in S
         /\ \A T : S \subseteq T => f \in Seq(T)
<1>1. PICK n \in Nat : f \in [1..n -> S]
  BY SeqDef
<1>2. \A i \in DOMAIN f : f[i] \in S
  BY <1>1
<1>3. ASSUME NEW T, S \subseteq T PROVE f \in Seq(T)
  <2>1. f \in [1..n -> T]
    BY <1>1, <1>3
  <2> QED BY <2>1, ListIsSeq
<1> QED BY <1>2, <1>3

\* The shares of a key generation are encrypted to its guardians.
LEMMA KeysFit ==
  ASSUME NEW v \in KeySets, NEW to \in KeyLists
  PROVE  EncryptShares(v, to) \in Seq(Ciphertexts(v))
<1>1. PICK n \in 1..MaxShares : to \in [1..n -> EnclaveKeys]
  BY DEF KeyLists
<1>2. n \in Nat /\ 1..n \subseteq 1..MaxShares /\ DOMAIN to = 1..n
  BY <1>1, BoundsAssumption
<1>3. EncryptShares(v, to) \in [1..n -> Ciphertexts(v)]
  BY <1>1, <1>2 DEF EncryptShares, Ciphertext, Ciphertexts
<1> QED BY <1>2, <1>3, ListIsSeq

\* A payload without evidence has its shape, as enclaves and the library make it.
LEMMA UnattestedShaped ==
  ASSUME NEW v \in KeySets, NEW to \in KeyLists, NEW wc, NEW signed, NEW stated, NEW by,
         by = "enclave" => signed = stated
  PROVE  Shaped([by |-> by, payload |-> Unattested(v, to, wc, signed, stated)])
<1> DEFINE p == Unattested(v, to, wc, signed, stated)
           m == [by |-> by, payload |-> p]
<1>1. /\ DOMAIN p = Field
      /\ p.bls_pub_key_set = v /\ p.bls_pub_key = v /\ p.guardian_eth_pub_keys = to
      /\ p.withdrawal_credentials = wc /\ p.fork_version = stated
      /\ p.signature = DepositSignature(v, wc, signed)
      /\ p.deposit_data_root = DepositDataRoot(v, wc, p.signature)
      /\ p.bls_enc_priv_key_shares = EncryptShares(v, to)
      /\ p.evidence = NoEvidence
  BY DEF Unattested, Field
<1>2. m.by = by /\ m.payload = p
  OBVIOUS
<1>3. EncryptShares(v, to) \in Seq(Ciphertexts(v))
  BY KeysFit
<1> HIDE DEF p, m
<1>4. Shaped(m)
  BY <1>1, <1>2, <1>3 DEF Shaped
<1> QED BY <1>4 DEF m, p

(***************************************************************************)
(* The evidence covers the payload that it is part of.                     *)
(***************************************************************************)
LEMMA EvidenceCovers ==
  ASSUME NEW p, DOMAIN p = Field, NEW ev
  PROVE  AttestationPayload([p EXCEPT !.evidence = ev]) = AttestationPayload(p)
<1> DEFINE q == [p EXCEPT !.evidence = ev]
<1>1. /\ q.bls_pub_key_set = p.bls_pub_key_set /\ q.signature = p.signature
      /\ q.deposit_data_root = p.deposit_data_root
      /\ q.bls_enc_priv_key_shares = p.bls_enc_priv_key_shares
      /\ q.guardian_eth_pub_keys = p.guardian_eth_pub_keys
  BY DEF Field
<1> HIDE DEF q
<1>2. AttestationPayload(q) = AttestationPayload(p)
  BY <1>1 DEF AttestationPayload
<1> QED BY <1>2 DEF q

(***************************************************************************)
(* Key generations and clients make payloads of this shape, and none of a  *)
(* key that an enclave has generated before.                               *)
(***************************************************************************)
LEMMA MadeInit == Init => MadeInv
  BY DEF Init, MadeInv, AllShaped

\* Only key generations and clients make payloads, and no fault happens then.
LEMMA MadeBy ==
  [Next]_vars =>
    \/ made' = made
    \/ (ValidatorKeygen \/ LocalKeygen \/ OwnKeygen) /\ faults' = faults
<1> SUFFICES ASSUME [Next]_vars, ~(ValidatorKeygen \/ LocalKeygen \/ OwnKeygen) PROVE made' = made
  BY DEF ValidatorKeygen, LocalKeygen, OwnKeygen
<1>1. CASE UNCHANGED vars
  BY <1>1 DEF vars
<1>2. ASSUME NEW h \in Handlers, AttestFreshEthKey(h) \/ ValidateCustody(h) PROVE made' = made
  BY <1>2 DEF AttestFreshEthKey, ValidateCustody
<1>3. ASSUME NEW h \in Handlers, Step(h) PROVE made' = made
  BY <1>3 DEF Step, CreateEthKey, WriteEthKey, CheckCustody, OpenShare, WriteShare, Approve
<1>4. ASSUME NEW h \in Handlers,
             AttestEthKey(h) \/ VerifySession(h) \/ GetSession(h) \/ HangUp(h)
               \/ CallError(h) \/ WriteError(h)
      PROVE  made' = made
  BY <1>4 DEF AttestEthKey, VerifySession, GetSession, HangUp, CallError, WriteError
<1>5. ASSUME SignExit \/ Revoke \/ \E g \in Guardians : Crash(g) PROVE made' = made
  BY <1>5 DEF SignExit, Revoke, Crash
<1> QED BY <1>1, <1>2, <1>3, <1>4, <1>5 DEF Next

\* A validator enclave's payload has the shape, attested or not.
LEMMA EnclaveShaped ==
  ASSUME NEW v \in KeySets, NEW to \in KeyLists, NEW wc, NEW version, NEW s
  PROVE  LET m == [by |-> "enclave", payload |-> attest_fresh_bls_key(v, to, wc, version, s)]
         IN  Shaped(m) /\ m.payload.bls_pub_key_set = v
<1> DEFINE p == Unattested(v, to, wc, version, version)
           q == attest_fresh_bls_key(v, to, wc, version, s)
           ev == [session_id |-> s, signed |-> AttestationPayload(p)]
           m == [by |-> "enclave", payload |-> q]
           n == [by |-> "enclave", payload |-> p]
<1>1. Shaped(n)
  BY UnattestedShaped
<1>2. p.bls_pub_key_set = v /\ DOMAIN p = Field
  BY DEF Unattested, Field
<1>3. CASE s = NoEvidence
  BY <1>1, <1>2, <1>3 DEF attest_fresh_bls_key
<1>4. CASE s # NoEvidence
  <2>1. q = [p EXCEPT !.evidence = ev]
    BY <1>4 DEF attest_fresh_bls_key
  <2>2. m.by = "enclave" /\ m.payload = q /\ n.by = "enclave" /\ n.payload = p
    OBVIOUS
  <2>3. ev.signed = AttestationPayload(p)
    OBVIOUS
  <2> HIDE DEF p, q, ev, m, n
  <2>4. /\ DOMAIN q = Field /\ q.evidence = ev
        /\ \A f \in Field \ {"evidence"} : q[f] = p[f]
    BY <1>2, <2>1 DEF Field
  <2>5. AttestationPayload(q) = AttestationPayload(p)
    BY <1>2, <2>1, EvidenceCovers
  <2>6. /\ q.bls_pub_key_set = p.bls_pub_key_set /\ q.bls_pub_key = p.bls_pub_key
        /\ q.guardian_eth_pub_keys = p.guardian_eth_pub_keys
        /\ q.bls_enc_priv_key_shares = p.bls_enc_priv_key_shares
        /\ q.signature = p.signature /\ q.deposit_data_root = p.deposit_data_root
        /\ q.withdrawal_credentials = p.withdrawal_credentials /\ q.fork_version = p.fork_version
    BY <2>4 DEF Field
  <2>7. Shaped(m)
    BY <1>1, <2>2, <2>3, <2>4, <2>5, <2>6 DEF Shaped
  <2> QED BY <1>2, <2>2, <2>6, <2>7 DEF m, q
<1> QED BY <1>3, <1>4

\* So has the library's, and one that a client makes up.
LEMMA LocalShaped ==
  ASSUME NEW v \in KeySets, NEW to \in KeyLists, NEW wc, NEW version
  PROVE  LET m == [by |-> "local", payload |-> generate_bls_keystore(v, to, wc, version)]
         IN  Shaped(m) /\ m.payload.bls_pub_key_set = v
<1>1. generate_bls_keystore(v, to, wc, version).bls_pub_key_set = v
  BY DEF generate_bls_keystore, Unattested
<1>2. Shaped([by |-> "local", payload |-> generate_bls_keystore(v, to, wc, version)])
  BY UnattestedShaped DEF generate_bls_keystore
<1> QED BY <1>1, <1>2

\* A client may encrypt any of its shares to any enclave keys.
LEMMA OwnShaped ==
  ASSUME NEW v \in KeySets, NEW to \in KeyLists, NEW index \in [DOMAIN to -> 1..MaxShares],
         NEW wc, NEW signed, NEW stated
  PROVE  LET m == [by |-> "client", payload |-> own_keygen_payload(v, index, to, wc, signed, stated)]
         IN  Shaped(m) /\ m.payload.bls_pub_key_set = v
<1> DEFINE p == Unattested(v, to, wc, signed, stated)
           q == own_keygen_payload(v, index, to, wc, signed, stated)
           cs == [i \in DOMAIN to |-> Ciphertext(v, index[i], to[i])]
           m == [by |-> "client", payload |-> q]
           n == [by |-> "client", payload |-> p]
<1>1. Shaped(n)
  BY UnattestedShaped
<1>2. p.bls_pub_key_set = v /\ p.evidence = NoEvidence /\ DOMAIN p = Field
  BY DEF Unattested, Field
<1>3. q = [p EXCEPT !.bls_enc_priv_key_shares = cs]
  BY DEF own_keygen_payload
<1>4. cs \in Seq(Ciphertexts(v))
  <2>1. PICK k \in 1..MaxShares : to \in [1..k -> EnclaveKeys]
    BY DEF KeyLists
  <2>2. k \in Nat /\ DOMAIN to = 1..k
    BY <2>1
  <2>3. cs \in [1..k -> Ciphertexts(v)]
    BY <2>1, <2>2 DEF Ciphertext, Ciphertexts
  <2> QED BY <2>2, <2>3, ListIsSeq
<1>5. m.by = "client" /\ m.payload = q /\ n.by = "client" /\ n.payload = p
  OBVIOUS
<1> HIDE DEF p, q, cs, m, n
<1>6. /\ DOMAIN q = Field /\ q.bls_enc_priv_key_shares = cs
      /\ q.bls_pub_key_set = p.bls_pub_key_set /\ q.bls_pub_key = p.bls_pub_key
      /\ q.guardian_eth_pub_keys = p.guardian_eth_pub_keys /\ q.evidence = p.evidence
      /\ q.signature = p.signature /\ q.deposit_data_root = p.deposit_data_root
      /\ q.withdrawal_credentials = p.withdrawal_credentials /\ q.fork_version = p.fork_version
  BY <1>2, <1>3 DEF Field
<1>7. Shaped(m)
  BY <1>1, <1>2, <1>4, <1>5, <1>6 DEF Shaped
<1> QED BY <1>2, <1>5, <1>6, <1>7 DEF m, q

\* Every payload that is added has the shape, and none is of an enclave's key.
LEMMA MadeStep == TypeOK /\ MadeInv /\ [Next]_vars => MadeInv'
<1> SUFFICES ASSUME TypeOK, MadeInv, [Next]_vars PROVE MadeInv'
  OBVIOUS
<1>0. Recipients \subseteq KeyLists
  BY DEF TypeOK, Recipients, KeyLists
<1>1. CASE made' = made
  BY <1>1 DEF MadeInv
<1>2. ASSUME NEW m, Shaped(m), made' = made \cup {m},
             \A n \in made : n.payload.bls_pub_key_set = m.payload.bls_pub_key_set =>
                               n.by # "enclave" /\ m.by # "enclave"
      PROVE  MadeInv'
  BY <1>2 DEF MadeInv, AllShaped
<1>3. CASE ValidatorKeygen
  <2>1. PICK v \in KeySets, to \in Recipients, wc \in Credentials, version \in Versions,
             s \in Sessions \cup {NoEvidence} :
          /\ Fresh(v)
          /\ made' = made \cup {[by |-> "enclave", payload |-> attest_fresh_bls_key(v, to, wc, version, s)]}
    BY <1>3 DEF ValidatorKeygen
  <2> DEFINE m == [by |-> "enclave", payload |-> attest_fresh_bls_key(v, to, wc, version, s)]
  <2>2. Shaped(m) /\ m.payload.bls_pub_key_set = v
    BY <1>0, EnclaveShaped
  <2> QED BY <1>2, <2>1, <2>2 DEF Fresh
<1>4. CASE LocalKeygen
  <2>1. PICK v \in KeySets, to \in Recipients, wc \in Credentials, version \in Versions :
          /\ Fresh(v)
          /\ made' = made \cup {[by |-> "local", payload |-> generate_bls_keystore(v, to, wc, version)]}
    BY <1>4 DEF LocalKeygen
  <2> DEFINE m == [by |-> "local", payload |-> generate_bls_keystore(v, to, wc, version)]
  <2>2. Shaped(m) /\ m.payload.bls_pub_key_set = v
    BY <1>0, LocalShaped
  <2> QED BY <1>2, <2>1, <2>2 DEF Fresh
<1>5. CASE OwnKeygen
  <2>1. PICK k \in made, to \in Recipients, wc \in Credentials, signed \in Versions, stated \in Versions :
          \E index \in [DOMAIN to -> 1..MaxShares] :
            /\ k.by = "local"
            /\ made' = made \cup
                 {[by |-> "client",
                   payload |-> own_keygen_payload(k.payload.bls_pub_key_set, index, to, wc, signed, stated)]}
    BY <1>5 DEF OwnKeygen
  <2>2. PICK index \in [DOMAIN to -> 1..MaxShares] :
          /\ k.by = "local"
          /\ made' = made \cup
               {[by |-> "client",
                 payload |-> own_keygen_payload(k.payload.bls_pub_key_set, index, to, wc, signed, stated)]}
    BY <2>1
  <2> DEFINE v == k.payload.bls_pub_key_set
             m == [by |-> "client", payload |-> own_keygen_payload(v, index, to, wc, signed, stated)]
  <2>3. v \in KeySets
    BY DEF MadeInv, AllShaped, Shaped
  <2>4. m.by = "client" /\ Shaped(m) /\ m.payload.bls_pub_key_set = v
    <3> HIDE DEF v
    <3> QED BY <1>0, <2>3, OwnShaped
  <2>5. \A n \in made : n.payload.bls_pub_key_set = v => n.by # "enclave"
    BY <2>2 DEF MadeInv, AllShaped
  <2> QED
    <3> HIDE DEF m, v
    <3>1. made' = made \cup {m}
      BY <2>2 DEF m, v
    <3> QED BY <1>2, <2>4, <2>5, <3>1
<1> QED BY <1>1, <1>3, <1>4, <1>5, MadeBy

----------------------------------------------------------------------------
(***************************************************************************)
(* What clients send stems from what was made.                             *)
(***************************************************************************)
LEMMA MadeTraceable ==
  ASSUME MadeInv, NEW m \in made
  PROVE  LET cs == m.payload.bls_enc_priv_key_shares IN
           /\ cs \in Seq([set: KeySets, index: Nat, to: EnclaveKeys])
           /\ \A i \in DOMAIN cs : SharedTo(cs[i].to, ShareIn(cs[i]))
<1> DEFINE cs == m.payload.bls_enc_priv_key_shares  v == m.payload.bls_pub_key_set
<1>1. v \in KeySets /\ cs \in Seq(Ciphertexts(v))
  BY DEF MadeInv, AllShaped, Shaped
<1>2. \A i \in DOMAIN cs : SharedTo(cs[i].to, ShareIn(cs[i]))
  BY DEF SharedTo, SharedIn
<1> HIDE DEF cs, v
<1>3. Ciphertexts(v) \subseteq [set: KeySets, index: Nat, to: EnclaveKeys]
  BY <1>1 DEF Ciphertexts
<1>4. cs \in Seq([set: KeySets, index: Nat, to: EnclaveKeys])
  BY <1>1, <1>3, SeqMember
<1> QED BY <1>2, <1>4 DEF cs

\* Mixing fields of two payloads, or reversing shares, invents no ciphertext and no evidence.
LEMMA Sent ==
  ASSUME MadeInv, NEW p \in Sendable
  PROVE  Traceable(made, p) /\ EvidenceGenuine(made, p)
<1>1. ASSUME NEW m \in made, NEW n \in made, NEW F,
             p = [f \in Field |-> IF f \in F THEN n.payload[f] ELSE m.payload[f]]
      PROVE  Traceable(made, p) /\ EvidenceGenuine(made, p)
  <2>1. /\ "bls_enc_priv_key_shares" \in Field /\ "evidence" \in Field
    BY DEF Field
  <2>2. \E k \in {m, n} : p.bls_enc_priv_key_shares = k.payload.bls_enc_priv_key_shares
    BY <1>1, <2>1
  <2>3. \E k \in {m, n} : p.evidence = k.payload.evidence
    BY <1>1, <2>1
  <2>4. Traceable(made, p)
    <3>1. PICK k \in made : p.bls_enc_priv_key_shares = k.payload.bls_enc_priv_key_shares
      BY <2>2
    <3> DEFINE cs == k.payload.bls_enc_priv_key_shares
    <3>2. /\ cs \in Seq([set: KeySets, index: Nat, to: EnclaveKeys])
          /\ \A i \in DOMAIN cs : SharedTo(cs[i].to, ShareIn(cs[i]))
      BY MadeTraceable
    <3> HIDE DEF cs
    <3>3. DOMAIN cs \subseteq Nat
      BY <3>2
    <3> QED BY <3>1, <3>2, <3>3 DEF Traceable, SharedTo, cs
  <2>5. EvidenceGenuine(made, p)
    <3>1. PICK k \in made : p.evidence = k.payload.evidence
      BY <2>3
    <3>2. Shaped(k)
      BY DEF MadeInv, AllShaped
    <3> QED BY <3>1, <3>2 DEF EvidenceGenuine, Shaped
  <2> QED BY <2>4, <2>5
<1>2. ASSUME NEW m \in made, p = [m.payload EXCEPT !.bls_enc_priv_key_shares = Reverse(@)]
      PROVE  Traceable(made, p) /\ EvidenceGenuine(made, p)
  <2> DEFINE cs == m.payload.bls_enc_priv_key_shares
  <2>1. Shaped(m)
    BY DEF MadeInv, AllShaped
  <2>2. DOMAIN m.payload = Field
    BY <2>1 DEF Shaped
  <2>3. p.bls_enc_priv_key_shares = Reverse(cs) /\ p.evidence = m.payload.evidence
    BY <1>2, <2>2 DEF Field
  <2>4. /\ cs \in Seq([set: KeySets, index: Nat, to: EnclaveKeys])
        /\ \A i \in DOMAIN cs : SharedTo(cs[i].to, ShareIn(cs[i]))
    BY MadeTraceable
  <2>5. Traceable(made, p)
    <3> HIDE DEF cs
    <3>1. /\ DOMAIN Reverse(cs) = DOMAIN cs /\ DOMAIN cs \subseteq Nat
          /\ \A i \in DOMAIN Reverse(cs) : \E j \in DOMAIN cs : Reverse(cs)[i] = cs[j]
      BY <2>4 DEF Reverse
    <3> QED BY <2>3, <2>4, <3>1 DEF Traceable, SharedTo
  <2>6. EvidenceGenuine(made, p)
    BY <2>1, <2>3 DEF EvidenceGenuine, Shaped
  <2> QED BY <2>5, <2>6
<1>3. \/ \E m \in made, n \in made, F \in UNION {kSubset(k, Field) : k \in 0..MaxForeign} :
           p = [f \in Field |-> IF f \in F THEN n.payload[f] ELSE m.payload[f]]
      \/ \E m \in made : p = [m.payload EXCEPT !.bls_enc_priv_key_shares = Reverse(@)]
  BY SMTT(30) DEF Sendable
<1> QED BY <1>1, <1>2, <1>3

(***************************************************************************)
(* A guardian takes the first share that opens with its key: it was made   *)
(* for that key.                                                           *)
(***************************************************************************)
LEMMA HasMin ==
  ASSUME NEW S, S \subseteq Nat, S # {}
  PROVE  Min(S) \in S
<1> DEFINE R == {ss \in Nat \X Nat : ss[1] < ss[2]}
<1>1. IsWellFoundedOn(R, Nat)
  BY NatLessThanWellFounded DEF OpToRel
<1>2. \E x \in S : \A y \in S : ~ (<<y, x>> \in R)
  <2> HIDE DEF R
  <2> QED BY <1>1, WFMin
<1>3. PICK x \in S : \A y \in S : ~ (<<y, x>> \in R)
  BY <1>2
<1>4. ASSUME NEW y \in S PROVE x <= y
  <2>1. x \in Nat /\ y \in Nat
    OBVIOUS
  <2>2. ~ (<<y, x>> \in R)
    BY <1>3
  <2>3. ~ (y < x)
    BY <2>1, <2>2
  <2> QED BY <2>1, <2>3
<1>5. \E z \in S : \A y \in S : z <= y
  BY <1>4
<1>6. Min(S) = CHOOSE z \in S : \A y \in S : z <= y
  BY DEF Min
<1> HIDE DEF R
<1> QED BY <1>5, <1>6

\* What was encrypted is a share, to an enclave key.
LEMMA SharedTypes ==
  ASSUME NEW M, AllShaped(M), NEW e, NEW s, SharedIn(M, e, s)
  PROVE  e \in EnclaveKeys /\ s \in Shares
<1>1. PICK m \in M :
        LET cs == m.payload.bls_enc_priv_key_shares IN
          \E j \in DOMAIN cs : cs[j].to = e /\ ShareIn(cs[j]) = s
  BY DEF SharedIn
<1> DEFINE cs == m.payload.bls_enc_priv_key_shares  v == m.payload.bls_pub_key_set
<1>2. PICK j \in DOMAIN cs : cs[j].to = e /\ ShareIn(cs[j]) = s
  BY <1>1
<1>3. v \in KeySets /\ cs \in Seq(Ciphertexts(v))
  BY DEF AllShaped, Shaped
<1> HIDE DEF cs, v
<1>4. cs[j] \in Ciphertexts(v)
  BY <1>2, <1>3, SeqMember
<1>5. /\ cs[j].set \in KeySets /\ cs[j].to \in EnclaveKeys
      /\ cs[j].index \in 1..MaxShares /\ 1 \in 1..MaxShares
  BY <1>3, <1>4, BoundsAssumption DEF Ciphertexts
<1>6. ShareIn(cs[j]) \in Shares
  BY <1>5 DEF ShareIn, KeyShare, Shares
<1> QED BY <1>2, <1>5, <1>6

\* A share that passes verify_custody was encrypted to the enclave key that opened it.
LEMMA ShareShared ==
  ASSUME MadeInv, NEW p, Traceable(made, p), NEW e, verify_custody(p, e)
  PROVE  /\ SharedTo(e, ShareFor(p, e)) /\ ShareFor(p, e) \in Shares
         /\ ShareFor(p, e).set = p.bls_pub_key_set
<1> DEFINE i == Min(CustodyAt(p, e))  c == p.bls_enc_priv_key_shares[i]
<1>1. CustodyAt(p, e) # {} /\ CustodyAt(p, e) \subseteq Nat
  BY DEF verify_custody, CustodyAt, Traceable
<1>2. i \in CustodyAt(p, e)
  BY <1>1, HasMin
<1>3. /\ i \in DOMAIN p.bls_enc_priv_key_shares /\ c.to = e
      /\ ShareIn(c) = KeyShare(p.bls_pub_key_set, i)
  BY <1>2 DEF CustodyAt, decrypt_sk_share
<1>4. ShareFor(p, e) = ShareIn(c)
  BY DEF ShareFor
<1> HIDE DEF i, c
<1>5. SharedTo(e, ShareIn(c))
  BY <1>3 DEF Traceable, SharedTo, c
<1>6. ShareIn(c).set = p.bls_pub_key_set
  BY <1>3 DEF KeyShare
<1>7. ShareIn(c) \in Shares
  BY <1>5, SharedTypes DEF MadeInv, SharedTo
<1> QED BY <1>4, <1>5, <1>6, <1>7

----------------------------------------------------------------------------
(***************************************************************************)
(* Requests.  What was made is never taken back, and a session stays       *)
(* revoked, so what holds of a request at a step goes on to hold.          *)
(***************************************************************************)
LEMMA TracesStay ==
  ASSUME NEW M, NEW N, M \subseteq N
  PROVE  /\ \A e, s : SharedIn(M, e, s) => SharedIn(N, e, s)
         /\ \A p : Traceable(M, p) => Traceable(N, p)
         /\ \A p : EvidenceGenuine(M, p) => EvidenceGenuine(N, p)
<1>1. \A e, s : SharedIn(M, e, s) => SharedIn(N, e, s)
  BY DEF SharedIn
<1>2. \A p : Traceable(M, p) => Traceable(N, p)
  BY <1>1 DEF Traceable
<1>3. \A p : EvidenceGenuine(M, p) => EvidenceGenuine(N, p)
  BY DEF EvidenceGenuine
<1> QED BY <1>1, <1>2, <1>3

\* What holds of a request goes on to hold when more payloads are made or sessions revoked.
LEMMA CustodyInvStays ==
  ASSUME NEW M, NEW N, M \subseteq N, NEW R, NEW S, R \subseteq S, NEW step, NEW q, NEW s,
         CustodyInv(M, R, step, q, s)
  PROVE  CustodyInv(N, S, step, q, s)
<1>1. ReceivedInv(M, R, q) => ReceivedInv(N, S, q)
  BY TracesStay DEF ReceivedInv
<1>2. CheckedInv(M, q, s) => CheckedInv(N, q, s)
  BY TracesStay DEF CheckedInv
<1> QED BY <1>1, <1>2 DEF CustodyInv

\* No request is in work at first.
LEMMA RequestInit == Init => RequestsInv
  BY DEF Init, RequestsInv, RequestInv, CustodyInv, CustodySteps, SettledSteps, CheckedSteps

\* Every step of a custody handler keeps what has been established about its request.
LEMMA RequestStep == TypeOK /\ MadeInv /\ RequestsInv /\ [Next]_vars => RequestsInv'
<1> SUFFICES ASSUME TypeOK, MadeInv, RequestsInv, [Next]_vars, NEW g \in Handlers
             PROVE  RequestInv(g)'
  BY DEF RequestsInv
<1>0. /\ Moves(g) /\ made \subseteq made' /\ revoked \subseteq revoked'
      /\ CustodyInv(made, revoked, pc[g], req[g], share[g])
  BY HandlersMove, Growth DEF Grows, RequestsInv, RequestInv
<1> DEFINE q == req[g]  p == q.payload
<1>1. CustodyInv(made', revoked', pc[g], req[g], share[g])
  BY <1>0, CustodyInvStays
<1> SUFFICES CustodyInv(made', revoked', pc'[g], req'[g], share'[g])
  BY DEF RequestInv
<1> USE DEF CustodySteps, SettledSteps, CheckedSteps
<1>2. CASE Same(g)
  BY <1>1, <1>2 DEF Same
<1>3. CASE pc'[g] = "idle"
  BY <1>3 DEF CustodyInv
<1>4. CASE BeginsKeygen(g)
  BY <1>4 DEF CustodyInv, BeginsKeygen
<1>5. CASE BeginsCustody(g)
  <2>0. PICK e \in EnclaveKeys, p1 \in Sendable, verify \in BOOLEAN : \E w :
          /\ ~verify => w = NoWorkload
          /\ verify => p1.evidence # NoEvidence
          /\ req'[g] = CustodyRequest(e, p1, verify, w)
          /\ pc'[g] = IF verify THEN "verify_session" ELSE "custody"
    BY <1>5 DEF BeginsCustody
  <2>1. PICK w :
          /\ ~verify => w = NoWorkload
          /\ verify => p1.evidence # NoEvidence
          /\ req'[g] = CustodyRequest(e, p1, verify, w)
          /\ pc'[g] = IF verify THEN "verify_session" ELSE "custody"
    BY <2>0
  <2>2. Traceable(made', p1) /\ EvidenceGenuine(made', p1)
    BY <1>0, Sent, TracesStay
  <2>3. /\ req'[g].key = e /\ req'[g].payload = p1 /\ req'[g].verify = verify
        /\ req'[g].workload = w
        /\ req'[g].late = (verify /\ p1.evidence.session_id \in revoked)
    BY <2>1 DEF CustodyRequest
  <2>4. ReceivedInv(made', revoked', req'[g])
    BY <1>0, <2>1, <2>2, <2>3 DEF ReceivedInv
  <2>5. ~verify => VerifiedInv(req'[g]) /\ SettledInv(req'[g])
    BY <2>3 DEF VerifiedInv, SettledInv
  <2> QED BY <2>1, <2>4, <2>5 DEF CustodyInv
<1>6. CASE PassesRegistry(g)
  <2>1. req'[g] = req[g] /\ ReceivedInv(made', revoked', req[g]) /\ ReceivedInv(made, revoked, req[g])
    BY <1>0, <1>1, <1>6 DEF PassesRegistry, Moved, CustodyInv
  <2>2. CASE pc[g] = "verify_session"
    <3>1. SessionVerified(p) /\ pc'[g] \in {"get_session", "custody"}
      BY <1>6, <2>2 DEF PassesRegistry, Moved
    <3>2. VerifiedInv(req[g])
      BY <2>1, <3>1 DEF ReceivedInv, VerifiedInv, SessionVerified
    <3>3. pc'[g] = "custody" => SettledInv(req[g])
      BY <1>6, <2>2 DEF PassesRegistry, Moved, SettledInv
    <3> QED BY <2>1, <3>1, <3>2, <3>3 DEF CustodyInv
  <2>3. CASE pc[g] = "get_session"
    <3>1. VerifiedInv(req[g]) /\ SettledInv(req[g]) /\ pc'[g] = "custody"
      BY <1>1, <1>6, <2>3 DEF PassesRegistry, Moved, CustodyInv, SettledInv
    <3> QED BY <2>1, <3>1 DEF CustodyInv
  <2> QED BY <1>6, <2>2, <2>3 DEF PassesRegistry, Moved
<1>7. CASE PassesChecks(g)
  <2>1. /\ req'[g] = req[g] /\ pc'[g] = "open"
        /\ ReceivedInv(made', revoked', req[g]) /\ VerifiedInv(req[g]) /\ SettledInv(req[g])
    BY <1>1, <1>7 DEF PassesChecks, CustodyInv
  <2>2. Traceable(made, p) /\ verify_custody(p, q.key)
    BY <1>0, <1>7 DEF PassesChecks, CustodyInv, ReceivedInv
  <2>3. /\ SharedTo(q.key, ShareFor(p, q.key)) /\ ShareFor(p, q.key) \in Shares
        /\ ShareFor(p, q.key).set = p.bls_pub_key_set
    BY <2>2, ShareShared
  <2>4. SharedIn(made', q.key, ShareFor(p, q.key))
    BY <1>0, <2>3, TracesStay DEF SharedTo
  <2>5. CheckedInv(made', req[g], share'[g])
    BY <1>7, <2>3, <2>4 DEF PassesChecks, CheckedInv
  <2> QED BY <2>1, <2>5 DEF CustodyInv
<1>8. CASE Moved(g, "create", "write_key") \/ Moved(g, "write_key", "attest")
  BY <1>8 DEF Moved, CustodyInv
<1>9. CASE Moved(g, "open", "write") \/ Moved(g, "write", "approve")
  BY <1>1, <1>9 DEF Moved, CustodyInv
<1> QED BY <1>0, <1>2, <1>3, <1>4, <1>5, <1>6, <1>7, <1>8, <1>9 DEF Moves

----------------------------------------------------------------------------
(***************************************************************************)
(* Share files, approvals and exits change only at five steps; any other   *)
(* step leaves a handler that is about to write or to approve where it is, *)
(* unless a fault stops it.                                                *)
(***************************************************************************)
Others(h) == \A x \in Handlers \ {h} : Same(x)

Quiet ==
  /\ shareFile' = shareFile /\ approvals' = approvals /\ exits' = exits
  /\ \A h \in Handlers : pc[h] = "write" =>
       Same(h) \/ (faults' = faults + 1 /\ Crash(Home[req[h].key]))
  /\ \A h \in Handlers : pc'[h] \in {"write", "approve"} => Same(h)

FailedWrite(h) == pc[h] = "write" /\ WriteError(h)

\* Only five kinds of step touch share files, approvals or exits.
LEMMA NextCases ==
  TypeOK /\ [Next]_vars =>
    \/ Quiet \/ SignExit
    \/ \E h \in Handlers : OpenShare(h) \/ WriteShare(h) \/ Approve(h) \/ FailedWrite(h)
<1> SUFFICES ASSUME TypeOK, [Next]_vars,
                    ~ (\/ SignExit
                       \/ \E h \in Handlers :
                            OpenShare(h) \/ WriteShare(h) \/ Approve(h) \/ FailedWrite(h))
             PROVE  Quiet
  OBVIOUS
<1>0. pc \in [Handlers -> Steps] /\ DOMAIN req = Handlers /\ DOMAIN share = Handlers
  BY DEF TypeOK
<1>1. CASE UNCHANGED vars
  BY <1>1 DEF vars, files, work, released, Quiet, Same
<1>2. ASSUME NEW h \in Handlers, AttestFreshEthKey(h) PROVE Quiet
  BY <1>0, <1>2 DEF AttestFreshEthKey, Goto, files, released, Quiet, Same
<1>3. ASSUME NEW h \in Handlers, ValidateCustody(h) PROVE Quiet
  <2>1. /\ pc[h] = "idle" /\ \E step \in {"verify_session", "custody"} : pc' = [pc EXCEPT ![h] = step]
        /\ \E q : req' = [req EXCEPT ![h] = q]
        /\ share' = share /\ shareFile' = shareFile /\ approvals' = approvals /\ exits' = exits
    BY <1>3 DEF ValidateCustody, Goto, files, released
  <2> QED BY <1>0, <2>1 DEF Quiet, Same
<1>4. ASSUME NEW h \in Handlers, CreateEthKey(h) PROVE Quiet
  BY <1>0, <1>4 DEF CreateEthKey, Goto, released, Quiet, Same
<1>5. ASSUME NEW H, Drop(H),
             \A h \in H : pc[h] = "write" => faults' = faults + 1 /\ Crash(Home[req[h].key]),
             shareFile' = shareFile, approvals' = approvals, exits' = exits
      PROVE  Quiet
  BY <1>0, <1>5 DEF Drop, Quiet, Same
<1>6. ASSUME NEW h \in Handlers, WriteEthKey(h) \/ VerifySession(h) \/ GetSession(h) \/ CheckCustody(h)
      PROVE  Quiet
  <2>1. /\ shareFile' = shareFile /\ approvals' = approvals /\ exits' = exits
        /\ pc[h] # "write"
    BY <1>6 DEF WriteEthKey, VerifySession, GetSession, CheckCustody, files, released
  <2>2. CASE Answer(h)
    BY <1>5, <2>1, <2>2 DEF Answer
  <2>3. CASE ~Answer(h)
    <3>1. /\ \E step \in {"attest", "custody", "get_session", "open"} : pc' = [pc EXCEPT ![h] = step]
          /\ req' = req /\ \A x \in Handlers \ {h} : share'[x] = share[x]
      BY <1>0, <1>6, <2>3 DEF WriteEthKey, VerifySession, GetSession, CheckCustody, Goto
    <3> QED BY <1>0, <2>1, <3>1 DEF Quiet, Same
  <2> QED BY <2>2, <2>3
<1>7. ASSUME NEW h \in Handlers, AttestEthKey(h) \/ HangUp(h) \/ CallError(h) PROVE Quiet
  <2>1. /\ Drop({h}) /\ pc[h] # "write"
        /\ shareFile' = shareFile /\ approvals' = approvals /\ exits' = exits
    BY <1>7 DEF AttestEthKey, HangUp, CallError, Answer, files, released
  <2> QED BY <1>5, <2>1
<1>8. ASSUME NEW h \in Handlers, WriteError(h) PROVE Quiet
  <2>1. /\ Drop({h}) /\ pc[h] # "write"
        /\ shareFile' = shareFile /\ approvals' = approvals /\ exits' = exits
    BY <1>8 DEF WriteError, FailedWrite, Answer, files, released
  <2> QED BY <1>5, <2>1
<1>9. CASE ValidatorKeygen \/ LocalKeygen \/ OwnKeygen \/ Revoke
  BY <1>9 DEF ValidatorKeygen, LocalKeygen, OwnKeygen, Revoke, files, work, released, Quiet, Same
<1>10. ASSUME NEW g \in Guardians, Crash(g) PROVE Quiet
  <2>1. /\ Drop(WorkOf(g)) /\ faults' = faults + 1
        /\ shareFile' = shareFile /\ approvals' = approvals /\ exits' = exits
    BY <1>10 DEF Crash, Fault, files, released
  <2>2. \A h \in WorkOf(g) : Home[req[h].key] = g
    BY DEF WorkOf
  <2> QED BY <1>5, <1>10, <2>1, <2>2
<1> QED BY <1>1, <1>2, <1>3, <1>4, <1>6, <1>7, <1>8, <1>9, <1>10 DEF Next, Step

(***************************************************************************)
(* The three steps at a share file and the approval, seen from a handler.  *)
(***************************************************************************)
LEMMA OpenEffect ==
  ASSUME TypeOK, NEW h \in Handlers, OpenShare(h)
  PROVE  /\ Moved(h, "open", "write") /\ Others(h)
         /\ PutShare(h, "empty") /\ approvals' = approvals /\ exits' = exits
         /\ made' = made /\ faults' = faults
  BY DEF OpenShare, Goto, TypeOK, released, Moved, Others, Same

\* Completing the write of a share file.
LEMMA WriteEffect ==
  ASSUME TypeOK, NEW h \in Handlers, WriteShare(h)
  PROVE  /\ Moved(h, "write", "approve") /\ Others(h)
         /\ PutShare(h, "ok") /\ approvals' = approvals /\ exits' = exits
         /\ made' = made /\ faults' = faults
  BY DEF WriteShare, Goto, TypeOK, released, Moved, Others, Same

\* A write of a share file that fails half way.
LEMMA FailEffect ==
  ASSUME TypeOK, NEW h \in Handlers, FailedWrite(h)
  PROVE  /\ pc[h] = "write" /\ pc'[h] = "idle" /\ Others(h)
         /\ PutShare(h, "torn") /\ approvals' = approvals /\ exits' = exits
         /\ made' = made /\ faults' = faults + 1
  BY DEF FailedWrite, WriteError, Fault, Answer, Drop, TypeOK, released, Others, Same

\* Releasing an approval.
LEMMA ApproveEffect ==
  ASSUME TypeOK, NEW h \in Handlers, Approve(h)
  PROVE  /\ pc[h] = "approve" /\ pc'[h] = "idle" /\ Others(h)
         /\ approvals' = approvals \cup {Approval(req[h], share[h])}
         /\ shareFile' = shareFile /\ exits' = exits /\ made' = made /\ faults' = faults
  BY DEF Approve, Answer, Drop, TypeOK, files, Others, Same

\* Signing an exit.
LEMMA ExitEffect ==
  ASSUME TypeOK, SignExit
  PROVE  /\ \A h \in Handlers : Same(h)
         /\ \E g \in Guardians, s \in Shares :
              shareFile[g][s] = "ok" /\ exits' = exits \cup {[guardian |-> g, share |-> s]}
         /\ shareFile' = shareFile /\ approvals' = approvals /\ made' = made /\ faults' = faults
  BY DEF SignExit, files, work, Same

----------------------------------------------------------------------------
(***************************************************************************)
(* A share on disk stays there, but for a repeated request that is about   *)
(* to write it again, and for faults.                                      *)
(***************************************************************************)
LEMMA RewritingStays ==
  ASSUME NEW g, NEW s, NEW h \in Handlers, Same(h),
         pc[h] = "write", Home[req[h].key] = g, share[h] = s
  PROVE  Backed(g, s)'
  BY DEF Same, Rewriting, Backed

\* A share on disk stays there, or is being written again, unless there is a fault.
LEMMA BackedStays ==
  ASSUME TypeOK, [Next]_vars, NEW g \in Guardians, NEW s \in Shares, Backed(g, s)
  PROVE  Backed(g, s)'
<1>0. faults \in Nat /\ (faults' = faults \/ faults' = faults + 1)
  BY BoundsAssumption, Growth DEF TypeOK, Grows
<1>1. CASE faults > 0 \/ faults' = faults + 1
  BY <1>0, <1>1 DEF Backed
<1>2. ASSUME NEW h \in Handlers, Rewriting(g, s), Others(h), ~(share[h] = s /\ Home[req[h].key] = g /\ pc[h] = "write")
      PROVE  Backed(g, s)'
  <2>1. PICK x \in Handlers : pc[x] = "write" /\ Home[req[x].key] = g /\ share[x] = s
    BY <1>2 DEF Rewriting
  <2>2. Same(x)
    BY <1>2, <2>1 DEF Others
  <2> QED BY <2>1, <2>2, RewritingStays
<1>3. CASE Quiet /\ faults' # faults + 1
  <2>1. CASE shareFile[g][s] = "ok"
    BY <1>3, <2>1 DEF Quiet, Backed
  <2>2. CASE Rewriting(g, s)
    <3>1. PICK x \in Handlers : pc[x] = "write" /\ Home[req[x].key] = g /\ share[x] = s
      BY <2>2 DEF Rewriting
    <3>2. Same(x)
      BY <1>3, <3>1 DEF Quiet
    <3> QED BY <3>1, <3>2, RewritingStays
  <2> QED BY <1>1, <2>1, <2>2 DEF Backed
<1>4. ASSUME NEW h \in Handlers, OpenShare(h) PROVE Backed(g, s)'
  <2>1. /\ Moved(h, "open", "write") /\ Others(h) /\ PutShare(h, "empty")
    BY <1>4, OpenEffect
  <2>2. \A x \in Guardians, y \in Shares :
          shareFile'[x][y] = IF x = Home[req[h].key] /\ y = share[h] THEN "empty" ELSE shareFile[x][y]
    BY <2>1, PutShareType DEF Moved, FileState
  <2>3. CASE g = Home[req[h].key] /\ s = share[h]
    BY <2>1, <2>3 DEF Moved, Backed, Rewriting
  <2>4. CASE ~(g = Home[req[h].key] /\ s = share[h])
    <3>1. CASE shareFile[g][s] = "ok"
      BY <2>2, <2>4, <3>1 DEF Backed
    <3>2. CASE Rewriting(g, s)
      BY <1>2, <2>1, <2>4, <3>2
    <3> QED BY <1>1, <3>1, <3>2 DEF Backed
  <2> QED BY <2>3, <2>4
<1>5. ASSUME NEW h \in Handlers, WriteShare(h) PROVE Backed(g, s)'
  <2>1. /\ Moved(h, "write", "approve") /\ Others(h) /\ PutShare(h, "ok")
    BY <1>5, WriteEffect
  <2>2. \A x \in Guardians, y \in Shares :
          shareFile'[x][y] = IF x = Home[req[h].key] /\ y = share[h] THEN "ok" ELSE shareFile[x][y]
    BY <2>1, PutShareType DEF Moved, FileState
  <2>3. CASE shareFile[g][s] = "ok" \/ (g = Home[req[h].key] /\ s = share[h])
    BY <2>2, <2>3 DEF Backed
  <2>4. CASE Rewriting(g, s) /\ ~(g = Home[req[h].key] /\ s = share[h])
    BY <1>2, <2>1, <2>4
  <2> QED BY <1>1, <2>3, <2>4 DEF Backed
<1>6. ASSUME NEW h \in Handlers, FailedWrite(h) PROVE Backed(g, s)'
  BY <1>1, <1>6, FailEffect
<1>7. ASSUME NEW h \in Handlers, Approve(h) PROVE Backed(g, s)'
  <2>1. pc[h] = "approve" /\ Others(h) /\ shareFile' = shareFile
    BY <1>7, ApproveEffect
  <2>2. CASE shareFile[g][s] = "ok"
    BY <2>1, <2>2 DEF Backed
  <2>3. CASE Rewriting(g, s)
    BY <1>2, <2>1, <2>3
  <2> QED BY <1>1, <2>2, <2>3 DEF Backed
<1>8. CASE SignExit
  <2>1. (\A h \in Handlers : Same(h)) /\ shareFile' = shareFile
    BY <1>8, ExitEffect
  <2>2. CASE Rewriting(g, s)
    <3>1. PICK x \in Handlers : pc[x] = "write" /\ Home[req[x].key] = g /\ share[x] = s
      BY <2>2 DEF Rewriting
    <3> QED BY <2>1, <3>1, RewritingStays
  <2> QED BY <1>1, <2>1, <2>2 DEF Backed
<1> QED BY <1>1, <1>3, <1>4, <1>5, <1>6, <1>7, <1>8, NextCases

(***************************************************************************)
(* Files.                                                                  *)
(***************************************************************************)
LEMMA DealtIs ==
  /\ \A e, s : [key |-> e, share |-> s] \in Dealt <=> SharedIn(made, e, s)
  /\ \A e, s : [key |-> e, share |-> s] \in Dealt' <=> SharedIn(made', e, s)
  /\ \A x \in Dealt : x = [key |-> x.key, share |-> x.share]
  /\ \A x \in Dealt' : x = [key |-> x.key, share |-> x.share]
<1> DEFINE D(M) == {[key |-> c.to, share |-> ShareIn(c)] :
                      c \in UNION {Range(m.payload.bls_enc_priv_key_shares) : m \in M}}
<1>1. ASSUME NEW M, NEW e, NEW s PROVE [key |-> e, share |-> s] \in D(M) <=> SharedIn(M, e, s)
  <2> DEFINE C == UNION {Range(m.payload.bls_enc_priv_key_shares) : m \in M}
  <2>1. SharedIn(M, e, s) <=> \E c \in C : c.to = e /\ ShareIn(c) = s
    BY DEF SharedIn, Range
  <2> HIDE DEF C
  <2>2. [key |-> e, share |-> s] \in {[key |-> c.to, share |-> ShareIn(c)] : c \in C}
          <=> \E c \in C : c.to = e /\ ShareIn(c) = s
    OBVIOUS
  <2> QED BY <2>1, <2>2 DEF C
<1>2. \A M : \A x \in D(M) : x = [key |-> x.key, share |-> x.share]
  OBVIOUS
<1>3. Dealt = D(made) /\ Dealt' = D(made')
  BY DEF Dealt
<1> HIDE DEF D
<1> QED BY <1>1, <1>2, <1>3

\* A share on its way is one that its guardian is entitled to.
LEMMA SharedEntitled ==
  ASSUME NEW e, NEW s, SharedTo(e, s)
  PROVE  Entitled(Home[e], s)
<1>1. [key |-> e, share |-> s] \in Dealt
  BY DealtIs DEF SharedTo
<1> QED BY <1>1 DEF Entitled

\* What was dealt stays so.
LEMMA DealtStays ==
  ASSUME TypeOK, [Next]_vars
  PROVE  Dealt \subseteq Dealt'
<1>1. \A e, s : SharedIn(made, e, s) => SharedIn(made', e, s)
  BY Growth, TracesStay DEF Grows
<1>2. ASSUME NEW x \in Dealt PROVE x \in Dealt'
  BY <1>1, DealtIs
<1> QED BY <1>2

\* Who is entitled to a share stays so.
LEMMA EntitledStays ==
  ASSUME TypeOK, [Next]_vars, NEW g, NEW s, Entitled(g, s)
  PROVE  Entitled(g, s)'
  BY DealtStays DEF Entitled

\* There are no share files at first.
LEMMA FilesInit == Init => FilesInv
  BY DEF Init, FilesInv, SharesAtRecipients

\* No step puts a share where it does not belong, or signs an exit there.
LEMMA RecipientsStep ==
  TypeOK /\ RequestsInv /\ SharesAtRecipients /\ [Next]_vars => SharesAtRecipients'
<1> SUFFICES ASSUME TypeOK, RequestsInv, SharesAtRecipients, [Next]_vars PROVE SharesAtRecipients'
  OBVIOUS
<1>1. \A g, s : Entitled(g, s) => Entitled(g, s)'
  BY EntitledStays
<1>2. CASE shareFile' = shareFile /\ exits' = exits
  BY <1>1, <1>2 DEF SharesAtRecipients
<1>3. ASSUME NEW h \in Handlers, NEW st \in FileState, pc[h] \in {"open", "write"},
             PutShare(h, st), exits' = exits
      PROVE  SharesAtRecipients'
  <2>1. Entitled(Home[req[h].key], share[h])
    <3>1. SharedTo(req[h].key, share[h])
      BY <1>3 DEF RequestsInv, RequestInv, CustodyInv, CheckedInv, CheckedSteps, SharedTo
    <3> QED BY <3>1, SharedEntitled
  <2>2. \A g \in Guardians, s \in Shares :
          shareFile'[g][s] = IF g = Home[req[h].key] /\ s = share[h] THEN st ELSE shareFile[g][s]
    BY <1>3, PutShareType
  <2>3. \A g \in Guardians, s \in Shares : shareFile'[g][s] # "absent" => Entitled(g, s)
    BY <2>1, <2>2 DEF SharesAtRecipients
  <2>4. \A x \in exits' : Entitled(x.guardian, x.share)
    BY <1>3 DEF SharesAtRecipients
  <2> QED BY <1>1, <2>3, <2>4 DEF SharesAtRecipients
<1>4. CASE SignExit
  <2>1. PICK g \in Guardians, s \in Shares :
          shareFile[g][s] = "ok" /\ exits' = exits \cup {[guardian |-> g, share |-> s]}
    BY <1>4, ExitEffect
  <2>2. Entitled(g, s)
    BY <2>1 DEF SharesAtRecipients
  <2>3. \A x \in exits' : Entitled(x.guardian, x.share)
    BY <2>1, <2>2 DEF SharesAtRecipients
  <2>4. \A a \in Guardians, b \in Shares : shareFile'[a][b] # "absent" => Entitled(a, b)
    BY <1>4, ExitEffect DEF SharesAtRecipients
  <2> QED BY <1>1, <2>3, <2>4 DEF SharesAtRecipients
<1>5. ASSUME NEW h \in Handlers, OpenShare(h) \/ WriteShare(h) \/ FailedWrite(h)
      PROVE  \E st \in FileState : PutShare(h, st) /\ pc[h] \in {"open", "write"} /\ exits' = exits
  BY <1>5, OpenEffect, WriteEffect, FailEffect DEF FileState, Moved
<1>6. ASSUME NEW h \in Handlers, Approve(h) PROVE shareFile' = shareFile /\ exits' = exits
  BY <1>6, ApproveEffect
<1> QED BY <1>2, <1>3, <1>4, <1>5, <1>6, NextCases DEF Quiet

\* Every step keeps the share files as they should be.
LEMMA FilesStep == TypeOK /\ RequestsInv /\ FilesInv /\ [Next]_vars => FilesInv'
<1> SUFFICES ASSUME TypeOK, RequestsInv, FilesInv, [Next]_vars PROVE FilesInv'
  OBVIOUS
<1>1. SharesAtRecipients'
  BY RecipientsStep DEF FilesInv
<1>2. ASSUME NEW h \in Handlers, pc'[h] = "approve"
      PROVE  Backed(Home[req[h].key], share[h])'
  <2>1. CASE Same(h)
    <3>1. pc[h] = "approve" /\ Home[req[h].key] \in Guardians /\ share[h] \in Shares
      BY <1>2, <2>1, HomeAssumption DEF Same, TypeOK
    <3>2. \A g \in Guardians, s \in Shares : Backed(g, s) => Backed(g, s)'
      BY BackedStays
    <3>3. Backed(Home[req[h].key], share[h])
      BY <3>1 DEF FilesInv
    <3> DEFINE x == Home[req[h].key]  y == share[h]
    <3>4. shareFile'[x][y] = "ok" \/ (\E z \in Handlers : pc'[z] = "write" /\ Home[req'[z].key] = x /\ share'[z] = y) \/ faults' > 0
      BY <3>1, <3>2, <3>3 DEF Backed, Rewriting
    <3> QED BY <2>1, <3>4 DEF Same, Backed, Rewriting
  <2>2. CASE WriteShare(h)
    <3>1. Moved(h, "write", "approve") /\ PutShare(h, "ok")
      BY <2>2, WriteEffect
    <3>2. shareFile'[Home[req[h].key]][share[h]] = "ok"
      BY <3>1, PutShareType DEF Moved, FileState
    <3> QED BY <3>1, <3>2 DEF Moved, Backed
  <2>3. Same(h) \/ WriteShare(h)
    BY <1>2, NextCases, OpenEffect, WriteEffect, FailEffect, ApproveEffect, ExitEffect
       DEF Quiet, Others, Moved
  <2> QED BY <2>1, <2>2, <2>3
<1> QED BY <1>1, <1>2 DEF FilesInv

----------------------------------------------------------------------------
(***************************************************************************)
(* Approvals.                                                              *)
(***************************************************************************)
LEMMA ApprovalsInit == Init => ApprovalsTraced /\ ApprovalsAttested /\ NoLateApproval
  BY DEF Init, ApprovalsTraced, ApprovalsAttested, NoLateApproval

\* Only a handler that approves adds an approval.
LEMMA ApprovalsCases ==
  TypeOK /\ [Next]_vars =>
    approvals' = approvals \/ \E h \in Handlers : Approve(h)
  BY NextCases, OpenEffect, WriteEffect, FailEffect, ExitEffect DEF Quiet

\* A new approval stands for a share that was encrypted to its key, on disk.
LEMMA TracedStep ==
  TypeOK /\ RequestsInv /\ FilesInv /\ ApprovalsTraced /\ [Next]_vars => ApprovalsTraced'
<1> SUFFICES ASSUME TypeOK, RequestsInv, FilesInv, ApprovalsTraced, [Next]_vars
             PROVE  ApprovalsTraced'
  OBVIOUS
<1>1. /\ \A e, s : SharedTo(e, s) => SharedTo(e, s)'
      /\ \A g \in Guardians, s \in Shares : Backed(g, s) => Backed(g, s)'
  <2>1. made \subseteq made'
    BY Growth DEF Grows
  <2>2. \A e, s : SharedTo(e, s) => SharedTo(e, s)'
    BY <2>1, TracesStay DEF SharedTo
  <2> QED BY <2>2, BackedStays
<1> DEFINE Good(a) == /\ a.key \in EnclaveKeys /\ a.share \in Shares
                      /\ SharedTo(a.key, a.share) /\ a.share.set = a.pubkey
                      /\ Backed(Home[a.key], a.share)
<1>2. \A a \in approvals : Good(a)
  BY DEF ApprovalsTraced, TypeOK
<1>3. ASSUME NEW h \in Handlers, Approve(h) PROVE Good(Approval(req[h], share[h]))
  <2>1. pc[h] = "approve"
    BY <1>3, ApproveEffect
  <2>2. /\ req[h].key \in EnclaveKeys /\ share[h] \in Shares
        /\ SharedTo(req[h].key, share[h]) /\ share[h].set = req[h].payload.bls_pub_key_set
    BY <2>1 DEF TypeOK, RequestsInv, RequestInv, CustodyInv, CheckedInv, CheckedSteps, SharedTo
  <2>3. Backed(Home[req[h].key], share[h])
    BY <2>1 DEF FilesInv
  <2> QED BY <2>2, <2>3 DEF Approval
<1>4. \A a \in approvals' : Good(a)
  BY <1>2, <1>3, ApprovalsCases, ApproveEffect
<1>5. ASSUME NEW a, Good(a)
      PROVE  SharedTo(a.key, a.share)' /\ a.share.set = a.pubkey /\ Backed(Home[a.key], a.share)'
  BY <1>1, <1>5, HomeAssumption
<1> HIDE DEF Good
<1> QED BY <1>4, <1>5 DEF ApprovalsTraced

(***************************************************************************)
(* A verified request that passes the checks is, in all that the approval  *)
(* covers, one that an attested key generation made.                       *)
(***************************************************************************)
LEMMA VerifiedGenuine ==
  ASSUME MadeInv, NEW q, q.verify, NEW s,
         ReceivedInv(made, revoked, q), VerifiedInv(q), CheckedInv(made, q, s)
  PROVE  \E m \in made :
           /\ m.by = "enclave" /\ m.payload.evidence # NoEvidence
           /\ m.payload.evidence = q.payload.evidence
           /\ q.payload.bls_pub_key_set = m.payload.bls_pub_key_set
           /\ q.payload.withdrawal_credentials = m.payload.withdrawal_credentials
           /\ q.payload.signature = m.payload.signature
           /\ DepositDataRoot(q.payload.bls_pub_key_set, q.payload.withdrawal_credentials,
                              q.payload.signature) = m.payload.deposit_data_root
<1> DEFINE p == q.payload
<1>1. PICK m \in made : m.by = "enclave" /\ p.evidence = m.payload.evidence
  BY DEF ReceivedInv, EvidenceGenuine
<1>2. p.evidence # NoEvidence /\ p.evidence.signed = AttestationPayload(p)
  BY DEF ReceivedInv, VerifiedInv, verify_session_signature
<1> DEFINE n == m.payload
<1>3. /\ n.evidence.signed = AttestationPayload(n)
      /\ \E signed : n.signature = DepositSignature(n.bls_pub_key_set, n.withdrawal_credentials, signed)
      /\ n.deposit_data_root = DepositDataRoot(n.bls_pub_key_set, n.withdrawal_credentials, n.signature)
  <2>1. Shaped(m)
    BY DEF MadeInv, AllShaped
  <2> QED BY <1>1, <1>2, <2>1 DEF Shaped
<1>4. p.signature = DepositSignature(p.bls_pub_key_set, p.withdrawal_credentials, p.fork_version)
  BY DEF CheckedInv, verify_deposit_message
<1> HIDE DEF p, n
<1>5. AttestationPayload(p) = AttestationPayload(n)
  BY <1>1, <1>2, <1>3 DEF n
<1>6. p.bls_pub_key_set = n.bls_pub_key_set /\ p.signature = n.signature
  BY <1>5 DEF AttestationPayload
<1>7. p.withdrawal_credentials = n.withdrawal_credentials
  BY <1>3, <1>4, <1>6 DEF DepositSignature
<1>8. DepositDataRoot(p.bls_pub_key_set, p.withdrawal_credentials, p.signature) = n.deposit_data_root
  BY <1>3, <1>6, <1>7
<1> QED BY <1>1, <1>2, <1>6, <1>7, <1>8 DEF p, n

\* A new approval under verify_session has its payload among those made in attested enclaves.
LEMMA AttestedStep ==
  /\ TypeOK /\ MadeInv /\ RequestsInv /\ ApprovalsAttested /\ NoLateApproval /\ [Next]_vars
  => ApprovalsAttested' /\ NoLateApproval'
<1> SUFFICES ASSUME TypeOK, MadeInv, RequestsInv, ApprovalsAttested, NoLateApproval, [Next]_vars
             PROVE  ApprovalsAttested' /\ NoLateApproval'
  OBVIOUS
<1> DEFINE Attested(M, a) ==
      a.verify =>
        \E m \in M :
          /\ m.by = "enclave" /\ m.payload.evidence # NoEvidence
          /\ a.workload # NoWorkload => WorkloadOf[m.payload.evidence.session_id] = a.workload
          /\ a.pubkey = m.payload.bls_pub_key_set
          /\ a.withdrawal_credentials = m.payload.withdrawal_credentials
          /\ a.signature = m.payload.signature
          /\ a.deposit_data_root = m.payload.deposit_data_root
<1>1. \A a \in approvals : Attested(made, a) /\ ~a.late
  BY DEF ApprovalsAttested, NoLateApproval
<1>2. ASSUME NEW h \in Handlers, Approve(h)
      PROVE  Attested(made, Approval(req[h], share[h])) /\ ~Approval(req[h], share[h]).late
  <2> DEFINE q == req[h]  a == Approval(q, share[h])
  <2>1. /\ ReceivedInv(made, revoked, q) /\ VerifiedInv(q) /\ SettledInv(q)
        /\ CheckedInv(made, q, share[h])
    BY <1>2, ApproveEffect
       DEF RequestsInv, RequestInv, CustodyInv, CustodySteps, SettledSteps, CheckedSteps
  <2>2. /\ a.verify = q.verify /\ a.workload = q.workload /\ a.late = q.late
        /\ a.pubkey = q.payload.bls_pub_key_set
        /\ a.withdrawal_credentials = q.payload.withdrawal_credentials
        /\ a.signature = q.payload.signature
        /\ a.deposit_data_root =
             DepositDataRoot(q.payload.bls_pub_key_set, q.payload.withdrawal_credentials,
                             q.payload.signature)
    BY DEF Approval
  <2> HIDE DEF q, a
  <2>3. ~a.late
    BY <2>1, <2>2 DEF VerifiedInv
  <2>4. ASSUME a.verify
        PROVE  \E m \in made :
                 /\ m.by = "enclave" /\ m.payload.evidence # NoEvidence
                 /\ a.workload # NoWorkload => WorkloadOf[m.payload.evidence.session_id] = a.workload
                 /\ a.pubkey = m.payload.bls_pub_key_set
                 /\ a.withdrawal_credentials = m.payload.withdrawal_credentials
                 /\ a.signature = m.payload.signature
                 /\ a.deposit_data_root = m.payload.deposit_data_root
    <3>1. PICK m \in made :
            /\ m.by = "enclave" /\ m.payload.evidence # NoEvidence
            /\ m.payload.evidence = q.payload.evidence
            /\ q.payload.bls_pub_key_set = m.payload.bls_pub_key_set
            /\ q.payload.withdrawal_credentials = m.payload.withdrawal_credentials
            /\ q.payload.signature = m.payload.signature
            /\ DepositDataRoot(q.payload.bls_pub_key_set, q.payload.withdrawal_credentials,
                               q.payload.signature) = m.payload.deposit_data_root
      BY <2>1, <2>2, <2>4, VerifiedGenuine
    <3> QED BY <2>1, <2>2, <2>4, <3>1 DEF SettledInv
  <2> QED BY <2>3, <2>4 DEF q, a
<1>3. \A a \in approvals' : Attested(made, a) /\ ~a.late
  BY <1>1, <1>2, ApprovalsCases, ApproveEffect
<1>4. \A a : Attested(made, a) => Attested(made', a)
  BY Growth DEF Grows
<1> QED BY <1>3, <1>4 DEF ApprovalsAttested, NoLateApproval

----------------------------------------------------------------------------
(***************************************************************************)
(* Enclave keys.  A key belongs to one generation until it is handed out.  *)
(***************************************************************************)
KeysQuiet ==
  /\ ethFile' = ethFile /\ published' = published
  /\ \A h \in Handlers : pc'[h] \in KeygenSteps => Same(h)

FailedKeyWrite(h) == pc[h] = "write_key" /\ WriteError(h)

\* Only the steps of enclave key generation touch enclave keys.
LEMMA KeyCases ==
  TypeOK /\ [Next]_vars =>
    \/ KeysQuiet
    \/ \E h \in Handlers :
         AttestFreshEthKey(h) \/ CreateEthKey(h) \/ WriteEthKey(h) \/ AttestEthKey(h) \/ FailedKeyWrite(h)
<1> SUFFICES ASSUME TypeOK, [Next]_vars,
                    ~ \E h \in Handlers : \/ AttestFreshEthKey(h) \/ CreateEthKey(h)
                                          \/ WriteEthKey(h) \/ AttestEthKey(h) \/ FailedKeyWrite(h)
             PROVE  KeysQuiet
  OBVIOUS
<1> USE DEF KeygenSteps
<1>0. pc \in [Handlers -> Steps] /\ DOMAIN req = Handlers /\ DOMAIN share = Handlers
  BY DEF TypeOK
<1>1. CASE UNCHANGED vars
  BY <1>1 DEF vars, files, work, released, KeysQuiet, Same
<1>2. ASSUME NEW H, Drop(H), ethFile' = ethFile, published' = published PROVE KeysQuiet
  BY <1>0, <1>2 DEF Drop, KeysQuiet, Same
<1>3. ASSUME NEW h \in Handlers, ValidateCustody(h) PROVE KeysQuiet
  <2>1. /\ \E step \in {"verify_session", "custody"} : pc' = [pc EXCEPT ![h] = step]
        /\ \E q : req' = [req EXCEPT ![h] = q]
        /\ share' = share /\ ethFile' = ethFile /\ published' = published
    BY <1>3 DEF ValidateCustody, Goto, files, released
  <2> QED BY <1>0, <2>1 DEF KeysQuiet, Same
<1>4. ASSUME NEW h \in Handlers, VerifySession(h) \/ GetSession(h) \/ CheckCustody(h) PROVE KeysQuiet
  <2>1. ethFile' = ethFile /\ published' = published
    BY <1>4 DEF VerifySession, GetSession, CheckCustody, files, released
  <2>2. CASE Answer(h)
    BY <1>2, <2>1, <2>2 DEF Answer
  <2>3. CASE ~Answer(h)
    <3>1. /\ \E step \in {"custody", "get_session", "open"} : pc' = [pc EXCEPT ![h] = step]
          /\ req' = req /\ \A x \in Handlers \ {h} : share'[x] = share[x]
      BY <1>0, <1>4, <2>3 DEF VerifySession, GetSession, CheckCustody, Goto
    <3> QED BY <1>0, <2>1, <3>1 DEF KeysQuiet, Same
  <2> QED BY <2>2, <2>3
<1>5. ASSUME NEW h \in Handlers, OpenShare(h) \/ WriteShare(h) PROVE KeysQuiet
  <2>1. /\ \E step \in {"write", "approve"} : pc' = [pc EXCEPT ![h] = step]
        /\ req' = req /\ share' = share /\ ethFile' = ethFile /\ published' = published
    BY <1>5 DEF OpenShare, WriteShare, Goto, released
  <2> QED BY <1>0, <2>1 DEF KeysQuiet, Same
<1>6. ASSUME NEW h \in Handlers, Approve(h) \/ HangUp(h) \/ CallError(h) PROVE KeysQuiet
  <2>1. Drop({h}) /\ ethFile' = ethFile /\ published' = published
    BY <1>6 DEF Approve, HangUp, CallError, Answer, files, released
  <2> QED BY <1>2, <2>1
<1>7. ASSUME NEW h \in Handlers, WriteError(h) PROVE KeysQuiet
  <2>1. Drop({h}) /\ ethFile' = ethFile /\ published' = published
    BY <1>7 DEF WriteError, FailedKeyWrite, Answer, released
  <2> QED BY <1>2, <2>1
<1>8. CASE SignExit \/ ValidatorKeygen \/ LocalKeygen \/ OwnKeygen \/ Revoke
  BY <1>8 DEF SignExit, ValidatorKeygen, LocalKeygen, OwnKeygen, Revoke, files, work, released, KeysQuiet, Same
<1>9. ASSUME NEW g \in Guardians, Crash(g) PROVE KeysQuiet
  BY <1>2, <1>9 DEF Crash, files, released
<1> QED BY <1>1, <1>3, <1>4, <1>5, <1>6, <1>7, <1>8, <1>9 DEF Next, Step

\* No enclave key is there at first.
LEMMA KeygenInit == Init => KeygenInv
  BY DEF Init, KeygenInv, KeygenSteps, PublishedKeysKept

\* No step damages an enclave key that was handed out.
LEMMA KeygenStep == TypeOK /\ KeygenInv /\ [Next]_vars => KeygenInv'
<1> SUFFICES ASSUME TypeOK, KeygenInv, [Next]_vars PROVE KeygenInv'
  OBVIOUS
<1> USE DEF KeygenSteps
<1>0. /\ pc \in [Handlers -> Steps] /\ DOMAIN req = Handlers /\ DOMAIN share = Handlers
      /\ ethFile \in [EnclaveKeys -> FileState] /\ published \subseteq EnclaveKeys
  BY DEF TypeOK
<1>1. CASE KeysQuiet
  BY <1>1 DEF KeysQuiet, Same, KeygenInv, PublishedKeysKept
<1>2. ASSUME NEW h \in Handlers, AttestFreshEthKey(h) PROVE KeygenInv'
  <2>1. PICK e \in EnclaveKeys :
          /\ ethFile[e] = "absent" /\ \A g \in Handlers : req[g] # KeygenRequest(e)
          /\ req' = [req EXCEPT ![h] = KeygenRequest(e)] /\ pc' = [pc EXCEPT ![h] = "create"]
          /\ ethFile' = ethFile /\ published' = published
    BY <1>2 DEF AttestFreshEthKey, Goto, files, released
  <2>2. KeygenRequest(e).key = e /\ e \notin published
    BY <2>1 DEF KeygenRequest, KeygenInv, PublishedKeysKept
  <2>3. ASSUME NEW g \in Handlers, pc[g] \in KeygenSteps PROVE req[g].key # e
    <3>1. PICK f \in EnclaveKeys : req[g] = KeygenRequest(f)
      BY <2>3 DEF KeygenInv
    <3>2. f # e /\ KeygenRequest(f).key = f
      BY <2>1, <3>1 DEF KeygenRequest
    <3> QED BY <3>1, <3>2
  <2> QED BY <1>0, <2>1, <2>2, <2>3 DEF KeygenInv, PublishedKeysKept
<1>3. ASSUME NEW h \in Handlers, CreateEthKey(h) PROVE KeygenInv'
  <2>1. /\ pc[h] = "create" /\ pc' = [pc EXCEPT ![h] = "write_key"] /\ req' = req
        /\ ethFile' = [ethFile EXCEPT ![req[h].key] = "empty"] /\ published' = published
    BY <1>3 DEF CreateEthKey, Goto, released
  <2> QED BY <1>0, <2>1 DEF KeygenInv, PublishedKeysKept
<1>4. ASSUME NEW h \in Handlers, WriteEthKey(h) PROVE KeygenInv'
  <2>1. /\ pc[h] = "write_key" /\ published' = published /\ req[h].key \in EnclaveKeys
        /\ ethFile' = [ethFile EXCEPT ![req[h].key] = "ok"]
    BY <1>0, <1>4 DEF WriteEthKey, released, TypeOK
  <2>2. /\ pc'[h] \in {"attest", "idle"} /\ (pc'[h] = "attest" => req'[h] = req[h])
        /\ \A g \in Handlers \ {h} : pc'[g] = pc[g] /\ req'[g] = req[g]
    BY <1>0, <1>4 DEF WriteEthKey, Goto, Answer, Drop
  <2> QED BY <1>0, <2>1, <2>2 DEF KeygenInv, PublishedKeysKept
<1>5. ASSUME NEW h \in Handlers, AttestEthKey(h) PROVE KeygenInv'
  <2>1. /\ pc[h] = "attest" /\ ethFile' = ethFile
        /\ published' \subseteq published \cup {req[h].key}
    BY <1>5 DEF AttestEthKey, files
  <2>2. /\ pc'[h] = "idle" /\ \A g \in Handlers \ {h} : pc'[g] = pc[g] /\ req'[g] = req[g]
    BY <1>0, <1>5 DEF AttestEthKey, Answer, Drop
  <2> QED BY <2>1, <2>2 DEF KeygenInv, PublishedKeysKept
<1>6. ASSUME NEW h \in Handlers, FailedKeyWrite(h) PROVE KeygenInv'
  <2>1. /\ pc[h] = "write_key" /\ published' = published
        /\ ethFile' = [ethFile EXCEPT ![req[h].key] = "torn"]
    BY <1>6 DEF FailedKeyWrite, WriteError, released
  <2>2. /\ pc'[h] = "idle" /\ \A g \in Handlers \ {h} : pc'[g] = pc[g] /\ req'[g] = req[g]
    BY <1>0, <1>6 DEF FailedKeyWrite, WriteError, Answer, Drop
  <2> QED BY <1>0, <2>1, <2>2 DEF KeygenInv, PublishedKeysKept
<1> QED BY <1>1, <1>2, <1>3, <1>4, <1>5, <1>6, KeyCases

----------------------------------------------------------------------------
(***************************************************************************)
(* The types of handlers at work follow from what holds of their requests. *)
(***************************************************************************)
LEMMA TypeStep == TypeOK /\ MadeInv /\ RequestsInv /\ [Next]_vars => TypeOK'
<1> SUFFICES ASSUME TypeOK, MadeInv, RequestsInv, [Next]_vars PROVE TypeOK'
  OBVIOUS
<1>1. StoreTypes' /\ pc' \in [Handlers -> Steps] /\ DOMAIN req' = Handlers /\ DOMAIN share' = Handlers
  BY StoreStep, HandlerShape
<1>2. \A h \in Handlers : pc'[h] # "idle" => req'[h].key \in EnclaveKeys
  BY HandlersMove, KeyTypes
<1>3. \A h \in Handlers : pc'[h] \in {"open", "write", "approve"} => share'[h] \in Shares
  <2>1. RequestsInv'
    BY RequestStep
  <2> QED BY <2>1 DEF RequestsInv, RequestInv, CustodyInv, CheckedInv, CheckedSteps
<1> QED BY <1>1, <1>2, <1>3 DEF TypeOK, StoreTypes

(***************************************************************************)
(* The inductive invariant.                                                *)
(***************************************************************************)
THEOREM GuardianInvariant == Spec => []GuardianInv
<1>1. Init => GuardianInv
  BY TypeInit, MadeInit, RequestInit, FilesInit, ApprovalsInit, KeygenInit DEF GuardianInv
<1>2. GuardianInv /\ [Next]_vars => GuardianInv'
  BY TypeStep, MadeStep, RequestStep, FilesStep, TracedStep, AttestedStep, KeygenStep DEF GuardianInv
<1> QED BY <1>1, <1>2, PTL DEF Spec

(***************************************************************************)
(* Every variable keeps its type, and a handler at work has a request for  *)
(* a key of its guardian.                                                  *)
(***************************************************************************)
THEOREM GuardianTypes == Spec => []TypeOK
  BY GuardianInvariant, PTL DEF GuardianInv

(***************************************************************************)
(* An approval given under verify_session covers exactly what one attested *)
(* key generation of a validator enclave produced.                         *)
(***************************************************************************)
THEOREM VerifiedApprovals == Spec => []ApprovalsAttested
  BY GuardianInvariant, PTL DEF GuardianInv

(***************************************************************************)
(* No approval on the word of a session that was revoked before the        *)
(* request came.                                                           *)
(***************************************************************************)
THEOREM RevokedBefore == Spec => []NoLateApproval
  BY GuardianInvariant, PTL DEF GuardianInv

(***************************************************************************)
(* Enclave keys that were handed out are complete on disk.                 *)
(***************************************************************************)
THEOREM PublishedKept == Spec => []PublishedKeysKept
  BY GuardianInvariant, PTL DEF GuardianInv, KeygenInv

(***************************************************************************)
(* A share reaches only the guardian it was encrypted for, which alone     *)
(* signs exits with it.                                                    *)
(***************************************************************************)
THEOREM OnlyRecipients == Spec => []SharesAtRecipients
  BY GuardianInvariant, PTL DEF GuardianInv, FilesInv

(***************************************************************************)
(* Of a key that an enclave generated for a threshold of 2 or more, each   *)
(* share was encrypted to one enclave key only: its shares differ, and     *)
(* nobody else has them to encrypt them again.                             *)
(***************************************************************************)
LEMMA OneKeyPerShare ==
  ASSUME NEW M, AllShaped(M), NEW s, Threshold[s.set] > 1,
         NEW k \in M, k.by = "enclave", k.payload.bls_pub_key_set = s.set,
         NEW e, NEW f, SharedIn(M, e, s), SharedIn(M, f, s)
  PROVE  e = f
<1> DEFINE v == k.payload.bls_pub_key_set
           to == k.payload.guardian_eth_pub_keys
           ks == k.payload.bls_enc_priv_key_shares
<1>1. ASSUME NEW d, SharedIn(M, d, s) PROVE d = to[s.index]
  <2>1. PICK m \in M :
          LET cs == m.payload.bls_enc_priv_key_shares IN
            \E i \in DOMAIN cs : cs[i].to = d /\ ShareIn(cs[i]) = s
    BY <1>1 DEF SharedIn
  <2> DEFINE cs == m.payload.bls_enc_priv_key_shares
  <2>2. PICK i \in DOMAIN cs : cs[i].to = d /\ ShareIn(cs[i]) = s
    BY <2>1
  <2>3. cs \in Seq(Ciphertexts(m.payload.bls_pub_key_set))
    BY DEF AllShaped, Shaped
  <2>4. cs[i].set = m.payload.bls_pub_key_set
    <3> HIDE DEF cs
    <3>1. cs[i] \in Ciphertexts(m.payload.bls_pub_key_set)
      BY <2>2, <2>3, SeqMember
    <3> QED BY <3>1 DEF Ciphertexts
  <2>5. s.set = m.payload.bls_pub_key_set
    BY <2>2, <2>4 DEF ShareIn, KeyShare
  <2>6. m = k
    BY <2>5 DEF AllShaped
  <2>7. cs = EncryptShares(v, to)
    BY <2>6 DEF AllShaped, Shaped
  <2>8. i \in DOMAIN to /\ cs[i] = Ciphertext(v, i, to[i])
    <3> HIDE DEF cs, v, to
    <3> QED BY <2>2, <2>7 DEF EncryptShares
  <2>9. s.index = i /\ d = to[i]
    <3> HIDE DEF cs, to
    <3> QED BY <2>2, <2>8 DEF Ciphertext, ShareIn, KeyShare
  <2> QED BY <2>9
<1> HIDE DEF to
<1> QED BY <1>1

(***************************************************************************)
(* Approvals stand for shares on the guardians' disks, unless a repeated   *)
(* request was cut short by a fault; of a key that an enclave generated    *)
(* for a threshold of 2 or more, those by different enclave keys stand for *)
(* different shares.                                                       *)
(***************************************************************************)
THEOREM ApprovalsAreBacked == Spec => []ApprovalsBackedByShares
<1>1. GuardianInv => ApprovalsBackedByShares
  <2> SUFFICES ASSUME GuardianInv PROVE ApprovalsBackedByShares
    OBVIOUS
  <2>1. ASSUME NEW a \in approvals, NEW b \in approvals, a.pubkey = b.pubkey, a.key # b.key,
               EnclaveMade(a.pubkey), Threshold[a.pubkey] > 1
        PROVE  a.share # b.share
    <3>1. /\ SharedIn(made, a.key, a.share) /\ SharedIn(made, b.key, b.share)
          /\ a.share.set = a.pubkey /\ AllShaped(made)
      BY DEF GuardianInv, ApprovalsTraced, SharedTo, MadeInv
    <3>2. PICK k \in made : k.by = "enclave" /\ k.payload.bls_pub_key_set = a.share.set
      BY <2>1, <3>1 DEF EnclaveMade
    <3> QED BY <2>1, <3>1, <3>2, OneKeyPerShare
  <2>2. \A a \in approvals : a.share.set = a.pubkey /\ Backed(Home[a.key], a.share)
    BY DEF GuardianInv, ApprovalsTraced
  <2> QED BY <2>1, <2>2 DEF ApprovalsBackedByShares, Backed
<1>2. Spec => []GuardianInv
  BY GuardianInvariant
<1> QED BY <1>1, <1>2, PTL

----------------------------------------------------------------------------
(***************************************************************************)
(* The guardians implement the abstract custody.  First, how a step        *)
(* changes who holds a share, in files or in hand.                         *)
(***************************************************************************)
Grants == {[key |-> a.key, share |-> a.share] : a \in approvals}

\* What is held, in terms of single shares.
LEMMA HoldingsAre ==
  /\ Holdings = {x \in [guardian: Guardians, share: Shares] : Held(x.guardian, x.share)}
  /\ Holdings' = {x \in [guardian: Guardians, share: Shares] : Held(x.guardian, x.share)'}
  BY DEF Holdings

\* A quiet step adds no share, and without a fault it loses none.
LEMMA QuietHeld ==
  ASSUME Quiet
  PROVE  /\ \A g \in Guardians, s \in Shares : Held(g, s)' => Held(g, s)
         /\ faults' # faults + 1 => \A g \in Guardians, s \in Shares : Held(g, s) => Held(g, s)'
  BY DEF Quiet, Same, Held, Rewriting

\* A handler at another share leaves this one as it is.
LEMMA OthersHeld ==
  ASSUME NEW h \in Handlers, Others(h), NEW g, NEW s,
         ~(Home[req[h].key] = g /\ share[h] = s), Home[req'[h].key] = g /\ share'[h] = s => pc'[h] # "write"
  PROVE  Rewriting(g, s)' <=> Rewriting(g, s)
  BY DEF Others, Same, Rewriting

\* Truncating the file of a share is receiving the share, or having it still.
LEMMA OpenHeld ==
  ASSUME TypeOK, NEW h \in Handlers, OpenShare(h)
  PROVE  \A g \in Guardians, s \in Shares :
           Held(g, s)' <=> Held(g, s) \/ (g = Home[req[h].key] /\ s = share[h])
<1>1. Moved(h, "open", "write") /\ Others(h) /\ PutShare(h, "empty")
  BY OpenEffect
<1>2. \A g \in Guardians, s \in Shares :
        shareFile'[g][s] = IF g = Home[req[h].key] /\ s = share[h] THEN "empty" ELSE shareFile[g][s]
  BY <1>1, PutShareType DEF Moved, FileState
<1>3. ASSUME NEW g \in Guardians, NEW s \in Shares, g = Home[req[h].key], s = share[h]
      PROVE  Held(g, s)'
  BY <1>1, <1>3 DEF Moved, Held, Rewriting
<1>4. ASSUME NEW g \in Guardians, NEW s \in Shares, ~(g = Home[req[h].key] /\ s = share[h])
      PROVE  Held(g, s)' <=> Held(g, s)
  <2>1. Rewriting(g, s)' <=> Rewriting(g, s)
    BY <1>1, <1>4, OthersHeld DEF Moved
  <2> QED BY <1>2, <1>4, <2>1 DEF Held
<1> QED BY <1>3, <1>4

\* Completing the write leaves everything held as it was.
LEMMA WriteHeld ==
  ASSUME TypeOK, NEW h \in Handlers, WriteShare(h)
  PROVE  \A g \in Guardians, s \in Shares : Held(g, s)' <=> Held(g, s)
<1>1. Moved(h, "write", "approve") /\ Others(h) /\ PutShare(h, "ok")
  BY WriteEffect
<1>2. \A g \in Guardians, s \in Shares :
        shareFile'[g][s] = IF g = Home[req[h].key] /\ s = share[h] THEN "ok" ELSE shareFile[g][s]
  BY <1>1, PutShareType DEF Moved, FileState
<1>3. ASSUME NEW g \in Guardians, NEW s \in Shares, g = Home[req[h].key], s = share[h]
      PROVE  Held(g, s) /\ Held(g, s)'
  BY <1>1, <1>2, <1>3 DEF Moved, Held, Rewriting
<1>4. ASSUME NEW g \in Guardians, NEW s \in Shares, ~(g = Home[req[h].key] /\ s = share[h])
      PROVE  Held(g, s)' <=> Held(g, s)
  <2>1. Rewriting(g, s)' <=> Rewriting(g, s)
    BY <1>1, <1>4, OthersHeld DEF Moved
  <2> QED BY <1>2, <1>4, <2>1 DEF Held
<1> QED BY <1>3, <1>4

\* A write that fails adds nothing, and takes away no other share.
LEMMA FailHeld ==
  ASSUME TypeOK, NEW h \in Handlers, FailedWrite(h)
  PROVE  \A g \in Guardians, s \in Shares :
           /\ Held(g, s)' => Held(g, s)
           /\ Held(g, s) => Held(g, s)' \/ (g = Home[req[h].key] /\ s = share[h])
<1>1. pc[h] = "write" /\ pc'[h] = "idle" /\ Others(h) /\ PutShare(h, "torn")
  BY FailEffect
<1>2. \A g \in Guardians, s \in Shares :
        shareFile'[g][s] = IF g = Home[req[h].key] /\ s = share[h] THEN "torn" ELSE shareFile[g][s]
  BY <1>1, PutShareType DEF FileState
<1>3. ASSUME NEW g \in Guardians, NEW s \in Shares, g = Home[req[h].key], s = share[h]
      PROVE  Held(g, s)
  BY <1>1, <1>3 DEF Held, Rewriting
<1>4. ASSUME NEW g \in Guardians, NEW s \in Shares, ~(g = Home[req[h].key] /\ s = share[h])
      PROVE  Held(g, s)' <=> Held(g, s)
  <2>1. Rewriting(g, s)' <=> Rewriting(g, s)
    BY <1>1, <1>4, OthersHeld
  <2> QED BY <1>2, <1>4, <2>1 DEF Held
<1> QED BY <1>3, <1>4

\* Approvals and exits leave everything held as it was.
LEMMA StillHeld ==
  ASSUME TypeOK, SignExit \/ \E h \in Handlers : Approve(h)
  PROVE  \A g \in Guardians, s \in Shares : Held(g, s)' <=> Held(g, s)
<1>1. shareFile' = shareFile /\ \A h \in Handlers : pc[h] = "write" \/ pc'[h] = "write" => Same(h)
  BY ApproveEffect, ExitEffect DEF Others
<1> QED BY <1>1 DEF Same, Held, Rewriting

(***************************************************************************)
(* Who holds a share is entitled to it.                                    *)
(***************************************************************************)
LEMMA HeldEntitled ==
  ASSUME GuardianInv, NEW g \in Guardians, NEW s \in Shares, Held(g, s)
  PROVE  Entitled(g, s)
<1>1. CASE shareFile[g][s] = "ok"
  BY <1>1 DEF GuardianInv, FilesInv, SharesAtRecipients
<1>2. CASE Rewriting(g, s)
  <2>1. PICK x \in Handlers : pc[x] = "write" /\ Home[req[x].key] = g /\ share[x] = s
    BY <1>2 DEF Rewriting
  <2>2. SharedTo(req[x].key, share[x])
    BY <2>1 DEF GuardianInv, RequestsInv, RequestInv, CustodyInv, CheckedInv, CheckedSteps, SharedTo
  <2>3. Entitled(Home[req[x].key], share[x])
    BY <2>2, SharedEntitled
  <2> QED BY <2>1, <2>3
<1> QED BY <1>1, <1>2 DEF Held

\* The initial states map to initial states.
LEMMA CustodyInit == Init => Promise!Init
  BY DEF Init, Promise!Init, Dealt, Sole, EnclaveMade, Holdings, Held, Rewriting

\* What is dealt is a share for an enclave key, a sole one for one key only.
LEMMA DealsAreShares ==
  ASSUME GuardianInv, [Next]_vars
  PROVE  /\ Dealt' \subseteq [key: EnclaveKeys, share: Shares]
         /\ \A x, y \in Dealt' : x.share = y.share /\ x.share \in Sole' => x.key = y.key
<1>1. AllShaped(made')
  BY MadeStep DEF GuardianInv, MadeInv
<1>2. ASSUME NEW x \in Dealt'
      PROVE  x = [key |-> x.key, share |-> x.share] /\ SharedIn(made', x.key, x.share)
  BY <1>2, DealtIs
<1>3. ASSUME NEW x \in Dealt' PROVE x \in [key: EnclaveKeys, share: Shares]
  <2>1. x.key \in EnclaveKeys /\ x.share \in Shares
    BY <1>1, <1>2, SharedTypes
  <2> QED BY <1>2, <2>1
<1>4. ASSUME NEW x \in Dealt', NEW y \in Dealt', x.share = y.share, x.share \in Sole'
      PROVE  x.key = y.key
  <2> DEFINE s == x.share
  <2>1. Threshold[s.set] > 1 /\ \E k \in made' : k.by = "enclave" /\ k.payload.bls_pub_key_set = s.set
    BY <1>4 DEF Sole, EnclaveMade
  <2>2. SharedIn(made', x.key, s) /\ SharedIn(made', y.key, s)
    BY <1>2, <1>4
  <2> HIDE DEF s
  <2> QED BY <1>1, <2>1, <2>2, OneKeyPerShare
<1> QED BY <1>3, <1>4

\* Every step maps to a step of the abstract custody, or to a stutter.
LEMMA CustodyStep == GuardianInv /\ [Next]_vars => [Promise!Next]_(Promise!vars)
<1> SUFFICES ASSUME GuardianInv, [Next]_vars PROVE [Promise!Next]_(Promise!vars)
  OBVIOUS
<1>0. TypeOK /\ MadeInv
  BY DEF GuardianInv
<1>1. faults \in Nat /\ (faults' = faults \/ faults' = faults + 1)
  BY <1>0, BoundsAssumption, Growth DEF TypeOK, Grows
<1>2. ASSUME \A g \in Guardians, s \in Shares : Held(g, s)' <=> Held(g, s)
      PROVE  Holdings' = Holdings
  BY <1>2, HoldingsAre
<1>3. ASSUME made' = made PROVE Dealt' = Dealt /\ Sole' = Sole
  BY <1>3 DEF Dealt, Sole, EnclaveMade
<1>4. ASSUME \A g \in Guardians, s \in Shares : Held(g, s)' => Held(g, s),
             faults' = faults + 1, approvals' = approvals, exits' = exits, made' = made
      PROVE  Promise!Next
  <2>1. Holdings' \subseteq Holdings /\ Dealt' = Dealt /\ Sole' = Sole
    BY <1>4, <1>3, HoldingsAre
  <2>2. (faults > 0)' = TRUE
    BY <1>1, <1>4
  <2>3. Promise!Damage
    BY <1>4, <2>1, <2>2 DEF Promise!Damage
  <2> QED BY <2>3 DEF Promise!Next
<1>5. CASE Quiet /\ faults' = faults + 1
  <2>1. made' = made
    BY <1>1, <1>5, MadeBy
  <2> QED BY <1>4, <1>5, <2>1, QuietHeld DEF Quiet
<1>6. CASE Quiet /\ faults' # faults + 1
  <2>1. Holdings' = Holdings
    BY <1>2, <1>6, QuietHeld
  <2>2. faults' = faults /\ approvals' = approvals /\ exits' = exits
    BY <1>1, <1>6 DEF Quiet
  <2>3. Dealt \subseteq Dealt'
    BY <1>0, DealtStays
  <2>4. Sole \subseteq Sole' /\ Sole' \subseteq Shares
    BY <1>0, Growth DEF Grows, Sole, EnclaveMade
  <2>5. Promise!Deal
    BY <2>1, <2>2, <2>3, <2>4, DealsAreShares DEF Promise!Deal
  <2> QED BY <2>5 DEF Promise!Next
<1>7. ASSUME NEW h \in Handlers, OpenShare(h) PROVE Promise!Next
  <2>1. /\ pc[h] = "open" /\ approvals' = approvals /\ exits' = exits /\ faults' = faults
        /\ Dealt' = Dealt /\ Sole' = Sole
    BY <1>0, <1>7, <1>3, OpenEffect DEF Moved
  <2>2. PICK g \in Guardians, s \in Shares : g = Home[req[h].key] /\ s = share[h]
    BY <1>0, <2>1, HomeAssumption DEF TypeOK
  <2>3. Entitled(g, s)
    <3>1. SharedTo(req[h].key, share[h])
      BY <2>1 DEF GuardianInv, RequestsInv, RequestInv, CustodyInv, CheckedInv, CheckedSteps, SharedTo
    <3> QED BY <2>2, <3>1, SharedEntitled
  <2>4. Holdings' = Holdings \cup {[guardian |-> g, share |-> s]}
    <3>1. \A a \in Guardians, b \in Shares : Held(a, b)' <=> Held(a, b) \/ (a = g /\ b = s)
      BY <1>0, <1>7, <2>2, OpenHeld
    <3> QED BY <3>1, HoldingsAre
  <2>5. Promise!Receive(g, s)
    BY <2>1, <2>3, <2>4 DEF Promise!Receive, Entitled
  <2> QED BY <2>5 DEF Promise!Next
<1>8. ASSUME NEW h \in Handlers, WriteShare(h) PROVE UNCHANGED Promise!vars
  <2>1. Holdings' = Holdings
    BY <1>0, <1>2, <1>8, WriteHeld
  <2>2. /\ faults' = faults /\ approvals' = approvals /\ exits' = exits
        /\ Dealt' = Dealt /\ Sole' = Sole
    BY <1>0, <1>8, <1>3, WriteEffect
  <2> QED BY <2>1, <2>2 DEF Promise!vars
<1>9. ASSUME NEW h \in Handlers, FailedWrite(h) PROVE Promise!Next
  BY <1>0, <1>4, <1>9, FailEffect, FailHeld
<1>10. ASSUME NEW h \in Handlers, Approve(h) PROVE Promise!Next
  <2>1. /\ pc[h] = "approve" /\ exits' = exits /\ faults' = faults
        /\ approvals' = approvals \cup {Approval(req[h], share[h])}
        /\ Dealt' = Dealt /\ Sole' = Sole
    BY <1>0, <1>10, <1>3, ApproveEffect
  <2>2. PICK e \in EnclaveKeys, s \in Shares : e = req[h].key /\ s = share[h]
    BY <1>0, <2>1 DEF TypeOK
  <2>3. [key |-> e, share |-> s] \in Dealt
    <3>1. SharedIn(made, e, s)
      BY <2>1, <2>2 DEF GuardianInv, RequestsInv, RequestInv, CustodyInv, CheckedInv, CheckedSteps
    <3> QED BY <3>1, DealtIs
  <2>4. Backed(Home[e], s)
    BY <2>1, <2>2 DEF GuardianInv, FilesInv
  <2>5. Approval(req[h], share[h]).key = e /\ Approval(req[h], share[h]).share = s
    BY <2>2 DEF Approval
  <2>6. Holdings' = Holdings
    BY <1>0, <1>2, <1>10, StillHeld
  <2>7. [guardian |-> Home[e], share |-> s] \in Holdings \/ faults > 0
    <3>1. CASE Held(Home[e], s)
      BY <3>1, HoldingsAre, HomeAssumption
    <3> QED BY <2>4, <3>1 DEF Backed, Held
  <2>8. Grants' = Grants \cup {[key |-> e, share |-> s]}
    BY <2>1, <2>5 DEF Grants
  <2>9. Promise!Grant(e, s)
    BY <2>1, <2>3, <2>6, <2>7, <2>8 DEF Promise!Grant, Grants
  <2> QED BY <2>9 DEF Promise!Next
<1>11. CASE SignExit
  <2>1. /\ approvals' = approvals /\ faults' = faults
        /\ \E g \in Guardians, s \in Shares :
             shareFile[g][s] = "ok" /\ exits' = exits \cup {[guardian |-> g, share |-> s]}
        /\ Dealt' = Dealt /\ Sole' = Sole
    BY <1>0, <1>11, <1>3, ExitEffect
  <2>2. PICK g \in Guardians, s \in Shares :
          shareFile[g][s] = "ok" /\ exits' = exits \cup {[guardian |-> g, share |-> s]}
    BY <2>1
  <2>3. [guardian |-> g, share |-> s] \in Holdings
    BY <2>2, HoldingsAre DEF Held
  <2>4. Holdings' = Holdings
    BY <1>0, <1>2, <1>11, StillHeld
  <2>5. Promise!Exit(g, s)
    BY <2>1, <2>2, <2>3, <2>4 DEF Promise!Exit
  <2> QED BY <2>5 DEF Promise!Next
<1> QED BY <1>0, <1>1, <1>5, <1>6, <1>7, <1>8, <1>9, <1>10, <1>11, NextCases

(***************************************************************************)
(* Files written in steps, repeated and interrupted requests, crashes and  *)
(* mixed-up payloads come to nothing but the abstract custody of shares.   *)
(***************************************************************************)
THEOREM CustodyImplemented == Spec => ImplementsCustody
<1>1. GuardianInv /\ [Next]_vars => [Promise!Next]_(Promise!vars)
  BY CustodyStep
<1> QED BY <1>1, CustodyInit, GuardianInvariant, PTL DEF Spec, ImplementsCustody, Promise!Spec


(***************************************************************************)
(* Nothing but a crash of the guardian that holds a share, or a failed     *)
(* write of this share's own file, takes the share from the guardian,      *)
(* however many requests rewrite it at the same time.                      *)
(***************************************************************************)
THEOREM HeldUntilOwnFault == Spec => HeldSharesKept
<1>1. ASSUME TypeOK, [Next]_vars, NEW g \in Guardians, NEW s \in Shares, Held(g, s)
      PROVE  \/ Held(g, s)' \/ Crash(g)
             \/ \E h \in Handlers : WriteError(h) /\ Home[req[h].key] = g /\ share[h] = s
  <2>1. CASE Quiet
    <3>1. shareFile[g][s] = "ok" => Held(g, s)'
      BY <2>1 DEF Quiet, Held
    <3>2. ASSUME NEW h \in Handlers, pc[h] = "write", Home[req[h].key] = g, share[h] = s
          PROVE  Held(g, s)' \/ Crash(g)
      BY <2>1, <3>2 DEF Quiet, Same, Held, Rewriting
    <3> QED BY <1>1, <3>1, <3>2 DEF Held, Rewriting
  <2>2. CASE SignExit \/ \E h \in Handlers : Approve(h)
    BY <1>1, <2>2, StillHeld
  <2>3. ASSUME NEW h \in Handlers, OpenShare(h) \/ WriteShare(h) PROVE Held(g, s)'
    BY <1>1, <2>3, OpenHeld, WriteHeld
  <2>4. ASSUME NEW h \in Handlers, FailedWrite(h)
        PROVE  Held(g, s)' \/ (WriteError(h) /\ Home[req[h].key] = g /\ share[h] = s)
    BY <1>1, <2>4, FailHeld DEF FailedWrite
  <2> QED BY <1>1, <2>1, <2>2, <2>3, <2>4, NextCases
<1>2. TypeOK /\ [Next]_vars =>
        [\A g \in Guardians, s \in Shares :
           Held(g, s) =>
             \/ Held(g, s)' \/ Crash(g)
             \/ \E h \in Handlers : WriteError(h) /\ Home[req[h].key] = g /\ share[h] = s]_vars
  BY <1>1
<1> QED BY <1>2, GuardianTypes, PTL DEF Spec, HeldSharesKept

----------------------------------------------------------------------------
(***************************************************************************)
(* A payload of a validator enclave passes the checks of every guardian    *)
(* that it has a share for.                                                *)
(***************************************************************************)
LEMMA EnclavePayloadAccepted ==
  ASSUME NEW m, Shaped(m), m.by = "enclave", NEW e \in Range(m.payload.guardian_eth_pub_keys)
  PROVE  verify_deposit_message(m.payload) /\ verify_custody(m.payload, e)
<1> DEFINE p == m.payload  to == p.guardian_eth_pub_keys  cs == p.bls_enc_priv_key_shares
<1>1. /\ p.bls_pub_key = p.bls_pub_key_set
      /\ p.signature = DepositSignature(p.bls_pub_key_set, p.withdrawal_credentials, p.fork_version)
      /\ p.deposit_data_root =
           DepositDataRoot(p.bls_pub_key_set, p.withdrawal_credentials, p.signature)
      /\ cs = EncryptShares(p.bls_pub_key_set, to)
  BY DEF Shaped
<1> HIDE DEF p, to, cs
<1>2. PICK i \in DOMAIN to : to[i] = e
  BY DEF Range, p, to
<1>3. i \in DOMAIN cs /\ cs[i] = Ciphertext(p.bls_pub_key_set, i, e)
  BY <1>1, <1>2 DEF EncryptShares
<1>4. decrypt_sk_share(p, i, e)
  BY <1>3 DEF decrypt_sk_share, Ciphertext, ShareIn, cs
<1>5. i \in CustodyAt(p, e)
  BY <1>3, <1>4 DEF CustodyAt, cs
<1>6. verify_custody(p, e)
  BY <1>1, <1>5 DEF verify_custody, verify_public_keys_match
<1> QED BY <1>1, <1>6 DEF verify_deposit_message, p

(***************************************************************************)
(* Requests go on to be genuine, and a handler that nobody moves stays on  *)
(* its course.                                                             *)
(***************************************************************************)
LEMMA GenuineStays ==
  ASSUME made \subseteq made', NEW h, NEW e, NEW v, Genuine(h, e, v), req'[h] = req[h]
  PROVE  Genuine(h, e, v)'
BY DEF Genuine

(***************************************************************************)
(* Custody of a genuine payload is approved: whatever else goes on in any  *)
(* number of guardians, only a fault of the request itself or a crash of   *)
(* its own guardian comes between the check and the approval.              *)
(***************************************************************************)
THEOREM GenuineNotTurnedDown == Spec => GenuineStaysOnCourse
<1>1. ASSUME GuardianInv, [Next]_vars, NEW h \in Handlers, NEW e \in EnclaveKeys,
             NEW v \in KeySets, CustodyOnCourse(h, e, v)
      PROVE  \/ CustodyOnCourse(h, e, v)'
             \/ pc[h] = "approve" /\ Approval(req[h], share[h]) \in approvals'
             \/ CallError(h) \/ WriteError(h) \/ Crash(Home[e])
  <2> DEFINE Goal ==
        \/ CustodyOnCourse(h, e, v)'
        \/ pc[h] = "approve" /\ Approval(req[h], share[h]) \in approvals'
        \/ CallError(h) \/ WriteError(h) \/ Crash(Home[e])
  <2> SUFFICES Goal
    OBVIOUS
  <2>0. /\ pc[h] \in {"custody", "open", "write", "approve"}
        /\ Genuine(h, e, v) /\ req[h].key = e
    BY <1>1 DEF CustodyOnCourse, Genuine
  <2>1. TypeOK /\ MadeInv /\ made \subseteq made'
    BY <1>1, Growth DEF GuardianInv, Grows
  <2>2. pc \in [Handlers -> Steps] /\ DOMAIN req = Handlers /\ DOMAIN share = Handlers
    BY <2>1 DEF TypeOK
  <2>3. ASSUME req'[h] = req[h], pc'[h] \in {"custody", "open", "write", "approve"} PROVE Goal
    BY <2>0, <2>1, <2>3, GenuineStays DEF CustodyOnCourse
  <2>4. Same(h) => Goal
    BY <2>0, <2>3 DEF Same
  <2> HIDE DEF Goal
  <2>5. CASE UNCHANGED vars
    BY <2>4, <2>5 DEF vars, work, Same
  <2>6. ASSUME NEW g \in Handlers, AttestFreshEthKey(g) \/ ValidateCustody(g) PROVE Goal
    <3>1. pc[g] = "idle"
      BY <2>6 DEF AttestFreshEthKey, ValidateCustody
    <3>2. Same(h)
      BY <2>0, <2>2, <2>6, <3>1 DEF AttestFreshEthKey, ValidateCustody, Goto, Same
    <3> QED BY <2>4, <3>2
  <2>7. ASSUME NEW g \in Handlers, g # h,
               Step(g) \/ AttestEthKey(g) \/ VerifySession(g) \/ GetSession(g)
                 \/ HangUp(g) \/ CallError(g) \/ WriteError(g)
        PROVE  Goal
    <3>1. Answer(g) => Same(h)
      BY <2>7 DEF Answer, Drop, Same
    <3>2. ~Answer(g) => Same(h)
      BY <2>2, <2>7 DEF Step, CreateEthKey, WriteEthKey, CheckCustody, OpenShare, WriteShare,
         Approve, AttestEthKey, VerifySession, GetSession, HangUp, CallError, WriteError,
         Answer, Goto, Same
    <3> QED BY <2>4, <3>1, <3>2
  <2>8. CASE CheckCustody(h)
    <3>1. PICK m \in made :
            /\ m.by = "enclave" /\ m.payload = req[h].payload
            /\ e \in Range(m.payload.guardian_eth_pub_keys)
      BY <2>0 DEF Genuine
    <3>2. verify_deposit_message(req[h].payload) /\ verify_custody(req[h].payload, req[h].key)
      BY <2>0, <2>1, <3>1, EnclavePayloadAccepted DEF MadeInv, AllShaped
    <3>3. pc'[h] = "open" /\ req'[h] = req[h]
      BY <2>2, <2>8, <3>2 DEF CheckCustody, Goto
    <3> QED BY <2>3, <3>3
  <2>9. CASE OpenShare(h) \/ WriteShare(h)
    <3>1. pc'[h] \in {"write", "approve"} /\ req'[h] = req[h]
      BY <2>2, <2>9 DEF OpenShare, WriteShare, Goto
    <3> QED BY <2>3, <3>1
  <2>10. CASE Approve(h)
    BY <2>10 DEF Approve, Goal
  <2>11. CASE CallError(h) \/ WriteError(h)
    BY <2>11 DEF Goal
  <2>12. ~ (CreateEthKey(h) \/ WriteEthKey(h) \/ AttestEthKey(h) \/ VerifySession(h)
              \/ GetSession(h) \/ HangUp(h))
    BY <2>0 DEF CreateEthKey, WriteEthKey, AttestEthKey, VerifySession, GetSession, HangUp
  <2>13. CASE SignExit \/ ValidatorKeygen \/ LocalKeygen \/ OwnKeygen \/ Revoke
    BY <2>4, <2>13 DEF SignExit, ValidatorKeygen, LocalKeygen, OwnKeygen, Revoke, work, Same
  <2>14. ASSUME NEW x \in Guardians, Crash(x) PROVE Goal
    <3>1. CASE h \in WorkOf(x)
      BY <2>0, <2>14, <3>1 DEF WorkOf, Goal
    <3>2. CASE h \notin WorkOf(x)
      BY <2>4, <2>14, <3>2 DEF Crash, Drop, Same
    <3> QED BY <3>1, <3>2
  <2> QED
    BY <1>1, <2>5, <2>6, <2>7, <2>8, <2>9, <2>10, <2>11, <2>12, <2>13, <2>14 DEF Next, Step
<1>2. GuardianInv /\ [Next]_vars =>
        [\A h \in Handlers, e \in EnclaveKeys, v \in KeySets :
           CustodyOnCourse(h, e, v) =>
             \/ CustodyOnCourse(h, e, v)'
             \/ pc[h] = "approve" /\ Approval(req[h], share[h]) \in approvals'
             \/ CallError(h) \/ WriteError(h) \/ Crash(Home[e])]_vars
  BY <1>1
<1> QED BY <1>2, GuardianInvariant, PTL DEF Spec, GenuineStaysOnCourse

(***************************************************************************)
(* What is wrong with payloads generated locally, and all that is wrong:   *)
(* their deposit passes the guardian's check if, and only if, it was       *)
(* signed under the genesis version, whatever the key and the guardians.   *)
(***************************************************************************)
THEOREM LocalAcceptedUnderGenesis ==
  ASSUME NEW v, NEW to, NEW wc, NEW version
  PROVE  verify_deposit_message(generate_bls_keystore(v, to, wc, version))
           <=> version = GENESIS_FORK_VERSION
<1> DEFINE p == generate_bls_keystore(v, to, wc, version)
<1>1. /\ p.bls_pub_key_set = v /\ p.withdrawal_credentials = wc
      /\ p.fork_version = GENESIS_FORK_VERSION
      /\ p.signature = DepositSignature(v, wc, version)
      /\ p.deposit_data_root = DepositDataRoot(v, wc, p.signature)
  BY DEF generate_bls_keystore, Unattested
<1> HIDE DEF p
<1>2. DepositSignature(v, wc, version) = DepositSignature(v, wc, GENESIS_FORK_VERSION)
        <=> version = GENESIS_FORK_VERSION
  BY DEF DepositSignature
<1>3. verify_deposit_message(p) <=> version = GENESIS_FORK_VERSION
  BY <1>1, <1>2 DEF verify_deposit_message
<1> QED BY <1>3 DEF p
=============================================================================
