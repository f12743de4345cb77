------------------------------ MODULE Guardian ------------------------------
(***************************************************************************)
(* The guardian enclaves: generation of attested enclave keys, validation  *)
(* of custody of a validator's key shares, and signing of voluntary exits. *)
(*                                                                         *)
(* A guardian keeps all its state in files: one per enclave key, one per   *)
(* key share it has received.  A handler is a sequence of steps, one per   *)
(* file access or remote call; the steps of handlers interleave.  A file   *)
(* is written in two steps: it is opened and truncated, then written.      *)
(*                                                                         *)
(* Around the guardians are the validators' key generations, the session   *)
(* registry contract, and clients that may repeat a request, take fields   *)
(* of two payloads for one, reorder the shares, or make up a payload of a  *)
(* key that they generated themselves.  An answer leaves no trace in a     *)
(* guardian, so an answered handler is idle again at once; an approval or  *)
(* exit signature counts as released when it is made.                      *)
(***************************************************************************)
EXTENDS KeygenPayload, FiniteSets

CONSTANTS Guardians,       \* guardian enclaves
          Home,            \* Home[e]: the guardian that generates enclave key e
          WorkloadOf,      \* WorkloadOf[s]: the workload registered for session s
          Revocable,       \* the sessions that may be revoked, or expire
          NoWorkload,      \* the empty workload_id, which skips the comparison
          Handlers,        \* requests in work at the same time
          NoRequest,       \* the request of an idle handler
          MaxShares,       \* bound on the number of guardian keys of a key set
          MaxForeign,      \* bound on the fields of a payload taken from another
          MaxPayloads,     \* bound on the payloads that are made
          MaxApprovals,    \* custody is not asked for once there are as many approvals
          MaxFaults        \* bound on crashes and I/O errors in one behaviour

ASSUME HomeAssumption == Home \in [EnclaveKeys -> Guardians]
ASSUME WorkloadAssumption == DOMAIN WorkloadOf = Sessions /\ NoWorkload \notin Range(WorkloadOf)
ASSUME RevocableAssumption == Revocable \subseteq Sessions
ASSUME BoundsAssumption == 
  {MaxShares, MaxForeign, MaxPayloads, MaxApprovals, MaxFaults} \subseteq Nat

VARIABLES ethFile,     \* ethFile[e]: state of eth_keys/<e> on guardian Home[e]
          shareFile,   \* shareFile[g][s]: state of bls_keys/<s> on guardian g
          published,   \* enclave keys that were handed out
          made,        \* payloads that key generations or clients have made so far
          pc,          \* pc[h]: the next step of handler h
          req,         \* req[h]: its request
          share,       \* share[h]: the share it has decrypted
          approvals,   \* custody approvals released by enclave keys
          exits,       \* key shares that have signed a voluntary exit, with their guardian
          revoked,     \* sessions that the registry no longer has as active
          faults       \* crashes and I/O errors so far

files == <<ethFile, shareFile>>
work == <<pc, req, share>>
released == <<published, approvals, exits>>
vars == <<files, made, work, released, revoked, faults>>

FileState == {"absent", "empty", "torn", "ok"}
Shares == [set: KeySets, index: 1..MaxShares]
Workloads == Range(WorkloadOf)

\* A custody request, which is late if its session was revoked before it came (only
\* a property looks at that), and the request of an enclave key generation.
CustodyRequest(e, p, verify, workload) ==
  [key |-> e, payload |-> p, verify |-> verify, workload |-> workload,
   late |-> verify /\ p.evidence.session_id \in revoked]
KeygenRequest(e) == [key |-> e]

Init ==
  /\ ethFile = [e \in EnclaveKeys |-> "absent"]
  /\ shareFile = [g \in Guardians |-> [s \in Shares |-> "absent"]]
  /\ published = {} /\ made = {}
  /\ pc = [h \in Handlers |-> "idle"]
  /\ req = [h \in Handlers |-> NoRequest]
  /\ share = [h \in Handlers |-> NoRequest]
  /\ approvals = {} /\ exits = {}
  /\ revoked = {}
  /\ faults = 0

Goto(h, step) == pc' = [pc EXCEPT ![h] = step]

\* The handlers H answer, or are gone: what they held in memory is dropped.
Drop(H) ==
  /\ pc' = [h \in Handlers |-> IF h \in H THEN "idle" ELSE pc[h]]
  /\ req' = [h \in Handlers |-> IF h \in H THEN NoRequest ELSE req[h]]
  /\ share' = [h \in Handlers |-> IF h \in H THEN NoRequest ELSE share[h]]

Answer(h) == Drop({h})

----------------------------------------------------------------------------
(***************************************************************************)
(* Enclave keys, attest_new_eth_key_with_blockhash.  The key is generated  *)
(* and saved before the contract address is parsed.                        *)
(***************************************************************************)
AttestFreshEthKey(h) ==
  \E e \in EnclaveKeys :
    /\ pc[h] = "idle"
    /\ ethFile[e] = "absent"
    /\ \A g \in Handlers : req[g] # KeygenRequest(e)
    /\ req' = [req EXCEPT ![h] = KeygenRequest(e)]
    /\ Goto(h, "create")
    /\ UNCHANGED <<files, made, share, released, revoked, faults>>

CreateEthKey(h) ==
  /\ pc[h] = "create"
  /\ ethFile' = [ethFile EXCEPT ![req[h].key] = "empty"]
  /\ Goto(h, "write_key")
  /\ UNCHANGED <<shareFile, made, req, share, released, revoked, faults>>

\* A malformed guardian_module_address is found out after the write.
WriteEthKey(h) ==
  /\ pc[h] = "write_key"
  /\ ethFile' = [ethFile EXCEPT ![req[h].key] = "ok"]
  /\ \/ Goto(h, "attest") /\ UNCHANGED <<req, share>>
     \/ Answer(h)
  /\ UNCHANGED <<shareFile, made, released, revoked, faults>>

AttestEthKey(h) ==
  /\ pc[h] = "attest"
  /\ \/ published' = published \cup {req[h].key} /\ Answer(h)
     \/ UNCHANGED published /\ Answer(h)
  /\ UNCHANGED <<files, made, approvals, exits, revoked, faults>>

----------------------------------------------------------------------------
(***************************************************************************)
(* Custody, verify_and_sign_custody_received.                              *)
(***************************************************************************)
Field == {"bls_pub_key_set", "bls_pub_key", "signature", "deposit_data_root",
          "bls_enc_priv_key_shares", "guardian_eth_pub_keys", "withdrawal_credentials",
          "fork_version", "evidence"}

\* A client sends a payload as it was made, or with a few fields taken from
\* another one, or with the encrypted shares in another order.
Sendable ==
  LET Mixed(m, n, F) == [f \in Field |-> IF f \in F THEN n.payload[f] ELSE m.payload[f]]
      Foreign == UNION {kSubset(k, Field) : k \in 0..MaxForeign}
  IN  {Mixed(m, n, F) : m \in made, n \in made, F \in Foreign} \cup
      {[m.payload EXCEPT !.bls_enc_priv_key_shares = Reverse(@)] : m \in made}

\* The enclave key is read first, then the evidence is looked at if asked for.  The
\* workload is only read when verify_session is set.  A request that fails here is
\* answered with an error and changes nothing.
ValidateCustody(h) ==
  \E e \in EnclaveKeys, p \in Sendable, verify \in BOOLEAN, w \in Workloads \cup {NoWorkload} :
    /\ pc[h] = "idle" /\ Cardinality(approvals) < MaxApprovals
    /\ ~verify => w = NoWorkload
    /\ ethFile[e] = "ok"
    /\ verify => p.evidence # NoEvidence
    /\ req' = [req EXCEPT ![h] = CustodyRequest(e, p, verify, w)]
    /\ Goto(h, IF verify THEN "verify_session" ELSE "custody")
    /\ UNCHANGED <<files, made, share, released, revoked, faults>>

\* Mutant: any signature of the session will do.
SessionOnly(p) == p.evidence.session_id \in Sessions

\* SessionRegistry.verifySessionSignature can return true.
verify_session_signature(p) ==
  p.evidence.session_id \in Sessions /\ p.evidence.signed = AttestationPayload(p)

\* Mutant: only the signature is looked at.
SignatureOnly(p) == verify_session_signature(p)

\* The registry answers true only while the session is active.
SessionVerified(p) ==
  verify_session_signature(p) /\ p.evidence.session_id \notin revoked

VerifySession(h) ==
  /\ pc[h] = "verify_session"
  /\ \/ /\ SessionVerified(req[h].payload)
        /\ Goto(h, IF req[h].workload = NoWorkload THEN "custody" ELSE "get_session")
        /\ UNCHANGED <<req, share>>
     \/ ~SessionVerified(req[h].payload) /\ Answer(h)
  /\ UNCHANGED <<files, made, released, revoked, faults>>

\* The session's isActive and expiresAt are there, only its workload is read.
GetSession(h) ==
  /\ pc[h] = "get_session"
  /\ LET match == WorkloadOf[req[h].payload.evidence.session_id] = req[h].workload IN
       \/ match /\ Goto(h, "custody") /\ UNCHANGED <<req, share>>
       \/ ~match /\ Answer(h)
  /\ UNCHANGED <<files, made, released, revoked, faults>>

\* Mutant: custody is approved without saving the share.
CheckCustodySavesNothing(h) ==
  /\ pc[h] = "custody"
  /\ verify_deposit_message(req[h].payload) /\ verify_custody(req[h].payload, req[h].key)
  /\ share' = [share EXCEPT ![h] = ShareFor(req[h].payload, req[h].key)]
  /\ Goto(h, "approve")
  /\ UNCHANGED <<files, made, req, released, revoked, faults>>

CheckCustody(h) ==
  /\ pc[h] = "custody"
  /\ LET p == req[h].payload  e == req[h].key
         pass == verify_deposit_message(p) /\ verify_custody(p, e) IN
       \/ /\ pass
          /\ share' = [share EXCEPT ![h] = ShareFor(p, e)]
          /\ Goto(h, "open") /\ UNCHANGED req
       \/ ~pass /\ Answer(h)
  /\ UNCHANGED <<files, made, released, revoked, faults>>

PutShare(h, st) == shareFile' = [shareFile EXCEPT ![Home[req[h].key]][share[h]] = st]

OpenShare(h) ==
  /\ pc[h] = "open"
  /\ PutShare(h, "empty")
  /\ Goto(h, "write")
  /\ UNCHANGED <<ethFile, made, req, share, released, revoked, faults>>

\* Mutant: the text stays in a buffer that is never flushed.
WriteShareUnflushed(h) ==
  /\ pc[h] = "write"
  /\ UNCHANGED shareFile
  /\ Goto(h, "approve")
  /\ UNCHANGED <<ethFile, made, req, share, released, revoked, faults>>

\* Whoever writes this file writes the same text: overlapping writes do no harm.
WriteShare(h) ==
  /\ pc[h] = "write"
  /\ PutShare(h, "ok")
  /\ Goto(h, "approve")
  /\ UNCHANGED <<ethFile, made, req, share, released, revoked, faults>>

\* approve_custody: the data root is computed anew from what was checked.
Approval(q, s) ==
  LET p == q.payload IN
    [key |-> q.key, share |-> s, verify |-> q.verify, workload |-> q.workload, late |-> q.late,
     pubkey |-> p.bls_pub_key_set, withdrawal_credentials |-> p.withdrawal_credentials,
     signature |-> p.signature,
     deposit_data_root |->
       DepositDataRoot(p.bls_pub_key_set, p.withdrawal_credentials, p.signature)]

Approve(h) ==
  /\ pc[h] = "approve"
  /\ approvals' = approvals \cup {Approval(req[h], share[h])}
  /\ Answer(h)
  /\ UNCHANGED <<files, made, published, exits, revoked, faults>>

----------------------------------------------------------------------------
(***************************************************************************)
(* Exits, sign_voluntary_exit_message: the share is looked up by its       *)
(* public key, whoever asks.  With no complete file there is no valid exit *)
(* signature, be it that the library refuses the key or that it makes one  *)
(* of the bytes it finds.                                                  *)
(***************************************************************************)
SignExit ==
  \E g \in Guardians, s \in Shares :
    /\ shareFile[g][s] = "ok"
    /\ exits' = exits \cup {[guardian |-> g, share |-> s]}
    /\ UNCHANGED <<files, made, work, published, approvals, revoked, faults>>

----------------------------------------------------------------------------
(***************************************************************************)
(* Outside the guardians.                                                  *)
(***************************************************************************)
Fresh(v) == \A m \in made : m.payload.bls_pub_key_set # v
MorePayloads == Cardinality(made) < MaxPayloads
Recipients == UNION {[1..n -> published] : n \in 1..MaxShares}

\* Guardian keys are taken from what was published; they may repeat.
ValidatorKeygen ==
  \E v \in KeySets, to \in Recipients, wc \in Credentials, version \in Versions,
     s \in Sessions \cup {NoEvidence} :
    /\ Fresh(v) /\ MorePayloads
    /\ made' = made \cup {[by |-> "enclave", payload |-> attest_fresh_bls_key(v, to, wc, version, s)]}
    /\ UNCHANGED <<files, work, released, revoked, faults>>

LocalKeygen ==
  \E v \in KeySets, to \in Recipients, wc \in Credentials, version \in Versions :
    /\ Fresh(v) /\ MorePayloads
    /\ made' = made \cup {[by |-> "local", payload |-> generate_bls_keystore(v, to, wc, version)]}
    /\ UNCHANGED <<files, work, released, revoked, faults>>

\* A client makes up a payload of a key that it generated itself.
OwnKeygen ==
  \E m \in made, to \in Recipients, wc \in Credentials, signed \in Versions, stated \in Versions :
    \E index \in [DOMAIN to -> 1..MaxShares] :
      /\ m.by = "local" /\ MorePayloads
      /\ made' = made \cup
           {[by |-> "client",
             payload |-> own_keygen_payload(m.payload.bls_pub_key_set, index, to, wc, signed, stated)]}
      /\ UNCHANGED <<files, work, released, revoked, faults>>

\* A session is revoked or expires.
Revoke ==
  \E s \in Revocable \ revoked :
    /\ revoked' = revoked \cup {s}
    /\ UNCHANGED <<files, made, work, released, faults>>

\* A client that closes its connection cancels a handler that awaits a remote call.
HangUp(h) ==
  /\ pc[h] \in {"attest", "verify_session", "get_session"}
  /\ Drop({h})
  /\ UNCHANGED <<files, made, released, revoked, faults>>

Fault == faults < MaxFaults /\ faults' = faults + 1

\* A remote call fails, or a file cannot be opened.
CallError(h) ==
  /\ Fault
  /\ pc[h] \in {"create", "verify_session", "get_session", "open"}
  /\ Answer(h)
  /\ UNCHANGED <<files, made, released, revoked>>

\* Mutant: a failed write of an enclave key goes unnoticed.
WriteErrorIgnored(h) ==
  /\ Fault
  /\ pc[h] = "write_key"
  /\ ethFile' = [ethFile EXCEPT ![req[h].key] = "torn"]
  /\ Goto(h, "attest")
  /\ UNCHANGED <<shareFile, made, req, share, released, revoked>>

WriteError(h) ==
  /\ Fault
  /\ \/ /\ pc[h] = "write"
        /\ PutShare(h, "torn") /\ UNCHANGED ethFile
     \/ /\ pc[h] = "write_key"
        /\ ethFile' = [ethFile EXCEPT ![req[h].key] = "torn"] /\ UNCHANGED shareFile
  /\ Answer(h)
  /\ UNCHANGED <<made, released, revoked>>

\* One guardian dies and restarts; its requests are gone, its files stay.
WorkOf(g) == {h \in Handlers : pc[h] # "idle" /\ Home[req[h].key] = g}

Crash(g) ==
  /\ Fault
  /\ Drop(WorkOf(g))
  /\ UNCHANGED <<files, made, released, revoked>>

----------------------------------------------------------------------------
\* The steps a handler takes without waiting for a remote answer.
Step(h) ==
  CreateEthKey(h) \/ WriteEthKey(h) \/ CheckCustody(h) \/ OpenShare(h) \/ WriteShare(h) \/ Approve(h)

Next ==
  \/ \E h \in Handlers :
       \/ AttestFreshEthKey(h) \/ ValidateCustody(h)
       \/ Step(h) \/ AttestEthKey(h) \/ VerifySession(h) \/ GetSession(h)
       \/ HangUp(h) \/ CallError(h) \/ WriteError(h)
  \/ SignExit \/ ValidatorKeygen \/ LocalKeygen \/ OwnKeygen \/ Revoke
  \/ \E g \in Guardians : Crash(g)

Spec == Init /\ [][Next]_vars

(***************************************************************************)
(* Handlers run on threads of their own, and custody, once the evidence is *)
(* verified, waits for nobody.  Nothing is assumed of remote calls.        *)
(***************************************************************************)
FairSpec == Spec /\ \A h \in Handlers : WF_vars(Step(h))

----------------------------------------------------------------------------
Steps == {"idle", "create", "write_key", "attest", "verify_session", "get_session",
          "custody", "open", "write", "approve"}

(***************************************************************************)
(* Every variable has its type; a handler at work has a request for a key  *)
(* of its guardian, and a share of the key set once it has checked it.     *)
(***************************************************************************)
TypeOK ==
  /\ ethFile \in [EnclaveKeys -> FileState]
  /\ shareFile \in [Guardians -> [Shares -> FileState]]
  /\ published \subseteq EnclaveKeys
  /\ pc \in [Handlers -> Steps]
  /\ DOMAIN req = Handlers /\ DOMAIN share = Handlers
  /\ \A a \in approvals : a.key \in EnclaveKeys /\ a.share \in Shares
  /\ exits \subseteq [guardian: Guardians, share: Shares]
  /\ revoked \subseteq Sessions
  /\ faults \in 0..MaxFaults
  /\ \A h \in Handlers :
       /\ pc[h] # "idle" => req[h].key \in EnclaveKeys
       /\ pc[h] \in {"open", "write", "approve"} => share[h] \in Shares

(***************************************************************************)
(* An approval given under verify_session covers exactly what one attested *)
(* key generation produced, in a session of the workload the request names *)
(* if it names one: no field of another payload can be slipped in, though  *)
(* the evidence covers neither the credentials nor the fork version.       *)
(***************************************************************************)
ApprovalsAttested ==
  \A a \in approvals : a.verify =>
    \E m \in made :
      /\ m.by = "enclave" /\ m.payload.evidence # NoEvidence
      /\ a.workload # NoWorkload => WorkloadOf[m.payload.evidence.session_id] = a.workload
      /\ a.pubkey = m.payload.bls_pub_key_set
      /\ a.withdrawal_credentials = m.payload.withdrawal_credentials
      /\ a.signature = m.payload.signature
      /\ a.deposit_data_root = m.payload.deposit_data_root

(***************************************************************************)
(* Whoever asks for verify_session gets no approval on the word of a       *)
(* session that was revoked before the request came, however long the      *)
(* request takes and although the registry is asked twice.  A session that *)
(* is revoked between the registry's first answer and the approval is not  *)
(* noticed.                                                                *)
(***************************************************************************)
NoLateApproval == \A a \in approvals : ~a.late

\* The shares that were encrypted by those who had the key, each with the enclave key
\* it was encrypted to.
Dealt ==
  {[key |-> c.to, share |-> ShareIn(c)] :
     c \in UNION {Range(m.payload.bls_enc_priv_key_shares) : m \in made}}

\* Share s was encrypted to a key of guardian g.
Entitled(g, s) == \E x \in Dealt : x.share = s /\ Home[x.key] = g

(***************************************************************************)
(* A key share reaches only guardians that somebody who had the key made   *)
(* it out to, and only those sign exits with it, whatever payloads are     *)
(* mixed from others and sent around.                                      *)
(***************************************************************************)
SharesAtRecipients ==
  /\ \A g \in Guardians, s \in Shares : shareFile[g][s] # "absent" => Entitled(g, s)
  /\ \A x \in exits : Entitled(x.guardian, x.share)

\* A repeated request has truncated the file and is about to write it again.
Rewriting(g, s) ==
  \E h \in Handlers : pc[h] = "write" /\ Home[req[h].key] = g /\ share[h] = s

(***************************************************************************)
(* Every approval stands for a share of its key set that is on the disk of *)
(* the guardian that approved, unless a repeated request was interrupted   *)
(* by a fault; and approvals of a key of a validator enclave by different  *)
(* enclave keys stand for different shares, or the threshold is 1 and a    *)
(* single share will do.  As many approvals as the threshold thus mean     *)
(* that the validator can be exited.  Of a key that a client generated     *)
(* itself the latter cannot be said: it may have sent one share to all.    *)
(***************************************************************************)
EnclaveMade(v) == \E m \in made : m.by = "enclave" /\ m.payload.bls_pub_key_set = v

ApprovalsBackedByShares ==
  /\ \A a, b \in approvals :
       /\ a.pubkey = b.pubkey /\ a.key # b.key
       /\ EnclaveMade(a.pubkey) /\ Threshold[a.pubkey] > 1
       => a.share # b.share
  /\ \A a \in approvals :
       LET g == Home[a.key] IN
         a.share.set = a.pubkey /\ (shareFile[g][a.share] = "ok" \/ Rewriting(g, a.share) \/ faults > 0)

(***************************************************************************)
(* An enclave key that was handed out is complete on its guardian's disk   *)
(* for good, so that shares encrypted to it can be opened: no failed write *)
(* and no other key generation gets in between.                            *)
(***************************************************************************)
PublishedKeysKept == \A e \in published : ethFile[e] = "ok"

(***************************************************************************)
(* A share that was approved can sign an exit sooner or later, though      *)
(* repeated custody requests keep truncating its file, unless one of them  *)
(* is cut short by a fault.                                                *)
(***************************************************************************)
Approved(e, s) == \E a \in approvals : a.key = e /\ a.share = s

ApprovedSharesCanExit ==
  \A e \in EnclaveKeys, s \in Shares :
    Approved(e, s) ~> (shareFile[Home[e]][s] = "ok" \/ faults > 0)

(***************************************************************************)
(* The guardians implement the abstract custody of shares.  A share is     *)
(* held when its file is complete, or when a request that has it in memory *)
(* is about to complete the file.  A share is sole if it is of a key that  *)
(* a validator enclave generated for a threshold of 2 or more.             *)
(***************************************************************************)
Held(g, s) == shareFile[g][s] = "ok" \/ Rewriting(g, s)

Holdings == {x \in [guardian: Guardians, share: Shares] : Held(x.guardian, x.share)}

Sole == {s \in Shares : Threshold[s.set] > 1 /\ EnclaveMade(s.set)}

Promise == INSTANCE Custody WITH
  dealt   <- Dealt,
  sole    <- Sole,
  held    <- Holdings,
  granted <- {[key |-> a.key, share |-> a.share] : a \in approvals},
  damaged <- faults > 0

ImplementsCustody == Promise!Spec

(***************************************************************************)
(* A guardian loses a share only by its own crash, or by a failed write of *)
(* this very share: overlapping requests for it, which truncate the file   *)
(* under one another, do no harm, nor do faults anywhere else.             *)
(***************************************************************************)
HeldSharesKept ==
  [][\A g \in Guardians, s \in Shares :
       Held(g, s) =>
         \/ Held(g, s)' \/ Crash(g)
         \/ \E h \in Handlers : WriteError(h) /\ Home[req[h].key] = g /\ share[h] = s]_vars

(***************************************************************************)
(* A payload that a validator enclave produced, sent as it is to a         *)
(* guardian whose key is among its recipients, is approved once its        *)
(* session evidence is settled, unless a fault comes in between.           *)
(***************************************************************************)
Genuine(h, e, v) ==
  /\ req[h].key = e
  /\ \E m \in made :
       /\ m.by = "enclave" /\ m.payload = req[h].payload
       /\ m.payload.bls_pub_key_set = v
       /\ e \in Range(m.payload.guardian_eth_pub_keys)

GenuineCustody(h, e, v) == pc[h] = "custody" /\ Genuine(h, e, v)

GenuineCustodyApproved ==
  \A e \in EnclaveKeys, v \in KeySets :
    (\E h \in Handlers : GenuineCustody(h, e, v)) ~>
      ((\E a \in approvals : a.key = e /\ a.pubkey = v) \/ faults > 0)

(***************************************************************************)
(* The safety half of it: such a request passes every check, and only a    *)
(* fault of its own or a crash of its guardian keeps it from its approval. *)
(* What other guardians and other requests for the same share do, or how   *)
(* they fail, does not touch it.                                           *)
(***************************************************************************)
CustodyOnCourse(h, e, v) ==
  pc[h] \in {"custody", "open", "write", "approve"} /\ Genuine(h, e, v)

GenuineStaysOnCourse ==
  [][\A h \in Handlers, e \in EnclaveKeys, v \in KeySets :
       CustodyOnCourse(h, e, v) =>
         \/ CustodyOnCourse(h, e, v)'
         \/ pc[h] = "approve" /\ Approval(req[h], share[h]) \in approvals'
         \/ CallError(h) \/ WriteError(h) \/ Crash(Home[e])]_vars

(***************************************************************************)
(* Guardians accept the deposit of a payload that the library generates    *)
(* locally, as test_cli_keygen_verified_by_guardians expects.              *)
(***************************************************************************)
LocalKeygenVerifies ==
  \A m \in made : m.by = "local" => verify_deposit_message(m.payload)
=============================================================================
