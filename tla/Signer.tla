------------------------------- MODULE Signer -------------------------------
(***************************************************************************)
(* The signing side of the validator and secure-signer enclaves: BLS key   *)
(* generation, the signing route with its slashing protection, and the     *)
(* deposit route.                                                          *)
(*                                                                         *)
(* The enclave is an axum server on a multi-threaded tokio runtime.  It    *)
(* shares no memory between requests: all state is in files, one key file  *)
(* and one slashing protection file per key, read and written with         *)
(* fs::read and fs::write and without any lock.  A handler is a sequence   *)
(* of steps, one per file access, and the steps of handlers interleave.    *)
(* fs::write is two steps: it opens and truncates the file, then writes.   *)
(***************************************************************************)
EXTENDS SlashProtection

CONSTANTS Keys,        \* public keys a key generation can produce
          NoKey,       \* stands for a path parameter that is not a public key
          NoMessage,   \* the message of a request that carries none
          Handlers,    \* requests the server works on at the same time
          MaxFaults    \* bound on crashes and I/O errors in one behaviour

ASSUME NoKeyAssumption == NoKey \notin Keys
ASSUME NoMessageAssumption == NoMessage \notin Messages
ASSUME MaxFaultsAssumption == MaxFaults \in Nat

VARIABLES keyFile,     \* keyFile[k]: state of bls_keys/<k>
          dbFile,      \* dbFile[k]: state and content of slashing_protection/<k>
          pc,          \* pc[h]: the next step of handler h
          key,         \* key[h]: the key its request names
          msg,         \* msg[h]: the message to sign
          data,        \* data[h]: the database it has updated and not yet written
          reply,       \* reply[h]: the status code it answered with
          released,    \* released[k]: messages signed with k by the signing route
          recorded,    \* recorded[k]: messages whose database write has returned Ok
          faults       \* crashes and I/O errors so far

files == <<keyFile, dbFile>>
request == <<key, msg, data>>
history == <<released, recorded>>
vars == <<files, pc, request, reply, history, faults>>

\* An "empty" file has been opened and truncated; "torn" holds part of a write.
FileState == {"absent", "empty", "torn", "ok"}
DbFile == [st: FileState, data: SlashingProtectionData]
Unreadable(st) == [st |-> st, data |-> NewData]

SignSteps == {"check", "update", "open", "write", "sign"}
KeygenSteps == {"create_key", "write_key", "new_open", "new_write", "attest"}
NoReply == 0
StatusCodes == {200, 201, 400, 412, 500}

ALLOW_GROWABLE_SLASH_PROTECTION_DB == FALSE

Init ==
  /\ keyFile = [k \in Keys |-> "absent"]
  /\ dbFile = [k \in Keys |-> Unreadable("absent")]
  /\ pc = [h \in Handlers |-> "idle"]
  /\ key = [h \in Handlers |-> NoKey]
  /\ msg = [h \in Handlers |-> NoMessage]
  /\ data = [h \in Handlers |-> NewData]
  /\ reply = [h \in Handlers |-> NoReply]
  /\ released = [k \in Keys |-> {}]
  /\ recorded = [k \in Keys |-> {}]
  /\ faults = 0

----------------------------------------------------------------------------
(***************************************************************************)
(* Steps shared by the handlers.                                           *)
(***************************************************************************)
Goto(h, step) == pc' = [pc EXCEPT ![h] = step] /\ UNCHANGED reply

Answer(h, status) ==
  /\ pc' = [pc EXCEPT ![h] = "done"]
  /\ reply' = [reply EXCEPT ![h] = status]

\* A request has arrived: it names key k and carries message m.
Accept(h, k, m, step) ==
  /\ pc[h] = "idle"
  /\ key' = [key EXCEPT ![h] = k]
  /\ msg' = [msg EXCEPT ![h] = m]
  /\ Goto(h, step)
  /\ UNCHANGED <<files, data, history, faults>>

\* The request is answered at once, without touching the request state.
AnswerAtOnce(h, k, m, status) ==
  /\ pc[h] = "idle"
  /\ key' = [key EXCEPT ![h] = k]
  /\ msg' = [msg EXCEPT ![h] = m]
  /\ Answer(h, status)
  /\ UNCHANGED <<files, data, history, faults>>

\* What write() leaves in a file it did not find empty: another writer has
\* written since this one truncated, and a shorter text leaves the tail of a
\* longer one behind.
WriteOutcomes(file, content) ==
  {[st |-> "ok", data |-> content]} \cup
  (IF file.st = "empty" THEN {} ELSE {Unreadable("torn")})

\* The open and truncate half of SlashingProtectionData::write.
OpenDb(h) == dbFile' = [dbFile EXCEPT ![key[h]] = Unreadable("empty")]

\* Mutant: a database that cannot be read is taken for a fresh one.
ReadNeverFails(k) == TRUE

\* SlashingProtectionData::read.
ReadOk(k) == dbFile[k].st = "ok"

----------------------------------------------------------------------------
(***************************************************************************)
(* The signing route, sign_validator_message.                              *)
(***************************************************************************)
RefusedTags == {"DEPOSIT"}

\* Only the upper case deposit variant is turned away, then malformed keys.
SignRejected(h) ==
  \E k \in Keys \cup {NoKey}, m \in Messages :
    /\ m.tag \in RefusedTags \/ k = NoKey
    /\ AnswerAtOnce(h, k, m, 400)

SignRequest(h) ==
  \E k \in Keys, m \in Messages :
    /\ m.tag \notin RefusedTags
    /\ Accept(h, k, m, "check")

\* is_slashable reads the database whatever the message is.
Check(h) ==
  /\ pc[h] = "check"
  /\ LET k == key[h]  m == msg[h]  db == dbFile[k].data IN
       \/ ~ReadOk(k) /\ Answer(h, 500)
       \/ ReadOk(k) /\ IsSlashable(db, m) /\ Answer(h, 412)
       \/ /\ ReadOk(k) /\ ~IsSlashable(db, m)
          /\ Goto(h, IF can_be_slashed(m) THEN "update" ELSE "sign")
  /\ UNCHANGED <<files, request, history, faults>>

\* update_slash_protection_db reads the file again.
Update(h) ==
  /\ pc[h] = "update"
  /\ LET k == key[h]  m == msg[h]  db == dbFile[k].data IN
       \/ /\ ~ReadOk(k) \/ UpdateBails(db, m)
          /\ Answer(h, 500)
          /\ UNCHANGED data
       \/ /\ ReadOk(k) /\ ~UpdateBails(db, m)
          /\ data' = [data EXCEPT ![h] =
                        Updated(db, m, ALLOW_GROWABLE_SLASH_PROTECTION_DB)]
          /\ Goto(h, "open")
  /\ UNCHANGED <<files, key, msg, history, faults>>

Open(h) ==
  /\ pc[h] = "open"
  /\ OpenDb(h)
  /\ Goto(h, "write")
  /\ UNCHANGED <<keyFile, request, history, faults>>

Write(h) ==
  /\ pc[h] = "write"
  /\ \E f \in WriteOutcomes(dbFile[key[h]], data[h]) :
       dbFile' = [dbFile EXCEPT ![key[h]] = f]
  /\ recorded' = [recorded EXCEPT ![key[h]] = @ \cup {msg[h]}]
  /\ Goto(h, "sign")
  /\ UNCHANGED <<keyFile, request, released, faults>>

\* bls_agg_sign_from_saved_sk needs the key file.
Sign(h) ==
  /\ pc[h] = "sign"
  /\ \/ /\ keyFile[key[h]] = "ok"
        /\ released' = [released EXCEPT ![key[h]] = @ \cup {msg[h]}]
        /\ Answer(h, 200)
     \/ /\ keyFile[key[h]] # "ok"
        /\ Answer(h, 500)
        /\ UNCHANGED released
  /\ UNCHANGED <<files, request, recorded, faults>>

----------------------------------------------------------------------------
(***************************************************************************)
(* Key generation: attest_fresh_bls_key of the validator and               *)
(* attest_new_bls_key of the secure-signer.  The key file is written       *)
(* first, then an empty slashing protection file, then the CVM agent is    *)
(* asked for evidence.  A generated key is random and therefore fresh: it  *)
(* has no files and has signed nothing.                                    *)
(***************************************************************************)
Keygen(h) ==
  \E k \in Keys :
    /\ keyFile[k] = "absent" /\ dbFile[k].st = "absent"
    /\ released[k] = {} /\ recorded[k] = {}
    /\ \A g \in Handlers : key[g] = k => pc[g] \notin KeygenSteps
    /\ Accept(h, k, NoMessage, "create_key")

CreateKey(h) ==
  /\ pc[h] = "create_key"
  /\ keyFile' = [keyFile EXCEPT ![key[h]] = "empty"]
  /\ Goto(h, "write_key")
  /\ UNCHANGED <<dbFile, request, history, faults>>

WriteKey(h) ==
  /\ pc[h] = "write_key"
  /\ keyFile' = [keyFile EXCEPT ![key[h]] = "ok"]
  /\ Goto(h, "new_open")
  /\ UNCHANGED <<dbFile, request, history, faults>>

OpenNew(h) ==
  /\ pc[h] = "new_open"
  /\ OpenDb(h)
  /\ Goto(h, "new_write")
  /\ UNCHANGED <<keyFile, request, history, faults>>

WriteNew(h) ==
  /\ pc[h] = "new_write"
  /\ \E f \in WriteOutcomes(dbFile[key[h]], NewData) :
       dbFile' = [dbFile EXCEPT ![key[h]] = f]
  /\ Goto(h, "attest")
  /\ UNCHANGED <<keyFile, request, history, faults>>

\* The agent signs the evidence or the call fails; the files stay either way.
Attest(h) ==
  /\ pc[h] = "attest"
  /\ \E status \in {201, 500} : Answer(h, status)
  /\ UNCHANGED <<files, request, history, faults>>

----------------------------------------------------------------------------
(***************************************************************************)
(* The deposit route of the secure-signer.  It asks that the key file      *)
(* exists, then reads it; it does not look at the slashing database.       *)
(***************************************************************************)
ValidatorDeposit(h) ==
  \E k \in Keys :
    AnswerAtOnce(h, k, NoMessage,
      CASE keyFile[k] = "absent" -> 412
        [] keyFile[k] = "ok"     -> 200
        [] OTHER                 -> 500)

----------------------------------------------------------------------------
(***************************************************************************)
(* The environment: answers reach the client or are lost, clients hang up, *)
(* file accesses fail, the process crashes and is restarted.               *)
(***************************************************************************)
Reset(H) ==
  /\ pc' = [h \in Handlers |-> IF h \in H THEN "idle" ELSE pc[h]]
  /\ key' = [h \in Handlers |-> IF h \in H THEN NoKey ELSE key[h]]
  /\ msg' = [h \in Handlers |-> IF h \in H THEN NoMessage ELSE msg[h]]
  /\ data' = [h \in Handlers |-> IF h \in H THEN NewData ELSE data[h]]
  /\ reply' = [h \in Handlers |-> IF h \in H THEN NoReply ELSE reply[h]]

Deliver(h) ==
  /\ pc[h] = "done"
  /\ Reset({h})
  /\ UNCHANGED <<files, history, faults>>

\* Only key generation awaits, so only it can be cancelled by a client that
\* closes its connection: hyper then drops the handler.
HangUp(h) ==
  /\ pc[h] = "attest"
  /\ Reset({h})
  /\ UNCHANGED <<files, history, faults>>

Fault == faults < MaxFaults /\ faults' = faults + 1

\* A read, or the opening of a file for writing, fails and changes nothing.
IoError(h) ==
  /\ Fault
  /\ pc[h] \in {"check", "update", "open", "sign", "create_key", "new_open"}
  /\ Answer(h, 500)
  /\ UNCHANGED <<files, request, history>>

\* Mutant: the handler goes on to sign although the write failed.
WriteErrorIgnored(h) ==
  /\ Fault
  /\ pc[h] = "write"
  /\ dbFile' = [dbFile EXCEPT ![key[h]] = Unreadable("torn")]
  /\ Goto(h, "sign")
  /\ UNCHANGED <<keyFile, request, history>>

\* A write fails after the truncation: the old content is gone.
WriteError(h) ==
  /\ Fault
  /\ \/ /\ pc[h] \in {"write", "new_write"}
        /\ dbFile' = [dbFile EXCEPT ![key[h]] = Unreadable("torn")]
        /\ UNCHANGED keyFile
     \/ /\ pc[h] = "write_key"
        /\ keyFile' = [keyFile EXCEPT ![key[h]] = "torn"]
        /\ UNCHANGED dbFile
  /\ Answer(h, 500)
  /\ UNCHANGED <<request, history>>

\* The process dies and restarts: every request in flight is gone, the files stay.
Crash ==
  /\ Fault
  /\ Reset(Handlers)
  /\ UNCHANGED <<files, history>>

----------------------------------------------------------------------------
\* The steps handler h takes without waiting for anybody.
Step(h) ==
  \/ Check(h) \/ Update(h) \/ Open(h) \/ Write(h) \/ Sign(h)
  \/ CreateKey(h) \/ WriteKey(h) \/ OpenNew(h) \/ WriteNew(h)

Next ==
  \/ \E h \in Handlers :
       \/ SignRejected(h) \/ SignRequest(h) \/ Keygen(h) \/ ValidatorDeposit(h)
       \/ Step(h) \/ Attest(h)
       \/ Deliver(h) \/ HangUp(h) \/ IoError(h) \/ WriteError(h)
  \/ Crash

Spec == Init /\ [][Next]_vars

(***************************************************************************)
(* The discipline the enclave relies on and does not enforce: a client     *)
(* sends a signing request for a key only when the previous one for the    *)
(* key has been worked off.  Key generation, deposits and requests for     *)
(* other keys may run at the same time.                                    *)
(***************************************************************************)
OneSignerPerKey ==
  \A g, h \in Handlers :
    g # h /\ pc[g] \in SignSteps /\ pc[h] \in SignSteps => key[g] # key[h]

SerialNext == Next /\ OneSignerPerKey'

SerialSpec == Init /\ [][SerialNext]_vars

(***************************************************************************)
(* Handlers run on threads of their own and never wait for one another, so *)
(* a handler that can take a step eventually does.  Nothing is assumed of  *)
(* clients, of the CVM agent or of faults.                                 *)
(***************************************************************************)
FairSerialSpec == SerialSpec /\ \A h \in Handlers : WF_vars(Step(h))

----------------------------------------------------------------------------
(***************************************************************************)
(* Every variable has its type, a handler with work to do names a key, and *)
(* one that signs has a message; no database has more than one block and   *)
(* one attestation.                                                        *)
(***************************************************************************)
OneEntry(db) == Len(db.signed_blocks) <= 1 /\ Len(db.signed_attestations) <= 1

TypeOK ==
  /\ keyFile \in [Keys -> FileState]
  /\ dbFile \in [Keys -> DbFile]
  /\ pc \in [Handlers -> {"idle", "done"} \cup SignSteps \cup KeygenSteps]
  /\ key \in [Handlers -> Keys \cup {NoKey}]
  /\ msg \in [Handlers -> Messages \cup {NoMessage}]
  /\ data \in [Handlers -> SlashingProtectionData]
  /\ reply \in [Handlers -> StatusCodes \cup {NoReply}]
  /\ released \in [Keys -> SUBSET Messages]
  /\ recorded \in [Keys -> SUBSET Messages]
  /\ faults \in 0..MaxFaults
  /\ \A h \in Handlers : pc[h] \in SignSteps \cup KeygenSteps => key[h] \in Keys
  /\ \A h \in Handlers : pc[h] \in SignSteps => msg[h] \in Messages
  /\ \A k \in Keys : OneEntry(dbFile[k].data)
  /\ \A h \in Handlers : OneEntry(data[h])

(***************************************************************************)
(* The signing route never releases two signatures of one key that slash   *)
(* the validator together, through any sequence of requests, crashes, torn *)
(* files and failed writes.                                                *)
(***************************************************************************)
NoSlashableOffence ==
  \A k \in Keys : \A m, n \in released[k] : ~SlashablePair(m, n)

\* db refuses m and whatever is slashable together with m.
Covers(db, m) ==
  /\ IsBlock(m) => m.slot <= get_latest_signed_block_slot(db)
  /\ IsAttestation(m) => m.source <= LatestSource(db) /\ m.target <= LatestTarget(db)

(***************************************************************************)
(* A database file that can be read still covers every message ever        *)
(* recorded for the key: no later write, of the other kind of message, by  *)
(* a key generation or after a restart, sets it back.                      *)
(***************************************************************************)
RecordedStaysCovered ==
  \A k \in Keys : dbFile[k].st = "ok" => \A m \in recorded[k] : Covers(dbFile[k].data, m)

(***************************************************************************)
(* No signature of a block or attestation leaves the enclave before the    *)
(* write of its database entry has returned, however requests interleave.  *)
(***************************************************************************)
RecordedBeforeReleased ==
  \A k \in Keys : \A m \in released[k] : can_be_slashed(m) => m \in recorded[k]

(***************************************************************************)
(* A request is turned down as slashable (412) only because a message of   *)
(* the same kind, as late or later, was recorded for that very key, or     *)
(* because it is for slot 0 or target epoch 0, which no key ever signs.    *)
(* This holds for concurrent requests, torn files and crashes too.         *)
(***************************************************************************)
RefusalJustified ==
  \A h \in Handlers :
    reply[h] = 412 /\ msg[h] # NoMessage =>
      LET m == msg[h]  R == recorded[key[h]] IN
        \/ /\ IsBlock(m)
           /\ m.slot = 0 \/ \E n \in R : IsBlock(n) /\ m.slot <= n.slot
        \/ /\ IsAttestation(m)
           /\ \/ m.target = 0
              \/ \E n \in R : IsAttestation(n) /\ (m.source < n.source \/ m.target <= n.target)

(***************************************************************************)
(* A key whose database cannot be read, with nobody left who holds its     *)
(* content, is lost for good: no request, retry or restart makes it sign   *)
(* again.  The enclave fails closed after a torn write or a key generation *)
(* cut short between its two files.                                        *)
(***************************************************************************)
Bricked(k) ==
  /\ keyFile[k] # "absent"
  /\ dbFile[k].st # "ok"
  /\ \A h \in Handlers : key[h] = k => pc[h] \notin {"open", "write", "sign"} \cup KeygenSteps

BrickedStaysBricked ==
  [][\A k \in Keys : Bricked(k) => Bricked(k)' /\ released'[k] = released[k]]_vars

(***************************************************************************)
(* The signing route does not sign deposits: sign_validator_message        *)
(* answers "Signing deposit message not allowed".                          *)
(***************************************************************************)
DepositNeverSigned ==
  \A k \in Keys : \A m \in released[k] : m.tag \notin DepositTags

(***************************************************************************)
(* Slashing protection does not get in the way: a request that the         *)
(* database of a complete key does not refuse is signed, unless a fault    *)
(* comes in between.  The check and the update that follows agree.         *)
(***************************************************************************)
FreshRequestSigned ==
  \A h \in Handlers, k \in Keys, m \in Messages :
    (/\ pc[h] = "check" /\ key[h] = k /\ msg[h] = m
     /\ keyFile[k] = "ok" /\ dbFile[k].st = "ok" /\ ~IsSlashable(dbFile[k].data, m))
      ~> (m \in released[k] \/ faults > 0)

(***************************************************************************)
(* The safety half of it: a request that was not refused at first is not   *)
(* turned down later.  Until the message is signed, only a fault of the    *)
(* request itself, or a crash, takes it off its course: not the second     *)
(* read of the database, not a key generation or a deposit, and not        *)
(* requests for other keys or their faults.                                *)
(***************************************************************************)
OnCourse(h, k, m) ==
  /\ key[h] = k /\ msg[h] = m
  /\ keyFile[k] = "ok"
  /\ \/ pc[h] = "check" /\ ReadOk(k) /\ ~IsSlashable(dbFile[k].data, m)
     \/ pc[h] = "update" /\ ReadOk(k) /\ ~UpdateBails(dbFile[k].data, m)
     \/ pc[h] \in {"open", "write", "sign"}

FreshStaysOnCourse ==
  [][\A h \in Handlers, k \in Keys, m \in Messages :
       OnCourse(h, k, m) =>
         OnCourse(h, k, m)' \/ m \in released'[k] \/ IoError(h) \/ WriteError(h) \/ Crash]_vars

(***************************************************************************)
(* The inductive invariant behind the safety of serial requests.           *)
(***************************************************************************)
BeforeDb == KeygenSteps \ {"attest"}

\* The key generation of k has not yet written the slashing protection file.
Unborn(k) ==
  dbFile[k].st = "absent" \/ \E h \in Handlers : key[h] = k /\ pc[h] \in BeforeDb

\* Until then nothing can have been recorded, so the empty database forgets nothing.
UnbornUntouched ==
  \A k \in Keys : Unborn(k) =>
    /\ dbFile[k].st # "ok"
    /\ recorded[k] = {}
    /\ \A h \in Handlers : key[h] = k => pc[h] \notin SignSteps \ {"check"}

OneKeygenPerKey ==
  \A g, h \in Handlers :
    g # h /\ pc[g] \in KeygenSteps /\ pc[h] \in KeygenSteps => key[g] # key[h]

UpdatesAreSlashable ==
  \A h \in Handlers : pc[h] \in {"update", "open", "write"} => can_be_slashed(msg[h])

\* The database a handler is about to write loses nothing that was recorded, and
\* its message is harmless together with all of it.
PendingWriteSafe ==
  \A h \in Handlers : pc[h] \in {"open", "write"} =>
    /\ Covers(data[h], msg[h])
    /\ \A n \in recorded[key[h]] : Covers(data[h], n) /\ ~SlashablePair(msg[h], n)

SignsRecorded ==
  \A h \in Handlers :
    pc[h] = "sign" /\ can_be_slashed(msg[h]) => msg[h] \in recorded[key[h]]

RecordedNeverSlashable ==
  \A k \in Keys : \A m, n \in recorded[k] : ~SlashablePair(m, n)

SerialInv ==
  /\ OneSignerPerKey
  /\ UnbornUntouched
  /\ OneKeygenPerKey
  /\ UpdatesAreSlashable
  /\ PendingWriteSafe
  /\ SignsRecorded
  /\ RecordedNeverSlashable
  /\ RecordedStaysCovered
  /\ RecordedBeforeReleased

(***************************************************************************)
(* The signer implements the abstract promise of NoSlashing: every step    *)
(* that releases a signature is a SignSafely step, the others stutter.     *)
(***************************************************************************)
Promise == INSTANCE NoSlashing WITH released <- released

ImplementsNoSlashing == Promise!Spec
=============================================================================
