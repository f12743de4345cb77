----------------------------- MODULE EnclaveKeys -----------------------------
(***************************************************************************)
(* The key generation and listing routes of the three servers, and the     *)
(* HTTP clients that call them over connections that may break.            *)
(*                                                                         *)
(* A key generation writes the key file, a BLS key also its slashing       *)
(* protection file, and then asks the CVM agent for evidence.  A listing   *)
(* returns the names found in the directory of the kind.  Nothing removes  *)
(* a file.  A client that closes its connection, or sees it break, has an  *)
(* error and no key; the handler goes on up to its next await.             *)
(***************************************************************************)
EXTENDS Naturals

CONSTANTS EthKeys, BlsKeys,   \* keys that can be generated
          Clients,            \* client programs, each with one call at a time
          Handlers,           \* calls the server works on at the same time
          Nobody,             \* the client of a handler that has none
          NoKey,              \* the key of a handler that has none
          MaxFaults           \* bound on crashes and I/O errors in one behaviour

ASSUME KindsAssumption == EthKeys \cap BlsKeys = {} /\ NoKey \notin EthKeys \cup BlsKeys
ASSUME NobodyAssumption == Nobody \notin Clients

VARIABLES program,     \* the server that runs
          dirs,        \* directories that exist
          keyFile,     \* keyFile[k]: state of the key's file
          dbFile,      \* dbFile[k]: state of a BLS key's slashing protection file
          pc,          \* pc[h]: the next step of handler h
          op,          \* op[h]: the operation it performs
          client,      \* client[h]: the client that waits for it
          key,         \* key[h]: the key it generates
          names,       \* names[h]: the file names it has collected
          reply,       \* reply[h]: its status code
          expected,    \* expected[h]: keys its client knew of when it called
          got,         \* responses clients have received, [key, form]
          heard,       \* keys that some client has got or seen in a listing
          faults       \* crashes and I/O errors so far

files == <<dirs, keyFile, dbFile>>
request == <<op, client, key, expected>>
heardOf == <<got, heard>>
vars == <<program, files, pc, request, names, reply, heardOf, faults>>

Keys == EthKeys \cup BlsKeys
FileState == {"absent", "empty", "torn", "ok"}

\* What the methods of the clients ask for, and which server has the route.
EthKeygenOps == {"attest_fresh_eth_key", "generate_eth_key"}
BlsKeygenOps == {"attest_fresh_bls_key", "generate_bls_key"}
ListOps == {"list_eth_keys", "list_bls_keys"}
Ops == EthKeygenOps \cup BlsKeygenOps \cup ListOps

GuardianOps == {"attest_fresh_eth_key", "list_eth_keys"}
ValidatorOps == {"attest_fresh_bls_key", "list_bls_keys"}
SecureSignerOps == {"generate_eth_key", "generate_bls_key", "list_eth_keys", "list_bls_keys"}

Programs == {"guardian", "validator", "secure-signer"}
Routes(p) ==
  CASE p = "guardian" -> GuardianOps
    [] p = "validator" -> ValidatorOps
    [] p = "secure-signer" -> SecureSignerOps

Dir(o) == IF o \in EthKeygenOps \cup {"list_eth_keys"} THEN "eth_keys" ELSE "bls_keys"
KeysIn(dir) == IF dir = "eth_keys" THEN EthKeys ELSE BlsKeys

Init ==
  /\ program \in Programs
  /\ dirs = {}
  /\ keyFile = [k \in Keys |-> "absent"]
  /\ dbFile = [k \in BlsKeys |-> "absent"]
  /\ pc = [h \in Handlers |-> "idle"]
  /\ op = [h \in Handlers |-> "none"]
  /\ client = [h \in Handlers |-> Nobody]
  /\ key = [h \in Handlers |-> NoKey]
  /\ names = [h \in Handlers |-> {}]
  /\ reply = [h \in Handlers |-> 0]
  /\ expected = [h \in Handlers |-> {}]
  /\ got = {} /\ heard = {}
  /\ faults = 0

----------------------------------------------------------------------------
Goto(h, step) == pc' = [pc EXCEPT ![h] = step] /\ UNCHANGED reply

Answer(h, status) ==
  /\ pc' = [pc EXCEPT ![h] = "done"]
  /\ reply' = [reply EXCEPT ![h] = status]

\* Mutant: a client has several calls at a time.
NeverWaiting(c) == FALSE

\* A client waits for one call; a key that is to be generated is fresh.
Waiting(c) == \E h \in Handlers : client[h] = c

Call(c, h, o) ==
  /\ pc[h] = "idle" /\ ~Waiting(c)
  /\ o \in Routes(program)
  /\ op' = [op EXCEPT ![h] = o]
  /\ client' = [client EXCEPT ![h] = c]
  /\ expected' = [expected EXCEPT ![h] = heard]
  /\ IF o \in ListOps
     THEN Goto(h, "open_dir") /\ UNCHANGED key
     ELSE /\ \E k \in KeysIn(Dir(o)) :
               /\ keyFile[k] = "absent" /\ \A g \in Handlers : key[g] # k
               /\ key' = [key EXCEPT ![h] = k]
          /\ Goto(h, "make_dir")
  /\ UNCHANGED <<program, files, names, heardOf, faults>>

----------------------------------------------------------------------------
(***************************************************************************)
(* Key generation: write_key, SlashingProtectionData::write, the agent.    *)
(***************************************************************************)
MakeDir(h) ==
  /\ pc[h] = "make_dir"
  /\ dirs' = dirs \cup {Dir(op[h])}
  /\ Goto(h, "create_key")
  /\ UNCHANGED <<program, keyFile, dbFile, request, names, heardOf, faults>>

CreateKey(h) ==
  /\ pc[h] = "create_key"
  /\ keyFile' = [keyFile EXCEPT ![key[h]] = "empty"]
  /\ Goto(h, "write_key")
  /\ UNCHANGED <<program, dirs, dbFile, request, names, heardOf, faults>>

\* The guardian parses the contract address only now, and it may be malformed.
AfterEthKey(h) ==
  \/ Goto(h, "attest")
  \/ op[h] = "attest_fresh_eth_key" /\ Answer(h, 500)

WriteKey(h) ==
  /\ pc[h] = "write_key"
  /\ keyFile' = [keyFile EXCEPT ![key[h]] = "ok"]
  /\ IF op[h] \in EthKeygenOps THEN AfterEthKey(h) ELSE Goto(h, "create_db")
  /\ UNCHANGED <<program, dirs, dbFile, request, names, heardOf, faults>>

CreateDb(h) ==
  /\ pc[h] = "create_db"
  /\ dbFile' = [dbFile EXCEPT ![key[h]] = "empty"]
  /\ Goto(h, "write_db")
  /\ UNCHANGED <<program, dirs, keyFile, request, names, heardOf, faults>>

\* A validator enclave asks for evidence only if the request says so.
WriteDb(h) ==
  /\ pc[h] = "write_db"
  /\ dbFile' = [dbFile EXCEPT ![key[h]] = "ok"]
  /\ \/ Goto(h, "attest")
     \/ op[h] = "attest_fresh_bls_key" /\ Answer(h, 201)
  /\ UNCHANGED <<program, dirs, keyFile, request, names, heardOf, faults>>

\* sign_with_session: the agent signs or fails, or does not answer at all.
Attest(h) ==
  /\ pc[h] = "attest"
  /\ \E status \in {201, 500} : Answer(h, status)
  /\ UNCHANGED <<program, files, request, names, heardOf, faults>>

----------------------------------------------------------------------------
(***************************************************************************)
(* Listing, list_fnames.  The directory does not exist before the first    *)
(* key generation; names that appear while it is read may be missed.       *)
(***************************************************************************)
FileNames(dir) == {k \in KeysIn(dir) : keyFile[k] # "absent"}

\* Mutant: a listing waits for the directory to appear.
OpenDirWaits(h) ==
  /\ pc[h] = "open_dir"
  /\ Dir(op[h]) \in dirs
  /\ names' = [names EXCEPT ![h] = FileNames(Dir(op[h]))]
  /\ Goto(h, "read_dir")
  /\ UNCHANGED <<program, files, request, heardOf, faults>>

OpenDir(h) ==
  /\ pc[h] = "open_dir"
  /\ \/ /\ Dir(op[h]) \in dirs
        /\ names' = [names EXCEPT ![h] = FileNames(Dir(op[h]))]
        /\ Goto(h, "read_dir")
     \/ /\ Dir(op[h]) \notin dirs
        /\ Answer(h, 500)
        /\ UNCHANGED names
  /\ UNCHANGED <<program, files, request, heardOf, faults>>

\* Mutant: only the names that were added while reading are returned.
ReadDirLate(h) ==
  /\ pc[h] = "read_dir"
  /\ names' = [names EXCEPT ![h] = FileNames(Dir(op[h])) \ @]
  /\ Answer(h, 200)
  /\ UNCHANGED <<program, files, request, heardOf, faults>>

ReadDir(h) ==
  /\ pc[h] = "read_dir"
  /\ \E late \in SUBSET FileNames(Dir(op[h])) :
       names' = [names EXCEPT ![h] = @ \cup late]
  /\ Answer(h, 200)
  /\ UNCHANGED <<program, files, request, heardOf, faults>>

----------------------------------------------------------------------------
(***************************************************************************)
(* The connection.  An answer is Ok only if its status is a success, or,   *)
(* for the client of the secure-signer, which does not look at the status, *)
(* only if its body is the JSON expected, which amounts to the same.       *)
(***************************************************************************)
Release(H) ==
  /\ pc' = [h \in Handlers |-> IF h \in H THEN "idle" ELSE pc[h]]
  /\ op' = [h \in Handlers |-> IF h \in H THEN "none" ELSE op[h]]
  /\ client' = [h \in Handlers |-> IF h \in H THEN Nobody ELSE client[h]]
  /\ key' = [h \in Handlers |-> IF h \in H THEN NoKey ELSE key[h]]
  /\ names' = [h \in Handlers |-> IF h \in H THEN {} ELSE names[h]]
  /\ reply' = [h \in Handlers |-> IF h \in H THEN 0 ELSE reply[h]]
  /\ expected' = [h \in Handlers |-> IF h \in H THEN {} ELSE expected[h]]

\* Mutant: the secure-signer's client takes any answer for a key.
AnyAnswer(h) == TRUE

IsOk(h) == reply[h] \in 200..299

\* from_eth_key hands out the uncompressed form of a key; a listing shows file
\* names, which are the compressed form.
Response(k) == [key |-> k, form |-> IF k \in EthKeys THEN "uncompressed" ELSE "compressed"]

Receive(h) ==
  /\ pc[h] = "done" /\ client[h] # Nobody
  /\ LET new == IF IsOk(h) /\ key[h] # NoKey THEN {key[h]} ELSE {} IN
       /\ got' = got \cup {Response(k) : k \in new}
       /\ heard' = heard \cup new \cup names[h]
  /\ Release({h})
  /\ UNCHANGED <<program, files, faults>>

\* The connection breaks, or the client drops the call: it has an error, and the
\* handler does not know yet.
GiveUp(h) ==
  /\ client[h] # Nobody
  /\ client' = [client EXCEPT ![h] = Nobody]
  /\ UNCHANGED <<program, files, pc, op, key, names, reply, expected, heardOf, faults>>

\* Mutant: the handler awaits between its files too.
CancelAnywhere(h) ==
  /\ client[h] = Nobody
  /\ pc[h] \in {"create_db", "attest", "done"}
  /\ Release({h})
  /\ UNCHANGED <<program, files, heardOf, faults>>

\* hyper drops a handler without a client at its await, and its answer.
Cancel(h) ==
  /\ client[h] = Nobody
  /\ pc[h] \in {"attest", "done"}
  /\ Release({h})
  /\ UNCHANGED <<program, files, heardOf, faults>>

----------------------------------------------------------------------------
Fault == faults < MaxFaults /\ faults' = faults + 1

IoError(h) ==
  /\ Fault
  /\ pc[h] \in {"make_dir", "create_key", "create_db", "open_dir", "read_dir"}
  /\ Answer(h, 500)
  /\ names' = [names EXCEPT ![h] = {}]
  /\ UNCHANGED <<program, files, request, heardOf>>

WriteError(h) ==
  /\ Fault
  /\ \/ /\ pc[h] = "write_key"
        /\ keyFile' = [keyFile EXCEPT ![key[h]] = "torn"] /\ UNCHANGED dbFile
     \/ /\ pc[h] = "write_db"
        /\ dbFile' = [dbFile EXCEPT ![key[h]] = "torn"] /\ UNCHANGED keyFile
  /\ Answer(h, 500)
  /\ UNCHANGED <<program, dirs, request, names, heardOf>>

\* The server dies and restarts; the clients that wait see their connections break.
Crash ==
  /\ Fault
  /\ Release(Handlers)
  /\ UNCHANGED <<program, files, heardOf>>

----------------------------------------------------------------------------
Step(h) ==
  \/ MakeDir(h) \/ CreateKey(h) \/ WriteKey(h) \/ CreateDb(h) \/ WriteDb(h)
  \/ OpenDir(h) \/ ReadDir(h)

Next ==
  \/ \E h \in Handlers :
       \/ \E c \in Clients, o \in Ops : Call(c, h, o)
       \/ Step(h) \/ Attest(h)
       \/ Receive(h) \/ GiveUp(h) \/ Cancel(h)
       \/ IoError(h) \/ WriteError(h)
  \/ Crash

Spec == Init /\ [][Next]_vars

(***************************************************************************)
(* Handlers run on threads of their own, and an answer that was given      *)
(* reaches the client or the connection breaks.  Nothing is assumed of the *)
(* agent.                                                                  *)
(***************************************************************************)
FairSpec ==
  Spec /\ \A h \in Handlers : WF_vars(Step(h)) /\ WF_vars(Receive(h))

----------------------------------------------------------------------------
(***************************************************************************)
(* Every variable has its type; a client waits for one handler, and two    *)
(* handlers never generate one key.                                        *)
(***************************************************************************)
TypeOK ==
  /\ program \in Programs
  /\ dirs \subseteq {"eth_keys", "bls_keys"}
  /\ keyFile \in [Keys -> FileState]
  /\ dbFile \in [BlsKeys -> FileState]
  /\ client \in [Handlers -> Clients \cup {Nobody}]
  /\ key \in [Handlers -> Keys \cup {NoKey}]
  /\ names \in [Handlers -> SUBSET Keys]
  /\ reply \in [Handlers -> {0, 200, 201, 500}]
  /\ heard \subseteq Keys
  /\ \A g, h \in Handlers : g # h =>
       /\ client[g] = client[h] => client[g] = Nobody
       /\ key[g] = key[h] => key[g] = NoKey

\* Key k can be used: by the signing and deposit routes, or to open shares.
Complete(k) == keyFile[k] = "ok" /\ (k \in BlsKeys => dbFile[k] = "ok")

(***************************************************************************)
(* A key that a client has received is complete, and stays so through      *)
(* crashes and failed writes: no key is handed out before all its files    *)
(* are written, and nothing overwrites them later.                         *)
(***************************************************************************)
ReceivedKeysComplete == \A r \in got : Complete(r.key)

(***************************************************************************)
(* Without crashes and failed writes a listing leads nobody to half a key: *)
(* whatever clients hang up when, a listed key that no handler is working  *)
(* on is complete.  A handler is never cancelled between its files.        *)
(***************************************************************************)
InWork(k) == \E h \in Handlers : key[h] = k

ListedKeysComplete ==
  faults = 0 => \A k \in heard : Complete(k) \/ InWork(k)

(***************************************************************************)
(* No key is left half made because its client hung up, or because other   *)
(* calls go on or fail: its handler works on until the key is complete,    *)
(* unless an access to its own files fails or the server dies.  A complete *)
(* key stays complete through any faults.                                  *)
(***************************************************************************)
Generating(h, k) ==
  key[h] = k /\ pc[h] \in {"make_dir", "create_key", "write_key", "create_db", "write_db"}

KeysGetFinished ==
  [][\A k \in Keys :
       /\ Complete(k) => Complete(k)'
       /\ \A h \in Handlers : Generating(h, k) =>
            Generating(h, k)' \/ Complete(k)' \/ IoError(h) \/ WriteError(h) \/ Crash]_vars

(***************************************************************************)
(* A listing shows every key that any client had got, or had seen listed,  *)
(* when the call was made, though other key generations are under way; and *)
(* it does not fail once there is such a key, but for an I/O error.        *)
(***************************************************************************)
ListingsComplete ==
  \A h \in Handlers :
    LET old == expected[h] \cap KeysIn(Dir(op[h])) IN
      pc[h] = "done" /\ op[h] \in ListOps /\ old # {} =>
        \/ old \subseteq names[h]
        \/ reply[h] = 500 /\ faults > 0

(***************************************************************************)
(* A call ends, with an answer or an error, unless its handler waits for   *)
(* the CVM agent: then only the client can end it, for neither side sets a *)
(* timeout.                                                                *)
(***************************************************************************)
CallsEnd ==
  \A h \in Handlers, c \in Clients :
    client[h] = c ~> (client[h] # c \/ pc[h] = "attest")
==============================================================================
