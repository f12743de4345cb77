--------------------------- MODULE EnclaveKeysProofs ---------------------------
(***************************************************************************)
(* Keys that are handed out or listed are complete, and listings miss      *)
(* none, for any number of keys, clients, handlers and faults.             *)
(*                                                                         *)
(* A key belongs to the one handler that generates it (Typing), whose step *)
(* tells how far its files are (KeygenInv); nobody else touches them, and  *)
(* they never become absent again.  A listing has, from the moment it has  *)
(* opened the directory, all keys that were heard of before (ListInv).     *)
(***************************************************************************)
EXTENDS EnclaveKeys, TLAPS

Steps == {"idle", "make_dir", "create_key", "write_key", "create_db", "write_db", "attest",
          "open_dir", "read_dir", "done"}
KeygenOps == EthKeygenOps \cup BlsKeygenOps

Typing ==
  /\ TypeOK
  /\ pc \in [Handlers -> Steps]
  /\ op \in [Handlers -> Ops \cup {"none"}]
  /\ expected \in [Handlers -> SUBSET Keys]
  /\ got \subseteq {Response(k) : k \in Keys}
  /\ faults \in Nat

\* How far handler h has come with its key.
KeygenOf(h) ==
  /\ pc[h] = "idle" => key[h] = NoKey
  /\ pc[h] \in {"open_dir", "read_dir"} => key[h] = NoKey /\ op[h] \in ListOps
  /\ key[h] # NoKey => op[h] \in KeygenOps /\ key[h] \in KeysIn(Dir(op[h]))
  /\ pc[h] \in {"make_dir", "create_key", "write_key", "create_db", "write_db", "attest"} =>
       key[h] # NoKey
  /\ pc[h] \in {"make_dir", "create_key"} => keyFile[key[h]] = "absent"
  /\ pc[h] = "create_key" => Dir(op[h]) \in dirs
  /\ pc[h] = "write_key" => keyFile[key[h]] = "empty"
  /\ pc[h] \in {"create_db", "write_db"} => op[h] \in BlsKeygenOps /\ keyFile[key[h]] = "ok"
  /\ pc[h] = "create_db" => dbFile[key[h]] = "absent"
  /\ pc[h] = "write_db" => dbFile[key[h]] = "empty"
  /\ pc[h] = "attest" => Complete(key[h])
  /\ pc[h] = "done" /\ key[h] # NoKey /\ (reply[h] # 500 \/ faults = 0) => Complete(key[h])

KeygenInv == \A h \in Handlers : KeygenOf(h)

\* The slashing protection file is not there before the key file is complete, and the
\* directory of every key file is there.
Present == {k \in Keys : keyFile[k] # "absent"}

FilesInv ==
  /\ \A k \in BlsKeys : keyFile[k] # "ok" => dbFile[k] = "absent"
  /\ \A k \in Present : \A dir \in {"eth_keys", "bls_keys"} : k \in KeysIn(dir) => dir \in dirs

\* A key that is there is complete or in work, unless there was a fault.
PresentInv == faults = 0 => \A k \in Present : Complete(k) \/ InWork(k)

\* What handler h has to list, and what it has found.
ListOf(h) ==
  /\ expected[h] \cup names[h] \subseteq Present
  /\ pc[h] = "read_dir" => expected[h] \cap KeysIn(Dir(op[h])) \subseteq names[h]

ListInv == \A h \in Handlers : ListOf(h)

HeardInv == heard \subseteq Present /\ ReceivedKeysComplete

EnclaveInv ==
  Typing /\ KeygenInv /\ FilesInv /\ PresentInv /\ ListInv /\ HeardInv /\ ListingsComplete

----------------------------------------------------------------------------
(***************************************************************************)
(* Types.                                                                  *)
(***************************************************************************)
\* The two kinds of key are apart.
LEMMA KeyKinds == Keys = EthKeys \cup BlsKeys /\ NoKey \notin Keys /\ EthKeys \cap BlsKeys = {}
  BY KindsAssumption DEF Keys

\* Nothing is generated, in work or heard of at first.
LEMMA TypingInit == Init => Typing
  BY KeyKinds
     DEF Init, Typing, TypeOK, Steps, FileState, Programs

\* Every step keeps the types, and the keys of handlers apart.
LEMMA TypingStep == Typing /\ KeygenInv /\ ListInv /\ [Next]_vars => Typing'
<1> SUFFICES ASSUME Typing, KeygenInv, ListInv, [Next]_vars PROVE Typing'
  OBVIOUS
<1>0. /\ TypeOK /\ pc \in [Handlers -> Steps] /\ op \in [Handlers -> Ops \cup {"none"}]
      /\ expected \in [Handlers -> SUBSET Keys] /\ got \subseteq {Response(k) : k \in Keys}
      /\ faults \in Nat
  BY DEF Typing
<1> USE <1>0, NobodyAssumption, KeyKinds DEF Typing, TypeOK, Steps
<1>1. CASE UNCHANGED vars
  BY <1>1 DEF vars, files, request, heardOf
<1>2. ASSUME NEW h \in Handlers, NEW c \in Clients, NEW o \in Ops, Call(c, h, o) PROVE Typing'
  BY <1>2 DEF Call, Waiting, Goto, files, heardOf, KeysIn
<1>3. ASSUME NEW h \in Handlers, MakeDir(h) PROVE Typing'
  BY <1>3 DEF MakeDir, Goto, request, heardOf, Dir
<1>4. ASSUME NEW h \in Handlers, CreateKey(h) PROVE Typing'
  BY <1>4 DEF CreateKey, Goto, request, heardOf, FileState
<1>5. ASSUME NEW h \in Handlers, WriteKey(h) PROVE Typing'
  <2>1. pc' \in [Handlers -> Steps] /\ reply' \in [Handlers -> {0, 200, 201, 500}]
    BY <1>5 DEF WriteKey, AfterEthKey, Goto, Answer
  <2>2. keyFile' \in [Keys -> FileState]
    BY <1>5 DEF WriteKey, FileState
  <2> QED BY <1>5, <2>1, <2>2 DEF WriteKey, request, heardOf
<1>6. ASSUME NEW h \in Handlers, CreateDb(h) PROVE Typing'
  BY <1>6 DEF CreateDb, Goto, request, heardOf, FileState
<1>7. ASSUME NEW h \in Handlers, WriteDb(h) PROVE Typing'
  <2>1. pc' \in [Handlers -> Steps] /\ reply' \in [Handlers -> {0, 200, 201, 500}]
    BY <1>7 DEF WriteDb, Goto, Answer
  <2>2. dbFile' \in [BlsKeys -> FileState]
    BY <1>7 DEF WriteDb, FileState
  <2> QED BY <1>7, <2>1, <2>2 DEF WriteDb, request, heardOf
<1>8. ASSUME NEW h \in Handlers, Attest(h) PROVE Typing'
  BY <1>8 DEF Attest, Answer, files, request, heardOf
<1>9. ASSUME NEW h \in Handlers, OpenDir(h) PROVE Typing'
  BY <1>9 DEF OpenDir, Goto, Answer, files, request, heardOf, FileNames, KeysIn
<1>10. ASSUME NEW h \in Handlers, ReadDir(h) PROVE Typing'
  BY <1>10 DEF ReadDir, Answer, files, request, heardOf, FileNames, KeysIn
<1>11. ASSUME NEW h \in Handlers, Receive(h) PROVE Typing'
  BY <1>11 DEF Receive, Release, files
<1>12. ASSUME NEW h \in Handlers, GiveUp(h) PROVE Typing'
  BY <1>12 DEF GiveUp, files, heardOf
<1>13. ASSUME NEW h \in Handlers, Cancel(h) PROVE Typing'
  BY <1>13 DEF Cancel, Release, files, heardOf
<1>14. ASSUME NEW h \in Handlers, IoError(h) PROVE Typing'
  BY <1>14 DEF IoError, Fault, Answer, files, request, heardOf
<1>15. ASSUME NEW h \in Handlers, WriteError(h) PROVE Typing'
  BY <1>15 DEF WriteError, Fault, Answer, request, heardOf, FileState
<1>16. CASE Crash
  BY <1>16 DEF Crash, Fault, Release, files, heardOf
<1> QED BY <1>1, <1>2, <1>3, <1>4, <1>5, <1>6, <1>7, <1>8, <1>9, <1>10, <1>11, <1>12, <1>13,
           <1>14, <1>15, <1>16 DEF Next, Step

----------------------------------------------------------------------------
(***************************************************************************)
(* What a step means to a handler that does not take it, and to the files. *)
(***************************************************************************)
SameWork(g) ==
  /\ pc'[g] = pc[g] /\ op'[g] = op[g] /\ key'[g] = key[g] /\ names'[g] = names[g]
  /\ reply'[g] = reply[g] /\ expected'[g] = expected[g]

SameFiles(k) == keyFile'[k] = keyFile[k] /\ (k \in BlsKeys => dbFile'[k] = dbFile[k])

Gone(g) == pc'[g] = "idle" /\ key'[g] = NoKey /\ names'[g] = {} /\ expected'[g] = {}

Later == dirs \subseteq dirs' /\ (faults' = 0 => faults = 0)

\* A handler whose key is not touched has come as far as before.
LEMMA Bystander ==
  ASSUME Typing, NEW g \in Handlers, KeygenOf(g), SameWork(g), Later,
         key[g] # NoKey => SameFiles(key[g])
  PROVE  KeygenOf(g)'
<1>1. key[g] # NoKey => (Complete(key[g]) => Complete(key[g])')
  BY DEF SameFiles, Complete, SameWork
<1>2. op[g] \in BlsKeygenOps /\ key[g] # NoKey => key[g] \in BlsKeys
  BY DEF KeygenOf, BlsKeygenOps, EthKeygenOps, KeysIn, Dir
<1>3. pc[g] \in {"make_dir", "create_key", "write_key", "create_db", "write_db", "attest"} => key[g] # NoKey
  BY DEF KeygenOf
<1> QED BY <1>1, <1>2, <1>3 DEF KeygenOf, SameWork, SameFiles, Later, Complete

\* What handler h may do to the files.
Writing(h) ==
  \/ pc[h] = "create_key" /\ keyFile' = [keyFile EXCEPT ![key[h]] = "empty"] /\ dbFile' = dbFile
  \/ /\ pc[h] = "write_key" /\ dbFile' = dbFile
     /\ \E st \in {"ok", "torn"} : keyFile' = [keyFile EXCEPT ![key[h]] = st]
  \/ pc[h] = "create_db" /\ dbFile' = [dbFile EXCEPT ![key[h]] = "empty"] /\ keyFile' = keyFile
  \/ /\ pc[h] = "write_db" /\ keyFile' = keyFile
     /\ \E st \in {"ok", "torn"} : dbFile' = [dbFile EXCEPT ![key[h]] = st]

Resting == keyFile' = keyFile /\ dbFile' = dbFile

Does(h) ==
  \/ \E c \in Clients, o \in Ops : Call(c, h, o)
  \/ Step(h) \/ Attest(h) \/ Receive(h) \/ Cancel(h) \/ IoError(h) \/ WriteError(h)

Locally(h) ==
  /\ Resting \/ Writing(h)
  /\ \A g \in Handlers \ {h} : SameWork(g)
  /\ Later

Acts(h) == Does(h) /\ Locally(h)

\* Only a crash touches several handlers.
LEMMA OneActs ==
  Typing /\ [Next]_vars =>
    \/ Resting /\ Later /\ \A g \in Handlers : SameWork(g)
    \/ \E h \in Handlers : Acts(h)
    \/ Crash
<1> SUFFICES ASSUME Typing, [Next]_vars, ~Crash,
                    ~ (Resting /\ Later /\ \A g \in Handlers : SameWork(g))
             PROVE  \E h \in Handlers : Acts(h)
  OBVIOUS
<1>0. /\ pc \in [Handlers -> Steps] /\ op \in [Handlers -> Ops \cup {"none"}]
      /\ expected \in [Handlers -> SUBSET Keys] /\ faults \in Nat
      /\ key \in [Handlers -> Keys \cup {NoKey}] /\ names \in [Handlers -> SUBSET Keys]
      /\ reply \in [Handlers -> {0, 200, 201, 500}] /\ client \in [Handlers -> Clients \cup {Nobody}]
  BY DEF Typing, TypeOK
<1>1. ~ UNCHANGED vars
  BY DEF vars, files, request, Resting, Later, SameWork
<1> USE <1>0 DEF Locally, Resting, SameWork, Later
<1>2. ASSUME NEW h \in Handlers, NEW c \in Clients, NEW o \in Ops, Call(c, h, o) PROVE Locally(h)
  BY <1>2 DEF Call, Goto, files
<1>3. ASSUME NEW h \in Handlers, MakeDir(h) PROVE Locally(h)
  BY <1>3 DEF MakeDir, Goto, request
<1>4. ASSUME NEW h \in Handlers, CreateKey(h) PROVE Locally(h)
  BY <1>4 DEF CreateKey, Goto, request, Writing
<1>5. ASSUME NEW h \in Handlers, WriteKey(h) PROVE Locally(h)
  BY <1>5 DEF WriteKey, AfterEthKey, Goto, Answer, request, Writing
<1>6. ASSUME NEW h \in Handlers, CreateDb(h) PROVE Locally(h)
  BY <1>6 DEF CreateDb, Goto, request, Writing
<1>7. ASSUME NEW h \in Handlers, WriteDb(h) PROVE Locally(h)
  BY <1>7 DEF WriteDb, Goto, Answer, request, Writing
<1>8. ASSUME NEW h \in Handlers, Attest(h) PROVE Locally(h)
  BY <1>8 DEF Attest, Answer, files, request
<1>9. ASSUME NEW h \in Handlers, OpenDir(h) PROVE Locally(h)
  BY <1>9 DEF OpenDir, Goto, Answer, files, request
<1>10. ASSUME NEW h \in Handlers, ReadDir(h) PROVE Locally(h)
  BY <1>10 DEF ReadDir, Answer, files, request
<1>11. ASSUME NEW h \in Handlers, Receive(h) \/ Cancel(h) PROVE Locally(h)
  BY <1>11 DEF Receive, Cancel, Release, files
<1>12. ASSUME NEW h \in Handlers, GiveUp(h) PROVE FALSE
  BY <1>12 DEF GiveUp, files
<1>13. ASSUME NEW h \in Handlers, IoError(h) PROVE Locally(h)
  BY <1>13 DEF IoError, Fault, Answer, files, request
<1>14. ASSUME NEW h \in Handlers, WriteError(h) PROVE Locally(h)
  BY <1>14 DEF WriteError, Fault, Answer, request, Writing
<1> QED BY <1>1, <1>2, <1>3, <1>4, <1>5, <1>6, <1>7, <1>8, <1>9, <1>10, <1>11, <1>12, <1>13,
           <1>14 DEF Next, Acts, Does, Step

\* A writing handler touches no key of another handler, and none that is complete.
LEMMA WriterKeeps ==
  ASSUME Typing, KeygenInv, NEW h \in Handlers, Writing(h)
  PROVE  /\ \A g \in Handlers \ {h} : key[g] # NoKey => SameFiles(key[g])
         /\ \A k \in Keys : Complete(k) => Complete(k)'
         /\ \A k \in Keys : k # key[h] => SameFiles(k)
         /\ \A k \in Keys : keyFile[k] # "absent" => keyFile'[k] # "absent"
         /\ key[h] \in Keys /\ keyFile'[key[h]] # "absent"
<1>1. /\ keyFile \in [Keys -> FileState] /\ dbFile \in [BlsKeys -> FileState]
      /\ key \in [Handlers -> Keys \cup {NoKey}]
      /\ \A g \in Handlers : g # h => (key[g] = key[h] => key[g] = NoKey)
  BY DEF Typing, TypeOK
<1>2. key[h] \in Keys /\ ~Complete(key[h])
  BY <1>1, KeyKinds DEF KeygenInv, KeygenOf, Writing, Complete, BlsKeygenOps, EthKeygenOps, KeysIn, Dir
<1>3. \A k \in Keys : k # key[h] => SameFiles(k)
  BY <1>1 DEF Writing, SameFiles
<1>4. \A k \in Keys : Complete(k) => Complete(k)'
  BY <1>2, <1>3 DEF SameFiles, Complete
<1>5. keyFile'[key[h]] # "absent"
  BY <1>1, <1>2 DEF Writing, KeygenInv, KeygenOf
<1>6. \A k \in Keys : keyFile[k] # "absent" => keyFile'[k] # "absent"
  BY <1>3, <1>5 DEF SameFiles
<1>7. \A g \in Handlers \ {h} : key[g] # NoKey => SameFiles(key[g])
  BY <1>1, <1>3
<1> QED BY <1>2, <1>3, <1>4, <1>5, <1>6, <1>7

\* No step takes back a key: what is complete stays complete, what is there stays there.
LEMMA KeysStay ==
  ASSUME Typing, KeygenInv, [Next]_vars
  PROVE  /\ \A k \in Keys : Complete(k) => Complete(k)'
         /\ Present \subseteq Present'
         /\ Later
<1>1. CASE Resting /\ Later
  BY <1>1 DEF Resting, Complete, Present
<1>2. ASSUME NEW h \in Handlers, Acts(h), ~Resting
      PROVE  /\ \A k \in Keys : Complete(k) => Complete(k)'
             /\ Present \subseteq Present' /\ Later
  BY <1>2, WriterKeeps DEF Acts, Locally, Present
<1>3. CASE Crash
  <2>1. Resting /\ Later
    BY <1>3 DEF Crash, Fault, files, Resting, Later, Typing
  <2> QED BY <1>1, <2>1
<1> QED BY <1>1, <1>2, <1>3, OneActs DEF Acts, Locally

\* A step leaves the handlers as they are that do not take it, or ends them all.
LEMMA Bystanders ==
  ASSUME Typing, KeygenInv, NEW h \in Handlers, Acts(h), NEW g \in Handlers, g # h
  PROVE  KeygenOf(g)'
<1>1. key[g] # NoKey => SameFiles(key[g])
  BY WriterKeeps DEF Acts, Locally, Resting, SameFiles
<1> QED BY <1>1, Bystander DEF Acts, Locally, KeygenInv

\* A handler that is gone has no key.
LEMMA GoneHandlers ==
  ASSUME Typing, NEW H \in SUBSET Handlers, Release(H)
  PROVE  \A g \in Handlers : IF g \in H THEN Gone(g) ELSE SameWork(g)
  BY DEF Typing, TypeOK, Release, Gone, SameWork

\* It has nothing left to keep.
LEMMA GoneIsIdle ==
  ASSUME NEW g \in Handlers, Gone(g)
  PROVE  KeygenOf(g)' /\ ListOf(g)'
  BY DEF Gone, KeygenOf, ListOf

----------------------------------------------------------------------------
(***************************************************************************)
(* Key generation keeps its order of files.                                *)
(***************************************************************************)
LEMMA KeygenStep == Typing /\ KeygenInv /\ FilesInv /\ [Next]_vars => KeygenInv'
<1> SUFFICES ASSUME Typing, KeygenInv, FilesInv, [Next]_vars PROVE KeygenInv'
  OBVIOUS
<1>0. /\ pc \in [Handlers -> Steps] /\ op \in [Handlers -> Ops \cup {"none"}]
      /\ key \in [Handlers -> Keys \cup {NoKey}] /\ reply \in [Handlers -> {0, 200, 201, 500}]
      /\ keyFile \in [Keys -> FileState] /\ dbFile \in [BlsKeys -> FileState]
  BY DEF Typing, TypeOK
<1>q. CASE Resting /\ Later /\ \A g \in Handlers : SameWork(g)
  <2>1. \A g \in Handlers : KeygenOf(g)'
    BY <1>q, Bystander DEF Resting, SameFiles, KeygenInv
  <2> QED BY <2>1 DEF KeygenInv
<1>c. CASE Crash
  BY <1>c, GoneHandlers, GoneIsIdle DEF Crash, KeygenInv
<1>h. ASSUME NEW h \in Handlers, Acts(h)
      PROVE  KeygenOf(h)'
  <2>0. /\ KeygenOf(h) /\ faults \in Nat
        /\ key[h] \in EthKeys => key[h] \notin BlsKeys /\ op[h] \in EthKeygenOps
        /\ op[h] \in BlsKeygenOps => op[h] \notin EthKeygenOps /\ op[h] \notin ListOps
        /\ key[h] # NoKey /\ op[h] \in BlsKeygenOps => key[h] \in BlsKeys
        /\ key[h] # NoKey => op[h] \in KeygenOps \ ListOps
    BY KeyKinds DEF Typing, KeygenInv, KeygenOf, BlsKeygenOps, EthKeygenOps, KeygenOps, ListOps, KeysIn, Dir
  <2>1. ASSUME NEW c \in Clients, NEW o \in Ops, Call(c, h, o) PROVE KeygenOf(h)'
    <3>1. pc[h] = "idle" /\ op'[h] = o /\ keyFile' = keyFile
      BY <1>0, <2>1 DEF Call, files
    <3>2. CASE o \in ListOps
      <4>1. pc'[h] = "open_dir" /\ key'[h] = NoKey
        BY <1>0, <2>0, <2>1, <3>2 DEF Call, Goto, KeygenOf
      <4> QED BY <3>1, <3>2, <4>1 DEF KeygenOf
    <3>3. CASE o \notin ListOps
      <4>1. pc'[h] = "make_dir" /\ key'[h] \in KeysIn(Dir(o)) /\ keyFile[key'[h]] = "absent"
        BY <1>0, <2>1, <3>3, KeyKinds DEF Call, Goto, KeysIn
      <4>2. key'[h] # NoKey /\ o \in KeygenOps
        BY <3>3, <4>1, KeyKinds DEF KeysIn, Ops, KeygenOps
      <4> QED BY <3>1, <4>1, <4>2 DEF KeygenOf
    <3> QED BY <3>2, <3>3
  <2>2. CASE MakeDir(h)
    BY <1>0, <2>0, <2>2 DEF MakeDir, Goto, request, KeygenOf, Complete
  <2>3. CASE CreateKey(h)
    BY <1>0, <2>0, <2>3 DEF CreateKey, Goto, request, KeygenOf, Complete
  <2>4. CASE WriteKey(h)
    <3>1. keyFile'[key[h]] = "ok" /\ dbFile' = dbFile /\ key' = key /\ op' = op /\ dirs' = dirs
      BY <1>0, <2>0, <2>4 DEF WriteKey, request, KeygenOf
    <3>2. key[h] \in BlsKeys => dbFile[key[h]] = "absent"
      BY <2>0, <2>4 DEF WriteKey, FilesInv, KeygenOf
    <3>3. CASE op[h] \in EthKeygenOps
      <4>1. pc'[h] \in {"attest", "done"}
        BY <1>0, <2>4, <3>3 DEF WriteKey, AfterEthKey, Goto, Answer
      <4>2. key[h] \notin BlsKeys
        BY <2>0, <2>4, <3>3, KeyKinds DEF WriteKey, KeygenOf, KeygenOps, EthKeygenOps, KeysIn, Dir
      <4>3. Complete(key[h])'
        BY <3>1, <4>2 DEF Complete
      <4> QED BY <1>0, <2>0, <2>4, <3>1, <4>1, <4>3 DEF WriteKey, KeygenOf
    <3>4. CASE op[h] \notin EthKeygenOps
      <4>1. pc'[h] = "create_db" /\ op[h] \in BlsKeygenOps
        BY <1>0, <2>0, <2>4, <3>4 DEF WriteKey, Goto, KeygenOf, KeygenOps
      <4> QED BY <1>0, <2>0, <2>4, <3>1, <3>2, <4>1 DEF WriteKey, KeygenOf
    <3> QED BY <3>3, <3>4
  <2>5. CASE CreateDb(h)
    BY <1>0, <2>0, <2>5 DEF CreateDb, Goto, request, KeygenOf, Complete
  <2>6. CASE WriteDb(h)
    <3>1. /\ dbFile'[key[h]] = "ok" /\ keyFile' = keyFile /\ key' = key /\ op' = op /\ dirs' = dirs
          /\ pc'[h] \in {"attest", "done"}
      BY <1>0, <2>0, <2>6 DEF WriteDb, Goto, Answer, request, KeygenOf
    <3>2. Complete(key[h])'
      BY <2>0, <2>6, <3>1 DEF WriteDb, KeygenOf, Complete
    <3> QED BY <2>0, <2>6, <3>1, <3>2 DEF WriteDb, KeygenOf
  <2>7. CASE Attest(h)
    BY <1>0, <2>0, <2>7 DEF Attest, Answer, files, request, KeygenOf, Complete
  <2>8. CASE OpenDir(h)
    BY <1>0, <2>0, <2>8 DEF OpenDir, Goto, Answer, files, request, KeygenOf, Complete
  <2>9. CASE ReadDir(h)
    BY <1>0, <2>0, <2>9 DEF ReadDir, Answer, files, request, KeygenOf, Complete
  <2>10. CASE Receive(h) \/ Cancel(h)
    BY <2>10, GoneHandlers, GoneIsIdle DEF Receive, Cancel
  <2>11. CASE IoError(h)
    BY <1>0, <2>0, <2>11 DEF IoError, Fault, Answer, files, request, KeygenOf, Complete
  <2>12. CASE WriteError(h)
    BY <1>0, <2>0, <2>12 DEF WriteError, Fault, Answer, request, KeygenOf, Complete
  <2> QED BY <1>h, <2>1, <2>2, <2>3, <2>4, <2>5, <2>6, <2>7, <2>8, <2>9, <2>10, <2>11, <2>12
          DEF Acts, Does, Step
<1> QED BY <1>q, <1>c, <1>h, OneActs, Bystanders DEF KeygenInv

\* Every step keeps the order of the two files of a key, and its directory.
LEMMA FilesStep == Typing /\ KeygenInv /\ FilesInv /\ [Next]_vars => FilesInv'
<1> SUFFICES ASSUME Typing, KeygenInv, FilesInv, [Next]_vars PROVE FilesInv'
  OBVIOUS
<1>0. keyFile \in [Keys -> FileState] /\ dbFile \in [BlsKeys -> FileState]
  BY DEF Typing, TypeOK
<1>1. CASE Resting /\ Later
  BY <1>1 DEF Resting, Later, FilesInv, Present
<1>2. ASSUME NEW h \in Handlers, Acts(h), Writing(h) PROVE FilesInv'
  <2>1. /\ key[h] \in Keys /\ \A k \in Keys : k # key[h] => SameFiles(k)
        /\ dirs \subseteq dirs'
    BY <1>2, WriterKeeps DEF Acts, Locally, Later
  <2>2. KeygenOf(h)
    BY DEF KeygenInv
  <2>3. key[h] \in BlsKeys => keyFile'[key[h]] = "ok" \/ dbFile'[key[h]] = "absent"
    BY <1>0, <1>2, <2>1, <2>2 DEF Writing, KeygenOf, FilesInv
  <2>4. \A dir \in {"eth_keys", "bls_keys"} : key[h] \in KeysIn(dir) => dir \in dirs'
    <3>1. CASE pc[h] = "create_key"
      BY <2>1, <2>2, <3>1, KeyKinds DEF KeygenOf, KeysIn, Dir
    <3>2. CASE pc[h] # "create_key"
      BY <1>2, <2>1, <2>2, <3>2 DEF Writing, KeygenOf, FilesInv, Present
    <3> QED BY <3>1, <3>2
  <2>5. \A k \in BlsKeys : k \in Keys
    BY KeyKinds
  <2> QED BY <2>1, <2>3, <2>4, <2>5 DEF FilesInv, Present, SameFiles
<1>3. CASE Crash
  BY <1>1, <1>3 DEF Crash, Fault, files, Resting, Later, Typing
<1> QED BY <1>1, <1>2, <1>3, OneActs DEF Acts, Locally

\* A handler lets go of a key when the key is complete, unless there was a fault.
LEMMA LetGo ==
  ASSUME Typing, KeygenInv, NEW h \in Handlers, Acts(h), key[h] # NoKey, faults' = 0
  PROVE  key'[h] = key[h] \/ Complete(key[h])
<1>0. KeygenOf(h) /\ key \in [Handlers -> Keys \cup {NoKey}] /\ faults = 0
  BY DEF KeygenInv, Typing, TypeOK, Acts, Locally, Later
<1>1. CASE \E c \in Clients, o \in Ops : Call(c, h, o)
  BY <1>0, <1>1 DEF Call, KeygenOf
<1>2. CASE Step(h) \/ Attest(h)
  BY <1>2 DEF Step, MakeDir, CreateKey, WriteKey, CreateDb, WriteDb, OpenDir, ReadDir, Attest, request
<1>3. CASE Receive(h) \/ Cancel(h)
  BY <1>0, <1>3 DEF Receive, Cancel, KeygenOf
<1>4. CASE IoError(h) \/ WriteError(h)
  BY <1>4 DEF IoError, WriteError, request
<1> QED BY <1>1, <1>2, <1>3, <1>4 DEF Acts, Does

\* Without a fault every key that is there is complete or in work.
LEMMA PresentStep == Typing /\ KeygenInv /\ PresentInv /\ [Next]_vars => PresentInv'
<1> SUFFICES ASSUME Typing, KeygenInv, PresentInv, [Next]_vars, faults' = 0, NEW k \in Present'
             PROVE  Complete(k)' \/ InWork(k)'
  BY DEF PresentInv
<1>0. /\ k \in Keys /\ faults = 0 /\ NoKey \notin Keys
      /\ Complete(k) => Complete(k)'
  BY KeysStay, KeyKinds DEF Present, Later
<1>1. CASE Resting /\ \A g \in Handlers : SameWork(g)
  BY <1>0, <1>1 DEF Resting, SameWork, PresentInv, Present, InWork
<1>2. ASSUME NEW h \in Handlers, Acts(h) PROVE Complete(k)' \/ InWork(k)'
  <2>1. CASE k \notin Present
    <3>1. Writing(h) /\ key[h] = k
      BY <1>0, <1>2, <2>1, WriterKeeps DEF Acts, Locally, Resting, SameFiles, Present
    <3>2. ~Complete(k) /\ key'[h] = key[h]
      BY <1>0, <1>2, <2>1, <3>1, LetGo DEF Complete, Present
    <3> QED BY <3>1, <3>2 DEF InWork
  <2>2. CASE k \in Present /\ ~Complete(k)
    <3>1. PICK g \in Handlers : key[g] = k
      BY <1>0, <2>2 DEF PresentInv, InWork
    <3>2. key'[g] = k
      BY <1>0, <1>2, <2>2, <3>1, LetGo DEF Acts, Locally, SameWork
    <3> QED BY <3>2 DEF InWork
  <2> QED BY <1>0, <2>1, <2>2
<1>3. CASE Crash
  BY <1>0, <1>3 DEF Crash, Fault
<1> QED BY <1>1, <1>2, <1>3, OneActs

----------------------------------------------------------------------------
(***************************************************************************)
(* Listings.                                                               *)
(***************************************************************************)
\* A handler that does nothing still has what it has found.
LEMMA ListBystander ==
  ASSUME NEW g \in Handlers, ListOf(g), SameWork(g), Present \subseteq Present'
  PROVE  ListOf(g)'
  BY DEF ListOf, SameWork

\* Every step keeps what listings have found.
LEMMA ListStep == Typing /\ KeygenInv /\ ListInv /\ HeardInv /\ [Next]_vars => ListInv'
<1> SUFFICES ASSUME Typing, KeygenInv, ListInv, HeardInv, [Next]_vars PROVE ListInv'
  OBVIOUS
<1>0. /\ Present \subseteq Present' /\ \A g \in Handlers : ListOf(g)
      /\ pc \in [Handlers -> Steps] /\ expected \in [Handlers -> SUBSET Keys]
      /\ names \in [Handlers -> SUBSET Keys]
  BY KeysStay DEF ListInv, Typing, TypeOK
<1>1. CASE \A g \in Handlers : SameWork(g)
  BY <1>0, <1>1, ListBystander DEF ListInv
<1>2. CASE Crash
  BY <1>2, GoneHandlers, GoneIsIdle DEF Crash, ListInv
<1>3. ASSUME NEW h \in Handlers, Acts(h) PROVE ListOf(h)'
  <2>1. CASE \E c \in Clients, o \in Ops : Call(c, h, o)
    <3>1. /\ expected'[h] = heard /\ names'[h] = names[h] /\ pc'[h] # "read_dir"
      BY <1>0, <2>1 DEF Call, Goto
    <3> QED BY <1>0, <3>1 DEF ListOf, HeardInv
  <2>2. CASE OpenDir(h)
    <3>1. /\ expected' = expected /\ op' = op
          /\ \/ names'[h] = names[h] /\ pc'[h] = "done"
             \/ names'[h] = FileNames(Dir(op[h]))
      BY <1>0, <2>2 DEF OpenDir, Answer, request
    <3>2. FileNames(Dir(op[h])) = Present \cap KeysIn(Dir(op[h]))
      BY KeyKinds DEF FileNames, Present, KeysIn
    <3> QED BY <1>0, <3>1, <3>2 DEF ListOf
  <2>3. CASE ReadDir(h)
    <3>1. /\ expected' = expected /\ pc'[h] = "done"
          /\ names'[h] \subseteq names[h] \cup FileNames(Dir(op[h]))
      BY <1>0, <2>3 DEF ReadDir, Answer, request
    <3>2. FileNames(Dir(op[h])) \subseteq Present
      BY KeyKinds DEF FileNames, Present, KeysIn
    <3> QED BY <1>0, <3>1, <3>2 DEF ListOf
  <2>4. CASE MakeDir(h) \/ CreateKey(h) \/ WriteKey(h) \/ CreateDb(h) \/ WriteDb(h) \/ Attest(h)
    <3>1. expected' = expected /\ names' = names /\ pc'[h] # "read_dir"
      BY <1>0, <2>4 DEF MakeDir, CreateKey, WriteKey, AfterEthKey, CreateDb, WriteDb, Attest,
                        Goto, Answer, request
    <3> QED BY <1>0, <3>1 DEF ListOf
  <2>5. CASE Receive(h) \/ Cancel(h)
    BY <2>5, GoneHandlers, GoneIsIdle DEF Receive, Cancel
  <2>6. CASE IoError(h) \/ WriteError(h)
    <3>1. /\ expected' = expected /\ pc'[h] # "read_dir" /\ names'[h] \subseteq names[h]
      BY <1>0, <2>6 DEF IoError, WriteError, Answer, request
    <3> QED BY <1>0, <3>1 DEF ListOf
  <2> QED BY <1>3, <2>1, <2>2, <2>3, <2>4, <2>5, <2>6 DEF Acts, Does, Step
<1> QED BY <1>0, <1>1, <1>2, <1>3, OneActs, ListBystander DEF Acts, Locally, ListInv

\* A listing that fails without an I/O error had nothing to show.
LEMMA ListingsStep ==
  Typing /\ KeygenInv /\ FilesInv /\ ListInv /\ ListingsComplete /\ [Next]_vars => ListingsComplete'
<1> SUFFICES ASSUME Typing, KeygenInv, FilesInv, ListInv, ListingsComplete, [Next]_vars
             PROVE  ListingsComplete'
  OBVIOUS
<1> DEFINE Shown(g) ==
      LET old == expected[g] \cap KeysIn(Dir(op[g])) IN
        pc[g] = "done" /\ op[g] \in ListOps /\ old # {} =>
          old \subseteq names[g] \/ (reply[g] = 500 /\ faults > 0)
<1>0. /\ pc \in [Handlers -> Steps] /\ expected \in [Handlers -> SUBSET Keys]
      /\ op \in [Handlers -> Ops \cup {"none"}] /\ names \in [Handlers -> SUBSET Keys]
      /\ reply \in [Handlers -> {0, 200, 201, 500}] /\ faults \in Nat
      /\ \A g \in Handlers : ListOf(g) /\ KeygenOf(g) /\ Shown(g)
  BY DEF ListInv, KeygenInv, ListingsComplete, Typing, TypeOK
<1>1. faults' \in Nat /\ (faults' = 0 => faults = 0)
  BY KeysStay, TypingStep DEF Later, Typing
<1>2. ASSUME NEW g \in Handlers, SameWork(g) PROVE Shown(g)'
  <2>1. /\ pc'[g] = pc[g] /\ op'[g] = op[g] /\ names'[g] = names[g]
        /\ reply'[g] = reply[g] /\ expected'[g] = expected[g]
    BY <1>2 DEF SameWork
  <2>2. Shown(g)
    BY <1>0
  <2>3. KeysIn(Dir(op'[g])) = KeysIn(Dir(op[g]))
    BY <2>1
  <2> QED BY <1>0, <1>1, <2>1, <2>2, <2>3
<1>3. ASSUME NEW g \in Handlers, pc'[g] # "done" PROVE Shown(g)'
  BY <1>3
<1>4. ASSUME NEW h \in Handlers, Acts(h) PROVE Shown(h)'
  <2>1. CASE (\E c \in Clients, o \in Ops : Call(c, h, o)) \/ MakeDir(h) \/ CreateKey(h) \/ CreateDb(h)
    BY <1>0, <1>3, <2>1 DEF Call, MakeDir, CreateKey, CreateDb, Goto
  <2>2. CASE WriteKey(h) \/ WriteDb(h) \/ Attest(h) \/ WriteError(h)
    <3>1. op' = op /\ op[h] \in KeygenOps
      BY <1>0, <2>2 DEF WriteKey, WriteDb, Attest, WriteError, request, KeygenOf
    <3> QED BY <3>1 DEF KeygenOps, EthKeygenOps, BlsKeygenOps, ListOps
  <2>3. CASE OpenDir(h)
    <3>1. CASE Dir(op[h]) \in dirs
      BY <1>0, <1>3, <2>3, <3>1 DEF OpenDir, Goto
    <3>2. CASE Dir(op[h]) \notin dirs
      <4>1. expected' = expected /\ op' = op
        BY <2>3 DEF OpenDir, request
      <4>2. expected[h] \cap KeysIn(Dir(op[h])) = {}
        BY <1>0, <3>2 DEF ListOf, FilesInv, Dir
      <4> QED BY <4>1, <4>2
    <3> QED BY <3>1, <3>2
  <2>4. CASE ReadDir(h)
    <3>1. expected' = expected /\ op' = op /\ names[h] \subseteq names'[h]
      BY <1>0, <2>4 DEF ReadDir, request
    <3> QED BY <1>0, <2>4, <3>1 DEF ReadDir, ListOf
  <2>5. CASE IoError(h)
    <3>1. reply'[h] = 500 /\ faults' > 0
      BY <1>0, <2>5 DEF IoError, Fault, Answer
    <3> QED BY <3>1
  <2>6. CASE Receive(h) \/ Cancel(h)
    BY <1>3, <2>6, GoneHandlers DEF Receive, Cancel, Gone
  <2> QED BY <1>4, <2>1, <2>2, <2>3, <2>4, <2>5, <2>6 DEF Acts, Does, Step
<1>5. CASE Crash
  BY <1>3, <1>5, GoneHandlers DEF Crash, Gone, ListingsComplete
<1>6. CASE \A g \in Handlers : SameWork(g)
  BY <1>2, <1>6 DEF ListingsComplete
<1>7. ASSUME NEW h \in Handlers, Acts(h) PROVE ListingsComplete'
  <2>1. \A g \in Handlers : Shown(g)'
    BY <1>2, <1>4, <1>7 DEF Acts, Locally
  <2> QED BY <2>1 DEF ListingsComplete
<1> QED BY <1>5, <1>6, <1>7, OneActs

----------------------------------------------------------------------------
(***************************************************************************)
(* What clients hear of.                                                   *)
(***************************************************************************)
\* Only a response tells a client of a key.
LEMMA Hearing ==
  ASSUME [Next]_vars
  PROVE  (got' = got /\ heard' = heard) \/ \E h \in Handlers : Receive(h)
<1>1. ASSUME NEW h \in Handlers, NEW c \in Clients, NEW o \in Ops, Call(c, h, o)
      PROVE  got' = got /\ heard' = heard
  BY <1>1 DEF Call, heardOf
<1>2. ASSUME NEW h \in Handlers, Step(h) \/ Attest(h) PROVE got' = got /\ heard' = heard
  BY <1>2 DEF Step, MakeDir, CreateKey, WriteKey, CreateDb, WriteDb, Attest, OpenDir, ReadDir, heardOf
<1>3. ASSUME NEW h \in Handlers, GiveUp(h) \/ Cancel(h) \/ IoError(h) \/ WriteError(h)
      PROVE  got' = got /\ heard' = heard
  BY <1>3 DEF GiveUp, Cancel, IoError, WriteError, heardOf
<1>4. CASE Crash \/ UNCHANGED vars
  BY <1>4 DEF Crash, vars, heardOf
<1> QED
  BY <1>1, <1>2, <1>3, <1>4 DEF Next

\* Clients hear of keys that are there, and receive complete ones.
LEMMA HeardStep == Typing /\ KeygenInv /\ ListInv /\ HeardInv /\ [Next]_vars => HeardInv'
<1> SUFFICES ASSUME Typing, KeygenInv, ListInv, HeardInv, [Next]_vars PROVE HeardInv'
  OBVIOUS
<1>0. /\ Present \subseteq Present' /\ \A k \in Keys : Complete(k) => Complete(k)'
      /\ got \subseteq {Response(k) : k \in Keys}
      /\ reply \in [Handlers -> {0, 200, 201, 500}] /\ key \in [Handlers -> Keys \cup {NoKey}]
  BY KeysStay DEF Typing, TypeOK
<1>1. \A k : Response(k).key = k
  BY DEF Response
<1>2. \A r \in got : r.key \in Keys /\ Complete(r.key)'
  BY <1>0, <1>1 DEF HeardInv, ReceivedKeysComplete
<1>3. CASE got' = got /\ heard' = heard
  BY <1>0, <1>2, <1>3 DEF HeardInv, ReceivedKeysComplete
<1>4. ASSUME NEW h \in Handlers, Receive(h) PROVE HeardInv'
  <2> DEFINE new == IF IsOk(h) /\ key[h] # NoKey THEN {key[h]} ELSE {}
  <2>1. /\ got' = got \cup {Response(k) : k \in new}
        /\ heard' = heard \cup new \cup names[h]
    BY <1>4 DEF Receive
  <2>2. \A k \in new : k \in Keys /\ Complete(k)
    <3>1. IsOk(h) => reply[h] # 500
      BY <1>0 DEF IsOk
    <3> QED BY <1>0, <1>4, <3>1 DEF Receive, KeygenInv, KeygenOf
  <2> HIDE DEF new
  <2>3. heard' \subseteq Present'
    BY <1>0, <2>1, <2>2 DEF HeardInv, ListInv, ListOf, Complete, Present
  <2>4. \A r \in got' : Complete(r.key)'
    BY <1>0, <1>1, <1>2, <2>1, <2>2
  <2> QED BY <2>3, <2>4 DEF HeardInv, ReceivedKeysComplete
<1> QED BY <1>3, <1>4, Hearing

----------------------------------------------------------------------------
(***************************************************************************)
(* The theorems.                                                           *)
(***************************************************************************)
\* It holds at first.
LEMMA EnclaveInit == Init => EnclaveInv
<1> SUFFICES ASSUME Init PROVE EnclaveInv
  OBVIOUS
<1>1. Present = {}
  BY DEF Init, Present
<1>2. Typing
  BY TypingInit
<1>3. KeygenInv /\ ListInv
  BY <1>1 DEF Init, KeygenInv, KeygenOf, ListInv, ListOf
<1>4. FilesInv /\ PresentInv /\ HeardInv /\ ListingsComplete
  BY <1>1, KeyKinds
     DEF Init, FilesInv, PresentInv, HeardInv, ReceivedKeysComplete, ListingsComplete
<1> QED BY <1>2, <1>3, <1>4 DEF EnclaveInv

(***************************************************************************)
(* The inductive invariant: key generation keeps its order of files, and   *)
(* listings and clients hear of no other keys than those that are there.   *)
(***************************************************************************)
THEOREM EnclaveInvariant == Spec => []EnclaveInv
<1>1. EnclaveInv /\ [Next]_vars => EnclaveInv'
  BY TypingStep, KeygenStep, FilesStep, PresentStep, ListStep, HeardStep, ListingsStep DEF EnclaveInv
<1> QED BY <1>1, EnclaveInit, PTL DEF Spec

(***************************************************************************)
(* Every variable keeps its type, a client waits for one handler, and two  *)
(* handlers never generate one key.                                        *)
(***************************************************************************)
THEOREM EnclaveTypes == Spec => []TypeOK
<1>1. EnclaveInv => TypeOK
  BY DEF EnclaveInv, Typing
<1> QED BY <1>1, EnclaveInvariant, PTL

(***************************************************************************)
(* A key that a client has received is complete for good, for any number   *)
(* of handlers, crashes and failed writes.                                 *)
(***************************************************************************)
THEOREM ReceivedComplete == Spec => []ReceivedKeysComplete
<1>1. EnclaveInv => ReceivedKeysComplete
  BY DEF EnclaveInv, HeardInv
<1> QED BY <1>1, EnclaveInvariant, PTL

(***************************************************************************)
(* Hanging up never leaves half a key behind: without crashes and failed   *)
(* writes a listed key is complete or still being generated.               *)
(***************************************************************************)
THEOREM ListedComplete == Spec => []ListedKeysComplete
<1>1. EnclaveInv => ListedKeysComplete
  BY DEF EnclaveInv, HeardInv, PresentInv, ListedKeysComplete
<1> QED BY <1>1, EnclaveInvariant, PTL

(***************************************************************************)
(* A listing shows every key that anybody had heard of when it was asked   *)
(* for, unless it fails for an I/O error.                                  *)
(***************************************************************************)
THEOREM ListingsMissNothing == Spec => []ListingsComplete
<1>1. EnclaveInv => ListingsComplete
  BY DEF EnclaveInv
<1> QED BY <1>1, EnclaveInvariant, PTL

(***************************************************************************)
(* Once its handler has begun, a key is finished unless an access to its   *)
(* own files fails or the server dies; then it stays complete.  Clients    *)
(* that hang up and calls for other keys have no part in it.               *)
(***************************************************************************)
THEOREM KeysFinished == Spec => KeysGetFinished
<1>1. ASSUME EnclaveInv, [Next]_vars, NEW h \in Handlers, NEW k \in Keys, Generating(h, k)
      PROVE  Generating(h, k)' \/ Complete(k)' \/ IoError(h) \/ WriteError(h) \/ Crash
  <2>0. /\ Typing /\ KeygenOf(h) /\ key[h] = k
        /\ pc \in [Handlers -> Steps] /\ key \in [Handlers -> Keys \cup {NoKey}]
        /\ keyFile \in [Keys -> FileState] /\ dbFile \in [BlsKeys -> FileState]
    BY <1>1 DEF EnclaveInv, Typing, TypeOK, KeygenInv, Generating
  <2>1. CASE SameWork(h)
    BY <1>1, <2>1 DEF SameWork, Generating
  <2>2. CASE Acts(h)
    <3>1. CASE MakeDir(h) \/ CreateKey(h)
      BY <2>0, <3>1 DEF MakeDir, CreateKey, Goto, request, Generating
    <3>2. CASE WriteKey(h)
      <4>1. CASE op[h] \in EthKeygenOps
        <5>1. k \notin BlsKeys
          BY <2>0, <4>1, KeyKinds DEF KeygenOf, EthKeygenOps, KeysIn, Dir
        <5> QED BY <2>0, <3>2, <5>1 DEF WriteKey, Complete
      <4>2. CASE op[h] \notin EthKeygenOps
        BY <2>0, <3>2, <4>2 DEF WriteKey, Goto, request, Generating
      <4> QED BY <4>1, <4>2
    <3>3. CASE CreateDb(h)
      BY <2>0, <3>3 DEF CreateDb, Goto, request, Generating
    <3>4. CASE WriteDb(h)
      BY <2>0, <3>4 DEF WriteDb, KeygenOf, Complete
    <3>5. pc[h] \notin {"idle", "attest", "open_dir", "read_dir", "done"}
      BY <1>1 DEF Generating
    <3> QED
      BY <2>2, <3>1, <3>2, <3>3, <3>4, <3>5
      DEF Acts, Does, Step, Call, Attest, OpenDir, ReadDir, Receive, Cancel
  <2> QED BY <1>1, <2>0, <2>1, <2>2, OneActs DEF Acts, Locally
<1>2. EnclaveInv /\ [Next]_vars =>
        [\A k \in Keys :
           /\ Complete(k) => Complete(k)'
           /\ \A h \in Handlers : Generating(h, k) =>
                Generating(h, k)' \/ Complete(k)' \/ IoError(h) \/ WriteError(h) \/ Crash]_vars
  BY <1>1, KeysStay DEF EnclaveInv
<1> QED BY <1>2, EnclaveInvariant, PTL DEF Spec, KeysGetFinished
============================================================================
