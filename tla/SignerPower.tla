----------------------------- MODULE SignerPower -----------------------------
(***************************************************************************)
(* The signer on a machine that can lose power.  fs::write returns when    *)
(* the kernel has the data: the enclave never calls fsync, so what is on   *)
(* the disk lags behind what the process reads back.  The kernel writes    *)
(* each file back when it likes; when the power goes, the files are what   *)
(* the disk has.  Requests for one key may race here.                      *)
(***************************************************************************)
EXTENDS Signer

VARIABLES keyDisk,     \* keyDisk[k]: the key file of k on the disk
          dbDisk,      \* dbDisk[k]: the slashing protection file of k on the disk
          lostDb,      \* a loss of power has set a slashing protection file back
          raced        \* two requests have been signing with one key at a time

powerVars == <<vars, keyDisk, dbDisk, lostDb, raced>>

PowerInit ==
  /\ Init
  /\ keyDisk = keyFile
  /\ dbDisk = dbFile
  /\ lostDb = FALSE
  /\ raced = FALSE

\* The kernel writes one file back.
WriteBack(k) ==
  /\ \/ keyDisk' = [keyDisk EXCEPT ![k] = keyFile[k]] /\ UNCHANGED dbDisk
     \/ dbDisk' = [dbDisk EXCEPT ![k] = dbFile[k]] /\ UNCHANGED keyDisk
  /\ UNCHANGED <<vars, lostDb, raced>>

PowerLoss ==
  /\ Fault
  /\ keyFile' = keyDisk
  /\ dbFile' = dbDisk
  /\ lostDb' = (lostDb \/ dbDisk # dbFile)
  /\ Reset(Handlers)
  /\ UNCHANGED <<history, keyDisk, dbDisk, raced>>

PowerNext ==
  \/ /\ Next
     /\ raced' = (raced \/ ~OneSignerPerKey')
     /\ UNCHANGED <<keyDisk, dbDisk, lostDb>>
  \/ \E k \in Keys : WriteBack(k)
  \/ PowerLoss

PowerSpec == PowerInit /\ [][PowerNext]_powerVars

-----------------------------------------------------------------------------
(***************************************************************************)
(* Only a slashing protection file that was set back, or requests for one  *)
(* key that raced, let the signing route release a slashable pair: losing  *)
(* the key file, or the requests in flight, or finding files half written, *)
(* does not.                                                               *)
(***************************************************************************)
SafeUnlessDbLost == ~lostDb /\ ~raced => NoSlashableOffence
==============================================================================
