------------------------------- MODULE Custody -------------------------------
(***************************************************************************)
(* What the guardians promise together.  Key shares are dealt out to       *)
(* enclave keys; a guardian holds only shares dealt to a key of its own;   *)
(* an approval given with an enclave key stands for a share that was dealt *)
(* to this key and that its guardian holds; and only held shares sign      *)
(* exits.  Some shares are sole: dealt to one enclave key and no other, so *)
(* that no second guardian can hold them, and no second key approve them.  *)
(* Only damage makes a guardian lose a share, or approve one that it has   *)
(* just lost.  Nothing is said about payloads, files or requests.          *)
(***************************************************************************)
CONSTANTS Guardians, EnclaveKeys,
          Home,       \* Home[e]: the guardian that has enclave key e
          Shares      \* key shares of all validators

VARIABLES dealt,      \* [key, share]: which share was given to which enclave key
          sole,       \* shares that are for one enclave key only
          held,       \* [guardian, share]: who holds which share
          granted,    \* [key, share]: approvals, with the share they stand for
          exits,      \* [guardian, share]: shares that have signed an exit
          damaged     \* a crash or a failed write has happened

vars == <<dealt, sole, held, granted, exits, damaged>>

Init ==
  /\ dealt = {} /\ sole = {}
  /\ held = {} /\ granted = {} /\ exits = {} /\ damaged = FALSE

\* Shares are dealt, and it is settled which of them are sole.
Deal ==
  /\ dealt \subseteq dealt' /\ dealt' \subseteq [key: EnclaveKeys, share: Shares]
  /\ sole \subseteq sole' /\ sole' \subseteq Shares
  /\ \A x, y \in dealt' : x.share = y.share /\ x.share \in sole' => x.key = y.key
  /\ UNCHANGED <<held, granted, exits, damaged>>

Receive(g, s) ==
  /\ \E x \in dealt : x.share = s /\ Home[x.key] = g
  /\ held' = held \cup {[guardian |-> g, share |-> s]}
  /\ UNCHANGED <<dealt, sole, granted, exits, damaged>>

Grant(e, s) ==
  /\ [key |-> e, share |-> s] \in dealt
  /\ [guardian |-> Home[e], share |-> s] \in held \/ damaged
  /\ granted' = granted \cup {[key |-> e, share |-> s]}
  /\ UNCHANGED <<dealt, sole, held, exits, damaged>>

Exit(g, s) ==
  /\ [guardian |-> g, share |-> s] \in held
  /\ exits' = exits \cup {[guardian |-> g, share |-> s]}
  /\ UNCHANGED <<dealt, sole, held, granted, damaged>>

Damage ==
  /\ held' \in SUBSET held
  /\ damaged' = TRUE
  /\ UNCHANGED <<dealt, sole, granted, exits>>

Next ==
  \/ Deal
  \/ \E g \in Guardians, s \in Shares : Receive(g, s) \/ Exit(g, s)
  \/ \E e \in EnclaveKeys, s \in Shares : Grant(e, s)
  \/ Damage

Spec == Init /\ [][Next]_vars
==============================================================================
