--------------------------- MODULE MCSigningRoots ---------------------------
(***************************************************************************)
(* Three forks, the middle one a single epoch long, so that the epochs     *)
(* next to a fork and two forks apart occur.                               *)
(***************************************************************************)
EXTENDS SigningRoots

CONSTANTS v0, v1, v2

ThreeForks ==
  <<[version |-> v0, epoch |-> 0], [version |-> v1, epoch |-> 1], [version |-> v2, epoch |-> 2]>>
=============================================================================
