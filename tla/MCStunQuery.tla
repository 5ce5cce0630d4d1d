---------------------------- MODULE MCStunQuery ----------------------------
(***************************************************************************)
(* StunQuery for TLC: an address and a cookie whose octets all differ, so  *)
(* that their order shows, and the exclusive or of two octets.             *)
(***************************************************************************)
EXTENDS StunQuery, Bitwise

ZeroToThree == <<0, 1, 2, 3>>
TwoOneThreeZero == <<2, 1, 3, 0>>
OctetXor(a, b) == a ^^ b
=============================================================================
