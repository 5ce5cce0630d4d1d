------------------------------ MODULE MCPunch ------------------------------
(***************************************************************************)
(* Punch for TLC.  The two peers run the same program and start in the     *)
(* same state, and what is said of one is said of the other: the run of    *)
(* safety properties alone uses the symmetry.                              *)
(***************************************************************************)
EXTENDS Punch, TLC

PeerSymmetry == Permutations(Peers)
=============================================================================
