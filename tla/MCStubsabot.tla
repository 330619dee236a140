---------------------------- MODULE MCStubsabot ----------------------------
(***************************************************************************)
(* Instances of Stubsabot for TLC: the distributions and the clones.       *)
(***************************************************************************)
EXTENDS Stubsabot

CONSTANTS d1, d2, m1, m2
=============================================================================
