--------------------------- MODULE MCRequirements ---------------------------
(***************************************************************************)
(* Instances of Requirements for TLC: every way in which the packages can  *)
(* require each other and the external requirements.                       *)
(***************************************************************************)
EXTENDS Requirements

CONSTANTS p1, p2, p3, x1, x2
=============================================================================
