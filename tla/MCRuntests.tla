----------------------------- MODULE MCRuntests -----------------------------
(***************************************************************************)
(* The instance of Runtests for TLC: success, or death by a signal, the    *)
(* failure whose code a comparison like > 0 would miss.                    *)
(***************************************************************************)
EXTENDS Runtests

MCCodes == {0, -9}
=============================================================================
