----------------------------- MODULE MCRegrTest -----------------------------
(***************************************************************************)
(* An instance of RegrTest for TLC: the stdlib and three third-party       *)
(* packages with test cases.  Those of p2 are for version 8 and later      *)
(* only, and mypy-extensions has one for a version that is not supported.  *)
(* Version 9 is that of an interpreter newer than the supported ones: the  *)
(* version that is tested by default is not looked up in the list.         *)
(***************************************************************************)
EXTENDS RegrTest, TLC

CONSTANTS p1, p2, me, x1

MCCases == (Stdlib :> {0, 8}) @@ (p1 :> {0, 8}) @@ (p2 :> {8}) @@ (me :> {0, 9})

MCPackageLists == {<<p2, p1>>, <<p1, p1>>, <<Stdlib, p1>>, <<me>>}

MCVersionLists == {<<8>>, <<8, 7>>, <<9>>}
=============================================================================
