----------------------------- MODULE MCMypyTest -----------------------------
(***************************************************************************)
(* Instances of MypyTest for TLC: two distributions, one of them with two  *)
(* files, and two modules of the stdlib, one of them new in version 8.     *)
(***************************************************************************)
EXTENDS MypyTest

CONSTANTS d1, d2, x1, x2

MCTree ==
    {<<"stdlib", "os">>, <<"stdlib", "tomllib">>,
     <<"stubs", d1, "a">>, <<"stubs", d1, "b">>, <<"stubs", d2, "a">>}

MCVERSIONS == [os |-> <<0, 99>>, tomllib |-> <<8, 99>>]

MCConfigs == <<8, 7>>

MCArgs == {<<"stdlib">>, <<"stubs">>, <<"stubs", d1, "a">>, <<"stubs", d2>>}

\* accepted, errors found, and what subprocess reports of a mypy killed by a signal
MypyCodes == {0, 1, -9}
=============================================================================
