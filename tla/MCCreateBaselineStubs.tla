----------------------- MODULE MCCreateBaselineStubs -----------------------
(***************************************************************************)
(* Instances of CreateBaselineStubs for TLC: the list as it is kept (every *)
(* entry with a comma), one with no comma at its end, one that is not      *)
(* sorted, as in the repository ("stubs/boto" before                       *)
(* "stubs/beautifulsoup4"), and two with a project in another case.        *)
(***************************************************************************)
EXTENDS CreateBaselineStubs, TLC

CONSTANTS k1, k2, tests, attrs, mock, pillow, Pillow

Keys == tests :> 0 @@ attrs :> 1 @@ mock :> 2 @@ pillow :> 3 @@ Pillow :> 3

E(name, commas) == [name |-> name, commas |-> commas]

AllLists ==
    {<<E(tests, 1), E(mock, 1)>>,
     <<E(tests, 1), E(pillow, 0)>>,
     <<E(tests, 1), E(pillow, 1), E(mock, 1)>>,
     <<E(tests, 1), E(Pillow, 1)>>,
     <<E(tests, 1), E(Pillow, 1), E(pillow, 1)>>}
=============================================================================
