--------------------------- MODULE MCDecisionTask ---------------------------
(***************************************************************************)
(* Instances of DecisionTask for TLC: releases with a wheel that has       *)
(* py.typed, with a wheel that has not beside an sdist that has, with a    *)
(* type of package that is not known, and without files.                   *)
(***************************************************************************)
EXTENDS DecisionTask

CONSTANT d1

File(packagetype, typed) == [packagetype |-> packagetype, typed |-> typed]

MCFileLists ==
    {<<File("bdist_wheel", TRUE)>>,
     <<File("bdist_wheel", FALSE), File("sdist", TRUE)>>,
     <<File("bdist_egg", TRUE)>>, << >>}
=============================================================================
