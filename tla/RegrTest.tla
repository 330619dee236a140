------------------------------ MODULE RegrTest ------------------------------
(***************************************************************************)
(* A session of tests/regr_test.py: mypy is run on the test cases of each  *)
(* package, once for every platform and Python version.  The test cases,   *)
(* and for a third-party package the stubs it requires, are copied to a    *)
(* scratch directory, which is set up for the first pair and used again    *)
(* for the others.  A developer may go on editing stubs meanwhile.         *)
(*                                                                         *)
(* A test case is the Python version its file name asks for: 11 for        *)
(* check_x-py311.py, 0 for a name without such an ending.                  *)
(***************************************************************************)
EXTENDS Integers, Sequences

CONSTANTS
    Pkg,             \* the directories of stubs/
    MypyExtensions,  \* stubs/mypy-extensions
    Stdlib,          \* the package name "stdlib"
    External,        \* requirements that are not in stubs/
    Cases,           \* the test cases of every package that has a directory for them
    Supported,       \* SUPPORTED_VERSIONS
    PackageLists,    \* lists of packages to test
    VersionLists,    \* for each pair of platform and version to test, its version
    Codes,           \* what mypy may return when it is given files; 0: no error
    MaxRev           \* bound: edits made during a session

ASSUME RegrTestAssumption ==
    /\ MypyExtensions \in Pkg
    /\ Stdlib \notin Pkg
    /\ DOMAIN Cases \subseteq Pkg \cup {Stdlib}
    /\ \A p \in DOMAIN Cases : Cases[p] \subseteq Nat
    /\ Supported \subseteq Nat
    /\ PackageLists \subseteq Seq(DOMAIN Cases)
    /\ VersionLists \subseteq Seq(Nat) \ {<< >>}
    /\ Codes \subseteq Int
    /\ MaxRev \in Nat \ {0}

VARIABLES
    packages, versions,   \* testcase_directories, and the pairs to test
    deps,                 \* get_recursive_requirements of each package
    pc,
    i, k,                 \* packages[i] is being tested for the pair versions[k]
    scratch,              \* the temporary directory of packages[i]
    code,                 \* the exit code so far
    outcome,              \* how the script ended
    rev,                  \* the revision of the working tree, which grows with every edit
    seen                  \* history: what each run of mypy was given, and accepted

input == <<packages, versions, deps>>
loop == <<pc, i, k>>
vars == <<input, loop, scratch, code, outcome, rev, seen>>

Package == packages[i]

(***************************************************************************)
(* The scratch directory: the revision each part was copied at, 0 for a    *)
(* part that is not there.                                                 *)
(***************************************************************************)
Scratch ==
    [cases : 0..MaxRev, stdlib : 0..MaxRev, stubs : [Pkg -> 0..MaxRev],
     venv : {"none", "made", "ready"}]

Empty == [cases |-> 0, stdlib |-> 0, stubs |-> [p \in Pkg |-> 0], venv |-> "none"]

InPackage == {"pair", "stdlib", "stubs", "venv", "pip", "mypy"}

Dependencies == [typeshed_pkgs : SUBSET Pkg, external_pkgs : SUBSET External]

\* the recursive requirements of an acyclic graph (see Requirements)
IsClosed(D) ==
    \A p \in Pkg :
        /\ p \notin D[p].typeshed_pkgs
        /\ \A q \in D[p].typeshed_pkgs :
              /\ D[q].typeshed_pkgs \subseteq D[p].typeshed_pkgs
              /\ D[q].external_pkgs \subseteq D[p].external_pkgs

(***************************************************************************)
(* Types, and the loops stay within the two lists.                         *)
(***************************************************************************)
TypeOK ==
    /\ packages \in Seq(DOMAIN Cases)
    /\ versions \in Seq(Nat)
    /\ deps \in [Pkg -> Dependencies]
    /\ pc \in InPackage \cup {"package", "done"}
    /\ i \in 1..Len(packages) + 1
    /\ k \in 1..Len(versions)
    /\ pc \in InPackage => i <= Len(packages)
    /\ scratch \in Scratch
    /\ code \in Int
    /\ rev \in 1..MaxRev

Init ==
    /\ packages \in PackageLists
    /\ versions \in VersionLists
    /\ deps \in {D \in [Pkg -> Dependencies] : IsClosed(D)}
    /\ pc = "package"
    /\ i = 1
    /\ k = 1
    /\ scratch = Empty
    /\ code = 0
    /\ outcome = "none"
    /\ rev = 1
    /\ seen = {}

End(how) == pc' = "done" /\ outcome' = how /\ UNCHANGED <<i, k>>

Goto(label) == pc' = label /\ UNCHANGED <<i, k>>

----------------------------------------------------------------------------
(***************************************************************************)
(* main: a new temporary directory for every package of the list.          *)
(***************************************************************************)
StartPackage ==
    /\ pc = "package"
    /\ i <= Len(packages)
    /\ scratch' = Empty
    /\ Goto("pair")
    /\ UNCHANGED <<input, code, outcome, rev, seen>>

Report ==
    /\ pc = "package"
    /\ i > Len(packages)
    /\ End(IF code # 0 THEN "failure" ELSE "success")
    /\ UNCHANGED <<input, scratch, code, rev, seen>>

AdvanceLate ==
    IF k <= Len(versions)
    THEN pc' = "pair" /\ k' = k + 1 /\ UNCHANGED <<i, scratch>>
    ELSE pc' = "package" /\ i' = i + 1 /\ k' = 1 /\ scratch' = Empty

\* the next pair; after the last one the temporary directory is removed
Advance ==
    IF k < Len(versions)
    THEN pc' = "pair" /\ k' = k + 1 /\ UNCHANGED <<i, scratch>>
    ELSE pc' = "package" /\ i' = i + 1 /\ k' = 1 /\ scratch' = Empty

----------------------------------------------------------------------------
(***************************************************************************)
(* setup_testcase_dir, unless test_cases is already there.  Only the       *)
(* test cases are copied for the stdlib.                                   *)
(***************************************************************************)
AlreadySetUp ==
    /\ pc = "pair"
    /\ scratch.cases # 0
    /\ Goto("mypy")
    /\ UNCHANGED <<input, scratch, code, outcome, rev, seen>>

CopyCases ==
    /\ pc = "pair"
    /\ scratch.cases = 0
    /\ scratch' = [scratch EXCEPT !.cases = rev]
    /\ Goto(IF Package = Stdlib THEN "mypy" ELSE "stdlib")
    /\ UNCHANGED <<input, code, outcome, rev, seen>>

CopyStdlib ==
    /\ pc = "stdlib"
    /\ scratch' = [scratch EXCEPT !.stdlib = rev]
    /\ Goto("stubs")
    /\ UNCHANGED <<input, code, outcome, rev, seen>>

\* {package.name, *requirements.typeshed_pkgs, "mypy-extensions"}
ToCopy == {Package, MypyExtensions} \cup deps[Package].typeshed_pkgs

CopyStubs(p) ==
    /\ pc = "stubs"
    /\ p \in ToCopy
    /\ scratch.stubs[p] = 0
    /\ scratch' = [scratch EXCEPT !.stubs[p] = rev]
    /\ UNCHANGED <<input, loop, code, outcome, rev, seen>>

StubsCopied ==
    /\ pc = "stubs"
    /\ \A p \in ToCopy : scratch.stubs[p] # 0
    /\ Goto(IF deps[Package].external_pkgs = {} THEN "mypy" ELSE "venv")
    /\ UNCHANGED <<input, scratch, code, outcome, rev, seen>>

MakeVenv ==
    /\ pc = "venv"
    /\ scratch' = [scratch EXCEPT !.venv = "made"]
    /\ Goto("pip")
    /\ UNCHANGED <<input, code, outcome, rev, seen>>

\* pip install mypy and all external_pkgs
PipInstall ==
    /\ pc = "pip"
    /\ scratch' = [scratch EXCEPT !.venv = "ready"]
    /\ Goto("mypy")
    /\ UNCHANGED <<input, code, outcome, rev, seen>>

LastCode(c) == c

CombinedCode(c) == IF c > code THEN c ELSE code

InSetUp == pc \in {"pair", "stdlib", "stubs", "venv", "pip"}

SetUpErrorCaught ==
    /\ InSetUp
    /\ code' = CombinedCode(1)
    /\ Advance
    /\ UNCHANGED <<input, outcome, rev, seen>>

(***************************************************************************)
(* A copy, venv.create or pip fails.  Nothing catches the exception: the   *)
(* temporary directory is removed on the way out, and the script ends.     *)
(***************************************************************************)
SetUpRaises ==
    /\ InSetUp
    /\ End("raised")
    /\ scratch' = Empty
    /\ UNCHANGED <<input, code, rev, seen>>

----------------------------------------------------------------------------
(***************************************************************************)
(* run_testcases: what mypy gets to see.  The stdlib is tested where it    *)
(* is, third-party stubs in their copies; site-packages are those of the   *)
(* virtual environment if there is one, and none otherwise.                *)
(***************************************************************************)
LinkedTypeshed ==
    [stdlib |-> rev,
     stubs |-> [p \in Pkg |-> IF Package # Stdlib /\ p \in ToCopy THEN rev ELSE 0]]

\* Package = Stdlib: --custom-typeshed-dir is the repository, MYPYPATH is not set
CustomTypeshed ==
    IF Package = Stdlib
    THEN [stdlib |-> rev, stubs |-> Empty.stubs]
    ELSE [stdlib |-> scratch.stdlib, stubs |-> scratch.stubs]

SitePackages == IF scratch.venv = "ready" THEN deps[Package].external_pkgs ELSE {}

Marked(f) == f # 0

\* `assert f"3.{minor_version_required}" in SUPPORTED_VERSIONS'
MarkUnsupported == \E f \in Cases[Package] : Marked(f) /\ f \notin Supported

TestFiles == {f \in Cases[Package] : Marked(f) => f <= versions[k]}

\* with no file to check, and in an environment without mypy, it exits with an error
MypyReturns ==
    IF TestFiles = {} THEN {2}
    ELSE IF scratch.venv = "made" THEN {1}
    ELSE Codes

RunTestcases ==
    /\ pc = "mypy"
    /\ ~MarkUnsupported
    /\ \E c \in MypyReturns :
          /\ code' = CombinedCode(c)
          /\ seen' = seen \cup {[package |-> i, pair |-> k, cases |-> scratch.cases,
                                 typeshed |-> CustomTypeshed, site |-> SitePackages,
                                 accepted |-> IF c = 0 THEN TestFiles ELSE {}]}
    /\ Advance
    /\ UNCHANGED <<input, outcome, rev>>

RejectsMark ==
    /\ pc = "mypy"
    /\ MarkUnsupported
    /\ End("raised")
    /\ scratch' = Empty
    /\ UNCHANGED <<input, code, rev, seen>>

----------------------------------------------------------------------------
Interrupted ==
    /\ pc # "done"
    /\ End("interrupted")
    /\ scratch' = Empty
    /\ UNCHANGED <<input, code, rev, seen>>

\* a developer edits a stub or a test case, not METADATA.toml
EditTree ==
    /\ pc # "done"
    /\ rev < MaxRev
    /\ rev' = rev + 1
    /\ UNCHANGED <<input, loop, scratch, code, outcome, seen>>

Next ==
    \/ StartPackage \/ Report
    \/ AlreadySetUp \/ CopyCases \/ CopyStdlib \/ StubsCopied \/ MakeVenv \/ PipInstall
    \/ \E p \in Pkg : CopyStubs(p)
    \/ SetUpRaises \/ RunTestcases \/ RejectsMark
    \/ Interrupted \/ EditTree

Spec == Init /\ [][Next]_vars

----------------------------------------------------------------------------
(***************************************************************************)
(* The comment in setup_testcase_dir: mypy sees the package, all that it   *)
(* requires, directly or not, and mypy-extensions, "but none of the other  *)
(* stubs in typeshed"; and what is installed is what is required.  Only    *)
(* the presence of test_cases, which is copied first, tells a later pair   *)
(* that the scratch directory is complete.                                 *)
(***************************************************************************)
IsolatedEnvironment ==
    \A s \in seen : LET p == packages[s.package] IN
        p # Stdlib =>
            /\ s.typeshed.stdlib # 0
            /\ {q \in Pkg : s.typeshed.stubs[q] # 0}
                  = {p, MypyExtensions} \cup deps[p].typeshed_pkgs
            /\ s.site = deps[p].external_pkgs

(***************************************************************************)
(* All pairs of a third-party package are tested with the same test cases  *)
(* against the same stubs, whatever is edited during the session: the      *)
(* results of a session can be compared with each other.                   *)
(***************************************************************************)
PairsShareSnapshot ==
    \A s, t \in seen :
        s.package = t.package /\ packages[s.package] # Stdlib =>
            s.cases = t.cases /\ s.typeshed = t.typeshed

(***************************************************************************)
(* "Test completed successfully!" is printed only if mypy has accepted,    *)
(* for every package and pair, all test cases the pair's version is new    *)
(* enough for, and there was one.                                          *)
(***************************************************************************)
SuccessMeansTested ==
    outcome = "success" =>
        \A x \in 1..Len(packages), y \in 1..Len(versions) :
            \E s \in seen :
                /\ s.package = x /\ s.pair = y
                /\ s.accepted # {}
                /\ s.accepted = {f \in Cases[packages[x]] : f <= versions[y]}
----------------------------------------------------------------------------
(***************************************************************************)
(* Why the two properties above hold: how far the set-up is at each label, *)
(* and that since the first run for a package its scratch directory is     *)
(* what that run was given.                                                *)
(***************************************************************************)
Copied == {q \in Pkg : scratch.stubs[q] # 0}

SetUpProgress ==
    /\ pc = "pair" /\ scratch.cases = 0 => scratch = Empty
    /\ pc \in {"stdlib", "stubs", "venv", "pip"} => Package # Stdlib /\ scratch.cases # 0
    /\ pc = "stdlib" => Copied = {} /\ scratch.venv = "none"
    /\ pc = "stubs" => Copied \subseteq ToCopy /\ scratch.venv = "none"
    /\ pc \in {"stubs", "venv", "pip"} => scratch.stdlib # 0
    /\ pc \in {"venv", "pip"} => Copied = ToCopy /\ deps[Package].external_pkgs # {}

Complete ==
    /\ scratch.cases # 0
    /\ Package # Stdlib =>
          /\ scratch.stdlib # 0
          /\ Copied = ToCopy
          /\ SitePackages = deps[Package].external_pkgs

SetUpOnce == pc = "mypy" \/ (pc = "pair" /\ scratch.cases # 0) => Complete

SeenSoFar ==
    \A s \in seen :
        /\ s.package \in 1..Len(packages)
        /\ pc = "package" => s.package < i
        /\ pc \in InPackage => s.package <= i
        /\ pc \in InPackage /\ s.package = i =>
              /\ pc \in {"pair", "mypy"} /\ scratch.cases # 0
              /\ Package # Stdlib => s.cases = scratch.cases /\ s.typeshed = CustomTypeshed
=============================================================================
