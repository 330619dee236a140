--------------------------- MODULE RegrTestProofs ---------------------------
(***************************************************************************)
(* The scratch directory of regr_test.py is complete whenever it is used,  *)
(* and all pairs of a package see the same one: for all packages, graphs   *)
(* and lists of pairs, and however often the working tree is edited.       *)
(***************************************************************************)
EXTENDS RegrTest, TLAPS

LEMMA InitTypes == Init => TypeOK
BY RegrTestAssumption DEF Init, TypeOK, Scratch, Empty, InPackage

LEMMA EmptyType == Empty \in Scratch
BY RegrTestAssumption DEF Empty, Scratch

LEMMA TypeNext ==
    ASSUME TypeOK, [Next]_vars
    PROVE  TypeOK'
<1> USE DEF TypeOK, InPackage, input, loop
<1>1. CASE StartPackage \/ Report
    BY <1>1, EmptyType DEF StartPackage, Report, Goto, End
<1>2. CASE AlreadySetUp \/ CopyCases \/ CopyStdlib \/ StubsCopied \/ MakeVenv \/ PipInstall
  <2>1. scratch' \in Scratch
    <3>1. rev \in 0..MaxRev /\ scratch \in Scratch
      BY RegrTestAssumption
    <3>2. CASE AlreadySetUp \/ StubsCopied
      BY <3>1, <3>2 DEF AlreadySetUp, StubsCopied
    <3>3. CASE CopyCases \/ CopyStdlib
      BY <3>1, <3>3 DEF CopyCases, CopyStdlib, Scratch
    <3>4. CASE MakeVenv \/ PipInstall
      BY <3>1, <3>4 DEF MakeVenv, PipInstall, Scratch
    <3>5. QED
      BY <1>2, <3>2, <3>3, <3>4
  <2>2. QED
    BY <1>2, <2>1 DEF AlreadySetUp, CopyCases, CopyStdlib, StubsCopied, MakeVenv, PipInstall, Goto
<1>3. ASSUME NEW p \in Pkg, CopyStubs(p) PROVE TypeOK'
  <2>1. [scratch.stubs EXCEPT ![p] = rev] \in [Pkg -> 0..MaxRev]
    BY RegrTestAssumption DEF Scratch
  <2>2. scratch' = [scratch EXCEPT !.stubs = [scratch.stubs EXCEPT ![p] = rev]]
    BY <1>3 DEF CopyStubs
  <2>3. scratch' \in Scratch
    BY <2>1, <2>2 DEF Scratch
  <2>4. QED
    BY <1>3, <2>3 DEF CopyStubs
<1>4. CASE SetUpRaises \/ RejectsMark \/ Interrupted
    BY <1>4, EmptyType DEF SetUpRaises, RejectsMark, Interrupted, End
<1>5. CASE RunTestcases
  <2>1. code' \in Int
    BY <1>5, RegrTestAssumption DEF RunTestcases, CombinedCode, MypyReturns
  <2>2. QED
    BY <1>5, <2>1, EmptyType DEF RunTestcases, Advance
<1>6. CASE EditTree
    BY <1>6, RegrTestAssumption DEF EditTree
<1>7. CASE UNCHANGED vars
    BY <1>7 DEF vars
<1>8. QED
    BY <1>1, <1>2, <1>3, <1>4, <1>5, <1>6, <1>7 DEF Next

(***************************************************************************)
(* The types, and no index ever leaves its list.                           *)
(***************************************************************************)
THEOREM RegrTypes == Spec => []TypeOK
BY InitTypes, TypeNext, PTL DEF Spec

----------------------------------------------------------------------------
(***************************************************************************)
(* The set-up goes through its parts in order, and a scratch directory     *)
(* with test cases is complete wherever mypy can be started from.          *)
(***************************************************************************)
SetUpInv == SetUpProgress /\ SetUpOnce

LEMMA SetUpInit == Init => SetUpInv
BY DEF Init, SetUpInv, SetUpProgress, SetUpOnce, Empty

LEMMA SetUpNext ==
    ASSUME TypeOK, SetUpInv, [Next]_vars
    PROVE  SetUpInv'
<1> USE DEF TypeOK, InPackage, input, loop, SetUpInv, SetUpProgress, SetUpOnce, Package
<1>1. CASE StartPackage \/ Report
    BY <1>1 DEF StartPackage, Report, Goto, End, Empty
<1>2. CASE AlreadySetUp
    BY <1>2 DEF AlreadySetUp, Goto, Complete, Copied, ToCopy, SitePackages
<1>3. CASE CopyCases
    BY <1>3, RegrTestAssumption DEF CopyCases, Goto, Complete, Copied, ToCopy, SitePackages, Empty, Scratch
<1>4. CASE CopyStdlib
    BY <1>4, RegrTestAssumption DEF CopyStdlib, Goto, Copied, ToCopy, Scratch
<1>5. ASSUME NEW p \in Pkg, CopyStubs(p) PROVE SetUpInv'
    BY <1>5, RegrTestAssumption DEF CopyStubs, Copied, ToCopy, Scratch
<1>6. CASE StubsCopied
  <2>1. Package \in Pkg
    BY <1>6, RegrTestAssumption DEF StubsCopied
  <2>2. ToCopy \subseteq Pkg
    BY <2>1, RegrTestAssumption DEF ToCopy, Dependencies
  <2>3. Copied = ToCopy
    BY <1>6, <2>2 DEF StubsCopied, Copied
  <2>4. Copied' = Copied /\ ToCopy' = ToCopy /\ SitePackages' = SitePackages
    BY <1>6 DEF StubsCopied, Goto, Copied, ToCopy, SitePackages
  <2>5. scratch.venv = "none" /\ SitePackages = {}
    BY <1>6 DEF StubsCopied, SitePackages
  <2>6. QED
    BY <1>6, <2>3, <2>4, <2>5 DEF StubsCopied, Goto, Complete
<1>7. CASE MakeVenv \/ PipInstall
    BY <1>7 DEF MakeVenv, PipInstall, Goto, Complete, Copied, ToCopy, SitePackages, Scratch
<1>8. CASE SetUpRaises \/ RejectsMark \/ Interrupted
    BY <1>8 DEF SetUpRaises, RejectsMark, Interrupted, End
<1>9. CASE RunTestcases
    BY <1>9 DEF RunTestcases, Advance, Complete, Copied, ToCopy, SitePackages, Empty
<1>10. CASE EditTree
    BY <1>10 DEF EditTree, Complete, Copied, ToCopy, SitePackages
<1>11. CASE UNCHANGED vars
    BY <1>11 DEF vars, Complete, Copied, ToCopy, SitePackages
<1>12. QED
    BY <1>1, <1>2, <1>3, <1>4, <1>5, <1>6, <1>7, <1>8, <1>9, <1>10, <1>11 DEF Next

----------------------------------------------------------------------------
(***************************************************************************)
(* What the runs of mypy for the current package were given is still what  *)
(* is in the scratch directory.                                            *)
(***************************************************************************)
\* a run of mypy adds one record, of what is there
LEMMA RunAddsRecord ==
    ASSUME RunTestcases
    PROVE  \E r : /\ seen' = seen \cup {r}
                  /\ r.package = i /\ r.cases = scratch.cases
                  /\ r.typeshed = CustomTypeshed /\ r.site = SitePackages
<1>1. PICK c \in MypyReturns :
        seen' = seen \cup {[package |-> i, pair |-> k, cases |-> scratch.cases,
                            typeshed |-> CustomTypeshed, site |-> SitePackages,
                            accepted |-> IF c = 0 THEN TestFiles ELSE {}]}
    BY DEF RunTestcases
<1> DEFINE r == [package |-> i, pair |-> k, cases |-> scratch.cases,
                 typeshed |-> CustomTypeshed, site |-> SitePackages,
                 accepted |-> IF c = 0 THEN TestFiles ELSE {}]
<1>2. /\ r.package = i /\ r.cases = scratch.cases
      /\ r.typeshed = CustomTypeshed /\ r.site = SitePackages
    OBVIOUS
<1>3. seen' = seen \cup {r}
    BY <1>1
<1> HIDE DEF r
<1>4. QED
    BY <1>2, <1>3

\* no other step adds any
LEMMA SeenGrows ==
    ASSUME [Next]_vars
    PROVE  \/ seen' = seen
           \/ /\ RunTestcases
              /\ \E r : /\ seen' = seen \cup {r}
                        /\ r.package = i /\ r.cases = scratch.cases
                        /\ r.typeshed = CustomTypeshed /\ r.site = SitePackages
<1>1. CASE RunTestcases
    BY <1>1, RunAddsRecord
<1>2. CASE ~RunTestcases
    BY <1>2 DEF Next, StartPackage, Report, AlreadySetUp, CopyCases, CopyStdlib, StubsCopied,
                MakeVenv, PipInstall, CopyStubs, SetUpRaises, RejectsMark, Interrupted, EditTree, vars
<1>3. QED
    BY <1>1, <1>2

LEMMA InputConstant ==
    ASSUME [Next]_vars
    PROVE  UNCHANGED <<packages, versions, deps>>
BY DEF Next, StartPackage, Report, AlreadySetUp, CopyCases, CopyStdlib, StubsCopied, MakeVenv,
       PipInstall, CopyStubs, SetUpRaises, RunTestcases, RejectsMark, Interrupted, EditTree,
       vars, input

LEMMA SeenInit == Init => SeenSoFar
BY DEF Init, SeenSoFar

LEMMA SeenNext ==
    ASSUME TypeOK, SetUpInv, SeenSoFar, [Next]_vars
    PROVE  SeenSoFar'
<1> USE DEF TypeOK, InPackage, input, loop, SeenSoFar, Package
<1>1. CASE StartPackage \/ Report
    BY <1>1 DEF StartPackage, Report, Goto, End
<1>2. CASE AlreadySetUp
    BY <1>2 DEF AlreadySetUp, Goto, CustomTypeshed
<1>3. CASE CopyCases \/ CopyStdlib \/ StubsCopied \/ MakeVenv \/ PipInstall
    BY <1>3 DEF CopyCases, CopyStdlib, StubsCopied, MakeVenv, PipInstall, Goto
<1>4. ASSUME NEW p \in Pkg, CopyStubs(p) PROVE SeenSoFar'
    BY <1>4 DEF CopyStubs
<1>5. CASE SetUpRaises \/ RejectsMark \/ Interrupted
    BY <1>5 DEF SetUpRaises, RejectsMark, Interrupted, End
<1>6. CASE RunTestcases
  <2>1. PICK r : /\ seen' = seen \cup {r}
                 /\ r.package = i /\ r.cases = scratch.cases /\ r.typeshed = CustomTypeshed
    BY <1>6, RunAddsRecord
  <2>2. pc = "mypy" /\ scratch.cases # 0 /\ UNCHANGED <<packages, deps, rev>>
    BY <1>6 DEF RunTestcases, SetUpInv, SetUpOnce, Complete
  <2>3. CASE k < Len(versions)
    <3>1. pc' = "pair" /\ UNCHANGED <<i, scratch>>
      BY <1>6, <2>3 DEF RunTestcases, Advance
    <3>2. CustomTypeshed' = CustomTypeshed
      BY <2>2, <3>1 DEF CustomTypeshed
    <3>3. QED
      BY <2>1, <2>2, <3>1, <3>2
  <2>4. CASE ~(k < Len(versions))
    <3>1. pc' = "package" /\ i' = i + 1
      BY <1>6, <2>4 DEF RunTestcases, Advance
    <3>2. QED
      BY <2>1, <2>2, <3>1
  <2>5. QED
    BY <2>3, <2>4
<1>7. CASE EditTree
    BY <1>7 DEF EditTree, CustomTypeshed
<1>8. CASE UNCHANGED vars
    BY <1>8 DEF vars, CustomTypeshed
<1>9. QED
    BY <1>1, <1>2, <1>3, <1>4, <1>5, <1>6, <1>7, <1>8 DEF Next

----------------------------------------------------------------------------
(***************************************************************************)
(* Each run of mypy on third-party test cases sees the required stubs and  *)
(* packages and no others, although a later pair only looks whether the    *)
(* first part of the set-up is there: an error in the set-up ends the      *)
(* script, so an incomplete directory is never used again.                 *)
(***************************************************************************)
THEOREM Isolation == Spec => []IsolatedEnvironment
<1>1. Init => IsolatedEnvironment
    BY DEF Init, IsolatedEnvironment
<1>2. ASSUME TypeOK, SetUpInv, SeenSoFar, IsolatedEnvironment, [Next]_vars
      PROVE  IsolatedEnvironment'
  <2> USE DEF IsolatedEnvironment
  <2>1. CASE seen' = seen
    BY <1>2, <2>1, InputConstant
  <2>2. ASSUME RunTestcases, NEW r, seen' = seen \cup {r}, r.package = i,
               r.typeshed = CustomTypeshed, r.site = SitePackages
        PROVE  IsolatedEnvironment'
    <3>1. Complete
      BY <1>2, <2>2 DEF RunTestcases, SetUpInv, SetUpOnce
    <3>2. Package # Stdlib =>
            /\ r.typeshed.stdlib # 0
            /\ {q \in Pkg : r.typeshed.stubs[q] # 0}
                  = {Package, MypyExtensions} \cup deps[Package].typeshed_pkgs
            /\ r.site = deps[Package].external_pkgs
      BY <2>2, <3>1 DEF Complete, Copied, ToCopy, CustomTypeshed
    <3>3. QED
      BY <1>2, <2>2, <3>2, InputConstant DEF Package
  <2>3. QED
    BY <1>2, <2>1, <2>2, SeenGrows
<1>3. QED
    BY <1>1, <1>2, SetUpInit, SetUpNext, SeenInit, SeenNext, RegrTypes, PTL DEF Spec

(***************************************************************************)
(* All pairs of a third-party package are tested against one snapshot,     *)
(* however the working tree is edited while the session lasts.             *)
(***************************************************************************)
THEOREM OneSnapshot == Spec => []PairsShareSnapshot
<1>1. Init => PairsShareSnapshot
    BY DEF Init, PairsShareSnapshot
<1>2. ASSUME TypeOK, SetUpInv, SeenSoFar, PairsShareSnapshot, [Next]_vars
      PROVE  PairsShareSnapshot'
  <2> USE DEF PairsShareSnapshot
  <2>1. CASE seen' = seen
    BY <1>2, <2>1, InputConstant
  <2>2. ASSUME RunTestcases, NEW r, seen' = seen \cup {r}, r.package = i,
               r.cases = scratch.cases, r.typeshed = CustomTypeshed
        PROVE  PairsShareSnapshot'
    <3>1. \A s \in seen : s.package = i /\ packages[i] # Stdlib
              => s.cases = r.cases /\ s.typeshed = r.typeshed
      BY <1>2, <2>2 DEF RunTestcases, SeenSoFar, InPackage, Package
    <3>2. QED
      BY <1>2, <2>2, <3>1, InputConstant
  <2>3. QED
    BY <1>2, <2>1, <2>2, SeenGrows
<1>3. QED
    BY <1>1, <1>2, SetUpInit, SetUpNext, SeenInit, SeenNext, RegrTypes, PTL DEF Spec
----------------------------------------------------------------------------
(***************************************************************************)
(* Unless the exit code says so, mypy has accepted the test cases of all   *)
(* pairs the two loops have left behind.                                   *)
(***************************************************************************)
Tested(x, y) ==
    \E s \in seen :
        /\ s.package = x /\ s.pair = y
        /\ s.accepted # {}
        /\ s.accepted = {f \in Cases[packages[x]] : f <= versions[y]}

Behind(x, y) == x < i \/ (x = i /\ y < k)

TestedSoFar ==
    /\ code >= 0
    /\ pc = "package" => k = 1
    /\ outcome = "success" => code = 0 /\ i = Len(packages) + 1
    /\ code = 0 => \A x \in 1..Len(packages), y \in 1..Len(versions) :
                      Behind(x, y) => Tested(x, y)

LEMMA TestedInit == Init => TestedSoFar
BY RegrTestAssumption DEF Init, TestedSoFar, Behind

\* steps that neither run mypy nor move the loops
LEMMA TestedStays ==
    ASSUME TestedSoFar, UNCHANGED <<packages, versions, i, k, code, seen>>,
           pc' = "package" => pc = "package",
           outcome' = "success" => outcome = "success" \/ (code = 0 /\ i = Len(packages) + 1)
    PROVE  TestedSoFar'
BY DEF TestedSoFar, Tested, Behind

LEMMA RunTests ==
    ASSUME Codes \subseteq Nat, TypeOK, TestedSoFar, RunTestcases
    PROVE  TestedSoFar'
<1>0. /\ i \in 1..Len(packages) /\ k \in 1..Len(versions)
      /\ Len(packages) \in Nat /\ Len(versions) \in Nat
      /\ packages \in Seq(DOMAIN Cases) /\ versions \in Seq(Nat)
    BY DEF TypeOK, InPackage, RunTestcases
<1>1. PICK c \in MypyReturns :
        /\ code' = CombinedCode(c)
        /\ seen' = seen \cup {[package |-> i, pair |-> k, cases |-> scratch.cases,
                               typeshed |-> CustomTypeshed, site |-> SitePackages,
                               accepted |-> IF c = 0 THEN TestFiles ELSE {}]}
    BY DEF RunTestcases
<1> DEFINE r == [package |-> i, pair |-> k, cases |-> scratch.cases,
                 typeshed |-> CustomTypeshed, site |-> SitePackages,
                 accepted |-> IF c = 0 THEN TestFiles ELSE {}]
<1>2. r.package = i /\ r.pair = k /\ (c = 0 => r.accepted = TestFiles)
    OBVIOUS
<1>3. seen' = seen \cup {r}
    BY <1>1
<1> HIDE DEF r
<1>4. c \in Nat /\ code \in Nat /\ code' \in Nat /\ (code' = 0 => code = 0 /\ c = 0)
    BY <1>1 DEF MypyReturns, CombinedCode, TypeOK, TestedSoFar
<1>5. c = 0 => TestFiles # {}
    BY <1>1 DEF MypyReturns
<1>6. TestFiles = {f \in Cases[packages[i]] : f <= versions[k]}
  <2>1. packages[i] \in DOMAIN Cases /\ versions[k] \in Nat
    <3>1. packages[i] \in DOMAIN Cases
      BY <1>0
    <3>2. versions[k] \in Nat
      BY <1>0
    <3>3. QED
      BY <3>1, <3>2, RegrTestAssumption
  <2>2. Cases[packages[i]] \subseteq Nat
    BY <2>1, RegrTestAssumption
  <2>3. QED
    BY <2>1, <2>2 DEF TestFiles, Marked, Package
<1>7. UNCHANGED <<packages, versions, outcome>>
    BY DEF RunTestcases, input
<1>8. code' = 0 => \A x, y : x = i /\ y = k => Tested(x, y)'
    BY <1>2, <1>3, <1>4, <1>5, <1>6, <1>7 DEF Tested
<1>9. \A x, y : Tested(x, y) => Tested(x, y)'
    BY <1>3, <1>7 DEF Tested
<1>10. \A x \in 1..Len(packages), y \in 1..Len(versions) :
          Behind(x, y)' => Behind(x, y) \/ (x = i /\ y = k)
  <2>1. CASE k < Len(versions)
    <3>1. i' = i /\ k' = k + 1
      BY <2>1 DEF RunTestcases, Advance
    <3>2. QED
      BY <1>0, <3>1 DEF Behind
  <2>2. CASE ~(k < Len(versions))
    <3>1. i' = i + 1 /\ k' = 1 /\ k = Len(versions)
      BY <1>0, <2>2 DEF RunTestcases, Advance
    <3>2. QED
      BY <1>0, <3>1 DEF Behind
  <2>3. QED
    BY <2>1, <2>2
<1>11. pc' = "package" => k' = 1
    BY DEF RunTestcases, Advance
<1>12. outcome # "success"
    BY <1>0 DEF TestedSoFar
<1>13. ASSUME code' = 0, NEW x \in 1..Len(packages), NEW y \in 1..Len(versions), Behind(x, y)'
       PROVE  Tested(x, y)'
    BY <1>4, <1>8, <1>9, <1>10, <1>13 DEF TestedSoFar
<1>14. QED
    BY <1>4, <1>7, <1>11, <1>12, <1>13 DEF TestedSoFar

LEMMA TestedNext ==
    ASSUME Codes \subseteq Nat, TypeOK, TestedSoFar, [Next]_vars
    PROVE  TestedSoFar'
<1> USE DEF input, loop
<1>1. CASE RunTestcases
    BY <1>1, RunTests
<1>2. CASE Report
  <2>1. i = Len(packages) + 1
    BY <1>2 DEF Report, TypeOK
  <2>2. QED
    BY <1>2, <2>1, TestedStays DEF Report, End
<1>3. CASE StartPackage \/ AlreadySetUp \/ CopyCases \/ CopyStdlib \/ StubsCopied \/ MakeVenv
           \/ PipInstall \/ \E p \in Pkg : CopyStubs(p)
    BY <1>3, TestedStays DEF StartPackage, AlreadySetUp, CopyCases, CopyStdlib, StubsCopied,
                             MakeVenv, PipInstall, CopyStubs, Goto
<1>4. CASE SetUpRaises \/ RejectsMark \/ Interrupted
    BY <1>4, TestedStays DEF SetUpRaises, RejectsMark, Interrupted, End
<1>5. CASE EditTree \/ UNCHANGED vars
    BY <1>5, TestedStays DEF EditTree, vars
<1>6. QED
    BY <1>1, <1>2, <1>3, <1>4, <1>5 DEF Next

(***************************************************************************)
(* "Test completed successfully!" means that mypy has accepted the test    *)
(* cases of every package and pair, as long as no signal kills mypy:       *)
(* subprocess reports that as a negative code, which max() drops.          *)
(***************************************************************************)
THEOREM SuccessIsTested ==
    ASSUME Codes \subseteq Nat
    PROVE  Spec => []SuccessMeansTested
<1>1. TypeOK /\ TestedSoFar => SuccessMeansTested
  <2> SUFFICES ASSUME TypeOK, TestedSoFar, outcome = "success",
                      NEW x \in 1..Len(packages), NEW y \in 1..Len(versions)
               PROVE  Tested(x, y)
    BY DEF SuccessMeansTested, Tested
  <2>1. Behind(x, y)
    BY DEF TypeOK, TestedSoFar, Behind
  <2>2. QED
    BY <2>1 DEF TestedSoFar
<1>2. QED
    BY <1>1, TestedInit, TestedNext, RegrTypes, PTL DEF Spec
=============================================================================
