--------------------------- MODULE RuntestsProofs ---------------------------
(***************************************************************************)
(* Proofs about Runtests for every set of exit codes.                      *)
(***************************************************************************)
EXTENDS Runtests, SequenceTheorems, TLAPS

----------------------------------------------------------------------------
Formatted == <<"pycln", "isort", "black">>

\* a check the script has come past: it ran, or there is a reason that it did not
Settled(check) ==
    \/ result[check].ran
    \/ Excused(check)
    \/ check = "stubtest" /\ result["mypy"].code # 0

\* the steps of the script from each of its checks on
FromSummary == {"summary"}
FromRegrTest == {"regr_test"} \cup FromSummary
FromPytype == {"pytype"} \cup FromRegrTest
FromStubtest == {"stubtest"} \cup FromPytype
FromMypy == {"mypy"} \cup FromStubtest
FromPyright == {"pyright"} \cup FromMypy
FromNewSyntax == {"check_new_syntax"} \cup FromPyright
FromConsistent == {"check_consistent"} \cup FromNewSyntax
FromFlake8 == {"flake8"} \cup FromConsistent

Results ==
    /\ now \in Situation
    /\ result \in [Checks -> [ran : BOOLEAN, code : Int, tree : {<< >>, Formatted}]]
    /\ \A check \in Checks :
        IF result[check].ran THEN result[check].tree = Formatted /\ tree = Formatted
                             ELSE result[check].code = 0

InOrder ==
    /\ pc \in {"args", "pycln", "isort", "black", "ended"} \cup FromFlake8
    /\ pc \in {"args", "pycln"} => tree = << >>
    /\ pc = "isort" => tree = <<"pycln">>
    /\ pc = "black" => tree = <<"pycln", "isort">>
    /\ pc \in {"args", "pycln", "isort", "black"} => \A check \in Checks : ~result[check].ran
    /\ pc \in FromFlake8 => tree = Formatted

Past ==
    /\ pc \in FromConsistent => Settled("flake8")
    /\ pc \in FromNewSyntax => Settled("check_consistent")
    /\ pc \in FromPyright => Settled("check_new_syntax")
    /\ pc \in FromMypy => Settled("pyright")
    /\ pc \in FromStubtest => Settled("mypy")
    /\ pc \in FromPytype => Settled("stubtest")
    /\ pc \in FromRegrTest => Settled("pytype")
    /\ pc \in FromSummary => Settled("regr_test")

Outcome ==
    /\ pc # "ended" => status = Running /\ summary = NoSummary
    /\ GreenMeansChecked
    /\ SummaryAgrees
    /\ SkipsAreExplained

IInv == Results /\ InOrder /\ Past /\ Outcome

USE DEF FromSummary, FromRegrTest, FromPytype, FromStubtest, FromMypy, FromPyright,
        FromNewSyntax, FromConsistent, FromFlake8

LEMMA InitIInv == Init => IInv
<1> SUFFICES ASSUME Init PROVE IInv
  OBVIOUS
<1>1. \A check \in Checks : result[check] = NotRun
  BY DEF Init
<1>2. NotRun \in [ran : BOOLEAN, code : Int, tree : {<< >>, Formatted}] /\ ~NotRun.ran /\ NotRun.code = 0
  BY DEF NotRun
<1>3. result \in [Checks -> [ran : BOOLEAN, code : Int, tree : {<< >>, Formatted}]]
  BY <1>2 DEF Init
<1>4. Results
  BY <1>1, <1>2, <1>3 DEF Init, Results
<1>5. InOrder
  BY <1>1, <1>2 DEF Init, InOrder
<1>6. Past
  BY DEF Init, Past
<1>7. Outcome
  BY DEF Init, Outcome, GreenMeansChecked, SummaryAgrees, SkipsAreExplained, Excused, Running
<1> QED BY <1>4, <1>5, <1>6, <1>7 DEF IInv

\* a check that runs
LEMMA ResultAfter ==
    ASSUME IInv, pc \in FromFlake8, NEW check \in Checks, NEW code \in Codes, Ran(check, code)
    PROVE  /\ result' \in [Checks -> [ran : BOOLEAN, code : Int, tree : {<< >>, Formatted}]]
           /\ result'[check] = [ran |-> TRUE, code |-> code, tree |-> Formatted]
           /\ \A c \in Checks : c # check => result'[c] = result[c]
<1>1. tree = Formatted /\ code \in Int
  BY CodesAssumption DEF IInv, InOrder
<1>2. result \in [Checks -> [ran : BOOLEAN, code : Int, tree : {<< >>, Formatted}]]
  BY DEF IInv, Results
<1> QED BY <1>1, <1>2 DEF Ran

(***************************************************************************)
(* Every step from a check to the next one: the check has run, or nothing  *)
(* was written and there is a reason.                                      *)
(***************************************************************************)
LEMMA CheckStep ==
    ASSUME IInv, NEW check \in Checks, NEW next \in FromFlake8,
           pc = check, pc' = next, status' = status,
           UNCHANGED <<now, tree, summary>>,
           \/ \E code \in Codes : Ran(check, code)
           \/ result' = result /\ Settled(check),
           <<check, next>> \in
               {<<"flake8", "check_consistent">>, <<"check_consistent", "check_new_syntax">>,
                <<"check_new_syntax", "pyright">>, <<"pyright", "mypy">>, <<"mypy", "stubtest">>,
                <<"stubtest", "pytype">>, <<"pytype", "regr_test">>, <<"regr_test", "summary">>}
    PROVE  IInv'
<1>0. pc \in FromFlake8 /\ tree = Formatted
  BY DEF IInv, InOrder, Checks
<1>1. /\ result' \in [Checks -> [ran : BOOLEAN, code : Int, tree : {<< >>, Formatted}]]
      /\ \A c \in Checks : c # check => result'[c] = result[c]
      /\ \/ result'[check].ran /\ result'[check].tree = Formatted
         \/ result' = result /\ Settled(check)
  <2>1. CASE \E code \in Codes : Ran(check, code)
    <3>1. PICK code \in Codes : Ran(check, code)
      BY <2>1
    <3>2. result'[check] = [ran |-> TRUE, code |-> code, tree |-> Formatted]
      BY <1>0, <3>1, ResultAfter
    <3>3. /\ result' \in [Checks -> [ran : BOOLEAN, code : Int, tree : {<< >>, Formatted}]]
          /\ \A c \in Checks : c # check => result'[c] = result[c]
      BY <1>0, <3>1, ResultAfter
    <3> QED BY <3>2, <3>3
  <2>2. CASE result' = result /\ Settled(check)
    BY <2>2 DEF IInv, Results
  <2> QED BY <2>1, <2>2
<1>2. Results'
  BY <1>0, <1>1 DEF IInv, Results
<1>3. InOrder'
  BY <1>0 DEF IInv, InOrder
<1>4. Settled(check)'
  BY <1>1 DEF Settled, Excused
<1>5. ASSUME NEW c \in Checks, c # check, c # "stubtest" \/ check # "mypy", Settled(c)
      PROVE  Settled(c)'
  BY <1>1, <1>5 DEF Settled, Excused, Checks
<1>6. Past'
  BY <1>4, <1>5 DEF IInv, Past, Checks
<1>7. Outcome'
  BY DEF IInv, Outcome, GreenMeansChecked, SummaryAgrees, SkipsAreExplained, Excused, Running, Checks
<1> QED BY <1>2, <1>3, <1>6, <1>7 DEF IInv

\* sequences of two and of three elements, one Append after the other
LEMMA AppendSecond == ASSUME NEW S, NEW x \in S, NEW y \in S PROVE Append(<<x>>, y) = <<x, y>>
<1>1. <<x, y>> \in Seq(S) /\ Append(<<x>>, y) \in Seq(S)
  <2>1. <<x>> \in Seq(S)
    OBVIOUS
  <2> QED BY <2>1
<1>2. Len(Append(<<x>>, y)) = 2 /\ Len(<<x, y>>) = 2
  OBVIOUS
<1>3. \A n \in 1..2 : Append(<<x>>, y)[n] = <<x, y>>[n]
  OBVIOUS
<1> QED BY <1>1, <1>2, <1>3, SeqEqual

LEMMA AppendThird ==
    ASSUME NEW S, NEW x \in S, NEW y \in S, NEW z \in S
    PROVE  Append(<<x, y>>, z) = <<x, y, z>>
<1>1. <<x, y, z>> \in Seq(S) /\ Append(<<x, y>>, z) \in Seq(S)
  <2>1. <<x, y>> \in Seq(S)
    OBVIOUS
  <2> QED BY <2>1
<1>2. Len(Append(<<x, y>>, z)) = 3 /\ Len(<<x, y, z>>) = 3
  OBVIOUS
<1>3. \A n \in 1..3 : Append(<<x, y>>, z)[n] = <<x, y, z>>[n]
  <2>1. Append(<<x, y>>, z)[1] = x /\ Append(<<x, y>>, z)[2] = y /\ Append(<<x, y>>, z)[3] = z
    OBVIOUS
  <2> QED BY <2>1
<1> QED BY <1>1, <1>2, <1>3, SeqEqual

\* the formatters: the files are rewritten before the first check reads them
LEMMA FormatStep ==
    ASSUME IInv,
           Format("pycln", "isort") \/ Format("isort", "black") \/ Format("black", "flake8")
    PROVE  IInv'
<1>0. /\ UNCHANGED <<now, result, summary>> /\ summary = NoSummary /\ status = Running
      /\ \A check \in Checks : ~result[check].ran
  BY DEF IInv, InOrder, Outcome, Format
<1>1. /\ pc' \in {"isort", "black", "flake8", "ended"}
      /\ pc' = "isort" => tree' = <<"pycln">>
      /\ pc' = "black" => tree' = <<"pycln", "isort">>
      /\ pc' = "flake8" => tree' = Formatted
  <2> DEFINE S == {"pycln", "isort", "black"}
  <2>0. "pycln" \in S /\ "isort" \in S /\ "black" \in S
    OBVIOUS
  <2> HIDE DEF S
  <2>1. CASE Format("pycln", "isort")
    <3>1. Append(<< >>, "pycln") = <<"pycln">>
      OBVIOUS
    <3> QED BY <2>1, <3>1 DEF IInv, InOrder, Format, Goto, Exit
  <2>2. CASE Format("isort", "black")
    <3>1. Append(<<"pycln">>, "isort") = <<"pycln", "isort">>
      BY <2>0, AppendSecond
    <3> QED BY <2>2, <3>1 DEF IInv, InOrder, Format, Goto, Exit
  <2>3. CASE Format("black", "flake8")
    <3>1. Append(<<"pycln", "isort">>, "black") = Formatted
      BY <2>0, AppendThird DEF Formatted
    <3> QED BY <2>3, <3>1 DEF IInv, InOrder, Format, Goto, Exit
  <2> QED BY <2>1, <2>2, <2>3
<1>2. status' # 0 /\ (pc' # "ended" => status' = Running)
  BY <1>0 DEF Format, Goto, Exit, Running
<1>3. Results'
  BY <1>0 DEF IInv, Results
<1>4. InOrder'
  BY <1>0, <1>1 DEF InOrder
<1>5. Past'
  BY <1>1 DEF Past
<1>6. Outcome'
  BY <1>0, <1>2 DEF Outcome, GreenMeansChecked, SummaryAgrees, SkipsAreExplained, Excused
<1> QED BY <1>3, <1>4, <1>5, <1>6 DEF IInv

\* the summary: every check is settled, and a failure is neither lost nor invented
LEMMA SummaryStep == ASSUME IInv, PrintSummary PROVE IInv'
<1>0. /\ pc = "summary" /\ pc' = "ended" /\ UNCHANGED <<now, tree, result>>
      /\ summary' = [check \in Checks |-> SummaryLine(check)]
      /\ status' = IF AnyFailure THEN 1 ELSE 0
      /\ tree = Formatted
  BY DEF PrintSummary, Exit, IInv, InOrder
<1>1. \A check \in Checks : Settled(check)
  BY <1>0 DEF IInv, Past, Checks
<1>2. ASSUME NEW check \in Checks
      PROVE  result[check].ran \/ result[check].code = 0
  BY DEF IInv, Results
<1>3. ASSUME NEW check \in Checks
      PROVE  summary'[check] = "Failed" <=> result[check].ran /\ result[check].code # 0
  BY <1>0, <1>2 DEF SummaryLine, Skipped
<1>4. AnyFailure <=> \E check \in Checks : summary'[check] = "Failed"
  BY <1>2, <1>3 DEF AnyFailure
<1>5. SummaryAgrees'
  BY <1>0, <1>3, <1>4 DEF SummaryAgrees
<1>6. ASSUME ~AnyFailure, NEW check \in Checks
      PROVE  \/ result[check] = [ran |-> TRUE, code |-> 0, tree |-> tree]
             \/ ~result[check].ran /\ Excused(check)
  <2>1. result[check].code = 0 /\ result["mypy"].code = 0
    BY <1>6 DEF AnyFailure, Checks
  <2>2. CASE result[check].ran
    <3>1. result[check] \in [ran : BOOLEAN, code : Int, tree : {<< >>, Formatted}]
      BY DEF IInv, Results
    <3>2. result[check].tree = tree
      BY <1>0, <2>2 DEF IInv, Results
    <3> QED BY <2>1, <2>2, <3>1, <3>2
  <2>3. CASE ~result[check].ran
    BY <1>1, <2>1, <2>3 DEF Settled
  <2> QED BY <2>2, <2>3
<1>7. GreenMeansChecked'
  <2>1. status' = 0 => ~AnyFailure
    BY <1>0
  <2>2. tree' = tree /\ result' = result /\ \A check \in Checks : Excused(check)' <=> Excused(check)
    BY <1>0 DEF Excused
  <2> QED BY <1>0, <1>6, <2>1, <2>2 DEF GreenMeansChecked, Formatted
<1>8. Results' /\ InOrder' /\ Past'
  BY <1>0 DEF IInv, Results, InOrder, Past
<1>9. ASSUME NEW check \in Checks
      PROVE  /\ summary'[check] = "Success" =>
                  (result[check].ran /\ result[check].code = 0) \/ (check = "regr_test" /\ ~now.tests)
             /\ summary'[check] = "Skipped" =>
                  /\ ~result[check].ran
                  /\ Excused(check) \/ (check = "stubtest" /\ summary'["mypy"] = "Failed")
  <2>1. summary'[check] = SummaryLine(check) /\ summary'["mypy"] = SummaryLine("mypy")
    BY <1>0 DEF Checks
  <2>2. CASE Skipped(check)
    <3>1. summary'[check] = "Skipped" /\ ~result[check].ran /\ Settled(check)
      BY <1>1, <2>1, <2>2 DEF SummaryLine, Skipped
    <3>2. result["mypy"].code # 0 => summary'["mypy"] = "Failed"
      BY <2>1 DEF SummaryLine, Skipped
    <3> QED BY <3>1, <3>2 DEF Settled
  <2>3. CASE ~Skipped(check)
    <3>1. summary'[check] = IF result[check].code = 0 THEN "Success" ELSE "Failed"
      BY <2>1, <2>3 DEF SummaryLine
    <3>2. result[check].ran \/ check \notin {"pyright", "stubtest", "pytype"}
      BY <2>3 DEF Skipped
    <3> QED BY <1>1, <3>1, <3>2 DEF Settled, Excused
  <2> QED BY <2>2, <2>3
<1>10. SkipsAreExplained'
  <2>1. now' = now /\ result' = result /\ \A check \in Checks : Excused(check)' <=> Excused(check)
    BY <1>0 DEF Excused
  <2> QED BY <1>9, <2>1 DEF SkipsAreExplained
<1> QED BY <1>0, <1>5, <1>7, <1>8, <1>10 DEF IInv, Outcome

\* the script is stopped: no status of 0, no summary
LEMMA StopStep ==
    ASSUME IInv, pc # "ended", pc' = "ended", status' \in {1, 2},
           UNCHANGED <<now, tree, result, summary>>
    PROVE  IInv'
<1>1. Results' /\ InOrder' /\ Past'
  BY DEF IInv, Results, InOrder, Past
<1>2. Outcome'
  BY DEF IInv, Outcome, GreenMeansChecked, SummaryAgrees, SkipsAreExplained, Excused
<1> QED BY <1>1, <1>2 DEF IInv

LEMMA NextIInv == IInv /\ [Next]_vars => IInv'
<1> SUFFICES ASSUME IInv, [Next]_vars PROVE IInv'
  OBVIOUS
<1>1. CASE ParseArgs
  <2>1. CASE pc' = "ended"
    BY <1>1, <2>1, StopStep DEF ParseArgs, Exit, Goto
  <2>2. CASE pc' # "ended"
    <3>1. pc = "args" /\ pc' = "pycln" /\ UNCHANGED <<now, tree, result, summary, status>>
      BY <1>1, <2>2 DEF ParseArgs, Exit, Goto
    <3>2. Results' /\ InOrder' /\ Past'
      BY <3>1 DEF IInv, Results, InOrder, Past
    <3>3. Outcome'
      BY <3>1 DEF IInv, Outcome, GreenMeansChecked, SummaryAgrees, SkipsAreExplained, Excused, Running
    <3> QED BY <3>2, <3>3 DEF IInv
  <2> QED BY <2>1, <2>2
<1>2. CASE Format("pycln", "isort") \/ Format("isort", "black") \/ Format("black", "flake8")
  BY <1>2, FormatStep
<1>3. CASE RunCheck("flake8", "check_consistent")
  BY <1>3, CheckStep DEF RunCheck, Goto, Checks
<1>4. CASE RunCheck("check_consistent", "check_new_syntax")
  BY <1>4, CheckStep DEF RunCheck, Goto, Checks
<1>5. CASE RunCheck("check_new_syntax", "pyright")
  BY <1>5, CheckStep DEF RunCheck, Goto, Checks
<1>6. CASE RunPyright
  <2>1. CASE now.strict_config = "unparsable"
    BY <1>6, <2>1, StopStep DEF RunPyright, Exit
  <2>2. CASE now.strict_config # "unparsable"
    BY <1>6, <2>2, CheckStep DEF RunPyright, Goto, Checks, Settled, Excused
  <2> QED BY <2>1, <2>2
<1>7. CASE RunCheck("mypy", "stubtest")
  BY <1>7, CheckStep DEF RunCheck, Goto, Checks
<1>8. CASE RunStubtest
  <2>1. now.folder \in {"stdlib", "stubs"} /\ now.run_stubtest \in BOOLEAN
    BY DEF IInv, Results, Situation
  <2> QED BY <1>8, <2>1, CheckStep DEF RunStubtest, Goto, Checks, Settled, Excused
<1>9. CASE RunPytype
  BY <1>9, CheckStep DEF RunPytype, Goto, Checks, Settled, Excused
<1>10. CASE RunRegrTest
  BY <1>10, CheckStep DEF RunRegrTest, Goto, Checks, Settled, Excused
<1>11. CASE PrintSummary
  BY <1>11, SummaryStep
<1>12. CASE Interrupt
  BY <1>12, StopStep DEF Interrupt, Exit
<1>13. CASE UNCHANGED vars
  BY <1>13 DEF vars, IInv, Results, InOrder, Past, Outcome, Settled, Excused, GreenMeansChecked, SummaryAgrees, SkipsAreExplained
<1> QED BY <1>1, <1>2, <1>3, <1>4, <1>5, <1>6, <1>7, <1>8, <1>9, <1>10, <1>11, <1>12, <1>13
        DEF Next, Script

LEMMA AlwaysIInv == Spec => []IInv
  BY InitIInv, NextIInv, PTL DEF Spec

(***************************************************************************)
(* "All tests passed!" is true, whatever codes the programs may return.    *)
(***************************************************************************)
THEOREM GreenIsChecked == Spec => []GreenMeansChecked
  BY AlwaysIInv, PTL DEF IInv, Outcome

(***************************************************************************)
(* The lines of the summary and the exit status agree, whatever codes the  *)
(* programs may return.                                                    *)
(***************************************************************************)
THEOREM SummaryIsRight == Spec => []SummaryAgrees
  BY AlwaysIInv, PTL DEF IInv, Outcome

(***************************************************************************)
(* No test that did not run is called a success, and every skip has a      *)
(* reason that main has given, whatever codes the programs may return.     *)
(***************************************************************************)
THEOREM SkipsExplained == Spec => []SkipsAreExplained
  BY AlwaysIInv, PTL DEF IInv, Outcome
=============================================================================
