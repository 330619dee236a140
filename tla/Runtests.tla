------------------------------ MODULE Runtests ------------------------------
(***************************************************************************)
(* scripts/runtests.py: the formatters and tests of one stub, one after    *)
(* the other, and the summary.  Each step runs another program of which    *)
(* the script sees an exit code (negative: killed by a signal) and, twice, *)
(* what it says on stderr.                                                 *)
(***************************************************************************)
EXTENDS Integers, Sequences

CONSTANT Codes   \* exit codes of the programs that are run

ASSUME CodesAssumption == Codes \subseteq Int

Checks == {"flake8", "check_consistent", "check_new_syntax", "pyright", "mypy",
           "stubtest", "pytype", "regr_test"}

(***************************************************************************)
(* What the script meets: its arguments, the platform, whether npx can be  *)
(* run, whether the stub has regression tests, and what                    *)
(* pyrightconfig.stricter.json says (create_baseline_stubs.py writes it).  *)
(***************************************************************************)
Situation ==
    [args : {"bad", "good"}, folder : {"stdlib", "stubs"}, run_stubtest : BOOLEAN,
     win32 : BOOLEAN, npx : BOOLEAN, tests : BOOLEAN,
     strict_config : {"excluded", "not_excluded", "unparsable"}]

VARIABLES
    now,      \* the situation
    pc,
    tree,     \* the formatters that have rewritten the files, in order
    result,   \* of each check: has it run, on which files, with which code?
    summary,  \* the lines of the summary
    status    \* exit status of the script; Running until it ends

vars == <<now, pc, tree, result, summary, status>>

Running == 1000
NotRun == [ran |-> FALSE, code |-> 0, tree |-> << >>]
NoSummary == [c \in Checks |-> "none"]

Init ==
    /\ now \in Situation
    /\ now.folder = "stdlib" => now.tests
    /\ pc = "args" /\ tree = << >>
    /\ result = [c \in Checks |-> NotRun]
    /\ summary = NoSummary
    /\ status = Running

Exit(code) == pc' = "ended" /\ status' = code
Goto(step) == pc' = step /\ status' = status

----------------------------------------------------------------------------
\* argparse and the three parser.error of main
ParseArgs ==
    /\ pc = "args"
    /\ IF now.args = "bad" THEN Exit(2) ELSE Goto("pycln")
    /\ UNCHANGED <<now, tree, result, summary>>

\* "Run formatters first. Order matters."  Their exit codes are not looked
\* at, but for the 123 of an internal error of Black
Format(formatter, next) ==
    /\ pc = formatter
    /\ tree' = Append(tree, formatter)
    /\ \/ Goto(next)
       \/ formatter = "black" /\ Exit(123)
    /\ UNCHANGED <<now, result, summary>>

----------------------------------------------------------------------------
Ran(check, code) == result' = [result EXCEPT ![check] = [ran |-> TRUE, code |-> code, tree |-> tree]]

RunCheck(check, next) ==
    /\ pc = check
    /\ \E code \in Codes : Ran(check, code)
    /\ Goto(next)
    /\ UNCHANGED <<now, tree, summary>>

\* _get_strict_params reads the configuration first, and raises if it is not
\* JSON; without npx, pyright_test.py says so and its code is replaced by 0
RunPyright ==
    /\ pc = "pyright"
    /\ IF now.strict_config = "unparsable" THEN Exit(1) /\ result' = result
       ELSE /\ Goto("mypy")
            /\ IF now.npx THEN \E code \in Codes : Ran("pyright", code) ELSE result' = result
    /\ UNCHANGED <<now, tree, summary>>

\* "If mypy failed, stubtest will fail without any helpful error"; for the
\* third-party stubs it has to be asked for
RunStubtest ==
    /\ pc = "stubtest"
    /\ IF result["mypy"].code = 0 /\ (now.folder = "stdlib" \/ now.run_stubtest)
       THEN \E code \in Codes : Ran("stubtest", code)
       ELSE result' = result
    /\ Goto("pytype")
    /\ UNCHANGED <<now, tree, summary>>

RunPytype ==
    /\ pc = "pytype"
    /\ IF now.win32 THEN result' = result ELSE \E code \in Codes : Ran("pytype", code)
    /\ Goto("regr_test")
    /\ UNCHANGED <<now, tree, summary>>

\* "No test cases found" on stderr: the code is replaced by 0
RunRegrTest ==
    /\ pc = "regr_test"
    /\ IF now.tests THEN \E code \in Codes : Ran("regr_test", code) ELSE result' = result
    /\ Goto("summary")
    /\ UNCHANGED <<now, tree, summary>>

----------------------------------------------------------------------------
\* pyright_skipped, or a result that is still None
Skipped(check) == check \in {"pyright", "stubtest", "pytype"} /\ ~result[check].ran

SummaryLineByCode(check) == IF result[check].code = 0 THEN "Success" ELSE "Failed"

SummaryLineBySign(check) ==
    IF Skipped(check) THEN "Skipped" ELSE IF result[check].code > 0 THEN "Failed" ELSE "Success"

SummaryLine(check) ==
    IF Skipped(check) THEN "Skipped" ELSE IF result[check].code = 0 THEN "Success" ELSE "Failed"

AnyFailureBeforeRegrTest == \E check \in Checks \ {"regr_test"} : result[check].code # 0

AnyFailure == \E check \in Checks : result[check].code # 0

PrintSummary ==
    /\ pc = "summary"
    /\ summary' = [check \in Checks |-> SummaryLine(check)]
    /\ Exit(IF AnyFailure THEN 1 ELSE 0)
    /\ UNCHANGED <<now, tree, result>>

\* KeyboardInterrupt at any time: aborted, with exit status 1
Interrupt ==
    /\ pc # "ended"
    /\ Exit(1)
    /\ UNCHANGED <<now, tree, result, summary>>

Script ==
    \/ ParseArgs
    \/ Format("pycln", "isort") \/ Format("isort", "black") \/ Format("black", "flake8")
    \/ RunCheck("flake8", "check_consistent")
    \/ RunCheck("check_consistent", "check_new_syntax")
    \/ RunCheck("check_new_syntax", "pyright")
    \/ RunPyright
    \/ RunCheck("mypy", "stubtest")
    \/ RunStubtest \/ RunPytype \/ RunRegrTest
    \/ PrintSummary

Next == Script \/ Interrupt

Spec == Init /\ [][Next]_vars

----------------------------------------------------------------------------
\* the reasons main gives for not running a test
Excused(check) ==
    \/ check = "pyright" /\ ~now.npx
    \/ check = "stubtest" /\ now.folder = "stubs" /\ ~now.run_stubtest
    \/ check = "pytype" /\ now.win32
    \/ check = "regr_test" /\ ~now.tests

(***************************************************************************)
(* "All tests passed!": every test ran with exit code 0, on the files as   *)
(* all three formatters have left them, or there was an announced reason   *)
(* not to run it.                                                          *)
(***************************************************************************)
GreenMeansChecked ==
    status = 0 =>
        /\ tree = <<"pycln", "isort", "black">>
        /\ \A check \in Checks :
            \/ result[check] = [ran |-> TRUE, code |-> 0, tree |-> tree]
            \/ ~result[check].ran /\ Excused(check)

(***************************************************************************)
(* The summary and the exit status tell the same story: a line for each    *)
(* test, "Failed" exactly where a test that ran failed, a status of 0 only *)
(* without such a line, and no summary at all if the script was stopped.   *)
(***************************************************************************)
SummaryAgrees ==
    summary # NoSummary =>
        /\ \A check \in Checks : summary[check] = "Failed" <=> result[check].ran /\ result[check].code # 0
        /\ status = IF \E check \in Checks : summary[check] = "Failed" THEN 1 ELSE 0

(***************************************************************************)
(* What the summary does not call failed is accounted for: "Success" is    *)
(* said only of a test that ran with exit code 0, or of regression tests   *)
(* where there are none, and "Skipped" only of one that did not run for a  *)
(* reason main has given, a stubtest after a mypy that is listed as failed *)
(* included.                                                               *)
(***************************************************************************)
SkipsAreExplained ==
    summary # NoSummary =>
        \A check \in Checks :
            /\ summary[check] = "Success" =>
                 \/ result[check].ran /\ result[check].code = 0
                 \/ check = "regr_test" /\ ~now.tests
            /\ summary[check] = "Skipped" =>
                 /\ ~result[check].ran
                 /\ Excused(check) \/ (check = "stubtest" /\ summary["mypy"] = "Failed")
=============================================================================
