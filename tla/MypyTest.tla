------------------------------ MODULE MypyTest ------------------------------
(***************************************************************************)
(* A session of tests/mypy_test.py: for every Python version and platform  *)
(* mypy is run on the stdlib and on each distribution of stubs/ the        *)
(* command line selects; distributions with external requirements are      *)
(* checked in virtual environments, made once per session by a pool of     *)
(* processes and filled by a pool of threads.                              *)
(*                                                                         *)
(* A path is the sequence of its components.  The requirements of a        *)
(* distribution are the external_pkgs of get_recursive_requirements (see   *)
(* Requirements).                                                          *)
(***************************************************************************)
EXTENDS Integers, SequencesExt, FiniteSets

CONSTANTS
    Dist,       \* the directories of stubs/ that git does not ignore
    Tree,       \* the .pyi files: <<"stdlib", module>>, <<"stubs", dist, file>>
    VERSIONS,   \* stdlib/VERSIONS: the first and the last version of a module
    Configs,    \* the product of versions and platforms: the version of each pair, in order
    Args,       \* paths that may be given on the command line
    ReqSets,    \* sets of external requirements, the empty one included
    Codes       \* what a run of mypy may return; 0: no error; -n: ended by signal n

IsPath(p) == p \in Seq({p[n] : n \in DOMAIN p})

\* valid_path refuses what is not in or under one of the two directories
ASSUME MypyTestAssumption ==
    /\ \A p \in Tree \cup Args : IsPath(p) /\ p # << >> /\ p[1] \in {"stdlib", "stubs"}
    /\ \A p \in Tree : Len(p) > 1
    /\ Configs \in Seq(Int)
    /\ \A p \in Tree : p[1] = "stdlib" \/ (p[1] = "stubs" /\ p[2] \in Dist)
    /\ \A p \in Tree : p[1] = "stdlib" => p[2] \in DOMAIN VERSIONS
    /\ {} \in ReqSets
    /\ Codes \subseteq Int

VARIABLES
    filter, exclude,   \* the paths of the command line
    reqs,              \* the external requirements of each distribution
    pc, config,        \* the pair being tested is Configs[config]
    code,              \* the exit code so far
    checked,           \* total_files_checked
    venv,              \* the virtual environment of each set of requirements
    mapping,           \* _DISTRIBUTION_TO_VENV_MAPPING: its keys are DOMAIN mapping
    queue,             \* distributions not yet tested for this pair
    outcome,           \* how the script ended
    passed,            \* history: the files mypy accepted for each pair
    killed             \* history: the files of runs of mypy that a signal ended

input == <<filter, exclude, reqs>>
progress == <<config, code, checked, passed, killed>>
vars == <<input, pc, progress, venv, mapping, queue, outcome>>

----------------------------------------------------------------------------
(***************************************************************************)
(* match, and which of the two roots and which distributions are selected. *)
(***************************************************************************)
InOrUnder(path, paths) == \E q \in paths : IsPrefix(q, path)

Match(path) == ~InOrUnder(path, exclude) /\ InOrUnder(path, filter)

Selected(root) == \E q \in filter : IsPrefix(root, q)

ToCheck ==
    {d \in Dist : \/ InOrUnder(<<"stubs", d>>, filter)
                  \/ Selected(<<"stubs", d>>)}

\* VERSIONS says from when to when a module is part of the stdlib
InRange(module, version) ==
    VERSIONS[module][1] <= version /\ version <= VERSIONS[module][2]

StdlibFiles(version) ==
    {p \in Tree : p[1] = "stdlib" /\ InRange(p[2], version) /\ Match(p)}

DistFiles(d) == {p \in Tree : p[1] = "stubs" /\ p[2] = d /\ Match(p)}

----------------------------------------------------------------------------
(***************************************************************************)
(* run_mypy: what mypy returns, and how it is added to the exit code.      *)
(***************************************************************************)
LastCode(c) == c

CombinedCode(c) == IF c > code THEN c ELSE code

\* an environment is named by the requirements it is for; with none it is sys.executable
Own == {}

\* without mypy installed, python -m mypy exits with 1
MypyReturns(env) == IF env # Own /\ venv[env] # "ready" THEN {1} ELSE Codes

RunMypy(files, env) ==
    \E c \in MypyReturns(env) :
        /\ code' = CombinedCode(c)
        /\ checked' = checked + Cardinality(files)
        /\ passed' = IF c = 0 THEN passed \cup ({config} \X files) ELSE passed
        /\ killed' = IF c < 0 THEN killed \cup ({config} \X files) ELSE killed
        /\ UNCHANGED config

----------------------------------------------------------------------------
Init ==
    /\ filter \in SUBSET Args \ {{}}
    /\ exclude \in SUBSET Args
    /\ reqs \in [Dist -> ReqSets]
    /\ pc = "stdlib"
    /\ config = 1
    /\ code = 0
    /\ checked = 0
    /\ venv = [r \in ReqSets |-> "none"]
    /\ mapping = << >>
    /\ queue = {}
    /\ outcome = "none"
    /\ passed = {}
    /\ killed = {}

Goto(label) == pc' = label
End(how) == pc' = "done" /\ outcome' = how

\* test_stdlib
TestStdlib ==
    /\ pc = "stdlib"
    /\ Goto("stubs")
    /\ LET files == IF Selected(<<"stdlib">>) THEN StdlibFiles(Configs[config]) ELSE {}
       IN  IF files # {} THEN RunMypy(files, Own) ELSE UNCHANGED progress
    /\ UNCHANGED <<input, venv, mapping, queue, outcome>>

----------------------------------------------------------------------------
(***************************************************************************)
(* test_third_party_stubs: the environments are set up if the mapping is   *)
(* empty, that is, once per session.                                       *)
(***************************************************************************)
Needed == {reqs[d] : d \in ToCheck} \ {{}}

IsSetUp == DOMAIN mapping # {}

SkipStubs ==
    /\ pc = "stubs"
    /\ ~Selected(<<"stubs">>)
    /\ Goto("next")
    /\ UNCHANGED <<input, progress, venv, mapping, queue, outcome>>

\* stage 1
NoneWithoutVenv == {}

WithoutVenv == {d \in ToCheck : reqs[d] = {}}

GroupDistributions ==
    /\ pc = "stubs"
    /\ Selected(<<"stubs">>)
    /\ ~IsSetUp
    /\ mapping' = [d \in WithoutVenv |-> Own]
    /\ IF Needed = {}
       THEN Goto("check") /\ UNCHANGED venv
       ELSE Goto("venvs") /\ venv' = [r \in ReqSets |-> IF r \in Needed THEN "creating" ELSE "none"]
    /\ UNCHANGED <<input, progress, queue, outcome>>

\* stage 2, in the pool of processes
CreateVenv(r) ==
    /\ pc = "venvs"
    /\ venv[r] = "creating"
    /\ \E to \in {"made", "broken"} : venv' = [venv EXCEPT ![r] = to]
    /\ UNCHANGED <<input, pc, progress, mapping, queue, outcome>>

\* result() raises what make_venv raised
VenvsCreated ==
    /\ pc = "venvs"
    /\ \A r \in Needed : venv[r] # "creating"
    /\ IF \E r \in Needed : venv[r] = "broken"
       THEN End("raised")
       ELSE Goto("pip") /\ UNCHANGED outcome
    /\ UNCHANGED <<input, progress, venv, mapping, queue>>

\* stage 3, in the pool of threads; pip installs mypy and all of r, or fails
PipInstall(r) ==
    /\ pc = "pip"
    /\ venv[r] = "made"
    /\ \E to \in {"ready", "empty"} : venv' = [venv EXCEPT ![r] = to]
    /\ UNCHANGED <<input, pc, progress, mapping, queue, outcome>>

\* stage 4: wait() raises nothing, an exception of pip stays in its future
EnvOrOwn(d) == IF venv[reqs[d]] = "ready" THEN reqs[d] ELSE Own

EnvOf(d) == reqs[d]

AllInstalled == \A r \in Needed : venv[r] = "ready"

PipWaited == \A r \in Needed : venv[r] # "made"

MapDistributions ==
    /\ pc = "pip"
    /\ PipWaited
    /\ LET grouped == {d \in ToCheck : reqs[d] # {}}
       IN  mapping' = [d \in DOMAIN mapping \cup grouped |->
                          IF d \in grouped THEN EnvOf(d) ELSE mapping[d]]
    /\ Goto("check")
    /\ UNCHANGED <<input, progress, venv, queue, outcome>>

\* a later pair: the mapping of the first is used again
SetUpAlready ==
    /\ pc = "stubs"
    /\ Selected(<<"stubs">>)
    /\ IsSetUp
    /\ Goto("check")
    /\ UNCHANGED <<input, progress, venv, mapping, queue, outcome>>

\* assert _DISTRIBUTION_TO_VENV_MAPPING.keys() == distributions_to_check.keys()
CheckKeys ==
    /\ pc = "check"
    /\ IF DOMAIN mapping = ToCheck
       THEN queue' = ToCheck /\ Goto("test") /\ UNCHANGED outcome
       ELSE End("AssertionError") /\ UNCHANGED queue
    /\ UNCHANGED <<input, progress, venv, mapping>>

\* test_third_party_distribution; one without files counts as tested
TestDistribution(d) ==
    /\ pc = "test"
    /\ d \in queue
    /\ queue' = queue \ {d}
    /\ IF DistFiles(d) # {} THEN RunMypy(DistFiles(d), mapping[d]) ELSE UNCHANGED progress
    /\ UNCHANGED <<input, pc, venv, mapping, outcome>>

StubsTested ==
    /\ pc = "test"
    /\ queue = {}
    /\ Goto("next")
    /\ UNCHANGED <<input, progress, venv, mapping, queue, outcome>>

----------------------------------------------------------------------------
\* main: the next pair, or the summary
NextConfig ==
    /\ pc = "next"
    /\ config < Len(Configs)
    /\ config' = config + 1
    /\ Goto("stdlib")
    /\ UNCHANGED <<input, code, checked, passed, killed, venv, mapping, queue, outcome>>

Report ==
    /\ pc = "next"
    /\ config = Len(Configs)
    /\ End(IF code # 0 THEN "failure" ELSE IF checked = 0 THEN "nothing to do" ELSE "success")
    /\ UNCHANGED <<input, progress, venv, mapping, queue>>

Interrupted ==
    /\ pc # "done"
    /\ End("interrupted")
    /\ UNCHANGED <<input, progress, venv, mapping, queue>>

Step ==
    \/ TestStdlib \/ SkipStubs \/ GroupDistributions
    \/ \E r \in ReqSets : CreateVenv(r) \/ PipInstall(r)
    \/ VenvsCreated \/ MapDistributions \/ SetUpAlready \/ CheckKeys
    \/ \E d \in Dist : TestDistribution(d)
    \/ StubsTested \/ NextConfig \/ Report

Next == Step \/ Interrupted

\* the script, its workers, pip and mypy do not stop on their own
Spec == Init /\ [][Next]_vars /\ WF_vars(Step)

----------------------------------------------------------------------------
(***************************************************************************)
(* "success" is reported only if, for every pair, mypy has accepted every  *)
(* file the command line asks for that is part of that version's tree: no  *)
(* failure of one of many runs is lost on the way to the exit code, and no *)
(* selected file is left out.  The exception is a run that a signal ended: *)
(* subprocess reports it as a negative code, and max() prefers 0 to it.    *)
(***************************************************************************)
Wanted(i) ==
    {p \in Tree : Match(p) /\ (p[1] = "stdlib" => InRange(p[2], Configs[i]))}

SuccessMeansChecked ==
    outcome = "success" =>
        \A i \in 1..Len(Configs) : \A p \in Wanted(i) : <<i, p>> \in passed \cup killed

(***************************************************************************)
(* A distribution whose requirements could not be installed never passes,  *)
(* although nobody looks at the exception of its `pip install': its files  *)
(* are accepted only in an environment that has all it requires.           *)
(***************************************************************************)
PassedWithRequirements ==
    \A i \in 1..Len(Configs) : \A p \in Tree :
        <<i, p>> \in passed /\ p[1] = "stubs" /\ reqs[p[2]] # {} => venv[reqs[p[2]]] = "ready"

(***************************************************************************)
(* The assertion of test_third_party_stubs holds for every pair: the       *)
(* mapping set up for the first one names the distributions of all.        *)
(***************************************************************************)
KeysAgree == outcome # "AssertionError"

\* A session ends, whatever fails in the pools.
SessionEnds == <>(pc = "done")
=============================================================================
