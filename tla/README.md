# A formal model of typeshed's tooling

typeshed is mostly data: the `.pyi` files under `stdlib/` and `stubs/`. The
programs that keep that data right are in `scripts/`, `tests/` and
`.github/workflows/`; they are what this directory models, in TLA+, checks with
TLC and proves with TLAPS.

## 1. Inventory

### The parts, their state and their operations

| Part | Source | State it keeps | Operations | Hard behaviour |
|---|---|---|---|---|
| stubsabot: main loop, git, GitHub | `scripts/stubsabot.py` 480-764, `.github/workflows/stubsabot.yml` | a clone (HEAD, worktree, remote-tracking refs), the branches `stubsabot/<dist>` on GitHub, the pull requests | fetch, loop over finished tasks, checkout/commit, force-push, POST/GET/PATCH, checkout of the original branch | a task, a push or a call fails between two steps; people and other runs act between any two remote calls; tracking refs go stale |
| stubsabot: decision | `scripts/stubsabot.py` 53-477 | none (asyncio tasks; reads METADATA.toml, PyPI, GitHub tags) | `determine_action` and its helpers: version specifiers, search for the first `py.typed` release, diff analysis | walks that run out of releases, assertion on specifiers, answers that change between awaits |
| metadata | `tests/parse_metadata.py` | `@cache`d results | `read_metadata`, `read_dependencies`, `get_recursive_requirements` | recursion through a cache, name normalisation |
| mypy_test | `tests/mypy_test.py` | venv per requirement set, configurations, return code | version/platform product, thread pools that create venvs and install packages, one mypy run per distribution | exceptions of pool threads, order of the two pool phases, combination of exit codes |
| regr_test | `tests/regr_test.py` | scratch directory per distribution | set-up once, then one mypy run per version and platform | set-up shared between runs |
| stubtest_third_party, stubtest_stdlib | `tests/stubtest_*.py`, `.github/workflows/daily.yml` | venv per distribution, result | shard selection, venv, pip, stubtest; an issue if a job of the night failed | shards must cover every distribution once; a failure must be reported through cancellations |
| pytype_test | `tests/pytype_test.py` | loaders cached per version | find stubs, run pytype per file | cached loaders |
| runtests | `scripts/runtests.py` | one result per check | run the checks for one stub in order, summarise | a skipped check is not a failure |
| check_consistent, check_new_syntax, typecheck_typeshed, pyright_test | `tests/` | none | pure checks over the file tree | combination of exit codes |
| create_baseline_stubs | `scripts/create_baseline_stubs.py` | `pyrightconfig.stricter.json` | stubgen, metadata, insert into a sorted list | position of an entry in a partly sorted list, its commas; runs stopped half-way and repeated |
| utils, get_external_stub_requirements, get_stubtest_system_requirements | `tests/` | none | helpers | gitignore matching, VERSIONS ranges |
| protobuf scripts | `scripts/*.sh` | files | download and generate | none modelled: pure I/O |
| CI workflows | `.github/workflows/` | none | schedule the above | overlapping runs, shards |
| stubs | `stdlib/`, `stubs/` | data | none | not a program |

### How the parts interact

* **stubsabot** reads `METADATA.toml` from a clone, PyPI and GitHub, and writes
  commits, branches `stubsabot/<dist>` and pull requests. It shares the branches
  and pull requests with people and with other runs of itself; nothing locks
  them. `_repo_lock` only serialises proposals inside one run, which the loop of
  `main` does anyway.
* **mypy_test**, **regr_test** and **stubtest_third_party** ask
  `get_recursive_requirements` (cached) which stubs and which PyPI packages a
  distribution needs, and make virtual environments from the answer.
* **create_baseline_stubs** writes `pyrightconfig.stricter.json`, which **runtests**
  reads back as JSON in the middle of a run.
* **runtests** starts the other scripts as subprocesses and looks at their exit
  codes; the **workflows** start all of them, the daily one on a matrix of
  platforms and shards, with a last job that opens an issue.

### What makes each part correct

* stubsabot: no work of people is lost by a force push; a pull request says what
  its branch holds; a change that was declined is not proposed again as long as its
  branch, METADATA.toml and the message stay as they are; a dry run is dry; a
  failed run damages neither the clone nor a later run; a release leads to a pull
  request.
* recursive requirements: the answer is the transitive closure, whatever was
  asked before.
* mypy_test: *success* means that every file asked for was accepted for every
  version and platform, in an environment that has its requirements.
* regr_test: *success* means that every test case a version is new enough for was
  accepted; mypy sees the stubs a package requires and no others, the same for
  every pair.
* a `determine_action` task: its answer is the one for a single state of the PyPI
  page, although it awaits several answers; an updated specifier keeps its form,
  matches the version and never goes down.
* create_baseline_stubs: a run that says it is done has done all three things, and
  the exclude list loses nothing, stays sorted and stays JSON.
* runtests: green means that every check that was not announced as skipped passed on
  formatted files, and the summary says what happened.
* the daily stubtest: no issue means that every distribution was tested on each of
  its platforms; no distribution is tested twice; every failure is reported.

`PROJECT.json` lists the hazards of this code line by line, with the properties
that would catch each of them.

## 2. Modules

| Module | Models | Kind |
|---|---|---|
| `StubsabotData` | metadata, PyPI pages, proposals, `determine_action`, the questions put to git | data and pure operators |
| `Stubsabot` | `main()` of `stubsabot.py`, GitHub, people, several clones | state machine (extends `StubsabotData`) |
| `StubsabotProofs` | | proofs about `Stubsabot` |
| `MCStubsabot` + `Stubsabot*.cfg` | | instances for TLC |
| `Requirements` | `read_dependencies`, `get_recursive_requirements` and its cache | state machine with a call stack |
| `RequirementsProofs` | | proofs about `Requirements` |
| `MCRequirements` + `Requirements.cfg` | | instance for TLC |
| `MypyTest` | a session of `mypy_test.py` | state machine |
| `MypyTestProofs` | | proofs about `MypyTest` |
| `MCMypyTest` + `MypyTest.cfg` | | instance for TLC |
| `RegrTest` | a session of `regr_test.py` | state machine |
| `RegrTestProofs` | | proofs about `RegrTest` |
| `MCRegrTest` + `RegrTest.cfg` | | instance for TLC |
| `Decision` | what the main loop relies on in a `determine_action` task | abstract state machine (extends `StubsabotData`) |
| `DecisionTask` | one `determine_action` task, await by await | state machine, shown to implement `Decision` |
| `MCDecisionTask` + `DecisionTask.cfg` | | instance for TLC |
| `VersionSpec` | `get_updated_version_spec`, and a specifier over a series of releases | operators and a state machine |
| `DecisionProofs` | | proofs about `VersionSpec`, and that `DecisionTask` implements `Decision` |
| `MCVersionSpec` + `VersionSpec.cfg` | | instance for TLC, with the examples of the docstring as an `ASSUME` |
| `CreateBaselineStubs` | `create_baseline_stubs.py`, run repeatedly in one tree | state machine |
| `CreateBaselineStubsProofs` | | proofs about `CreateBaselineStubs` |
| `MCCreateBaselineStubs` + `CreateBaselineStubs.cfg` | | instance for TLC |
| `Runtests` | a run of `runtests.py` | state machine |
| `RuntestsProofs` | | proofs about `Runtests` |
| `MCRuntests` + `Runtests.cfg` | | instance for TLC |
| `DailyStubtest` | the daily workflow: the matrix of `stubtest_third_party.py`, the other jobs, the issue | state machine of concurrent jobs |
| `DailyStubtestProofs` | | proofs about `DailyStubtest` |
| `MCDailyStubtest` + `DailyStubtest.cfg` | | instance for TLC |

Definitions marked as mutated forms (`AnyWorktree`, `NoFinally`, `LastCode`, ...)
stand just before the definition they are a plausible bug of; no action uses
them. Each property is known to fail for at least one of them.

### Stubsabot

State: what is on GitHub (`main`, `landed`, `branch`, `pr`) and PyPI (`pypi`); for
each machine its clone (`head`, `tree`, `dirty`, and the remote-tracking refs
`trackMain`, `trackLanded`, `trackBranch`) and its run (`pc` and the local
variables of `main`); and two history variables that no guard of the program
reads: `declined` (edits whose pull request a person closed and which the branch has
held since) and `owed` (branches pushed since their pull request was last opened or
updated).

* A commit is its author and the set of edits of its patch; a branch is the
  sequence of its commits that are not on main. `landed` are the patches on
  main, which is what `git log --cherry-pick` compares.
* An edit of METADATA.toml is what `git range-diff` and a merge see of it: the key it
  changes, the new version, the message (`notes`, and `from`, the version the diff link
  starts from), and `old`, the file on origin/main it was made in, because a patch shows
  the lines it removes and those around them. The file is short enough for `version`
  and `obsolete_since` to be each other's context, so a change of either on main makes
  the bot's next commit a different one, which is pushed and proposed again. A merge
  conflicts where main has changed the same key since.
* Git commands block the event loop, so `git checkout` ... `git commit` and the
  questions asked afterwards are one action (`StopsLocally`, `RequiresNoChanges`,
  `RemoteConflict`, `GoesOnToPush`); the push and each of the three HTTP calls
  are actions of their own, because GitHub changes in between. Tasks return at
  any `await`.
* Failures: a task raises, `git commit` fails, a push or a POST fails before or
  after it took effect, GET or PATCH fail, a runner is lost.
* People merge (squash), close, reopen, delete the branch, commit to it, amend
  it, and land changes of their own on main. PyPI releases with and without
  `py.typed`; upstream may change links and tags, which changes the commit
  message (`Annotate`). A release in `Stubsabot` is newer than those before it; yanks are
  modelled in `DecisionTask`.
* Abstractions: a version stands for what a version specifier matches; a title
  is the edit it is made for; the links and the diff analysis in a message
  are the number `notes`. `NoUpdate`'s reason, printing and headers are left out.

### Requirements

The graph is chosen in `Init`, so one run covers every graph. The stack has one
frame per call in progress; `Return` is the only step that caches. A cyclic graph
ends in `CallOverflows`, Python's RecursionError, which ends the script.

### MypyTest

Paths are sequences of components, and `Path.parents` is `IsPrefix`. The command
line and the requirements of each distribution are chosen in `Init`. The pools of
`setup_virtual_environments` are concurrent steps (`CreateVenv`, `PipInstall`)
between the labels of the main thread. `pip install` either installs mypy and all
requirements or fails and leaves the environment without mypy, where
`python -m mypy` exits with 1. `passed` and `killed` are history variables.

### RegrTest

One scratch directory at a time: for each part the revision of the working tree it
was copied at. `setup_testcase_dir` is one action per copy, because the tree can be
edited (`EditTree`) and a copy can fail in between. Requirements are the closures
that `Requirements` is about; METADATA.toml is not edited during a session. Test
cases are the version marks of their file names. `seen` is a history variable:
what each run of mypy was given and accepted.

### Decision and DecisionTask

`Decision` has three kinds of steps: the page changes, the task reads it, the task
answers. `DecisionTask` has one action per await of `determine_action`; between
them the project (external) releases, yanks and tags. The refinement mapping
computes the abstract page from the releases: the latest final release that is not
yanked, and the start of the last run of final releases whose best file has
`py.typed`. `Stubsabot` uses the same operator `DetermineAction` as `Decision`, so
the refinement justifies the way it takes a task's answer in one step. Every HTTP
call may raise; a release has a list of files of which `get_release` takes the last
wheel, or the last file.

Two things the model shows beside its properties: when the latest release is
yanked, PyPI names an older one as the latest and the bot proposes it, even if the
specifier is newer; and the diff of an `Obsolete` goes from the version typeshed
has to the first typed one, which may be older. `NeverLowered` is therefore claimed
for releases that get newer.

### VersionSpec

Versions and specifiers are sequences of numbers with a flag (`.postN`, `.*`); what
`packaging` does with them (`SpecContains`, `Older`) is modelled from PEP 440 and marked
external. `Bot` is the end of `determine_action` for an untyped project, followed by
a merge.

### CreateBaselineStubs

An entry is its exact name and the number of commas after it; `Key` gives each name its
place in the order of lower-cased lines, the same for names that differ only in case.
The backwards search (line 90) compares keys, as it lower-cases both lines; the test for
an entry that is already there (line 92) compares names, as it does not. Projects are
named as `pip freeze` spells them, and directories are told apart by case, as on Linux.
`initial` is a history variable: the list before the first run. The file is
empty between `open(..., "w")` and `writelines`. People delete directories and repair
commas between runs. Left out: the fuzzy match in `pip freeze` (whose docstring says *case
sensitive*, while the search ignores case), and the detection of the package, where
`distribution(project)` raises for a project that is not installed although the
comment above it says *Use default if that fails*: both only choose the inputs of a
run, or end it before anything is written (`Main`).

### Runtests

The situation (arguments, platform, npx, test cases, the configuration file) is
chosen in `Init`; every program returns any of the exit codes, negative ones
included. A result remembers the formatters that had run before it.

### DailyStubtest

One job per platform and shard index, each with the loop of `main` over the list of
distributions, one iteration per step; `run_stubtest` is one step, since jobs share
nothing. `stubtest-stdlib` and `stub-uploader` are jobs with any result. `Cancel`
stops what has not ended, `TimeOut` a single job that takes longer than GitHub allows,
and `create-issue-on-failure` waits for all. It asks for the result *failure*: a job
that only ran out of time is *cancelled* and nobody is told, which `QuietMeansTested`
names as its exception.

## 3. Runs

| Run | Instance | Checks |
|---|---|---|
| `stubsabot_human` | one runner, one distribution, 3 versions, 2 pull requests, everything people do, failing tasks, lost pushes, calls and runners | `PrDescribesBranch`, `HumanCommitsSurvive`, `DeclinedNotReopened` |
| `stubsabot_clone` | one permanent clone, two distributions (one typed from its first release, whose tasks raise), levels `nothing`, `local` and `fork`, limits 0 and 9, failing commits | `TypeOK`, `OneDistributionPerCommit`, `OriginalBranchRestored`, `ProposalChangesMetadata`, `ActionLevelsHonoured` |
| `stubsabot_liveness` | one runner, two distributions, no failures | `RunEnds`, `ReleaseProposed` |
| `stubsabot_no_pr` | a GitHub call fails | `NoPrRequired`: **violated** |
| `requirements` | all graphs over 3 packages and 1 external requirement | `TypeOK`, `CacheIsClosure`, `CallReturns` |
| `mypy_session` | 2 distributions, 5 files, 2 pairs, all command lines over 4 paths, 3 requirement sets, mypy accepts, rejects or is killed by a signal | `SuccessMeansChecked`, `PassedWithRequirements`, `KeysAgree`, `SessionEnds` |
| `regr_session` | the stdlib and 3 packages, all closed requirement graphs over them with 1 external requirement, up to 2 pairs, 1 edit | `TypeOK`, `IsolatedEnvironment`, `PairsShareSnapshot`, `SuccessMeansTested` |
| `decision_task` | up to 3 releases of 4 kinds, pre-releases, yanks, tags, three kinds of `project_urls` | `ImplementsDecision` (refinement), `TaskEnds` |
| `version_spec` | specifiers and versions of up to 3 numbers, post-releases | `RaisesOnlyForPost`, `SpecificityKept`, `NeverLowered` |
| `create_baseline` | 2 projects of 2 packages, 5 first lists, two with a project in another case, up to 5 lines | `TypeOK`, `DoneMeansExcluded`, `EntriesKept`, `InsertKeepsOrder`, `ListedOnce`, `CommasKept`, `RunEnds` |
| `runtests` | every situation, exit codes of either sign, an interrupt anywhere | `GreenMeansChecked`, `SummaryAgrees`, `SkipsAreExplained` |
| `daily_stubtest` | 1 platform, 2 shards, 3 distributions, another job, jobs out of time, a cancellation | `TypeOK`, `QuietMeansTested`, `ShardsAreDisjoint`, `FailureIsReported` |

### What the violation shows

*`stubsabot_no_pr`.* The bot pushes a branch and the POST that follows fails. From
then on the branch equals what the bot would push, so every run prints *"No PR
required: origin/... exists and requires no changes!"* and the pull request is
never opened (or an open one keeps the title of an earlier release). The same
state is reached by a run at level `fork`, and by closing the pull request between
the POST that reports it and the GET that looks for it (the assertion at line
512). This is also why `ReleaseProposed` is checked without failures and without
people closing pull requests.

### Where the code falls short of its documentation

Six more cases came up while modelling. The models do what the code does, and the
properties name each case as the only exception to what they claim.

* *Signals.* `mypy_test.py` and `regr_test.py` combine exit codes by `max`, and
  `subprocess` reports a signal as a negative number: a session whose mypy processes
  are all killed prints *failure* for each and *success* at the end.
  `SuccessMeansChecked` excepts `killed`; `regr_session` assumes the codes mypy
  itself returns.
* *`obsolete_since`.* For a project that ships `py.typed`, drops it, and ships it again
  the bot proposes the start of the last run; `CONTRIBUTING.md` says that the key
  holds the first version that ships the file. (Either is defensible; the code's own
  variable is called `first_release_with_py_typed`.) `TypedSince` is the start of the
  last run.
* *`project_urls`.* A project without URLs has `"project_urls": null` on PyPI. Line 438
  of `stubsabot.py` allows for that, line 245 does not: `get_diff_info` raises instead
  of returning `None`, and as nothing catches it, the run of the bot ends for all
  distributions. `DecisionTask` raises there.
* *Post-releases.* For an exact specifier the updated one is `base_version`, which drops
  `.postN`; the assertion that it matches the version fails, and the run ends.
  `RaisesOnlyForPost` says that this is the only case.
* *Commas.* The last entry of the exclude list has a trailing comma in the repository. A
  project that sorts after it gets its entry with a comma added to that line all the
  same; two commas in a row are not JSON, even after `_parse_jsonc`, and `runtests.py`
  raises from then on. `CommasKept` says that this is the only case.
* *Upper and lower case.* The place of an entry is searched for in lower case, *already
  up-to-date* is decided by an exact comparison: in a sorted list that holds
  `stubs/Pillow`, the project `pillow` gets an entry of its own, and if `stubs/pillow`
  follows it, that entry is not seen and made a second time. `ListedOnce` names the
  case; `runtests.py` (line 42) ignores case when it reads the list.

The text of an update's pull request (line 602) asks to leave it open *"to prevent
stubsabot from opening another PR"*. The model agrees: the bot opens another one for a
change that was declined when main's METADATA.toml or the message is no longer the same,
or when the branch was deleted. `DeclinedNotReopened` claims what remains: as long as the
branch holds the declined edit and the bot would make that same edit again, no pull
request is opened.

### Bounds

* `MaxVersion` 2 or 3: the first release, one update, and an update of that
  update (needed for a pull request to be retitled).
* `MaxPrs` 2: a second pull request for a branch whose first one was closed. People
  stop closing and merging at the bound, the bot is not bounded.
* `MaxNotes` 1 in `stubsabot_human`: a message may differ from the declined one.
* One distribution suffices where the property concerns one branch: distributions
  interact only through the clone, which `stubsabot_clone` checks with two. Level
  `everything` is that of `stubsabot_human` and `stubsabot_liveness`.
* Runs do not overlap in the instances; the theorems about `Stubsabot` hold for
  overlapping ones too (`Overlap`), except those of section 4 that say so.
* People change the stubs of a distribution at most once (`StubsUntouched`).
* `RecursionLimit` is the number of packages, the least for which an acyclic graph
  fits; the real one is several times the number of directories of `stubs/`.
* `mypy_session`: two pairs, so that the mapping is reused; a module that is new in
  the later of the two versions; requirement sets that are shared, different, and
  contained in one another.

* `regr_session`: a package listed twice, one whose test cases are all too new for
  the second pair, one with a mark that is not a supported version, and
  mypy-extensions itself; a version that is not a supported one, as the default
  (line 253) is not looked up; `MaxRev` 2, since the properties compare two copies.

* `decision_task`: three releases, the least for a run of typed releases that starts
  after an untyped one and is cut by a yank or a release made meanwhile.
* `version_spec`: three numbers let a specifier be shorter than, as long as and longer
  than a version; two values of a number decide every comparison.
* `create_baseline`: keys below, between and above those of the list, lists that are
  unsorted, that end with and without a comma, and that hold a project in another case,
  alone and before its own entry; `MaxLines` only stops further runs.
* `daily_stubtest`: three distributions over two shards, so that one shard has a
  later distribution that may hide an earlier failure. Platforms share nothing; the
  theorem covers any number.

Requirements, `DecisionTask`, `VersionSpec` and the sessions of the scripts may stop (nobody asks; the script
has ended), so their configurations do not check for deadlock. Stubsabot's do.

### Fairness

* `Stubsabot`: weak fairness of a run's steps (git commands end; aiohttp gives
  every request a total timeout, after which it raises; GitHub ends a job that
  hangs), of making a new runner, and of starting runs (the daily schedule).
  Nothing is assumed of people, PyPI or failures.
* `Requirements`: a call that can go on does; scripts need not ask.
* `MypyTest`: the steps of the script and its pools; not `Interrupted`.
* `RegrTest`, `Runtests`, `VersionSpec`: none; only safety is claimed.
* `DecisionTask`: steps of the task (aiohttp's timeout); not the project.
* `CreateBaselineStubs`: steps of the script, that is, the programs it
  starts end; not people, not interrupts.
* `DailyStubtest`: each job and the last one (GitHub starts queued jobs and ends
  those that hang); not `Cancel`, not `TimeOut`.

## 4. Proofs

Constants are arbitrary within the named assumptions `DataAssumption`,
`StubsabotAssumption`, `RequirementsAssumption`, `MypyTestAssumption`, `TaskAssumption`,
`RegrTestAssumption`,
`VersionAssumption`, `BaselineAssumption`, `CodesAssumption` and `DailyAssumption`,
which say of what kind they are (and, for `Requirements`, that Python's stack has
room for every package once; for `CreateBaselineStubs`, that projects have keys above
0, that a list starts with a
line no project comes before and lacks no comma but the last; for `DailyStubtest`,
that the shard indices of the matrix are 0..n-1 for `--num-shards` n, as in
`daily.yml`).

| Theorem | Says | Rests on |
|---|---|---|
| `StubsabotProofs!TypeCorrect`, `TypeOKHolds` | `Spec => []TypeOK` | `TypeInv`: types, `InProgress`, `Idle` |
| `StubsabotProofs!VisibleCommitsSurvive` | `Spec => HumanCommitsSurvive` | `PushIsSafe` |
| `StubsabotProofs!LevelsHonoured` | `Spec => ActionLevelsHonoured` | `LevelAtLabel` |
| `StubsabotProofs!CloneGivenBack` | `Spec => []OriginalBranchRestored` | `OriginalKnown` |
| `StubsabotProofs!OneDistribution` | `Spec => []OneDistributionPerCommit` | `CleanWorktree` |
| `StubsabotProofs!ProposalsAreNews` | `Spec => []ProposalChangesMetadata` | `CleanWorktree`, `ResultIsNews` |
| `StubsabotProofs!TitlesAreTrue` | `~Overlap` implies `Spec => []PrDescribesBranch` | `Alone`, `CommitIsTitle`, `PushedIsOurs`, `OpenDescribed` |
| `StubsabotProofs!DeclinedStayDeclined` | `~Overlap` implies `Spec => DeclinedNotReopened` | `OneTitle`, `TrackIsFresh`, `PushDiffers`, `DeclinedHeld`, `NotDeclined` |
| `StubsabotProofs!NoPrRequiredUndisturbed` | `Undisturbed` implies `Spec => NoPrRequired` | `LevelsUsed`, `OwedIsInHand` |
| `RequirementsProofs!CacheCorrect`, `TypesKept` | `Spec => []CacheIsClosure`, `Spec => []TypeOK` | `GoodStack`, `Linked` |
| `MypyTestProofs!AssertionHolds`, `PassesHaveRequirements`, `SuccessIsChecked` | `Spec => []KeysAgree`, `[]PassedWithRequirements`, `[]SuccessMeansChecked` | `Mapped`, `PassedMapped`, `Covered` |
| `RegrTestProofs!RegrTypes` | `Spec => []TypeOK` | |
| `RegrTestProofs!Isolation` | `Spec => []IsolatedEnvironment` | `SetUpProgress`, `SetUpOnce` |
| `RegrTestProofs!OneSnapshot` | `Spec => []PairsShareSnapshot` | the same and `SeenSoFar` |
| `RegrTestProofs!SuccessIsTested` | `Codes \subseteq Nat` implies `Spec => []SuccessMeansTested` | `TestedSoFar` |
| `CreateBaselineStubsProofs!Types`, `DoneIsExcluded` | `Spec => []TypeOK`, `Spec => []DoneMeansExcluded` | `Searching`, `Progress` |
| `CreateBaselineStubsProofs!OrderKept`, `OnlyListedOnce`, `CommasAreKept` | the three action properties | `Searching`, `InsertAtLines` |
| `CreateBaselineStubsProofs!EntriesAreKept` | `Spec => []EntriesKept` | `LinesKept` |
| `RuntestsProofs!GreenIsChecked`, `SummaryIsRight`, `SkipsExplained` | `Spec => []GreenMeansChecked`, `[]SummaryAgrees`, `[]SkipsAreExplained` | `Results`, `InOrder`, `Past` |
| `DecisionProofs!UpdatedSpecMatches` | the updated specifier matches, unless exact and post | |
| `DecisionProofs!OnlyPostRaises`, `SpecificityIsKept`, `IsNeverLowered` | `Spec => ...` | `SpecTypeOK` and what the releases have in common |
| `DecisionProofs!TaskImplementsDecision` | `TaskSpec => ImplementsDecision` | `TaskTypes`, `Walking`, `Walked` |
| `DailyStubtestProofs!Types`, `QuietIsTested`, `ShardsDisjoint` | `Spec => []...` | `Covered`, `SuccessIsComplete`, `SkippedForAReason`, `ReportIsFinal`, `TestedInShard` |

*Stubsabot.* None of the properties is inductive. `InProgress` says that while a
proposal is being made its distribution and result are at hand (without it not even
the types are preserved by a push); `Idle` that a run leaves nothing of itself
behind. `CleanWorktree` is why `commit --all` commits one edit: a run that may
write starts from a clean worktree, and commits or ends before the next proposal.
`PushIsSafe` carries the answer of `has_non_stubsabot_commits` from the loop to
the push: the clone does not change in between, and what is on main stays there.
`ResultIsNews` carries the comparison made by `determine_action` to the moment the
proposal is made.

*Stubsabot, runs one at a time.* The theorems about pull requests assume that
runs do not overlap. Nothing in `stubsabot.yml` enforces it beyond the daily schedule
(there is no `concurrency` key), and the assumption is needed: with two overlapping runs
TLC finds each of the properties violated.
`TitlesAreTrue`: nobody else pushes to a branch between the push of a run and its calls
to GitHub, and what people do keeps the first commit's edits or deletes the branch
(`EnvBranch`), so the title a run gives is in the branch's first commit.
`DeclinedStayDeclined`: a declined edit is, by `DeclinedHeld`, the bot's commit at the end
of its branch. A run sees it there because it fetched first (`TrackIsFresh`), and what it
goes on to push is not that commit (`PushDiffers`), so a push replaces a declined edit by
another and never brings one back; `NotDeclined` carries this from the push to the POST.
Closing a pull request declines the one edit it names (`OneTitle`) if the branch holds
that edit and no run has just pushed to it, so a run between push and POST is not
concerned. How pages change does not matter: nothing is assumed of it.
`NoPrRequiredUndisturbed` complements the run `stubsabot_no_pr`: the message "No PR
required" can be relied on where runs do not overlap, no call to GitHub fails, no runner
is lost, nobody runs the script at level `fork` and nobody closes pull requests, because
a branch that is owed a pull request is then in the hands of a run that will open or
update it (`OwedIsInHand`). TLC finds a violation as soon as one of these conditions is
dropped.

*Requirements.* A frame is worth what it should be (`GoodFrame`): what the package
lists and the closure of everything its loop is done with. Together with the
equations `ReachableUnfolds` and `AllExternalUnfolds`, the result of a finished
loop is the closure. The argument needs no acyclicity: a call inside a cycle never
gets to its `Return`.

*MypyTest.* `Mapped` says at which label the mapping has which keys (none, the
distributions without requirements, all distributions to check) and that a distribution
is mapped to its own requirements; `PassedMapped` that no stub has passed before the
environments were made, so that an environment that is missing at a test was missing
from the start. `Covered` says of what the session has behind it what
`SuccessMeansChecked` says of all, unless the exit code is not 0. `WantedIsSelected`
shows that the files the command line asks for are found by the ways of the script, by
directory and by distribution.

*RegrTest.* That `test_cases` exists says that the set-up is complete only because an
exception in the set-up ends the session: `SetUpProgress` says what is there at each
label, `SetUpOnce` that nothing is missing where mypy can be started. `SeenSoFar`
relates the history to the scratch directory: once mypy has been run for a package,
the directory stays as it was then.
`TestedSoFar` says the same of the pairs the loops have left behind as
`SuccessMeansTested` of all of them, unless the exit code is not 0; that codes are
natural numbers is needed for `max` to keep a failure.

*CreateBaselineStubs.* `Searching` says that the file still is what was read and that
every line passed over is greater than the new one: together with the line of key 0
this keeps the index inside the list, and in a sorted list it makes the place found
the right one. `InsertAtLines` is what `lines.insert` does to each line. `EntriesKept`
says that an increasing map takes each entry of the first list to a line with its name;
an insertion composes that map with the shift of the lines after it. For `OnlyListedOnce`:
in a sorted list the lines passed over start with the first entry for the project in any
case, and the exact comparison is with that one.

*Runtests.* `Past` says for each place in the script which checks have run or are
excused by then (stubtest also by a failure of mypy, which makes the run red). At the
summary all are settled, which is what the three theorems need.

*VersionSpec.* The version typeshed knows is never newer than the latest on PyPI;
an update takes a prefix of the newer one, padded with zeros.

*DecisionTask.* The refinement maps the releases of the project to a page: its latest
release, and the oldest of the run of typed releases the latest belongs to (that it
exists follows from the well-foundedness of the strict subset order on finite sets).
`Walking` says that the final releases the walk has passed have `py.typed` and that
`first` is the oldest of them, `Walked` that it ended at one without; `WalkFinds` that
`first` then is what the page says. A step of the project maps to a change of the page,
the fetch to `Decision`'s read, the walk and the calls to GitHub to stutters.

*DailyStubtest.* `Covered`: what a job has behind it, it has tested, unless its exit
code is 1. A night without an issue and without a cancelled job has only successful jobs, each of which has the
whole list behind it, and every index leaves a remainder that is in the matrix.

Every safety property of the passing runs is proved. Model-checked only: `RunEnds`,
`ReleaseProposed`, `CallReturns`, `SessionEnds`, `TaskEnds` and
`FailureIsReported`, liveness under fairness, which the prover does not handle; and the
violation of `NoPrRequired` where its conditions do not hold.

## 5. Plan

Everything planned for the scripts that keep state or have an order of steps to get
wrong is done. What would come next:

1. An abstract bot (proposals, open pull requests, declined ones, no clones) that
   `Stubsabot` implements where runs do not overlap and calls do not fail.
2. The VERSIONS checks of `check_consistent` as operators with reference definitions.

## 6. Not modelled

The validation of TOML keys (`read_metadata`, `read_stubtest_settings`), thin
wrappers around a subprocess (`pyright_test`, `typecheck_typeshed`,
`stubtest_stdlib`, the requirement listings), code generation
(`generate_proto_stubs.sh`, `sync_tensorflow_protobuf_stubs.sh`), and the workflows
other than stubsabot's and the daily one: they keep no state and have no order of
steps to get wrong. The figures of `DiffAnalysis` are text nothing depends on. The stubs and test cases are data.
Inside stubsabot: a commit pushed between the fetch and the force push is lost by
the code and by the model alike; `HumanCommitsSurvive` says exactly what is
protected. Also left as the code has them: after a squash merge, a branch that had a
commit of a person conflicts with every later proposal until somebody deletes it
(line 574); a person who amends the bot's commit keeps its author, and the change is
overwritten (line 546, `HumanAmend`); the stubs are listed after an await, when
another proposal's branch may be checked out (line 416).
