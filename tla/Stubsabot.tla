----------------------------- MODULE Stubsabot -----------------------------
(***************************************************************************)
(* scripts/stubsabot.py as run by .github/workflows/stubsabot.yml or by a  *)
(* maintainer: main() and everything it does to a clone of typeshed, to    *)
(* the bot's branches on GitHub and to the pull requests.                  *)
(*                                                                         *)
(* A machine is a clone in which the script is run.  A run is one event    *)
(* loop: the git commands block it, so that determine_action tasks advance *)
(* only while main() awaits a task or an answer of GitHub; what is remote  *)
(* (GitHub, PyPI, other machines) moves between any two steps.             *)
(***************************************************************************)
EXTENDS StubsabotData

CONSTANTS
    AllTyped,     \* distributions whose first release already had py.typed
    Machine,      \* clones the script is run in
    Disposable,   \* those of them that are thrown away after a run (CI runners)
    None,         \* no distribution; as a branch: one that is not the bot's
    Levels,       \* values of --action-level that are used
    Limits,       \* values of --action-count-limit; without the option, any n >= |Dist|
    Overlap,      \* can two runs be in progress at once?
    EnvActs,      \* what people and PyPI do
    Failures,     \* what can fail
    MaxPrs        \* bound: pull requests opened for one branch

Nothing == 0
Local == 1
Fork == 2
Everything == 3

ASSUME StubsabotAssumption ==
    /\ None \notin Dist
    /\ AllTyped \subseteq Dist
    /\ Disposable \subseteq Machine
    /\ Levels \subseteq Nothing..Everything
    /\ Limits \subseteq Nat
    /\ Overlap \in BOOLEAN
    /\ EnvActs \subseteq {"release", "annotate", "merge", "close", "reopen", "delete",
                     "commit", "amend", "land"}
    /\ Failures \subseteq {"task", "commit", "push", "api", "crash"}
    /\ MaxPrs \in Nat

VARIABLES
    \* GitHub and PyPI
    main,         \* METADATA.toml of every distribution on main
    landed,       \* the patches of the commits that reached main
    branch,       \* the commits of stubsabot/<dist> that are not on main; << >>: no branch
    pr,           \* the last pull request opened from that branch
    pypi,
    \* a machine's clone
    head,         \* the bot's branch that is checked out, or None
    tree,         \* METADATA.toml on the branch the run starts from
    dirty,        \* uncommitted changes
    trackMain, trackLanded, trackBranch,   \* origin/main and origin/stubsabot/<dist>
    \* a run
    pc, level, limit,
    original,     \* original_branch
    count,        \* action_count
    result,       \* what each determine_action task has returned
    cur,          \* the distribution whose proposal is being made
    commit,       \* the patch committed for it
    found,        \* number of the pull request found
    \* history
    declined,     \* edits whose pull request a person closed, the branch holding them ever since
    owed          \* branches pushed since their pull request was last opened or updated

world == <<main, landed, branch, pr, pypi>>
clone == <<head, tree, dirty, trackMain, trackLanded, trackBranch>>
run == <<pc, level, limit, original, count, result, cur, commit, found>>
history == <<declined, owed>>
vars == <<world, clone, run, history>>

Branch == Dist \cup {None}
Pr == [state : {"none", "open", "closed", "merged"}, number : Nat, title : SUBSET Edit]

\* pc: no clone / idle / awaiting the next task / committed, about to push /
\* the three GitHub calls of create_or_update_pull_request / in the finally
Running == {"loop", "push", "post", "find", "patch", "finally"}
Awaiting == {"loop", "post", "find", "patch"}

LimitReachedLate(m) == count[m] > limit[m]

LimitReached(m) == count[m] >= limit[m]

(***************************************************************************)
(* Types, with the bound the count limit puts on the actions of a run.     *)
(***************************************************************************)
WorldType ==
    /\ main \in [Dist -> Meta]
    /\ landed \subseteq SUBSET Edit
    /\ branch \in [Dist -> Seq(Commit)]
    /\ pr \in [Dist -> Pr]
    /\ pypi \in [Dist -> Pypi]

CloneType ==
    /\ head \in [Machine -> Branch]
    /\ tree \in [Machine -> [Dist -> Meta]]
    /\ dirty \in [Machine -> SUBSET Edit]
    /\ trackMain \in [Machine -> [Dist -> Meta]]
    /\ trackLanded \in [Machine -> SUBSET SUBSET Edit]
    /\ trackBranch \in [Machine -> [Dist -> Seq(Commit)]]

RunType ==
    /\ pc \in [Machine -> Running \cup {"gone", "off"}]
    /\ level \in [Machine -> Nothing..Everything]
    /\ limit \in [Machine -> Nat]
    /\ original \in [Machine -> Branch]
    /\ count \in [Machine -> Nat]
    /\ result \in [Machine -> [Dist -> Result]]
    /\ cur \in [Machine -> Branch]
    /\ commit \in [Machine -> SUBSET Edit]
    /\ found \in [Machine -> Nat]
    /\ \A m \in Machine : count[m] <= limit[m]

HistoryType ==
    /\ declined \subseteq Edit
    /\ owed \subseteq Dist

TypeOK == WorldType /\ CloneType /\ RunType /\ HistoryType

Init ==
    /\ main = [d \in Dist |-> [version |-> 1, obsolete_since |-> 0]]
    /\ landed = {}
    /\ branch = [d \in Dist |-> << >>]
    /\ pr = [d \in Dist |-> [state |-> "none", number |-> 0, title |-> {}]]
    /\ pypi = [d \in Dist |-> [latest |-> 1, typed_since |-> IF d \in AllTyped THEN 1 ELSE 0, notes |-> 0]]
    /\ head = [m \in Machine |-> None]
    /\ tree = [m \in Machine |-> main]
    /\ dirty = [m \in Machine |-> {}]
    /\ trackMain = [m \in Machine |-> main]
    /\ trackLanded = [m \in Machine |-> {}]
    /\ trackBranch = [m \in Machine |-> branch]
    /\ pc = [m \in Machine |-> "off"]
    /\ level = [m \in Machine |-> Nothing]
    /\ limit = [m \in Machine |-> 0]
    /\ original = [m \in Machine |-> None]
    /\ count = [m \in Machine |-> 0]
    /\ result = [m \in Machine |-> [d \in Dist |-> Pending]]
    /\ cur = [m \in Machine |-> None]
    /\ commit = [m \in Machine |-> {}]
    /\ found = [m \in Machine |-> 0]
    /\ declined = {}
    /\ owed = {}

----------------------------------------------------------------------------
(***************************************************************************)
(* Starting a run.                                                         *)
(***************************************************************************)

(***************************************************************************)
(* actions/checkout on a new runner (fetch-depth: 0 fetches every branch), *)
(* or a maintainer bringing a clone up to date between two runs.           *)
(***************************************************************************)
Checkout(m) ==
    /\ pc[m] = "gone" \/ (pc[m] = "off" /\ m \notin Disposable)
    /\ pc' = [pc EXCEPT ![m] = "off"]
    /\ head' = [head EXCEPT ![m] = None]
    /\ tree' = [tree EXCEPT ![m] = main]
    /\ dirty' = [dirty EXCEPT ![m] = {}]
    /\ trackMain' = [trackMain EXCEPT ![m] = main]
    /\ trackLanded' = [trackLanded EXCEPT ![m] = landed]
    /\ trackBranch' = [trackBranch EXCEPT ![m] = branch]
    /\ UNCHANGED <<world, history, level, limit, original, count, result, cur, commit, found>>

(***************************************************************************)
(* main() up to the try: a run that may write refuses a worktree with      *)
(* uncommitted changes, notes the branch it starts from and, if it will    *)
(* push, fetches and prunes.  A refused start and a failed fetch, outside  *)
(* the try, leave everything as it was.                                    *)
(***************************************************************************)
AnyWorktree(m, lv) == TRUE

WorktreeAllows(m, lv) == lv > Nothing => dirty[m] = {}

Begin(m, lv, lim) ==
    /\ pc[m] = "off"
    /\ Overlap \/ \A n \in Machine : pc[n] \notin Running
    /\ WorktreeAllows(m, lv)
    /\ pc' = [pc EXCEPT ![m] = "loop"]
    /\ level' = [level EXCEPT ![m] = lv]
    /\ limit' = [limit EXCEPT ![m] = lim]
    /\ original' = [original EXCEPT ![m] = head[m]]
    /\ IF lv >= Fork
       THEN /\ trackMain' = [trackMain EXCEPT ![m] = main]
            /\ trackLanded' = [trackLanded EXCEPT ![m] = landed]
            /\ trackBranch' = [trackBranch EXCEPT ![m] = branch]
       ELSE UNCHANGED <<trackMain, trackLanded, trackBranch>>
    /\ UNCHANGED <<world, history, head, tree, dirty, count, result, cur, commit, found>>

----------------------------------------------------------------------------
(***************************************************************************)
(* The determine_action tasks.  All of them read METADATA.toml before      *)
(* main() first resumes, hence from the branch the run started from; they  *)
(* read PyPI whenever it answers.                                          *)
(***************************************************************************)
TaskEnds(m, d, res) ==
    /\ pc[m] \in Awaiting
    /\ result[m][d] = Pending
    /\ result' = [result EXCEPT ![m][d] = res]
    /\ UNCHANGED <<world, clone, history, pc, level, limit, original, count, cur, commit, found>>

TaskReturns(m, d) ==
    TaskEnds(m, d, DetermineAction(d, Patched(tree[m], dirty[m])[d], pypi[d]))

TaskFails(m, d) ==
    /\ "task" \in Failures
    /\ TaskEnds(m, d, Raised)

----------------------------------------------------------------------------
(***************************************************************************)
(* The loop of main() over the completed tasks.  The proposal for d is     *)
(* made (suggest_typeshed_update, suggest_typeshed_obsolete) if the limit  *)
(* allows; a NoUpdate is passed over.                                      *)
(***************************************************************************)
AtResult(m, d, kinds) ==
    /\ pc[m] = "loop"
    /\ result[m][d].kind \in kinds

Goto(m, label) == pc' = [pc EXCEPT ![m] = label]
Handle(m, d) == result' = [result EXCEPT ![m][d] = Handled]

\* `await task' raises what the task raised, and the run ends
TaskRaises(m, d) ==
    /\ AtResult(m, d, {"raised"})
    /\ Goto(m, "finally")
    /\ UNCHANGED <<world, clone, history, level, limit, original, count, result, cur, commit, found>>

OverLimit(m, d) ==
    /\ AtResult(m, d, ProposalKinds)
    /\ LimitReached(m)
    /\ Handle(m, d)
    /\ UNCHANGED <<world, clone, history, pc, level, limit, original, count, cur, commit, found>>

StartsAction(m, d) ==
    /\ AtResult(m, d, ProposalKinds)
    /\ ~LimitReached(m)
    /\ count' = [count EXCEPT ![m] = @ + 1]

\* action level `nothing'
DryRun(m, d) ==
    /\ StartsAction(m, d)
    /\ level[m] <= Nothing
    /\ Handle(m, d)
    /\ UNCHANGED <<world, clone, history, pc, level, limit, original, cur, commit, found>>

(***************************************************************************)
(* git checkout -B stubsabot/<dist> origin/main, which carries uncommitted *)
(* changes over, then METADATA.toml is rewritten.                          *)
(***************************************************************************)
OnNewBranch(m, d) ==
    /\ StartsAction(m, d)
    /\ level[m] > Nothing
    /\ head' = [head EXCEPT ![m] = d]

Proposed(m, d) == EditOf(d, result[m][d], tree[m][d], trackMain[m][d])

Changed(m, d) ==
    IF ApplyEdit(trackMain[m][d], Proposed(m, d)) = trackMain[m][d]
    THEN dirty[m]
    ELSE dirty[m] \cup {Proposed(m, d)}

\* nothing to commit: git exits with 1 and check_call raises
EmptyCommit(m, d) ==
    /\ OnNewBranch(m, d)
    /\ Changed(m, d) = {}
    /\ Goto(m, "finally")
    /\ UNCHANGED <<world, history, tree, dirty, trackMain, trackLanded, trackBranch,
                   level, limit, original, result, cur, commit, found>>

\* git commit fails for another reason (a hook, the disk): the change stays in the worktree
CommitFails(m, d) ==
    /\ "commit" \in Failures
    /\ OnNewBranch(m, d)
    /\ Changed(m, d) # {}
    /\ dirty' = [dirty EXCEPT ![m] = Changed(m, d)]
    /\ Goto(m, "finally")
    /\ UNCHANGED <<world, history, tree, trackMain, trackLanded, trackBranch,
                   level, limit, original, result, cur, commit, found>>

\* git commit --all
Commits(m, d) ==
    /\ OnNewBranch(m, d)
    /\ Changed(m, d) # {}
    /\ dirty' = [dirty EXCEPT ![m] = {}]
    /\ UNCHANGED <<world, history, tree, trackMain, trackLanded, trackBranch,
                   level, limit, original, found>>

CommitsOnly(m, d) ==
    /\ Commits(m, d)
    /\ Handle(m, d)
    /\ UNCHANGED <<pc, cur, commit>>

\* action level `local'
StopsLocally(m, d) ==
    /\ CommitsOnly(m, d)
    /\ level[m] <= Local

\* "requires no changes!": neither pushed nor turned into a pull request
RequiresNoChanges(m, d) ==
    /\ CommitsOnly(m, d)
    /\ level[m] > Local
    /\ ~LatestCommitIsDifferent(trackBranch[m][d], Changed(m, d))

\* somewhat_safe_force_push raises RemoteConflict, which the loop catches
RemoteConflict(m, d) ==
    /\ CommitsOnly(m, d)
    /\ level[m] > Local
    /\ LatestCommitIsDifferent(trackBranch[m][d], Changed(m, d))
    /\ HasNonStubsabotCommits(trackBranch[m][d], trackLanded[m], Changed(m, d))

GoesOnToPush(m, d) ==
    /\ Commits(m, d)
    /\ level[m] > Local
    /\ LatestCommitIsDifferent(trackBranch[m][d], Changed(m, d))
    /\ ~HasNonStubsabotCommits(trackBranch[m][d], trackLanded[m], Changed(m, d))
    /\ Goto(m, "push")
    /\ cur' = [cur EXCEPT ![m] = d]
    /\ commit' = [commit EXCEPT ![m] = Changed(m, d)]
    /\ UNCHANGED result

----------------------------------------------------------------------------
(***************************************************************************)
(* git push --force.  It overwrites whatever the branch is by now; when    *)
(* git reports success it has also moved origin/stubsabot/<dist>.  Another *)
(* edit takes the place of a declined one; the same edit does not.         *)
(***************************************************************************)
Pushed(m) ==
    /\ branch' = [branch EXCEPT ![cur[m]] = <<BotCommit(commit[m])>>]
    /\ owed' = owed \cup {cur[m]}
    /\ declined' = {e \in declined : e.dist = cur[m] => commit[m] = {e}}

\* the proposal for cur[m] is done with and the loop goes on
Returns(m) ==
    /\ Goto(m, "loop")
    /\ Handle(m, cur[m])
    /\ cur' = [cur EXCEPT ![m] = None]
    /\ commit' = [commit EXCEPT ![m] = {}]

PushReturnsAtFork(m) ==
    /\ pc[m] = "push"
    /\ level[m] <= Fork
    /\ Pushed(m)
    /\ trackBranch' = [trackBranch EXCEPT ![m][cur[m]] = branch'[cur[m]]]
    /\ Returns(m)
    /\ UNCHANGED <<main, landed, pr, pypi, head, tree, dirty, trackMain, trackLanded,
                   level, limit, original, count, found>>

PushIgnoringFork(m) ==
    /\ pc[m] = "push"
    /\ Pushed(m)
    /\ trackBranch' = [trackBranch EXCEPT ![m][cur[m]] = branch'[cur[m]]]
    /\ Goto(m, "post")
    /\ UNCHANGED <<main, landed, pr, pypi, head, tree, dirty, trackMain, trackLanded,
                   level, limit, original, count, result, cur, commit, found>>

Push(m) ==
    /\ pc[m] = "push"
    /\ level[m] > Fork
    /\ Pushed(m)
    /\ trackBranch' = [trackBranch EXCEPT ![m][cur[m]] = branch'[cur[m]]]
    /\ Goto(m, "post")
    /\ UNCHANGED <<main, landed, pr, pypi, head, tree, dirty, trackMain, trackLanded,
                   level, limit, original, count, result, cur, commit, found>>

\* an exception leaves the loop
Raises(m) ==
    /\ Goto(m, "finally")
    /\ UNCHANGED <<clone, level, limit, original, count, result, cur, commit, found>>

PushFails(m) ==
    /\ "push" \in Failures
    /\ pc[m] = "push"
    /\ Pushed(m) \/ UNCHANGED <<branch, history>>   \* the connection drops after or before
    /\ Raises(m)
    /\ UNCHANGED <<main, landed, pr, pypi>>

----------------------------------------------------------------------------
(***************************************************************************)
(* create_or_update_pull_request: POST; if GitHub answers that an open     *)
(* pull request exists, GET it and PATCH its title and body.  GitHub also  *)
(* answers 422, without that message, when the branch is gone.  A title    *)
(* and body are represented by the edit they are about.                    *)
(***************************************************************************)
Title(m) == {Proposed(m, cur[m])}

IsOpen(d) == pr[d].state = "open"

Created(m) ==
    /\ ~IsOpen(cur[m])
    /\ branch[cur[m]] # << >>
    /\ pr' = [pr EXCEPT ![cur[m]] = [state |-> "open", number |-> @.number + 1, title |-> Title(m)]]
    /\ owed' = owed \ {cur[m]}

PostCreates(m) ==
    /\ pc[m] = "post"
    /\ Created(m)
    /\ Returns(m)
    /\ UNCHANGED <<main, landed, branch, pypi, clone, level, limit, original, count, found, declined>>

ExistingPrIgnored(m) ==
    /\ pc[m] = "post"
    /\ IsOpen(cur[m])
    /\ owed' = owed \ {cur[m]}
    /\ Returns(m)
    /\ UNCHANGED <<world, clone, level, limit, original, count, found, declined>>

PostFindsExisting(m) ==
    /\ pc[m] = "post"
    /\ IsOpen(cur[m])
    /\ Goto(m, "find")
    /\ UNCHANGED <<world, clone, history, level, limit, original, count, result, cur, commit, found>>

PostRejected(m) ==
    /\ pc[m] = "post"
    /\ ~IsOpen(cur[m])
    /\ branch[cur[m]] = << >>
    /\ Raises(m)
    /\ UNCHANGED <<world, history>>

PostFails(m) ==
    /\ "api" \in Failures
    /\ pc[m] = "post"
    /\ Created(m) \/ UNCHANGED <<pr, owed>>
    /\ Raises(m)
    /\ UNCHANGED <<main, landed, branch, pypi, declined>>

GetFinds(m) ==
    /\ pc[m] = "find"
    /\ IsOpen(cur[m])
    /\ found' = [found EXCEPT ![m] = pr[cur[m]].number]
    /\ Goto(m, "patch")
    /\ UNCHANGED <<world, clone, history, level, limit, original, count, result, cur, commit>>

\* assert len(resp_json) >= 1, or the request fails
GetFails(m) ==
    /\ pc[m] = "find"
    /\ ~IsOpen(cur[m]) \/ "api" \in Failures
    /\ Raises(m)
    /\ UNCHANGED <<world, history>>

PatchPostsAgain(m) ==
    /\ pc[m] = "patch"
    /\ pr' = [pr EXCEPT ![cur[m]].title = Title(m)]
    /\ owed' = owed \ {cur[m]}
    /\ Goto(m, "post")
    /\ found' = [found EXCEPT ![m] = 0]
    /\ UNCHANGED <<main, landed, branch, pypi, clone, level, limit, original, count, result, cur, commit, declined>>

\* by number: a pull request that was closed meanwhile is patched too
Patch(m) ==
    /\ pc[m] = "patch"
    /\ IF found[m] = pr[cur[m]].number
       THEN /\ pr' = [pr EXCEPT ![cur[m]].title = Title(m)]
            /\ owed' = owed \ {cur[m]}
       ELSE UNCHANGED <<pr, owed>>
    /\ Returns(m)
    /\ found' = [found EXCEPT ![m] = 0]
    /\ UNCHANGED <<main, landed, branch, pypi, clone, level, limit, original, count, declined>>

PatchFails(m) ==
    /\ "api" \in Failures
    /\ pc[m] = "patch"
    /\ Raises(m)
    /\ UNCHANGED <<world, history>>

----------------------------------------------------------------------------
(***************************************************************************)
(* The end of a run.                                                       *)
(***************************************************************************)
LoopEnds(m) ==
    /\ pc[m] = "loop"
    /\ \A d \in Dist : result[m][d].kind \in {"no_update", "handled"}
    /\ Goto(m, "finally")
    /\ UNCHANGED <<world, clone, history, level, limit, original, count, result, cur, commit, found>>

Over(m) ==
    /\ Goto(m, IF m \in Disposable THEN "gone" ELSE "off")
    /\ level' = [level EXCEPT ![m] = Nothing]
    /\ limit' = [limit EXCEPT ![m] = 0]
    /\ original' = [original EXCEPT ![m] = None]
    /\ count' = [count EXCEPT ![m] = 0]
    /\ result' = [result EXCEPT ![m] = [d \in Dist |-> Pending]]
    /\ cur' = [cur EXCEPT ![m] = None]
    /\ commit' = [commit EXCEPT ![m] = {}]
    /\ found' = [found EXCEPT ![m] = 0]

(***************************************************************************)
(* finally: git checkout original_branch, which git refuses if a file with *)
(* uncommitted changes differs between the two branches; the clone then    *)
(* stays on the bot's branch, which has no commit of its own.              *)
(***************************************************************************)
CanCheckout(m) == \A e \in dirty[m] : tree[m][e.dist] = trackMain[m][e.dist]

NoFinally(m) ==
    /\ pc[m] = "finally"
    /\ Over(m)
    /\ UNCHANGED <<world, clone, history>>

Finally(m) ==
    /\ pc[m] = "finally"
    /\ Over(m)
    /\ IF level[m] < Local
       THEN UNCHANGED <<head, tree>>
       ELSE IF CanCheckout(m)
       THEN /\ head' = [head EXCEPT ![m] = original[m]]
            /\ UNCHANGED tree
       ELSE /\ tree' = [tree EXCEPT ![m] = trackMain[m]]
            /\ UNCHANGED head
    /\ UNCHANGED <<world, history, dirty, trackMain, trackLanded, trackBranch>>

\* the runner is lost in the middle of a run
Crash(m) ==
    /\ "crash" \in Failures
    /\ m \in Disposable
    /\ pc[m] \in Running
    /\ Over(m)
    /\ UNCHANGED <<world, clone, history>>

----------------------------------------------------------------------------
(***************************************************************************)
(* What happens around the bot: releases on PyPI, and people on GitHub.    *)
(***************************************************************************)
StubEdit(d) == [dist |-> d, kind |-> "stub", version |-> 0, notes |-> 0]

PatchOf(commits) == UNION {commits[i].edits : i \in 1..Len(commits)}

ByHand(act) ==
    /\ act \in EnvActs
    /\ UNCHANGED <<clone, run>>

\* a release with or without py.typed
Release(d) ==
    /\ ByHand("release")
    /\ pypi[d].latest < MaxVersion
    /\ \E since \in {0, IF pypi[d].typed_since = 0 THEN pypi[d].latest + 1
                        ELSE pypi[d].typed_since} :
          pypi' = [pypi EXCEPT ![d].latest = @ + 1, ![d].typed_since = since]
    /\ UNCHANGED <<main, landed, branch, pr, history>>

\* upstream tags the release on GitHub or edits its links on PyPI
Annotate(d) ==
    /\ ByHand("annotate")
    /\ pypi[d].notes < MaxNotes
    /\ pypi' = [pypi EXCEPT ![d].notes = @ + 1]
    /\ UNCHANGED <<main, landed, branch, pr, history>>

\* squash-merge; GitHub refuses a pull request that changes a line main changed meanwhile
MergePr(d) ==
    /\ ByHand("merge")
    /\ IsOpen(d)
    /\ pr[d].number < MaxPrs
    /\ \A e \in PatchOf(branch[d]) :
          /\ e.kind = "update" => main[d].version = e.old.version
          /\ e.kind = "obsolete" => main[d].obsolete_since = e.old.obsolete_since
    /\ main' = Patched(main, PatchOf(branch[d]))
    /\ landed' = landed \cup {PatchOf(branch[d])}
    /\ pr' = [pr EXCEPT ![d].state = "merged"]
    /\ owed' = owed \ {d}
    /\ UNCHANGED <<branch, pypi, declined>>

\* a proposal counts as declined if it is what the branch holds and no run
\* that has just pushed it is about to open a pull request for it
ClosePr(d) ==
    /\ ByHand("close")
    /\ IsOpen(d)
    /\ pr[d].number < MaxPrs
    /\ pr' = [pr EXCEPT ![d].state = "closed"]
    /\ declined' = IF branch[d] = <<BotCommit(pr[d].title)>> /\ d \notin owed
                   THEN declined \cup pr[d].title ELSE declined
    /\ UNCHANGED <<main, landed, branch, pypi, owed>>

\* GitHub reopens a pull request only if its branch was not force-pushed
ReopenPr(d) ==
    /\ ByHand("reopen")
    /\ pr[d].state = "closed"
    /\ branch[d] # << >>
    /\ branch[d][1].edits = pr[d].title
    /\ pr' = [pr EXCEPT ![d].state = "open"]
    /\ declined' = declined \ pr[d].title
    /\ UNCHANGED <<main, landed, branch, pypi, owed>>

\* deleting a branch closes its pull request
DeleteBranch(d) ==
    /\ ByHand("delete")
    /\ branch[d] # << >>
    /\ IsOpen(d) => pr[d].number < MaxPrs
    /\ branch' = [branch EXCEPT ![d] = << >>]
    /\ pr' = [pr EXCEPT ![d].state = IF IsOpen(d) THEN "closed" ELSE @]
    /\ declined' = {e \in declined : e.dist # d}
    /\ owed' = owed \ {d}
    /\ UNCHANGED <<main, landed, pypi>>

StubsUntouched(d) == StubEdit(d) \notin PatchOf(branch[d]) \cup UNION landed

\* a person adds a commit to the bot's branch
HumanCommit(d) ==
    /\ ByHand("commit")
    /\ branch[d] # << >>
    /\ StubsUntouched(d)
    /\ branch' = [branch EXCEPT ![d] = Append(@, [author |-> "human", edits |-> {StubEdit(d)}])]
    /\ declined' = {e \in declined : e.dist # d}
    /\ UNCHANGED <<main, landed, pr, pypi, owed>>

\* git commit --amend keeps the author
HumanAmend(d) ==
    /\ ByHand("amend")
    /\ branch[d] # << >>
    /\ StubsUntouched(d)
    /\ branch' = [branch EXCEPT ![d][Len(branch[d])].edits = @ \cup {StubEdit(d)}]
    /\ declined' = {e \in declined : e.dist # d}
    /\ UNCHANGED <<main, landed, pr, pypi, owed>>

\* a person's own change of the stubs, the version or obsolete_since
HandMade(d) ==
    LET Edited(kind, version) ==
            EditOf(d, [kind |-> kind, version |-> version, notes |-> 0], main[d], main[d])
    IN  {StubEdit(d)}
        \cup {Edited("update", v) : v \in (main[d].version + 1)..pypi[d].latest}
        \cup {Edited("obsolete", v) :
                 v \in {u \in {pypi[d].typed_since} : u # 0 /\ main[d].obsolete_since = 0}}

\* it reaches main
HumanLands(d) ==
    /\ ByHand("land")
    /\ \E e \in HandMade(d) :
          /\ {e} \notin landed
          /\ main' = Patched(main, {e})
          /\ landed' = landed \cup {{e}}
    /\ UNCHANGED <<branch, pr, pypi, history>>

----------------------------------------------------------------------------
TaskStep(m) == \E d \in Dist : TaskReturns(m, d) \/ TaskFails(m, d)

LoopStep(m) ==
    \/ \E d \in Dist :
          \/ TaskRaises(m, d) \/ OverLimit(m, d) \/ DryRun(m, d)
          \/ EmptyCommit(m, d) \/ CommitFails(m, d)
          \/ StopsLocally(m, d) \/ RequiresNoChanges(m, d)
          \/ RemoteConflict(m, d) \/ GoesOnToPush(m, d)
    \/ LoopEnds(m)

GithubStep(m) ==
    \/ PushReturnsAtFork(m) \/ Push(m) \/ PushFails(m)
    \/ PostCreates(m) \/ PostFindsExisting(m) \/ PostRejected(m) \/ PostFails(m)
    \/ GetFinds(m) \/ GetFails(m) \/ Patch(m) \/ PatchFails(m)

RunStep(m) == TaskStep(m) \/ LoopStep(m) \/ GithubStep(m) \/ Finally(m)

Starts(m) == \E lv \in Levels, lim \in Limits : Begin(m, lv, lim)

EnvStep(d) ==
    \/ Release(d) \/ Annotate(d) \/ MergePr(d) \/ ClosePr(d) \/ ReopenPr(d) \/ DeleteBranch(d)
    \/ HumanCommit(d) \/ HumanAmend(d) \/ HumanLands(d)

Next ==
    \/ \E m \in Machine : Checkout(m) \/ Starts(m) \/ RunStep(m) \/ Crash(m)
    \/ \E d \in Dist : EnvStep(d)

(***************************************************************************)
(* A run goes on as long as it can: every HTTP request has aiohttp's total *)
(* timeout, a git command ends, and GitHub ends a job that does not.  The  *)
(* schedule of the workflow starts runs again and again.  People, PyPI,    *)
(* failures and crashes owe nothing.                                       *)
(***************************************************************************)
Fairness ==
    \A m \in Machine :
        /\ WF_vars(RunStep(m))
        /\ WF_vars(pc[m] = "gone" /\ Checkout(m))
        /\ WF_vars(Starts(m))

Spec == Init /\ [][Next]_vars /\ Fairness

----------------------------------------------------------------------------
(***************************************************************************)
(* What a run knows at each of its labels, for the proofs: while a         *)
(* proposal is being made its distribution and result are at hand, and     *)
(* the state of a run is reset when it is over.                            *)
(***************************************************************************)
Proposing == {"push", "post", "find", "patch"}

InProgress ==
    \A m \in Machine : pc[m] \in Proposing =>
        cur[m] \in Dist /\ result[m][cur[m]].kind \in ProposalKinds

Idle ==
    \A m \in Machine : pc[m] \notin Running =>
        count[m] = 0 /\ commit[m] = {} /\ \A d \in Dist : result[m][d] = Pending

TypeInv == TypeOK /\ InProgress /\ Idle

(***************************************************************************)
(* A commit of the bot, on GitHub or about to be pushed there, changes the *)
(* distribution its branch is named for and no other: `git commit --all'   *)
(* never picks up what an earlier, failed run left in the worktree.        *)
(***************************************************************************)
OneDistributionPerCommit ==
    /\ \A d \in Dist : \A i \in 1..Len(branch[d]) : \A e \in branch[d][i].edits : e.dist = d
    /\ \A m \in Machine : \A e \in commit[m] : e.dist = cur[m]

(***************************************************************************)
(* A clone in which no run is in progress is on the branch it was on       *)
(* before, or holds the uncommitted change of a commit that failed.        *)
(***************************************************************************)
OriginalBranchRestored ==
    \A m \in Machine : pc[m] = "off" /\ head[m] # None => dirty[m] # {}

(***************************************************************************)
(* determine_action reads METADATA.toml from the branch the run starts     *)
(* from; the proposal is applied to origin/main.  Where the two agree, the *)
(* commit is never empty, so the run is not ended by `git commit'.         *)
(***************************************************************************)
ProposalChangesMetadata ==
    \A m \in Machine, d \in Dist :
        AtResult(m, d, ProposalKinds) /\ level[m] > Nothing /\ tree[m][d] = trackMain[m][d]
            => ApplyEdit(trackMain[m][d], Proposed(m, d)) # trackMain[m][d]

(***************************************************************************)
(* A force push loses no commit a person had pushed to the branch before   *)
(* the run fetched, unless its patch is on main.                           *)
(***************************************************************************)
HumanPatches(commits) ==
    {commits[i].edits : i \in {j \in 1..Len(commits) : commits[j].author = "human"}}

HumanCommitsSurvive ==
    [][\A m \in Machine, d \in Dist :
        pc[m] = "push" /\ cur[m] = d /\ branch'[d] # branch[d]
            => HumanPatches(branch[d]) \cap HumanPatches(trackBranch[m][d])
                  \subseteq HumanPatches(branch'[d]) \cup landed' \cup {commit[m]}]_vars

(***************************************************************************)
(* The docs of ActionLevel: `nothing' makes no changes, `local' changes    *)
(* only the clone, `fork' also the branches, and only `everything' opens   *)
(* or edits pull requests.  main is never changed by a run.                *)
(***************************************************************************)
ActionLevelsHonoured ==
    [][\A m \in Machine : RunStep(m) =>
        /\ UNCHANGED <<main, landed, pypi>>
        /\ level[m] <= Nothing => UNCHANGED clone
        /\ level[m] <= Local => UNCHANGED branch
        /\ level[m] <= Fork => UNCHANGED pr]_vars

(***************************************************************************)
(* While the branch of a declined proposal holds what the bot pushed, no   *)
(* later run opens another pull request for the same change of the same    *)
(* METADATA.toml with the same message.  (The text of a pull request asks  *)
(* to leave it open lest the bot open another: it does so when main's      *)
(* METADATA.toml or the message changes, or the branch is deleted.)        *)
(***************************************************************************)
DeclinedNotReopened ==
    [][\A d \in Dist :
        pr'[d].number # pr[d].number => pr'[d].title \cap declined = {}]_vars

(***************************************************************************)
(* Between runs, the title of an open pull request names the proposal its  *)
(* branch holds, unless a run was stopped between the push and the call    *)
(* that updates the pull request.                                          *)
(***************************************************************************)
PrDescribesBranch ==
    (\A m \in Machine : pc[m] \notin Running) =>
        \A d \in Dist : IsOpen(d) /\ d \notin owed =>
            branch[d] # << >> /\ pr[d].title \subseteq branch[d][1].edits

(***************************************************************************)
(* The facts that make the properties above inductive: while a run that    *)
(* may write is in its loop the worktree is clean; it started from a       *)
(* branch that is not the bot's; a label is reached only at the levels     *)
(* that allow it; what the clone takes to be on main is; a push that has   *)
(* been decided on overwrites no commit of a person that is visible in the *)
(* clone; and a proposal says something METADATA.toml does not.            *)
(***************************************************************************)
CleanWorktree ==
    \A m \in Machine : pc[m] \in Awaiting \cup {"push"} /\ level[m] > Nothing => dirty[m] = {}

OriginalKnown ==
    \A m \in Machine : pc[m] \in Running =>
        IF level[m] > Nothing THEN original[m] = None ELSE head[m] # None => dirty[m] # {}

LevelAtLabel ==
    \A m \in Machine :
        /\ pc[m] = "push" => level[m] > Local
        /\ pc[m] \in {"post", "find", "patch"} => level[m] > Fork

PushIsSafe ==
    \A m \in Machine :
        /\ trackLanded[m] \subseteq landed
        /\ pc[m] = "push" =>
              \A i \in 1..Len(trackBranch[m][cur[m]]) :
                  trackBranch[m][cur[m]][i].author = "human"
                      => trackBranch[m][cur[m]][i].edits \in landed \cup {commit[m]}

ResultIsNews ==
    \A m \in Machine, d \in Dist :
        pc[m] \in Awaiting \cup {"push"} /\ level[m] > Nothing =>
            /\ result[m][d].kind = "update" => result[m][d].version # tree[m][d].version
            /\ result[m][d].kind = "obsolete" => tree[m][d].obsolete_since = 0

(***************************************************************************)
(* When a run at level `everything' decides that "No PR required:          *)
(* origin/... exists and requires no changes!", the pull request for the   *)
(* branch has been opened or updated since it was pushed.                  *)
(***************************************************************************)
NoPrRequired ==
    [][\A m \in Machine, d \in Dist :
        RequiresNoChanges(m, d) /\ level[m] = Everything => d \notin owed]_vars

\* Every run ends.
RunEnds == \A m \in Machine : pc[m] \in Running ~> pc[m] \notin Running

(***************************************************************************)
(* A distribution that is behind PyPI gets a pull request that says so,    *)
(* unless a person declined it or works on the bot's branch.               *)
(***************************************************************************)
Proposal(d) == DetermineAction(d, main[d], pypi[d])

Answered(d) ==
    \/ Proposal(d).kind \notin ProposalKinds
    \/ IsOpen(d) /\ pr[d].title = {EditOf(d, Proposal(d), main[d], main[d])}
    \/ EditOf(d, Proposal(d), main[d], main[d]) \in declined
    \/ HumanPatches(branch[d]) \ landed # {}

ReleaseProposed == \A d \in Dist : []<>Answered(d)
=============================================================================
