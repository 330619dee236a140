-------------------------- MODULE StubsabotProofs --------------------------
(***************************************************************************)
(* Theorems about Stubsabot, for every set of distributions and machines,  *)
(* every bound, every choice of levels, failures and environment actions.  *)
(***************************************************************************)
EXTENDS Stubsabot, TLAPS

(***************************************************************************)
(* determine_action returns a value of the type main() dispatches on, and  *)
(* a proposal carries a version.                                           *)
(***************************************************************************)
LEMMA DetermineActionType ==
    ASSUME NEW d \in Dist, NEW meta \in Meta, NEW page \in Pypi
    PROVE  DetermineAction(d, meta, page) \in Result
BY DEF DetermineAction, Result, Meta, Pypi, Version, ProposalKinds, NoUpdate, Raised, WalkRunsOut

(***************************************************************************)
(* A tree stays well-formed under any patch.                               *)
(***************************************************************************)
LEMMA PatchedType ==
    ASSUME NEW t \in [Dist -> Meta], NEW edits \in SUBSET Edit
    PROVE  Patched(t, edits) \in [Dist -> Meta]
<1> SUFFICES ASSUME NEW d \in Dist
             PROVE  Patched(t, edits)[d] \in Meta
    BY DEF Patched
<1> DEFINE of(kind) == {e \in edits : e.dist = d /\ e.kind = kind}
<1>1. of("update") # {} => (CHOOSE e \in of("update") : TRUE).version \in Version
    BY DEF Edit, ProposalKinds
<1>2. of("obsolete") # {} => (CHOOSE e \in of("obsolete") : TRUE).version \in 0..MaxVersion
    BY DataAssumption DEF Edit, ProposalKinds, Version
<1>3. QED
    BY <1>1, <1>2 DEF Patched, Meta

(***************************************************************************)
(* The proposal made from a result is an edit of its distribution.         *)
(***************************************************************************)
LEMMA EditOfType ==
    ASSUME NEW d \in Dist, NEW kind \in ProposalKinds, NEW v \in Version, NEW n \in Notes,
           NEW res, res.kind = kind, res.version = v, res.notes = n,
           NEW read \in Meta, NEW old \in Meta
    PROVE  /\ EditOf(d, res, read, old) \in Edit
           /\ EditOf(d, res, read, old).dist = d /\ EditOf(d, res, read, old).kind = kind
<1>1. read.version \in Version
    BY DEF Meta
<1>2. QED
    BY <1>1 DEF EditOf, Edit

LEMMA ProposedType ==
    ASSUME TypeOK, NEW m \in Machine, NEW d \in Dist, result[m][d].kind \in ProposalKinds
    PROVE  /\ Proposed(m, d) \in Edit
           /\ Proposed(m, d).dist = d /\ Proposed(m, d).kind \in ProposalKinds
<1>1. tree[m][d] \in Meta /\ trackMain[m][d] \in Meta /\ result[m][d] \in Result
    BY DEF TypeOK, CloneType, RunType
<1>2. result[m][d].version \in Version /\ result[m][d].notes \in Notes
    BY <1>1 DEF Result, ProposalKinds
<1>3. QED
    BY <1>1, <1>2, EditOfType DEF Proposed

----------------------------------------------------------------------------
(***************************************************************************)
(* Type correctness, with what a run knows at each of its labels.          *)
(***************************************************************************)
LEMMA TypeInit == Init => TypeInv
<1> SUFFICES ASSUME Init PROVE TypeInv
    OBVIOUS
<1>1. WorldType /\ CloneType /\ HistoryType
    BY DataAssumption, StubsabotAssumption
    DEF Init, WorldType, CloneType, HistoryType, Meta, Pypi, Pr, Version, Notes, Branch
<1>2. RunType
    BY DEF Init, RunType, Result, Pending, Branch, Running, Nothing, Everything
<1>3. InProgress /\ Idle
    BY DEF Init, InProgress, Idle, Proposing, Running
<1>4. QED
    BY <1>1, <1>2, <1>3 DEF TypeInv, TypeOK

LEMMA TypeStarts ==
    ASSUME TypeInv, NEW m \in Machine, Starts(m)
    PROVE  TypeInv'
<1> USE DEF TypeInv, TypeOK
<1>1. PICK lv \in Levels, lim \in Limits : Begin(m, lv, lim)
    BY DEF Starts
<1>2. WorldType' /\ HistoryType'
    BY <1>1 DEF Begin, world, history, WorldType, HistoryType
<1>3. CloneType'
  <2>1. CASE lv >= Fork
    <3>1. /\ trackMain' = [trackMain EXCEPT ![m] = main]
          /\ trackLanded' = [trackLanded EXCEPT ![m] = landed]
          /\ trackBranch' = [trackBranch EXCEPT ![m] = branch]
          /\ UNCHANGED <<head, tree, dirty>>
      BY <1>1, <2>1 DEF Begin
    <3>2. QED
      BY <3>1 DEF CloneType, WorldType
  <2>2. CASE ~(lv >= Fork)
    BY <1>1, <2>2 DEF Begin, CloneType
  <2>3. QED
    BY <2>1, <2>2
<1>4. RunType'
  <2>1. /\ pc[m] = "off"
        /\ pc' = [pc EXCEPT ![m] = "loop"]
        /\ level' = [level EXCEPT ![m] = lv]
        /\ limit' = [limit EXCEPT ![m] = lim]
        /\ original' = [original EXCEPT ![m] = head[m]]
        /\ UNCHANGED <<count, result, cur, commit, found>>
    BY <1>1 DEF Begin
  <2>2. lv \in Nothing..Everything /\ lim \in Nat
    BY StubsabotAssumption
  <2>3. count[m] = 0
    BY <2>1 DEF Idle, Running
  <2>4. QED
    BY <2>1, <2>2, <2>3 DEF RunType, CloneType, Running
<1>5. InProgress' /\ Idle'
    BY <1>1 DEF Begin, RunType, InProgress, Idle, Running, Proposing
<1>6. QED
    BY <1>2, <1>3, <1>4, <1>5

LEMMA TypeCheckout ==
    ASSUME TypeInv, NEW m \in Machine, Checkout(m)
    PROVE  TypeInv'
<1> USE DEF TypeInv, TypeOK, Checkout
<1>1. WorldType' /\ HistoryType'
    BY DEF world, history, WorldType, HistoryType
<1>2. CloneType'
    BY DEF CloneType, WorldType, Branch
<1>3. RunType'
    BY DEF RunType, Running
<1>4. InProgress' /\ Idle'
    BY DEF RunType, InProgress, Idle, Running, Proposing
<1>5. QED
    BY <1>1, <1>2, <1>3, <1>4

LEMMA TypeTask ==
    ASSUME TypeInv, NEW m \in Machine, TaskStep(m)
    PROVE  TypeInv'
<1> USE DEF TypeInv, TypeOK
<1>1. PICK d \in Dist, res \in Result : TaskEnds(m, d, res)
  <2>1. PICK d \in Dist : TaskReturns(m, d) \/ TaskFails(m, d)
    BY DEF TaskStep
  <2>2. CASE TaskReturns(m, d)
    <3>1. Patched(tree[m], dirty[m])[d] \in Meta
      <4>1. tree[m] \in [Dist -> Meta] /\ dirty[m] \in SUBSET Edit
        BY DEF CloneType
      <4>2. Patched(tree[m], dirty[m]) \in [Dist -> Meta]
        BY <4>1, PatchedType
      <4>3. QED
        BY <4>2
    <3>2. DetermineAction(d, Patched(tree[m], dirty[m])[d], pypi[d]) \in Result
      BY <3>1, DetermineActionType DEF WorldType
    <3>3. QED
      BY <2>2, <3>2 DEF TaskReturns
  <2>3. CASE TaskFails(m, d)
    BY <2>3 DEF TaskFails, Raised, Result
  <2>4. QED
    BY <2>1, <2>2, <2>3
<1>2. WorldType' /\ HistoryType' /\ CloneType'
    BY <1>1 DEF TaskEnds, world, history, clone, WorldType, HistoryType, CloneType
<1>3. RunType'
    BY <1>1 DEF TaskEnds, RunType
<1>4. InProgress'
    BY <1>1 DEF TaskEnds, RunType, InProgress, Pending, ProposalKinds, Proposing
<1>5. Idle'
    BY <1>1 DEF TaskEnds, RunType, Idle, Running, Awaiting
<1>6. QED
    BY <1>2, <1>3, <1>4, <1>5

(***************************************************************************)
(* What the worktree holds when git commit is called is a set of edits.    *)
(***************************************************************************)
LEMMA ChangedType ==
    ASSUME TypeInv, NEW m \in Machine, NEW d \in Dist, AtResult(m, d, ProposalKinds)
    PROVE  Changed(m, d) \in SUBSET Edit
BY ProposedType DEF TypeInv, TypeOK, AtResult, Changed, CloneType

LEMMA TypeLoop ==
    ASSUME TypeInv, NEW m \in Machine, LoopStep(m)
    PROVE  TypeInv'
<1> USE DEF TypeInv, TypeOK
<1> DEFINE Parts == WorldType' /\ HistoryType' /\ CloneType' /\ RunType' /\ InProgress' /\ Idle'
<1>1. ASSUME NEW d \in Dist, TaskRaises(m, d) PROVE Parts
  <2> USE <1>1 DEF TaskRaises, AtResult, Goto
  <2>1. WorldType' /\ HistoryType' /\ CloneType'
    BY DEF world, history, clone, WorldType, HistoryType, CloneType
  <2>2. RunType' /\ InProgress' /\ Idle'
    BY DEF RunType, InProgress, Idle, Running, Proposing
  <2>3. QED
    BY <2>1, <2>2
<1>2. ASSUME NEW d \in Dist, OverLimit(m, d) PROVE Parts
  <2> USE <1>2 DEF OverLimit, AtResult, Handle
  <2>1. WorldType' /\ HistoryType' /\ CloneType'
    BY DEF world, history, clone, WorldType, HistoryType, CloneType
  <2>2. RunType'
    BY DEF RunType, Handled, Result
  <2>3. InProgress' /\ Idle'
    BY DEF RunType, InProgress, Idle, Running, Proposing
  <2>4. QED
    BY <2>1, <2>2, <2>3
<1>3. ASSUME NEW d \in Dist, DryRun(m, d) PROVE Parts
  <2> USE <1>3 DEF DryRun, StartsAction, AtResult, Handle
  <2>1. WorldType' /\ HistoryType' /\ CloneType'
    BY DEF world, history, clone, WorldType, HistoryType, CloneType
  <2>2. RunType'
    BY DEF RunType, Handled, Result, LimitReached
  <2>3. InProgress' /\ Idle'
    BY DEF RunType, InProgress, Idle, Running, Proposing
  <2>4. QED
    BY <2>1, <2>2, <2>3
<1>4. ASSUME NEW d \in Dist, EmptyCommit(m, d) PROVE Parts
  <2> USE <1>4 DEF EmptyCommit, OnNewBranch, StartsAction, AtResult, Goto
  <2>1. WorldType' /\ HistoryType' /\ CloneType'
    BY DEF world, history, WorldType, HistoryType, CloneType, Branch
  <2>2. RunType'
    BY DEF RunType, LimitReached, Running
  <2>3. InProgress' /\ Idle'
    BY DEF RunType, InProgress, Idle, Running, Proposing
  <2>4. QED
    BY <2>1, <2>2, <2>3
<1>5. ASSUME NEW d \in Dist, CommitFails(m, d) PROVE Parts
  <2> USE <1>5 DEF CommitFails, OnNewBranch, StartsAction, AtResult, Goto
  <2>1. Changed(m, d) \in SUBSET Edit
    BY ChangedType
  <2>2. WorldType' /\ HistoryType' /\ CloneType'
    BY <2>1 DEF world, history, WorldType, HistoryType, CloneType, Branch
  <2>3. RunType'
    BY DEF RunType, LimitReached, Running
  <2>4. InProgress' /\ Idle'
    BY DEF RunType, InProgress, Idle, Running, Proposing
  <2>5. QED
    BY <2>2, <2>3, <2>4
<1>6. ASSUME NEW d \in Dist, CommitsOnly(m, d) PROVE Parts
  <2> USE <1>6 DEF CommitsOnly, Commits, OnNewBranch, StartsAction, AtResult, Handle
  <2>1. WorldType' /\ HistoryType' /\ CloneType'
    BY DEF world, history, WorldType, HistoryType, CloneType, Branch
  <2>2. RunType'
    BY DEF RunType, Handled, Result, LimitReached
  <2>3. InProgress' /\ Idle'
    BY DEF RunType, InProgress, Idle, Running, Proposing
  <2>4. QED
    BY <2>1, <2>2, <2>3
<1>7. ASSUME NEW d \in Dist, GoesOnToPush(m, d) PROVE Parts
  <2> USE <1>7 DEF GoesOnToPush, Commits, OnNewBranch, StartsAction, AtResult, Goto
  <2>1. Changed(m, d) \in SUBSET Edit
    BY ChangedType
  <2>2. WorldType' /\ HistoryType' /\ CloneType'
    BY DEF world, history, WorldType, HistoryType, CloneType, Branch
  <2>3. RunType'
    BY <2>1 DEF RunType, LimitReached, Branch, Running
  <2>4. InProgress' /\ Idle'
    BY DEF RunType, InProgress, Idle, Running, Proposing
  <2>5. QED
    BY <2>2, <2>3, <2>4
<1>8. CASE LoopEnds(m)
  <2> USE <1>8 DEF LoopEnds, Goto
  <2>1. WorldType' /\ HistoryType' /\ CloneType'
    BY DEF world, history, clone, WorldType, HistoryType, CloneType
  <2>2. RunType' /\ InProgress' /\ Idle'
    BY DEF RunType, InProgress, Idle, Running, Proposing
  <2>3. QED
    BY <2>1, <2>2
<1>9. QED
    BY <1>1, <1>2, <1>3, <1>4, <1>5, <1>6, <1>7, <1>8
    DEF LoopStep, StopsLocally, RequiresNoChanges, RemoteConflict

(***************************************************************************)
(* While a proposal is being made, its title is an edit.                   *)
(***************************************************************************)
LEMMA CurType ==
    ASSUME TypeInv, NEW m \in Machine, pc[m] \in Proposing
    PROVE  /\ cur[m] \in Dist
           /\ Title(m) \in SUBSET Edit
           /\ <<BotCommit(commit[m])>> \in Seq(Commit)
<1> USE DEF TypeInv, TypeOK
<1>1. cur[m] \in Dist /\ result[m][cur[m]] \in Result /\ result[m][cur[m]].kind \in ProposalKinds
    BY DEF InProgress, RunType
<1>2. Title(m) \in SUBSET Edit
    BY <1>1, ProposedType DEF Title
<1>3. BotCommit(commit[m]) \in Commit
    BY DEF BotCommit, Commit, RunType
<1>4. QED
    BY <1>1, <1>2, <1>3

LEMMA TypeReturns ==
    ASSUME TypeInv, NEW m \in Machine, pc[m] \in Proposing, Returns(m),
           UNCHANGED <<level, limit, original, count>>,
           found' \in [Machine -> Nat]
    PROVE  RunType' /\ InProgress' /\ Idle'
<1> USE DEF TypeInv, TypeOK, Returns, Goto, Handle
<1>1. cur[m] \in Dist
    BY CurType
<1>2. RunType'
    BY <1>1 DEF RunType, Handled, Result, Branch, Running
<1>3. InProgress' /\ Idle'
    BY DEF RunType, InProgress, Idle, Running, Proposing
<1>4. QED
    BY <1>2, <1>3

LEMMA TypeRaises ==
    ASSUME TypeInv, NEW m \in Machine, pc[m] \in Proposing, Raises(m)
    PROVE  CloneType' /\ RunType' /\ InProgress' /\ Idle'
<1> USE DEF TypeInv, TypeOK, Raises, Goto
<1>1. CloneType'
    BY DEF clone, CloneType
<1>2. RunType' /\ InProgress' /\ Idle'
    BY DEF RunType, InProgress, Idle, Running, Proposing
<1>3. QED
    BY <1>1, <1>2

LEMMA TypeGithub ==
    ASSUME TypeInv, NEW m \in Machine, GithubStep(m)
    PROVE  TypeInv'
<1> USE DEF TypeInv, TypeOK
<1> DEFINE Parts == WorldType' /\ HistoryType' /\ CloneType' /\ RunType' /\ InProgress' /\ Idle'
<1>0. pc[m] \in Proposing
    BY DEF GithubStep, PushReturnsAtFork, Push, PushFails, PostCreates, PostFindsExisting,
           PostRejected, PostFails, GetFinds, GetFails, Patch, PatchFails, Proposing
<1>c. /\ cur[m] \in Dist
      /\ Title(m) \in SUBSET Edit
      /\ <<BotCommit(commit[m])>> \in Seq(Commit)
    BY <1>0, CurType
<1>1. CASE PushReturnsAtFork(m)
  <2> USE <1>1 DEF PushReturnsAtFork
  <2>1. WorldType' /\ HistoryType' /\ CloneType'
    BY <1>c DEF Pushed, WorldType, HistoryType, CloneType
  <2>2. found' \in [Machine -> Nat]
    BY DEF RunType
  <2>3. QED
    BY <1>0, <2>1, <2>2, TypeReturns
<1>2. CASE Push(m)
  <2> USE <1>2 DEF Push
  <2>1. WorldType' /\ HistoryType' /\ CloneType'
    BY <1>c DEF Pushed, WorldType, HistoryType, CloneType
  <2>2. RunType' /\ InProgress' /\ Idle'
    BY DEF Goto, RunType, InProgress, Idle, Running, Proposing
  <2>3. QED
    BY <2>1, <2>2
<1>3. CASE PushFails(m)
  <2>1. WorldType' /\ HistoryType'
    BY <1>3, <1>c DEF PushFails, Pushed, WorldType, HistoryType, history
  <2>2. QED
    BY <1>3, <1>0, <2>1, TypeRaises DEF PushFails
<1>4. CASE PostCreates(m)
  <2> USE <1>4 DEF PostCreates
  <2>1. WorldType' /\ HistoryType' /\ CloneType'
    BY <1>c DEF Created, clone, WorldType, HistoryType, CloneType, Pr
  <2>2. found' \in [Machine -> Nat]
    BY DEF RunType
  <2>3. QED
    BY <1>0, <2>1, <2>2, TypeReturns
<1>5. CASE PostFindsExisting(m)
  <2> USE <1>5 DEF PostFindsExisting
  <2>1. WorldType' /\ HistoryType' /\ CloneType'
    BY DEF world, history, clone, WorldType, HistoryType, CloneType
  <2>2. RunType' /\ InProgress' /\ Idle'
    BY DEF Goto, RunType, InProgress, Idle, Running, Proposing
  <2>3. QED
    BY <2>1, <2>2
<1>6. CASE PostFails(m)
  <2>1. WorldType' /\ HistoryType'
    <3>1. UNCHANGED <<main, landed, branch, pypi, declined>>
      BY <1>6 DEF PostFails
    <3>2. CASE Created(m)
      BY <1>c, <3>1, <3>2 DEF Created, WorldType, HistoryType, Pr
    <3>3. CASE UNCHANGED <<pr, owed>>
      BY <3>1, <3>3 DEF WorldType, HistoryType
    <3>4. QED
      BY <1>6, <3>2, <3>3 DEF PostFails
  <2>2. QED
    BY <1>6, <1>0, <2>1, TypeRaises DEF PostFails
<1>7. CASE PostRejected(m) \/ GetFails(m) \/ PatchFails(m)
  <2>1. WorldType' /\ HistoryType'
    BY <1>7 DEF PostRejected, GetFails, PatchFails, world, history, WorldType, HistoryType
  <2>2. QED
    BY <1>7, <1>0, <2>1, TypeRaises DEF PostRejected, GetFails, PatchFails
<1>8. CASE GetFinds(m)
  <2> USE <1>8 DEF GetFinds
  <2>1. WorldType' /\ HistoryType' /\ CloneType'
    BY DEF world, history, clone, WorldType, HistoryType, CloneType
  <2>2. RunType'
    BY <1>c DEF Goto, RunType, Running, WorldType, Pr
  <2>3. InProgress' /\ Idle'
    BY DEF Goto, RunType, InProgress, Idle, Running, Proposing
  <2>4. QED
    BY <2>1, <2>2, <2>3
<1>9. CASE Patch(m)
  <2> USE <1>9 DEF Patch
  <2>1. WorldType' /\ HistoryType' /\ CloneType'
    <3>1. UNCHANGED <<main, landed, branch, pypi, clone, declined>>
      OBVIOUS
    <3>2. pr' \in [Dist -> Pr] /\ owed' \subseteq Dist
      <4>1. pr \in [Dist -> Pr] /\ owed \subseteq Dist
        BY DEF WorldType, HistoryType
      <4>2. CASE UNCHANGED <<pr, owed>>
        BY <4>1, <4>2
      <4>3. CASE pr' = [pr EXCEPT ![cur[m]].title = Title(m)] /\ owed' = owed \ {cur[m]}
        BY <1>c, <4>1, <4>3 DEF Pr
      <4>4. QED
        BY <4>2, <4>3
    <3>3. QED
      BY <3>1, <3>2 DEF clone, WorldType, HistoryType, CloneType
  <2>2. found' \in [Machine -> Nat]
    BY DEF RunType
  <2>3. QED
    BY <1>0, <2>1, <2>2, TypeReturns
<1>10. QED
    BY <1>1, <1>2, <1>3, <1>4, <1>5, <1>6, <1>7, <1>8, <1>9 DEF GithubStep

LEMMA TypeOver ==
    ASSUME TypeInv, NEW m \in Machine, Over(m)
    PROVE  RunType' /\ InProgress' /\ Idle'
<1> USE DEF TypeInv, TypeOK, Over, Goto
<1>1. RunType'
    BY DEF RunType, Pending, Result, Branch, Running, Nothing, Everything
<1>2. InProgress' /\ Idle'
    BY DEF RunType, InProgress, Idle, Running, Proposing
<1>3. QED
    BY <1>1, <1>2

LEMMA TypeFinally ==
    ASSUME TypeInv, NEW m \in Machine, Finally(m) \/ Crash(m)
    PROVE  TypeInv'
<1> USE DEF TypeInv, TypeOK
<1>1. WorldType' /\ HistoryType'
    BY DEF Finally, Crash, world, history, WorldType, HistoryType
<1>2. CloneType'
  <2>1. CASE Finally(m)
    <3>1. /\ head' = head \/ head' = [head EXCEPT ![m] = original[m]]
          /\ tree' = tree \/ tree' = [tree EXCEPT ![m] = trackMain[m]]
          /\ UNCHANGED <<dirty, trackMain, trackLanded, trackBranch>>
      BY <2>1 DEF Finally
    <3>2. QED
      BY <3>1 DEF CloneType, RunType
  <2>2. CASE Crash(m)
    BY <2>2 DEF Crash, clone, CloneType
  <2>3. QED
    BY <2>1, <2>2
<1>3. QED
    BY <1>1, <1>2, TypeOver DEF Finally, Crash

(***************************************************************************)
(* What people put on a branch or on main is a set of edits too.           *)
(***************************************************************************)
LEMMA PatchOfType ==
    ASSUME NEW commits \in Seq(Commit)
    PROVE  PatchOf(commits) \in SUBSET Edit
<1>1. ASSUME NEW i \in 1..Len(commits) PROVE commits[i].edits \in SUBSET Edit
  <2>1. commits[i] \in Commit
    OBVIOUS
  <2>2. QED
    BY <2>1 DEF Commit
<1>2. ASSUME NEW e \in PatchOf(commits) PROVE e \in Edit
  <2>1. PICK i \in 1..Len(commits) : e \in commits[i].edits
    BY <1>2, Zenon DEF PatchOf
  <2>2. QED
    BY <1>1, <2>1
<1>3. QED
    BY <1>2

LEMMA HandMadeType ==
    ASSUME TypeOK, NEW d \in Dist, StubEdit(d) \in Edit
    PROVE  HandMade(d) \subseteq Edit
<1> DEFINE Asked(kind, v) == [kind |-> kind, version |-> v, notes |-> 0]
           Edited(kind, v) == EditOf(d, Asked(kind, v), main[d], main[d])
<1>1. main[d] \in Meta /\ pypi[d] \in Pypi /\ 0 \in Notes
    BY DataAssumption DEF TypeOK, WorldType, Notes
<1>2. ASSUME NEW kind \in ProposalKinds, NEW v \in Version PROVE Edited(kind, v) \in Edit
  <2>1. Asked(kind, v).kind = kind /\ Asked(kind, v).version = v /\ Asked(kind, v).notes = 0
    OBVIOUS
  <2>2. QED
    BY <1>1, <2>1, EditOfType
<1>3. ASSUME NEW v \in (main[d].version + 1)..pypi[d].latest PROVE Edited("update", v) \in Edit
  <2>1. v \in Version
    BY <1>1, DataAssumption DEF Meta, Pypi, Version
  <2>2. QED
    BY <1>2, <2>1 DEF ProposalKinds
<1>4. ASSUME NEW v \in {u \in {pypi[d].typed_since} : u # 0 /\ main[d].obsolete_since = 0}
      PROVE  Edited("obsolete", v) \in Edit
  <2>1. v \in Version
    BY <1>1, DataAssumption DEF Pypi, Version
  <2>2. QED
    BY <1>2, <2>1 DEF ProposalKinds
<1>5. QED
    BY <1>3, <1>4 DEF HandMade

LEMMA PrStateType ==
    ASSUME NEW f \in [Dist -> Pr], NEW d \in Dist, NEW st \in {"none", "open", "closed", "merged"}
    PROVE  [f EXCEPT ![d].state = st] \in [Dist -> Pr]
BY DEF Pr

LEMMA TypeEnv ==
    ASSUME TypeInv, NEW d \in Dist, EnvStep(d)
    PROVE  TypeInv'
<1> USE DEF TypeInv, TypeOK
<1>0. UNCHANGED <<clone, run>>
    BY DEF EnvStep, Release, Annotate, MergePr, ClosePr, ReopenPr, DeleteBranch,
           HumanCommit, HumanAmend, HumanLands, ByHand
<1>1. CloneType' /\ RunType' /\ InProgress' /\ Idle'
    BY <1>0 DEF clone, run, CloneType, RunType, InProgress, Idle
<1>t. StubEdit(d) \in Edit
    BY DEF StubEdit, Edit
<1>2. CASE Release(d)
  <2>1. PICK since \in {0, IF pypi[d].typed_since = 0 THEN pypi[d].latest + 1
                           ELSE pypi[d].typed_since} :
            pypi' = [pypi EXCEPT ![d].latest = @ + 1, ![d].typed_since = since]
    BY <1>2 DEF Release
  <2>2. pypi[d].latest + 1 \in Version /\ since \in 0..MaxVersion
    BY <1>2, DataAssumption DEF Release, WorldType, Pypi, Version
  <2>3. pypi' \in [Dist -> Pypi]
    BY <2>1, <2>2 DEF WorldType, Pypi
  <2>4. QED
    BY <1>1, <1>2, <2>3 DEF Release, history, WorldType, HistoryType
<1>a. CASE Annotate(d)
  <2>1. pypi[d].notes + 1 \in Notes
    BY <1>a, DataAssumption DEF Annotate, WorldType, Pypi, Notes
  <2>2. pypi' \in [Dist -> Pypi]
    BY <1>a, <2>1 DEF Annotate, WorldType, Pypi
  <2>3. QED
    BY <1>1, <1>a, <2>2 DEF Annotate, history, WorldType, HistoryType
<1>3. CASE MergePr(d)
  <2>1. PatchOf(branch[d]) \in SUBSET Edit
    BY PatchOfType DEF WorldType
  <2>2. main' \in [Dist -> Meta]
    BY <1>3, <2>1, PatchedType DEF MergePr, WorldType
  <2>3. pr' \in [Dist -> Pr]
    BY <1>3, PrStateType DEF MergePr, WorldType
  <2>4. QED
    BY <1>1, <1>3, <2>1, <2>2, <2>3 DEF MergePr, WorldType, HistoryType
<1>4. CASE ClosePr(d)
  <2>0. pr' \in [Dist -> Pr]
    BY <1>4, PrStateType DEF ClosePr, WorldType
  <2>1. pr' \in [Dist -> Pr] /\ pr[d].title \subseteq Edit
    BY <2>0 DEF WorldType, Pr
  <2>2. declined' \subseteq Edit
    BY <1>4, <2>1 DEF ClosePr, HistoryType
  <2>3. QED
    BY <1>1, <1>4, <2>1, <2>2 DEF ClosePr, WorldType, HistoryType
<1>5. CASE ReopenPr(d)
  <2>1. pr' \in [Dist -> Pr]
    BY <1>5, PrStateType DEF ReopenPr, WorldType
  <2>2. QED
    BY <1>1, <1>5, <2>1 DEF ReopenPr, WorldType, HistoryType
<1>6. CASE DeleteBranch(d)
  <2>1. pr' \in [Dist -> Pr]
    <3>1. pr[d].state \in {"none", "open", "closed", "merged"}
      BY DEF WorldType, Pr
    <3>2. PICK st \in {"none", "open", "closed", "merged"} : pr' = [pr EXCEPT ![d].state = st]
      BY <1>6, <3>1 DEF DeleteBranch
    <3>3. QED
      BY <3>2, PrStateType DEF WorldType
  <2>2. branch' \in [Dist -> Seq(Commit)]
    BY <1>6 DEF DeleteBranch, WorldType
  <2>3. QED
    BY <1>1, <1>6, <2>1, <2>2 DEF DeleteBranch, WorldType, HistoryType
<1>7. CASE HumanCommit(d)
  <2>1. [author |-> "human", edits |-> {StubEdit(d)}] \in Commit
    BY <1>t DEF Commit
  <2>2. branch' \in [Dist -> Seq(Commit)]
    BY <1>7, <2>1 DEF HumanCommit, WorldType
  <2>3. QED
    BY <1>1, <1>7, <2>2 DEF HumanCommit, WorldType, HistoryType
<1>8. CASE HumanAmend(d)
  <2>1. branch' \in [Dist -> Seq(Commit)]
    <3>1. branch[d] \in Seq(Commit) /\ branch[d] # << >>
      BY <1>8 DEF HumanAmend, WorldType
    <3>2. Len(branch[d]) \in 1..Len(branch[d]) /\ branch[d][Len(branch[d])] \in Commit
      BY <3>1
    <3>3. [branch[d][Len(branch[d])] EXCEPT !.edits = @ \cup {StubEdit(d)}] \in Commit
      BY <1>t, <3>2 DEF Commit
    <3>4. [branch[d] EXCEPT ![Len(branch[d])].edits = @ \cup {StubEdit(d)}] \in Seq(Commit)
      BY <3>1, <3>2, <3>3
    <3>5. QED
      BY <1>8, <3>4 DEF HumanAmend, WorldType
  <2>2. QED
    BY <1>1, <1>8, <2>1 DEF HumanAmend, WorldType, HistoryType
<1>9. CASE HumanLands(d)
  <2>1. PICK e \in HandMade(d) : main' = Patched(main, {e}) /\ landed' = landed \cup {{e}}
    BY <1>9 DEF HumanLands
  <2>0. e \in Edit
    BY <1>t, HandMadeType
  <2>2. main' \in [Dist -> Meta]
    BY <2>0, <2>1, PatchedType DEF WorldType
  <2>3. QED
    BY <1>1, <1>9, <2>0, <2>1, <2>2 DEF HumanLands, history, WorldType, HistoryType
<1>10. QED
    BY <1>2, <1>a, <1>3, <1>4, <1>5, <1>6, <1>7, <1>8, <1>9 DEF EnvStep

LEMMA TypeNext == TypeInv /\ [Next]_vars => TypeInv'
<1> SUFFICES ASSUME TypeInv, [Next]_vars PROVE TypeInv'
    OBVIOUS
<1>1. CASE UNCHANGED vars
    BY <1>1 DEF vars, world, clone, run, history, TypeInv, TypeOK, WorldType, CloneType, RunType,
                HistoryType, InProgress, Idle
<1>2. CASE Next
    BY <1>2, TypeCheckout, TypeStarts, TypeTask, TypeLoop, TypeGithub, TypeFinally, TypeEnv
    DEF Next, RunStep
<1>3. QED
    BY <1>1, <1>2

(***************************************************************************)
(* Every reachable state of every instance is well-typed, and no run takes *)
(* more actions than --action-count-limit allows.                          *)
(***************************************************************************)
THEOREM TypeCorrect == Spec => []TypeInv
<1>1. Init => TypeInv
    BY TypeInit
<1>2. TypeInv /\ [Next]_vars => TypeInv'
    BY TypeNext
<1>3. QED
    BY <1>1, <1>2, PTL DEF Spec

THEOREM TypeOKHolds == Spec => []TypeOK
<1>1. TypeInv => TypeOK
    BY DEF TypeInv
<1>2. QED
    BY <1>1, TypeCorrect, PTL

----------------------------------------------------------------------------
(***************************************************************************)
(* The safety properties.  Each rests on one or two of the inductive facts *)
(* stated in Stubsabot; the lemma of a fact has one step for each group of *)
(* actions.                                                                *)
(***************************************************************************)

(***************************************************************************)
(* What people and PyPI do changes no clone and no run, and nothing that   *)
(* is on main ever leaves it.                                              *)
(***************************************************************************)
LEMMA EnvFrame ==
    ASSUME NEW d \in Dist, EnvStep(d)
    PROVE  UNCHANGED <<clone, run>>
BY DEF EnvStep, Release, Annotate, MergePr, ClosePr, ReopenPr, DeleteBranch,
       HumanCommit, HumanAmend, HumanLands, ByHand

LEMMA LoopFrame ==
    ASSUME NEW m \in Machine, TaskStep(m) \/ LoopStep(m)
    PROVE  UNCHANGED <<world, history, level, limit, original, trackMain, trackLanded, trackBranch, tree>>
BY DEF TaskStep, TaskReturns, TaskFails, TaskEnds, LoopStep, TaskRaises, OverLimit, DryRun,
       EmptyCommit, CommitFails, StopsLocally, RequiresNoChanges, RemoteConflict, GoesOnToPush,
       LoopEnds, CommitsOnly, Commits, clone

\* a step of the loop moves its own run and clone only, and a dry run touches no clone
LEMMA LoopOthers ==
    ASSUME TypeInv, NEW m \in Machine, LoopStep(m)
    PROVE  /\ pc[m] = "loop" /\ pc'[m] \in {"loop", "push", "finally"}
           /\ \A n \in Machine \ {m} : pc'[n] = pc[n] /\ head'[n] = head[n] /\ dirty'[n] = dirty[n]
           /\ level[m] > Nothing \/ (head' = head /\ dirty' = dirty)
<1> USE DEF LoopStep, TaskRaises, OverLimit, DryRun, EmptyCommit, CommitFails, StopsLocally,
            RequiresNoChanges, RemoteConflict, GoesOnToPush, LoopEnds, CommitsOnly, Commits,
            OnNewBranch, StartsAction, AtResult, Goto
<1>1. pc[m] = "loop"
    OBVIOUS
<1>2. pc' = pc \/ \E l \in {"push", "finally"} : pc' = [pc EXCEPT ![m] = l]
    OBVIOUS
<1>3. head' = head \/ \E d \in Dist : head' = [head EXCEPT ![m] = d]
    BY DEF clone
<1>4. dirty' = dirty \/ \E e : dirty' = [dirty EXCEPT ![m] = e]
    BY DEF clone
<1>5. level[m] > Nothing \/ (head' = head /\ dirty' = dirty)
    BY DEF clone
<1> HIDE DEF LoopStep
<1>6. QED
    BY <1>1, <1>2, <1>3, <1>4, <1>5 DEF TypeInv, TypeOK, RunType, CloneType

LEMMA GithubFrame ==
    ASSUME NEW m \in Machine, GithubStep(m)
    PROVE  /\ UNCHANGED <<main, landed, pypi>> /\ declined' \subseteq declined
           /\ UNCHANGED <<level, limit, original, count>>
           /\ UNCHANGED <<head, tree, dirty, trackMain, trackLanded>>
BY DEF GithubStep, PushReturnsAtFork, Push, PushFails, PostCreates, PostFindsExisting, PostRejected,
       PostFails, GetFinds, GetFails, Patch, PatchFails, Raises, Pushed, world, clone, history

LEMMA GithubOthers ==
    ASSUME TypeInv, NEW m \in Machine, GithubStep(m)
    PROVE  /\ pc'[m] # "push"
           /\ \A n \in Machine \ {m} :
                 /\ pc'[n] = pc[n] /\ result'[n] = result[n]
                 /\ cur'[n] = cur[n] /\ commit'[n] = commit[n]
                 /\ trackBranch'[n] = trackBranch[n]
BY DEF GithubStep, PushReturnsAtFork, Push, PushFails, PostCreates, PostFindsExisting, PostRejected,
       PostFails, GetFinds, GetFails, Patch, PatchFails, Returns, Raises, Goto, Handle, clone,
       TypeInv, TypeOK, RunType, CloneType

LEMMA OverOthers ==
    ASSUME TypeInv, NEW m \in Machine, Finally(m) \/ Crash(m)
    PROVE  /\ UNCHANGED <<world, history, dirty, trackMain, trackLanded, trackBranch>>
           /\ pc'[m] \in {"gone", "off"}
           /\ \A n \in Machine \ {m} :
                 /\ pc'[n] = pc[n] /\ level'[n] = level[n] /\ result'[n] = result[n]
                 /\ cur'[n] = cur[n] /\ commit'[n] = commit[n] /\ original'[n] = original[n]
                 /\ trackBranch'[n] = trackBranch[n] /\ head'[n] = head[n] /\ tree'[n] = tree[n]
<1> USE DEF TypeInv, TypeOK
<1>1. UNCHANGED <<world, history, dirty, trackMain, trackLanded, trackBranch>>
    BY DEF Finally, Crash, clone
<1>2. Over(m)
    BY DEF Finally, Crash
<1>3. pc'[m] \in {"gone", "off"}
    BY <1>2 DEF Over, Goto, RunType
<1>4. \A n \in Machine \ {m} : head'[n] = head[n] /\ tree'[n] = tree[n]
    BY DEF Finally, Crash, clone, CloneType
<1>5. QED
    BY <1>1, <1>2, <1>3, <1>4 DEF Over, Goto, RunType

LEMMA LandedGrows ==
    ASSUME [Next]_vars
    PROVE  landed \subseteq landed'
<1>1. ASSUME NEW d \in Dist, EnvStep(d) PROVE landed \subseteq landed'
    BY <1>1 DEF EnvStep, Release, Annotate, MergePr, ClosePr, ReopenPr, DeleteBranch,
                HumanCommit, HumanAmend, HumanLands
<1>2. ASSUME NEW m \in Machine, Checkout(m) \/ Starts(m) \/ Finally(m) \/ Crash(m)
      PROVE  landed \subseteq landed'
    BY <1>2 DEF Checkout, Starts, Begin, Finally, Crash, world
<1>3. CASE UNCHANGED vars
    BY <1>3 DEF vars, world
<1>4. QED
    BY <1>1, <1>2, <1>3, LoopFrame, GithubFrame DEF Next, RunStep, world

----------------------------------------------------------------------------
(***************************************************************************)
(* A label is reached only at the action levels that allow it.             *)
(***************************************************************************)
LEMMA LevelNext ==
    ASSUME TypeInv, LevelAtLabel, [Next]_vars
    PROVE  LevelAtLabel'
<1> USE DEF TypeInv, TypeOK, RunType, LevelAtLabel
<1>1. ASSUME NEW m \in Machine, Checkout(m) PROVE LevelAtLabel'
    BY <1>1 DEF Checkout
<1>2. ASSUME NEW m \in Machine, Starts(m) PROVE LevelAtLabel'
    BY <1>2 DEF Starts, Begin
<1>3. ASSUME NEW m \in Machine, TaskStep(m) PROVE LevelAtLabel'
    BY <1>3 DEF TaskStep, TaskReturns, TaskFails, TaskEnds
<1>4. ASSUME NEW m \in Machine, LoopStep(m) PROVE LevelAtLabel'
    BY <1>4 DEF LoopStep, TaskRaises, OverLimit, DryRun, EmptyCommit, CommitFails, StopsLocally,
                RequiresNoChanges, RemoteConflict, GoesOnToPush, LoopEnds, CommitsOnly, Commits,
                OnNewBranch, Goto
<1>5. ASSUME NEW m \in Machine, GithubStep(m) PROVE LevelAtLabel'
    BY <1>5 DEF GithubStep, PushReturnsAtFork, Push, PushFails, PostCreates, PostFindsExisting,
                PostRejected, PostFails, GetFinds, GetFails, Patch, PatchFails, Returns, Raises, Goto
<1>6. ASSUME NEW m \in Machine, Finally(m) \/ Crash(m) PROVE LevelAtLabel'
    BY <1>6 DEF Finally, Crash, Over, Goto
<1>7. ASSUME NEW d \in Dist, EnvStep(d) PROVE LevelAtLabel'
    BY <1>7, EnvFrame DEF run
<1>8. CASE UNCHANGED vars
    BY <1>8 DEF vars, run
<1>9. QED
    BY <1>1, <1>2, <1>3, <1>4, <1>5, <1>6, <1>7, <1>8 DEF Next, RunStep

(***************************************************************************)
(* A push that has been decided on is safe: has_non_stubsabot_commits was  *)
(* false when the run left the loop, its clone has not changed since, and  *)
(* main only grows.                                                        *)
(***************************************************************************)
LEMMA PushIsSafeFrame ==
    ASSUME TypeInv, PushIsSafe, NEW m \in Machine, landed \subseteq landed',
           UNCHANGED trackLanded, pc'[m] # "push",
           \A n \in Machine \ {m} :
               /\ pc'[n] = pc[n] /\ cur'[n] = cur[n] /\ commit'[n] = commit[n]
               /\ trackBranch'[n] = trackBranch[n]
    PROVE  PushIsSafe'
<1> SUFFICES ASSUME NEW n \in Machine
             PROVE  /\ trackLanded'[n] \subseteq landed'
                    /\ pc'[n] = "push" =>
                         \A i \in 1..Len(trackBranch'[n][cur'[n]]) :
                             trackBranch'[n][cur'[n]][i].author = "human"
                                 => trackBranch'[n][cur'[n]][i].edits \in landed' \cup {commit'[n]}
    BY DEF PushIsSafe
<1>1. CASE n = m
    BY <1>1 DEF PushIsSafe
<1>2. CASE n # m
  <2>1. /\ pc'[n] = pc[n] /\ cur'[n] = cur[n] /\ commit'[n] = commit[n]
        /\ trackBranch'[n] = trackBranch[n]
    BY <1>2
  <2>2. QED
    BY <2>1 DEF PushIsSafe
<1>3. QED
    BY <1>1, <1>2

LEMMA PushIsSafeNext ==
    ASSUME TypeInv, PushIsSafe, [Next]_vars
    PROVE  PushIsSafe'
<1> USE DEF TypeInv, TypeOK, PushIsSafe
<1>0. landed \subseteq landed'
    BY LandedGrows
<1>1. ASSUME NEW m \in Machine, Checkout(m) PROVE PushIsSafe'
    BY <1>1 DEF Checkout, world, RunType, CloneType
<1>2. ASSUME NEW m \in Machine, Starts(m) PROVE PushIsSafe'
    BY <1>2 DEF Starts, Begin, world, RunType, CloneType
<1>3. ASSUME NEW m \in Machine, TaskStep(m) PROVE PushIsSafe'
    BY <1>3 DEF TaskStep, TaskReturns, TaskFails, TaskEnds, world, clone
<1>4. ASSUME NEW m \in Machine, LoopStep(m) PROVE PushIsSafe'
  <2>1. ASSUME NEW d \in Dist, GoesOnToPush(m, d) PROVE PushIsSafe'
    BY <2>1 DEF GoesOnToPush, Commits, HasNonStubsabotCommits, Goto, world, RunType, CloneType
  <2>2. CASE ~\E d \in Dist : GoesOnToPush(m, d)
    BY <1>4, <2>2 DEF LoopStep, TaskRaises, OverLimit, DryRun, EmptyCommit, CommitFails,
        StopsLocally, RequiresNoChanges, RemoteConflict, LoopEnds, CommitsOnly, Commits,
        Goto, world, clone, RunType, CloneType
  <2>3. QED
    BY <2>1, <2>2
<1>5. ASSUME NEW m \in Machine, GithubStep(m) PROVE PushIsSafe'
    BY <1>0, <1>5, GithubFrame, GithubOthers, PushIsSafeFrame
<1>6. ASSUME NEW m \in Machine, Finally(m) \/ Crash(m) PROVE PushIsSafe'
    BY <1>0, <1>6, OverOthers, PushIsSafeFrame
<1>7. ASSUME NEW d \in Dist, EnvStep(d) PROVE PushIsSafe'
    BY <1>0, <1>7, EnvFrame DEF clone, run
<1>8. CASE UNCHANGED vars
    BY <1>8 DEF vars, world, clone, run
<1>9. QED
    BY <1>1, <1>2, <1>3, <1>4, <1>5, <1>6, <1>7, <1>8 DEF Next, RunStep

(***************************************************************************)
(* A force push loses no commit of a person that the run could see: every  *)
(* such commit is on main or has the patch the bot pushes.                 *)
(***************************************************************************)
THEOREM VisibleCommitsSurvive == Spec => HumanCommitsSurvive
<1>1. Init => PushIsSafe
    BY DEF Init, PushIsSafe
<1>2. TypeInv /\ PushIsSafe /\ [Next]_vars => PushIsSafe'
    BY PushIsSafeNext
<1>3. TypeInv /\ PushIsSafe /\ [Next]_vars =>
        [\A m \in Machine, d \in Dist :
            pc[m] = "push" /\ cur[m] = d /\ branch'[d] # branch[d]
                => HumanPatches(branch[d]) \cap HumanPatches(trackBranch[m][d])
                      \subseteq HumanPatches(branch'[d]) \cup landed' \cup {commit[m]}]_vars
  <2> SUFFICES ASSUME TypeInv, PushIsSafe, [Next]_vars,
                      NEW m \in Machine, NEW d \in Dist, pc[m] = "push", cur[m] = d,
                      NEW p \in HumanPatches(trackBranch[m][d])
               PROVE  p \in landed' \cup {commit[m]}
    OBVIOUS
  <2>1. PICK i \in 1..Len(trackBranch[m][d]) :
            trackBranch[m][d][i].author = "human" /\ p = trackBranch[m][d][i].edits
    BY DEF HumanPatches
  <2>2. p \in landed \cup {commit[m]}
    BY <2>1 DEF PushIsSafe
  <2>3. QED
    BY <2>2, LandedGrows
<1>4. QED
    BY <1>1, <1>2, <1>3, TypeCorrect, PTL DEF Spec, HumanCommitsSurvive

(***************************************************************************)
(* No run does more than its --action-level says.                          *)
(***************************************************************************)
THEOREM LevelsHonoured == Spec => ActionLevelsHonoured
<1>1. Init => LevelAtLabel
    BY DEF Init, LevelAtLabel
<1>2. TypeInv /\ LevelAtLabel /\ [Next]_vars => LevelAtLabel'
    BY LevelNext
<1>3. TypeInv /\ LevelAtLabel =>
        [\A m \in Machine : RunStep(m) =>
            /\ UNCHANGED <<main, landed, pypi>>
            /\ level[m] <= Nothing => UNCHANGED clone
            /\ level[m] <= Local => UNCHANGED branch
            /\ level[m] <= Fork => UNCHANGED pr]_vars
  <2> SUFFICES ASSUME TypeInv, LevelAtLabel, NEW m \in Machine, RunStep(m)
               PROVE  /\ UNCHANGED <<main, landed, pypi>>
                      /\ level[m] <= Nothing => UNCHANGED clone
                      /\ level[m] <= Local => UNCHANGED branch
                      /\ level[m] <= Fork => UNCHANGED pr
    OBVIOUS
  <2>0. level[m] \in 0..3
    BY DEF TypeInv, TypeOK, RunType, Nothing, Everything
  <2>1. CASE TaskStep(m)
    BY <2>1 DEF TaskStep, TaskReturns, TaskFails, TaskEnds, world, clone
  <2>2. CASE LoopStep(m)
    <3>1. level[m] <= Nothing => UNCHANGED clone
      BY <2>0, <2>2 DEF LoopStep, TaskRaises, OverLimit, DryRun, EmptyCommit, CommitFails,
          StopsLocally, RequiresNoChanges, RemoteConflict, GoesOnToPush, LoopEnds, CommitsOnly,
          Commits, OnNewBranch, Nothing
    <3>2. QED
      BY <2>2, <3>1, LoopFrame DEF world
  <2>3. CASE GithubStep(m)
    <3>1. UNCHANGED <<main, landed, pypi>>
      BY <2>3, GithubFrame
    <3>2. level[m] > Local
      BY <2>0, <2>3 DEF GithubStep, PushReturnsAtFork, Push, PushFails, PostCreates,
          PostFindsExisting, PostRejected, PostFails, GetFinds, GetFails, Patch, PatchFails,
          LevelAtLabel, Local, Fork
    <3>3. level[m] <= Fork => UNCHANGED pr
      BY <2>0, <2>3 DEF GithubStep, PushReturnsAtFork, Push, PushFails, PostCreates,
          PostFindsExisting, PostRejected, PostFails, GetFinds, GetFails, Patch, PatchFails,
          LevelAtLabel, Local, Fork, world
    <3>4. QED
      BY <2>0, <3>1, <3>2, <3>3 DEF Nothing, Local
  <2>4. CASE Finally(m)
    BY <2>0, <2>4 DEF Finally, world, clone, Nothing, Local
  <2>5. QED
    BY <2>1, <2>2, <2>3, <2>4 DEF RunStep
<1>4. QED
    BY <1>1, <1>2, <1>3, TypeCorrect, PTL DEF Spec, ActionLevelsHonoured

----------------------------------------------------------------------------
(***************************************************************************)
(* The worktree of a run that may write is clean in the loop: main()       *)
(* refuses to start otherwise, and a commit that fails ends the loop.      *)
(***************************************************************************)
LEMMA CleanNext ==
    ASSUME TypeInv, CleanWorktree, [Next]_vars
    PROVE  CleanWorktree'
<1> USE DEF TypeInv, TypeOK, RunType, CloneType, CleanWorktree, Awaiting
<1>1. ASSUME NEW m \in Machine, Checkout(m) PROVE CleanWorktree'
    BY <1>1 DEF Checkout
<1>2. ASSUME NEW m \in Machine, Starts(m) PROVE CleanWorktree'
    BY <1>2 DEF Starts, Begin, WorktreeAllows
<1>3. ASSUME NEW m \in Machine, TaskStep(m) PROVE CleanWorktree'
    BY <1>3 DEF TaskStep, TaskReturns, TaskFails, TaskEnds, clone
<1>4. ASSUME NEW m \in Machine, LoopStep(m) PROVE CleanWorktree'
  <2>1. dirty' = dirty \/ dirty' = [dirty EXCEPT ![m] = {}] \/ pc' = [pc EXCEPT ![m] = "finally"]
    BY <1>4 DEF LoopStep, TaskRaises, OverLimit, DryRun, EmptyCommit, CommitFails, StopsLocally,
                RequiresNoChanges, RemoteConflict, GoesOnToPush, LoopEnds, CommitsOnly, Commits,
                Goto, clone
  <2>2. dirty'[m] = dirty[m] \/ dirty'[m] = {} \/ pc'[m] = "finally"
    BY <2>1
  <2>3. QED
    BY <1>4, <2>2, LoopFrame, LoopOthers
<1>5. ASSUME NEW m \in Machine, GithubStep(m) PROVE CleanWorktree'
  <2>1. pc[m] \in Awaiting \cup {"push"}
    BY <1>5 DEF GithubStep, PushReturnsAtFork, Push, PushFails, PostCreates, PostFindsExisting,
                PostRejected, PostFails, GetFinds, GetFails, Patch, PatchFails
  <2>2. QED
    BY <1>5, <2>1, GithubFrame, GithubOthers
<1>6. ASSUME NEW m \in Machine, Finally(m) \/ Crash(m) PROVE CleanWorktree'
    BY <1>6, OverOthers
<1>7. ASSUME NEW d \in Dist, EnvStep(d) PROVE CleanWorktree'
    BY <1>7, EnvFrame DEF clone, run
<1>8. CASE UNCHANGED vars
    BY <1>8 DEF vars, clone, run
<1>9. QED
    BY <1>1, <1>2, <1>3, <1>4, <1>5, <1>6, <1>7, <1>8 DEF Next, RunStep

(***************************************************************************)
(* A run that may write started from a branch that is not the bot's.       *)
(***************************************************************************)
LEMMA OriginalNext ==
    ASSUME TypeInv, OriginalKnown, OriginalBranchRestored, CleanWorktree, [Next]_vars
    PROVE  OriginalKnown' /\ OriginalBranchRestored'
<1> DEFINE Parts == OriginalKnown' /\ OriginalBranchRestored'
<1> USE DEF TypeInv, TypeOK, RunType, CloneType, OriginalKnown, OriginalBranchRestored, Running
<1>1. ASSUME NEW m \in Machine, Checkout(m) PROVE Parts
    BY <1>1 DEF Checkout
<1>2. ASSUME NEW m \in Machine, Starts(m) PROVE Parts
    BY <1>2 DEF Starts, Begin, WorktreeAllows
<1>3. ASSUME NEW m \in Machine, TaskStep(m) PROVE Parts
    BY <1>3 DEF TaskStep, TaskReturns, TaskFails, TaskEnds, clone
<1>4. ASSUME NEW m \in Machine, LoopStep(m) PROVE Parts
    BY <1>4, LoopFrame, LoopOthers
<1>5. ASSUME NEW m \in Machine, GithubStep(m) PROVE Parts
  <2>1. pc[m] \in Running /\ pc'[m] \in Running
    BY <1>5 DEF GithubStep, PushReturnsAtFork, Push, PushFails, PostCreates, PostFindsExisting,
                PostRejected, PostFails, GetFinds, GetFails, Patch, PatchFails, Returns, Raises, Goto
  <2>2. QED
    BY <1>5, <2>1, GithubFrame, GithubOthers
<1>6. ASSUME NEW m \in Machine, Finally(m) PROVE Parts
  <2>1. head'[m] # None => dirty[m] # {}
    <3>0. pc[m] \in Running /\ level[m] \in 0..3
      BY <1>6 DEF Finally, Nothing, Everything
    <3>1. CASE level[m] < Local
      <4>1. head' = head
        BY <1>6, <3>1 DEF Finally
      <4>2. ~(level[m] > Nothing)
        BY <3>0, <3>1 DEF Nothing, Local
      <4>3. QED
        BY <3>0, <4>1, <4>2
    <3>2. CASE ~(level[m] < Local) /\ CanCheckout(m)
      <4>1. head' = [head EXCEPT ![m] = original[m]]
        BY <1>6, <3>2 DEF Finally
      <4>2. level[m] > Nothing
        BY <3>0, <3>2 DEF Nothing, Local
      <4>3. QED
        BY <3>0, <4>1, <4>2
    <3>3. CASE ~(level[m] < Local) /\ ~CanCheckout(m)
      BY <3>3 DEF CanCheckout
    <3>4. QED
      BY <3>1, <3>2, <3>3
  <2>2. QED
    BY <1>6, <2>1, OverOthers
<1>7. ASSUME NEW m \in Machine, Crash(m) PROVE Parts
  <2>1. pc'[m] = "gone"
    BY <1>7 DEF Crash, Over, Goto
  <2>2. QED
    BY <1>7, <2>1, OverOthers
<1>8. ASSUME NEW d \in Dist, EnvStep(d) PROVE Parts
    BY <1>8, EnvFrame DEF clone, run
<1>9. CASE UNCHANGED vars
    BY <1>9 DEF vars, clone, run
<1>10. QED
    BY <1>1, <1>2, <1>3, <1>4, <1>5, <1>6, <1>7, <1>8, <1>9 DEF Next, RunStep

(***************************************************************************)
(* A run gives the clone back as it found it: the finally clause checks    *)
(* out the original branch, or git refuses because of a failed commit.     *)
(***************************************************************************)
THEOREM CloneGivenBack == Spec => []OriginalBranchRestored
<1>1. Init => OriginalKnown /\ OriginalBranchRestored /\ CleanWorktree
    BY DEF Init, OriginalKnown, OriginalBranchRestored, CleanWorktree, Running, Awaiting
<1>2. TypeInv /\ CleanWorktree /\ [Next]_vars => CleanWorktree'
    BY CleanNext
<1>3. TypeInv /\ OriginalKnown /\ OriginalBranchRestored /\ CleanWorktree /\ [Next]_vars
        => OriginalKnown' /\ OriginalBranchRestored'
    BY OriginalNext
<1>4. QED
    BY <1>1, <1>2, <1>3, TypeCorrect, PTL DEF Spec

----------------------------------------------------------------------------
(***************************************************************************)
(* The two halves of OneDistributionPerCommit: what a run has committed    *)
(* and what is on GitHub.                                                  *)
(***************************************************************************)
CommitsOwn == \A m \in Machine : \A e \in commit[m] : e.dist = cur[m]
BranchOwn(b, d) == \A i \in 1..Len(b) : \A e \in b[i].edits : e.dist = d

LEMMA CommitsOwnNext ==
    ASSUME TypeInv, CommitsOwn, CleanWorktree, [Next]_vars
    PROVE  CommitsOwn'
<1> USE DEF TypeInv, TypeOK, RunType, CommitsOwn
<1>1. ASSUME NEW m \in Machine, Checkout(m) \/ Starts(m) \/ TaskStep(m) PROVE CommitsOwn'
    BY <1>1 DEF Checkout, Starts, Begin, TaskStep, TaskReturns, TaskFails, TaskEnds
<1>2. ASSUME NEW m \in Machine, LoopStep(m) PROVE CommitsOwn'
  <2>1. ASSUME NEW d \in Dist, GoesOnToPush(m, d) PROVE CommitsOwn'
    <3>1. dirty[m] = {}
      BY <2>1 DEF GoesOnToPush, Commits, OnNewBranch, StartsAction, AtResult, CleanWorktree, Awaiting
    <3>2. \A e \in Changed(m, d) : e.dist = d
      BY <3>1 DEF Changed, Proposed, EditOf
    <3>3. QED
      BY <2>1, <3>2 DEF GoesOnToPush
  <2>2. CASE ~\E d \in Dist : GoesOnToPush(m, d)
    BY <1>2, <2>2 DEF LoopStep, TaskRaises, OverLimit, DryRun, EmptyCommit, CommitFails,
        StopsLocally, RequiresNoChanges, RemoteConflict, LoopEnds, CommitsOnly
  <2>3. QED
    BY <2>1, <2>2
<1>3. ASSUME NEW m \in Machine, GithubStep(m) PROVE CommitsOwn'
    BY <1>3 DEF GithubStep, PushReturnsAtFork, Push, PushFails, PostCreates, PostFindsExisting,
        PostRejected, PostFails, GetFinds, GetFails, Patch, PatchFails, Returns, Raises
<1>4. ASSUME NEW m \in Machine, Finally(m) \/ Crash(m) PROVE CommitsOwn'
    BY <1>4 DEF Finally, Crash, Over
<1>5. ASSUME NEW d \in Dist, EnvStep(d) PROVE CommitsOwn'
    BY <1>5, EnvFrame DEF run
<1>6. CASE UNCHANGED vars
    BY <1>6 DEF vars, run
<1>7. QED
    BY <1>1, <1>2, <1>3, <1>4, <1>5, <1>6 DEF Next, RunStep

(***************************************************************************)
(* How a branch can change: it is pushed, extended, amended or deleted.    *)
(***************************************************************************)
LEMMA BranchSteps ==
    ASSUME TypeInv, [Next]_vars, NEW d \in Dist
    PROVE  \/ branch'[d] = branch[d]
           \/ branch'[d] = << >>
           \/ \E m \in Machine : cur[m] = d /\ branch'[d] = <<BotCommit(commit[m])>>
           \/ branch'[d] = Append(branch[d], [author |-> "human", edits |-> {StubEdit(d)}])
           \/ /\ branch[d] # << >>
              /\ branch'[d] = [branch[d] EXCEPT ![Len(branch[d])].edits = @ \cup {StubEdit(d)}]
<1> USE DEF TypeInv, TypeOK, WorldType
<1>1. ASSUME NEW m \in Machine, Checkout(m) \/ Starts(m) \/ Finally(m) \/ Crash(m)
      PROVE  branch' = branch
    BY <1>1 DEF Checkout, Starts, Begin, Finally, Crash, world
<1>2. ASSUME NEW m \in Machine, TaskStep(m) \/ LoopStep(m)
      PROVE  branch' = branch
    BY <1>2, LoopFrame DEF world
<1>3. ASSUME NEW m \in Machine, GithubStep(m)
      PROVE  branch' = branch \/ branch' = [branch EXCEPT ![cur[m]] = <<BotCommit(commit[m])>>]
    BY <1>3 DEF GithubStep, PushReturnsAtFork, Push, PushFails, Pushed, PostCreates,
        PostFindsExisting, PostRejected, PostFails, GetFinds, GetFails, Patch, PatchFails, world
<1>4. ASSUME NEW c \in Dist, EnvStep(c)
      PROVE  \/ branch' = branch
             \/ branch' = [branch EXCEPT ![c] = << >>]
             \/ branch' = [branch EXCEPT ![c] = Append(@, [author |-> "human", edits |-> {StubEdit(c)}])]
             \/ /\ branch[c] # << >>
                /\ branch' = [branch EXCEPT ![c][Len(branch[c])].edits = @ \cup {StubEdit(c)}]
    BY <1>4 DEF EnvStep, Release, Annotate, MergePr, ClosePr, ReopenPr, DeleteBranch,
        HumanCommit, HumanAmend, HumanLands
<1>5. CASE UNCHANGED vars
    BY <1>5 DEF vars, world
<1>6. QED
    BY <1>1, <1>2, <1>3, <1>4, <1>5 DEF Next, RunStep

LEMMA BranchOwnNext ==
    ASSUME TypeInv, CommitsOwn, [Next]_vars, NEW d \in Dist, BranchOwn(branch[d], d)
    PROVE  BranchOwn(branch'[d], d)
<1> DEFINE h == [author |-> "human", edits |-> {StubEdit(d)}]
<1>0. branch[d] \in Seq(Commit) /\ StubEdit(d).dist = d
    BY DEF TypeInv, TypeOK, WorldType, StubEdit
<1>1. CASE branch'[d] = branch[d] \/ branch'[d] = << >>
    BY <1>1 DEF BranchOwn
<1>2. ASSUME NEW m \in Machine, cur[m] = d, branch'[d] = <<BotCommit(commit[m])>>
      PROVE  BranchOwn(branch'[d], d)
    BY <1>2 DEF BranchOwn, BotCommit, CommitsOwn
<1>3. CASE branch'[d] = Append(branch[d], h)
  <2>1. ASSUME NEW i \in 1..Len(branch'[d]) PROVE branch'[d][i].edits = {StubEdit(d)}
            \/ (i \in 1..Len(branch[d]) /\ branch'[d][i] = branch[d][i])
    BY <1>0, <1>3
  <2>2. QED
    BY <1>0, <2>1 DEF BranchOwn
<1>4. CASE /\ branch[d] # << >>
           /\ branch'[d] = [branch[d] EXCEPT ![Len(branch[d])].edits = @ \cup {StubEdit(d)}]
  <2>1. Len(branch[d]) \in 1..Len(branch[d]) /\ branch[d][Len(branch[d])] \in Commit
    BY <1>0, <1>4
  <2>2. ASSUME NEW i \in 1..Len(branch'[d])
        PROVE  i \in 1..Len(branch[d]) /\ branch'[d][i].edits \subseteq branch[d][i].edits \cup {StubEdit(d)}
    BY <1>0, <1>4, <2>1 DEF Commit
  <2>3. QED
    BY <1>0, <2>2 DEF BranchOwn
<1>5. QED
    BY <1>1, <1>2, <1>3, <1>4, BranchSteps

(***************************************************************************)
(* A commit of the bot, and its branch, touch one distribution only.       *)
(***************************************************************************)
THEOREM OneDistribution == Spec => []OneDistributionPerCommit
<1> DEFINE Own == CommitsOwn /\ \A d \in Dist : BranchOwn(branch[d], d)
<1>1. Init => Own /\ CleanWorktree
    BY DEF Init, CommitsOwn, BranchOwn, CleanWorktree, Awaiting
<1>2. TypeInv /\ CleanWorktree /\ [Next]_vars => CleanWorktree'
    BY CleanNext
<1>3. TypeInv /\ CleanWorktree /\ Own /\ [Next]_vars => Own'
  <2> SUFFICES ASSUME TypeInv, CleanWorktree, Own, [Next]_vars PROVE Own'
    OBVIOUS
  <2>1. CommitsOwn'
    BY CommitsOwnNext
  <2>2. \A d \in Dist : BranchOwn(branch'[d], d)
    BY BranchOwnNext
  <2>3. QED
    BY <2>1, <2>2 DEF BranchOwn
<1>4. Own => OneDistributionPerCommit
    BY DEF CommitsOwn, BranchOwn, OneDistributionPerCommit
<1>5. QED
    BY <1>1, <1>2, <1>3, <1>4, TypeCorrect, PTL DEF Spec

----------------------------------------------------------------------------
(***************************************************************************)
(* A result that waits to be dealt with says something the METADATA.toml   *)
(* it was computed from does not: the worktree was clean, so that          *)
(* determine_action read the branch the run started from, and no step of   *)
(* the run changes that branch.                                            *)
(***************************************************************************)
News(res, meta) ==
    /\ res.kind = "update" => res.version # meta.version
    /\ res.kind = "obsolete" => meta.obsolete_since = 0

LEMMA TaskNews ==
    ASSUME TypeInv, CleanWorktree, NEW m \in Machine, NEW d \in Dist, TaskReturns(m, d),
           level[m] > Nothing
    PROVE  News(result'[m][d], tree[m][d])
<1> DEFINE meta == Patched(tree[m], dirty[m])[d]
           res == DetermineAction(d, meta, pypi[d])
<1>1. meta.version = tree[m][d].version /\ meta.obsolete_since = tree[m][d].obsolete_since
    BY DEF TaskReturns, TaskEnds, CleanWorktree, Patched
<1>2. result'[m][d] = res
    BY DEF TaskReturns, TaskEnds, TypeInv, TypeOK, RunType
<1>3. \/ res = NoUpdate \/ res = Raised
      \/ res.kind = "obsolete" /\ meta.obsolete_since = 0
      \/ res.kind = "update" /\ res.version = pypi[d].latest /\ pypi[d].latest # meta.version
    BY DEF DetermineAction, UpToDate
<1> HIDE DEF res, meta
<1>4. QED
    BY <1>1, <1>2, <1>3 DEF News, NoUpdate, Raised

LEMMA ResultSteps ==
    ASSUME TypeInv, NEW m \in Machine, LoopStep(m) \/ GithubStep(m)
    PROVE  /\ UNCHANGED <<level, tree>>
           /\ pc[m] \in Awaiting \cup {"push"}
           /\ \A n \in Machine \ {m} : pc'[n] = pc[n]
           /\ \A n \in Machine, d \in Dist : result'[n][d] \in {result[n][d], Handled}
<1> USE DEF TypeInv, TypeOK, RunType
<1>1. CASE LoopStep(m)
  <2>1. pc[m] = "loop" /\ UNCHANGED <<level, tree>>
    BY <1>1, LoopFrame DEF LoopStep, TaskRaises, OverLimit, DryRun, EmptyCommit, CommitFails,
        StopsLocally, RequiresNoChanges, RemoteConflict, GoesOnToPush, LoopEnds, CommitsOnly,
        Commits, OnNewBranch, StartsAction, AtResult
  <2>2. \A n \in Machine \ {m} : pc'[n] = pc[n]
    BY <1>1 DEF LoopStep, TaskRaises, OverLimit, DryRun, EmptyCommit, CommitFails,
        StopsLocally, RequiresNoChanges, RemoteConflict, GoesOnToPush, LoopEnds, CommitsOnly, Goto
  <2>3. UNCHANGED result \/ \E d \in Dist : Handle(m, d)
    BY <1>1 DEF LoopStep, TaskRaises, OverLimit, DryRun, EmptyCommit, CommitFails,
        StopsLocally, RequiresNoChanges, RemoteConflict, GoesOnToPush, LoopEnds, CommitsOnly
  <2>4. QED
    BY <2>1, <2>2, <2>3 DEF Handle, Awaiting
<1>2. CASE GithubStep(m)
  <2>1. pc[m] \in Proposing
    BY <1>2 DEF GithubStep, PushReturnsAtFork, Push, PushFails, PostCreates, PostFindsExisting,
        PostRejected, PostFails, GetFinds, GetFails, Patch, PatchFails, Proposing
  <2>2. UNCHANGED result \/ Handle(m, cur[m])
    BY <1>2 DEF GithubStep, PushReturnsAtFork, Push, PushFails, PostCreates, PostFindsExisting,
        PostRejected, PostFails, GetFinds, GetFails, Patch, PatchFails, Returns, Raises
  <2>3. cur[m] \in Dist
    BY <2>1 DEF InProgress
  <2>4. QED
    BY <1>2, <2>1, <2>2, <2>3, GithubFrame, GithubOthers DEF Handle, Awaiting, Proposing
<1>3. QED
    BY <1>1, <1>2

LEMMA ResultIsNewsNext ==
    ASSUME TypeInv, CleanWorktree, ResultIsNews, [Next]_vars
    PROVE  ResultIsNews'
<1> USE DEF TypeInv, TypeOK, ResultIsNews
<1>1. ASSUME NEW m \in Machine, Checkout(m) PROVE ResultIsNews'
    BY <1>1 DEF Checkout, RunType, CloneType, Awaiting
<1>2. ASSUME NEW m \in Machine, Starts(m) PROVE ResultIsNews'
  <2>1. PICK lv \in Levels, lim \in Limits : Begin(m, lv, lim)
    BY <1>2 DEF Starts
  <2>2. \A d \in Dist : result[m][d] = Pending
    BY <2>1 DEF Begin, Idle, Running
  <2>3. UNCHANGED <<result, tree>>
        /\ \A n \in Machine \ {m} : pc'[n] = pc[n] /\ level'[n] = level[n]
    BY <2>1 DEF Begin, RunType
  <2>4. QED
    BY <2>2, <2>3 DEF Pending
<1>3. ASSUME NEW m \in Machine, TaskStep(m) PROVE ResultIsNews'
  <2>1. PICK d \in Dist : TaskReturns(m, d) \/ TaskFails(m, d)
    BY <1>3 DEF TaskStep
  <2>2. UNCHANGED <<level, tree, pc>>
    BY <2>1 DEF TaskReturns, TaskFails, TaskEnds, clone
  <2>3. \A n \in Machine, c \in Dist : n # m \/ c # d => result'[n][c] = result[n][c]
    BY <2>1 DEF TaskReturns, TaskFails, TaskEnds, RunType
  <2>4. CASE TaskFails(m, d)
    <3>1. result'[m][d] = Raised
        BY <2>4 DEF TaskFails, TaskEnds, RunType
    <3>2. QED
        BY <2>2, <2>3, <3>1 DEF Raised
  <2>5. CASE TaskReturns(m, d)
    <3>1. level[m] > Nothing => News(result'[m][d], tree[m][d])
        BY <2>5, TaskNews
    <3>2. QED
        BY <2>2, <2>3, <3>1 DEF News
  <2>6. QED
    BY <2>1, <2>4, <2>5
<1>4. ASSUME NEW m \in Machine, LoopStep(m) \/ GithubStep(m) PROVE ResultIsNews'
    BY <1>4, ResultSteps DEF Handled
<1>5. ASSUME NEW m \in Machine, Finally(m) \/ Crash(m) PROVE ResultIsNews'
    BY <1>5, OverOthers DEF Awaiting
<1>6. ASSUME NEW d \in Dist, EnvStep(d) PROVE ResultIsNews'
    BY <1>6, EnvFrame DEF run, clone
<1>7. CASE UNCHANGED vars
    BY <1>7 DEF vars, run, clone
<1>8. QED
    BY <1>1, <1>2, <1>3, <1>4, <1>5, <1>6, <1>7 DEF Next, RunStep

(***************************************************************************)
(* Where the branch a run starts from and origin/main agree on a           *)
(* METADATA.toml, the proposal for it changes the file, so that the commit *)
(* of suggest_typeshed_update or suggest_typeshed_obsolete is not empty.   *)
(***************************************************************************)
THEOREM ProposalsAreNews == Spec => []ProposalChangesMetadata
<1>1. Init => CleanWorktree /\ ResultIsNews
    BY DEF Init, CleanWorktree, ResultIsNews, Awaiting
<1>2. TypeInv /\ CleanWorktree /\ ResultIsNews /\ [Next]_vars => CleanWorktree' /\ ResultIsNews'
    BY CleanNext, ResultIsNewsNext
<1>3. TypeInv /\ ResultIsNews => ProposalChangesMetadata
  <2> SUFFICES ASSUME TypeInv, ResultIsNews, NEW m \in Machine, NEW d \in Dist,
                      AtResult(m, d, ProposalKinds), level[m] > Nothing,
                      tree[m][d] = trackMain[m][d]
               PROVE  ApplyEdit(trackMain[m][d], Proposed(m, d)) # trackMain[m][d]
    BY DEF ProposalChangesMetadata
  <2>1. trackMain[m][d] \in Meta /\ result[m][d] \in Result
    BY DEF TypeInv, TypeOK, CloneType, RunType
  <2>2. CASE result[m][d].kind = "update"
    <3>1. result[m][d].version # trackMain[m][d].version
        BY <2>2 DEF ResultIsNews, AtResult, Awaiting
    <3>2. QED
        BY <2>1, <2>2, <3>1 DEF ApplyEdit, Proposed, EditOf, Meta
  <2>3. CASE result[m][d].kind = "obsolete"
    <3>1. trackMain[m][d].obsolete_since = 0
        BY <2>3 DEF ResultIsNews, AtResult, Awaiting
    <3>2. result[m][d].version # 0
        BY <2>1, <2>3 DEF Result, Version, ProposalKinds
    <3>3. QED
        BY <2>1, <2>3, <3>1, <3>2 DEF ApplyEdit, Proposed, EditOf, Meta
  <2>4. QED
    BY <2>2, <2>3 DEF AtResult, ProposalKinds
<1>4. QED
    BY <1>1, <1>2, <1>3, TypeCorrect, PTL DEF Spec

----------------------------------------------------------------------------
(***************************************************************************)
(* Runs that do not overlap: at most one machine is running.               *)
(***************************************************************************)
Alone == \A m, n \in Machine : pc[m] \in Running /\ pc[n] \in Running => m = n

LEMMA AloneNext ==
    ASSUME ~Overlap, TypeInv, Alone, [Next]_vars
    PROVE  Alone'
<1> USE DEF TypeInv, TypeOK, RunType, Alone
<1>1. ASSUME NEW m \in Machine, Starts(m) PROVE Alone'
  <2>1. (\A n \in Machine : pc[n] \notin Running) /\ pc' = [pc EXCEPT ![m] = "loop"]
    BY <1>1 DEF Starts, Begin
  <2>2. QED
    BY <2>1
<1>2. ASSUME NEW m \in Machine, Checkout(m) PROVE Alone'
  <2>1. pc' = [pc EXCEPT ![m] = "off"]
    BY <1>2 DEF Checkout
  <2>2. QED
    BY <2>1 DEF Running
<1>3. ASSUME NEW m \in Machine, TaskStep(m) PROVE Alone'
    BY <1>3 DEF TaskStep, TaskReturns, TaskFails, TaskEnds
<1>4. ASSUME NEW m \in Machine, LoopStep(m) PROVE Alone'
    BY <1>4, LoopOthers DEF Running
<1>5. ASSUME NEW m \in Machine, GithubStep(m) PROVE Alone'
  <2>1. pc[m] \in Running
    BY <1>5 DEF GithubStep, PushReturnsAtFork, Push, PushFails, PostCreates, PostFindsExisting,
        PostRejected, PostFails, GetFinds, GetFails, Patch, PatchFails, Running
  <2>2. QED
    BY <1>5, <2>1, GithubOthers
<1>6. ASSUME NEW m \in Machine, Finally(m) \/ Crash(m) PROVE Alone'
    BY <1>6, OverOthers DEF Running
<1>7. ASSUME NEW d \in Dist, EnvStep(d) PROVE Alone'
    BY <1>7, EnvFrame DEF run
<1>8. CASE UNCHANGED vars
    BY <1>8 DEF vars, run
<1>9. QED
    BY <1>1, <1>2, <1>3, <1>4, <1>5, <1>6, <1>7, <1>8 DEF Next, RunStep

(***************************************************************************)
(* What a step of the loop does to its run: a proposal that is made into a *)
(* commit is at hand as result, cur and commit; otherwise at most a result *)
(* is ticked off.                                                          *)
(***************************************************************************)
LEMMA LoopResults ==
    ASSUME TypeInv, CleanWorktree, NEW m \in Machine, LoopStep(m)
    PROVE  /\ \A n \in Machine, d \in Dist : result'[n][d] \in {result[n][d], Handled}
           /\ \A n \in Machine \ {m} : result'[n] = result[n] /\ cur'[n] = cur[n] /\ commit'[n] = commit[n]
           /\ pc'[m] = "push" =>
                 /\ cur'[m] \in Dist /\ result' = result /\ level[m] > Local
                 /\ result[m][cur'[m]].kind \in ProposalKinds
                 /\ commit'[m] = {Proposed(m, cur'[m])}
                 /\ LatestCommitIsDifferent(trackBranch[m][cur'[m]], commit'[m])
<1> USE DEF TypeInv, TypeOK, RunType
<1>1. ASSUME NEW d \in Dist, GoesOnToPush(m, d)
      PROVE  /\ result' = result /\ cur' = [cur EXCEPT ![m] = d] /\ level[m] > Local
             /\ commit' = [commit EXCEPT ![m] = {Proposed(m, d)}]
             /\ result[m][d].kind \in ProposalKinds
             /\ LatestCommitIsDifferent(trackBranch[m][d], {Proposed(m, d)})
  <2>1. dirty[m] = {}
    BY <1>1 DEF GoesOnToPush, Commits, OnNewBranch, StartsAction, AtResult, CleanWorktree, Awaiting
  <2>2. Changed(m, d) = {Proposed(m, d)}
    BY <1>1, <2>1 DEF GoesOnToPush, Commits, Changed
  <2>3. QED
    BY <1>1, <2>2 DEF GoesOnToPush, Commits, OnNewBranch, StartsAction, AtResult
<1>2. CASE \E d \in Dist : GoesOnToPush(m, d)
    BY <1>1, <1>2
<1>3. CASE ~\E d \in Dist : GoesOnToPush(m, d)
  <2>1. /\ result' = result \/ \E d \in Dist : result' = [result EXCEPT ![m][d] = Handled]
        /\ UNCHANGED <<cur, commit>>
        /\ pc' = pc \/ pc' = [pc EXCEPT ![m] = "finally"]
    BY <1>3 DEF LoopStep, TaskRaises, OverLimit, DryRun, EmptyCommit, CommitFails, StopsLocally,
                RequiresNoChanges, RemoteConflict, LoopEnds, CommitsOnly, Handle, Goto
  <2>2. pc[m] = "loop"
    BY LoopOthers
  <2>3. pc'[m] # "push"
    BY <2>1, <2>2
  <2>4. QED
    BY <2>1, <2>3
<1>4. QED
    BY <1>2, <1>3

(***************************************************************************)
(* What a call to GitHub does: a push, a pull request that is created or   *)
(* patched, or nothing; the proposal stays at hand until it is done with.  *)
(***************************************************************************)
DoesPush(m) ==
    /\ pc[m] = "push" /\ Pushed(m) /\ pr' = pr
    /\ \/ pc'[m] = "finally"
       \/ trackBranch' = [trackBranch EXCEPT ![m][cur[m]] = branch'[cur[m]]]

DoesCreate(m) ==
    /\ pc[m] = "post" /\ Created(m) /\ pc'[m] \in {"loop", "finally"}
    /\ UNCHANGED <<branch, trackBranch>>

DoesPatch(m) ==
    /\ pc[m] = "patch" /\ pc'[m] = "loop"
    /\ pr' = [pr EXCEPT ![cur[m]].title = Title(m)]
    /\ owed' = owed \ {cur[m]}
    /\ UNCHANGED <<branch, trackBranch>>

DoesNothing(m) ==
    /\ UNCHANGED <<branch, pr, owed, trackBranch>>
    /\ pc'[m] \in {"post", "find", "patch"} => pc[m] \in {"post", "find", "patch"}

LEMMA GithubDoes ==
    ASSUME TypeInv, NEW m \in Machine, GithubStep(m)
    PROVE  /\ pc[m] \in Proposing /\ pc[m] \in Running
           /\ DoesPush(m) \/ DoesCreate(m) \/ DoesPatch(m) \/ DoesNothing(m)
           /\ pc'[m] \in Proposing => UNCHANGED <<result, cur, commit>>
           /\ \A n \in Machine, d \in Dist : result'[n][d] \in {result[n][d], Handled}
<1> USE DEF TypeInv, TypeOK, RunType
<1>1. pc[m] \in Proposing /\ pc[m] \in Running
    BY DEF GithubStep, PushReturnsAtFork, Push, PushFails, PostCreates, PostFindsExisting,
        PostRejected, PostFails, GetFinds, GetFails, Patch, PatchFails, Proposing, Running
<1>2. DoesPush(m) \/ DoesCreate(m) \/ DoesPatch(m) \/ DoesNothing(m)
  <2> USE DEF Goto, Returns, Raises
  <2>1. CASE PushReturnsAtFork(m) \/ Push(m) \/ PushFails(m)
    BY <2>1 DEF PushReturnsAtFork, Push, PushFails, DoesPush, DoesNothing, clone, history
  <2>2. CASE PostCreates(m) \/ PostFails(m)
    BY <2>2 DEF PostCreates, PostFails, DoesCreate, DoesNothing, clone
  <2>3. CASE Patch(m)
    BY <2>3 DEF Patch, DoesPatch, DoesNothing, clone
  <2>4. CASE PostFindsExisting(m) \/ PostRejected(m) \/ GetFinds(m) \/ GetFails(m) \/ PatchFails(m)
    BY <2>4 DEF PostFindsExisting, PostRejected, GetFinds, GetFails, PatchFails, DoesNothing,
                world, history, clone
  <2>5. QED
    BY <2>1, <2>2, <2>3, <2>4 DEF GithubStep
<1>3. pc'[m] \in Proposing => UNCHANGED <<result, cur, commit>>
    BY DEF GithubStep, PushReturnsAtFork, Push, PushFails, PostCreates, PostFindsExisting,
        PostRejected, PostFails, GetFinds, GetFails, Patch, PatchFails, Proposing, Returns, Raises, Goto
<1>4. result' = result \/ result' = [result EXCEPT ![m][cur[m]] = Handled]
    BY DEF GithubStep, PushReturnsAtFork, Push, PushFails, PostCreates, PostFindsExisting,
        PostRejected, PostFails, GetFinds, GetFails, Patch, PatchFails, Returns, Raises, Handle
<1>5. \A n \in Machine, d \in Dist : result'[n][d] \in {result[n][d], Handled}
    BY <1>4
<1>6. QED
    BY <1>1, <1>2, <1>3, <1>5

\* a task that ends changes no result that is known
LEMMA TaskResults ==
    ASSUME TypeInv, NEW m \in Machine, TaskStep(m)
    PROVE  /\ UNCHANGED <<pc, cur, commit, level>>
           /\ \A n \in Machine, d \in Dist : result[n][d] # Pending => result'[n][d] = result[n][d]
BY DEF TaskStep, TaskReturns, TaskFails, TaskEnds, TypeInv, TypeOK, RunType

----------------------------------------------------------------------------
(***************************************************************************)
(* What the title of a pull request is compared with: a commit that is     *)
(* being proposed is what the title says; what a run has pushed is still   *)
(* the beginning of the branch, unless the branch was deleted, when the    *)
(* run calls GitHub about it; and an open pull request has a branch, which *)
(* begins with the commit the title names unless it was pushed since.      *)
(***************************************************************************)
CommitIsTitle == \A m \in Machine : pc[m] \in Proposing => commit[m] = Title(m)

Calling == {"post", "find", "patch"}

PushedIsOurs ==
    \A m \in Machine : pc[m] \in Calling /\ branch[cur[m]] # << >> =>
        commit[m] \subseteq branch[cur[m]][1].edits

OpenDescribed ==
    \A d \in Dist : IsOpen(d) =>
        branch[d] # << >> /\ (d \notin owed => pr[d].title \subseteq branch[d][1].edits)

LEMMA CommitIsTitleNext ==
    ASSUME TypeInv, CleanWorktree, CommitIsTitle, [Next]_vars
    PROVE  CommitIsTitle'
<1> USE DEF TypeInv, TypeOK, RunType, CommitIsTitle
<1>1. ASSUME NEW m \in Machine, Checkout(m) PROVE CommitIsTitle'
  <2>1. /\ pc' = [pc EXCEPT ![m] = "off"] /\ UNCHANGED <<result, cur, commit>>
        /\ \A n \in Machine \ {m} : tree'[n] = tree[n] /\ trackMain'[n] = trackMain[n]
    BY <1>1 DEF Checkout, CloneType
  <2>2. QED
    BY <2>1 DEF Proposing, Title, Proposed
<1>2. ASSUME NEW m \in Machine, Starts(m) PROVE CommitIsTitle'
  <2>1. /\ pc' = [pc EXCEPT ![m] = "loop"] /\ UNCHANGED <<result, cur, commit, tree>>
        /\ \A n \in Machine \ {m} : trackMain'[n] = trackMain[n]
    BY <1>2 DEF Starts, Begin, CloneType
  <2>2. QED
    BY <2>1 DEF Proposing, Title, Proposed
<1>3. ASSUME NEW m \in Machine, TaskStep(m) PROVE CommitIsTitle'
  <2>1. \A n \in Machine : pc[n] \in Proposing => cur[n] \in Dist /\ result[n][cur[n]] # Pending
    BY DEF InProgress, Pending, ProposalKinds
  <2>2. QED
    BY <1>3, <2>1, TaskResults, LoopFrame DEF Title, Proposed
<1>4. ASSUME NEW m \in Machine, LoopStep(m) PROVE CommitIsTitle'
  <2>1. ASSUME NEW n \in Machine \ {m} PROVE pc'[n] \in Proposing => commit'[n] = Title(n)'
    BY <1>4, LoopResults, LoopOthers, LoopFrame DEF Title, Proposed
  <2>2. pc'[m] \in Proposing => commit'[m] = Title(m)'
    BY <1>4, LoopResults, LoopOthers, LoopFrame DEF Title, Proposed, Proposing
  <2>3. QED
    BY <2>1, <2>2
<1>5. ASSUME NEW m \in Machine, GithubStep(m) PROVE CommitIsTitle'
  <2>1. ASSUME NEW n \in Machine \ {m} PROVE pc'[n] \in Proposing => commit'[n] = Title(n)'
    BY <1>5, GithubOthers, GithubFrame DEF Title, Proposed
  <2>2. pc'[m] \in Proposing => commit'[m] = Title(m)'
    BY <1>5, GithubDoes, GithubFrame DEF Title, Proposed
  <2>3. QED
    BY <2>1, <2>2
<1>6. ASSUME NEW m \in Machine, Finally(m) \/ Crash(m) PROVE CommitIsTitle'
    BY <1>6, OverOthers DEF Proposing, Title, Proposed
<1>7. ASSUME NEW d \in Dist, EnvStep(d) PROVE CommitIsTitle'
    BY <1>7, EnvFrame DEF run, clone, Title, Proposed
<1>8. CASE UNCHANGED vars
    BY <1>8 DEF vars, run, clone, Title, Proposed
<1>9. QED
    BY <1>1, <1>2, <1>3, <1>4, <1>5, <1>6, <1>7, <1>8 DEF Next, RunStep

(***************************************************************************)
(* What people do to a branch keeps what its first commit changes, or      *)
(* deletes the branch.                                                     *)
(***************************************************************************)
LEMMA EnvBranch ==
    ASSUME TypeInv, NEW c \in Dist, EnvStep(c), NEW d \in Dist
    PROVE  branch'[d] = << >> \/ (branch[d] # << >> /\ branch[d][1].edits \subseteq branch'[d][1].edits)
<1>0. branch \in [Dist -> Seq(Commit)] /\ branch[d] \in Seq(Commit)
    BY DEF TypeInv, TypeOK, WorldType
<1>1. CASE branch'[d] = branch[d]
  <2>1. branch[d] # << >> => branch[d][1].edits \subseteq branch'[d][1].edits
    BY <1>1
  <2>2. QED
    BY <1>1, <2>1
<1>2. CASE d = c /\ DeleteBranch(c)
    BY <1>0, <1>2 DEF DeleteBranch
<1>3. CASE d = c /\ HumanCommit(c)
  <2> DEFINE h == [author |-> "human", edits |-> {StubEdit(c)}]
  <2>1. branch[d] # << >> /\ branch'[d] = Append(branch[d], h)
    BY <1>0, <1>3 DEF HumanCommit
  <2>2. branch'[d][1] = branch[d][1]
    BY <1>0, <2>1
  <2>3. QED
    BY <2>1, <2>2
<1>4. CASE d = c /\ HumanAmend(c)
  <2>1. branch[d] # << >> /\ branch'[d] = [branch[d] EXCEPT ![Len(branch[d])].edits = @ \cup {StubEdit(d)}]
    BY <1>0, <1>4 DEF HumanAmend
  <2>2. 1 \in DOMAIN branch[d] /\ branch[d][1] \in Commit
    BY <1>0, <2>1
  <2>3. branch[d][1].edits \subseteq branch'[d][1].edits
    BY <1>0, <2>1, <2>2 DEF Commit
  <2>4. QED
    BY <2>1, <2>3
<1>5. branch' = branch \/ ((DeleteBranch(c) \/ HumanCommit(c) \/ HumanAmend(c))
                              /\ \A b \in Dist \ {c} : branch'[b] = branch[b])
    BY <1>0 DEF EnvStep, Release, Annotate, MergePr, ClosePr, ReopenPr, DeleteBranch,
        HumanCommit, HumanAmend, HumanLands
<1>6. QED
    BY <1>1, <1>2, <1>3, <1>4, <1>5

(***************************************************************************)
(* Runs do not overlap, so that nobody else pushes to the branch a run has *)
(* just pushed.                                                            *)
(***************************************************************************)
LEMMA PushedIsOursNext ==
    ASSUME TypeInv, CleanWorktree, Alone, PushedIsOurs, [Next]_vars
    PROVE  PushedIsOurs'
<1> USE DEF TypeInv, TypeOK, RunType, PushedIsOurs, Calling
<1>1. ASSUME NEW m \in Machine, Checkout(m) PROVE PushedIsOurs'
  <2>1. pc' = [pc EXCEPT ![m] = "off"] /\ UNCHANGED <<branch, cur, commit>>
    BY <1>1 DEF Checkout, world
  <2>2. QED
    BY <2>1
<1>2. ASSUME NEW m \in Machine, Starts(m) PROVE PushedIsOurs'
  <2>1. pc' = [pc EXCEPT ![m] = "loop"] /\ UNCHANGED <<branch, cur, commit>>
    BY <1>2 DEF Starts, Begin, world
  <2>2. QED
    BY <2>1
<1>3. ASSUME NEW m \in Machine, TaskStep(m) PROVE PushedIsOurs'
    BY <1>3, TaskResults, LoopFrame DEF world
<1>4. ASSUME NEW m \in Machine, LoopStep(m) PROVE PushedIsOurs'
  <2>1. UNCHANGED branch /\ pc'[m] \notin Calling
    BY <1>4, LoopFrame, LoopOthers DEF world
  <2>2. ASSUME NEW n \in Machine \ {m}
        PROVE  pc'[n] = pc[n] /\ cur'[n] = cur[n] /\ commit'[n] = commit[n]
    BY <1>4, LoopResults, LoopOthers
  <2>3. QED
    BY <2>1, <2>2
<1>5. ASSUME NEW m \in Machine, GithubStep(m) PROVE PushedIsOurs'
  <2>1. \A n \in Machine \ {m} : pc'[n] \notin Calling
    BY <1>5, GithubDoes, GithubOthers DEF Alone, Running
  <2>2. CASE pc'[m] \in Calling
    <3>1. UNCHANGED <<cur, commit>> /\ cur[m] \in Dist
      BY <1>5, <2>2, GithubDoes DEF Proposing, InProgress
    <3>2. CASE DoesPush(m)
      <4>1. branch'[cur[m]] = <<BotCommit(commit[m])>>
        BY <3>1, <3>2 DEF DoesPush, Pushed, WorldType
      <4>2. QED
        BY <2>1, <3>1, <4>1 DEF BotCommit
    <3>3. CASE DoesCreate(m)
      BY <2>1, <2>2, <3>1, <3>3 DEF DoesCreate
    <3>4. CASE DoesPatch(m)
      BY <2>1, <2>2, <3>1, <3>4 DEF DoesPatch
    <3>5. CASE DoesNothing(m)
      BY <2>1, <2>2, <3>1, <3>5 DEF DoesNothing
    <3>6. QED
      BY <1>5, <3>2, <3>3, <3>4, <3>5, GithubDoes
  <2>3. QED
    BY <2>1, <2>2
<1>6. ASSUME NEW m \in Machine, Finally(m) \/ Crash(m) PROVE PushedIsOurs'
    BY <1>6, OverOthers DEF world
<1>7. ASSUME NEW d \in Dist, EnvStep(d) PROVE PushedIsOurs'
  <2>1. UNCHANGED <<pc, cur, commit>> /\ \A m \in Machine : pc[m] \in Calling => cur[m] \in Dist
    BY <1>7, EnvFrame DEF run, InProgress, Proposing
  <2>2. QED
    BY <1>7, <2>1, EnvBranch
<1>8. CASE UNCHANGED vars
    BY <1>8 DEF vars, run, world
<1>9. QED
    BY <1>1, <1>2, <1>3, <1>4, <1>5, <1>6, <1>7, <1>8 DEF Next, RunStep

LEMMA OpenDescribedNext ==
    ASSUME TypeInv, CommitIsTitle, PushedIsOurs, OpenDescribed, [Next]_vars
    PROVE  OpenDescribed'
<1> USE DEF TypeInv, TypeOK, WorldType, Pr, OpenDescribed, IsOpen
<1>1. ASSUME UNCHANGED <<branch, pr, owed>> PROVE OpenDescribed'
    BY <1>1
<1>2. ASSUME NEW m \in Machine,
             Checkout(m) \/ Starts(m) \/ TaskStep(m) \/ LoopStep(m) \/ Finally(m) \/ Crash(m)
      PROVE  OpenDescribed'
    BY <1>1, <1>2, LoopFrame DEF Checkout, Starts, Begin, Finally, Crash, world, history
<1>3. ASSUME NEW m \in Machine, GithubStep(m) PROVE OpenDescribed'
  <2>0. cur[m] \in Dist /\ commit[m] = Title(m)
    BY <1>3, GithubDoes DEF InProgress, CommitIsTitle
  <2>1. CASE DoesPush(m)
    BY <2>0, <2>1 DEF DoesPush, Pushed
  <2>2. CASE DoesCreate(m)
    <3>1. branch[cur[m]] # << >> /\ Title(m) \subseteq branch[cur[m]][1].edits
      BY <2>0, <2>2 DEF DoesCreate, Created, PushedIsOurs, Calling
    <3>2. pr'[cur[m]].title = Title(m) /\ \A d \in Dist \ {cur[m]} : pr'[d] = pr[d]
      BY <2>0, <2>2 DEF DoesCreate, Created
    <3>3. QED
      BY <2>2, <3>1, <3>2 DEF DoesCreate, Created
  <2>3. CASE DoesPatch(m)
    <3>1. pr'[cur[m]].title = Title(m) /\ pr'[cur[m]].state = pr[cur[m]].state
          /\ \A d \in Dist \ {cur[m]} : pr'[d] = pr[d]
      BY <2>0, <2>3 DEF DoesPatch
    <3>2. branch[cur[m]] # << >> => Title(m) \subseteq branch[cur[m]][1].edits
      BY <2>0, <2>3 DEF DoesPatch, PushedIsOurs, Calling
    <3>3. QED
      BY <2>0, <2>3, <3>1, <3>2 DEF DoesPatch
  <2>4. CASE DoesNothing(m)
    BY <1>1, <2>4 DEF DoesNothing
  <2>5. QED
    BY <1>3, <2>1, <2>2, <2>3, <2>4, GithubDoes
<1>4. ASSUME NEW d \in Dist, EnvStep(d) PROVE OpenDescribed'
  <2>1. ASSUME NEW c \in Dist, IsOpen(c)'
        PROVE  branch'[c] # << >> /\ (c \notin owed' => pr'[c].title \subseteq branch'[c][1].edits)
    <3>1. CASE c = d /\ ReopenPr(d)
      BY <2>1, <3>1 DEF ReopenPr
    <3>2. CASE ~(c = d /\ ReopenPr(d))
      <4>1. /\ IsOpen(c) /\ pr'[c].title = pr[c].title /\ ~(c = d /\ DeleteBranch(d))
            /\ (c \in owed => c \in owed')
        BY <1>4, <2>1, <3>2 DEF EnvStep, Release, Annotate, MergePr, ClosePr, ReopenPr, DeleteBranch,
            HumanCommit, HumanAmend, HumanLands, history
      <4>2. branch'[c] # << >>
        BY <1>4, <4>1 DEF EnvStep, Release, Annotate, MergePr, ClosePr, ReopenPr, DeleteBranch,
            HumanCommit, HumanAmend, HumanLands
      <4>3. QED
        BY <1>4, <4>1, <4>2, EnvBranch
    <3>3. QED
      BY <3>1, <3>2
  <2>2. QED
    BY <2>1
<1>5. CASE UNCHANGED vars
    BY <1>1, <1>5 DEF vars, world, history
<1>6. QED
    BY <1>2, <1>3, <1>4, <1>5 DEF Next, RunStep

(***************************************************************************)
(* Where two runs are never in progress at once (a daily schedule, and     *)
(* nobody starts one by hand meanwhile), the title of an open pull request *)
(* names the proposal its branch holds, unless the branch was pushed and   *)
(* the pull request not updated since.                                     *)
(***************************************************************************)
THEOREM TitlesAreTrue ==
    ASSUME ~Overlap
    PROVE  Spec => []PrDescribesBranch
<1> DEFINE Inv == CleanWorktree /\ Alone /\ CommitIsTitle /\ PushedIsOurs /\ OpenDescribed
<1>1. Init => Inv
    BY DEF Init, CleanWorktree, Awaiting, Alone, Running, CommitIsTitle, Proposing, PushedIsOurs,
           Calling, OpenDescribed, IsOpen
<1>2. TypeInv /\ Inv /\ [Next]_vars => Inv'
    BY CleanNext, AloneNext, CommitIsTitleNext, PushedIsOursNext, OpenDescribedNext
<1>3. Inv => PrDescribesBranch
    BY DEF OpenDescribed, PrDescribesBranch
<1>4. QED
    BY <1>1, <1>2, <1>3, TypeCorrect, PTL DEF Spec

----------------------------------------------------------------------------
(***************************************************************************)
(* Why a declined proposal stays declined.  The title of a pull request is *)
(* one edit of its distribution's METADATA.toml, and only the bot gives    *)
(* it.                                                                     *)
(***************************************************************************)
Proposals(d) == {e \in Edit : e.dist = d /\ e.kind \in ProposalKinds}

OneTitle == \A d \in Dist : pr[d].title = {} \/ \E e \in Proposals(d) : pr[d].title = {e}

LEMMA TitleIsOne ==
    ASSUME TypeInv, NEW m \in Machine, pc[m] \in Proposing
    PROVE  cur[m] \in Dist /\ \E e \in Proposals(cur[m]) : Title(m) = {e}
<1>1. cur[m] \in Dist /\ result[m][cur[m]].kind \in ProposalKinds
    BY DEF TypeInv, InProgress
<1>2. Proposed(m, cur[m]) \in Proposals(cur[m])
    BY <1>1, ProposedType DEF TypeInv, Proposals
<1>3. QED
    BY <1>1, <1>2 DEF Title

LEMMA EnvTitles ==
    ASSUME TypeInv, NEW c \in Dist, EnvStep(c), NEW d \in Dist
    PROVE  pr'[d].title = pr[d].title /\ pr'[d].number = pr[d].number
<1>0. pr \in [Dist -> Pr] /\ pr[d] \in Pr
    BY DEF TypeInv, TypeOK, WorldType
<1>1. pr' = pr \/ \E s : pr' = [pr EXCEPT ![c].state = s]
    BY DEF EnvStep, Release, Annotate, MergePr, ClosePr, ReopenPr, DeleteBranch,
           HumanCommit, HumanAmend, HumanLands
<1>2. QED
    BY <1>0, <1>1 DEF Pr

LEMMA OneTitleNext ==
    ASSUME TypeInv, OneTitle, [Next]_vars
    PROVE  OneTitle'
<1>0. pr \in [Dist -> Pr]
    BY DEF TypeInv, TypeOK, WorldType
<1>1. ASSUME UNCHANGED pr PROVE OneTitle'
    BY <1>1 DEF OneTitle
<1>2. ASSUME NEW m \in Machine,
             Checkout(m) \/ Starts(m) \/ TaskStep(m) \/ LoopStep(m) \/ Finally(m) \/ Crash(m)
      PROVE  OneTitle'
    BY <1>1, <1>2, LoopFrame DEF Checkout, Starts, Begin, Finally, Crash, world
<1>3. ASSUME NEW m \in Machine, GithubStep(m) PROVE OneTitle'
  <2>1. PICK w \in Proposals(cur[m]) : Title(m) = {w} /\ cur[m] \in Dist
    BY <1>3, GithubDoes, TitleIsOne
  <2>2. pr[cur[m]] \in Pr
    BY <1>0, <2>1
  <2>3. CASE DoesCreate(m) \/ DoesPatch(m)
    <3>1. pr'[cur[m]].title = {w} /\ \A d \in Dist \ {cur[m]} : pr'[d] = pr[d]
      BY <1>0, <2>1, <2>2, <2>3 DEF DoesCreate, Created, DoesPatch, Pr
    <3>2. QED
      BY <2>1, <3>1 DEF OneTitle
  <2>4. QED
    BY <1>1, <1>3, <2>3, GithubDoes DEF DoesPush, DoesNothing
<1>4. ASSUME NEW c \in Dist, EnvStep(c) PROVE OneTitle'
    BY <1>4, EnvTitles DEF OneTitle
<1>5. CASE UNCHANGED vars
    BY <1>1, <1>5 DEF vars, world
<1>6. QED
    BY <1>2, <1>3, <1>4, <1>5 DEF Next, RunStep

(***************************************************************************)
(* What is in the way of a declined proposal: its branch, which a run that *)
(* fetched before it began sees as it is, so that the comparison with the  *)
(* last commit of origin/branch stops it.                                  *)
(***************************************************************************)
Holds(d, e) == branch[d] = <<BotCommit({e})>>

TrackIsFresh ==
    \A m \in Machine, d \in Dist : pc[m] \in Awaiting \cup {"push"} /\ level[m] > Local =>
        \A e \in Proposals(d) : Holds(d, e) => trackBranch[m][d] = branch[d]

PushDiffers ==
    \A m \in Machine : pc[m] = "push" => LatestCommitIsDifferent(trackBranch[m][cur[m]], commit[m])

DeclinedHeld == \A e \in declined : e \in Proposals(e.dist) /\ Holds(e.dist, e)

Unanswered(d) == d \in owed \/ pr[d].state = "merged" \/ branch[d] = << >>

NotDeclined ==
    \A m \in Machine : pc[m] \in Calling => commit[m] \cap declined = {} /\ Unanswered(cur[m])

\* a person never leaves a branch with one commit of the bot that was not there before
LEMMA EnvHolds ==
    ASSUME TypeInv, NEW c \in Dist, EnvStep(c), NEW d \in Dist, NEW e \in Proposals(d), Holds(d, e)'
    PROVE  branch'[d] = branch[d]
<1>0. branch \in [Dist -> Seq(Commit)] /\ branch[d] \in Seq(Commit)
    BY DEF TypeInv, TypeOK, WorldType
<1>1. branch'[d] = <<BotCommit({e})>>
    BY DEF Holds
<1>2. CASE d = c /\ DeleteBranch(c)
    BY <1>0, <1>1, <1>2 DEF DeleteBranch
<1>3. CASE d = c /\ HumanCommit(c)
  <2>1. branch'[d] = Append(branch[d], [author |-> "human", edits |-> {StubEdit(c)}]) /\ branch[d] # << >>
    BY <1>0, <1>3 DEF HumanCommit
  <2>2. Len(branch'[d]) = Len(branch[d]) + 1 /\ Len(branch[d]) # 0 /\ Len(branch[d]) \in Nat
    BY <1>0, <2>1
  <2>3. QED
    BY <1>1, <2>2
<1>4. CASE d = c /\ HumanAmend(c)
  <2>1. branch[d] # << >> /\ branch'[d] = [branch[d] EXCEPT ![Len(branch[d])].edits = @ \cup {StubEdit(d)}]
    BY <1>0, <1>4 DEF HumanAmend
  <2>2. Len(branch[d]) \in 1..Len(branch[d]) /\ branch[d][Len(branch[d])] \in Commit
    BY <1>0, <2>1
  <2>3. StubEdit(d) \in branch'[d][Len(branch[d])].edits /\ Len(branch'[d]) = Len(branch[d])
    BY <1>0, <2>1, <2>2 DEF Commit
  <2>4. branch'[d][1].edits = {e} /\ Len(branch'[d]) = 1
    BY <1>1 DEF BotCommit
  <2>5. StubEdit(d) = e
    BY <2>3, <2>4
  <2>6. QED
    BY <2>5 DEF StubEdit, Proposals, ProposalKinds
<1>5. branch' = branch \/ ((DeleteBranch(c) \/ HumanCommit(c) \/ HumanAmend(c))
                              /\ \A b \in Dist \ {c} : branch'[b] = branch[b])
    BY <1>0 DEF EnvStep, Release, Annotate, MergePr, ClosePr, ReopenPr, DeleteBranch,
        HumanCommit, HumanAmend, HumanLands
<1>6. QED
    BY <1>2, <1>3, <1>4, <1>5

LEMMA TrackIsFreshNext ==
    ASSUME TypeInv, Alone, TrackIsFresh, [Next]_vars
    PROVE  TrackIsFresh'
<1> USE DEF TypeInv, TypeOK, RunType, CloneType, Awaiting
<1> DEFINE Fresh(n) == pc[n] \in Awaiting \cup {"push"} /\ level[n] > Local =>
                          \A d \in Dist : \A e \in Proposals(d) : Holds(d, e) => trackBranch[n][d] = branch[d]
<1>0. /\ \A n \in Machine : Fresh(n)
      /\ (\A n \in Machine : Fresh(n)') => TrackIsFresh'
    BY DEF TrackIsFresh
<1>1. ASSUME NEW m \in Machine, Checkout(m) PROVE TrackIsFresh'
  <2>1. /\ UNCHANGED branch /\ pc'[m] = "off"
        /\ \A n \in Machine \ {m} : pc'[n] = pc[n] /\ level'[n] = level[n] /\ trackBranch'[n] = trackBranch[n]
    BY <1>1 DEF Checkout, world
  <2>2. QED
    BY <1>0, <2>1 DEF Holds
<1>2. ASSUME NEW m \in Machine, Starts(m) PROVE TrackIsFresh'
  <2>1. PICK lv \in Levels, lim \in Limits : Begin(m, lv, lim)
    BY <1>2 DEF Starts
  <2>2. /\ UNCHANGED branch /\ level'[m] = lv /\ lv \in 0..3
        /\ \A n \in Machine \ {m} : pc'[n] = pc[n] /\ level'[n] = level[n] /\ trackBranch'[n] = trackBranch[n]
    BY <2>1, StubsabotAssumption DEF Begin, world, Nothing, Everything
  <2>3. lv > Local => trackBranch'[m] = branch
    BY <2>1, <2>2 DEF Begin, Local, Fork
  <2>4. QED
    BY <1>0, <2>2, <2>3 DEF Holds
<1>3. ASSUME NEW m \in Machine, TaskStep(m) PROVE TrackIsFresh'
  <2>1. UNCHANGED <<branch, pc, level, trackBranch>>
    BY <1>3, TaskResults, LoopFrame DEF world
  <2>2. QED
    BY <1>0, <2>1 DEF Holds
<1>4. ASSUME NEW m \in Machine, LoopStep(m) PROVE TrackIsFresh'
  <2>1. UNCHANGED <<branch, level, trackBranch>> /\ pc[m] = "loop"
        /\ \A n \in Machine \ {m} : pc'[n] = pc[n]
    BY <1>4, LoopOthers, LoopFrame DEF world
  <2>2. QED
    BY <1>0, <2>1 DEF Holds
<1>5. ASSUME NEW m \in Machine, GithubStep(m) PROVE TrackIsFresh'
  <2>1. /\ pc[m] \in Awaiting \cup {"push"} /\ UNCHANGED level
        /\ \A n \in Machine \ {m} : pc'[n] \notin Awaiting \cup {"push"}
    BY <1>5, GithubDoes, GithubOthers, GithubFrame DEF Alone, Running, Proposing
  <2>2. CASE UNCHANGED <<branch, trackBranch>>
    BY <1>0, <2>1, <2>2 DEF Holds
  <2>3. CASE DoesPush(m)
    <3>0. cur[m] \in Dist
      BY <2>3 DEF DoesPush, InProgress, Proposing
    <3>1. \A d \in Dist \ {cur[m]} : branch'[d] = branch[d]
      BY <2>3 DEF DoesPush, Pushed, WorldType
    <3>2. CASE pc'[m] = "finally"
      BY <1>0, <2>1, <3>2
    <3>3. CASE trackBranch' = [trackBranch EXCEPT ![m][cur[m]] = branch'[cur[m]]]
      <4>1. /\ trackBranch'[m][cur[m]] = branch'[cur[m]]
            /\ \A d \in Dist \ {cur[m]} : trackBranch'[m][d] = trackBranch[m][d]
        BY <3>0, <3>3
      <4>2. Fresh(m)'
        BY <1>0, <2>1, <3>1, <4>1 DEF Holds
      <4>3. QED
        BY <1>0, <2>1, <4>2
    <3>4. QED
      BY <2>3, <3>2, <3>3 DEF DoesPush
  <2>4. QED
    BY <1>5, <2>2, <2>3, GithubDoes DEF DoesCreate, DoesPatch, DoesNothing
<1>6. ASSUME NEW m \in Machine, Finally(m) \/ Crash(m) PROVE TrackIsFresh'
  <2>1. /\ UNCHANGED branch /\ pc'[m] \notin Awaiting \cup {"push"}
        /\ \A n \in Machine \ {m} : pc'[n] = pc[n] /\ level'[n] = level[n] /\ trackBranch'[n] = trackBranch[n]
    BY <1>6, OverOthers DEF world
  <2>2. QED
    BY <1>0, <2>1 DEF Holds
<1>7. ASSUME NEW c \in Dist, EnvStep(c) PROVE TrackIsFresh'
  <2>1. UNCHANGED <<pc, level, trackBranch>>
    BY <1>7, EnvFrame DEF run, clone
  <2>2. \A d \in Dist : \A e \in Proposals(d) : Holds(d, e)' => branch'[d] = branch[d]
    BY <1>7, EnvHolds
  <2>3. QED
    BY <1>0, <2>1, <2>2 DEF Holds
<1>8. CASE UNCHANGED vars
  <2>1. UNCHANGED <<branch, pc, level, trackBranch>>
    BY <1>8 DEF vars, world, run, clone
  <2>2. QED
    BY <1>0, <2>1 DEF Holds
<1>9. QED
    BY <1>1, <1>2, <1>3, <1>4, <1>5, <1>6, <1>7, <1>8 DEF Next, RunStep

LEMMA PushDiffersNext ==
    ASSUME TypeInv, CleanWorktree, PushDiffers, [Next]_vars
    PROVE  PushDiffers'
<1> USE DEF TypeInv, TypeOK, RunType, CloneType, PushDiffers
<1>1. ASSUME NEW m \in Machine, pc'[m] # "push",
             \A n \in Machine \ {m} : /\ pc'[n] = pc[n] /\ cur'[n] = cur[n] /\ commit'[n] = commit[n]
                                       /\ trackBranch'[n] = trackBranch[n]
      PROVE  PushDiffers'
    BY <1>1
<1>2. ASSUME NEW m \in Machine, Checkout(m) \/ Starts(m) PROVE PushDiffers'
  <2>1. /\ pc'[m] # "push"
        /\ \A n \in Machine \ {m} : /\ pc'[n] = pc[n] /\ cur'[n] = cur[n] /\ commit'[n] = commit[n]
                                     /\ trackBranch'[n] = trackBranch[n]
    BY <1>2 DEF Checkout, Starts, Begin
  <2>2. QED
    BY <1>1, <2>1
<1>3. ASSUME NEW m \in Machine, TaskStep(m) PROVE PushDiffers'
    BY <1>3, TaskResults, LoopFrame
<1>4. ASSUME NEW m \in Machine, LoopStep(m) PROVE PushDiffers'
  <2>1. UNCHANGED trackBranch /\ \A n \in Machine \ {m} : pc'[n] = pc[n] /\ cur'[n] = cur[n] /\ commit'[n] = commit[n]
    BY <1>4, LoopOthers, LoopResults, LoopFrame
  <2>2. pc'[m] = "push" => LatestCommitIsDifferent(trackBranch[m][cur'[m]], commit'[m])
    BY <1>4, LoopResults
  <2>3. QED
    BY <2>1, <2>2 DEF LatestCommitIsDifferent
<1>5. ASSUME NEW m \in Machine, GithubStep(m) PROVE PushDiffers'
    BY <1>1, <1>5, GithubOthers
<1>6. ASSUME NEW m \in Machine, Finally(m) \/ Crash(m) PROVE PushDiffers'
    BY <1>1, <1>6, OverOthers
<1>7. ASSUME NEW c \in Dist, EnvStep(c) PROVE PushDiffers'
    BY <1>7, EnvFrame DEF run, clone
<1>8. CASE UNCHANGED vars
    BY <1>8 DEF vars, run, clone
<1>9. QED
    BY <1>2, <1>3, <1>4, <1>5, <1>6, <1>7, <1>8 DEF Next, RunStep

LEMMA DeclinedHeldNext ==
    ASSUME TypeInv, OneTitle, DeclinedHeld, [Next]_vars
    PROVE  DeclinedHeld'
<1>0. branch \in [Dist -> Seq(Commit)] /\ \A e \in declined : e.dist \in Dist
    BY DEF TypeInv, TypeOK, WorldType, HistoryType, Edit
<1>1. ASSUME UNCHANGED branch, declined' \subseteq declined PROVE DeclinedHeld'
    BY <1>1 DEF DeclinedHeld, Holds
<1>2. ASSUME NEW m \in Machine,
             Checkout(m) \/ Starts(m) \/ TaskStep(m) \/ LoopStep(m) \/ Finally(m) \/ Crash(m)
      PROVE  DeclinedHeld'
    BY <1>1, <1>2, LoopFrame DEF Checkout, Starts, Begin, Finally, Crash, world, history
<1>3. ASSUME NEW m \in Machine, GithubStep(m) PROVE DeclinedHeld'
  <2>1. declined' \subseteq declined
    BY <1>3, GithubFrame
  <2>2. CASE DoesPush(m)
    <3>1. cur[m] \in Dist
      BY <2>2, TitleIsOne DEF DoesPush, Proposing
    <3>2. /\ branch'[cur[m]] = <<BotCommit(commit[m])>>
          /\ \A d \in Dist \ {cur[m]} : branch'[d] = branch[d]
          /\ \A e \in declined' : e.dist = cur[m] => commit[m] = {e}
      BY <1>0, <2>2, <3>1 DEF DoesPush, Pushed
    <3>3. QED
      BY <1>0, <2>1, <3>2 DEF DeclinedHeld, Holds
  <2>3. QED
    BY <1>1, <1>3, <2>1, <2>2, GithubDoes DEF DoesCreate, DoesPatch, DoesNothing
<1>4. ASSUME NEW c \in Dist, EnvStep(c) PROVE DeclinedHeld'
  <2>1. CASE ClosePr(c)
    <3>1. ASSUME NEW e \in declined', e \notin declined
          PROVE  e \in Proposals(e.dist) /\ Holds(e.dist, e)
      <4>1. e \in pr[c].title /\ branch[c] = <<BotCommit(pr[c].title)>>
        BY <2>1, <3>1 DEF ClosePr
      <4>2. pr[c].title = {e} /\ e \in Proposals(c)
        BY <4>1 DEF OneTitle
      <4>3. QED
        BY <4>1, <4>2 DEF Proposals, Holds
    <3>2. UNCHANGED branch
      BY <2>1 DEF ClosePr
    <3>3. QED
      BY <3>1, <3>2 DEF DeclinedHeld, Holds
  <2>2. CASE DeleteBranch(c) \/ HumanCommit(c) \/ HumanAmend(c)
    <3>1. declined' = {e \in declined : e.dist # c} /\ \A d \in Dist \ {c} : branch'[d] = branch[d]
      BY <1>0, <2>2 DEF DeleteBranch, HumanCommit, HumanAmend
    <3>2. QED
      BY <1>0, <3>1 DEF DeclinedHeld, Holds
  <2>3. CASE Release(c) \/ Annotate(c) \/ MergePr(c) \/ ReopenPr(c) \/ HumanLands(c)
    BY <1>1, <2>3 DEF Release, Annotate, MergePr, ReopenPr, HumanLands, history
  <2>4. QED
    BY <1>4, <2>1, <2>2, <2>3 DEF EnvStep
<1>5. CASE UNCHANGED vars
    BY <1>1, <1>5 DEF vars, world, history
<1>6. QED
    BY <1>2, <1>3, <1>4, <1>5 DEF Next, RunStep

(***************************************************************************)
(* A push is never of a proposal that was declined: the branch of such a   *)
(* proposal would have been found to require no changes.                   *)
(***************************************************************************)
LEMMA PushIsNews ==
    ASSUME TypeInv, LevelAtLabel, CommitIsTitle, TrackIsFresh, PushDiffers, DeclinedHeld,
           NEW m \in Machine, pc[m] = "push"
    PROVE  commit[m] \cap declined = {}
<1> SUFFICES ASSUME NEW e \in declined, e \in commit[m] PROVE FALSE
    OBVIOUS
<1>1. cur[m] \in Dist /\ commit[m] = Title(m) /\ level[m] > Local
    BY TitleIsOne DEF Proposing, CommitIsTitle, LevelAtLabel
<1>2. commit[m] = {e} /\ e \in Proposals(cur[m])
    BY <1>1, TitleIsOne DEF Proposing
<1>3. e.dist = cur[m]
    BY <1>2 DEF Proposals
<1>4. branch[cur[m]] = <<BotCommit({e})>>
    BY <1>3 DEF DeclinedHeld, Holds
<1>5. trackBranch[m][cur[m]] = <<BotCommit({e})>>
    BY <1>1, <1>2, <1>4 DEF TrackIsFresh, Holds
<1>6. Last(trackBranch[m][cur[m]]) = BotCommit({e}) /\ trackBranch[m][cur[m]] # << >>
    BY <1>5 DEF Last
<1>7. QED
    BY <1>1, <1>2, <1>6 DEF PushDiffers, LatestCommitIsDifferent

\* closing a pull request that the run has yet to open or update declines nothing
LEMMA CloseOfUnanswered ==
    ASSUME TypeInv, NEW c \in Dist, ClosePr(c), Unanswered(c)
    PROVE  declined' = declined
<1>1. c \in owed \/ branch[c] = << >>
    BY DEF Unanswered, ClosePr, IsOpen
<1>2. branch[c] = << >> => branch[c] # <<BotCommit(pr[c].title)>>
    OBVIOUS
<1>3. QED
    BY <1>1, <1>2 DEF ClosePr

LEMMA NotDeclinedNext ==
    ASSUME TypeInv, CleanWorktree, Alone, LevelAtLabel, CommitIsTitle, OneTitle, TrackIsFresh,
           PushDiffers, DeclinedHeld, NotDeclined, [Next]_vars
    PROVE  NotDeclined'
<1> USE DEF TypeInv, TypeOK, RunType
<1> DEFINE Good(n) == pc[n] \in Calling => commit[n] \cap declined = {} /\ Unanswered(cur[n])
<1>0. /\ \A n \in Machine : Good(n)
      /\ (\A n \in Machine : Good(n)') => NotDeclined'
    BY DEF NotDeclined
<1>1. ASSUME UNCHANGED <<branch, pr, owed>>, declined' \subseteq declined,
             \A n \in Machine : pc'[n] \in Calling =>
                 pc[n] \in Calling /\ cur'[n] = cur[n] /\ commit'[n] = commit[n]
      PROVE  NotDeclined'
    BY <1>0, <1>1 DEF Unanswered
<1>2. ASSUME NEW m \in Machine, Checkout(m) \/ Starts(m) PROVE NotDeclined'
  <2>1. UNCHANGED <<branch, pr, declined, owed, commit, cur>>
    BY <1>2 DEF Checkout, Starts, Begin, world, history
  <2>2. pc'[m] \notin Calling /\ \A n \in Machine \ {m} : pc'[n] = pc[n]
    BY <1>2 DEF Checkout, Starts, Begin, Calling
  <2>3. QED
    BY <1>1, <2>1, <2>2
<1>3. ASSUME NEW m \in Machine, TaskStep(m) PROVE NotDeclined'
  <2>1. UNCHANGED <<branch, pr, declined, owed, cur, pc, commit>>
    BY <1>3, TaskResults, LoopFrame DEF world, history
  <2>2. QED
    BY <1>1, <2>1
<1>4. ASSUME NEW m \in Machine, LoopStep(m) PROVE NotDeclined'
  <2>1. UNCHANGED <<branch, pr, declined, owed>> /\ pc'[m] \notin Calling
    BY <1>4, LoopOthers, LoopFrame DEF world, history, Calling
  <2>2. \A n \in Machine \ {m} : pc'[n] = pc[n] /\ cur'[n] = cur[n] /\ commit'[n] = commit[n]
    BY <1>4, LoopOthers, LoopResults
  <2>3. QED
    BY <1>1, <2>1, <2>2
<1>5. ASSUME NEW m \in Machine, GithubStep(m) PROVE NotDeclined'
  <2>1. \A n \in Machine \ {m} : pc'[n] \notin Calling
    BY <1>5, GithubDoes, GithubOthers DEF Alone, Running, Calling
  <2>2. CASE pc'[m] \in Calling
    <3>1. UNCHANGED <<cur, commit>> /\ cur[m] \in Dist /\ declined' \subseteq declined
      BY <1>5, <2>2, GithubDoes, GithubFrame DEF Proposing, Calling, InProgress
    <3>2. CASE DoesPush(m)
      <4>1. commit[m] \cap declined = {}
        BY <3>2, PushIsNews DEF DoesPush
      <4>2. Good(m)'
        BY <3>1, <3>2, <4>1 DEF DoesPush, Pushed, Unanswered
      <4>3. QED
        BY <1>0, <2>1, <4>2
    <3>3. CASE DoesNothing(m)
      BY <1>1, <2>1, <2>2, <3>1, <3>3 DEF DoesNothing, Calling
    <3>4. QED
      BY <1>5, <2>2, <3>2, <3>3, GithubDoes DEF DoesCreate, DoesPatch, Calling
  <2>3. QED
    BY <1>0, <2>1, <2>2
<1>6. ASSUME NEW m \in Machine, Finally(m) \/ Crash(m) PROVE NotDeclined'
  <2>1. UNCHANGED <<branch, pr, declined, owed>> /\ pc'[m] \notin Calling
    BY <1>6, OverOthers DEF world, history, Calling
  <2>2. \A n \in Machine \ {m} : pc'[n] = pc[n] /\ cur'[n] = cur[n] /\ commit'[n] = commit[n]
    BY <1>6, OverOthers
  <2>3. QED
    BY <1>1, <2>1, <2>2
<1>7. ASSUME NEW c \in Dist, EnvStep(c) PROVE NotDeclined'
  <2>0. UNCHANGED <<pc, cur, commit>>
    BY <1>7, EnvFrame DEF run
  <2> SUFFICES ASSUME NEW n \in Machine, pc[n] \in Calling PROVE Good(n)'
    BY <1>0, <2>0
  <2>1. cur[n] \in Dist /\ \A e \in commit[n] : e \in Proposals(cur[n])
    BY TitleIsOne DEF Proposing, Calling, CommitIsTitle
  <2>2. commit[n] \cap declined = {} /\ Unanswered(cur[n])
    BY <1>0
  <2>3. ASSUME NEW d \in Dist, Unanswered(d) PROVE Unanswered(d)'
    <3>0. branch \in [Dist -> Seq(Commit)] /\ pr \in [Dist -> Pr] /\ pr[d] \in Pr
      BY DEF WorldType
    <3>a. CASE MergePr(c)
      <4>1. pr' = [pr EXCEPT ![c].state = "merged"] /\ owed' = owed \ {c} /\ branch' = branch
        BY <3>a DEF MergePr
      <4>2. pr'[c].state = "merged" /\ (d # c => pr'[d] = pr[d])
        BY <3>0, <4>1 DEF Pr
      <4>3. QED
        BY <2>3, <4>1, <4>2 DEF Unanswered
    <3>b. CASE DeleteBranch(c)
      <4>1. /\ branch' = [branch EXCEPT ![c] = << >>] /\ owed' = owed \ {c}
            /\ d # c => pr'[d] = pr[d]
        BY <3>0, <3>b DEF DeleteBranch
      <4>2. QED
        BY <2>3, <3>0, <4>1 DEF Unanswered
    <3>2. CASE ClosePr(c) \/ ReopenPr(c)
      BY <2>3, <3>0, <3>2 DEF ClosePr, ReopenPr, IsOpen, Unanswered, Pr
    <3>3. CASE HumanCommit(c) \/ HumanAmend(c)
      BY <2>3, <3>0, <3>3 DEF HumanCommit, HumanAmend, Unanswered
    <3>4. CASE Release(c) \/ Annotate(c) \/ HumanLands(c)
      BY <2>3, <3>4 DEF Release, Annotate, HumanLands, Unanswered, history
    <3>5. QED
      BY <1>7, <3>a, <3>b, <3>2, <3>3, <3>4 DEF EnvStep
  <2>4. ASSUME NEW e \in commit[n] PROVE e \notin declined'
    <3>1. CASE ClosePr(c) /\ e \in pr[c].title
      <4>1. c = cur[n]
        BY <2>1, <3>1 DEF OneTitle, Proposals
      <4>2. declined' = declined
        BY <2>2, <3>1, <4>1, CloseOfUnanswered
      <4>3. QED
        BY <2>2, <4>2
    <3>2. CASE ~(ClosePr(c) /\ e \in pr[c].title)
      BY <1>7, <2>2, <3>2 DEF EnvStep, Release, Annotate, MergePr, ClosePr, ReopenPr, DeleteBranch,
                HumanCommit, HumanAmend, HumanLands, history
    <3>3. QED
      BY <3>1, <3>2
  <2>5. Unanswered(cur[n])'
    <3>1. \A d \in Dist : d = cur[n] => Unanswered(d)'
      BY <2>2, <2>3
    <3>2. QED
      BY <2>0, <2>1, <3>1 DEF Unanswered
  <2>6. QED
    BY <2>0, <2>4, <2>5
<1>8. CASE UNCHANGED vars
    BY <1>1, <1>8 DEF vars, world, history, run
<1>9. QED
    BY <1>2, <1>3, <1>4, <1>5, <1>6, <1>7, <1>8 DEF Next, RunStep

(***************************************************************************)
(* Where two runs are never in progress at once, a run opens no pull       *)
(* request for an edit that a person declined by closing its pull request  *)
(* and that the branch has held since: range-diff finds the last commit of *)
(* origin/branch to be what the run would push.  Nothing is assumed of how *)
(* pages change.                                                           *)
(***************************************************************************)
THEOREM DeclinedStayDeclined ==
    ASSUME ~Overlap
    PROVE  Spec => DeclinedNotReopened
<1> DEFINE Inv == /\ CleanWorktree /\ Alone /\ LevelAtLabel /\ CommitIsTitle
                  /\ OneTitle /\ TrackIsFresh /\ PushDiffers /\ DeclinedHeld /\ NotDeclined
<1>1. Init => Inv
  <2> SUFFICES ASSUME Init PROVE Inv
    OBVIOUS
  <2>1. CleanWorktree /\ Alone /\ LevelAtLabel /\ CommitIsTitle
    BY DEF Init, CleanWorktree, Awaiting, Alone, Running, LevelAtLabel, CommitIsTitle, Proposing
  <2>4. OneTitle
    BY DEF Init, OneTitle
  <2>5. TrackIsFresh /\ PushDiffers /\ DeclinedHeld /\ NotDeclined
    BY DEF Init, TrackIsFresh, Awaiting, PushDiffers, DeclinedHeld, NotDeclined, Calling
  <2>6. QED
    BY <2>1, <2>4, <2>5
<1>2. TypeInv /\ Inv /\ [Next]_vars => Inv'
    BY CleanNext, AloneNext, LevelNext, CommitIsTitleNext, OneTitleNext, TrackIsFreshNext,
       PushDiffersNext, DeclinedHeldNext, NotDeclinedNext
<1>3. TypeInv /\ Inv /\ [Next]_vars =>
        [\A d \in Dist : pr'[d].number # pr[d].number => pr'[d].title \cap declined = {}]_vars
  <2> SUFFICES ASSUME TypeInv, Inv, Next, NEW d \in Dist, pr'[d].number # pr[d].number
               PROVE  pr'[d].title \cap declined = {}
    OBVIOUS
  <2>0. pr \in [Dist -> Pr] /\ pr[d] \in Pr
    BY DEF TypeInv, TypeOK, WorldType
  <2>1. PICK m \in Machine : GithubStep(m)
    <3>1. ASSUME NEW n \in Machine,
                 Checkout(n) \/ Starts(n) \/ TaskStep(n) \/ LoopStep(n) \/ Finally(n) \/ Crash(n)
          PROVE  FALSE
      BY <3>1, LoopFrame DEF Checkout, Starts, Begin, Finally, Crash, world
    <3>2. ASSUME NEW c \in Dist, EnvStep(c) PROVE FALSE
      BY <3>2, EnvTitles
    <3>3. QED
      BY <3>1, <3>2 DEF Next, RunStep
  <2>2. cur[m] \in Dist
    BY <2>1, GithubDoes, TitleIsOne
  <2>3. DoesCreate(m)
    <3>1. ~DoesPatch(m)
      BY <2>0, <2>2 DEF DoesPatch, Pr
    <3>2. QED
      BY <2>1, <3>1, GithubDoes DEF DoesPush, DoesNothing
  <2>4. d = cur[m] /\ pr'[d].title = Title(m)
    BY <2>0, <2>2, <2>3 DEF DoesCreate, Created
  <2>5. QED
    BY <2>3, <2>4 DEF DoesCreate, NotDeclined, Calling, CommitIsTitle, Proposing
<1>4. QED
    BY <1>1, <1>2, <1>3, TypeCorrect, PTL DEF Spec, DeclinedNotReopened

----------------------------------------------------------------------------
(***************************************************************************)
(* When "No PR required" can be relied on.  The message is wrong after a   *)
(* run that pushed and did not get to its pull request.  There is no such  *)
(* run where runs do not overlap, no call to GitHub fails, no runner is    *)
(* lost, no run stops at the push (level fork) and nobody closes the pull  *)
(* request between the POST and the GET: a branch that is owed a pull      *)
(* request is then in the hands of a run that is about to open or update   *)
(* it.                                                                     *)
(***************************************************************************)
Undisturbed ==
    /\ ~Overlap
    /\ Failures \cap {"push", "api", "crash"} = {}
    /\ Fork \notin Levels
    /\ "close" \notin EnvActs

LevelsUsed == \A m \in Machine : pc[m] \in Running => level[m] \in Levels

InHand(m, d) ==
    /\ pc[m] \in Calling /\ cur[m] = d
    /\ branch[d] # << >>
    /\ pc[m] \in {"find", "patch"} => IsOpen(d)
    /\ pc[m] = "patch" => found[m] = pr[d].number

OwedIsInHand == \A d \in owed : \E m \in Machine : InHand(m, d)

LEMMA LevelsUsedNext ==
    ASSUME TypeInv, LevelsUsed, [Next]_vars
    PROVE  LevelsUsed'
<1> USE DEF TypeInv, TypeOK, RunType, LevelsUsed
<1>1. ASSUME NEW m \in Machine, Checkout(m) PROVE LevelsUsed'
    BY <1>1 DEF Checkout, Running
<1>2. ASSUME NEW m \in Machine, Starts(m) PROVE LevelsUsed'
    BY <1>2 DEF Starts, Begin
<1>3. ASSUME NEW m \in Machine, TaskStep(m) PROVE LevelsUsed'
    BY <1>3, TaskResults
<1>4. ASSUME NEW m \in Machine, LoopStep(m) PROVE LevelsUsed'
    BY <1>4, LoopOthers, LoopFrame DEF Running
<1>5. ASSUME NEW m \in Machine, GithubStep(m) PROVE LevelsUsed'
    BY <1>5, GithubDoes, GithubOthers, GithubFrame
<1>6. ASSUME NEW m \in Machine, Finally(m) \/ Crash(m) PROVE LevelsUsed'
    BY <1>6, OverOthers DEF Running
<1>7. ASSUME NEW d \in Dist, EnvStep(d) PROVE LevelsUsed'
    BY <1>7, EnvFrame DEF run
<1>8. CASE UNCHANGED vars
    BY <1>8 DEF vars, run
<1>9. QED
    BY <1>1, <1>2, <1>3, <1>4, <1>5, <1>6, <1>7, <1>8 DEF Next, RunStep

\* only DeleteBranch takes a branch away
LEMMA EnvKeepsBranch ==
    ASSUME TypeInv, NEW c \in Dist, EnvStep(c), NEW d \in Dist, branch[d] # << >>,
           ~(d = c /\ DeleteBranch(c))
    PROVE  branch'[d] # << >>
<1>0. branch \in [Dist -> Seq(Commit)] /\ branch[d] \in Seq(Commit)
    BY DEF TypeInv, TypeOK, WorldType
<1>1. CASE d = c /\ HumanCommit(c)
  <2>1. branch'[d] = Append(branch[d], [author |-> "human", edits |-> {StubEdit(c)}])
    BY <1>0, <1>1 DEF HumanCommit
  <2>2. QED
    BY <1>0, <2>1
<1>2. CASE d = c /\ HumanAmend(c)
  <2>1. branch'[d] = [branch[d] EXCEPT ![Len(branch[d])].edits = @ \cup {StubEdit(d)}]
    BY <1>0, <1>2 DEF HumanAmend
  <2>2. Len(branch'[d]) = Len(branch[d]) /\ Len(branch[d]) # 0
    BY <1>0, <2>1
  <2>3. QED
    BY <2>2
<1>3. branch' = branch \/ ((DeleteBranch(c) \/ HumanCommit(c) \/ HumanAmend(c))
                              /\ \A b \in Dist \ {c} : branch'[b] = branch[b])
    BY <1>0 DEF EnvStep, Release, Annotate, MergePr, ClosePr, ReopenPr, DeleteBranch,
        HumanCommit, HumanAmend, HumanLands
<1>4. QED
    BY <1>1, <1>2, <1>3

LEMMA OwedNext ==
    ASSUME Undisturbed, TypeInv, Alone, LevelAtLabel, LevelsUsed, OwedIsInHand, [Next]_vars
    PROVE  OwedIsInHand'
<1> USE DEF TypeInv, TypeOK, RunType
<1>1. ASSUME NEW n \in Machine, UNCHANGED <<branch, pr, owed>>, pc[n] \notin Calling,
             \A m \in Machine \ {n} : pc'[m] = pc[m] /\ cur'[m] = cur[m] /\ found'[m] = found[m]
      PROVE  OwedIsInHand'
  <2> SUFFICES ASSUME NEW d \in owed PROVE \E m \in Machine : InHand(m, d)'
    BY <1>1 DEF OwedIsInHand
  <2>1. PICK m \in Machine : InHand(m, d)
    BY DEF OwedIsInHand
  <2>2. pc'[m] = pc[m] /\ cur'[m] = cur[m] /\ found'[m] = found[m]
    BY <1>1, <2>1 DEF InHand
  <2>3. InHand(m, d)'
    BY <1>1, <2>1, <2>2 DEF InHand, IsOpen
  <2>4. QED
    BY <2>3
<1>2. ASSUME NEW n \in Machine, Checkout(n) \/ Starts(n) PROVE OwedIsInHand'
  <2>1. UNCHANGED <<branch, pr, owed>> /\ pc[n] \notin Calling
    BY <1>2 DEF Checkout, Starts, Begin, world, history, Calling
  <2>2. \A m \in Machine \ {n} : pc'[m] = pc[m] /\ cur'[m] = cur[m] /\ found'[m] = found[m]
    BY <1>2 DEF Checkout, Starts, Begin
  <2>3. QED
    BY <1>1, <2>1, <2>2
<1>3. ASSUME NEW n \in Machine, TaskStep(n) PROVE OwedIsInHand'
  <2>1. UNCHANGED <<branch, pr, owed, pc, cur, found>>
    BY <1>3 DEF TaskStep, TaskReturns, TaskFails, TaskEnds, world, history
  <2>2. QED
    BY <2>1 DEF OwedIsInHand, InHand, IsOpen
<1>4. ASSUME NEW n \in Machine, LoopStep(n) PROVE OwedIsInHand'
  <2>1. UNCHANGED <<branch, pr, owed>> /\ pc[n] \notin Calling
    BY <1>4, LoopFrame, LoopOthers DEF world, history, Calling
  <2>2. UNCHANGED found /\ (UNCHANGED cur \/ \E d \in Dist : cur' = [cur EXCEPT ![n] = d])
    BY <1>4 DEF LoopStep, TaskRaises, OverLimit, DryRun, EmptyCommit, CommitFails, StopsLocally,
                RequiresNoChanges, RemoteConflict, GoesOnToPush, LoopEnds, CommitsOnly, Commits
  <2>3. \A m \in Machine \ {n} : pc'[m] = pc[m] /\ cur'[m] = cur[m] /\ found'[m] = found[m]
    BY <1>4, <2>2, LoopOthers
  <2>4. QED
    BY <1>1, <2>1, <2>3
<1>5. ASSUME NEW n \in Machine, GithubStep(n) PROVE OwedIsInHand'
  <2>0. pc[n] \in Proposing /\ pc[n] \in Running /\ cur[n] \in Dist
    BY <1>5, GithubDoes DEF InProgress
  <2>1. \A d \in owed : d = cur[n] /\ InHand(n, d)
    BY <2>0 DEF OwedIsInHand, InHand, Alone, Calling, Running
  <2>2. CASE PushReturnsAtFork(n)
    <3>1. level[n] \in Levels /\ level[n] > Local /\ level[n] <= Fork /\ level[n] \in 0..3
      BY <2>0, <2>2 DEF PushReturnsAtFork, LevelsUsed, LevelAtLabel, Nothing, Everything
    <3>2. QED
      BY <3>1 DEF Undisturbed, Local, Fork
  <2>3. CASE Push(n)
    <3>1. owed = {}
      BY <2>1, <2>3 DEF InHand, Push, Calling
    <3>2. owed' = {cur[n]} /\ branch'[cur[n]] = <<BotCommit(commit[n])>> /\ pc'[n] = "post" /\ UNCHANGED cur
      BY <2>0, <2>3, <3>1 DEF Push, Pushed, Goto, WorldType
    <3>3. branch'[cur[n]] # << >>
      BY <3>2
    <3>4. QED
      BY <3>2, <3>3 DEF OwedIsInHand, InHand, Calling
  <2>4. CASE PostCreates(n)
    BY <2>1, <2>4 DEF PostCreates, Created, OwedIsInHand
  <2>5. CASE PostFindsExisting(n)
    <3>1. UNCHANGED <<branch, pr, owed, cur>> /\ pc'[n] = "find" /\ IsOpen(cur[n])
      BY <2>5 DEF PostFindsExisting, Goto, world, history
    <3>2. QED
      BY <2>1, <3>1 DEF OwedIsInHand, InHand, IsOpen, Calling
  <2>6. CASE PostRejected(n) \/ GetFails(n)
    <3>1. owed = {} /\ owed' = owed
      BY <2>1, <2>6 DEF PostRejected, GetFails, InHand, Undisturbed, history
    <3>2. QED
      BY <3>1 DEF OwedIsInHand
  <2>7. CASE GetFinds(n)
    <3>1. /\ UNCHANGED <<branch, pr, owed, cur>> /\ pc'[n] = "patch" /\ IsOpen(cur[n])
          /\ found'[n] = pr[cur[n]].number
      BY <2>7 DEF GetFinds, Goto, world, history
    <3>2. QED
      BY <2>1, <3>1 DEF OwedIsInHand, InHand, IsOpen, Calling
  <2>8. CASE Patch(n)
    <3>1. owed' = {}
      BY <2>1, <2>8 DEF Patch, InHand
    <3>2. QED
      BY <3>1 DEF OwedIsInHand
  <2>9. CASE PushFails(n) \/ PostFails(n) \/ PatchFails(n)
    BY <2>9 DEF PushFails, PostFails, PatchFails, Undisturbed
  <2>10. QED
    BY <1>5, <2>2, <2>3, <2>4, <2>5, <2>6, <2>7, <2>8, <2>9 DEF GithubStep
<1>6. ASSUME NEW n \in Machine, Finally(n) PROVE OwedIsInHand'
  <2>1. UNCHANGED <<branch, pr, owed>> /\ pc[n] \notin Calling
    BY <1>6 DEF Finally, world, history, Calling
  <2>2. \A m \in Machine \ {n} : pc'[m] = pc[m] /\ cur'[m] = cur[m] /\ found'[m] = found[m]
    BY <1>6 DEF Finally, Over, Goto
  <2>3. QED
    BY <1>1, <2>1, <2>2
<1>7. ASSUME NEW c \in Dist, EnvStep(c) PROVE OwedIsInHand'
  <2>0. UNCHANGED <<pc, cur, found>>
    BY <1>7, EnvFrame DEF run
  <2>1. ASSUME NEW d \in owed', NEW m \in Machine, InHand(m, d)
        PROVE  InHand(m, d)'
    <3>0. d \in Dist /\ pr \in [Dist -> Pr] /\ pr[d] \in Pr /\ branch \in [Dist -> Seq(Commit)]
      <4>1. d \in Dist
        BY <2>1 DEF InHand, InProgress, Calling, Proposing
      <4>2. QED
        BY <4>1 DEF WorldType
    <3>1. ~(d = c /\ (MergePr(c) \/ ClosePr(c) \/ DeleteBranch(c)))
      BY <2>1 DEF MergePr, ClosePr, DeleteBranch, ByHand, Undisturbed
    <3>2. branch'[d] # << >>
      BY <1>7, <2>1, <3>0, <3>1, EnvKeepsBranch DEF InHand
    <3>3. pr'[d].number = pr[d].number /\ (IsOpen(d) => IsOpen(d)')
      <4>1. \/ pr' = pr
            \/ \E s : pr' = [pr EXCEPT ![c].state = s] /\ (d # c \/ s = "open")
        BY <1>7, <3>1 DEF EnvStep, Release, Annotate, MergePr, ClosePr, ReopenPr, DeleteBranch,
            HumanCommit, HumanAmend, HumanLands
      <4>2. QED
        BY <3>0, <4>1 DEF IsOpen, Pr
    <3>4. QED
      BY <2>0, <2>1, <3>2, <3>3 DEF InHand
  <2>2. owed' \subseteq owed
    BY <1>7 DEF EnvStep, Release, Annotate, MergePr, ClosePr, ReopenPr, DeleteBranch,
        HumanCommit, HumanAmend, HumanLands, history
  <2>3. QED
    BY <2>1, <2>2 DEF OwedIsInHand
<1>8. CASE UNCHANGED vars
    BY <1>8 DEF vars, world, history, run, OwedIsInHand, InHand, IsOpen
<1>9. QED
    BY <1>2, <1>3, <1>4, <1>5, <1>6, <1>7, <1>8 DEF Next, RunStep, Crash, Undisturbed

(***************************************************************************)
(* "No PR required" is true of every undisturbed run: a branch that the    *)
(* comparison with origin finds to require no changes has had its pull     *)
(* request opened or updated since it was pushed.                          *)
(***************************************************************************)
THEOREM NoPrRequiredUndisturbed ==
    ASSUME Undisturbed
    PROVE  Spec => NoPrRequired
<1> DEFINE Inv == Alone /\ LevelAtLabel /\ LevelsUsed /\ OwedIsInHand
<1>1. Init => Inv
    BY DEF Init, Alone, Running, LevelAtLabel, LevelsUsed, OwedIsInHand
<1>2. TypeInv /\ Inv /\ [Next]_vars => Inv'
    BY AloneNext, LevelNext, LevelsUsedNext, OwedNext DEF Undisturbed
<1>3. Inv => [\A m \in Machine, d \in Dist :
                 RequiresNoChanges(m, d) /\ level[m] = Everything => d \notin owed]_vars
  <2> SUFFICES ASSUME Inv, NEW m \in Machine, NEW d \in Dist, RequiresNoChanges(m, d)
               PROVE  d \notin owed
    OBVIOUS
  <2>1. pc[m] = "loop"
    BY DEF RequiresNoChanges, CommitsOnly, Commits, OnNewBranch, StartsAction, AtResult
  <2>2. QED
    BY <2>1 DEF Alone, OwedIsInHand, InHand, Calling, Running
<1>4. QED
    BY <1>1, <1>2, <1>3, TypeCorrect, PTL DEF Spec, NoPrRequired
=============================================================================
