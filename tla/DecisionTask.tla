---------------------------- MODULE DecisionTask ----------------------------
(***************************************************************************)
(* scripts/stubsabot.py: one determine_action task, await by await, while  *)
(* the project goes on releasing, yanking and tagging: the PyPI page, the  *)
(* downloads of find_first_release_with_py_typed, the tags and the diff on *)
(* GitHub.                                                                 *)
(*                                                                         *)
(* Versions are numbered in their order, as in StubsabotData.  `notes' is  *)
(* 1 if the proposal comes with a link to a diff.                          *)
(***************************************************************************)
EXTENDS StubsabotData

CONSTANTS
    dist,        \* the distribution
    FileLists    \* lists of files a release may have

\* a proposal comes with a link or without
ASSUME TaskAssumption == dist \in Dist /\ 1 \in Notes

VARIABLES
    meta,       \* METADATA.toml
    releases,   \* on PyPI: of each version, its files, and is it a
                \* pre-release, is it yanked?
    urls,       \* project_urls on PyPI: null, without GitHub, with GitHub
    tags,       \* versions with a tag on GitHub
    pc,
    seen,       \* pypi_info.releases
    at,         \* the version release_iter has come to
    first,      \* first_release_with_py_typed; 0: None
    answer

world == <<meta, releases, urls, tags>>
taskVars == <<world, pc, seen, at, first, answer>>

----------------------------------------------------------------------------
(***************************************************************************)
(* PyPI: info["version"] is the latest release that is neither a           *)
(* pre-release nor yanked.                                                 *)
(***************************************************************************)
Finals(rs) == {v \in 1..Len(rs) : ~rs[v].pre}
Current(rs) == {v \in Finals(rs) : ~rs[v].yanked}
Latest(rs) == CHOOSE v \in Current(rs) : \A w \in Current(rs) : w <= v

\* get_release prefers a wheel, and takes the last of several
BestFile(files) ==
    LET wheels == SelectSeq(files, LAMBDA f : f.packagetype = "bdist_wheel")
    IN  IF wheels # << >> THEN Last(wheels) ELSE Last(files)

Typed(r) == r.files # << >> /\ BestFile(r.files).typed

(***************************************************************************)
(* The page as StubsabotData sees it: the oldest version from which on     *)
(* all final releases have py.typed (0: the newest has not; 1: all have,   *)
(* see WalkRunsOut).                                                       *)
(***************************************************************************)
TypedSince(rs) ==
    LET run == {v \in Finals(rs) : \A w \in Finals(rs) : v <= w => Typed(rs[w])}
    IN  CASE run = {} -> 0
          [] run = Finals(rs) -> 1
          [] OTHER -> CHOOSE v \in run : \A w \in run : v <= w

PageOf(rs) == [latest |-> Latest(rs), typed_since |-> TypedSince(rs), notes |-> 0]

NotRead == << >>

TaskInit ==
    /\ meta \in Meta /\ meta.obsolete_since \in {0, meta.version}
    /\ \E n \in Version :
        releases \in [1..n -> [files : FileLists, pre : BOOLEAN, yanked : {FALSE}]]
    /\ Finals(releases) # {}
    /\ urls \in {"null", "none", "github"}
    /\ tags \in {{}, 1..Len(releases)}
    /\ pc = "start" /\ seen = NotRead /\ at = 0 /\ first = 0
    /\ answer = Pending

----------------------------------------------------------------------------
(***************************************************************************)
(* The project, between two awaits.                                        *)
(***************************************************************************)
Project ==
    /\ answer = Pending
    /\ \/ /\ Len(releases) < MaxVersion
          /\ \E files \in FileLists, pre \in BOOLEAN :
                releases' = Append(releases, [files |-> files, pre |-> pre, yanked |-> FALSE])
          /\ tags' = tags
       \/ \E v \in Current(releases) :
            /\ Current(releases) # {v}
            /\ releases' = [releases EXCEPT ![v].yanked = TRUE] /\ tags' = tags
       \/ \E v \in 1..Len(releases) \ tags : tags' = tags \cup {v} /\ releases' = releases
    /\ UNCHANGED <<meta, urls, pc, seen, at, first, answer>>

----------------------------------------------------------------------------
Return(res) == pc' = "done" /\ answer' = res
Raise == pc' = "done" /\ answer' = Raised
Await(next) == pc' = next /\ answer' = answer

\* the early returns before the first await
Start ==
    /\ pc = "start"
    /\ IF meta.obsolete_since # 0 \/ dist \in NoLongerUpdated THEN Return(NoUpdate) ELSE Await("pypi")
    /\ UNCHANGED <<world, seen, at, first>>

\* fetch_pypi_info, then get_latest_release and `latest_version in spec'
FetchPypiInfo ==
    /\ pc = "pypi"
    /\ \/ /\ seen' = releases /\ at' = Len(releases) + 1
          /\ IF releases[Latest(releases)].files = << >> THEN Raise
             ELSE IF Latest(releases) = meta.version THEN Return(NoUpdate) ELSE Await("py.typed")
       \/ Raise /\ UNCHANGED <<seen, at>>
    /\ UNCHANGED <<world, first>>

(***************************************************************************)
(* next(release_iter): the generator calls get_release for every version,  *)
(* also for a pre-release it then passes over, and an empty list of files  *)
(* raises IndexError.                                                      *)
(***************************************************************************)
NextRelease ==
    LET older == {v \in Finals(seen) : v < at}
    IN  IF older = {} THEN 0 ELSE CHOOSE v \in older : \A w \in older : w <= v

IteratorFails ==
    \/ NextRelease = 0
    \/ \E v \in NextRelease..at - 1 : v > 0 /\ seen[v].files = << >>

ContainsPyTypedForEver ==
    /\ pc = "py.typed"
    /\ IF IteratorFails THEN UNCHANGED <<pc, at, first, answer>>
       ELSE LET file == BestFile(seen[NextRelease].files)
            IN  \/ /\ file.packagetype \in {"bdist_wheel", "sdist"}
                   /\ at' = NextRelease
                   /\ IF file.typed THEN first' = NextRelease /\ Await("py.typed")
                      ELSE first' = first /\ Await("github")
                \/ Raise /\ UNCHANGED <<at, first>>
    /\ UNCHANGED <<world, seen>>

\* find_first_release_with_py_typed: the download of one release; the loop
\* ends at the first one without py.typed
ContainsPyTyped ==
    /\ pc = "py.typed"
    /\ IF IteratorFails THEN Raise /\ UNCHANGED <<at, first>>
       ELSE LET file == BestFile(seen[NextRelease].files)
            IN  \/ /\ file.packagetype \in {"bdist_wheel", "sdist"}
                   /\ at' = NextRelease
                   /\ IF file.typed THEN first' = NextRelease /\ Await("py.typed")
                      ELSE first' = first /\ Await("github")
                \/ Raise /\ UNCHANGED <<at, first>>
    /\ UNCHANGED <<world, seen>>

----------------------------------------------------------------------------
RelevantVersion == IF first # 0 THEN first ELSE Latest(seen)

ProposalFromPage(notes) ==
    IF first # 0
    THEN [kind |-> "obsolete", version |-> first, notes |-> notes]
    ELSE [kind |-> "update", version |-> Latest(releases), notes |-> notes]

Proposal(notes) ==
    IF first # 0
    THEN [kind |-> "obsolete", version |-> first, notes |-> notes]
    ELSE [kind |-> "update", version |-> Latest(seen), notes |-> notes]

(***************************************************************************)
(* get_github_repo_info and the tags of get_diff_info: `.values()' of a    *)
(* null raises; without a repository, with an answer that is not 200, or   *)
(* without a tag for both versions, there is no diff.  An update then asks *)
(* get_updated_version_spec, which may raise (see VersionSpec).            *)
(***************************************************************************)
GetGithubRepoInfo ==
    /\ pc = "github"
    /\ CASE urls = "null" -> Raise
         [] urls = "none" -> Return(Proposal(0)) \/ (first = 0 /\ Raise)
         [] urls = "github" ->
                \/ {RelevantVersion, meta.version} \subseteq tags /\ Await("diff")
                \/ Return(Proposal(0))
                \/ Raise
    /\ UNCHANGED <<world, seen, at, first>>

\* "Double-check we're returning a valid URL here"
CheckDiffUrl ==
    /\ pc = "diff"
    /\ \/ IF first # 0 THEN Return(Proposal(1)) ELSE Await("analyze")
       \/ Raise
    /\ UNCHANGED <<world, seen, at, first>>

AnalyzeDiff ==
    /\ pc = "analyze"
    /\ Return(Proposal(1)) \/ Raise
    /\ UNCHANGED <<world, seen, at, first>>

Task ==
    \/ Start \/ FetchPypiInfo \/ ContainsPyTyped
    \/ GetGithubRepoInfo \/ CheckDiffUrl \/ AnalyzeDiff

TaskNext == Project \/ Task

TaskSpec == TaskInit /\ [][TaskNext]_taskVars /\ WF_taskVars(Task)

----------------------------------------------------------------------------
Abstract ==
    INSTANCE Decision
    WITH page <- PageOf(releases),
         read <- IF seen = NotRead THEN NotRead ELSE PageOf(seen)

(***************************************************************************)
(* The awaits of determine_action do not mix states of the page: however   *)
(* releases, yanks and tags fall between them, the task gives the answer   *)
(* of DetermineAction for the page as fetch_pypi_info saw it, or raises.   *)
(***************************************************************************)
ImplementsDecision == Abstract!Spec

(***************************************************************************)
(* Every task ends, so that the main loop that awaits it can go on.        *)
(***************************************************************************)
TaskEnds == <>(answer # Pending)
=============================================================================
