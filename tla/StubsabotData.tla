--------------------------- MODULE StubsabotData ---------------------------
(***************************************************************************)
(* The data of scripts/stubsabot.py and the decisions it takes on them:    *)
(* what a distribution's METADATA.toml and its PyPI page say, which        *)
(* proposal follows from the two (determine_action), what the proposal     *)
(* does to METADATA.toml, and the two questions put to git before a branch *)
(* is overwritten.                                                         *)
(*                                                                         *)
(* A version stands for everything one version specifier matches, so that  *)
(* `latest_version in spec' is equality; versions are numbered in release  *)
(* order.  A commit message is represented by what it is made of: the      *)
(* proposal, the version its diff link starts from, and a number, notes,   *)
(* for what PyPI and GitHub say of the project that day (links, analysis). *)
(***************************************************************************)
EXTENDS Naturals, SequencesExt

CONSTANTS
    Dist,             \* the directories of stubs/ that are not denylisted
    NoLongerUpdated,  \* those whose METADATA.toml says no_longer_updated
    MaxVersion,       \* bound: releases a distribution makes
    MaxNotes          \* bound: changes of what is said about a release

ASSUME DataAssumption ==
    /\ NoLongerUpdated \subseteq Dist
    /\ MaxVersion \in Nat \ {0}
    /\ MaxNotes \in Nat

Version == 1..MaxVersion
Notes == 0..MaxNotes

(***************************************************************************)
(* METADATA.toml: the version specifier and obsolete_since (0: no such     *)
(* key).  On PyPI: the latest release, and the oldest release of the run   *)
(* of releases with py.typed that the latest belongs to (0: the latest has *)
(* no py.typed).                                                           *)
(***************************************************************************)
Meta == [version : Version, obsolete_since : 0..MaxVersion]
Pypi == [latest : Version, typed_since : 0..MaxVersion, notes : Notes]

(***************************************************************************)
(* A change to the files of one distribution: `update' and `obsolete' are  *)
(* the bot's edits of METADATA.toml, `stub' is what a person does to the   *)
(* stubs.  The patch of an edit shows the lines it removes and those       *)
(* around them: it is one of the file it was made in, old (the two keys of *)
(* so short a file are each other's context).  `from' is the version the   *)
(* diff link of the message starts from.  A commit is its author and its   *)
(* patch with its message.                                                 *)
(***************************************************************************)
ProposalKinds == {"update", "obsolete"}

Edit == [dist : Dist, kind : ProposalKinds, version : Version, notes : Notes,
         from : Version, old : Meta]
            \cup [dist : Dist, kind : {"stub"}, version : {0}, notes : {0}]
Commit == [author : {"stubsabot", "human"}, edits : SUBSET Edit]

(***************************************************************************)
(* What the main loop knows of a determine_action task: it is not done, it *)
(* raised, it returned NoUpdate, Update or Obsolete, or its result has     *)
(* been dealt with.                                                        *)
(***************************************************************************)
Result == [kind : ProposalKinds, version : Version, notes : Notes]
            \cup [kind : {"pending", "raised", "no_update", "handled"}]

Pending == [kind |-> "pending"]
Raised == [kind |-> "raised"]
NoUpdate == [kind |-> "no_update"]
Handled == [kind |-> "handled"]

----------------------------------------------------------------------------
(***************************************************************************)
(* find_first_release_with_py_typed walks down the releases from the       *)
(* latest until it meets one without py.typed; it has no case for a walk   *)
(* that runs out of releases, where next() raises.                         *)
(***************************************************************************)
WalkRunsOut(page) == page.typed_since = 1

(***************************************************************************)
(* determine_action, without its failures on the network: the early        *)
(* returns in their order, then Obsolete if the latest release is typed    *)
(* and Update if it is not.                                                *)
(***************************************************************************)
UpToDateUnchecked(meta, page) == FALSE

UpToDate(meta, page) == page.latest = meta.version

DetermineAction(d, meta, page) ==
    IF \/ meta.obsolete_since # 0
       \/ d \in NoLongerUpdated
       \/ UpToDate(meta, page)
    THEN NoUpdate
    ELSE IF WalkRunsOut(page) THEN Raised
    ELSE IF page.typed_since # 0
         THEN [kind |-> "obsolete", version |-> page.typed_since, notes |-> page.notes]
         ELSE [kind |-> "update", version |-> page.latest, notes |-> page.notes]

(***************************************************************************)
(* The edit a result asks for, of the METADATA.toml on origin/main (old)   *)
(* after determine_action read one (read), and the file after it.          *)
(***************************************************************************)
EditOf(d, res, read, old) ==
    [dist |-> d, kind |-> res.kind, version |-> res.version, notes |-> res.notes,
     from |-> read.version, old |-> old]

ApplyEdit(meta, e) ==
    CASE e.kind = "update" -> [meta EXCEPT !.version = e.version]
      [] e.kind = "obsolete" -> [meta EXCEPT !.obsolete_since = e.version]
      [] OTHER -> meta

(***************************************************************************)
(* A tree after a patch: at most one edit of each kind is applied to a     *)
(* distribution, as a file has one value for each key.                     *)
(***************************************************************************)
Patched(tree, edits) ==
    [d \in Dist |->
        LET of(kind) == {e \in edits : e.dist = d /\ e.kind = kind}
        IN  [version |-> IF of("update") = {} THEN tree[d].version
                         ELSE (CHOOSE e \in of("update") : TRUE).version,
             obsolete_since |-> IF of("obsolete") = {} THEN tree[d].obsolete_since
                                ELSE (CHOOSE e \in of("obsolete") : TRUE).version]]

----------------------------------------------------------------------------
(***************************************************************************)
(* The bot's commits carry the name the workflow gives git.                *)
(***************************************************************************)
BotCommit(edits) == [author |-> "stubsabot", edits |-> edits]

(***************************************************************************)
(* has_non_stubsabot_commits: the authors of the commits that              *)
(* git log --right-only --cherry-pick branch...origin/branch shows, that   *)
(* is, those of origin/branch whose patch is neither on main nor ours.     *)
(***************************************************************************)
FirstCommitIsNonStubsabot(commits, landed, ours) ==
    /\ commits # << >>
    /\ commits[1].author # "stubsabot"
    /\ commits[1].edits \notin landed \cup {ours}

HasNonStubsabotCommits(commits, landed, ours) ==
    \E i \in 1..Len(commits) :
        /\ commits[i].author # "stubsabot"
        /\ commits[i].edits \notin landed \cup {ours}

(***************************************************************************)
(* latest_commit_is_different_to_last_commit_on_origin: range-diff of the  *)
(* last commit of origin/branch and ours, which sees the patch (removed    *)
(* lines and context included), the author and the message; TRUE when      *)
(* origin/branch does not exist.                                           *)
(***************************************************************************)
AlwaysDifferent(commits, ours) == TRUE

LatestCommitIsDifferent(commits, ours) ==
    commits # << >> => Last(commits) # BotCommit(ours)
=============================================================================
