--------------------------- MODULE DailyStubtest ---------------------------
(***************************************************************************)
(* The daily run of stubtest on the third-party stubs: a job for every     *)
(* platform and shard index of .github/workflows/daily.yml, each of which  *)
(* goes through its share of stubs/ with tests/stubtest_third_party.py;    *)
(* the other jobs of the workflow; and the job that opens an issue if one  *)
(* of them failed.  The jobs run on machines of their own, on one commit.  *)
(***************************************************************************)
EXTENDS Naturals, FiniteSets

CONSTANTS
    Platform,      \* matrix.os
    NumShards,     \* --num-shards
    ShardIndex,    \* matrix.shard-index
    NumDists,      \* the distributions of stubs/, in their order: 0..NumDists - 1
    OtherJob       \* stubtest-stdlib and stub-uploader

ASSUME DailyAssumption ==
    /\ NumShards \in Nat \ {0}
    /\ ShardIndex = 0..NumShards - 1
    /\ NumDists \in Nat
    /\ OtherJob \cap (Platform \X ShardIndex) = {}

DistIndex == 0..NumDists - 1
Job == Platform \X ShardIndex

\* METADATA.toml: tool.stubtest.skip and tool.stubtest.platforms
Settings == [skipped : BOOLEAN, platforms : SUBSET Platform]

Ended == {"success", "failure", "cancelled", "skipped"}

VARIABLES
    upstream,    \* is the repository python/typeshed, and not a fork?
    event,       \* what started the workflow
    settings,    \* stubtest_settings of each distribution
    status,      \* of each job
    i, result,   \* main's loop in each job: the next distribution, the exit code so far
    cancelled,   \* somebody has cancelled the workflow
    report,      \* the job create-issue-on-failure
    tested       \* history: which job found which distribution right

input == <<upstream, event, settings>>
vars == <<input, status, i, result, cancelled, report, tested>>

(***************************************************************************)
(* Types, and the loops stay within the list of distributions.             *)
(***************************************************************************)
TypeOK ==
    /\ upstream \in BOOLEAN
    /\ event \in {"schedule", "workflow_dispatch", "pull_request"}
    /\ settings \in [DistIndex -> Settings]
    /\ status \in [Job \cup OtherJob -> Ended \cup {"queued", "running"}]
    /\ i \in [Job -> 0..NumDists]
    /\ result \in [Job -> {0, 1}]
    /\ cancelled \in BOOLEAN
    /\ report \in {"waiting", "skipped", "created", "failed"}
    /\ tested \subseteq DistIndex \X Job

Init ==
    /\ upstream \in BOOLEAN
    /\ event \in {"schedule", "workflow_dispatch", "pull_request"}
    /\ settings \in [DistIndex -> Settings]
    /\ status = [j \in Job \cup OtherJob |-> "queued"]
    /\ i = [j \in Job |-> 0]
    /\ result = [j \in Job |-> 0]
    /\ cancelled = FALSE
    /\ report = "waiting"
    /\ tested = {}

EndJob(j, how) == status' = [status EXCEPT ![j] = how]

----------------------------------------------------------------------------
\* the `if' of the two stubtest jobs
JobRuns == upstream \/ event = "workflow_dispatch"

(***************************************************************************)
(* The steps before the script: the job's `if', the checkout, and the      *)
(* packages of get_stubtest_system_requirements.py, any of which may fail. *)
(***************************************************************************)
Setup(j) ==
    /\ status[j] = "queued"
    /\ IF JobRuns
       THEN EndJob(j, "running") \/ EndJob(j, "failure")
       ELSE EndJob(j, "skipped")
    /\ UNCHANGED <<input, i, result, cancelled, report, tested>>

----------------------------------------------------------------------------
(***************************************************************************)
(* main: every distribution whose index leaves the right remainder, and    *)
(* run_stubtest on it.                                                     *)
(***************************************************************************)
InShardUpTo(j, k) == k % NumShards <= j[2]
InShardOffByOne(j, k) == (k + 1) % (NumShards + 1) = j[2]

InShard(j, k) == k % NumShards = j[2]

\* what run_stubtest is to test on the platform, in CI with --specified-platforms-only
IsWanted(p, k) == ~settings[k].skipped /\ p \in settings[k].platforms

IterateTwice(j) == i' = [i EXCEPT ![j] = @ + 2]

Iterate(j) == i' = [i EXCEPT ![j] = @ + 1]

OtherShard(j) ==
    /\ ~InShard(j, i[j])
    /\ Iterate(j)
    /\ UNCHANGED <<status, result, tested>>

\* run_stubtest returns TRUE without a test
SkipDist(j) ==
    /\ InShard(j, i[j]) /\ ~IsWanted(j[1], i[j])
    /\ Iterate(j)
    /\ UNCHANGED <<status, result, tested>>

\* the two pip installs and stubtest succeed
StubtestSucceeds(j) ==
    /\ InShard(j, i[j]) /\ IsWanted(j[1], i[j])
    /\ tested' = tested \cup {<<i[j], j>>}
    /\ Iterate(j)
    /\ UNCHANGED <<status, result>>

RecordFailure(j) == result' = [result EXCEPT ![j] = 1]

\* one of the three fails: run_stubtest returns FALSE, the loop goes on
StubtestFails(j) ==
    /\ InShard(j, i[j]) /\ IsWanted(j[1], i[j])
    /\ RecordFailure(j)
    /\ Iterate(j)
    /\ UNCHANGED <<status, tested>>

\* reading METADATA.toml, making the venv or get_recursive_requirements
\* raises, which ends the script
StubtestRaises(j) ==
    /\ InShard(j, i[j])
    /\ EndJob(j, "failure")
    /\ UNCHANGED <<i, result, tested>>

RunStubtest(j) ==
    /\ status[j] = "running" /\ i[j] < NumDists
    /\ \/ OtherShard(j) \/ SkipDist(j)
       \/ StubtestSucceeds(j) \/ StubtestFails(j) \/ StubtestRaises(j)
    /\ UNCHANGED <<input, cancelled, report>>

\* sys.exit(result)
Exit(j) ==
    /\ status[j] = "running" /\ i[j] = NumDists
    /\ EndJob(j, IF result[j] = 0 THEN "success" ELSE "failure")
    /\ UNCHANGED <<input, i, result, cancelled, report, tested>>

----------------------------------------------------------------------------
\* stubtest-stdlib and stub-uploader, in one step
RunOther(o) ==
    /\ status[o] = "queued"
    /\ \/ EndJob(o, "success")
       \/ EndJob(o, "failure")
       \/ ~JobRuns /\ EndJob(o, "skipped")
    /\ UNCHANGED <<input, i, result, cancelled, report, tested>>

(***************************************************************************)
(* A person, or a later commit of the same pull request, cancels what has  *)
(* not ended.  The scripts end with exit status 0 (KeyboardInterrupt is    *)
(* dropped), but their jobs count as cancelled.                            *)
(***************************************************************************)
Cancel ==
    /\ ~cancelled
    /\ cancelled' = TRUE
    /\ status' = [j \in DOMAIN status |->
                    IF status[j] \in Ended THEN status[j] ELSE "cancelled"]
    /\ UNCHANGED <<input, i, result, report, tested>>

(***************************************************************************)
(* GitHub ends a job that takes too long: that job alone is cancelled.     *)
(***************************************************************************)
TimeOut(j) ==
    /\ status[j] \notin Ended
    /\ EndJob(j, "cancelled")
    /\ UNCHANGED <<input, i, result, cancelled, report, tested>>

AllEnded == \A j \in DOMAIN status : status[j] \in Ended

\* `needs.<job>.result' of a matrix is failure if one of its jobs failed
Failed == \E j \in DOMAIN status : status[j] = "failure"

ReportedEvents == upstream /\ event # "pull_request"

CreateIssueUnlessCancelled ==
    /\ report = "waiting" /\ AllEnded
    /\ report' \in IF ReportedEvents /\ Failed /\ \A j \in Job : status[j] # "cancelled"
                  THEN {"created", "failed"} ELSE {"skipped"}
    /\ UNCHANGED <<input, status, i, result, cancelled, tested>>

CreateIssueOnFailure ==
    /\ report = "waiting" /\ AllEnded
    /\ report' \in IF ReportedEvents /\ Failed THEN {"created", "failed"} ELSE {"skipped"}
    /\ UNCHANGED <<input, status, i, result, cancelled, tested>>

----------------------------------------------------------------------------
JobStep(j) == Setup(j) \/ RunStubtest(j) \/ Exit(j)

Next ==
    \/ \E j \in Job : JobStep(j)
    \/ \E o \in OtherJob : RunOther(o)
    \/ \E j \in Job \cup OtherJob : TimeOut(j)
    \/ Cancel
    \/ CreateIssueOnFailure

(***************************************************************************)
(* GitHub starts every queued job, and no job runs for ever: one that      *)
(* takes too long is ended (TimeOut).                                      *)
(***************************************************************************)
Fairness ==
    /\ \A j \in Job : WF_vars(JobStep(j))
    /\ \A o \in OtherJob : WF_vars(RunOther(o))
    /\ WF_vars(CreateIssueOnFailure)

Spec == Init /\ [][Next]_vars /\ Fairness

----------------------------------------------------------------------------
(***************************************************************************)
(* No news is good news: when the workflow of python/typeshed has ended    *)
(* without an attempt to open an issue, and was not started from a pull    *)
(* request, stubtest has succeeded for every distribution on every         *)
(* platform its METADATA.toml names.  The shards leave no distribution     *)
(* out, and a success that follows a failure does not hide it.  Excepted   *)
(* is a workflow with a job that was cancelled, by a person or because it  *)
(* took too long: the `if' of create-issue-on-failure asks for a failure.  *)
(***************************************************************************)
QuietMeansTested ==
    report = "skipped" /\ ReportedEvents /\ (\A j \in Job : status[j] # "cancelled")
        => \A k \in DistIndex, p \in Platform :
              IsWanted(p, k) => \E s \in ShardIndex : <<k, <<p, s>>>> \in tested

(***************************************************************************)
(* The shards of a platform share no distribution: none is installed and   *)
(* tested by two jobs.                                                     *)
(***************************************************************************)
ShardsAreDisjoint ==
    \A a, b \in tested : a[1] = b[1] /\ a[2][1] = b[2][1] => a = b

(***************************************************************************)
(* A failure of a job of python/typeshed leads to an attempt to open an    *)
(* issue, even if the rest of the workflow is cancelled (`always()').      *)
(***************************************************************************)
FailureIsReported ==
    (Failed /\ ReportedEvents) ~> (report \in {"created", "failed"})
=============================================================================
