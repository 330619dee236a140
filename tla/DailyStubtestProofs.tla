------------------------ MODULE DailyStubtestProofs ------------------------
(***************************************************************************)
(* Proofs about DailyStubtest, for every number of platforms, shards and   *)
(* distributions.                                                          *)
(***************************************************************************)
EXTENDS DailyStubtest, TLAPS

(***************************************************************************)
(* What a job has behind it, it has tested, unless its exit code is 1; a   *)
(* successful job has all of it behind it, with exit code 0.               *)
(***************************************************************************)
Covered ==
    \A j \in Job : result[j] = 0 =>
        \A k \in DistIndex :
            k < i[j] /\ InShard(j, k) /\ IsWanted(j[1], k) => <<k, j>> \in tested

SuccessIsComplete ==
    \A j \in Job : status[j] = "success" => i[j] = NumDists /\ result[j] = 0

\* a job that was skipped had a reason to be
SkippedForAReason == \A j \in Job : status[j] = "skipped" => ~JobRuns

\* create-issue-on-failure has seen the last of the other jobs
ReportIsFinal == report = "skipped" => AllEnded /\ ~(ReportedEvents /\ Failed)

TestedInShard == \A k \in DistIndex, j \in Job : <<k, j>> \in tested => InShard(j, k)

IInv ==
    /\ TypeOK
    /\ Covered
    /\ SuccessIsComplete
    /\ SkippedForAReason
    /\ ReportIsFinal
    /\ TestedInShard

----------------------------------------------------------------------------
LEMMA InitIInv == Init => IInv
<1> SUFFICES ASSUME Init PROVE IInv
  OBVIOUS
<1>1. TypeOK
  <2>1. /\ status \in [Job \cup OtherJob -> Ended \cup {"queued", "running"}]
        /\ i \in [Job -> 0..NumDists]
        /\ result \in [Job -> {0, 1}]
        /\ report \in {"waiting", "skipped", "created", "failed"}
        /\ tested \subseteq DistIndex \X Job
    BY DailyAssumption DEF Init
  <2>2. upstream \in BOOLEAN /\ cancelled \in BOOLEAN
    BY Zenon DEF Init
  <2> QED
    BY <2>1, <2>2 DEF Init, TypeOK
<1>2. Covered /\ TestedInShard
  BY DailyAssumption DEF Init, Covered, TestedInShard, DistIndex
<1>3. SuccessIsComplete /\ SkippedForAReason /\ ReportIsFinal
  BY DEF Init, SuccessIsComplete, SkippedForAReason, ReportIsFinal
<1> QED
  BY <1>1, <1>2, <1>3 DEF IInv

\* a step that touches no loop and ends one job that had not ended
LEMMA SetupKeeps ==
    ASSUME IInv, NEW j \in Job, Setup(j)
    PROVE  IInv'
<1>1. TypeOK'
  BY DEF IInv, TypeOK, Setup, EndJob, input, Ended
<1>2. (Covered /\ TestedInShard)'
  BY DEF IInv, Covered, TestedInShard, Setup, input, InShard, IsWanted
<1>3. (SuccessIsComplete /\ SkippedForAReason)'
  BY DEF IInv, TypeOK, SuccessIsComplete, SkippedForAReason, Setup, EndJob, input, JobRuns
<1>4. ReportIsFinal'
  BY DEF IInv, TypeOK, ReportIsFinal, AllEnded, Ended, Setup
<1> QED
  BY <1>1, <1>2, <1>3, <1>4 DEF IInv

LEMMA ExitKeeps ==
    ASSUME IInv, NEW j \in Job, Exit(j)
    PROVE  IInv'
<1>1. TypeOK'
  BY DEF IInv, TypeOK, Exit, EndJob, input, Ended
<1>2. (Covered /\ TestedInShard)'
  BY DEF IInv, Covered, TestedInShard, Exit, input, InShard, IsWanted
<1>3. (SuccessIsComplete /\ SkippedForAReason)'
  BY DEF IInv, TypeOK, SuccessIsComplete, SkippedForAReason, Exit, EndJob, input, JobRuns
<1>4. ReportIsFinal'
  BY DEF IInv, TypeOK, ReportIsFinal, AllEnded, Ended, Exit
<1> QED
  BY <1>1, <1>2, <1>3, <1>4 DEF IInv

----------------------------------------------------------------------------
(***************************************************************************)
(* The loop: a distribution of another shard, or one that is not wanted,   *)
(* asks for no test; one that is wanted is tested, or the exit code is 1.  *)
(***************************************************************************)
LEMMA LoopKeepsTypes ==
    ASSUME TypeOK, NEW j \in Job, RunStubtest(j)
    PROVE  TypeOK'
<1>1. i[j] \in DistIndex /\ i[j] + 1 \in 0..NumDists
  BY DailyAssumption DEF TypeOK, RunStubtest, DistIndex
<1>2. CASE OtherShard(j) \/ SkipDist(j)
  BY <1>1, <1>2 DEF TypeOK, RunStubtest, OtherShard, SkipDist, Iterate, input
<1>3. CASE StubtestSucceeds(j)
  BY <1>1, <1>3 DEF TypeOK, RunStubtest, StubtestSucceeds, Iterate, input
<1>4. CASE StubtestFails(j)
  BY <1>1, <1>4 DEF TypeOK, RunStubtest, StubtestFails, RecordFailure, Iterate, input
<1>5. CASE StubtestRaises(j)
  BY <1>5 DEF TypeOK, RunStubtest, StubtestRaises, EndJob, input, Ended
<1> QED
  BY <1>2, <1>3, <1>4, <1>5 DEF RunStubtest

LEMMA LoopKeepsCovered ==
    ASSUME TypeOK, Covered, NEW j \in Job, RunStubtest(j)
    PROVE  Covered'
<1>1. i[j] \in DistIndex /\ i[j] \in Nat /\ DistIndex \subseteq Nat
  BY DailyAssumption DEF TypeOK, RunStubtest, DistIndex
<1>2. settings' = settings
  BY DEF RunStubtest, input
<1>3. CASE OtherShard(j) \/ SkipDist(j)
  <2>1. /\ i' = [i EXCEPT ![j] = @ + 1]
        /\ result' = result /\ tested' = tested
        /\ ~(InShard(j, i[j]) /\ IsWanted(j[1], i[j]))
    BY <1>3 DEF OtherShard, SkipDist, Iterate
  <2> SUFFICES ASSUME NEW l \in Job, result[l] = 0, NEW k \in DistIndex,
                      k < i'[l], InShard(l, k), IsWanted(l[1], k)
               PROVE  <<k, l>> \in tested
    BY <1>2, <2>1 DEF Covered, InShard, IsWanted
  <2>2. CASE l # j
    BY <2>1, <2>2 DEF Covered, TypeOK
  <2>3. CASE l = j
    <3>1. i'[j] = i[j] + 1
      BY <2>1 DEF TypeOK
    <3>2. k # i[j]
      BY <2>1, <2>3
    <3>3. k < i[j]
      BY <1>1, <2>3, <3>1, <3>2
    <3> QED
      BY <2>3, <3>3 DEF Covered
  <2> QED
    BY <2>2, <2>3
<1>4. CASE StubtestSucceeds(j)
  <2>1. /\ i' = [i EXCEPT ![j] = @ + 1]
        /\ result' = result /\ tested' = tested \cup {<<i[j], j>>}
    BY <1>4 DEF StubtestSucceeds, Iterate
  <2> SUFFICES ASSUME NEW l \in Job, result[l] = 0, NEW k \in DistIndex,
                      k < i'[l], InShard(l, k), IsWanted(l[1], k)
               PROVE  <<k, l>> \in tested'
    BY <1>2, <2>1 DEF Covered, InShard, IsWanted
  <2>2. CASE l # j
    BY <2>1, <2>2 DEF Covered, TypeOK
  <2>3. CASE l = j
    <3>1. i'[j] = i[j] + 1
      BY <2>1 DEF TypeOK
    <3>2. CASE k = i[j]
      BY <2>1, <2>3, <3>2
    <3>3. CASE k # i[j]
      <4>1. k < i[j]
        BY <1>1, <2>3, <3>1, <3>3
      <4> QED
        BY <2>1, <2>3, <4>1 DEF Covered
    <3> QED
      BY <3>2, <3>3
  <2> QED
    BY <2>2, <2>3
<1>5. CASE StubtestFails(j)
  <2>1. /\ i' = [i EXCEPT ![j] = @ + 1]
        /\ result' = [result EXCEPT ![j] = 1] /\ tested' = tested
    BY <1>5 DEF StubtestFails, RecordFailure, Iterate
  <2> QED
    BY <1>2, <2>1 DEF Covered, TypeOK, InShard, IsWanted
<1>6. CASE StubtestRaises(j)
  BY <1>2, <1>6 DEF StubtestRaises, Covered, InShard, IsWanted
<1> QED
  BY <1>3, <1>4, <1>5, <1>6 DEF RunStubtest

LEMMA LoopKeeps ==
    ASSUME IInv, NEW j \in Job, RunStubtest(j)
    PROVE  IInv'
<1>1. TypeOK'
  BY LoopKeepsTypes DEF IInv
<1>2. Covered'
  BY LoopKeepsCovered DEF IInv
<1>3. status[j] = "running" /\ status' \in {status, [status EXCEPT ![j] = "failure"]}
  BY DEF RunStubtest, OtherShard, SkipDist, StubtestSucceeds, StubtestFails,
         StubtestRaises, EndJob
<1>4. SuccessIsComplete'
  <2> SUFFICES ASSUME NEW l \in Job, status'[l] = "success"
               PROVE  i'[l] = NumDists /\ result'[l] = 0
    BY DEF SuccessIsComplete
  <2>1. l # j /\ status[l] = "success"
    BY <1>3 DEF IInv, TypeOK
  <2>2. i'[l] = i[l] /\ result'[l] = result[l]
    BY <2>1 DEF IInv, TypeOK, RunStubtest, OtherShard, SkipDist, StubtestSucceeds,
                StubtestFails, StubtestRaises, Iterate, RecordFailure
  <2> QED
    BY <2>1, <2>2 DEF IInv, SuccessIsComplete
<1>5. SkippedForAReason'
  BY <1>3 DEF IInv, TypeOK, SkippedForAReason, JobRuns, RunStubtest, input
<1>6. ReportIsFinal'
  BY <1>3 DEF IInv, TypeOK, ReportIsFinal, AllEnded, Ended, RunStubtest
<1>7. TestedInShard'
  BY DEF IInv, TestedInShard, InShard, RunStubtest, OtherShard, SkipDist,
         StubtestSucceeds, StubtestFails, StubtestRaises
<1> QED
  BY <1>1, <1>2, <1>4, <1>5, <1>6, <1>7 DEF IInv

----------------------------------------------------------------------------
\* the rest of the workflow leaves the loops alone
LEMMA OtherKeeps ==
    ASSUME IInv, NEW o \in OtherJob, RunOther(o)
    PROVE  IInv'
<1>1. TypeOK'
  BY DEF IInv, TypeOK, RunOther, EndJob, input, Ended
<1>2. (Covered /\ TestedInShard)'
  BY DEF IInv, Covered, TestedInShard, RunOther, input, InShard, IsWanted
<1>3. o \notin Job
  BY DailyAssumption DEF Job
<1>4. (SuccessIsComplete /\ SkippedForAReason)'
  BY <1>3 DEF IInv, TypeOK, SuccessIsComplete, SkippedForAReason, RunOther, EndJob, input, JobRuns
<1>5. ReportIsFinal'
  BY DEF IInv, TypeOK, ReportIsFinal, AllEnded, Ended, RunOther
<1> QED
  BY <1>1, <1>2, <1>4, <1>5 DEF IInv

LEMMA TimeOutKeeps ==
    ASSUME IInv, NEW j \in Job \cup OtherJob, TimeOut(j)
    PROVE  IInv'
<1>1. TypeOK'
  BY DEF IInv, TypeOK, TimeOut, EndJob, input, Ended
<1>2. (Covered /\ TestedInShard)'
  BY DEF IInv, Covered, TestedInShard, TimeOut, input, InShard, IsWanted
<1>3. (SuccessIsComplete /\ SkippedForAReason)'
  BY DEF IInv, TypeOK, SuccessIsComplete, SkippedForAReason, TimeOut, EndJob, input, JobRuns
<1>4. ReportIsFinal'
  BY DEF IInv, TypeOK, ReportIsFinal, AllEnded, Ended, TimeOut
<1> QED
  BY <1>1, <1>2, <1>3, <1>4 DEF IInv

LEMMA CancelKeeps ==
    ASSUME IInv, Cancel
    PROVE  IInv'
<1>1. DOMAIN status = Job \cup OtherJob
  BY DEF IInv, TypeOK
<1>2. TypeOK'
  BY <1>1 DEF IInv, TypeOK, Cancel, input, Ended
<1>3. (Covered /\ TestedInShard)'
  BY DEF IInv, Covered, TestedInShard, Cancel, input, InShard, IsWanted
<1>4. (SuccessIsComplete /\ SkippedForAReason)'
  BY <1>1 DEF IInv, SuccessIsComplete, SkippedForAReason, Cancel, input, JobRuns, Ended
<1>5. ReportIsFinal'
  <2> SUFFICES ASSUME report = "skipped"
               PROVE  (AllEnded /\ ~(ReportedEvents /\ Failed))'
    BY DEF ReportIsFinal, Cancel
  <2>1. status' = status
    BY DEF IInv, TypeOK, ReportIsFinal, AllEnded, Cancel
  <2> QED
    BY <2>1 DEF IInv, ReportIsFinal, AllEnded, ReportedEvents, Failed, Cancel, input
<1> QED
  BY <1>2, <1>3, <1>4, <1>5 DEF IInv

LEMMA ReportKeeps ==
    ASSUME IInv, CreateIssueOnFailure
    PROVE  IInv'
<1>1. TypeOK'
  BY DEF IInv, TypeOK, CreateIssueOnFailure, input
<1>2. (Covered /\ TestedInShard)'
  BY DEF IInv, Covered, TestedInShard, CreateIssueOnFailure, input, InShard, IsWanted
<1>3. (SuccessIsComplete /\ SkippedForAReason)'
  BY DEF IInv, SuccessIsComplete, SkippedForAReason, CreateIssueOnFailure, input, JobRuns
<1>4. ReportIsFinal'
  BY DEF ReportIsFinal, CreateIssueOnFailure, AllEnded, ReportedEvents, Failed, input
<1> QED
  BY <1>1, <1>2, <1>3, <1>4 DEF IInv

LEMMA StepKeepsIInv == IInv /\ [Next]_vars => IInv'
<1> SUFFICES ASSUME IInv, [Next]_vars PROVE IInv'
  OBVIOUS
<1>1. CASE \E j \in Job : JobStep(j)
  BY <1>1, SetupKeeps, LoopKeeps, ExitKeeps DEF JobStep
<1>2. CASE \E o \in OtherJob : RunOther(o)
  BY <1>2, OtherKeeps
<1>3. CASE Cancel
  BY <1>3, CancelKeeps
<1>4. CASE CreateIssueOnFailure
  BY <1>4, ReportKeeps
<1>5. CASE \E j \in Job \cup OtherJob : TimeOut(j)
  BY <1>5, TimeOutKeeps
<1>6. CASE UNCHANGED vars
  BY <1>6
  DEF vars, input, IInv, TypeOK, Covered, SuccessIsComplete, SkippedForAReason, ReportIsFinal,
      TestedInShard, InShard, IsWanted, JobRuns, AllEnded, ReportedEvents, Failed
<1> QED
  BY <1>1, <1>2, <1>3, <1>4, <1>5, <1>6 DEF Next

LEMMA Invariance == Spec => []IInv
BY InitIInv, StepKeepsIInv, PTL DEF Spec

----------------------------------------------------------------------------
(***************************************************************************)
(* The loops of stubtest_third_party.py stay within the list.              *)
(***************************************************************************)
THEOREM Types == Spec => []TypeOK
<1>1. IInv => TypeOK
  BY DEF IInv
<1> QED
  BY <1>1, Invariance, PTL

\* every distribution belongs to a shard of the matrix
LEMMA EveryDistHasAShard ==
    ASSUME NEW k \in DistIndex
    PROVE  k % NumShards \in ShardIndex
BY DailyAssumption DEF DistIndex

(***************************************************************************)
(* A workflow of python/typeshed that ended without a cancelled job and    *)
(* without trying to open an issue has tested every distribution on each   *)
(* of its platforms, however many shards and distributions there are:      *)
(* every index leaves a remainder that is in the matrix, and main's exit   *)
(* code remembers any failure.                                             *)
(***************************************************************************)
THEOREM QuietIsTested == Spec => []QuietMeansTested
<1>1. IInv => QuietMeansTested
  <2> SUFFICES ASSUME IInv, report = "skipped", ReportedEvents, \A j \in Job : status[j] # "cancelled",
                      NEW k \in DistIndex, NEW p \in Platform, IsWanted(p, k)
               PROVE  \E s \in ShardIndex : <<k, <<p, s>>>> \in tested
    BY DEF QuietMeansTested
  <2> DEFINE s == k % NumShards
             j == <<p, s>>
  <2>1. s \in ShardIndex /\ j \in Job /\ j[1] = p /\ j[2] = s
    BY EveryDistHasAShard DEF Job
  <2> HIDE DEF j
  <2>2. status[j] \in Ended /\ status[j] # "failure"
    BY <2>1 DEF IInv, TypeOK, ReportIsFinal, AllEnded, Failed
  <2>3. status[j] # "skipped" /\ status[j] # "cancelled"
    BY <2>1 DEF IInv, SkippedForAReason, JobRuns, ReportedEvents
  <2>4. i[j] = NumDists /\ result[j] = 0
    BY <2>1, <2>2, <2>3 DEF IInv, SuccessIsComplete, Ended
  <2>5. k < i[j]
    BY <2>4, DailyAssumption DEF DistIndex
  <2>6. InShard(j, k)
    BY <2>1 DEF InShard
  <2>7. <<k, j>> \in tested
    BY <2>1, <2>4, <2>5, <2>6 DEF IInv, Covered
  <2> QED
    BY <2>1, <2>7 DEF j
<1> QED
  BY <1>1, Invariance, PTL

(***************************************************************************)
(* No distribution is tested by two jobs of one platform: an index has one *)
(* remainder.                                                              *)
(***************************************************************************)
THEOREM ShardsDisjoint == Spec => []ShardsAreDisjoint
<1>1. IInv => ShardsAreDisjoint
  <2> SUFFICES ASSUME IInv, NEW a \in tested, NEW b \in tested,
                      a[1] = b[1], a[2][1] = b[2][1]
               PROVE  a = b
    BY DEF ShardsAreDisjoint
  <2>1. a \in DistIndex \X Job /\ b \in DistIndex \X Job
    BY DEF IInv, TypeOK
  <2>2. a = <<a[1], a[2]>> /\ b = <<b[1], b[2]>> /\ a[1] \in DistIndex
        /\ a[2] \in Job /\ b[2] \in Job
    BY <2>1
  <2>3. InShard(a[2], a[1]) /\ InShard(b[2], b[1])
    BY <2>2 DEF IInv, TestedInShard
  <2>4. a[2][2] = b[2][2]
    BY <2>3 DEF InShard
  <2>5. a[2] = <<a[2][1], a[2][2]>> /\ b[2] = <<b[2][1], b[2][2]>>
    BY <2>2 DEF Job
  <2> QED
    BY <2>2, <2>4, <2>5
<1> QED
  BY <1>1, Invariance, PTL
=============================================================================
