--------------------------- MODULE MypyTestProofs ---------------------------
(***************************************************************************)
(* Theorems about MypyTest, for every tree, command line, set of           *)
(* requirements, list of version/platform pairs and set of exit codes.     *)
(***************************************************************************)
EXTENDS MypyTest, TLAPS

Labels == {"stdlib", "stubs", "venvs", "pip", "check", "test", "next", "done"}

Types ==
    /\ filter \subseteq Args /\ exclude \subseteq Args
    /\ reqs \in [Dist -> ReqSets]
    /\ pc \in Labels
    /\ config \in Nat \ {0}
    /\ code \in Nat
    /\ venv \in [ReqSets -> {"none", "creating", "made", "broken", "ready", "empty"}]
    /\ pc # "done" => outcome = "none"

(***************************************************************************)
(* The mapping names the distributions without requirements while the      *)
(* environments are made, then all that are to be checked; each of them is *)
(* mapped to the environment of its own requirements.                      *)
(***************************************************************************)
Mapped ==
    /\ \A d \in DOMAIN mapping : mapping[d] = reqs[d]
    /\ pc \in {"stdlib", "stubs", "next"} => DOMAIN mapping = {} \/ DOMAIN mapping = ToCheck
    /\ pc \in {"venvs", "pip"} => DOMAIN mapping = WithoutVenv
    /\ pc \in {"check", "test"} => DOMAIN mapping = ToCheck
    /\ pc = "test" => queue \subseteq ToCheck

\* the environments are made once, before the first distribution is tested
PassedMapped ==
    DOMAIN mapping = {} => \A x \in passed : x[2][1] # "stubs"

Done(i, p) == <<i, p>> \in passed \cup killed

(***************************************************************************)
(* While the exit code is 0, everything the session has behind it was      *)
(* accepted or killed: the pairs before this one, and of this one the      *)
(* stdlib, the distributions that have left the queue, or all.             *)
(***************************************************************************)
Covered ==
    code = 0 =>
        /\ \A i \in 1..config - 1 : \A p \in Wanted(i) : Done(i, p)
        /\ pc \notin {"stdlib", "done"} =>
              \A p \in Wanted(config) : p[1] = "stdlib" => Done(config, p)
        /\ pc = "test" =>
              \A p \in Wanted(config) : p[1] = "stubs" /\ p[2] \notin queue => Done(config, p)
        /\ pc = "next" => \A p \in Wanted(config) : Done(config, p)

IInv ==
    /\ Types /\ Mapped /\ PassedMapped /\ Covered
    /\ KeysAgree /\ PassedWithRequirements /\ SuccessMeansChecked

----------------------------------------------------------------------------
(***************************************************************************)
(* Paths.                                                                  *)
(***************************************************************************)
LEMMA PrefixIs ==
    ASSUME NEW s, NEW t, IsPath(s), IsPath(t)
    PROVE  IsPrefix(s, t) <=> Len(s) <= Len(t) /\ \A n \in 1..Len(s) : s[n] = t[n]
<1> DEFINE S == {s[n] : n \in DOMAIN s}
           T == {t[n] : n \in DOMAIN t}
<1>1. s \in Seq(S \cup T) /\ t \in Seq(S \cup T)
    BY DEF IsPath
<1> HIDE DEF S, T
<1>2. CASE Len(s) <= Len(t)
  <2>1. /\ SubSeq(s, 1, Len(s)) \in Seq(S \cup T) /\ Len(SubSeq(s, 1, Len(s))) = Len(s)
        /\ SubSeq(t, 1, Len(s)) \in Seq(S \cup T) /\ Len(SubSeq(t, 1, Len(s))) = Len(s)
    BY <1>1, <1>2
  <2>2. \A n \in 1..Len(s) : SubSeq(s, 1, Len(s))[n] = s[n] /\ SubSeq(t, 1, Len(s))[n] = t[n]
    BY <1>1, <1>2
  <2>3. QED
    BY <1>1, <1>2, <2>1, <2>2 DEF IsPrefix
<1>3. QED
    BY <1>2 DEF IsPrefix

\* a file that is asked for is in a root, and in a distribution, that is selected
LEMMA WantedIsSelected ==
    ASSUME Types, NEW i, NEW p \in Wanted(i)
    PROVE  /\ p[1] \in {"stdlib", "stubs"} /\ Selected(<<p[1]>>)
           /\ p[1] = "stubs" => p[2] \in ToCheck /\ p \in DistFiles(p[2])
           /\ p[1] = "stdlib" => p \in StdlibFiles(Configs[i])
<1>1. p \in Tree /\ Match(p) /\ (p[1] = "stdlib" => InRange(p[2], Configs[i]))
    BY DEF Wanted
<1>2. PICK q \in filter : IsPrefix(q, p)
    BY <1>1 DEF Match, InOrUnder
<1>3. IsPath(q) /\ q # << >> /\ IsPath(p) /\ p[1] \in {"stdlib", "stubs"} /\ Len(p) > 1
    BY <1>1, MypyTestAssumption DEF Types
<1>4. Len(q) \in Nat \ {0} /\ Len(q) <= Len(p) /\ \A n \in 1..Len(q) : q[n] = p[n]
    BY <1>2, <1>3, PrefixIs DEF IsPath
<1>5. Selected(<<p[1]>>)
  <2> DEFINE root == <<p[1]>>
  <2>1. IsPath(root) /\ Len(root) = 1 /\ root[1] = p[1]
    BY DEF IsPath
  <2> HIDE DEF root
  <2>a. Len(root) <= Len(q) /\ \A n \in 1..Len(root) : root[n] = q[n]
    BY <1>4, <2>1
  <2>2. IsPrefix(root, q)
    BY <1>3, <2>1, <2>a, PrefixIs
  <2>3. QED
    BY <2>2 DEF Selected, root
<1>6. ASSUME p[1] = "stubs" PROVE p[2] \in ToCheck
  <2> DEFINE d == <<"stubs", p[2]>>
  <2>1. IsPath(d) /\ Len(d) = 2 /\ d[1] = p[1] /\ d[2] = p[2]
    BY <1>6 DEF IsPath
  <2> HIDE DEF d
  <2>2. CASE Len(q) <= 2
    <3>a. \A n \in 1..Len(q) : q[n] = d[n]
      <4> TAKE n \in 1..Len(q)
      <4>1. n = 1 \/ n = 2
        BY <1>4, <2>2
      <4> QED BY <1>4, <2>1, <4>1
    <3>1. IsPrefix(q, d)
      BY <1>3, <2>1, <2>2, <3>a, PrefixIs
    <3>2. QED
      BY <1>1, <1>6, <3>1, MypyTestAssumption DEF ToCheck, InOrUnder, d
  <2>3. CASE Len(q) > 2
    <3>a. Len(d) <= Len(q) /\ \A n \in 1..Len(d) : d[n] = q[n]
      <4>1. 1 \in 1..Len(q) /\ 2 \in 1..Len(q)
        BY <1>4, <2>3
      <4> QED BY <1>4, <2>1, <2>3, <4>1
    <3>1. IsPrefix(d, q)
      BY <1>3, <2>1, <3>a, PrefixIs
    <3>2. QED
      BY <1>1, <1>6, <3>1, MypyTestAssumption DEF ToCheck, Selected, d
  <2>4. QED
    BY <1>4, <2>2, <2>3
<1>7. QED
    BY <1>1, <1>3, <1>5, <1>6 DEF DistFiles, StdlibFiles

----------------------------------------------------------------------------
(***************************************************************************)
(* A step of a session: the command line stays, and so do the mapping and  *)
(* the environments unless the step is one of the four stages.             *)
(***************************************************************************)
LEMMA InputFrame ==
    ASSUME UNCHANGED input
    PROVE  /\ UNCHANGED <<filter, exclude, reqs, ToCheck, WithoutVenv, Needed>>
           /\ \A i : Wanted(i)' = Wanted(i)
BY DEF input, ToCheck, WithoutVenv, Needed, InOrUnder, Selected, Wanted, Match

\* one run of mypy: a failure raises the exit code, and success needs an environment
LEMMA RunOfMypy ==
    ASSUME Types, NEW files, NEW env, RunMypy(files, env)
    PROVE  /\ config' = config /\ code' \in Nat /\ (code' = 0 => code = 0)
           /\ passed \subseteq passed' /\ killed \subseteq killed'
           /\ code' = 0 => \A p \in files : Done(config, p)'
           /\ \A x \in passed' \ passed :
                 x[2] \in files /\ (env = Own \/ venv[env] = "ready")
<1>1. PICK c \in MypyReturns(env) :
        /\ code' = CombinedCode(c)
        /\ passed' = IF c = 0 THEN passed \cup ({config} \X files) ELSE passed
        /\ killed' = IF c < 0 THEN killed \cup ({config} \X files) ELSE killed
        /\ config' = config
    BY DEF RunMypy
<1>2. c \in Int
    BY <1>1, MypyTestAssumption DEF MypyReturns
<1>3. code' \in Nat /\ (code' = 0 => code = 0 /\ c <= 0)
    BY <1>1, <1>2 DEF CombinedCode, Types
<1>4. code' = 0 => \A p \in files : Done(config, p)'
    BY <1>1, <1>2, <1>3 DEF Done
<1>5. \A x \in passed' \ passed : x[2] \in files /\ (env = Own \/ venv[env] = "ready")
    BY <1>1 DEF MypyReturns
<1>6. QED
    BY <1>1, <1>3, <1>4, <1>5

----------------------------------------------------------------------------
(***************************************************************************)
(* The parts of IInv that speak of what is covered survive a step that     *)
(* changes neither the pair, nor the exit code, nor the results.           *)
(***************************************************************************)
LEMMA NoRun ==
    ASSUME Types, Covered, PassedWithRequirements, UNCHANGED <<input, progress>>
    PROVE  /\ code = 0 => \A i \in 1..config - 1 : \A p \in Wanted(i)' : Done(i, p)'
           /\ code = 0 /\ pc \notin {"stdlib", "done"} =>
                \A p \in Wanted(config)' : p[1] = "stdlib" => Done(config, p)'
           /\ config' = config /\ code' = code /\ passed' = passed
           /\ \A i, p : Done(i, p)' = Done(i, p)
BY InputFrame DEF Covered, progress, Done

LEMMA InitIInv == Init => IInv
BY DEF Init, IInv, Types, Labels, Mapped, PassedMapped, Covered, KeysAgree, PassedWithRequirements,
       SuccessMeansChecked

(***************************************************************************)
(* The four stages of setup_virtual_environments, and what lies between    *)
(* them and the runs: nothing is tested, so that only the types and the    *)
(* mapping are at stake.                                                   *)
(***************************************************************************)
LEMMA StagesMapped ==
    ASSUME Types, Mapped, PassedMapped,
           \/ SkipStubs \/ GroupDistributions \/ VenvsCreated \/ MapDistributions
           \/ SetUpAlready \/ CheckKeys \/ StubsTested
           \/ \E r \in ReqSets : CreateVenv(r) \/ PipInstall(r)
    PROVE  Types' /\ Mapped' /\ PassedMapped' /\ UNCHANGED <<input, progress>>
<1> DEFINE Parts == Types' /\ Mapped' /\ PassedMapped' /\ UNCHANGED <<input, progress>>
<1> USE DEF Goto, End, progress, Labels
<1>1. CASE SkipStubs
  <2> USE <1>1 DEF SkipStubs
  <2>1. UNCHANGED <<filter, exclude, reqs, ToCheck, WithoutVenv>>
    BY InputFrame
  <2>2. QED
    BY <2>1 DEF Types, Mapped, PassedMapped
<1>2. CASE GroupDistributions
  <2> USE <1>2 DEF GroupDistributions
  <2>1. UNCHANGED <<filter, exclude, reqs, ToCheck, WithoutVenv>>
    BY InputFrame
  <2>2. /\ pc' \in {"check", "venvs"}
        /\ Needed = {} \/ pc' = "venvs"
        /\ venv' \in [ReqSets -> {"none", "creating", "made", "broken", "ready", "empty"}]
    BY DEF Types
  <2>3. Types'
    BY <2>1, <2>2 DEF Types
  <2>4. DOMAIN mapping = {}
    BY DEF IsSetUp
  <2>5. mapping' = [d \in WithoutVenv |-> Own] /\ \A d \in WithoutVenv : reqs[d] = Own
    BY DEF WithoutVenv, Own
  <2>6. Needed = {} => WithoutVenv = ToCheck
    BY DEF Needed, WithoutVenv
  <2>7. QED
    BY <2>1, <2>2, <2>3, <2>4, <2>5, <2>6 DEF Mapped, PassedMapped
<1>3. CASE VenvsCreated
  <2> USE <1>3 DEF VenvsCreated
  <2>1. UNCHANGED <<filter, exclude, reqs, ToCheck, WithoutVenv>>
    BY InputFrame
  <2>2. QED
    BY <2>1 DEF Types, Mapped, PassedMapped
<1>4. CASE MapDistributions
  <2> USE <1>4 DEF MapDistributions
  <2> DEFINE grouped == {d \in ToCheck : reqs[d] # {}}
  <2>1. UNCHANGED <<filter, exclude, reqs, ToCheck, WithoutVenv>>
    BY InputFrame
  <2>2. mapping' = [d \in DOMAIN mapping \cup grouped |-> IF d \in grouped THEN EnvOf(d) ELSE mapping[d]]
    OBVIOUS
  <2>3. DOMAIN mapping = WithoutVenv /\ WithoutVenv \cup grouped = ToCheck
    BY DEF Mapped, WithoutVenv
  <2>4. \A d \in DOMAIN mapping' : mapping'[d] = reqs[d]
    BY <2>2 DEF Mapped, EnvOf
  <2>5. DOMAIN mapping' = ToCheck /\ DOMAIN mapping \subseteq DOMAIN mapping'
    BY <2>2, <2>3
  <2> HIDE DEF grouped
  <2>6. QED
    BY <2>1, <2>4, <2>5 DEF Types, Mapped, PassedMapped
<1>5. CASE SetUpAlready
  <2> USE <1>5 DEF SetUpAlready, IsSetUp
  <2>1. UNCHANGED <<filter, exclude, reqs, ToCheck, WithoutVenv>>
    BY InputFrame
  <2>2. QED
    BY <2>1 DEF Types, Mapped, PassedMapped
<1>6. CASE CheckKeys
  <2> USE <1>6 DEF CheckKeys
  <2>1. UNCHANGED <<filter, exclude, reqs, ToCheck, WithoutVenv>>
    BY InputFrame
  <2>2. QED
    BY <2>1 DEF Types, Mapped, PassedMapped
<1>7. CASE StubsTested
  <2> USE <1>7 DEF StubsTested
  <2>1. UNCHANGED <<filter, exclude, reqs, ToCheck, WithoutVenv>>
    BY InputFrame
  <2>2. QED
    BY <2>1 DEF Types, Mapped, PassedMapped
<1>8. ASSUME NEW r \in ReqSets, CreateVenv(r) \/ PipInstall(r) PROVE Parts
  <2> USE <1>8 DEF CreateVenv, PipInstall
  <2>1. UNCHANGED <<filter, exclude, reqs, ToCheck, WithoutVenv>>
    BY InputFrame
  <2>2. QED
    BY <2>1 DEF Types, Mapped, PassedMapped
<1>9. QED
    BY <1>1, <1>2, <1>3, <1>4, <1>5, <1>6, <1>7, <1>8

LEMMA StagesCovered ==
    ASSUME IInv,
           \/ SkipStubs \/ GroupDistributions \/ VenvsCreated \/ MapDistributions
           \/ SetUpAlready \/ CheckKeys \/ StubsTested
           \/ \E r \in ReqSets : CreateVenv(r) \/ PipInstall(r)
    PROVE  Covered'
<1> USE DEF IInv, Goto, End
<1>0. UNCHANGED <<input, progress>> /\ Types'
    BY StagesMapped
<1>1. /\ code = 0 => \A i \in 1..config - 1 : \A p \in Wanted(i)' : Done(i, p)'
      /\ config' = config /\ code' = code
      /\ \A i, p : Done(i, p)' = Done(i, p)
      /\ code = 0 /\ pc \notin {"stdlib", "done"} =>
            \A p \in Wanted(config)' : p[1] = "stdlib" => Done(config, p)'
    BY <1>0, NoRun
<1>2. pc \notin {"stdlib", "done"}
    BY DEF SkipStubs, GroupDistributions, VenvsCreated, MapDistributions, SetUpAlready, CheckKeys,
           StubsTested, CreateVenv, PipInstall
<1>3. Wanted(config)' = Wanted(config)
    BY <1>0, <1>1, InputFrame
<1>4. code = 0 /\ pc' = "test" =>
        \A p \in Wanted(config) : p[1] = "stubs" /\ p[2] \notin queue' => Done(config, p)
  <2> SUFFICES ASSUME code = 0, pc' = "test" PROVE
        \A p \in Wanted(config) : p[1] = "stubs" /\ p[2] \notin queue' => Done(config, p)
    OBVIOUS
  <2>1. CheckKeys
    BY DEF SkipStubs, GroupDistributions, VenvsCreated, MapDistributions, SetUpAlready,
           StubsTested, CreateVenv, PipInstall
  <2>2. queue' = ToCheck
    BY <2>1 DEF CheckKeys
  <2>3. QED
    BY <2>2, WantedIsSelected
<1>5. code = 0 /\ pc' = "next" => \A p \in Wanted(config) : Done(config, p)
  <2> SUFFICES ASSUME code = 0, pc' = "next", NEW p \in Wanted(config) PROVE Done(config, p)
    OBVIOUS
  <2>1. SkipStubs \/ StubsTested
    BY DEF GroupDistributions, VenvsCreated, MapDistributions, SetUpAlready, CheckKeys,
           CreateVenv, PipInstall
  <2>2. p[1] = "stdlib" \/ (p[1] = "stubs" /\ Selected(<<"stubs">>))
    <3>1. p[1] \in {"stdlib", "stubs"} /\ Selected(<<p[1]>>)
      BY WantedIsSelected
    <3>2. ASSUME p[1] = "stubs" PROVE Selected(<<"stubs">>)
      BY <3>1, <3>2 DEF Selected
    <3>3. QED
      BY <3>1, <3>2
  <2>3. CASE SkipStubs
    BY <1>2, <2>2, <2>3 DEF SkipStubs, Covered
  <2>4. CASE StubsTested
    BY <1>2, <2>2, <2>4 DEF StubsTested, Covered
  <2>5. QED
    BY <2>1, <2>3, <2>4
<1>6. QED
    BY <1>1, <1>2, <1>3, <1>4, <1>5 DEF Covered

\* an environment that is ready stays so, and is set up before anything passed in it
LEMMA StagesKeep ==
    ASSUME IInv,
           \/ SkipStubs \/ GroupDistributions \/ VenvsCreated \/ MapDistributions
           \/ SetUpAlready \/ CheckKeys \/ StubsTested
           \/ \E r \in ReqSets : CreateVenv(r) \/ PipInstall(r)
    PROVE  KeysAgree' /\ PassedWithRequirements' /\ SuccessMeansChecked'
<1> USE DEF IInv, Goto, End
<1>0. UNCHANGED <<filter, exclude, reqs, passed>> /\ UNCHANGED <<input, progress>>
    BY StagesMapped DEF input, progress
<1>1. outcome = "none"
    BY DEF SkipStubs, GroupDistributions, VenvsCreated, MapDistributions, SetUpAlready, CheckKeys,
           StubsTested, CreateVenv, PipInstall, Types
<1>2. outcome' \in {"none", "raised"}
  <2>1. CASE CheckKeys
    BY <1>1, <2>1 DEF CheckKeys, Mapped
  <2>2. CASE ~CheckKeys
    BY <1>1, <2>2 DEF SkipStubs, GroupDistributions, VenvsCreated, MapDistributions, SetUpAlready,
           StubsTested, CreateVenv, PipInstall
  <2>3. QED
    BY <2>1, <2>2
<1>3. PassedWithRequirements'
  <2> SUFFICES ASSUME NEW i \in 1..Len(Configs), NEW p \in Tree,
                      <<i, p>> \in passed, p[1] = "stubs", reqs[p[2]] # {}
               PROVE  venv'[reqs[p[2]]] = "ready"
    BY <1>0 DEF PassedWithRequirements
  <2>1. venv[reqs[p[2]]] = "ready" /\ reqs[p[2]] \in ReqSets
    BY MypyTestAssumption DEF PassedWithRequirements, Types
  <2>2. ~GroupDistributions
    <3>1. <<i, p>>[2][1] = "stubs"
      OBVIOUS
    <3>2. DOMAIN mapping # {}
      BY <3>1 DEF PassedMapped
    <3>3. QED
      BY <3>2 DEF GroupDistributions, IsSetUp
  <2>3. CASE venv' = venv
    BY <2>1, <2>3
  <2>4. CASE \E r \in ReqSets : CreateVenv(r) \/ PipInstall(r)
    BY <2>1, <2>4 DEF CreateVenv, PipInstall, Types
  <2>5. QED
    BY <2>2, <2>3, <2>4 DEF SkipStubs, VenvsCreated, MapDistributions, SetUpAlready, CheckKeys, StubsTested
<1>4. QED
    BY <1>2, <1>3 DEF KeysAgree, SuccessMeansChecked

----------------------------------------------------------------------------
(***************************************************************************)
(* The runs of mypy, for the stdlib and for a distribution.                *)
(***************************************************************************)
LEMMA TestStdlibIInv == IInv /\ TestStdlib => IInv'
<1> SUFFICES ASSUME IInv, TestStdlib PROVE IInv'
    OBVIOUS
<1> USE DEF IInv, TestStdlib, Goto
<1> DEFINE files == IF Selected(<<"stdlib">>) THEN StdlibFiles(Configs[config]) ELSE {}
<1>1. UNCHANGED <<filter, exclude, reqs, ToCheck, WithoutVenv>> /\ \A i : Wanted(i)' = Wanted(i)
    BY InputFrame
<1>2. /\ config' = config /\ code' \in Nat /\ (code' = 0 => code = 0)
      /\ passed \subseteq passed' /\ killed \subseteq killed'
      /\ code' = 0 => \A p \in files : Done(config, p)'
      /\ \A x \in passed' \ passed : x[2] \in files
  <2>1. CASE files # {}
    <3>1. RunMypy(files, Own)
      BY <2>1
    <3>2. QED
      BY <3>1, RunOfMypy
  <2>2. CASE files = {}
    BY <2>2 DEF progress, Types
  <2>3. QED
    BY <2>1, <2>2
<1>3. \A p \in files : p[1] = "stdlib"
    BY DEF StdlibFiles
<1>4. \A p \in Wanted(config) : p[1] = "stdlib" => p \in files
  <2> SUFFICES ASSUME NEW p \in Wanted(config), p[1] = "stdlib" PROVE p \in files
    OBVIOUS
  <2>1. Selected(<<p[1]>>) /\ p \in StdlibFiles(Configs[config])
    BY WantedIsSelected
  <2>2. Selected(<<"stdlib">>)
    BY <2>1 DEF Selected
  <2>3. QED
    BY <2>1, <2>2
<1> HIDE DEF files
<1>5. \A i, p : Done(i, p) => Done(i, p)'
    BY <1>2 DEF Done
<1>6. Types'
    BY <1>1, <1>2 DEF Types, Labels
<1>7. Mapped' /\ PassedMapped'
    BY <1>1, <1>2, <1>3 DEF Mapped, PassedMapped
<1>8. Covered'
    BY <1>1, <1>2, <1>4, <1>5 DEF Covered
<1>9. PassedWithRequirements'
  <2> SUFFICES ASSUME NEW i \in 1..Len(Configs), NEW p \in Tree,
                      <<i, p>> \in passed', p[1] = "stubs", reqs[p[2]] # {}
               PROVE  venv[reqs[p[2]]] = "ready"
    BY <1>1 DEF PassedWithRequirements
  <2>1. <<i, p>> \in passed
    BY <1>2, <1>3
  <2>2. QED
    BY <2>1 DEF PassedWithRequirements
<1>10. outcome' = "none"
    BY DEF Types
<1>11. QED
    BY <1>6, <1>7, <1>8, <1>9, <1>10 DEF KeysAgree, SuccessMeansChecked

LEMMA TestDistributionIInv ==
    ASSUME IInv, NEW d \in Dist, TestDistribution(d)
    PROVE  IInv'
<1> USE DEF IInv, TestDistribution
<1>1. UNCHANGED <<filter, exclude, reqs, ToCheck, WithoutVenv>> /\ \A i : Wanted(i)' = Wanted(i)
    BY InputFrame
<1>2. /\ config' = config /\ code' \in Nat /\ (code' = 0 => code = 0)
      /\ passed \subseteq passed' /\ killed \subseteq killed'
      /\ code' = 0 => \A p \in DistFiles(d) : Done(config, p)'
      /\ \A x \in passed' \ passed :
            x[2] \in DistFiles(d) /\ (mapping[d] = Own \/ venv[mapping[d]] = "ready")
  <2>1. CASE DistFiles(d) # {}
    BY <2>1, RunOfMypy
  <2>2. CASE DistFiles(d) = {}
    BY <2>2 DEF progress, Types
  <2>3. QED
    BY <2>1, <2>2
<1>3. d \in ToCheck /\ DOMAIN mapping = ToCheck /\ mapping[d] = reqs[d]
    BY DEF Mapped
<1>5. \A i, p : Done(i, p) => Done(i, p)'
    BY <1>2 DEF Done
<1>6. Types'
    BY <1>1, <1>2 DEF Types, Labels
<1>7. Mapped' /\ PassedMapped'
  <2>1. Mapped'
    BY <1>1 DEF Mapped
  <2>2. PassedMapped'
    BY <1>3 DEF PassedMapped
  <2>3. QED
    BY <2>1, <2>2
<1>8. Covered'
  <2>1. \A p \in Wanted(config) : p[1] = "stubs" /\ p[2] = d => p \in DistFiles(d)
    BY WantedIsSelected
  <2>2. QED
    BY <1>1, <1>2, <1>5, <2>1 DEF Covered
<1>9. PassedWithRequirements'
  <2> SUFFICES ASSUME NEW i \in 1..Len(Configs), NEW p \in Tree,
                      <<i, p>> \in passed', p[1] = "stubs", reqs[p[2]] # {}
               PROVE  venv[reqs[p[2]]] = "ready"
    BY <1>1 DEF PassedWithRequirements
  <2>1. CASE <<i, p>> \in passed
    BY <2>1 DEF PassedWithRequirements
  <2>2. CASE <<i, p>> \notin passed
    <3>1. p \in DistFiles(d) /\ (mapping[d] = Own \/ venv[mapping[d]] = "ready")
      BY <1>2, <2>2
    <3>2. QED
      BY <1>3, <3>1 DEF DistFiles, Own
  <2>3. QED
    BY <2>1, <2>2
<1>10. outcome' = "none"
    BY DEF Types
<1>11. QED
    BY <1>6, <1>7, <1>8, <1>9, <1>10 DEF KeysAgree, SuccessMeansChecked

----------------------------------------------------------------------------
(***************************************************************************)
(* main: the next pair, the summary, and an interrupt.                     *)
(***************************************************************************)
LEMMA MainIInv == IInv /\ (NextConfig \/ Report \/ Interrupted) => IInv'
<1> SUFFICES ASSUME IInv, NextConfig \/ Report \/ Interrupted PROVE IInv'
    OBVIOUS
<1> USE DEF IInv, Goto, End
<1>1. UNCHANGED <<input, code, checked, passed, killed, venv, mapping, queue>>
    BY DEF NextConfig, Report, Interrupted, progress
<1>2. UNCHANGED <<filter, exclude, reqs, ToCheck, WithoutVenv>> /\ \A i : Wanted(i)' = Wanted(i)
    BY <1>1, InputFrame
<1>3. \A i, p : Done(i, p)' = Done(i, p)
    BY <1>1 DEF Done
<1>4. config' \in Nat \ {0} /\ outcome = "none"
  <2>1. config \in Nat \ {0} /\ outcome = "none"
    BY DEF Types, NextConfig, Report, Interrupted
  <2>2. config' = config + 1 \/ config' = config
    BY DEF NextConfig, Report, Interrupted, progress
  <2>3. QED
    BY <2>1, <2>2
<1>5. Types' /\ Mapped' /\ PassedMapped' /\ PassedWithRequirements'
  <2>1. Types'
    BY <1>1, <1>2, <1>4 DEF Types, Labels, NextConfig, Report, Interrupted
  <2>2. Mapped'
    BY <1>1, <1>2 DEF Mapped, NextConfig, Report, Interrupted
  <2>3. PassedMapped' /\ PassedWithRequirements'
    BY <1>1, <1>2 DEF PassedMapped, PassedWithRequirements
  <2>4. QED
    BY <2>1, <2>2, <2>3
<1>6. Covered' /\ KeysAgree' /\ SuccessMeansChecked'
  <2>1. CASE NextConfig
    <3>1. \A i \in 1..config' - 1 : i \in 1..config - 1 \/ i = config
      BY <2>1 DEF NextConfig, Types
    <3>2. Covered'
      BY <1>1, <1>2, <1>3, <2>1, <3>1 DEF Covered, NextConfig
    <3>3. QED
      BY <1>4, <2>1, <3>2 DEF NextConfig, KeysAgree, SuccessMeansChecked
  <2>2. CASE Report
    <3>1. config' = config /\ pc' = "done" /\ config = Len(Configs)
      BY <2>2 DEF Report, progress
    <3>2. Covered'
      BY <1>1, <1>2, <1>3, <3>1 DEF Covered
    <3>3. outcome' = "success" => code = 0
      BY <2>2 DEF Report
    <3>4. \A i \in 1..Len(Configs) : i \in 1..config - 1 \/ i = config
      BY <3>1 DEF Types
    <3>5. code = 0 => \A i \in 1..Len(Configs) : \A p \in Wanted(i) : Done(i, p)
      BY <2>2, <3>4 DEF Covered, Report
    <3>6. SuccessMeansChecked'
      BY <1>1, <1>2, <3>3, <3>5 DEF SuccessMeansChecked, Done
    <3>7. QED
      BY <2>2, <3>2, <3>6 DEF KeysAgree, Report
  <2>3. CASE Interrupted
    <3>1. config' = config /\ pc' = "done" /\ outcome' = "interrupted"
      BY <2>3 DEF Interrupted, progress
    <3>2. Covered'
      BY <1>1, <1>2, <1>3, <3>1 DEF Covered
    <3>3. QED
      BY <3>1, <3>2 DEF KeysAgree, SuccessMeansChecked
  <2>4. QED
    BY <2>1, <2>2, <2>3
<1>7. QED
    BY <1>5, <1>6

LEMMA StutterIInv == IInv /\ UNCHANGED vars => IInv'
<1> SUFFICES ASSUME IInv, UNCHANGED vars PROVE IInv'
    OBVIOUS
<1>1. UNCHANGED <<input, pc, config, code, checked, passed, killed, venv, mapping, queue, outcome>>
    BY DEF vars, progress
<1>2. UNCHANGED <<filter, exclude, reqs, ToCheck, WithoutVenv>> /\ \A i : Wanted(i)' = Wanted(i)
    BY <1>1, InputFrame
<1>3. Types' /\ Mapped' /\ PassedMapped'
    BY <1>1, <1>2 DEF IInv, Types, Mapped, PassedMapped
<1>4. Covered'
    BY <1>1, <1>2 DEF IInv, Covered, Done
<1>5. KeysAgree' /\ PassedWithRequirements' /\ SuccessMeansChecked'
    BY <1>1, <1>2 DEF IInv, KeysAgree, PassedWithRequirements, SuccessMeansChecked
<1>6. QED
    BY <1>3, <1>4, <1>5 DEF IInv

LEMMA NextIInv == IInv /\ [Next]_vars => IInv'
<1> SUFFICES ASSUME IInv, [Next]_vars PROVE IInv'
    OBVIOUS
<1> DEFINE Stages == \/ SkipStubs \/ GroupDistributions \/ VenvsCreated \/ MapDistributions
                     \/ SetUpAlready \/ CheckKeys \/ StubsTested
                     \/ \E r \in ReqSets : CreateVenv(r) \/ PipInstall(r)
<1>1. CASE Stages
  <2>1. Types' /\ Mapped' /\ PassedMapped'
    BY <1>1, StagesMapped DEF IInv
  <2>2. Covered'
    BY <1>1, StagesCovered
  <2>3. KeysAgree' /\ PassedWithRequirements' /\ SuccessMeansChecked'
    BY <1>1, StagesKeep
  <2>4. QED
    BY <2>1, <2>2, <2>3 DEF IInv
<1>2. CASE TestStdlib
    BY <1>2, TestStdlibIInv
<1>3. ASSUME NEW d \in Dist, TestDistribution(d) PROVE IInv'
    BY <1>3, TestDistributionIInv
<1>4. CASE NextConfig \/ Report \/ Interrupted
    BY <1>4, MainIInv
<1>5. CASE UNCHANGED vars
    BY <1>5, StutterIInv
<1>6. QED
    BY <1>1, <1>2, <1>3, <1>4, <1>5 DEF Next, Step

LEMMA SpecIInv == Spec => []IInv
<1>1. QED
    BY InitIInv, NextIInv, PTL DEF Spec

----------------------------------------------------------------------------
(***************************************************************************)
(* The assertion of test_third_party_stubs never fails, whatever the       *)
(* command line, the requirements and the fate of the environments: the    *)
(* mapping made for the first pair has the keys of every later one.        *)
(***************************************************************************)
THEOREM AssertionHolds == Spec => []KeysAgree
<1>1. IInv => KeysAgree
    BY DEF IInv
<1>2. QED
    BY <1>1, SpecIInv, PTL

(***************************************************************************)
(* A stub whose distribution has requirements has passed only in an        *)
(* environment into which they were installed.                             *)
(***************************************************************************)
THEOREM PassesHaveRequirements == Spec => []PassedWithRequirements
<1>1. IInv => PassedWithRequirements
    BY DEF IInv
<1>2. QED
    BY <1>1, SpecIInv, PTL

(***************************************************************************)
(* A session that reports success has had every file the command line      *)
(* asks for accepted by mypy for every pair of version and platform, those *)
(* of runs ended by a signal excepted.                                     *)
(***************************************************************************)
THEOREM SuccessIsChecked == Spec => []SuccessMeansChecked
<1>1. IInv => SuccessMeansChecked
    BY DEF IInv
<1>2. QED
    BY <1>1, SpecIInv, PTL
=============================================================================
