--------------------------- MODULE DecisionProofs ---------------------------
(***************************************************************************)
(* Theorems about what stubsabot.py decides: VersionSpec for all           *)
(* specifiers and versions, and that DecisionTask implements Decision      *)
(* for any number of releases, with any files.                             *)
(***************************************************************************)
EXTENDS VersionSpec, DecisionTask, FiniteSetTheorems, TLAPS

----------------------------------------------------------------------------
(***************************************************************************)
(* The inductive invariant: a specifier the latest version does not match  *)
(* comes before it, or has its numbers (and then it is a post-release).    *)
(***************************************************************************)
SpecTypeOK == version_spec \in Spec440 /\ latest \in Version440

NotAbove ==
    \/ SpecContains(version_spec, latest)
    \/ Before(version_spec.parts, latest.release)
    \/ SameNumbers(version_spec.parts, latest.release)

IInv == SpecTypeOK /\ NotAbove /\ RaisesOnlyForPost

LEMMA FunctionIsSeq ==
    ASSUME NEW k \in Nat \ {0}, NEW f \in [1..k -> Nat]
    PROVE  f \in Seq(Nat) /\ Len(f) = k /\ f # << >>
<1>1. f \in Seq(Nat) /\ Len(f) = k
  OBVIOUS
<1> QED BY <1>1

LEMMA NumberType == \A s \in Seq(Nat), n \in Nat \ {0} : Number(s, n) \in Nat /\ (n > Len(s) => Number(s, n) = 0)
  BY DEF Number

\* numbers that are all the same are so past both ends
LEMMA SameEverywhere ==
    ASSUME NEW s \in Seq(Nat), NEW t \in Seq(Nat), SameNumbers(s, t)
    PROVE  \A n \in Nat \ {0} : Number(s, n) = Number(t, n)
<1> TAKE n \in Nat \ {0}
<1>1. CASE n <= Len(s) + Len(t)
  BY <1>1 DEF SameNumbers
<1>2. CASE n > Len(s) + Len(t)
  <2>1. n > Len(s) /\ n > Len(t)
    BY <1>2
  <2> QED BY <2>1, NumberType
<1> QED BY <1>1, <1>2

LEMMA BeforeWitness ==
    ASSUME NEW s \in Seq(Nat), NEW t \in Seq(Nat), NEW n \in Nat \ {0},
           Number(s, n) < Number(t, n), \A m \in 1..n - 1 : Number(s, m) = Number(t, m)
    PROVE  Before(s, t)
<1>1. n <= Len(t)
  BY NumberType
<1>2. n \in 1..Len(s) + Len(t)
  BY <1>1
<1> QED BY <1>2 DEF Before

LEMMA BeforeTransitive ==
    ASSUME NEW s \in Seq(Nat), NEW t \in Seq(Nat), NEW u \in Seq(Nat), Before(s, t), Before(t, u)
    PROVE  Before(s, u)
<1>1. PICK n \in 1..Len(s) + Len(t) :
        Number(s, n) < Number(t, n) /\ \A m \in 1..n - 1 : Number(s, m) = Number(t, m)
  BY DEF Before
<1>2. PICK k \in 1..Len(t) + Len(u) :
        Number(t, k) < Number(u, k) /\ \A m \in 1..k - 1 : Number(t, m) = Number(u, m)
  BY DEF Before
<1>0. /\ Number(s, n) \in Nat /\ Number(t, n) \in Nat /\ Number(u, n) \in Nat
      /\ Number(s, k) \in Nat /\ Number(t, k) \in Nat /\ Number(u, k) \in Nat
  BY NumberType
<1>3. CASE n <= k
  <2>1. Number(s, n) < Number(u, n)
    <3>1. CASE n = k
      BY <1>0, <1>1, <1>2, <3>1
    <3>2. CASE n < k
      <4>1. Number(t, n) = Number(u, n)
        BY <1>2, <3>2
      <4> QED BY <1>1, <4>1
    <3> QED BY <1>3, <3>1, <3>2
  <2>2. \A m \in 1..n - 1 : Number(s, m) = Number(u, m)
    BY <1>1, <1>2, <1>3
  <2> QED BY <2>1, <2>2, BeforeWitness
<1>4. CASE k < n
  <2>1. Number(s, k) < Number(u, k)
    BY <1>0, <1>1, <1>2, <1>4
  <2>2. \A m \in 1..k - 1 : Number(s, m) = Number(u, m)
    BY <1>1, <1>2, <1>4
  <2> QED BY <2>1, <2>2, BeforeWitness
<1> QED BY <1>3, <1>4

LEMMA BeforeSame ==
    ASSUME NEW s \in Seq(Nat), NEW t \in Seq(Nat), NEW u \in Seq(Nat),
           \/ SameNumbers(s, t) /\ Before(t, u)
           \/ Before(s, t) /\ SameNumbers(t, u)
    PROVE  Before(s, u)
<1>1. CASE SameNumbers(s, t) /\ Before(t, u)
  <2>1. \A n \in Nat \ {0} : Number(s, n) = Number(t, n)
    BY <1>1, SameEverywhere
  <2>2. PICK n \in 1..Len(t) + Len(u) :
          Number(t, n) < Number(u, n) /\ \A m \in 1..n - 1 : Number(t, m) = Number(u, m)
    BY <1>1 DEF Before
  <2>3. n \in Nat \ {0} /\ Number(s, n) < Number(u, n) /\ \A m \in 1..n - 1 : Number(s, m) = Number(u, m)
    BY <2>1, <2>2
  <2> QED BY <2>3, BeforeWitness
<1>2. CASE Before(s, t) /\ SameNumbers(t, u)
  <2>1. \A n \in Nat \ {0} : Number(t, n) = Number(u, n)
    BY <1>2, SameEverywhere
  <2>2. PICK n \in 1..Len(s) + Len(t) :
          Number(s, n) < Number(t, n) /\ \A m \in 1..n - 1 : Number(s, m) = Number(t, m)
    BY <1>2 DEF Before
  <2>3. n \in Nat \ {0} /\ Number(s, n) < Number(u, n) /\ \A m \in 1..n - 1 : Number(s, m) = Number(u, m)
    BY <2>1, <2>2
  <2> QED BY <2>3, BeforeWitness
<1> QED BY <1>1, <1>2

----------------------------------------------------------------------------
(***************************************************************************)
(* get_updated_version_spec, the promise of its docstring: for every old   *)
(* specifier and every version that is not a post-release, the result      *)
(* has the specificity of the old specifier and matches the version.       *)
(***************************************************************************)
THEOREM UpdatedSpecMatches ==
    ASSUME NEW spec \in Spec440, NEW v \in Version440, spec.star \/ ~v.post
    PROVE  /\ UpdatedSpec(spec, v) \in Spec440
           /\ UpdatedSpec(spec, v).star = spec.star
           /\ spec.star => Len(UpdatedSpec(spec, v).parts) = Len(spec.parts)
           /\ SpecContains(UpdatedSpec(spec, v), v)
<1>1. /\ spec.parts \in Seq(Nat) /\ spec.parts # << >> /\ spec.star \in BOOLEAN
      /\ v.release \in Seq(Nat) /\ v.release # << >> /\ v.post \in BOOLEAN
  BY DEF Spec440, Version440
<1>2. CASE ~spec.star
  <2>1. UpdatedSpec(spec, v) = [parts |-> v.release, star |-> FALSE]
    BY <1>2 DEF UpdatedSpec
  <2>2. UpdatedSpec(spec, v).parts = v.release /\ UpdatedSpec(spec, v).star = FALSE
    BY <2>1
  <2>3. UpdatedSpec(spec, v) \in Spec440
    BY <1>1, <2>1 DEF Spec440
  <2>4. SpecContains(UpdatedSpec(spec, v), v)
    BY <1>1, <1>2, <2>2 DEF SpecContains, Number
  <2> QED BY <1>1, <1>2, <2>2, <2>3, <2>4
<1>3. CASE spec.star
  <2> DEFINE parts == [n \in 1..Len(spec.parts) |-> Number(v.release, n)]
  <2>1. UpdatedSpec(spec, v) = [parts |-> parts, star |-> TRUE]
    BY <1>3 DEF UpdatedSpec
  <2>2. \A n \in 1..Len(spec.parts) : Number(v.release, n) \in Nat
    BY <1>1, NumberType
  <2>3. parts \in Seq(Nat) /\ Len(parts) = Len(spec.parts) /\ parts # << >>
    <3>1. Len(spec.parts) \in Nat \ {0}
      BY <1>1
    <3>2. parts \in [1..Len(spec.parts) -> Nat]
      BY <2>2
    <3> HIDE DEF parts
    <3> QED BY <3>1, <3>2, FunctionIsSeq
  <2>4. \A n \in 1..Len(parts) : parts[n] = Number(v.release, n)
    BY <2>3
  <2> HIDE DEF parts
  <2> QED BY <1>1, <1>3, <2>1, <2>3, <2>4 DEF Spec440, SpecContains, Number
<1> QED BY <1>2, <1>3

----------------------------------------------------------------------------
LEMMA InitIInv == Init => IInv
  BY VersionAssumption DEF Init, IInv, SpecTypeOK, NotAbove, RaisesOnlyForPost

\* a newer release leaves the specifier matched, before it, or with its numbers
LEMMA ReleaseStep ==
    ASSUME IInv, NEW v \in Versions, Release(v)
    PROVE  IInv'
<1> DEFINE parts == version_spec.parts
<1>1. /\ version_spec' = version_spec /\ latest' = v /\ outcome' = "none" /\ v \in Version440
      /\ parts \in Seq(Nat) /\ latest.release \in Seq(Nat) /\ v.release \in Seq(Nat)
  BY VersionAssumption DEF Release, IInv, SpecTypeOK, Spec440, Version440
<1>2. CASE Before(parts, latest.release)
  BY <1>1, <1>2, BeforeTransitive, BeforeSame DEF Release, Older, NotAbove, IInv, SpecTypeOK, RaisesOnlyForPost
<1>3. CASE SameNumbers(parts, latest.release)
  <2>1. \A n \in Nat \ {0} : Number(parts, n) = Number(latest.release, n)
    BY <1>1, <1>3, SameEverywhere
  <2>2. CASE Before(latest.release, v.release)
    <3>1. Before(parts, v.release)
      BY <1>1, <1>3, <2>2, BeforeSame
    <3> QED BY <1>1, <3>1 DEF NotAbove, IInv, SpecTypeOK, RaisesOnlyForPost
  <2>3. CASE SameNumbers(latest.release, v.release)
    <3>1. \A n \in Nat \ {0} : Number(latest.release, n) = Number(v.release, n)
      BY <1>1, <2>3, SameEverywhere
    <3>2. SameNumbers(parts, v.release)
      BY <1>1, <2>1, <3>1 DEF SameNumbers
    <3> QED BY <1>1, <3>2 DEF NotAbove, IInv, SpecTypeOK, RaisesOnlyForPost
  <2> QED BY <2>2, <2>3 DEF Release, Older
<1>4. CASE SpecContains(version_spec, latest)
  <2>1. \A n \in 1..Len(parts) : Number(parts, n) = Number(latest.release, n)
    BY <1>4 DEF SpecContains
  <2>2. ASSUME ~version_spec.star PROVE SameNumbers(parts, latest.release)
    <3>1. \A n \in 1..Len(latest.release) : Number(parts, n) = Number(latest.release, n)
      BY <1>1, <1>4, <2>2 DEF SpecContains, Number
    <3>2. ASSUME NEW n \in 1..Len(parts) + Len(latest.release)
          PROVE  Number(parts, n) = Number(latest.release, n)
      <4>1. CASE n <= Len(parts)
        BY <1>1, <2>1, <4>1
      <4>2. CASE n <= Len(latest.release)
        BY <1>1, <3>1, <4>2
      <4>3. CASE n > Len(parts) /\ n > Len(latest.release)
        BY <1>1, <4>3, NumberType
      <4> QED BY <1>1, <4>1, <4>2, <4>3
    <3> QED BY <3>2 DEF SameNumbers
  <2>3. CASE ~version_spec.star
    BY <1>3, <2>2, <2>3
  <2>4. CASE version_spec.star
    <3>1. CASE SameNumbers(latest.release, v.release)
      <4>1. \A n \in Nat \ {0} : Number(latest.release, n) = Number(v.release, n)
        BY <1>1, <3>1, SameEverywhere
      <4>2. SpecContains(version_spec, v)
        BY <1>1, <2>1, <2>4, <4>1 DEF SpecContains
      <4> QED BY <1>1, <4>2 DEF NotAbove, IInv, SpecTypeOK, RaisesOnlyForPost
    <3>2. CASE Before(latest.release, v.release)
      <4>1. PICK n \in 1..Len(latest.release) + Len(v.release) :
              /\ Number(latest.release, n) < Number(v.release, n)
              /\ \A m \in 1..n - 1 : Number(latest.release, m) = Number(v.release, m)
        BY <3>2 DEF Before
      <4>2. CASE n <= Len(parts)
        <5>1. n \in Nat \ {0} /\ Number(parts, n) < Number(v.release, n)
          BY <1>1, <2>1, <4>1, <4>2
        <5>2. \A m \in 1..n - 1 : Number(parts, m) = Number(v.release, m)
          BY <1>1, <2>1, <4>1, <4>2
        <5>3. Before(parts, v.release)
          BY <1>1, <5>1, <5>2, BeforeWitness
        <5> QED BY <1>1, <5>3 DEF NotAbove, IInv, SpecTypeOK, RaisesOnlyForPost
      <4>3. CASE n > Len(parts)
        <5>1. \A m \in 1..Len(parts) : Number(parts, m) = Number(v.release, m)
          BY <1>1, <2>1, <4>1, <4>3
        <5>2. SpecContains(version_spec, v)
          BY <2>4, <5>1 DEF SpecContains
        <5> QED BY <1>1, <5>2 DEF NotAbove, IInv, SpecTypeOK, RaisesOnlyForPost
      <4> QED BY <1>1, <4>2, <4>3
    <3> QED BY <3>1, <3>2 DEF Release, Older
  <2> QED BY <2>3, <2>4
<1> QED BY <1>2, <1>3, <1>4 DEF IInv, NotAbove

LEMMA BotStep == ASSUME IInv, Bot PROVE IInv'
<1> DEFINE updated == UpdatedSpec(version_spec, latest)
<1>1. version_spec \in Spec440 /\ latest \in Version440 /\ latest' = latest
  BY DEF IInv, SpecTypeOK, Bot
<1>2. version_spec.star \in BOOLEAN /\ latest.post \in BOOLEAN
  BY <1>1 DEF Spec440, Version440
<1>3. version_spec.star \/ ~latest.post => updated \in Spec440 /\ SpecContains(updated, latest)
  BY <1>1, UpdatedSpecMatches
<1>4. SpecContains(updated, latest) => updated \in Spec440
  <2>1. CASE version_spec.star
    BY <1>3, <2>1
  <2>2. CASE ~version_spec.star
    BY <1>1, <2>2 DEF UpdatedSpec, Spec440, Version440
  <2> QED BY <1>2, <2>1, <2>2
<1> HIDE DEF updated
<1>5. CASE outcome' = "up_to_date" /\ version_spec' = version_spec
  BY <1>1, <1>5 DEF IInv, SpecTypeOK, NotAbove, RaisesOnlyForPost
<1>6. CASE SpecContains(updated, latest) /\ outcome' = "updated" /\ version_spec' = updated
  BY <1>1, <1>4, <1>6 DEF IInv, SpecTypeOK, NotAbove, RaisesOnlyForPost
<1>7. CASE ~SpecContains(updated, latest) /\ version_spec' = version_spec
  BY <1>1, <1>2, <1>3, <1>7 DEF IInv, SpecTypeOK, NotAbove, RaisesOnlyForPost
<1> QED BY <1>5, <1>6, <1>7 DEF Bot, updated

LEMMA AlwaysIInv == Spec => []IInv
<1>1. IInv /\ [Next]_vars => IInv'
  <2> SUFFICES ASSUME IInv, [Next]_vars PROVE IInv'
    OBVIOUS
  <2>1. CASE UNCHANGED vars
    BY <2>1 DEF vars, IInv, SpecTypeOK, NotAbove, RaisesOnlyForPost
  <2> QED BY <2>1, ReleaseStep, BotStep DEF Next
<1> QED BY <1>1, InitIInv, PTL DEF Spec

(***************************************************************************)
(* For all specifiers and versions, the assertion of _check_spec can only  *)
(* fail for a post-release of a project whose specifier has no `.*'.       *)
(***************************************************************************)
THEOREM OnlyPostRaises == Spec => []RaisesOnlyForPost
  BY AlwaysIInv, PTL DEF IInv

\* what is known of a step that changes the specifier
LEMMA SpecChange ==
    ASSUME IInv, [Next]_vars, version_spec' # version_spec
    PROVE  /\ version_spec \in Spec440 /\ latest \in Version440
           /\ version_spec' = UpdatedSpec(version_spec, latest)
           /\ ~SpecContains(version_spec, latest) /\ SpecContains(version_spec', latest)
<1>1. Bot
  BY DEF Next, vars, Release
<1> QED BY <1>1 DEF Bot, IInv, SpecTypeOK

(***************************************************************************)
(* An update keeps the specificity, for all specifiers and versions.       *)
(***************************************************************************)
THEOREM SpecificityIsKept == Spec => SpecificityKept
<1>1. ASSUME IInv, [Next]_vars
      PROVE  /\ version_spec'.star = version_spec.star
             /\ version_spec.star => Len(version_spec'.parts) = Len(version_spec.parts)
  <2>1. CASE version_spec' = version_spec
    BY <2>1
  <2>2. CASE version_spec' # version_spec
    <3>1. /\ version_spec \in Spec440 /\ latest \in Version440
          /\ version_spec' = UpdatedSpec(version_spec, latest)
      BY <1>1, <2>2, SpecChange
    <3>2. CASE version_spec.star
      BY <3>1, <3>2, UpdatedSpecMatches
    <3>3. CASE ~version_spec.star
      BY <3>1, <3>3 DEF UpdatedSpec, Spec440
    <3> QED BY <3>1, <3>2, <3>3 DEF Spec440
  <2> QED BY <2>1, <2>2
<1>2. IInv /\ [Next]_vars =>
        /\ version_spec'.star = version_spec.star
        /\ version_spec.star => Len(version_spec'.parts) = Len(version_spec.parts)
  BY <1>1
<1> QED BY <1>2, AlwaysIInv, PTL DEF Spec, SpecificityKept

(***************************************************************************)
(* An update never lowers a specifier while releases only get newer, for   *)
(* all specifiers and versions.                                            *)
(***************************************************************************)
THEOREM IsNeverLowered == Spec => NeverLowered
<1>1. ASSUME IInv, [Next]_vars, version_spec' # version_spec
      PROVE  Before(version_spec.parts, version_spec'.parts)
  <2>1. /\ version_spec \in Spec440 /\ latest \in Version440
        /\ version_spec' = UpdatedSpec(version_spec, latest)
        /\ ~SpecContains(version_spec, latest) /\ SpecContains(version_spec', latest)
    BY <1>1, SpecChange
  <2>2. /\ version_spec.parts \in Seq(Nat) /\ latest.release \in Seq(Nat)
        /\ version_spec.star \in BOOLEAN /\ latest.post \in BOOLEAN
    BY <2>1 DEF Spec440, Version440
  <2>3. CASE ~version_spec.star
    <3>1. version_spec'.parts = latest.release /\ ~version_spec'.star
      BY <2>1, <2>3 DEF UpdatedSpec
    <3>2. ~latest.post
      BY <2>1, <3>1 DEF SpecContains
    <3>3. ~SameNumbers(version_spec.parts, latest.release)
      <4> SUFFICES ASSUME SameNumbers(version_spec.parts, latest.release) PROVE FALSE
        OBVIOUS
      <4>1. \A n \in Nat \ {0} : Number(version_spec.parts, n) = Number(latest.release, n)
        BY <2>2, SameEverywhere
      <4>2. SpecContains(version_spec, latest)
        BY <2>2, <2>3, <3>2, <4>1 DEF SpecContains, Number
      <4> QED BY <2>1, <4>2
    <3> QED BY <1>1, <2>1, <3>1, <3>3 DEF IInv, NotAbove
  <2>4. CASE version_spec.star
    <3>1. PICK k \in 1..Len(version_spec.parts) :
            Number(version_spec.parts, k) # Number(latest.release, k)
      BY <2>1, <2>4 DEF SpecContains
    <3>2. ~SameNumbers(version_spec.parts, latest.release)
      BY <2>2, <3>1, SameEverywhere
    <3>3. PICK n \in 1..Len(version_spec.parts) + Len(latest.release) :
            /\ Number(version_spec.parts, n) < Number(latest.release, n)
            /\ \A m \in 1..n - 1 : Number(version_spec.parts, m) = Number(latest.release, m)
      BY <1>1, <2>1, <3>2 DEF IInv, NotAbove, Before
    <3>4. n <= k
      BY <2>2, <3>1, <3>3
    <3>5. \A m \in 1..Len(version_spec.parts) : Number(version_spec'.parts, m) = Number(latest.release, m)
      <4>1. Len(version_spec'.parts) = Len(version_spec.parts)
        BY <2>1, <2>4, UpdatedSpecMatches
      <4> QED BY <2>1, <4>1 DEF SpecContains
    <3>6. version_spec'.parts \in Seq(Nat)
      BY <2>1, <2>4, UpdatedSpecMatches DEF Spec440
    <3>7. /\ n \in Nat \ {0} /\ Number(version_spec.parts, n) < Number(version_spec'.parts, n)
          /\ \A m \in 1..n - 1 : Number(version_spec.parts, m) = Number(version_spec'.parts, m)
      <4>1. n \in Nat \ {0} /\ n \in 1..Len(version_spec.parts)
        BY <2>2, <3>1, <3>3, <3>4
      <4>2. \A m \in 1..n - 1 : m \in 1..Len(version_spec.parts)
        BY <2>2, <4>1
      <4> QED BY <3>3, <3>5, <4>1, <4>2
    <3> QED BY <2>2, <3>6, <3>7, BeforeWitness
  <2> QED BY <2>2, <2>3, <2>4
<1>2. IInv /\ [Next]_vars =>
        (version_spec' # version_spec => Before(version_spec.parts, version_spec'.parts))
  BY <1>1
<1> QED BY <1>2, AlwaysIInv, PTL DEF Spec, NeverLowered

----------------------------------------------------------------------------
(***************************************************************************)
(* Determine_action, await by await.  A bounded set of numbers has a       *)
(* greatest and a least element: the sets of those above one of them are   *)
(* finite, and a smallest of these is empty.                               *)
(***************************************************************************)
LEMMA GreatestExists ==
    ASSUME NEW n \in Nat, NEW S \in SUBSET (1..n), S # {}
    PROVE  \E v \in S : \A w \in S : w <= v
<1> DEFINE Above(v) == {w \in S : w > v}
           Family == {Above(v) : v \in S}
           R == StrictSubsetOrdering(S)
<1>1. IsFiniteSet(S)
    BY FS_BoundedSetOfNaturals
<1>2. Family \subseteq FiniteSubsetsOf(S) /\ Family # {}
  <2>1. FiniteSubsetsOf(S) = SUBSET S
    BY <1>1, FS_FiniteSubsetsOfFinite
  <2>2. Family \subseteq SUBSET S
    OBVIOUS
  <2>3. PICK v \in S : TRUE
    OBVIOUS
  <2>4. Above(v) \in Family
    OBVIOUS
  <2>5. QED
    BY <2>1, <2>2, <2>4
<1>3. PICK U \in Family : \A W \in Family : <<W, U>> \notin R
  <2>1. IsWellFoundedOn(R, FiniteSubsetsOf(S))
    BY FS_StrictSubsetOrderingWellFounded
  <2> HIDE DEF Family, R
  <2>2. QED
    BY <1>2, <2>1, WFMin
<1>4. PICK v \in S : U = Above(v)
    BY <1>3
<1>5. U = {}
  <2> SUFFICES ASSUME NEW w \in U PROVE FALSE
    OBVIOUS
  <2>1. w \in S /\ w > v /\ w \in Nat /\ v \in Nat /\ Above(w) \in Family
    BY <1>4
  <2>a. w \notin Above(w)
    BY <2>1
  <2>b. ASSUME NEW x \in Above(w) PROVE x \in U
    BY <1>4, <2>1, <2>b
  <2>c. Above(w) \subseteq U /\ Above(w) # U
    BY <2>a, <2>b
  <2>2. <<Above(w), U>> \in R
    BY <1>4, <2>c DEF StrictSubsetOrdering
  <2>3. QED
    BY <1>3, <2>1, <2>2
<1>6. QED
    BY <1>4, <1>5

LEMMA LeastExists ==
    ASSUME NEW n \in Nat, NEW S \in SUBSET (1..n), S # {}
    PROVE  \E v \in S : \A w \in S : v <= w
<1> DEFINE T == {n + 1 - v : v \in S}
<1>1. T \in SUBSET (1..n) /\ T # {}
  <2>1. \A v \in S : n + 1 - v \in 1..n
    OBVIOUS
  <2>2. PICK v \in S : TRUE
    OBVIOUS
  <2>3. n + 1 - v \in T
    OBVIOUS
  <2>4. QED
    BY <2>1, <2>3
<1> HIDE DEF T
<1>2. PICK t \in T : \A u \in T : u <= t
    BY <1>1, GreatestExists
<1>3. PICK v \in S : t = n + 1 - v
    BY DEF T
<1>4. ASSUME NEW w \in S PROVE v <= w
  <2>1. n + 1 - w \in T
    BY DEF T
  <2>2. n + 1 - w <= n + 1 - v
    BY <1>2, <1>3, <2>1
  <2>3. v \in 1..n /\ w \in 1..n
    OBVIOUS
  <2>4. QED
    BY <2>2, <2>3
<1>5. QED
    BY <1>4

----------------------------------------------------------------------------
(***************************************************************************)
(* The pages PyPI can show: some release that is final and not yanked.     *)
(***************************************************************************)
ReleaseRecord == [files : FileLists, pre : BOOLEAN, yanked : BOOLEAN]
Pages == {rs \in Seq(ReleaseRecord) : Len(rs) \in Version /\ Current(rs) # {}}

LEMMA LatestType ==
    ASSUME NEW rs \in Pages
    PROVE  Latest(rs) \in Current(rs) /\ Latest(rs) \in Finals(rs) /\ Latest(rs) \in Version
<1>1. Len(rs) \in Nat /\ Current(rs) \in SUBSET (1..Len(rs)) /\ Current(rs) # {}
    BY DEF Pages, Current, Finals
<1>2. \E v \in Current(rs) : \A w \in Current(rs) : w <= v
    BY <1>1, GreatestExists
<1>3. Latest(rs) \in Current(rs)
    BY <1>2 DEF Latest
<1>4. QED
    BY <1>3, DataAssumption DEF Pages, Current, Finals, Version

Run(rs) == {v \in Finals(rs) : \A w \in Finals(rs) : v <= w => Typed(rs[w])}

LEMMA TypedSinceIs ==
    ASSUME NEW rs
    PROVE  TypedSince(rs) = CASE Run(rs) = {} -> 0
                              [] Run(rs) = Finals(rs) -> 1
                              [] OTHER -> CHOOSE v \in Run(rs) : \A w \in Run(rs) : v <= w
BY DEF TypedSince, Run

LEMMA PageOfType ==
    ASSUME NEW rs \in Pages
    PROVE  PageOf(rs) \in Pypi /\ PageOf(rs) # NotRead
<1>1. Run(rs) # {} => (CHOOSE v \in Run(rs) : \A w \in Run(rs) : v <= w) \in Version
  <2> SUFFICES ASSUME Run(rs) # {}
               PROVE  (CHOOSE v \in Run(rs) : \A w \in Run(rs) : v <= w) \in Version
    OBVIOUS
  <2>1. Len(rs) \in Nat /\ Run(rs) \in SUBSET (1..Len(rs))
    BY DEF Pages, Run, Finals
  <2>2. \E v \in Run(rs) : \A w \in Run(rs) : v <= w
    BY <2>1, LeastExists
  <2>3. (CHOOSE v \in Run(rs) : \A w \in Run(rs) : v <= w) \in Run(rs)
    BY <2>2
  <2>4. Run(rs) \subseteq Version
    BY DataAssumption DEF Pages, Run, Finals, Version
  <2>5. QED
    BY <2>3, <2>4
<1>2. TypedSince(rs) \in 0..MaxVersion
  <2>1. CASE Run(rs) = {}
    BY <2>1, TypedSinceIs, DataAssumption
  <2>2. CASE Run(rs) # {} /\ Run(rs) = Finals(rs)
    BY <2>2, TypedSinceIs, DataAssumption
  <2>3. CASE Run(rs) # {} /\ Run(rs) # Finals(rs)
    <3>1. TypedSince(rs) = CHOOSE v \in Run(rs) : \A w \in Run(rs) : v <= w
      BY <2>3, TypedSinceIs
    <3>2. QED
      BY <1>1, <2>3, <3>1, DataAssumption DEF Version
  <2>4. QED
    BY <2>1, <2>2, <2>3
<1>3. 0 \in Notes
    BY DataAssumption DEF Notes
<1>4. PageOf(rs) \in Pypi
    BY <1>2, <1>3, LatestType DEF PageOf, Pypi
<1>5. DOMAIN PageOf(rs) = {"latest", "typed_since", "notes"} /\ DOMAIN NotRead = {}
    BY DEF PageOf, NotRead
<1>6. QED
    BY <1>4, <1>5

----------------------------------------------------------------------------
(***************************************************************************)
(* The inductive invariant of a task: what the early returns have          *)
(* excluded, and what the walk over the releases has found so far.         *)
(***************************************************************************)
TaskTypes ==
    /\ meta \in Meta /\ releases \in Pages /\ urls \in {"null", "none", "github"}
    /\ pc \in {"start", "pypi", "py.typed", "github", "diff", "analyze", "done"}
    /\ pc # "done" => answer = Pending
    /\ pc \in {"start", "pypi"} => seen = NotRead /\ first = 0
    /\ pc \notin {"start", "done"} => meta.obsolete_since = 0 /\ dist \notin NoLongerUpdated
    /\ pc \in {"py.typed", "github", "diff", "analyze"} =>
          seen \in Pages /\ at \in Nat /\ Latest(seen) # meta.version

\* all final releases the walk has passed have py.typed, and `first' is the oldest of them
Walking ==
    pc = "py.typed" =>
        /\ \A w \in Finals(seen) : at <= w => first # 0 /\ Typed(seen[w])
        /\ first # 0 => first = at /\ first \in Finals(seen)

\* the walk has ended at a final release without py.typed
Walked ==
    pc \in {"github", "diff", "analyze"} =>
        /\ at \in Finals(seen) /\ ~Typed(seen[at])
        /\ \A w \in Finals(seen) : at < w => first # 0 /\ first <= w /\ Typed(seen[w])
        /\ first # 0 => first \in Finals(seen) /\ at < first

TaskInv == TaskTypes /\ Walking /\ Walked

LEMMA FinalsAreNumbers ==
    ASSUME NEW rs \in Pages
    PROVE  Len(rs) \in Nat /\ Finals(rs) \in SUBSET (1..Len(rs)) /\ Finals(rs) \subseteq Nat \ {0}
BY DEF Pages, Finals

\* next(release_iter) is the newest final release older than the last one
LEMMA NextReleaseIs ==
    ASSUME seen \in Pages, at \in Nat, ~IteratorFails
    PROVE  /\ NextRelease \in Finals(seen) /\ NextRelease < at
           /\ \A w \in Finals(seen) : w < at => w <= NextRelease
           /\ Typed(seen[NextRelease]) <=> BestFile(seen[NextRelease].files).typed
<1> DEFINE older == {v \in Finals(seen) : v < at}
<1>1. Len(seen) \in Nat /\ older \in SUBSET (1..Len(seen)) /\ older \subseteq Finals(seen)
    BY FinalsAreNumbers
<1>2. older # {} /\ NextRelease = CHOOSE v \in older : \A w \in older : w <= v
    BY DEF NextRelease, IteratorFails
<1>3. \E v \in older : \A w \in older : w <= v
    BY <1>1, <1>2, GreatestExists
<1>4. NextRelease \in older /\ \A w \in older : w <= NextRelease
    BY <1>2, <1>3
<1>5. seen[NextRelease].files # << >>
  <2>1. NextRelease \in NextRelease..at - 1 /\ NextRelease > 0
    BY <1>4, FinalsAreNumbers
  <2>2. QED
    BY <2>1 DEF IteratorFails
<1>6. QED
    BY <1>4, <1>5 DEF Typed

\* at the end of the walk `first' is what the abstract page says
LEMMA WalkFinds ==
    ASSUME TaskInv, pc \in {"github", "diff", "analyze"}
    PROVE  TypedSince(seen) = first /\ first # 1
<1>1. seen \in Pages /\ Walked
    BY DEF TaskInv, TaskTypes
<1>2. Finals(seen) \subseteq Nat \ {0}
    BY <1>1, FinalsAreNumbers
<1>3. /\ at \in Finals(seen) /\ ~Typed(seen[at])
      /\ \A w \in Finals(seen) : at < w => first # 0 /\ first <= w /\ Typed(seen[w])
      /\ first # 0 => first \in Finals(seen) /\ at < first
    BY <1>1 DEF Walked
<1>4. Run(seen) = {v \in Finals(seen) : at < v}
    BY <1>2, <1>3 DEF Run
<1>5. Run(seen) # Finals(seen)
    BY <1>2, <1>3, <1>4
<1>6. CASE first = 0
  <2>1. Run(seen) = {}
    BY <1>3, <1>4, <1>6
  <2>2. TypedSince(seen) = 0
    BY <1>5, <2>1, TypedSinceIs
  <2>3. QED
    BY <1>6, <2>2
<1>7. CASE first # 0
  <2>1. first \in Run(seen) /\ \A w \in Run(seen) : first <= w
    BY <1>3, <1>4, <1>7
  <2>2. Run(seen) \subseteq Nat
    BY <1>2, <1>4
  <2>3. TypedSince(seen) = CHOOSE v \in Run(seen) : \A w \in Run(seen) : v <= w
    BY <1>5, <2>1, TypedSinceIs
  <2>4. \A v \in Run(seen) : (\A w \in Run(seen) : v <= w) => v = first
    BY <2>1, <2>2
  <2>5. TypedSince(seen) = first
    BY <2>1, <2>3, <2>4
  <2>6. QED
    BY <1>2, <1>3, <1>7, <2>5
<1>8. QED
    BY <1>6, <1>7

\* what a task returns after the walk is an answer for the page it has seen
LEMMA ProposalIsAnswer ==
    ASSUME TaskInv, pc \in {"github", "diff", "analyze"}, NEW n \in {0, 1}
    PROVE  Proposal(n) \in Abstract!AnswersFor(PageOf(seen))
<1>1. /\ meta.obsolete_since = 0 /\ dist \notin NoLongerUpdated
      /\ Latest(seen) # meta.version
    BY DEF TaskInv, TaskTypes
<1>2. TypedSince(seen) = first /\ first # 1
    BY WalkFinds
<1>3. [PageOf(seen) EXCEPT !.notes = n] = [latest |-> Latest(seen), typed_since |-> first, notes |-> n]
    BY <1>2 DEF PageOf
<1>4. Abstract!DetermineAction(dist, meta, [PageOf(seen) EXCEPT !.notes = n]) = Proposal(n)
    BY <1>1, <1>2, <1>3 DEF Abstract!DetermineAction, Abstract!UpToDate, Abstract!WalkRunsOut, Proposal
<1>5. n \in Abstract!Notes
    BY TaskAssumption, DataAssumption DEF Abstract!Notes, Notes
<1>6. QED
    BY <1>4, <1>5 DEF Abstract!AnswersFor

\* whatever the project does, its page stays one PyPI can show
LEMMA ProjectPages ==
    ASSUME releases \in Pages, Project
    PROVE  releases' \in Pages
<1>1. releases \in Seq(ReleaseRecord) /\ Len(releases) \in 1..MaxVersion /\ Current(releases) # {}
    BY DEF Pages, Version
<1>2. \A v \in Current(releases) : v \in 1..Len(releases) /\ ~releases[v].pre /\ ~releases[v].yanked
    BY DEF Current, Finals
<1>3. ASSUME Len(releases) < MaxVersion, NEW files \in FileLists, NEW pre \in BOOLEAN,
             releases' = Append(releases, [files |-> files, pre |-> pre, yanked |-> FALSE])
      PROVE  releases' \in Pages
  <2>1. [files |-> files, pre |-> pre, yanked |-> FALSE] \in ReleaseRecord
    BY DEF ReleaseRecord
  <2>2. /\ releases' \in Seq(ReleaseRecord) /\ Len(releases') = Len(releases) + 1
        /\ \A v \in 1..Len(releases) : releases'[v] = releases[v]
    BY <1>1, <1>3, <2>1
  <2>3. PICK v \in Current(releases) : TRUE
    BY <1>1
  <2>4. v \in Current(releases')
    BY <1>1, <1>2, <2>2 DEF Current, Finals
  <2>5. Len(releases') \in 1..MaxVersion
    <3>1. MaxVersion \in Nat
      BY DataAssumption
    <3>2. QED
      BY <1>1, <1>3, <2>2, <3>1
  <2>6. QED
    BY <2>2, <2>4, <2>5 DEF Pages, Version
<1>4. ASSUME NEW v \in Current(releases), Current(releases) # {v},
             releases' = [releases EXCEPT ![v].yanked = TRUE]
      PROVE  releases' \in Pages
  <2>1. v \in 1..Len(releases) /\ releases[v] \in ReleaseRecord
    BY <1>1, <1>2
  <2>2. [releases[v] EXCEPT !.yanked = TRUE] \in ReleaseRecord
    BY <2>1 DEF ReleaseRecord
  <2>3. /\ releases' \in Seq(ReleaseRecord) /\ Len(releases') = Len(releases)
        /\ \A u \in 1..Len(releases) : u # v => releases'[u] = releases[u]
    BY <1>1, <1>4, <2>1, <2>2
  <2>4. PICK u \in Current(releases) : u # v
    BY <1>4
  <2>5. u \in Current(releases')
    BY <1>2, <2>3, <2>4 DEF Current, Finals
  <2>6. QED
    BY <1>1, <2>3, <2>5 DEF Pages, Version
<1>5. QED
    BY <1>3, <1>4 DEF Project

----------------------------------------------------------------------------
LEMMA TaskInitInv == TaskInit => TaskInv
<1> SUFFICES ASSUME TaskInit PROVE TaskInv
    OBVIOUS
<1>1. PICK n \in Version :
        releases \in [1..n -> [files : FileLists, pre : BOOLEAN, yanked : {FALSE}]]
    BY DEF TaskInit
<1>2. n \in Nat
    BY DataAssumption DEF Version
<1>a. \A v \in 1..n : releases[v] \in ReleaseRecord
    BY <1>1 DEF ReleaseRecord
<1>b. releases \in [1..n -> ReleaseRecord]
    BY <1>1, <1>a
<1>3. releases \in Seq(ReleaseRecord) /\ Len(releases) = n
    BY <1>2, <1>b
<1>4. \A v \in 1..Len(releases) : ~releases[v].yanked
    BY <1>1, <1>3
<1>5. Current(releases) # {}
    BY <1>4 DEF TaskInit, Current, Finals
<1>6. releases \in Pages
    BY <1>1, <1>3, <1>5 DEF Pages
<1>7. QED
    BY <1>6 DEF TaskInit, TaskInv, TaskTypes, Walking, Walked

LEMMA TaskStepInv == TaskInv /\ [TaskNext]_taskVars => TaskInv'
<1> SUFFICES ASSUME TaskInv, [TaskNext]_taskVars PROVE TaskInv'
    OBVIOUS
<1> USE DEF Return, Raise, Await, world
<1>1. CASE Project
  <2>1. releases' \in Pages /\ UNCHANGED <<meta, urls, pc, seen, at, first, answer>>
    BY <1>1, ProjectPages DEF Project, TaskInv, TaskTypes
  <2>2. QED
    BY <2>1 DEF TaskInv, TaskTypes, Walking, Walked
<1>2. CASE Start
  <2>1. TaskTypes'
    BY <1>2 DEF TaskInv, TaskTypes, Start
  <2>2. QED
    BY <1>2, <2>1 DEF TaskInv, Start, Walking, Walked
<1>3. CASE FetchPypiInfo
  <2> USE DEF FetchPypiInfo
  <2>0. releases \in Pages /\ Len(releases) + 1 \in Nat
    BY FinalsAreNumbers DEF TaskInv, TaskTypes
  <2>1. UNCHANGED <<meta, releases, urls, first>> /\ pc' \in {"done", "py.typed"} /\ first = 0
    BY <1>3 DEF TaskInv, TaskTypes
  <2>2. pc' = "py.typed" =>
          /\ seen' = releases /\ at' = Len(releases) + 1 /\ answer' = answer
          /\ Latest(releases) # meta.version
    BY <1>3
  <2>3. TaskTypes'
    BY <1>3, <2>0, <2>1, <2>2 DEF TaskInv, TaskTypes
  <2>4. \A w \in Finals(releases) : ~(Len(releases) + 1 <= w)
    BY <2>0, FinalsAreNumbers
  <2>5. Walking' /\ Walked'
    BY <2>1, <2>2, <2>4 DEF Walking, Walked
  <2>6. QED
    BY <2>3, <2>5 DEF TaskInv
<1>4. CASE ContainsPyTyped
  <2> USE DEF ContainsPyTyped
  <2>1. /\ UNCHANGED <<meta, releases, urls, seen>> /\ pc = "py.typed" /\ seen \in Pages /\ at \in Nat
        /\ pc' \in {"done", "py.typed", "github"} /\ (pc' # "done" => answer' = answer)
    BY <1>4 DEF TaskInv, TaskTypes
  <2>2. CASE pc' = "done"
    BY <1>4, <2>1, <2>2 DEF TaskInv, TaskTypes, Walking, Walked
  <2>3. CASE pc' # "done"
    <3>1. /\ ~IteratorFails /\ at' = NextRelease
          /\ \/ /\ BestFile(seen[NextRelease].files).typed
                /\ first' = NextRelease /\ pc' = "py.typed"
             \/ /\ ~BestFile(seen[NextRelease].files).typed
                /\ first' = first /\ pc' = "github"
      BY <1>4, <2>3
    <3>2. /\ NextRelease \in Finals(seen) /\ NextRelease < at
          /\ \A w \in Finals(seen) : w < at => w <= NextRelease
          /\ Typed(seen[NextRelease]) <=> BestFile(seen[NextRelease].files).typed
      BY <2>1, <3>1, NextReleaseIs
    <3>3. Finals(seen) \subseteq Nat \ {0}
      BY <2>1, FinalsAreNumbers
    <3>4. \A w \in Finals(seen) : NextRelease < w => at <= w
      BY <2>1, <3>2, <3>3
    <3>5. TaskTypes'
      BY <1>4, <2>1, <2>3, <3>1, <3>2, <3>3 DEF TaskInv, TaskTypes
    <3>6. Walking /\ pc = "py.typed"
      BY <2>1 DEF TaskInv
    <3>7. CASE pc' = "py.typed"
      <4>1. \A w \in Finals(seen) : NextRelease <= w => Typed(seen[w])
        BY <3>1, <3>2, <3>3, <3>4, <3>6, <3>7 DEF Walking
      <4>2. QED
        BY <2>1, <3>1, <3>2, <3>3, <3>5, <3>7, <4>1 DEF TaskInv, Walking, Walked
    <3>8. CASE pc' = "github"
      <4>1. \A w \in Finals(seen) : NextRelease < w => first # 0 /\ first <= w /\ Typed(seen[w])
        BY <3>4, <3>6 DEF Walking
      <4>2. first # 0 => first \in Finals(seen) /\ NextRelease < first
        BY <3>2, <3>6 DEF Walking
      <4>3. QED
        BY <2>1, <3>1, <3>2, <3>5, <3>8, <4>1, <4>2 DEF TaskInv, Walking, Walked
    <3>9. QED
      BY <3>1, <3>7, <3>8
  <2>4. QED
    BY <2>2, <2>3
<1>5. CASE GetGithubRepoInfo \/ CheckDiffUrl \/ AnalyzeDiff
  <2>1. /\ UNCHANGED <<meta, releases, urls, seen, at, first>>
        /\ pc \in {"github", "diff", "analyze"} /\ pc' \in {"diff", "analyze", "done"}
        /\ pc' # "done" => answer' = answer
    <3>1. CASE GetGithubRepoInfo
      <4>1. urls \in {"null", "none", "github"}
        BY DEF TaskInv, TaskTypes
      <4>2. QED
        BY <3>1, <4>1 DEF GetGithubRepoInfo
    <3>2. CASE CheckDiffUrl
      BY <3>2 DEF CheckDiffUrl
    <3>3. CASE AnalyzeDiff
      BY <3>3 DEF AnalyzeDiff
    <3>4. QED
      BY <1>5, <3>1, <3>2, <3>3
  <2>2. QED
    BY <2>1 DEF TaskInv, TaskTypes, Walking, Walked
<1>6. CASE UNCHANGED taskVars
    BY <1>6 DEF taskVars, TaskInv, TaskTypes, Walking, Walked
<1>7. QED
    BY <1>1, <1>2, <1>3, <1>4, <1>5, <1>6 DEF TaskNext, Task

LEMMA TaskAlways == TaskInit /\ [][TaskNext]_taskVars => []TaskInv
<1>1. QED
    BY TaskInitInv, TaskStepInv, PTL

----------------------------------------------------------------------------
(***************************************************************************)
(* Every step of a task is a step of Decision or leaves its variables      *)
(* alone.                                                                  *)
(***************************************************************************)
AbstractRead == IF seen = NotRead THEN NotRead ELSE PageOf(seen)
AbstractVars == <<meta, PageOf(releases), AbstractRead, answer>>

LEMMA InitImplements == TaskInit => Abstract!Init
<1> SUFFICES ASSUME TaskInit PROVE Abstract!Init
    OBVIOUS
<1>1. PageOf(releases) \in Pypi
    BY TaskInitInv, PageOfType DEF TaskInv, TaskTypes
<1>2. Meta = Abstract!Meta /\ Pypi = Abstract!Pypi /\ Pending = Abstract!Pending
    BY DEF Meta, Pypi, Pending, Version, Notes, Abstract!Meta, Abstract!Pypi, Abstract!Pending,
           Abstract!Version, Abstract!Notes
<1>3. QED
    BY <1>1, <1>2 DEF TaskInit, Abstract!Init, NotRead, Abstract!NotRead

\* a task that ends: with an exception, or with an answer for what it has read
LEMMA EndImplements ==
    ASSUME TaskInv, UNCHANGED <<meta, releases, seen>>, pc # "done",
           answer' = Raised \/ answer' \in Abstract!Answers
    PROVE  Abstract!Answer
BY DEF TaskInv, TaskTypes, Abstract!Answer, Pending, Raised, Abstract!Pending, Abstract!Raised

LEMMA StepImplements ==
    TaskInv /\ [TaskNext]_taskVars => [Abstract!Next]_AbstractVars
<1> SUFFICES ASSUME TaskInv, [TaskNext]_taskVars
             PROVE  Abstract!Next \/ UNCHANGED AbstractVars
    OBVIOUS
<1> USE DEF Return, Raise, Await, world
<1>1. CASE Project
  <2>1. releases' \in Pages /\ UNCHANGED <<meta, seen, answer>>
    BY <1>1, ProjectPages DEF Project, TaskInv, TaskTypes
  <2>2. PageOf(releases)' \in Abstract!Pypi
    BY <2>1, PageOfType DEF Pypi, Version, Notes, Abstract!Pypi, Abstract!Version, Abstract!Notes
  <2>3. Abstract!PageChanges
    BY <2>1, <2>2 DEF Abstract!PageChanges, PageOf
  <2>4. QED
    BY <2>3 DEF Abstract!Next
<1>2. CASE Start
  <2>1. UNCHANGED <<meta, releases, seen>> /\ seen = NotRead /\ pc = "start"
    BY <1>2 DEF Start, TaskInv, TaskTypes
  <2>2. CASE meta.obsolete_since # 0 \/ dist \in NoLongerUpdated
    <3>1. answer' = NoUpdate
      BY <1>2, <2>2 DEF Start
    <3>2. answer' \in Abstract!Answers
      BY <2>1, <2>2, <3>1 DEF Abstract!Answers, Abstract!NotRead, NotRead, NoUpdate, Abstract!NoUpdate
    <3>3. QED
      BY <2>1, <3>2, EndImplements DEF Abstract!Next
  <2>3. CASE ~(meta.obsolete_since # 0 \/ dist \in NoLongerUpdated)
    BY <1>2, <2>1, <2>3 DEF Start, AbstractVars, AbstractRead, PageOf
  <2>4. QED
    BY <2>2, <2>3
<1>3. CASE FetchPypiInfo
  <2> USE DEF FetchPypiInfo
  <2>1. UNCHANGED <<meta, releases>> /\ seen = NotRead /\ releases \in Pages /\ pc = "pypi" /\ answer = Pending
    BY <1>3 DEF TaskInv, TaskTypes
  <2>2. CASE answer' = Raised /\ UNCHANGED seen
    BY <2>1, <2>2, EndImplements DEF Abstract!Next
  <2>3. CASE seen' = releases /\ answer' \in {Pending, Raised}
    <3>1. seen' # NotRead
      BY <2>1, <2>3, DataAssumption DEF Pages, Version, NotRead
    <3>2. Abstract!Read
      BY <2>1, <2>3, <3>1 DEF Abstract!Read, Pending, Abstract!Pending, Raised, Abstract!Raised, NotRead,
             Abstract!NotRead, PageOf
    <3>3. QED
      BY <3>2 DEF Abstract!Next
  <2>4. CASE seen' = releases /\ answer' = NoUpdate /\ Latest(releases) = meta.version
    <3>1. seen' # NotRead
      BY <2>1, <2>4, DataAssumption DEF Pages, Version, NotRead
    <3>2. 0 \in Abstract!Notes /\ [PageOf(releases) EXCEPT !.notes = 0].latest = meta.version
      BY <2>4, DataAssumption DEF Abstract!Notes, PageOf
    <3>3. Abstract!DetermineAction(dist, meta, [PageOf(releases) EXCEPT !.notes = 0]) = NoUpdate
      BY <3>2 DEF Abstract!DetermineAction, Abstract!UpToDate, Abstract!NoUpdate, NoUpdate
    <3>4. answer' \in Abstract!AnswersFor(PageOf(releases))
      BY <2>4, <3>2, <3>3 DEF Abstract!AnswersFor
    <3>5. Abstract!Read
      BY <2>1, <2>4, <3>1, <3>4 DEF Abstract!Read, Pending, Abstract!Pending, NotRead, Abstract!NotRead, PageOf
    <3>6. QED
      BY <3>5 DEF Abstract!Next
  <2>5. QED
    BY <1>3, <2>1, <2>2, <2>3, <2>4
<1>4. CASE ContainsPyTyped
  <2>1. UNCHANGED <<meta, releases, seen>> /\ pc = "py.typed" /\ (answer' = Raised \/ answer' = answer)
    BY <1>4 DEF ContainsPyTyped
  <2>2. CASE answer' = Raised
    BY <2>1, <2>2, EndImplements DEF Abstract!Next
  <2>3. CASE answer' = answer
    BY <2>1, <2>3 DEF AbstractVars, AbstractRead, PageOf
  <2>4. QED
    BY <2>1, <2>2, <2>3
<1>5. CASE GetGithubRepoInfo \/ CheckDiffUrl \/ AnalyzeDiff
  <2>1. /\ UNCHANGED <<meta, releases, seen>> /\ pc \in {"github", "diff", "analyze"}
        /\ answer' = Raised \/ answer' = answer \/ \E n \in {0, 1} : answer' = Proposal(n)
    <3>1. CASE GetGithubRepoInfo
      <4>1. urls \in {"null", "none", "github"}
        BY DEF TaskInv, TaskTypes
      <4>2. QED
        BY <3>1, <4>1 DEF GetGithubRepoInfo
    <3>2. CASE CheckDiffUrl
      BY <3>2 DEF CheckDiffUrl
    <3>3. CASE AnalyzeDiff
      BY <3>3 DEF AnalyzeDiff
    <3>4. QED
      BY <1>5, <3>1, <3>2, <3>3
  <2>2. CASE answer' = Raised
    BY <2>1, <2>2, EndImplements DEF Abstract!Next
  <2>3. CASE answer' = answer
    BY <2>1, <2>3 DEF AbstractVars, AbstractRead, PageOf
  <2>4. ASSUME NEW n \in {0, 1}, answer' = Proposal(n) PROVE Abstract!Answer
    <3>1. Proposal(n) \in Abstract!AnswersFor(PageOf(seen))
      BY <2>1, ProposalIsAnswer
    <3>2. seen # NotRead /\ PageOf(seen) # NotRead
      <4>1. seen \in Pages
        BY <2>1 DEF TaskInv, TaskTypes
      <4>2. QED
        BY <4>1, PageOfType, DataAssumption DEF Pages, Version, NotRead
    <3>3. answer' \in Abstract!Answers
      BY <2>4, <3>1, <3>2 DEF Abstract!Answers, Abstract!NotRead, NotRead
    <3>4. QED
      BY <2>1, <3>3, EndImplements
  <2>5. QED
    BY <2>1, <2>2, <2>3, <2>4 DEF Abstract!Next
<1>6. CASE UNCHANGED taskVars
    BY <1>6 DEF taskVars, AbstractVars, AbstractRead, PageOf
<1>7. QED
    BY <1>1, <1>2, <1>3, <1>4, <1>5, <1>6 DEF TaskNext, Task

(***************************************************************************)
(* A determine_action task implements Decision, whatever the project       *)
(* releases, yanks and tags between its awaits, for any number of releases *)
(* and any files: its answer is the one for the page it has read, or it    *)
(* raises.                                                                 *)
(***************************************************************************)
THEOREM TaskImplementsDecision == TaskSpec => ImplementsDecision
<1>1. AbstractVars = <<meta, PageOf(releases), IF seen = NotRead THEN NotRead ELSE PageOf(seen), answer>>
    BY DEF AbstractVars, AbstractRead
<1>2. QED
    BY <1>1, InitImplements, StepImplements, TaskAlways, PTL
    DEF TaskSpec, ImplementsDecision, Abstract!Spec, AbstractVars, AbstractRead
=============================================================================
