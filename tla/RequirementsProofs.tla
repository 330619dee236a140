------------------------- MODULE RequirementsProofs -------------------------
(***************************************************************************)
(* The type invariant of Requirements and the correctness of its cache,    *)
(* for any packages and requirements, cyclic ones included.                *)
(***************************************************************************)
EXTENDS Requirements, TLAPS

Requires == requires \in [Pkg -> SUBSET (Pkg \cup External)]

(***************************************************************************)
(* Reachable(p) has the requirements of p and of its members, and is part  *)
(* of every other such set.                                                *)
(***************************************************************************)
LEMMA ReachableClosed ==
    ASSUME Requires, NEW p \in Pkg
    PROVE  /\ Reachable(p) \in SUBSET Pkg
           /\ TypeshedPkgs(p) \subseteq Reachable(p)
           /\ Closed(Reachable(p))
<1>1. TypeshedPkgs(p) \subseteq Reachable(p)
    BY DEF Reachable, TypeshedPkgs
<1>2. ASSUME NEW x \in Reachable(p), NEW y \in TypeshedPkgs(x)
      PROVE  y \in Reachable(p)
  <2>1. ASSUME NEW S \in SUBSET Pkg, TypeshedPkgs(p) \subseteq S, Closed(S)
        PROVE  y \in S
    BY <1>2, <2>1 DEF Reachable, Closed
  <2>2. y \in Pkg
    BY <1>2 DEF TypeshedPkgs
  <2>3. QED
    BY <2>1, <2>2 DEF Reachable
<1>3. QED
    BY <1>1, <1>2 DEF Closed, Reachable

LEMMA ReachableLeast ==
    ASSUME NEW p \in Pkg, NEW S \in SUBSET Pkg, TypeshedPkgs(p) \subseteq S, Closed(S)
    PROVE  Reachable(p) \subseteq S
BY DEF Reachable

(***************************************************************************)
(* The equations the loop of get_recursive_requirements computes by.       *)
(***************************************************************************)
LEMMA ReachableUnfolds ==
    ASSUME Requires, NEW p \in Pkg
    PROVE  Reachable(p) = TypeshedPkgs(p) \cup UNION {Reachable(q) : q \in TypeshedPkgs(p)}
<1> DEFINE R == TypeshedPkgs(p) \cup UNION {Reachable(q) : q \in TypeshedPkgs(p)}
<1>0. TypeshedPkgs(p) \subseteq Pkg
    BY DEF TypeshedPkgs
<1>1. R \in SUBSET Pkg
    BY <1>0 DEF Reachable
<1>2. ASSUME NEW x \in R, NEW y \in TypeshedPkgs(x) PROVE y \in R
  <2>1. CASE x \in TypeshedPkgs(p)
    BY <1>0, <1>2, <2>1, ReachableClosed
  <2>2. CASE \E q \in TypeshedPkgs(p) : x \in Reachable(q)
    <3>1. PICK q \in TypeshedPkgs(p) : x \in Reachable(q)
        BY <2>2
    <3>2. y \in Reachable(q)
        BY <1>0, <1>2, <3>1, ReachableClosed DEF Closed
    <3>3. QED
        BY <3>2
  <2>3. QED
    BY <1>2, <2>1, <2>2
<1>3. Reachable(p) \subseteq R
  <2>1. Closed(R) /\ TypeshedPkgs(p) \subseteq R
    BY <1>2 DEF Closed
  <2> HIDE DEF R
  <2>2. QED
    BY <1>1, <2>1, ReachableLeast
<1>4. ASSUME NEW q \in TypeshedPkgs(p) PROVE Reachable(q) \subseteq Reachable(p)
  <2>1. TypeshedPkgs(q) \subseteq Reachable(p)
    BY <1>4, ReachableClosed DEF Closed
  <2>2. QED
    BY <1>0, <1>4, <2>1, ReachableClosed, ReachableLeast
<1>5. R \subseteq Reachable(p)
    BY <1>4, ReachableClosed
<1>6. QED
    BY <1>3, <1>5

LEMMA AllExternalUnfolds ==
    ASSUME Requires, NEW p \in Pkg
    PROVE  AllExternal(p) = ExternalPkgs(p) \cup UNION {AllExternal(q) : q \in TypeshedPkgs(p)}
<1>1. \A x : x \in Reachable(p) <=>
          x \in TypeshedPkgs(p) \/ \E q \in TypeshedPkgs(p) : x \in Reachable(q)
    BY ReachableUnfolds
<1>2. \A q, e : e \in AllExternal(q) <=>
          e \in ExternalPkgs(q) \/ \E x \in Reachable(q) : e \in ExternalPkgs(x)
    BY DEF AllExternal
<1>3. QED
    BY <1>1, <1>2

----------------------------------------------------------------------------
LEMMA NewFrameGood ==
    ASSUME Requires, NEW p \in Pkg
    PROVE  /\ NewFrame(p) \in Frame
           /\ NewFrame(p).todo \subseteq TypeshedPkgs(p)
           /\ GoodFrame(NewFrame(p))
BY DEF NewFrame, Frame, GoodFrame, TypeshedPkgs, ExternalPkgs, Requires

LEMMA MergeGood ==
    ASSUME Requires, NEW f \in Frame, GoodFrame(f), f.todo \subseteq TypeshedPkgs(f.pkg), NEW q \in f.todo,
           NEW reqs \in Dependencies,
           reqs = [typeshed_pkgs |-> Reachable(q), external_pkgs |-> AllExternal(q)]
    PROVE  /\ MergedFrame(f, q, reqs) \in Frame
           /\ MergedFrame(f, q, reqs).pkg = f.pkg
           /\ MergedFrame(f, q, reqs).todo = f.todo \ {q}
           /\ GoodFrame(MergedFrame(f, q, reqs))
<1> DEFINE g == MergedFrame(f, q, reqs)
           T == TypeshedPkgs(f.pkg)
<1>1. g \in Frame /\ g.pkg = f.pkg /\ g.todo = f.todo \ {q}
      /\ g.typeshed = f.typeshed \cup Reachable(q) /\ g.external = f.external \cup AllExternal(q)
    BY DEF MergedFrame, Frame, Dependencies
<1>2. \A x : x \in T \ g.todo <=> x \in T \ f.todo \/ x = q
    BY <1>1
<1>3. g.typeshed = T \cup UNION {Reachable(x) : x \in T \ g.todo}
    BY <1>1, <1>2 DEF GoodFrame
<1>4. g.external = ExternalPkgs(f.pkg) \cup UNION {AllExternal(x) : x \in T \ g.todo}
    BY <1>1, <1>2 DEF GoodFrame
<1>5. QED
    BY <1>1, <1>3, <1>4 DEF GoodFrame

LEMMA DoneIsAll ==
    ASSUME Requires, NEW f \in Frame, GoodFrame(f), f.todo = {}
    PROVE  f.typeshed = Reachable(f.pkg) /\ f.external = AllExternal(f.pkg)
<1>1. f.pkg \in Pkg /\ TypeshedPkgs(f.pkg) \ f.todo = TypeshedPkgs(f.pkg)
    BY DEF Frame
<1>2. QED
    BY <1>1, ReachableUnfolds, AllExternalUnfolds DEF GoodFrame

----------------------------------------------------------------------------
Inv == TypeOK /\ CacheIsClosure /\ GoodStack /\ Linked

\* what a frame is worth depends on METADATA.toml only, which no step writes
LEMMA Static ==
    ASSUME [Next]_vars
    PROVE  /\ requires' = requires
           /\ \A p : TypeshedPkgs(p)' = TypeshedPkgs(p)
           /\ \A p : Reachable(p)' = Reachable(p) /\ AllExternal(p)' = AllExternal(p)
           /\ \A f : GoodFrame(f)' = GoodFrame(f)
<1>1. requires' = requires
    BY DEF Next, CallStep, Ask, CallCached, CallRecurses, CallOverflows, Return, vars
<1>2. QED
    BY <1>1 DEF TypeshedPkgs, Reachable, Closed, AllExternal, ExternalPkgs, GoodFrame

LEMMA CacheKept ==
    ASSUME CacheIsClosure, [Next]_vars, cache' = cache
    PROVE  CacheIsClosure'
BY Static DEF CacheIsClosure, IsCached

(***************************************************************************)
(* The frame on top is replaced, by the body of the loop or by a return to *)
(* it: every other frame is as it was.                                     *)
(***************************************************************************)
LEMMA TopReplaced ==
    ASSUME Inv, [Next]_vars, NEW n \in 1..Len(stack), NEW f \in Frame,
           f.pkg = stack[n].pkg, f.todo \subseteq stack[n].todo, GoodFrame(f),
           stack' = [SubSeq(stack, 1, n) EXCEPT ![n] = f]
    PROVE  stack' \in Seq(Frame) /\ GoodStack' /\ Linked'
<1> USE DEF Inv, TypeOK
<1>1. stack' \in Seq(Frame) /\ Len(stack') = n
      /\ stack'[n] = f /\ \A i \in 1..(n - 1) : stack'[i] = stack[i]
  <2> DEFINE s == SubSeq(stack, 1, n)
  <2>1. s \in Seq(Frame) /\ Len(s) = n /\ \A i \in 1..n : s[i] = stack[i]
    OBVIOUS
  <2> HIDE DEF s
  <2>2. stack' = [s EXCEPT ![n] = f]
    BY DEF s
  <2>3. QED
    BY <2>1, <2>2
<1>2. GoodStack'
  <2>1. \A i \in 1..Len(stack') : i = n \/ (i \in 1..Len(stack) /\ stack'[i] = stack[i])
    BY <1>1
  <2>2. \A i \in 1..Len(stack') : GoodFrame(stack'[i])
    BY <1>1, <2>1 DEF GoodStack
  <2>3. QED
    BY <2>2, Static DEF GoodStack
<1>3. ASSUME NEW i \in 1..Len(stack')
      PROVE  /\ stack'[i].todo \subseteq TypeshedPkgs(stack'[i].pkg)
             /\ i < Len(stack') => stack'[i + 1].pkg \in stack'[i].todo
  <2>1. CASE i = n
    BY <1>1, <2>1 DEF Linked
  <2>2. CASE i < n
    <3>1. stack'[i] = stack[i] /\ stack'[i + 1].pkg = stack[i + 1].pkg /\ i < Len(stack)
        BY <1>1, <2>2
    <3>2. QED
        BY <3>1, <1>3, <2>2 DEF Linked
  <2>3. QED
    BY <1>1, <2>1, <2>2
<1>4. QED
    BY <1>1, <1>2, <1>3, Static DEF Linked

LEMMA InvInit ==
    ASSUME Init
    PROVE  Inv
<1>1. TypeOK
  <2>1. error \in BOOLEAN
    BY Zenon DEF Init
  <2>2. stack \in Seq(Frame) /\ cache \in [Pkg -> Dependencies \cup {NotCached}]
    BY DEF Init
  <2>3. QED
    BY <2>1, <2>2 DEF Init, TypeOK
<1>2. CacheIsClosure
    BY DEF Init, CacheIsClosure, IsCached
<1>3. 1..Len(stack) = {}
    BY DEF Init
<1>4. QED
    BY <1>1, <1>2, <1>3 DEF Inv, GoodStack, Linked

LEMMA InvNext ==
    ASSUME Inv, [Next]_vars
    PROVE  Inv'
<1> USE DEF Inv, TypeOK
<1>0. Requires
    BY DEF Requires
<1>1. ASSUME NEW p \in Pkg, Ask(p) PROVE Inv'
  <2>1. stack' = <<NewFrame(p)>> /\ NewFrame(p) \in Frame
        /\ UNCHANGED <<requires, cache, error>>
    BY <1>0, <1>1, NewFrameGood DEF Ask
  <2>2. GoodStack' /\ Linked'
    <3>1. Len(stack') = 1 /\ stack'[1] = NewFrame(p) /\ NewFrame(p).pkg = p
        BY <2>1 DEF NewFrame
    <3>2. QED
        BY <1>0, <3>1, NewFrameGood, Static DEF GoodStack, Linked
  <2>3. QED
    BY <2>1, <2>2, CacheKept
<1>2. ASSUME NEW q \in Pkg, CallCached(q) PROVE Inv'
  <2> DEFINE n == Len(stack)
             f == MergedFrame(stack[n], q, cache[q])
  <2>1. n \in 1..Len(stack) /\ stack[n] \in Frame /\ q \in stack[n].todo
    BY <1>2 DEF CallCached, InLoop, Top
  <2>2. /\ cache[q] \in Dependencies
        /\ cache[q] = [typeshed_pkgs |-> Reachable(q), external_pkgs |-> AllExternal(q)]
    BY <1>2 DEF CallCached, IsCached, CacheIsClosure
  <2>3. f \in Frame /\ f.pkg = stack[n].pkg /\ f.todo = stack[n].todo \ {q} /\ GoodFrame(f)
    BY <1>0, <2>1, <2>2, MergeGood DEF GoodStack, Linked
  <2>4. stack' = [SubSeq(stack, 1, n) EXCEPT ![n] = f]
    <3>1. SubSeq(stack, 1, n) = stack
        OBVIOUS
    <3>2. QED
        BY <1>2, <3>1 DEF CallCached
  <2> HIDE DEF f
  <2>5. stack' \in Seq(Frame) /\ GoodStack' /\ Linked'
    BY <2>1, <2>3, <2>4, TopReplaced
  <2>6. QED
    BY <1>2, <2>5, CacheKept DEF CallCached
<1>3. ASSUME NEW q \in Pkg, CallRecurses(q) PROVE Inv'
  <2> DEFINE n == Len(stack)
  <2>1. /\ NewFrame(q) \in Frame /\ NewFrame(q).pkg = q
        /\ NewFrame(q).todo \subseteq TypeshedPkgs(q) /\ GoodFrame(NewFrame(q))
    BY <1>0, NewFrameGood DEF NewFrame
  <2>2. n \in 1..Len(stack) /\ q \in stack[n].todo /\ stack' = Append(stack, NewFrame(q))
        /\ UNCHANGED <<requires, cache, error>>
    BY <1>3 DEF CallRecurses, InLoop, Top
  <2>3. stack' \in Seq(Frame) /\ Len(stack') = n + 1 /\ stack'[n + 1] = NewFrame(q)
        /\ \A i \in 1..n : stack'[i] = stack[i]
    BY <2>1, <2>2
  <2>4. GoodStack'
    BY <2>1, <2>3, Static DEF GoodStack
  <2>5. Linked'
    BY <2>1, <2>2, <2>3, Static DEF Linked
  <2>6. QED
    BY <2>2, <2>3, <2>4, <2>5, CacheKept
<1>4. ASSUME NEW q \in Pkg, CallOverflows(q) PROVE Inv'
    BY <1>4, CacheKept DEF CallOverflows, GoodStack, Linked
<1>5. CASE Return
  <2> DEFINE n == Len(stack)
             p == stack[n].pkg
             res == [typeshed_pkgs |-> stack[n].typeshed, external_pkgs |-> stack[n].external]
  <2>1. n \in 1..Len(stack) /\ stack[n] \in Frame /\ stack[n].todo = {} /\ p \in Pkg
    <3>1. stack # << >> /\ stack[n].todo = {}
        BY <1>5 DEF Return, Top
    <3>2. n \in 1..Len(stack) /\ stack[n] \in Frame
        BY <3>1
    <3>3. QED
        BY <3>1, <3>2 DEF Frame
  <2>2. /\ res \in Dependencies
        /\ res = [typeshed_pkgs |-> Reachable(p), external_pkgs |-> AllExternal(p)]
    BY <1>0, <2>1, DoneIsAll DEF GoodStack, Dependencies, Frame
  <2>3. /\ cache' = [cache EXCEPT ![p] = res] /\ UNCHANGED <<requires, error>>
        /\ stack' = IF n = 1 THEN << >>
                    ELSE [SubSeq(stack, 1, n - 1) EXCEPT ![n - 1] = MergedFrame(@, p, res)]
    BY <1>5 DEF Return, Top
  <2> HIDE DEF res
  <2>4. CacheIsClosure'
    BY <2>1, <2>2, <2>3, Static DEF CacheIsClosure, IsCached
  <2>5. stack' \in Seq(Frame) /\ GoodStack' /\ Linked'
    <3>1. CASE n = 1
        BY <2>3, <3>1 DEF GoodStack, Linked
    <3>2. CASE n # 1
      <4> DEFINE g == stack[n - 1]
                 f == MergedFrame(g, p, res)
      <4>1. n - 1 \in 1..Len(stack) /\ n - 1 < Len(stack) /\ (n - 1) + 1 = n /\ g \in Frame
        <5>1. n \in Nat /\ n >= 1
            BY <2>1
        <5> HIDE DEF n
        <5>2. n - 1 \in 1..n /\ n - 1 < n /\ (n - 1) + 1 = n
            BY <5>1, <3>2
        <5>3. QED
            BY <5>2 DEF n
      <4>2. p \in g.todo /\ g.todo \subseteq TypeshedPkgs(g.pkg) /\ GoodFrame(g)
        BY <4>1 DEF Linked, GoodStack
      <4>3. f \in Frame /\ f.pkg = g.pkg /\ f.todo = g.todo \ {p} /\ GoodFrame(f)
        BY <1>0, <2>2, <4>1, <4>2, MergeGood
      <4>4. stack' = [SubSeq(stack, 1, n - 1) EXCEPT ![n - 1] = f]
        BY <2>3, <3>2, <4>1
      <4> HIDE DEF f
      <4>5. QED
        BY <4>1, <4>3, <4>4, TopReplaced
    <3>3. QED
        BY <3>1, <3>2
  <2>6. cache' \in [Pkg -> Dependencies \cup {NotCached}]
    BY <2>1, <2>2, <2>3
  <2>7. QED
    BY <2>3, <2>4, <2>5, <2>6
<1>6. CASE UNCHANGED vars
    BY <1>6, CacheKept, Static DEF vars, GoodStack, Linked
<1>7. QED
    BY <1>1, <1>2, <1>3, <1>4, <1>5, <1>6 DEF Next, CallStep

(***************************************************************************)
(* get_recursive_requirements never caches anything but the whole answer,  *)
(* for any number of packages, in any order of calls, cycles included; and *)
(* its variables keep their types.                                         *)
(***************************************************************************)
THEOREM CacheCorrect == Spec => []CacheIsClosure
<1>1. Init => Inv
    BY InvInit
<1>2. Inv /\ [Next]_vars => Inv'
    BY InvNext
<1>3. Inv => CacheIsClosure
    BY DEF Inv
<1>4. QED
    BY <1>1, <1>2, <1>3, PTL DEF Spec

\* The variables of Requirements keep their types.
THEOREM TypesKept == Spec => []TypeOK
<1>1. Init => Inv
    BY InvInit
<1>2. Inv /\ [Next]_vars => Inv'
    BY InvNext
<1>3. Inv => TypeOK
    BY DEF Inv
<1>4. QED
    BY <1>1, <1>2, <1>3, PTL DEF Spec
=============================================================================
