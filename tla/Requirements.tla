---------------------------- MODULE Requirements ----------------------------
(***************************************************************************)
(* tests/parse_metadata.py: get_recursive_requirements, a recursive        *)
(* function under functools.cache, as the scripts of tests/ call it.       *)
(*                                                                         *)
(* `requires' is what the METADATA.toml files say: a requirement that is   *)
(* the stub_distribution of a package of stubs/ is that package, any other *)
(* is external.  Python's call stack is a sequence of frames, and the      *)
(* order in which a file lists its requirements is a choice at every turn. *)
(***************************************************************************)
EXTENDS Naturals, Sequences, FiniteSets

CONSTANTS
    Pkg,             \* the directories of stubs/
    External,        \* requirements that are not in stubs/
    RecursionLimit   \* calls of get_recursive_requirements Python can nest

ASSUME RequirementsAssumption ==
    /\ Pkg \cap External = {}
    /\ IsFiniteSet(Pkg)
    /\ RecursionLimit \in Nat \ {0}
    /\ Cardinality(Pkg) <= RecursionLimit

VARIABLES
    requires,   \* what each METADATA.toml requires
    cache,      \* the results functools.cache holds; << >>: none yet
    stack,      \* the calls in progress, the innermost last
    error       \* has RecursionError ended the script?

vars == <<requires, cache, stack, error>>

----------------------------------------------------------------------------
(***************************************************************************)
(* read_dependencies: the two kinds of requirement of one package.         *)
(***************************************************************************)
TypeshedPkgs(p) == requires[p] \cap Pkg
ExternalPkgs(p) == requires[p] \cap External

Dependencies == [typeshed_pkgs : SUBSET Pkg, external_pkgs : SUBSET External]
Frame == [pkg : Pkg, todo : SUBSET Pkg, typeshed : SUBSET Pkg, external : SUBSET External]

NotCached == << >>
IsCached(p) == cache[p] # NotCached

Top == stack[Len(stack)]

NewFrameWithSelf(p) ==
    [pkg |-> p, todo |-> TypeshedPkgs(p) \cup {p},
     typeshed |-> TypeshedPkgs(p), external |-> ExternalPkgs(p)]

\* a call before its loop: the requirements the package itself lists
NewFrame(p) ==
    [pkg |-> p, todo |-> TypeshedPkgs(p),
     typeshed |-> TypeshedPkgs(p), external |-> ExternalPkgs(p)]

MergedExternalOnly(f, q, reqs) == [f EXCEPT !.todo = @ \ {q}, !.external = @ \cup reqs.external_pkgs]

MergedIntoOne(f, q, reqs) ==
    [f EXCEPT !.todo = @ \ {q},
              !.typeshed = @ \cup reqs.typeshed_pkgs \cup reqs.external_pkgs]

\* the body of the loop, once the call for q has returned reqs
MergedFrame(f, q, reqs) ==
    [f EXCEPT !.todo = @ \ {q},
              !.typeshed = @ \cup reqs.typeshed_pkgs,
              !.external = @ \cup reqs.external_pkgs]

----------------------------------------------------------------------------
Init ==
    /\ requires \in [Pkg -> SUBSET (Pkg \cup External)]
    /\ cache = [p \in Pkg |-> NotCached]
    /\ stack = << >>
    /\ error = FALSE

\* one more call fits on Python's stack
Fits == Len(stack) < RecursionLimit

\* a script asks for p; a cached answer changes nothing
Ask(p) ==
    /\ ~error
    /\ stack = << >>
    /\ ~IsCached(p)
    /\ stack' = <<NewFrame(p)>>
    /\ UNCHANGED <<requires, cache, error>>

InLoop(q) == stack # << >> /\ q \in Top.todo

\* the recursive call is answered from the cache
CallCached(q) ==
    /\ InLoop(q)
    /\ IsCached(q)
    /\ stack' = [stack EXCEPT ![Len(stack)] = MergedFrame(@, q, cache[q])]
    /\ UNCHANGED <<requires, cache, error>>

CallRecurses(q) ==
    /\ InLoop(q)
    /\ ~IsCached(q)
    /\ Fits
    /\ stack' = Append(stack, NewFrame(q))
    /\ UNCHANGED <<requires, cache, error>>

\* RecursionError: no call in progress returns, so none of them is cached
CallOverflows(q) ==
    /\ InLoop(q)
    /\ ~IsCached(q)
    /\ ~Fits
    /\ stack' = << >>
    /\ error' = TRUE
    /\ UNCHANGED <<requires, cache>>

\* the loop is over: the result is cached and handed to the calling frame
Return ==
    /\ stack # << >>
    /\ Top.todo = {}
    /\ LET n == Len(stack)
           res == [typeshed_pkgs |-> Top.typeshed, external_pkgs |-> Top.external]
       IN  /\ cache' = [cache EXCEPT ![Top.pkg] = res]
           /\ stack' = IF n = 1 THEN << >>
                       ELSE [SubSeq(stack, 1, n - 1) EXCEPT
                                ![n - 1] = MergedFrame(@, Top.pkg, res)]
    /\ UNCHANGED <<requires, error>>

CallStep == Return \/ \E q \in Pkg : CallCached(q) \/ CallRecurses(q) \/ CallOverflows(q)

Next == CallStep \/ \E p \in Pkg : Ask(p)

\* a call that can go on does; the scripts need not ask
Spec == Init /\ [][Next]_vars /\ WF_vars(CallStep)

----------------------------------------------------------------------------
TypeOK ==
    /\ requires \in [Pkg -> SUBSET (Pkg \cup External)]
    /\ cache \in [Pkg -> Dependencies \cup {NotCached}]
    /\ stack \in Seq(Frame)
    /\ error \in BOOLEAN

(***************************************************************************)
(* What the function promises: a package needs every package it can reach, *)
(* the least set that has its own requirements and those of its members,   *)
(* and the external requirements of itself and of all of them.             *)
(***************************************************************************)
Closed(S) == \A q \in S : TypeshedPkgs(q) \subseteq S

Reachable(p) ==
    {q \in Pkg : \A S \in SUBSET Pkg : TypeshedPkgs(p) \subseteq S /\ Closed(S) => q \in S}

AllExternal(p) == ExternalPkgs(p) \cup UNION {ExternalPkgs(q) : q \in Reachable(p)}

Acyclic == \A p \in Pkg : p \notin Reachable(p)

(***************************************************************************)
(* Whatever was asked before, and also if the requirements are cyclic,     *)
(* what the cache holds for a package is all that the package needs and    *)
(* nothing else: no result of a call that was cut short is ever cached.    *)
(***************************************************************************)
CacheIsClosure ==
    \A p \in Pkg : IsCached(p) =>
        cache[p] = [typeshed_pkgs |-> Reachable(p), external_pkgs |-> AllExternal(p)]

(***************************************************************************)
(* Why: at every turn of its loop a call has gathered what the packages    *)
(* it is done with need, and it is done with all but those in todo.        *)
(***************************************************************************)
GoodFrame(f) ==
    LET done == TypeshedPkgs(f.pkg) \ f.todo
    IN  /\ f.typeshed = TypeshedPkgs(f.pkg) \cup UNION {Reachable(q) : q \in done}
        /\ f.external = ExternalPkgs(f.pkg) \cup UNION {AllExternal(q) : q \in done}

GoodStack == \A i \in 1..Len(stack) : GoodFrame(stack[i])

\* a call was made for a package its caller is not done with
Linked ==
    \A i \in 1..Len(stack) :
        /\ stack[i].todo \subseteq TypeshedPkgs(stack[i].pkg)
        /\ i < Len(stack) => stack[i + 1].pkg \in stack[i].todo

(***************************************************************************)
(* If no package needs itself, a call in progress comes to its end, and    *)
(* not by RecursionError: Python's stack holds every package once.         *)
(***************************************************************************)
CallReturns == Acyclic /\ stack # << >> ~> stack = << >> /\ ~error
=============================================================================
