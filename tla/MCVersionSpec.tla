--------------------------- MODULE MCVersionSpec ---------------------------
(***************************************************************************)
(* Instances of VersionSpec for TLC, and the examples of the docstring of  *)
(* get_updated_version_spec.                                               *)
(***************************************************************************)
EXTENDS VersionSpec

Numbers(max, len) == UNION {[1..n -> 0..max] : n \in 1..len}

MCSpecs == [parts : Numbers(1, 3), star : BOOLEAN]
MCVersions == [release : Numbers(1, 3), post : BOOLEAN]

S(parts) == [parts |-> parts, star |-> FALSE]
Star(parts) == [parts |-> parts, star |-> TRUE]
V(release) == [release |-> release, post |-> FALSE]

ASSUME DocstringExamples ==
    /\ UpdatedSpec(S(<<1>>), V(<<1, 2, 3>>)) = S(<<1, 2, 3>>)
    /\ UpdatedSpec(S(<<1, 0, 1>>), V(<<1, 2, 3>>)) = S(<<1, 2, 3>>)
    /\ UpdatedSpec(Star(<<1>>), V(<<1, 2, 3>>)) = Star(<<1>>)
    /\ UpdatedSpec(Star(<<1>>), V(<<2, 3, 4>>)) = Star(<<2>>)
    /\ UpdatedSpec(Star(<<1, 1>>), V(<<1, 2, 3>>)) = Star(<<1, 2>>)
    /\ UpdatedSpec(Star(<<1, 1, 1>>), V(<<1, 2, 3>>)) = Star(<<1, 2, 3>>)
=============================================================================
