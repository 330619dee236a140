---------------------------- MODULE VersionSpec ----------------------------
(***************************************************************************)
(* scripts/stubsabot.py: get_updated_version_spec, and the version         *)
(* specifier of one METADATA.toml over a series of releases and runs.      *)
(*                                                                         *)
(* A specifier is the numbers before its `.*', if it has one.  A version   *)
(* is its release numbers and whether it is a post-release; a pre-release  *)
(* never reaches this code, as PyPI names no pre-release as the latest.    *)
(***************************************************************************)
EXTENDS Integers, Sequences

CONSTANTS Specs, Versions   \* the first specifiers, and the versions released

Spec440 == [parts : Seq(Nat) \ {<< >>}, star : BOOLEAN]
Version440 == [release : Seq(Nat) \ {<< >>}, post : BOOLEAN]

ASSUME VersionAssumption == Specs \subseteq Spec440 /\ Versions \subseteq Version440

VARIABLES
    version_spec,   \* the specifier in METADATA.toml
    latest,         \* the latest version on PyPI
    outcome         \* of the last run of the bot since that release

vars == <<version_spec, latest, outcome>>

----------------------------------------------------------------------------
(***************************************************************************)
(* PEP 440, as packaging implements it: missing numbers are zeros; with a  *)
(* `.*' only the numbers given are compared, without it a post-release is  *)
(* another version.                                                        *)
(***************************************************************************)
Number(s, n) == IF n <= Len(s) THEN s[n] ELSE 0

SpecContains(spec, v) ==
    /\ \A n \in 1..Len(spec.parts) : Number(spec.parts, n) = Number(v.release, n)
    /\ spec.star \/ (~v.post /\ \A n \in 1..Len(v.release) : Number(spec.parts, n) = v.release[n])

(***************************************************************************)
(* The order of versions: the first number that differs decides, then      *)
(* whether it is a post-release.                                           *)
(***************************************************************************)
Before(s, t) ==
    \E n \in 1..Len(s) + Len(t) :
        /\ Number(s, n) < Number(t, n)
        /\ \A m \in 1..n - 1 : Number(s, m) = Number(t, m)

SameNumbers(s, t) == \A n \in 1..Len(s) + Len(t) : Number(s, n) = Number(t, n)

Older(v, w) ==
    \/ Before(v.release, w.release)
    \/ SameNumbers(v.release, w.release) /\ ~v.post /\ w.post

(***************************************************************************)
(* get_updated_version_spec: base_version (which has no post-release part) *)
(* or, with a `.*', as many of its numbers as the old specifier had, zeros *)
(* added.                                                                  *)
(***************************************************************************)
UnpaddedSpec(spec, v) ==
    IF ~spec.star
    THEN [parts |-> v.release, star |-> FALSE]
    ELSE [parts |-> [n \in 1..(IF Len(spec.parts) < Len(v.release) THEN Len(spec.parts)
                               ELSE Len(v.release)) |-> v.release[n]],
          star |-> TRUE]

PaddedWithOld(spec, v) ==
    IF ~spec.star
    THEN [parts |-> v.release, star |-> FALSE]
    ELSE [parts |-> [n \in 1..Len(spec.parts) |->
                        IF n <= Len(v.release) THEN v.release[n] ELSE spec.parts[n]],
          star |-> TRUE]

UpdatedSpec(spec, v) ==
    IF ~spec.star
    THEN [parts |-> v.release, star |-> FALSE]
    ELSE [parts |-> [n \in 1..Len(spec.parts) |-> Number(v.release, n)], star |-> TRUE]

----------------------------------------------------------------------------
Init ==
    /\ version_spec \in Specs
    /\ latest \in {v \in Versions : SpecContains(version_spec, v)}
    /\ outcome = "none"

\* the project makes a release that is newer than the others
Release(v) ==
    /\ Older(latest, v)
    /\ latest' = v /\ outcome' = "none"
    /\ UNCHANGED version_spec

BotWithoutUpToDate ==
    /\ UNCHANGED latest
    /\ LET updated == UpdatedSpec(version_spec, latest)
       IN  \/ /\ SpecContains(updated, latest)
              /\ outcome' = "updated" /\ version_spec' = updated
           \/ /\ ~SpecContains(updated, latest)
              /\ outcome' = "raised" /\ UNCHANGED version_spec

\* determine_action of an untyped project: up to date, an Update that gets
\* merged, or the assertion of _check_spec, which ends the run of the bot
Bot ==
    /\ UNCHANGED latest
    /\ LET updated == UpdatedSpec(version_spec, latest)
       IN  \/ /\ SpecContains(version_spec, latest)
              /\ outcome' = "up_to_date" /\ UNCHANGED version_spec
           \/ /\ ~SpecContains(version_spec, latest) /\ SpecContains(updated, latest)
              /\ outcome' = "updated" /\ version_spec' = updated
           \/ /\ ~SpecContains(version_spec, latest) /\ ~SpecContains(updated, latest)
              /\ outcome' = "raised" /\ UNCHANGED version_spec

Next == Bot \/ \E v \in Versions : Release(v)

Spec == Init /\ [][Next]_vars

----------------------------------------------------------------------------
(***************************************************************************)
(* "has the specificity of the old specifier": over any number of updates, *)
(* a specifier with a `.*' keeps it, and keeps its length.                 *)
(***************************************************************************)
SpecificityKept ==
    [][/\ version_spec'.star = version_spec.star
       /\ version_spec.star => Len(version_spec'.parts) = Len(version_spec.parts)]_vars

(***************************************************************************)
(* _check_spec raises only for a post-release of a project whose specifier *)
(* has no `.*'.                                                            *)
(***************************************************************************)
RaisesOnlyForPost == outcome = "raised" => latest.post /\ ~version_spec.star

(***************************************************************************)
(* As long as releases only get newer, an update never lowers a            *)
(* specifier: the numbers of the new one come after those of the old one.  *)
(***************************************************************************)
NeverLowered ==
    [][version_spec' # version_spec => Before(version_spec.parts, version_spec'.parts)]_vars
=============================================================================
