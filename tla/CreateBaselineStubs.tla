------------------------ MODULE CreateBaselineStubs ------------------------
(***************************************************************************)
(* scripts/create_baseline_stubs.py, run again and again by a person in    *)
(* one working tree: stubgen, METADATA.toml, and the entry in the          *)
(* "exclude" list of pyrightconfig.stricter.json.                          *)
(*                                                                         *)
(* A name is the exact text of an entry.  Its key is the place of the      *)
(* lower-cased line in the order of such lines: names that differ only in  *)
(* case ("stubs/Pillow", "stubs/pillow") have the same key.  Key 0 stands  *)
(* for the lines of the list no "stubs/<project>" comes before             *)
(* ("stubs/**/@tests/test_cases" and the stdlib entries).                  *)
(***************************************************************************)
EXTENDS Naturals, SequencesExt

CONSTANTS
    Name,      \* entries the list may hold
    Key,       \* the place of a name in the lower-cased order
    Project,   \* projects the script may be run for, as pip freeze spells them
    Package,   \* names of Python packages a project may hold
    Lists,     \* the lists the file may hold at first
    MaxLines   \* bound: lines of the list when a run starts

Line == [name : Name, commas : Nat]

\* lines[i].lower(), up to the commas
Lower(line) == Key[line.name]

(***************************************************************************)
(* A comma is missing at most after the last line.                         *)
(***************************************************************************)
Separated(list) == \A n \in 1..Len(list) - 1 : list[n].commas > 0

ASSUME BaselineAssumption ==
    /\ Key \in [Name -> Nat]
    /\ Project \subseteq {name \in Name : Key[name] > 0}
    /\ MaxLines \in Nat
    /\ \A list \in Lists :
        list \in Seq(Line) /\ list # << >> /\ Lower(list[1]) = 0 /\ Separated(list)

VARIABLES
    generated,   \* directories stubs/<project>/<package>
    metadata,    \* projects with a METADATA.toml
    config,      \* the list as it is on disk; << >>: the file is empty
    pc, project, package,
    lines, i,    \* locals of add_pyright_exclusion
    outcome,     \* how the last run ended
    initial      \* history: the list as it was before the first run

vars == <<generated, metadata, config, pc, project, package, lines, i, outcome, initial>>

Truncated == << >>

TypeOK ==
    /\ generated \subseteq Project \X Package
    /\ metadata \subseteq Project
    /\ config \in Seq(Line) /\ lines \in Seq(Line) /\ initial \in Lists
    /\ pc \in {"idle", "stubgen", "metadata", "read", "walk", "write", "flush"}
    /\ project \in Project /\ package \in Package
    /\ i \in Nat
    /\ outcome \in {"none", "done", "refused", "raised"}

Init ==
    /\ generated = {} /\ metadata = {}
    /\ initial \in Lists /\ config = initial
    /\ pc = "idle" /\ outcome = "none"
    /\ project \in Project /\ package \in Package
    /\ lines = Truncated /\ i = 0

----------------------------------------------------------------------------
Exit(how) == pc' = "idle" /\ outcome' = how

(***************************************************************************)
(* main up to run_stubgen: the package is --package or the one detected.   *)
(* A bad name, a wrong directory, a project that is not installed and a    *)
(* package_dir that exists end the run before anything is written.         *)
(***************************************************************************)
Main(p, k) ==
    /\ pc = "idle" /\ Len(config) < MaxLines
    /\ project' = p /\ package' = k
    /\ \/ Exit("refused")
       \/ <<p, k>> \notin generated /\ pc' = "stubgen" /\ outcome' = "none"
    /\ UNCHANGED <<generated, metadata, config, lines, i, initial>>

\* check=True: a failing stubgen raises, whatever it has written by then;
\* the exit codes of isort and black, which run next, are not looked at
RunStubgen ==
    /\ pc = "stubgen"
    /\ \/ generated' = generated \cup {<<project, package>>} /\ pc' = "metadata" /\ outcome' = outcome
       \/ generated' \in {generated, generated \cup {<<project, package>>}} /\ Exit("raised")
    /\ UNCHANGED <<metadata, config, project, package, lines, i, initial>>

\* a METADATA.toml that exists is kept; a version that does not parse ends
\* the run, which leaves the stubs without one
CreateMetadata ==
    /\ pc = "metadata"
    /\ \/ metadata' = metadata \cup {project} /\ pc' = "read" /\ outcome' = outcome
       \/ metadata' = metadata /\ Exit("refused")
    /\ UNCHANGED <<generated, config, project, package, lines, i, initial>>

----------------------------------------------------------------------------
(***************************************************************************)
(* add_pyright_exclusion                                                   *)
(***************************************************************************)
\* the search for "exclude": [ and for its ]; i is the line of the ]
ReadConfig ==
    /\ pc = "read"
    /\ lines' = config
    /\ IF config = Truncated
       THEN Exit("raised") /\ i' = i
       ELSE i' = Len(config) + 1 /\ pc' = "walk" /\ outcome' = outcome
    /\ UNCHANGED <<generated, metadata, config, project, package, initial>>

GreaterAlways(n, new) == TRUE

\* lines[i].lower() > line_to_add.lower(), where line_to_add ends in a comma
\* and not in a line end; the ] is greater than every entry
Greater(n, new) ==
    n <= Len(lines) =>
        \/ Lower(lines[n]) > Key[new]
        \/ Lower(lines[n]) = Key[new] /\ lines[n].commas > 0

WalkNowhere ==
    /\ pc = "walk"
    /\ Greater(i, project)
    /\ UNCHANGED vars

Walk ==
    /\ pc = "walk"
    /\ Greater(i, project)
    /\ i' = i - 1
    /\ UNCHANGED <<generated, metadata, config, pc, project, package, lines, outcome, initial>>

IsListedBefore(n, new) == n - 1 <= Len(lines) /\ lines[n - 1].name = new
IsListedInAnyCase(n, new) == n <= Len(lines) /\ Lower(lines[n]) = Key[new]

\* unlike the search, this comparison does not lower-case the lines
IsListed(n, new) == n <= Len(lines) /\ lines[n].name = new

WithComma(line) == [line EXCEPT !.commas = @ + 1]

WithEntryReplacing(n, new) ==
    IF n = Len(lines)
    THEN Append([lines EXCEPT ![n] = WithComma(@)], [name |-> new, commas |-> 0])
    ELSE [lines EXCEPT ![n + 1] = [name |-> new, commas |-> 1]]

WithEntryTooEarly(n, new) == InsertAt(lines, n, [name |-> new, commas |-> 1])

WithEntryUntweaked(n, new) == InsertAt(lines, n + 1, [name |-> new, commas |-> 1])

\* the lines with the new one after line n: at the end of the list the
\* comma goes to the line before
WithEntry(n, new) ==
    IF n = Len(lines)
    THEN Append([lines EXCEPT ![n] = WithComma(@)], [name |-> new, commas |-> 0])
    ELSE InsertAt(lines, n + 1, [name |-> new, commas |-> 1])

Insert ==
    /\ pc = "walk"
    /\ ~Greater(i, project)
    /\ IF IsListed(i + 1, project)
       THEN Exit("done") /\ lines' = lines
       ELSE lines' = WithEntry(i, project) /\ pc' = "write" /\ outcome' = outcome
    /\ UNCHANGED <<generated, metadata, config, project, package, i, initial>>

\* open(PYRIGHT_CONFIG, "w") empties the file before writelines fills it; a
\* file that was only filled in part has no ], and is read like an empty one
OpenConfig ==
    /\ pc = "write"
    /\ config' = Truncated /\ pc' = "flush"
    /\ UNCHANGED <<generated, metadata, project, package, lines, i, outcome, initial>>

WriteLines ==
    /\ pc = "flush"
    /\ config' = lines /\ Exit("done")
    /\ UNCHANGED <<generated, metadata, project, package, lines, i, initial>>

----------------------------------------------------------------------------
\* KeyboardInterrupt, or an error of the file system
Interrupted ==
    /\ pc # "idle"
    /\ Exit("raised")
    /\ UNCHANGED <<generated, metadata, config, project, package, lines, i, initial>>

\* what the message of a refused run asks for
DeletePackage(p, k) ==
    /\ pc = "idle" /\ <<p, k>> \in generated
    /\ generated' = generated \ {<<p, k>>} /\ outcome' = "none"
    /\ UNCHANGED <<metadata, config, pc, project, package, lines, i, initial>>

\* a person repairs the commas: one after each entry, except perhaps the last
FixCommas ==
    /\ pc = "idle" /\ config # Truncated
    /\ \E last \in 0..1 :
        config' = [n \in 1..Len(config) |->
                      [config[n] EXCEPT !.commas = IF n = Len(config) THEN last ELSE 1]]
    /\ UNCHANGED <<generated, metadata, pc, project, package, lines, i, outcome, initial>>

Script == RunStubgen \/ CreateMetadata \/ ReadConfig \/ Walk \/ Insert \/ OpenConfig \/ WriteLines

Next ==
    \/ Script
    \/ Interrupted
    \/ FixCommas
    \/ \E p \in Project, k \in Package : Main(p, k) \/ DeletePackage(p, k)

Spec == Init /\ [][Next]_vars /\ WF_vars(Script)

----------------------------------------------------------------------------
Sorted(list) == \A m, n \in 1..Len(list) : m < n => Lower(list[m]) <= Lower(list[n])

\* one comma between two entries, and at most one after the last
Parses(list) ==
    /\ list # Truncated
    /\ \A n \in 1..Len(list) : list[n].commas = 1 \/ (n = Len(list) /\ list[n].commas = 0)

\* does list hold the entries of old in their order?
Keeps(old, list) ==
    \E f \in [1..Len(old) -> 1..Len(list)] :
        /\ \A n \in 1..Len(old) : list[f[n]].name = old[n].name
        /\ \A m, n \in 1..Len(old) : m < n => f[m] < f[n]

\* is the first entry for the project, whatever its case, not the project?
FirstSpelledOtherwise(list) ==
    \E n \in 1..Len(list) :
        /\ Lower(list[n]) = Key[project] /\ list[n].name # project
        /\ \A m \in 1..n - 1 : Lower(list[m]) # Key[project]

(***************************************************************************)
(* What main calls Done: the stubs, a METADATA.toml and an exclusion are   *)
(* all there, in the spelling of the project, whatever earlier runs for    *)
(* the same project left behind and in whatever case it is listed besides. *)
(***************************************************************************)
DoneMeansExcluded ==
    outcome = "done" =>
        /\ <<project, package>> \in generated
        /\ project \in metadata
        /\ \E n \in 1..Len(config) : config[n].name = project

(***************************************************************************)
(* However often add_pyright_exclusion rewrites the file, all the entries  *)
(* it held before the first run are there in their order, unless the file  *)
(* was cut short.                                                          *)
(***************************************************************************)
EntriesKept == config # Truncated => Keeps(initial, config)

(***************************************************************************)
(* The backwards search finds the place of an entry: a sorted list stays   *)
(* sorted.                                                                 *)
(***************************************************************************)
InsertKeepsOrder == [][pc = "walk" /\ Sorted(lines) => Sorted(lines')]_vars

(***************************************************************************)
(* "already up-to-date" is recognised: a project that is listed is listed  *)
(* again only if the list was not sorted, if the last entry is the project *)
(* in some spelling and has no comma (the comparison then stops at the     *)
(* entry itself), or if the first of the entries for the project in any    *)
(* spelling is not spelled like it (the search finds its place before that *)
(* one, and the equality, unlike the search, tells upper from lower case). *)
(***************************************************************************)
ListedOnce ==
    [][(/\ pc = "walk" /\ lines' # lines
        /\ \E n \in 1..Len(lines) : lines[n].name = project)
       => \/ ~Sorted(lines)
          \/ Lower(Last(lines)) = Key[project] /\ Last(lines).commas = 0
          \/ FirstSpelledOtherwise(lines)]_vars

(***************************************************************************)
(* The commas are right after every insertion but one: at the end of a     *)
(* list whose last entry has a trailing comma.                             *)
(***************************************************************************)
CommasKept ==
    [][pc = "walk" /\ Parses(lines) /\ ~(i = Len(lines) /\ Last(lines).commas = 1)
       => Parses(lines')]_vars

(***************************************************************************)
(* The script ends: the search stops before it leaves the list.            *)
(***************************************************************************)
RunEnds == pc # "idle" ~> pc = "idle"
=============================================================================
