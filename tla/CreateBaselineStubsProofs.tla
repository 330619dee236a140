--------------------- MODULE CreateBaselineStubsProofs ---------------------
(***************************************************************************)
(* Proofs about CreateBaselineStubs for every set of projects and packages *)
(* and every list of lines whose first one sorts before the stubs/ lines.  *)
(***************************************************************************)
EXTENDS CreateBaselineStubs, TLAPS

----------------------------------------------------------------------------
(***************************************************************************)
(* The inductive invariant.  While the search runs, every line it has      *)
(* passed over is greater than the new one, and the line of key 0 stops it *)
(* inside the list.                                                        *)
(***************************************************************************)
WellFormed(list) == (list # << >> => Lower(list[1]) = 0) /\ Separated(list)

Listed(list) == \E n \in 1..Len(list) : list[n].name = project

Searching ==
    pc = "walk" =>
        /\ lines # << >> /\ config = lines /\ i \in 1..Len(lines) + 1
        /\ \A n \in i + 1..Len(lines) : Greater(n, project)

Progress ==
    /\ pc \in {"metadata", "read", "walk", "write", "flush"} => <<project, package>> \in generated
    /\ pc \in {"read", "walk", "write", "flush"} => project \in metadata
    /\ pc \in {"write", "flush"} => lines # << >> /\ Listed(lines)
    /\ pc # "idle" => outcome = "none"
    /\ outcome = "done" => <<project, package>> \in generated /\ project \in metadata /\ Listed(config)

IInv == TypeOK /\ WellFormed(config) /\ WellFormed(lines) /\ Searching /\ Progress

----------------------------------------------------------------------------
(***************************************************************************)
(* lines.insert(i + 1, ...) inside the list: what each line of the result  *)
(* is.                                                                     *)
(***************************************************************************)
LEMMA InsertAtLines ==
    ASSUME NEW s \in Seq(Line), NEW n \in 1..Len(s), n # Len(s), NEW e \in Line,
           NEW t, t = InsertAt(s, n + 1, e)
    PROVE  /\ t \in Seq(Line) /\ Len(t) = Len(s) + 1
           /\ \A m \in 1..n : t[m] = s[m]
           /\ t[n + 1] = e
           /\ \A m \in n + 2..Len(t) : t[m] = s[m - 1]
<1> DEFINE a == SubSeq(s, 1, n)
           b == SubSeq(s, n + 1, Len(s))
<1>1. /\ a \in Seq(Line) /\ Len(a) = n
      /\ \A m \in 1..n : a[m] = s[m]
  OBVIOUS
<1>2. /\ b \in Seq(Line) /\ Len(b) = Len(s) - n
      /\ \A m \in 1..Len(s) - n : b[m] = s[n + m]
  OBVIOUS
<1>3. InsertAt(s, n + 1, e) = (a \o <<e>>) \o b
  <2>1. (n + 1) - 1 = n
    OBVIOUS
  <2>2. InsertAt(s, n + 1, e) = (SubSeq(s, 1, (n + 1) - 1) \o <<e>>) \o SubSeq(s, n + 1, Len(s))
    BY Zenon DEF InsertAt
  <2> QED BY <2>1, <2>2, Zenon DEF a, b
<1> HIDE DEF a, b
<1> DEFINE c == a \o <<e>>
<1>4. /\ c \in Seq(Line) /\ Len(c) = n + 1
      /\ \A m \in 1..n : c[m] = a[m]
      /\ c[n + 1] = e
  BY <1>1
<1> HIDE DEF c
<1>5. t = c \o b
  BY <1>3, Zenon DEF c
<1>6. t \in Seq(Line) /\ Len(t) = Len(s) + 1
  <2>1. c \in Seq(Line) /\ b \in Seq(Line)
    BY <1>2, <1>4
  <2>2. c \o b \in Seq(Line)
    BY <2>1
  <2>3. Len(c \o b) = Len(c) + Len(b)
    BY <2>1
  <2>4. t \in Seq(Line) /\ Len(t) = Len(c) + Len(b)
    BY <1>5, <2>2, <2>3, Zenon
  <2>5. Len(c) = n + 1 /\ Len(b) = Len(s) - n
    BY <1>2, <1>4, Zenon
  <2> QED BY <2>4, <2>5
<1>7. \A m \in 1..n + 1 : t[m] = c[m]
  BY <1>2, <1>4, <1>5
<1>8. ASSUME NEW m \in n + 2..Len(s) + 1
      PROVE  t[m] = s[m - 1]
  <2>1. t[m] = b[m - Len(c)]
    BY <1>2, <1>4, <1>5
  <2>2. m - Len(c) \in 1..Len(s) - n /\ n + (m - Len(c)) = m - 1
    BY <1>4
  <2> QED BY <1>2, <2>1, <2>2
<1> QED BY <1>1, <1>4, <1>6, <1>7, <1>8

(***************************************************************************)
(* WithEntry, both of its cases: the lines before and after the new one    *)
(* keep their names, and no comma is taken away.                           *)
(***************************************************************************)
EntryInserted(t, n, new) ==
    /\ t \in Seq(Line) /\ Len(t) = Len(lines) + 1
    /\ \A m \in 1..n : t[m].name = lines[m].name
    /\ t[n + 1].name = new
    /\ \A m \in n + 2..Len(t) : t[m] = lines[m - 1]
    /\ n # Len(lines) => t[n + 1].commas = 1 /\ \A m \in 1..n : t[m] = lines[m]
    /\ n = Len(lines) =>
         /\ t[n + 1].commas = 0 /\ t[n].commas = lines[n].commas + 1
         /\ \A m \in 1..n - 1 : t[m] = lines[m]

LEMMA WithEntryLines ==
    ASSUME lines \in Seq(Line), NEW n \in 1..Len(lines), NEW new \in Name
    PROVE  EntryInserted(WithEntry(n, new), n, new)
<1> DEFINE t == WithEntry(n, new)
<1> SUFFICES EntryInserted(t, n, new)
  OBVIOUS
<1>0. t = WithEntry(n, new)
  OBVIOUS
<1> HIDE DEF t
<1>1. CASE n = Len(lines)
  <2> DEFINE s == [lines EXCEPT ![n] = WithComma(@)]
             e == [name |-> new, commas |-> 0]
             l == WithComma(lines[n])
  <2>0. lines[n] \in Line
    OBVIOUS
  <2>1. e \in Line
    BY DEF Line
  <2>2. l \in Line /\ l.name = lines[n].name /\ l.commas = lines[n].commas + 1
    BY <2>0 DEF Line, WithComma
  <2>3. s = [lines EXCEPT ![n] = l]
    OBVIOUS
  <2> HIDE DEF l
  <2>4. s \in Seq(Line) /\ Len(s) = Len(lines)
    BY <2>2, <2>3
  <2>5. /\ s[n].name = lines[n].name /\ s[n].commas = lines[n].commas + 1
        /\ \A m \in 1..n - 1 : s[m] = lines[m]
    BY <2>2, <2>3
  <2> HIDE DEF s
  <2>6. /\ Append(s, e) \in Seq(Line) /\ Len(Append(s, e)) = Len(lines) + 1
        /\ Append(s, e)[n + 1] = e
        /\ \A m \in 1..n : Append(s, e)[m] = s[m]
    BY <1>1, <2>1, <2>4
  <2>7. t = Append(s, e)
    BY <1>0, <1>1 DEF WithEntry, s
  <2>8. t[n + 1].name = new /\ t[n + 1].commas = 0
    BY <2>6, <2>7
  <2>9. /\ \A m \in 1..n - 1 : t[m] = lines[m]
        /\ t[n].name = lines[n].name /\ t[n].commas = lines[n].commas + 1
    BY <2>5, <2>6, <2>7
  <2>10. \A m \in 1..n : t[m].name = lines[m].name
    BY <2>9
  <2>11. t \in Seq(Line) /\ Len(t) = Len(lines) + 1
    BY <2>6, <2>7
  <2> QED BY <1>1, <2>8, <2>9, <2>10, <2>11 DEF EntryInserted
<1>2. CASE n # Len(lines)
  <2> DEFINE e == [name |-> new, commas |-> 1]
  <2>1. e \in Line
    BY DEF Line
  <2>2. t = InsertAt(lines, n + 1, e)
    BY <1>0, <1>2 DEF WithEntry
  <2>3. /\ t \in Seq(Line) /\ Len(t) = Len(lines) + 1
        /\ \A m \in 1..n : t[m] = lines[m]
        /\ t[n + 1] = e
        /\ \A m \in n + 2..Len(t) : t[m] = lines[m - 1]
    BY <1>2, <2>1, <2>2, InsertAtLines
  <2> QED BY <1>2, <2>3 DEF EntryInserted
<1> QED BY <1>1, <1>2

----------------------------------------------------------------------------
LEMMA InitIInv == Init => IInv
<1> SUFFICES ASSUME Init PROVE IInv
  OBVIOUS
<1> USE BaselineAssumption
<1>1. TypeOK
  BY DEF Init, TypeOK, Truncated
<1>2. WellFormed(config) /\ WellFormed(lines)
  BY DEF Init, WellFormed, Truncated, Separated
<1> QED BY <1>1, <1>2 DEF Init, IInv, Searching, Progress

(***************************************************************************)
(* One step of the search: the line passed over is greater than the new    *)
(* one, and the line of key 0 is never passed.                             *)
(***************************************************************************)
LEMMA WalkStep == IInv /\ Walk => IInv'
<1> SUFFICES ASSUME IInv, Walk PROVE IInv'
  OBVIOUS
<1> USE BaselineAssumption DEF IInv, Walk
<1>0. /\ lines # << >> /\ i \in 1..Len(lines) + 1 /\ lines \in Seq(Line)
      /\ Key[project] \in Nat \ {0}
  BY DEF Searching, TypeOK
<1>1. i # 1
  <2>1. 1 <= Len(lines) /\ Lower(lines[1]) = 0
    BY <1>0 DEF WellFormed
  <2> QED BY <1>0, <2>1 DEF Greater
<1>2. i' \in 1..Len(lines) /\ i' = i - 1 /\ i' \in Nat
  BY <1>0, <1>1
<1>3. Searching'
  <2>1. \A n \in i' + 1..Len(lines) : n = i \/ n \in i + 1..Len(lines)
    BY <1>0, <1>2
  <2>2. \A n \in i' + 1..Len(lines) : Greater(n, project)
    BY <2>1 DEF Searching
  <2>3. \A n : Greater(n, project)' <=> Greater(n, project)
    BY DEF Greater
  <2> QED BY <1>0, <1>2, <2>2, <2>3 DEF Searching
<1>4. TypeOK' /\ WellFormed(config)' /\ WellFormed(lines)'
  BY <1>2 DEF TypeOK, WellFormed, Separated
<1>5. Progress'
  BY DEF Progress, Listed
<1> QED BY <1>3, <1>4, <1>5

(***************************************************************************)
(* The insertion: the new line is listed, the first line stays first, and  *)
(* no two lines are left without a comma between them.                     *)
(***************************************************************************)
LEMMA InsertStep == IInv /\ Insert => IInv'
<1> SUFFICES ASSUME IInv, Insert PROVE IInv'
  OBVIOUS
<1> USE BaselineAssumption DEF IInv, Insert
<1>0. /\ lines # << >> /\ i \in 1..Len(lines) + 1 /\ project \in Name
      /\ lines \in Seq(Line) /\ i \in 1..Len(lines)
  BY DEF Searching, TypeOK, Greater
<1>1. CASE IsListed(i + 1, project)
  <2>1. Listed(lines) /\ config = lines
    BY <1>0, <1>1 DEF IsListed, Listed, Searching
  <2>2. pc' = "idle" /\ outcome' = "done" /\ lines' = lines
    BY <1>1 DEF Exit
  <2>3. TypeOK' /\ WellFormed(config)' /\ WellFormed(lines)'
    BY <2>2 DEF TypeOK, WellFormed, Separated
  <2>4. Listed(config)'
    BY <2>1 DEF Listed
  <2>5. Progress'
    BY <2>2, <2>4 DEF Progress
  <2> QED BY <2>2, <2>3, <2>5 DEF Searching
<1>2. CASE ~IsListed(i + 1, project)
  <2>1. lines' = WithEntry(i, project) /\ pc' = "write" /\ outcome' = outcome
    BY <1>2
  <2>2. /\ lines' \in Seq(Line) /\ Len(lines') = Len(lines) + 1
        /\ \A m \in 1..i : lines'[m].name = lines[m].name
        /\ lines'[i + 1].name = project
        /\ \A m \in i + 2..Len(lines') : lines'[m] = lines[m - 1]
        /\ i # Len(lines) => lines'[i + 1].commas = 1 /\ \A m \in 1..i : lines'[m] = lines[m]
        /\ i = Len(lines) =>
             /\ lines'[i + 1].commas = 0 /\ lines'[i].commas = lines[i].commas + 1
             /\ \A m \in 1..i - 1 : lines'[m] = lines[m]
    <3>1. lines \in Seq(Line) /\ i \in 1..Len(lines) /\ project \in Name
      BY <1>0
    <3>2. EntryInserted(WithEntry(i, project), i, project)
      BY <3>1, WithEntryLines
    <3> QED BY <2>1, <3>2 DEF EntryInserted
  <2>3. TypeOK'
    BY <2>1, <2>2 DEF TypeOK
  <2>4. lines' # << >> /\ Listed(lines)'
    <3>1. i + 1 \in 1..Len(lines') /\ project' = project
      BY <1>0, <2>2
    <3> QED BY <2>2, <3>1 DEF Listed
  <2>5. WellFormed(lines)'
    <3>1. Lower(lines'[1]) = 0
      BY <1>0, <2>2 DEF WellFormed, Lower
    <3>2. ASSUME NEW m \in 1..Len(lines') - 1
          PROVE  lines'[m].commas > 0
      <4>1. \A k \in 1..Len(lines) - 1 : lines[k].commas > 0
        BY DEF WellFormed, Separated
      <4>2. ASSUME NEW k \in 1..Len(lines) PROVE lines[k].commas \in Nat
        <5>1. lines[k] \in Line
          BY <1>0
        <5> QED BY <5>1 DEF Line
      <4>3. CASE i = Len(lines)
        <5>1. m \in 1..Len(lines) /\ (m = i \/ m \in 1..i - 1)
          BY <1>0, <2>2, <4>3
        <5> QED BY <1>0, <2>2, <4>1, <4>2, <4>3, <5>1
      <4>4. CASE i # Len(lines)
        <5>1. m \in 1..i \/ m = i + 1 \/ (m \in i + 2..Len(lines') /\ m - 1 \in 1..Len(lines) - 1)
          BY <1>0, <2>2, <4>4
        <5>2. m \in 1..i => m \in 1..Len(lines) - 1
          BY <1>0, <4>4
        <5> QED BY <2>2, <4>1, <4>4, <5>1, <5>2
      <4> QED BY <4>3, <4>4
    <3> QED BY <3>1, <3>2 DEF WellFormed, Separated
  <2>6. WellFormed(config)'
    BY DEF WellFormed, Separated
  <2>7. Progress'
    BY <2>1, <2>4 DEF Progress
  <2> QED BY <2>1, <2>3, <2>5, <2>6, <2>7 DEF Searching
<1> QED BY <1>1, <1>2

(***************************************************************************)
(* A repair of the commas by hand leaves the names alone.                  *)
(***************************************************************************)
LEMMA FixCommasStep == IInv /\ FixCommas => IInv'
<1> SUFFICES ASSUME IInv, FixCommas PROVE IInv'
  OBVIOUS
<1> USE DEF IInv
<1>0. config \in Seq(Line) /\ config # << >> /\ pc = "idle"
  BY DEF TypeOK, FixCommas, Truncated
<1>1. PICK last \in 0..1 :
        config' = [n \in 1..Len(config) |->
                      [config[n] EXCEPT !.commas = IF n = Len(config) THEN last ELSE 1]]
  BY DEF FixCommas
<1>2. ASSUME NEW n \in 1..Len(config)
      PROVE  /\ config'[n] \in Line /\ config'[n].name = config[n].name
             /\ config'[n].commas = IF n = Len(config) THEN last ELSE 1
  <2>1. config[n] \in Line
    BY <1>0
  <2> QED BY <1>1, <2>1 DEF Line
<1>3. config' \in Seq(Line) /\ Len(config') = Len(config)
  BY <1>0, <1>1, <1>2
<1>4. TypeOK'
  BY <1>3 DEF TypeOK, FixCommas
<1>5. WellFormed(config)'
  BY <1>0, <1>2, <1>3 DEF WellFormed, Separated, Lower
<1>6. Listed(config) => Listed(config)'
  BY <1>2, <1>3 DEF Listed, FixCommas
<1>7. Progress'
  BY <1>0, <1>6 DEF Progress, FixCommas
<1>8. WellFormed(lines)' /\ Searching'
  BY <1>0 DEF WellFormed, Separated, Searching, FixCommas
<1> QED BY <1>4, <1>5, <1>7, <1>8

LEMMA NextIInv == IInv /\ [Next]_vars => IInv'
<1> SUFFICES ASSUME IInv, [Next]_vars PROVE IInv'
  OBVIOUS
<1> USE BaselineAssumption DEF IInv
<1>1. ASSUME NEW p \in Project, NEW k \in Package, Main(p, k) PROVE IInv'
  BY <1>1 DEF Main, Exit, TypeOK, WellFormed, Separated, Searching, Progress, Listed
<1>2. ASSUME NEW p \in Project, NEW k \in Package, DeletePackage(p, k) PROVE IInv'
  BY <1>2 DEF DeletePackage, TypeOK, WellFormed, Separated, Searching, Progress, Listed
<1>3. CASE RunStubgen
  BY <1>3 DEF RunStubgen, Exit, TypeOK, WellFormed, Separated, Searching, Progress, Listed
<1>4. CASE CreateMetadata
  BY <1>4 DEF CreateMetadata, Exit, TypeOK, WellFormed, Separated, Searching, Progress, Listed
<1>5. CASE ReadConfig
  <2>1. CASE config = Truncated
    BY <1>5, <2>1 DEF ReadConfig, Exit, TypeOK, WellFormed, Separated, Searching, Progress, Listed
  <2>2. CASE config # Truncated
    <3>1. /\ pc = "read" /\ pc' = "walk" /\ lines' = config /\ i' = Len(config) + 1
          /\ UNCHANGED <<generated, metadata, config, project, package, outcome, initial>>
      BY <1>5, <2>2 DEF ReadConfig
    <3>2. TypeOK' /\ WellFormed(config)' /\ WellFormed(lines)'
      BY <3>1 DEF TypeOK, WellFormed, Separated
    <3>3. Searching'
      BY <2>2, <3>1 DEF Searching, Truncated, TypeOK
    <3> QED BY <3>1, <3>2, <3>3 DEF Progress
  <2> QED BY <2>1, <2>2
<1>6. CASE Walk
  BY <1>6, WalkStep
<1>7. CASE Insert
  BY <1>7, InsertStep
<1>8. CASE OpenConfig
  BY <1>8 DEF OpenConfig, Truncated, TypeOK, WellFormed, Separated, Searching, Progress, Listed
<1>9. CASE WriteLines
  BY <1>9 DEF WriteLines, Exit, TypeOK, WellFormed, Separated, Searching, Progress, Listed
<1>10. CASE Interrupted
  BY <1>10 DEF Interrupted, Exit, TypeOK, WellFormed, Separated, Searching, Progress, Listed
<1>11. CASE FixCommas
  BY <1>11, FixCommasStep
<1>12. CASE UNCHANGED vars
  BY <1>12 DEF vars, TypeOK, WellFormed, Separated, Searching, Greater, Progress, Listed
<1> QED BY <1>1, <1>2, <1>3, <1>4, <1>5, <1>6, <1>7, <1>8, <1>9, <1>10, <1>11, <1>12 DEF Next, Script

LEMMA AlwaysIInv == Spec => []IInv
  BY InitIInv, NextIInv, PTL DEF Spec

----------------------------------------------------------------------------
(***************************************************************************)
(* The locals of add_pyright_exclusion, and what is on disk, have their    *)
(* types: the search in particular never leaves the list.                  *)
(***************************************************************************)
THEOREM Types == Spec => []TypeOK
  BY AlwaysIInv, PTL DEF IInv

(***************************************************************************)
(* A run that main calls Done has left stubs, METADATA.toml and exclusion, *)
(* however many runs were interrupted or refused before it.                *)
(***************************************************************************)
THEOREM DoneIsExcluded == Spec => []DoneMeansExcluded
<1>1. IInv => DoneMeansExcluded
  BY DEF IInv, Progress, Listed, DoneMeansExcluded
<1> QED BY <1>1, AlwaysIInv, PTL

\* what is known of a step of the search that changes the lines
LEMMA Insertion ==
    ASSUME IInv, [Next]_vars, pc = "walk", lines' # lines
    PROVE  /\ lines \in Seq(Line) /\ Separated(lines) /\ i \in 1..Len(lines)
           /\ project \in Name /\ Key[project] \in Nat
           /\ \A n \in 1..Len(lines) : Lower(lines[n]) \in Nat
           /\ Lower(lines[i]) < Key[project] \/ (Lower(lines[i]) = Key[project] /\ lines[i].commas = 0)
           /\ \A n \in i + 1..Len(lines) : Lower(lines[n]) >= Key[project]
           /\ i + 1 <= Len(lines) => lines[i + 1].name # project
           /\ EntryInserted(lines', i, project)
<1>1. Insert
  BY DEF Next, Script, vars, Main, DeletePackage, RunStubgen, CreateMetadata, ReadConfig, Walk,
         OpenConfig, WriteLines, Interrupted, FixCommas
<1>2. /\ lines \in Seq(Line) /\ i \in 1..Len(lines) + 1 /\ Separated(lines)
      /\ project \in Name /\ Key[project] \in Nat
      /\ \A n \in i + 1..Len(lines) : Greater(n, project)
  BY BaselineAssumption DEF IInv, TypeOK, Searching, WellFormed
<1>3. i \in 1..Len(lines) /\ ~Greater(i, project)
  BY <1>1, <1>2 DEF Insert, Greater
<1>4. ASSUME NEW n \in 1..Len(lines) PROVE Lower(lines[n]) \in Nat /\ lines[n].commas \in Nat
  <2>1. lines[n] \in Line
    BY <1>2
  <2> QED BY <2>1, BaselineAssumption DEF Line, Lower
<1>5. Lower(lines[i]) < Key[project] \/ (Lower(lines[i]) = Key[project] /\ lines[i].commas = 0)
  BY <1>2, <1>3, <1>4 DEF Greater
<1>6. \A n \in i + 1..Len(lines) : Lower(lines[n]) >= Key[project]
  BY <1>2, <1>3, <1>4 DEF Greater
<1>7. lines' = WithEntry(i, project) /\ ~IsListed(i + 1, project)
  BY <1>1 DEF Insert
<1>8. EntryInserted(lines', i, project)
  <2>1. EntryInserted(WithEntry(i, project), i, project)
    BY <1>2, <1>3, WithEntryLines
  <2> QED BY <1>7, <2>1
<1> QED BY <1>2, <1>3, <1>4, <1>5, <1>6, <1>7, <1>8 DEF IsListed

(***************************************************************************)
(* add_pyright_exclusion keeps a sorted list sorted, for every list.       *)
(***************************************************************************)
THEOREM OrderKept == Spec => InsertKeepsOrder
<1>1. IInv /\ [Next]_vars => (pc = "walk" /\ Sorted(lines) => Sorted(lines'))
  <2> SUFFICES ASSUME IInv, [Next]_vars, pc = "walk", Sorted(lines), lines' # lines
               PROVE  Sorted(lines')
    OBVIOUS
  <2>1. /\ lines \in Seq(Line) /\ i \in 1..Len(lines) /\ Key[project] \in Nat
        /\ Lower(lines[i]) < Key[project] \/ Lower(lines[i]) = Key[project]
        /\ \A n \in i + 1..Len(lines) : Lower(lines[n]) >= Key[project]
        /\ \A n \in 1..Len(lines) : Lower(lines[n]) \in Nat
        /\ EntryInserted(lines', i, project)
    BY Insertion, Zenon
  <2>2. /\ Len(lines') = Len(lines) + 1
        /\ \A m \in 1..i : lines'[m].name = lines[m].name
        /\ lines'[i + 1].name = project
        /\ \A m \in i + 2..Len(lines') : lines'[m] = lines[m - 1]
    BY <2>1 DEF EntryInserted
  <2>3. /\ Len(lines') = Len(lines) + 1
        /\ \A m \in 1..i : Lower(lines'[m]) = Lower(lines[m])
        /\ Lower(lines'[i + 1]) = Key[project]
        /\ \A m \in i + 2..Len(lines') : lines'[m] = lines[m - 1]
    BY <2>2 DEF Lower
  <2>4. \A m \in 1..i : Lower(lines[m]) <= Key[project]
    BY <2>1 DEF Sorted
  <2> SUFFICES ASSUME NEW m \in 1..Len(lines'), NEW n \in 1..Len(lines'), m < n
               PROVE  Lower(lines'[m]) <= Lower(lines'[n])
    BY DEF Sorted
  <2>5. CASE n <= i
    <3>1. m \in 1..i /\ n \in 1..i /\ m \in 1..Len(lines) /\ n \in 1..Len(lines)
      BY <2>1, <2>5
    <3> QED BY <2>3, <3>1 DEF Sorted
  <2>6. CASE n = i + 1
    <3>1. m \in 1..i
      BY <2>1, <2>6
    <3> QED BY <2>3, <2>4, <2>6, <3>1
  <2>7. CASE n > i + 1
    <3>1. /\ n \in i + 2..Len(lines') /\ n - 1 \in i + 1..Len(lines)
          /\ lines'[n] = lines[n - 1] /\ Lower(lines[n - 1]) >= Key[project]
      BY <2>1, <2>3, <2>7
    <3>2. CASE m <= i
      <4>1. m \in 1..i /\ m \in 1..Len(lines) /\ n - 1 \in 1..Len(lines) /\ m < n - 1
        BY <2>1, <2>3, <3>1, <3>2
      <4> QED BY <2>3, <3>1, <4>1 DEF Sorted
    <3>3. CASE m = i + 1
      BY <2>3, <3>1, <3>3
    <3>4. CASE m > i + 1
      <4>1. m \in i + 2..Len(lines') /\ m - 1 \in 1..Len(lines) /\ n - 1 \in 1..Len(lines) /\ m - 1 < n - 1
        BY <2>1, <2>3, <3>1, <3>4
      <4> QED BY <2>3, <3>1, <4>1 DEF Sorted
    <3> QED BY <2>1, <3>2, <3>3, <3>4
  <2> QED BY <2>1, <2>5, <2>6, <2>7
<1> QED BY <1>1, AlwaysIInv, PTL DEF Spec, InsertKeepsOrder

(***************************************************************************)
(* When add_pyright_exclusion can list a project twice, for every list and *)
(* every set of spellings.                                                 *)
(***************************************************************************)
THEOREM OnlyListedOnce == Spec => ListedOnce
<1>1. ASSUME IInv, [Next]_vars, pc = "walk", lines' # lines,
             NEW n \in 1..Len(lines), lines[n].name = project, Sorted(lines)
      PROVE  \/ Lower(Last(lines)) = Key[project] /\ Last(lines).commas = 0
             \/ FirstSpelledOtherwise(lines)
  <2>1. /\ lines \in Seq(Line) /\ Separated(lines) /\ i \in 1..Len(lines) /\ Key[project] \in Nat
        /\ \A m \in 1..Len(lines) : Lower(lines[m]) \in Nat
        /\ Lower(lines[i]) < Key[project] \/ (Lower(lines[i]) = Key[project] /\ lines[i].commas = 0)
        /\ \A m \in i + 1..Len(lines) : Lower(lines[m]) >= Key[project]
        /\ i + 1 <= Len(lines) => lines[i + 1].name # project
    BY <1>1, Insertion
  <2>2. Lower(lines[n]) = Key[project]
    BY <1>1 DEF Lower
  <2>3. CASE Lower(lines[i]) = Key[project] /\ lines[i].commas = 0
    <3>1. i = Len(lines)
      BY <2>1, <2>3 DEF Separated
    <3> QED BY <2>3, <3>1 DEF Last
  <2>4. CASE Lower(lines[i]) < Key[project]
    <3>1. ASSUME NEW m \in 1..i PROVE Lower(lines[m]) < Key[project]
      <4>1. m = i \/ Lower(lines[m]) <= Lower(lines[i])
        BY <1>1, <2>1 DEF Sorted
      <4> QED BY <2>1, <2>4, <4>1
    <3>2. n > i /\ i + 1 \in 1..Len(lines) /\ n \in i + 1..Len(lines)
      <4>1. ~(n \in 1..i)
        BY <2>1, <2>2, <3>1
      <4> QED BY <2>1, <4>1
    <3>3. Lower(lines[i + 1]) <= Lower(lines[n])
      <4>1. i + 1 = n \/ i + 1 < n
        BY <2>1, <3>2
      <4> QED BY <1>1, <2>1, <3>2, <4>1 DEF Sorted
    <3>4. Lower(lines[i + 1]) = Key[project]
      <4>1. Lower(lines[i + 1]) >= Key[project] /\ Lower(lines[i + 1]) \in Nat
        BY <2>1, <3>2
      <4> QED BY <2>1, <2>2, <3>3, <4>1
    <3>5. lines[i + 1].name # project
      BY <2>1, <3>2
    <3>6. \A m \in 1..(i + 1) - 1 : Lower(lines[m]) # Key[project]
      <4>1. (i + 1) - 1 = i
        BY <2>1
      <4> QED BY <2>1, <3>1, <4>1
    <3> QED BY <3>2, <3>4, <3>5, <3>6 DEF FirstSpelledOtherwise
  <2> QED BY <2>1, <2>3, <2>4
<1>2. IInv /\ [Next]_vars =>
        ((/\ pc = "walk" /\ lines' # lines
          /\ \E n \in 1..Len(lines) : lines[n].name = project)
         => \/ ~Sorted(lines)
            \/ Lower(Last(lines)) = Key[project] /\ Last(lines).commas = 0
            \/ FirstSpelledOtherwise(lines))
  BY <1>1
<1> QED BY <1>2, AlwaysIInv, PTL DEF Spec, ListedOnce

(***************************************************************************)
(* The only insertion that spoils the commas is the one after a trailing   *)
(* comma, for every list.                                                  *)
(***************************************************************************)
THEOREM CommasAreKept == Spec => CommasKept
<1>1. ASSUME IInv, [Next]_vars, pc = "walk", lines' # lines, Parses(lines),
             ~(i = Len(lines) /\ Last(lines).commas = 1)
      PROVE  Parses(lines')
  <2>1. lines \in Seq(Line) /\ i \in 1..Len(lines) /\ EntryInserted(lines', i, project)
    BY <1>1, Insertion
  <2>2. i = Len(lines) => lines[i].commas = 0
    BY <1>1, <2>1 DEF Parses, Last
  <2>3. lines' \in Seq(Line) /\ Len(lines') = Len(lines) + 1
    BY <2>1 DEF EntryInserted
  <2>4. ASSUME NEW m \in 1..Len(lines')
        PROVE  lines'[m].commas = 1 \/ (m = Len(lines') /\ lines'[m].commas = 0)
    <3>1. CASE i = Len(lines)
      BY <1>1, <2>1, <2>2, <2>3, <3>1 DEF EntryInserted, Parses
    <3>2. CASE i # Len(lines) /\ m <= i
      BY <1>1, <2>1, <2>3, <3>2 DEF EntryInserted, Parses
    <3>3. CASE i # Len(lines) /\ m = i + 1
      BY <2>1, <3>3 DEF EntryInserted
    <3>4. CASE i # Len(lines) /\ m > i + 1
      <4>1. m \in i + 2..Len(lines') /\ m - 1 \in 1..Len(lines) /\ lines'[m] = lines[m - 1]
        BY <2>1, <2>3, <3>4 DEF EntryInserted
      <4> QED BY <1>1, <2>1, <2>3, <4>1 DEF Parses
    <3> QED BY <2>1, <2>3, <3>1, <3>2, <3>3, <3>4
  <2> QED BY <2>1, <2>3, <2>4 DEF Parses, Truncated
<1>2. IInv /\ [Next]_vars =>
        (pc = "walk" /\ Parses(lines) /\ ~(i = Len(lines) /\ Last(lines).commas = 1)
         => Parses(lines'))
  BY <1>1
<1> QED BY <1>2, AlwaysIInv, PTL DEF Spec, CommasKept

----------------------------------------------------------------------------
(***************************************************************************)
(* Holding the entries of an older list, in their order.                   *)
(***************************************************************************)
LEMMA KeepsItself ==
    ASSUME NEW s \in Seq(Line)
    PROVE  Keeps(s, s)
<1> DEFINE f == [n \in 1..Len(s) |-> n]
<1>1. /\ f \in [1..Len(s) -> 1..Len(s)]
      /\ \A n \in 1..Len(s) : s[f[n]].name = s[n].name
      /\ \A m, n \in 1..Len(s) : m < n => f[m] < f[n]
  OBVIOUS
<1> HIDE DEF f
<1> QED BY <1>1 DEF Keeps

LEMMA KeepsWithSameNames ==
    ASSUME NEW old, NEW s \in Seq(Line), NEW t \in Seq(Line), Keeps(old, s),
           Len(t) = Len(s), \A n \in 1..Len(s) : t[n].name = s[n].name
    PROVE  Keeps(old, t)
<1>1. PICK f \in [1..Len(old) -> 1..Len(s)] :
        /\ \A n \in 1..Len(old) : s[f[n]].name = old[n].name
        /\ \A m, n \in 1..Len(old) : m < n => f[m] < f[n]
  BY DEF Keeps
<1>2. f \in [1..Len(old) -> 1..Len(t)] /\ \A n \in 1..Len(old) : t[f[n]].name = old[n].name
  BY <1>1
<1> QED BY <1>1, <1>2 DEF Keeps

\* an entry put between the others moves those after it by one
LEMMA KeepsAfterInsertion ==
    ASSUME NEW old, lines \in Seq(Line), NEW k \in 1..Len(lines), NEW t, NEW new,
           Keeps(old, lines), EntryInserted(t, k, new)
    PROVE  Keeps(old, t)
<1>1. PICK f \in [1..Len(old) -> 1..Len(lines)] :
        /\ \A n \in 1..Len(old) : lines[f[n]].name = old[n].name
        /\ \A m, n \in 1..Len(old) : m < n => f[m] < f[n]
  BY DEF Keeps
<1>2. /\ t \in Seq(Line) /\ Len(t) = Len(lines) + 1
      /\ \A m \in 1..k : t[m].name = lines[m].name
      /\ \A m \in k + 2..Len(t) : t[m] = lines[m - 1]
  BY DEF EntryInserted
<1> DEFINE g == [n \in 1..Len(old) |-> IF f[n] <= k THEN f[n] ELSE f[n] + 1]
<1>3. ASSUME NEW n \in 1..Len(old)
      PROVE  g[n] \in 1..Len(t) /\ t[g[n]].name = old[n].name
  <2>0. f[n] \in 1..Len(lines) /\ Len(lines) \in Nat /\ lines[f[n]].name = old[n].name
    BY <1>1
  <2>1. CASE f[n] <= k
    <3>1. g[n] = f[n] /\ f[n] \in 1..k
      BY <2>0, <2>1
    <3> HIDE DEF g
    <3> QED BY <1>2, <2>0, <3>1
  <2>2. CASE ~(f[n] <= k)
    <3>1. g[n] = f[n] + 1
      BY <2>2
    <3>2. f[n] + 1 \in k + 2..Len(t) /\ (f[n] + 1) - 1 = f[n]
      BY <1>2, <2>0, <2>2
    <3>3. t[f[n] + 1] = lines[f[n]]
      BY <1>2, <3>2
    <3>4. f[n] + 1 \in 1..Len(t)
      BY <1>2, <2>0
    <3> HIDE DEF g
    <3> QED BY <2>0, <3>1, <3>3, <3>4
  <2> QED BY <2>1, <2>2
<1>4. ASSUME NEW m \in 1..Len(old), NEW n \in 1..Len(old), m < n
      PROVE  g[m] < g[n]
  <2>1. f[m] < f[n] /\ f[m] \in Nat /\ f[n] \in Nat /\ k \in Nat
    BY <1>1, <1>4
  <2> QED BY <2>1
<1>5. g \in [1..Len(old) -> 1..Len(t)]
  BY <1>3
<1> HIDE DEF g
<1> QED BY <1>3, <1>4, <1>5 DEF Keeps

(***************************************************************************)
(* The inductive part: what the run has read, and is about to write, holds *)
(* the entries as well.                                                    *)
(***************************************************************************)
LinesKept == pc \in {"walk", "write", "flush"} => Keeps(initial, lines)

LEMMA InitKept == Init => EntriesKept /\ LinesKept
<1> SUFFICES ASSUME Init PROVE EntriesKept /\ LinesKept
  OBVIOUS
<1>1. config = initial /\ config \in Seq(Line) /\ pc = "idle"
  BY BaselineAssumption DEF Init
<1>2. Keeps(config, config)
  BY <1>1, KeepsItself
<1> QED BY <1>1, <1>2 DEF EntriesKept, LinesKept

LEMMA NextKept ==
    ASSUME IInv, EntriesKept, LinesKept, [Next]_vars
    PROVE  EntriesKept' /\ LinesKept'
<1>1. CASE ReadConfig
  <2>1. UNCHANGED <<config, initial>> /\ lines' = config /\ (pc' # "idle" => config # Truncated) /\ pc' \in {"idle", "walk"}
    BY <1>1 DEF ReadConfig, Exit
  <2> QED BY <2>1 DEF EntriesKept, LinesKept
<1>2. CASE Insert
  <2>1. UNCHANGED <<config, initial>> /\ pc = "walk" /\ pc' \in {"idle", "write"}
    BY <1>2 DEF Insert, Exit
  <2>2. CASE lines' = lines
    BY <2>1, <2>2 DEF EntriesKept, LinesKept
  <2>3. CASE lines' # lines
    <3>1. lines \in Seq(Line) /\ i \in 1..Len(lines) /\ EntryInserted(lines', i, project)
      BY <2>1, <2>3, Insertion, Zenon
    <3>2. Keeps(initial, lines)
      BY <2>1 DEF LinesKept
    <3>3. Keeps(initial, lines')
      BY <3>1, <3>2, KeepsAfterInsertion
    <3> QED BY <2>1, <3>3 DEF EntriesKept, LinesKept
  <2> QED BY <2>2, <2>3
<1>3. CASE OpenConfig
  BY <1>3 DEF OpenConfig, EntriesKept, LinesKept
<1>4. CASE WriteLines
  BY <1>4 DEF WriteLines, Exit, EntriesKept, LinesKept
<1>5. CASE FixCommas
  <2>1. PICK last \in 0..1 :
          config' = [n \in 1..Len(config) |->
                        [config[n] EXCEPT !.commas = IF n = Len(config) THEN last ELSE 1]]
    BY <1>5 DEF FixCommas
  <2>2. config \in Seq(Line) /\ config # Truncated /\ pc' = "idle" /\ initial' = initial
    BY <1>5 DEF FixCommas, IInv, TypeOK
  <2>3. ASSUME NEW n \in 1..Len(config) PROVE config'[n] \in Line /\ config'[n].name = config[n].name
    <3>1. config[n] \in Line
      BY <2>2
    <3> QED BY <2>1, <3>1 DEF Line
  <2>4. config' \in Seq(Line) /\ Len(config') = Len(config)
    BY <2>1, <2>2, <2>3
  <2>5. Keeps(initial, config)
    BY <2>2 DEF EntriesKept
  <2>6. Keeps(initial, config')
    BY <2>2, <2>3, <2>4, <2>5, KeepsWithSameNames
  <2> QED BY <2>2, <2>6 DEF EntriesKept, LinesKept
<1>6. CASE \/ RunStubgen \/ CreateMetadata \/ Walk \/ Interrupted \/ UNCHANGED vars
           \/ \E p \in Project, k \in Package : Main(p, k) \/ DeletePackage(p, k)
  <2>1. UNCHANGED <<config, lines, initial>> /\ (pc' = pc \/ pc' \in {"idle", "stubgen", "metadata", "read"})
    BY <1>6 DEF RunStubgen, CreateMetadata, Walk, Interrupted, Main, DeletePackage, Exit, vars
  <2> QED BY <2>1 DEF EntriesKept, LinesKept
<1> QED BY <1>1, <1>2, <1>3, <1>4, <1>5, <1>6 DEF Next, Script

(***************************************************************************)
(* Whatever runs were made, interrupted or repeated, the list on disk is   *)
(* empty or holds all the entries it held at first in their order, for     *)
(* every list.                                                             *)
(***************************************************************************)
THEOREM EntriesAreKept == Spec => []EntriesKept
<1>1. IInv /\ (EntriesKept /\ LinesKept) /\ [Next]_vars => (EntriesKept /\ LinesKept)'
  BY NextKept
<1> QED BY <1>1, InitKept, AlwaysIInv, PTL DEF Spec
=============================================================================
