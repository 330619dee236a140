------------------------------ MODULE Decision ------------------------------
(***************************************************************************)
(* What the main loop of stubsabot.py relies on when it waits for a        *)
(* determine_action task: the answer is the one DetermineAction gives for  *)
(* METADATA.toml and one state of the PyPI page, seen while the task ran,  *)
(* or the task raises.  The page may change at any time.                   *)
(***************************************************************************)
EXTENDS StubsabotData

CONSTANT dist   \* the distribution the task is for

VARIABLES meta, page, read, answer

NotRead == << >>

Init ==
    /\ meta \in Meta /\ page \in Pypi
    /\ read = NotRead /\ answer = Pending

PageChanges == page' \in Pypi /\ UNCHANGED <<meta, read, answer>>

\* the links are looked up later than the releases
AnswersFor(p) == {DetermineAction(dist, meta, [p EXCEPT !.notes = n]) : n \in Notes}

Read ==
    /\ answer = Pending /\ read = NotRead
    /\ read' = page
    /\ answer' \in {Pending, Raised} \cup AnswersFor(page)
    /\ UNCHANGED <<meta, page>>

Answers ==
    IF read # NotRead THEN AnswersFor(read)
    ELSE IF meta.obsolete_since # 0 \/ dist \in NoLongerUpdated THEN {NoUpdate} ELSE {}

Answer ==
    /\ answer = Pending
    /\ answer' \in Answers \cup {Raised}
    /\ UNCHANGED <<meta, page, read>>

Next == PageChanges \/ Read \/ Answer

Spec == Init /\ [][Next]_<<meta, page, read, answer>>
=============================================================================
