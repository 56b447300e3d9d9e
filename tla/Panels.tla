------------------------------- MODULE Panels -------------------------------
(***************************************************************************)
(* The rules page and the history page on the one ApiClient of the         *)
(* dashboard, with the bootstrap and the acks that use it as well, against *)
(* one API.                                                                *)
(***************************************************************************)
EXTENDS RuleEditor, HistoryPanel

CONSTANT MaxVisits     \* bound: changes of the page

ASSUME VisitsAssumption == MaxVisits \in Nat

VARIABLES
    navIndex,    \* the page the user looks at
    visits       \* changes of the page

vars == <<navIndex, visits, callVars, editorVars, historyVars>>

Pages == {"devices", "history", "rules"}

Init ==
    /\ navIndex = "devices" /\ visits = 0
    /\ CallsInit /\ EditorInit /\ HistoryInit

\* The loader of the history page destroys it when the user leaves; the one of
\* the rules page builds it on the first visit and keeps it.
Visit(page) ==
    /\ visits < MaxVisits /\ visits' = visits + 1
    /\ page # navIndex /\ navIndex' = page
    /\ CASE page = "history"     -> OpenHistory
         [] navIndex = "history" -> LeaveHistory
         [] OTHER                -> UNCHANGED historyVars
    /\ IF page = "rules" /\ ~opened THEN OpenRules ELSE UNCHANGED <<editorVars, callVars>>

EditRules ==
    /\ navIndex = "rules" /\ UserEdits
    /\ UNCHANGED <<navIndex, visits, historyVars>>

BrowseHistory ==
    /\ navIndex = "history" /\ (PressLoad \/ ChooseRange)
    /\ UNCHANGED <<navIndex, visits, editorVars>>

Answer(n) ==
    /\ \/ (RulesLoadFinished(n) \/ RuleMutationFinished(n)) /\ UNCHANGED historyVars
       \/ HistoryLoadFinished(n) /\ UNCHANGED editorVars
    /\ UNCHANGED <<navIndex, visits>>

Elsewhere ==
    /\ \/ Bootstrap \/ GetAnswered \/ AcknowledgeAlarm \/ AckAnswered \/ OtherDashboard
       \/ \E d \in Devices : RecordReading(d)
       \/ \E n \in DOMAIN calls : Serve(n) \/ LoseCall(n)
    /\ UNCHANGED <<navIndex, visits, editorVars, historyVars>>

\* Nothing is in flight: everything waits for the user.
Rest == DOMAIN calls = {} /\ gets + acks = 0 /\ UNCHANGED vars

Next ==
    \/ \E page \in Pages : Visit(page)
    \/ EditRules \/ BrowseHistory \/ Elsewhere
    \/ \E n \in DOMAIN calls : Answer(n)
    \/ Rest

Spec == Init /\ [][Next]_vars
=============================================================================
