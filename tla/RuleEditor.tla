----------------------------- MODULE RuleEditor -----------------------------
(***************************************************************************)
(* The rules page of the dashboard (RuleEditorPanel.qml) with its RuleModel *)
(* (ui/src/rule_model.cpp).  The page lives from its first visit to the     *)
(* end of the process.  Rows of the list are counted, since add_rule        *)
(* appends whatever arrives.  What the user types into the form is chosen   *)
(* when it is submitted.                                                    *)
(***************************************************************************)
EXTENDS ApiCalls

VARIABLES
    opened,        \* the page has been visited
    editingId,     \* the rule in the form; Nothing: create mode (-1)
    saving,
    loadingRules,
    lastAction,    \* what the answer to a change is reported as
    listed         \* RuleModel: how many rows show an id and a content

editorVars == <<opened, editingId, saving, loadingRules, lastAction, listed>>

NoRows == [row \in Row |-> 0]
OnScreen == {row \in Row : listed[row] > 0}

EditorInit ==
    /\ opened = FALSE
    /\ editingId = Nothing
    /\ saving = FALSE /\ loadingRules = FALSE
    /\ lastAction = "create"
    /\ listed = NoRows

-----------------------------------------------------------------------------
\* loadRules() clears the model and asks for the list.
LoadRules == loadingRules' = TRUE /\ listed' = NoRows
LoadRequest == [kind |-> "rules"]

AskForRules ==
    /\ LoadRules /\ SendUncounted(LoadRequest)
    /\ UNCHANGED <<editingId, saving, lastAction, unreported, apiVars>>

OpenRules == ~opened /\ opened' = TRUE /\ AskForRules

\* The button is disabled while a load is on its way.
Refresh == ~loadingRules /\ AskForRules /\ UNCHANGED opened

EditRule(row) ==
    /\ row.id # editingId
    /\ editingId' = row.id
    /\ UNCHANGED <<opened, saving, loadingRules, lastAction, listed, callVars>>

Cancel ==
    /\ editingId # Nothing
    /\ editingId' = Nothing
    /\ UNCHANGED <<opened, saving, loadingRules, lastAction, listed, callVars>>

\* submit(): the button, disabled while saving, or Enter in the threshold,
\* which is not.  A form without a number sends nothing.
Submit(content) ==
    /\ saving' = TRUE
    /\ IF editingId = Nothing
       THEN /\ lastAction' = "create"
            /\ SendCounted([kind |-> "create", content |-> content])
       ELSE /\ lastAction' = "update"
            /\ SendCounted([kind |-> "update", id |-> editingId, content |-> content])
    /\ UNCHANGED <<opened, editingId, loadingRules, listed, unreported, apiVars>>

\* The button of a row is never disabled.
DeleteRule(row) ==
    /\ lastAction' = "delete"
    /\ SendCounted([kind |-> "delete", id |-> row.id])
    /\ UNCHANGED <<opened, editingId, saving, loadingRules, listed, unreported, apiVars>>

-----------------------------------------------------------------------------
(* Answers.                                                                 *)

\* Mutant: the rows are replaced when the answer arrives.
RulesLoadReplaces(n) ==
    /\ Kind(n) = "rules" /\ Answered(n)
    /\ FinishUncounted(n)
    /\ loadingRules' = FALSE
    /\ IF calls[n].stage = "ok"
       THEN listed' = [row \in Row |-> IF row \in calls[n].answer THEN 1 ELSE 0]
       ELSE UNCHANGED listed
    /\ UNCHANGED <<opened, editingId, saving, lastAction, unreported, apiVars>>

RulesLoadFinished(n) ==
    /\ Kind(n) = "rules" /\ Answered(n)
    /\ FinishUncounted(n)
    /\ loadingRules' = FALSE
    /\ IF calls[n].stage = "ok"
       THEN listed' = [row \in Row |-> IF row \in calls[n].answer
                                       THEN listed[row] + 1 ELSE listed[row]]
       ELSE UNCHANGED listed
    /\ UNCHANGED <<opened, editingId, saving, lastAction, unreported, apiVars>>

\* Whatever change it answers, a success resets the form and reloads the list.
MutationSucceeded(n) ==
    /\ Resend(n, LoadRequest) /\ CountDown(TRUE)
    /\ saving' = FALSE /\ editingId' = Nothing
    /\ LoadRules

\* Mutant: the spinner of the button stops on success only.
MutationFailedSpinning(n) ==
    /\ Drop(n) /\ CountDown(busy)
    /\ UNCHANGED <<saving, editingId, loadingRules, listed>>

MutationFailed(n) ==
    /\ Drop(n) /\ CountDown(busy)
    /\ saving' = FALSE
    /\ UNCHANGED <<editingId, loadingRules, listed>>

RuleMutationFinished(n) ==
    /\ Kind(n) \in ChangeKinds /\ Answered(n)
    /\ IF calls[n].stage = "ok" THEN MutationSucceeded(n) ELSE MutationFailed(n)
    /\ UNCHANGED <<opened, lastAction, gets, acks, actions, unreported, apiVars>>

UserEdits ==
    \/ Refresh \/ Cancel
    \/ \E content \in Contents : Submit(content)
    \/ \E row \in OnScreen : EditRule(row) \/ DeleteRule(row)
=============================================================================
