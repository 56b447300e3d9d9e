---------------------------- MODULE HistoryPanel ----------------------------
(***************************************************************************)
(* The history page (HistoryPanel.qml).  Its loader destroys it when the   *)
(* user leaves; the HistoryModel it fills outlives it.  A sample on the    *)
(* screen is its place in time: the page keeps it in tsList, valList and   *)
(* the line series, the model next to its device.                          *)
(***************************************************************************)
EXTENDS ApiCalls

VARIABLES
    shown,     \* the page exists
    loading,
    since,     \* sinceIso
    tsList,
    points     \* HistoryModel::points_

historyVars == <<shown, loading, since, tsList, points>>

Sample == [device : Devices, at : 1..MaxRows]

HistoryInit ==
    /\ shown = FALSE /\ loading = FALSE /\ since = 1
    /\ tsList = <<>> /\ points = <<>>

\* The window of a new page begins 24 hours ago.
OpenHistory ==
    /\ shown' = TRUE
    /\ since' \in 1..MaxRows
    /\ UNCHANGED <<loading, tsList, points>>

LeaveHistory ==
    /\ shown' = FALSE
    /\ loading' = FALSE /\ since' = 1 /\ tsList' = <<>>
    /\ UNCHANGED points

\* loadHistory() for the device of the combo box.
LoadHistory(d, from) ==
    /\ loading' = TRUE
    /\ tsList' = <<>> /\ points' = <<>>
    /\ SendUncounted([kind |-> "history", device |-> d, since |-> from])
    /\ UNCHANGED <<shown, unreported, apiVars>>

\* The Load button is disabled while a load is on its way; the empty state
\* offers its button when nothing is.
PressLoad ==
    /\ ~loading
    /\ UNCHANGED since
    /\ \E d \in Devices : LoadHistory(d, since)

\* The range presets are never disabled.
ChooseRange ==
    /\ since' \in 1..MaxRows
    /\ \E d \in Devices : LoadHistory(d, since')

\* The points are appended one by one.  Without a page nobody listens.
HistoryLoadFinished(n) ==
    /\ Kind(n) = "history" /\ Answered(n)
    /\ FinishUncounted(n)
    /\ IF shown
       THEN /\ loading' = FALSE
            /\ IF calls[n].stage = "ok"
               THEN /\ tsList' = tsList \o calls[n].answer
                    /\ points' = points \o
                         [i \in DOMAIN calls[n].answer |->
                            [device |-> calls[n].request.device, at |-> calls[n].answer[i]]]
               ELSE UNCHANGED <<tsList, points>>
       ELSE UNCHANGED <<loading, tsList, points>>
    /\ UNCHANGED <<shown, since, unreported, apiVars>>
=============================================================================
