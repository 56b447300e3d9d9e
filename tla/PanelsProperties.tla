-------------------------- MODULE PanelsProperties --------------------------
(***************************************************************************)
(* What the rules page, the history page and the client promise.           *)
(***************************************************************************)
EXTENDS Panels

\* A call carries a request and an answer that fits it.
CallIsTyped(call) ==
    /\ call = [request |-> call.request, stage |-> call.stage, answer |-> call.answer]
    /\ call.request \in Requests /\ call.stage \in Stages
    /\ IF call.stage = "ok" /\ call.request.kind \in {"rules", "history"}
       THEN IF call.request.kind = "rules" THEN call.answer \subseteq Row
                                           ELSE call.answer \in Seq(1..MaxRows)
       ELSE call.answer = Nothing

CallsTyped ==
    /\ actions \in 0..MaxActions /\ gets \in Nat /\ acks \in Nat
    /\ pending \in Nat /\ busy \in BOOLEAN /\ unreported \in BOOLEAN
    /\ DOMAIN calls \subseteq 1..actions
    /\ \A n \in DOMAIN calls : CallIsTyped(calls[n])

TablesTyped ==
    /\ nextRule \in Nat /\ DOMAIN rules \subseteq Ids
    /\ \A r \in DOMAIN rules : rules[r] \in Contents
    /\ recorded \in [Devices -> 0..MaxRows]
    /\ mishaps \in 0..MaxMishaps

EditorTyped ==
    /\ opened \in BOOLEAN /\ saving \in BOOLEAN /\ loadingRules \in BOOLEAN
    /\ editingId \in Ids \cup {Nothing} /\ lastAction \in ChangeKinds
    /\ listed \in [Row -> Nat]

HistoryTyped ==
    /\ shown \in BOOLEAN /\ loading \in BOOLEAN /\ since \in 1..MaxRows
    /\ tsList \in Seq(1..MaxRows) /\ points \in Seq(Sample)

PagesTyped ==
    /\ navIndex \in Pages /\ visits \in 0..MaxVisits
    /\ shown = (navIndex = "history") /\ (navIndex = "rules" => opened)

TypeOK == CallsTyped /\ TablesTyped /\ EditorTyped /\ HistoryTyped /\ PagesTyped

\* The counter that all counted calls share is exact, so the last of them takes
\* it to zero, and no flag outlives the calls (api_client.cpp:64-107, 257-273).
CounterIsExact ==
    /\ pending = gets + acks + Cardinality(InFlight(ChangeKinds))
    /\ busy => pending > 0 \/ DOMAIN calls # {}

\* A spinner stands for a call in flight: no order of answers, losses and page
\* changes leaves a button disabled for ever (RuleEditorPanel.qml:102-124,
\* HistoryPanel.qml:94-101).
NoStuckSpinner ==
    /\ saving => InFlight({"create", "update"}) # {}
    /\ loadingRules => InFlight({"rules"}) # {}
    /\ loading => InFlight({"history"}) # {}

\* The samples of the page are the newest of the model: the statistics divide
\* the page's sum by the model's count (HistoryPanel.qml:25, 71-93).
PageFollowsModel ==
    LET older == Len(points) - Len(tsList)
    IN  older >= 0 /\ \A i \in DOMAIN tsList : tsList[i] = points[older + i].at

PanelsInv == TypeOK /\ CounterIsExact /\ NoStuckSpinner /\ PageFollowsModel

\* When the rules page is quiet it misses nothing: whatever changes, loads and
\* answers overlapped, every rule of the table is on the screen as it stands,
\* unless a call failed or another dashboard changed it
\* (RuleEditorPanel.qml:108-118: the reload comes after the answer).
QuietListIsComplete ==
    /\ opened /\ mishaps = 0
    /\ InFlight(ChangeKinds \cup {"rules"}) = {}
    => RuleList \subseteq OnScreen

\* A history answer shows its window: in the order of time, from its first row
\* to its newest, every anomaly, at most MaxPoints rows besides the anomalies
\* and the newest, and no gap wider than the window divided by MaxPoints,
\* rounded up (device_service.h:35-43, device_service.cpp:151-170).
ShowsWindow(rows, first, last) ==
    LET total == last - first + 1
        kept  == {rows[i] : i \in DOMAIN rows}
    IN  /\ \A i, j \in DOMAIN rows : i < j => rows[i] < rows[j]
        /\ kept \subseteq first..last
        /\ total > 0 => {first, last} \subseteq kept
        /\ Anomalies \cap (first..last) \subseteq kept
        /\ Cardinality(kept \ (Anomalies \cup {last})) <= MaxPoints
        /\ \A i \in DOMAIN rows : i > 1 => (rows[i] - rows[i - 1] - 1) * MaxPoints < total

AnswersShowTheWindow ==
    [][\A n \in DOMAIN calls \cap DOMAIN calls' :
          Kind(n) = "history" /\ ~Answered(n) /\ calls'[n].stage = "ok" /\ mishaps' = mishaps
            => ShowsWindow(calls'[n].answer, calls[n].request.since,
                           recorded[calls[n].request.device])]_vars

-----------------------------------------------------------------------------
(* What texts of the repository say, and overlapping calls break.           *)

\* HistoryPanel.qml:56-57, of nearestIndex: "binary search; the API returns
\* samples in time order".
SamplesAreInTimeOrder == \A i, j \in DOMAIN tsList : i < j => tsList[i] < tsList[j]

\* RuleEditorPanel.qml:16-17: "What the in-flight mutation was, so its result is
\* reported correctly (a delete used to be announced as "Rule created.")".
ResultIsReportedCorrectly ==
    [][\A n \in InFlight(ChangeKinds) :
          calls[n].stage = "ok" /\ calls'[n].request.kind = "rules" => lastAction = Kind(n)]_vars

\* RuleEditorPanel.qml:36-37: "Clear first so a refetch replaces rather than
\* appends".
RefetchReplaces == \A row \in Row : listed[row] <= 1

\* A bootstrap whose requests are all answered has been reported.
BootstrapIsReported == unreported => gets > 0

\* The page knows the samples whose number and average it shows.
PageKnowsItsSamples == shown => Len(tsList) = Len(points)
=============================================================================
