------------------------- MODULE AckSyncProperties -------------------------
(***************************************************************************)
(* What the dashboard and the API promise about alarms and their           *)
(* acknowledgements.                                                       *)
(***************************************************************************)
EXTENDS AckSync

\* Every variable stays in the set of values the code can give it.
TypeOK ==
    /\ table \in Lists /\ rows \in Lists
    /\ pushed \in 0..MaxAlarms /\ badge \in 0..MaxAlarms
    /\ link \in {"down", "accepted", "up", "dying"}
    /\ ws \in Seq([id : Alarms, state : RowStates \ {"absent"}])
    /\ queued \subseteq Alarms /\ pending \subseteq Alarms
    /\ cacheOpen \in BOOLEAN /\ booted \in BOOLEAN /\ unlisted \in BOOLEAN
    /\ sent \in Requests /\ replies \in Replies
    /\ faults \in 0..MaxFaults
    /\ owed \subseteq Alarms /\ cleared \subseteq Alarms
    /\ winners \in [Alarms -> Nat]

\* A row says "acked" only when the database does: whatever snapshot, push or
\* answer put it there, and in whatever order they came.
ScreenIsTruthful ==
    \A a \in Alarms :
        /\ rows[a] = "acked" => table[a] = "acked"
        /\ rows[a] # "absent" => table[a] # "absent"

\* What is under way was true when it left: the lists and pushes that have not
\* arrived claim no ack the database does not hold, nor do the answers.
RepliesAreTrue ==
    /\ \A shown \in Lists : replies.list[shown] > 0 =>
          \A a \in Alarms :
             /\ shown[a] = "acked" => table[a] = "acked"
             /\ shown[a] # "absent" => table[a] # "absent"
    /\ \A a \in Alarms : replies.recorded[a] > 0 => table[a] = "acked"

PushesAreTrue ==
    \A i \in DOMAIN ws :
        /\ table[ws[i].id] # "absent"
        /\ ws[i].state = "acked" => table[ws[i].id] = "acked"

\* Of all the acks of one alarm, from this dashboard and from others, at most
\* one is answered with 200 (the WHERE clause of acknowledge_alarm).
OneAckWins == \A a \in Alarms : winners[a] <= 1

\* All of it together: no snapshot, push or answer, whenever it arrives, claims
\* what the database does not hold, and no two claim the same ack.
AckInv == TypeOK /\ ScreenIsTruthful /\ RepliesAreTrue /\ PushesAreTrue /\ OneAckWins

\* An ack the operator gave is in the cache file, on its way, recorded, or the
\* operator was told that it failed (AlarmPanel.qml:357-371 with main.cpp and
\* offline_cache.cpp: the queue is cleared by the answer, not by the request).
NoAckVanishes ==
    \A a \in owed :
        \/ a \in pending
        \/ sent.ack[a] > 0
        \/ replies.recorded[a] > 0 \/ replies.refused[a] > 0

\* An ack leaves the cache file only once the database holds it.
QueueForgetsOnlyRecorded ==
    [][\A a \in pending \ pending' : table[a] = "acked"]_vars

\* The list a new link asks for and the pushes that link carries leave no gap:
\* an alarm that was broadcast is shown, or about to be, unless the operator
\* removed it or the list could not be had (main.cpp:119-123: bootstrap on every
\* connection).
NoAlarmIsMissed ==
    /\ link = "up" /\ ~unlisted
    /\ sent.list = 0
    /\ \A shown \in Lists : replies.list[shown] = 0
    /\ replies.failed = 0
    => \A a \in 1..pushed :
          \/ rows[a] # "absent"
          \/ a \in cleared
          \/ \E i \in DOMAIN ws : ws[i].id = a

\* The dashboard is not restarted for ever, and its link comes back again and
\* again.
KeepsReconnecting == []<><<OnConnected>>_vars /\ <>[][~Restart]_vars

\* Then an ack in a cache that is open reaches the database ...
QueuedAcksAreRecorded ==
    KeepsReconnecting =>
        \A a \in Alarms : (a \in pending /\ cacheOpen) ~> (table[a] = "acked" \/ ~cacheOpen)

\* ... and a row that stale answers have turned back stays right in the end.
ScreenSettles ==
    KeepsReconnecting =>
        \A a \in Alarms : (table[a] = "acked") ~> [](rows[a] # "live")

-----------------------------------------------------------------------------
\* offline_cache.h:27-28: "a queue of alarm acknowledgements made while offline,
\* flushed once the API is reachable again".
QueueIsFlushed ==
    KeepsReconnecting =>
        \A a \in Alarms : (a \in pending) ~> (a \notin pending \/ ~cacheOpen)

\* TopBar.qml:98: "Unacknowledged alarms KPI — pulses while anything is unacked".
BadgePulsesWhileUnacked == Unacknowledged(rows) > 0 => badge > 0

\* AlarmPanel.qml:10-13: "Alarm ids acknowledged while offline and queued for
\* sync": a row that says "queued" has its ack in the queue or on its way.
QueuedRowIsQueued ==
    \A a \in queued :
        rows[a] = "live" => a \in pending \/ sent.ack[a] > 0
                              \/ replies.recorded[a] > 0 \/ replies.refused[a] > 0
=============================================================================
