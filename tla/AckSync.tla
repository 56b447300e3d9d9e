------------------------------ MODULE AckSync ------------------------------
(***************************************************************************)
(* Alarm acknowledgements between a dashboard and the API: the operator's  *)
(* click (AlarmPanel.qml), the queue of acks made offline                  *)
(* (offline_cache.cpp), the requests of ApiClient, the API's UPDATE of     *)
(* alarms (rule_service.cpp), the alarm rows of the dashboard              *)
(* (alarm_model.cpp) and the wiring of ui/app/main.cpp and Main.qml.       *)
(*                                                                         *)
(* Requests of one dashboard travel over several HTTP connections: the API *)
(* takes them, and the dashboard receives the replies, in any order.       *)
(* Pushes of the WebSocket arrive in order and die with their socket.      *)
(***************************************************************************)
EXTENDS Naturals, Sequences, FiniteSets, Functions

CONSTANTS
    MaxAlarms,      \* alarms the engine raises
    MaxInFlight,    \* requests of the dashboard that have not been answered
    MaxFaults       \* lost requests and replies, and statements that fail

ASSUME AckAssumption ==
    /\ MaxAlarms \in Nat \ {0}
    /\ MaxInFlight \in Nat \ {0}
    /\ MaxFaults \in Nat

VARIABLES
    table,      \* the alarms table: absent, live or acked
    pushed,     \* last alarm id the API has broadcast
    link,       \* the WebSocket: down, accepted (API only), up, dying (dashboard only)
    ws,         \* pushes on their way to the dashboard
    rows,       \* AlarmModel::alarms_: absent, live or acked
    badge,      \* Main.qml alarmCount
    queued,     \* AlarmPanel.qml queuedAckIds
    cacheOpen,  \* OfflineCache::open_
    pending,    \* pending_acks of the cache file
    booted,     \* the 300 ms bootstrap of the process has run
    sent,       \* how many requests the API has not taken yet
    replies,    \* how many replies the dashboard has not handled yet
    faults,
    owed,       \* history: acks given and neither answered nor reported as failed
    winners,    \* history: how often an ack of each alarm was answered with 200
    cleared,    \* history: rows the operator removed
    unlisted    \* history: a list of alarms asked for on this link failed

serverVars == <<table, pushed>>
linkVars   == <<link, ws>>
screenVars == <<rows, badge, queued>>
cacheVars  == <<cacheOpen, pending>>
netVars    == <<sent, replies>>
historyVars == <<owed, winners, cleared, unlisted>>
vars == <<serverVars, linkVars, screenVars, cacheVars, booted, netVars, faults, historyVars>>

Alarms == 1..MaxAlarms
RowStates == {"absent", "live", "acked"}
NoRows == [a \in Alarms |-> "absent"]

Lists == [Alarms -> RowStates]

\* Requests are lists, and acks of an alarm. A list is answered with what it
\* shows, an ack with 200 (recorded) or an error (refused).
Requests == [list : Nat, ack : [Alarms -> Nat]]
Replies  == [list : [Lists -> Nat], failed : Nat,
             recorded : [Alarms -> Nat], refused : [Alarms -> Nat]]

NoAcks     == [a \in Alarms |-> 0]
NoRequests == [list |-> 0, ack |-> NoAcks]
NoReplies  == [list |-> [shown \in Lists |-> 0], failed |-> 0,
               recorded |-> NoAcks, refused |-> NoAcks]

Total(count) == FoldFunction(+, 0, count)
InFlight == sent.list + Total(sent.ack) + Total(replies.list) + replies.failed
              + Total(replies.recorded) + Total(replies.refused)

\* WsClient::connected_, and whether the API's broadcaster knows the socket.
Connected  == link \in {"up", "dying"}
Registered == link \in {"accepted", "up"}

Unacknowledged(shown) == Cardinality({a \in Alarms : shown[a] = "live"})

\* The queue of OfflineCache, a table of the cache file with one row per alarm.
\* A cache that did not open ignores every call.
PendingAcks == IF cacheOpen THEN pending ELSE {}
QueueAck(a) == pending' = IF cacheOpen THEN pending \cup {a} ELSE pending
ClearAck(a) == pending' = IF cacheOpen THEN pending \ {a} ELSE pending

Init ==
    /\ table = NoRows /\ pushed = 0
    /\ link = "down" /\ ws = <<>>
    /\ rows = NoRows /\ badge = 0 /\ queued = {}
    /\ cacheOpen \in BOOLEAN /\ pending = {}
    /\ booted = FALSE
    /\ sent = NoRequests /\ replies = NoReplies
    /\ faults = 0
    /\ owed = {} /\ cleared = {} /\ unlisted = FALSE
    /\ winners = [a \in Alarms |-> 0]

-----------------------------------------------------------------------------
(* The database and the API. *)

\* The engine inserts an alarm.
RaiseAlarm ==
    \E a \in Alarms :
        /\ table[a] = "absent"
        /\ \A b \in 1..(a - 1) : table[b] # "absent"
        /\ table' = [table EXCEPT ![a] = "live"]
        /\ UNCHANGED <<pushed, linkVars, screenVars, cacheVars, booted, netVars, faults, historyVars>>

\* Another dashboard, a gRPC client, or a request of a dashboard that has died
\* acknowledges an alarm.
OtherClientAcks ==
    \E a \in Alarms :
        /\ table[a] = "live"
        /\ table' = [table EXCEPT ![a] = "acked"]
        /\ winners' = [winners EXCEPT ![a] = @ + 1]
        /\ UNCHANGED <<pushed, linkVars, screenVars, cacheVars, booted, netVars, faults,
                       owed, cleared, unlisted>>

\* Alarms above the cursor are broadcast as they stand in the table now; ids
\* are serial, so that they are all up to the last one.
NewAlarms(last) ==
    [i \in 1..(last - pushed) |-> [id |-> pushed + i, state |-> table[pushed + i]]]

PollAlarms ==
    \E last \in Alarms :
        /\ last > pushed
        /\ table[last] # "absent"
        /\ \A a \in Alarms : a > last => table[a] = "absent"
        /\ pushed' = last
        /\ ws' = IF Registered THEN ws \o NewAlarms(last) ELSE ws
        /\ UNCHANGED <<table, link, screenVars, cacheVars, booted, netVars, faults, historyVars>>

\* GET /api/alarms. A statement that fails is answered with an empty list.
HandleList ==
    /\ sent.list > 0
    /\ sent' = [sent EXCEPT !.list = @ - 1]
    /\ \/ /\ replies' = [replies EXCEPT !.list[table] = @ + 1]
          /\ UNCHANGED <<faults, unlisted>>
       \/ /\ faults < MaxFaults
          /\ faults' = faults + 1
          /\ replies' = [replies EXCEPT !.list[NoRows] = @ + 1]
          /\ unlisted' = TRUE
    /\ UNCHANGED <<serverVars, linkVars, screenVars, cacheVars, booted, owed, winners, cleared>>

\* acknowledge_alarm: true when exactly one unacknowledged row changed. A
\* statement that fails is answered like an alarm that is not there.
AcknowledgeAlarm(a) ==
    \/ /\ table[a] = "live"
       /\ table' = [table EXCEPT ![a] = "acked"]
       /\ winners' = [winners EXCEPT ![a] = @ + 1]
       /\ replies' = [replies EXCEPT !.recorded[a] = @ + 1]
       /\ UNCHANGED faults
    \/ /\ table[a] # "live"
       /\ replies' = [replies EXCEPT !.refused[a] = @ + 1]
       /\ UNCHANGED <<table, winners, faults>>
    \/ /\ faults < MaxFaults
       /\ faults' = faults + 1
       /\ replies' = [replies EXCEPT !.refused[a] = @ + 1]
       /\ UNCHANGED <<table, winners>>

HandleAck(a) ==
    /\ sent.ack[a] > 0
    /\ sent' = [sent EXCEPT !.ack[a] = @ - 1]
    /\ AcknowledgeAlarm(a)
    /\ UNCHANGED <<pushed, linkVars, screenVars, cacheVars, booted, owed, cleared, unlisted>>

-----------------------------------------------------------------------------
(* The network. *)

\* A request does not reach the API, or its reply does not reach the
\* dashboard: the reply finishes with an error.
LoseRequest ==
    /\ faults < MaxFaults
    /\ faults' = faults + 1
    /\ \/ /\ sent.list > 0
          /\ sent' = [sent EXCEPT !.list = @ - 1]
          /\ replies' = [replies EXCEPT !.failed = @ + 1]
       \/ \E a \in Alarms :
             /\ sent.ack[a] > 0
             /\ sent' = [sent EXCEPT !.ack[a] = @ - 1]
             /\ replies' = [replies EXCEPT !.refused[a] = @ + 1]
    /\ UNCHANGED <<serverVars, linkVars, screenVars, cacheVars, booted, historyVars>>

LoseReply ==
    /\ faults < MaxFaults
    /\ faults' = faults + 1
    /\ \/ \E shown \in Lists :
             /\ replies.list[shown] > 0
             /\ replies' = [replies EXCEPT !.list[shown] = @ - 1, !.failed = @ + 1]
       \/ \E a \in Alarms :
             /\ replies.recorded[a] > 0
             /\ replies' = [replies EXCEPT !.recorded[a] = @ - 1, !.refused[a] = @ + 1]
    /\ UNCHANGED <<serverVars, linkVars, screenVars, cacheVars, booted, sent, historyVars>>

\* The API's side of the handshake: on_new_websocket_connection.
Accept ==
    /\ link = "down"
    /\ link' = "accepted"
    /\ UNCHANGED <<serverVars, ws, screenVars, cacheVars, booted, netVars, faults, historyVars>>

\* The socket dies: the API drops it from its broadcaster, and what was pushed
\* is lost. The dashboard learns of it later.
LoseSocket ==
    /\ Registered
    /\ link' = IF link = "up" THEN "dying" ELSE "down"
    /\ ws' = <<>>
    /\ UNCHANGED <<serverVars, screenVars, cacheVars, booted, netVars, faults, historyVars>>

-----------------------------------------------------------------------------
(* The dashboard. *)

\* The connectedChanged handler of main.cpp: bootstrap, then the queued acks.
FlushedAcks == [a \in Alarms |-> IF a \in PendingAcks THEN sent.ack[a] + 1 ELSE sent.ack[a]]

\* Mutants: a connection that only flushes, and one that only asks for the list.
OnConnectedFlushing ==
    /\ link = "accepted"
    /\ InFlight + 1 + Cardinality(PendingAcks) <= MaxInFlight
    /\ link' = "up"
    /\ sent' = [sent EXCEPT !.ack = FlushedAcks]
    /\ unlisted' = FALSE
    /\ UNCHANGED <<serverVars, ws, screenVars, cacheVars, booted, replies, faults,
                   owed, winners, cleared>>

OnConnectedListing ==
    /\ link = "accepted"
    /\ InFlight < MaxInFlight
    /\ link' = "up"
    /\ sent' = [sent EXCEPT !.list = @ + 1]
    /\ unlisted' = FALSE
    /\ UNCHANGED <<serverVars, ws, screenVars, cacheVars, booted, replies, faults,
                   owed, winners, cleared>>

OnConnected ==
    /\ link = "accepted"
    /\ InFlight + 1 + Cardinality(PendingAcks) <= MaxInFlight
    /\ link' = "up"
    /\ sent' = [list |-> sent.list + 1, ack |-> FlushedAcks]
    /\ unlisted' = FALSE
    /\ UNCHANGED <<serverVars, ws, screenVars, cacheVars, booted, replies, faults,
                   owed, winners, cleared>>

OnDisconnected ==
    /\ link = "dying"
    /\ link' = "down"
    /\ UNCHANGED <<serverVars, ws, screenVars, cacheVars, booted, netVars, faults, historyVars>>

\* The bootstrap 300 ms after the start, whatever the link.
StartupBootstrap ==
    /\ ~booted /\ InFlight < MaxInFlight
    /\ booted' = TRUE
    /\ sent' = [sent EXCEPT !.list = @ + 1]
    /\ UNCHANGED <<serverVars, linkVars, screenVars, cacheVars, replies, faults, historyVars>>

\* Mutants: a click offline is only remembered by the panel; a click turns the
\* row at once.
ClickWithoutQueue ==
    \E a \in Alarms :
        /\ rows[a] = "live" /\ a \notin queued
        /\ IF Connected THEN InFlight < MaxInFlight /\ sent' = [sent EXCEPT !.ack[a] = @ + 1]
                        ELSE UNCHANGED sent
        /\ queued' = IF Connected THEN queued ELSE queued \cup {a}
        /\ owed' = owed \cup {a}
        /\ UNCHANGED <<serverVars, linkVars, rows, badge, cacheVars, booted, replies, faults,
                       winners, cleared, unlisted>>

ClickTurnsTheRow ==
    \E a \in Alarms :
        /\ rows[a] = "live" /\ a \notin queued
        /\ Connected /\ InFlight < MaxInFlight
        /\ sent' = [sent EXCEPT !.ack[a] = @ + 1]
        /\ rows' = [rows EXCEPT ![a] = "acked"]
        /\ owed' = owed \cup {a}
        /\ UNCHANGED <<serverVars, linkVars, queued, badge, cacheVars, booted, replies, faults,
                       winners, cleared, unlisted>>

\* The Acknowledge button: shown on live rows that are not queued.
Click ==
    \E a \in Alarms :
        /\ rows[a] = "live" /\ a \notin queued
        /\ IF Connected
           THEN /\ InFlight < MaxInFlight
                /\ sent' = [sent EXCEPT !.ack[a] = @ + 1]
                /\ UNCHANGED <<queued, pending>>
           ELSE /\ queued' = queued \cup {a}
                /\ QueueAck(a)
                /\ UNCHANGED sent
        /\ owed' = IF Connected \/ cacheOpen THEN owed \cup {a} ELSE owed
        /\ UNCHANGED <<serverVars, linkVars, rows, badge, cacheOpen, booted, replies, faults,
                       winners, cleared, unlisted>>

\* AlarmModel::add_alarm for each row of a list, newest first. A row that is
\* known is overwritten; only a new one emits alarmAdded, where Main.qml counts.
Merged(shown) == [a \in Alarms |-> IF shown[a] = "absent" THEN rows[a] ELSE shown[a]]

BadgeAfter(shown) ==
    LET added == {a \in Alarms : rows[a] = "absent" /\ shown[a] # "absent"}
        last  == CHOOSE a \in added : \A b \in added : a <= b
    IN  IF added = {} THEN badge
        ELSE Unacknowledged([a \in Alarms |-> IF a >= last THEN Merged(shown)[a] ELSE rows[a]])

ShowAlarms(shown) ==
    /\ rows' = Merged(shown)
    /\ badge' = BadgeAfter(shown)
    /\ cleared' = {a \in cleared : shown[a] = "absent"}

ReceiveList(shown) ==
    /\ replies.list[shown] > 0
    /\ replies' = [replies EXCEPT !.list[shown] = @ - 1]
    /\ ShowAlarms(shown)
    /\ UNCHANGED <<serverVars, linkVars, queued, cacheVars, booted, sent, faults,
                   owed, winners, unlisted>>

ReceiveFailure ==
    /\ replies.failed > 0
    /\ replies' = [replies EXCEPT !.failed = @ - 1]
    /\ unlisted' = TRUE
    /\ UNCHANGED <<serverVars, linkVars, screenVars, cacheVars, booted, sent, faults,
                   owed, winners, cleared>>

\* alarmReceived of WsClient.
ReceivePush ==
    /\ Connected /\ ws # <<>>
    /\ ws' = Tail(ws)
    /\ ShowAlarms([NoRows EXCEPT ![Head(ws).id] = Head(ws).state])
    /\ UNCHANGED <<serverVars, link, queued, cacheVars, booted, netVars, faults,
                   owed, winners, unlisted>>

\* AlarmModel::acknowledge: a row that is there turns, and its signal updates
\* the badge and the panel.
Acknowledge(a) ==
    IF rows[a] = "absent" THEN UNCHANGED screenVars
    ELSE /\ rows' = [rows EXCEPT ![a] = "acked"]
         /\ badge' = Unacknowledged(rows')
         /\ queued' = queued \ {a}

\* alarmAckSucceeded is connected to the model and to the cache.
AckSucceeded(a) ==
    /\ Acknowledge(a)
    /\ ClearAck(a)
    /\ owed' = owed \ {a}

\* Mutant: any answer clears the queue.
AckFailedClearing(a) ==
    /\ ClearAck(a)
    /\ owed' = owed \ {a}
    /\ UNCHANGED screenVars

\* requestFailed: the operator sees a message; a queued ack stays queued.
AckFailed(a) ==
    /\ owed' = IF a \in pending THEN owed ELSE owed \ {a}
    /\ UNCHANGED <<screenVars, pending>>

ReceiveAck(a) ==
    /\ \/ /\ replies.recorded[a] > 0
          /\ replies' = [replies EXCEPT !.recorded[a] = @ - 1]
          /\ AckSucceeded(a)
       \/ /\ replies.refused[a] > 0
          /\ replies' = [replies EXCEPT !.refused[a] = @ - 1]
          /\ AckFailed(a)
    /\ UNCHANGED <<serverVars, linkVars, cacheOpen, booted, sent, faults,
                   winners, cleared, unlisted>>

\* "Clear all".
ClearAll ==
    /\ rows # NoRows
    /\ rows' = NoRows
    /\ cleared' = cleared \cup {a \in Alarms : rows[a] # "absent"}
    /\ UNCHANGED <<serverVars, linkVars, badge, queued, cacheVars, booted, netVars, faults,
                   owed, winners, unlisted>>

\* The dashboard ends, in whatever way, and is started again: only the cache
\* file survives, and it may fail to open this time.
Restart ==
    /\ link' = "down" /\ ws' = <<>>
    /\ rows' = NoRows /\ badge' = 0 /\ queued' = {}
    /\ cacheOpen' \in BOOLEAN
    /\ booted' = FALSE
    /\ sent' = NoRequests /\ replies' = NoReplies
    /\ owed' = pending /\ cleared' = {} /\ unlisted' = FALSE
    /\ UNCHANGED <<serverVars, pending, faults, winners>>

-----------------------------------------------------------------------------
\* The dashboard's event loop handles an answer or a push.
Receive ==
    \/ \E shown \in Lists : ReceiveList(shown)
    \/ \E a \in Alarms : ReceiveAck(a)
    \/ ReceiveFailure \/ ReceivePush

Next ==
    \/ RaiseAlarm \/ OtherClientAcks \/ PollAlarms
    \/ HandleList \/ \E a \in Alarms : HandleAck(a)
    \/ LoseRequest \/ LoseReply \/ Accept \/ LoseSocket
    \/ OnConnected \/ OnDisconnected \/ StartupBootstrap \/ Click
    \/ Receive \/ ClearAll \/ Restart

\* The API takes every request that waits; the dashboard handles one after the
\* other, in whatever order they come.
Fairness ==
    /\ WF_vars(HandleList) /\ \A a \in Alarms : WF_vars(HandleAck(a))
    /\ WF_vars(Receive)

Spec == Init /\ [][Next]_vars /\ Fairness
=============================================================================
