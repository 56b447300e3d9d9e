------------------------------ MODULE LivePush ------------------------------
(***************************************************************************)
(* How the API pushes readings and alarms to its WebSocket clients         *)
(* (api_server.cpp): a timer polls both tables above a cursor, which is    *)
(* looked up at the start and, while the lookup fails, at every tick       *)
(* (device_service.cpp, rule_service.cpp), and an MQTT subscription of the *)
(* API's own hands readings from Paho's thread to the event loop.          *)
(*                                                                         *)
(* A reading is named by the id its row has or will have.                  *)
(***************************************************************************)
EXTENDS Listings, Sequences, SequencesExt

CONSTANTS
    Clients,        \* dashboards
    NoCursor,       \* std::nullopt
    MaxReadings,    \* bound: ids of readings
    MaxAlarms,      \* bound: ids of alarms
    MaxFaults       \* bound: statements that fail on a live connection

ASSUME PushAssumption ==
    /\ NoCursor \notin Int
    /\ MaxReadings \in Nat /\ MaxAlarms \in Nat /\ MaxFaults \in Nat

Streams == {"readings", "alarms"}
MaxId(s) == IF s = "readings" THEN MaxReadings ELSE MaxAlarms
Ids(s) == 1..MaxId(s)

VARIABLES
    committed,      \* ids in each table
    nextId,         \* next value of each id sequence
    recent,         \* rows whose timestamp is in the last ten seconds
    alive,          \* does the API run?
    dbUp,           \* its connection, which is never reset
    cursor,         \* last_reading_id_ and last_alarm_id_
    mqtt,           \* the MQTT subscription: down or subscribed
    bridge,         \* readings MqttBridge posted to the event loop
    joined,         \* connections of the broadcaster
    polled,         \* ids the poll sent on each connection, per table
    direct,         \* readings the bridge sent on each connection
    faults,
    arrived,        \* readings MQTT has delivered to this process
    since,          \* history: the cursors when each client joined
    outside         \* history: rows older than the window of the lookup

tableVars == <<committed, nextId, recent>>
apiVars == <<alive, dbUp, cursor>>
mqttVars == <<mqtt, bridge, arrived>>
clientVars == <<joined, polled, direct, since>>
vars == <<tableVars, apiVars, mqttVars, clientVars, faults, outside>>

Above(s, from) == {id \in committed[s] : from < id}

Unset   == [s \in Streams |-> NoCursor]
Nothing == [s \in Streams |-> {}]
NoRows  == [s \in Streams |-> <<>>]

NoClients ==
    /\ joined' = {}
    /\ polled' = [c \in Clients |-> NoRows]
    /\ direct' = [c \in Clients |-> {}]
    /\ since' = [c \in Clients |-> Unset]

Init ==
    /\ committed = Nothing /\ recent = Nothing
    /\ nextId = [s \in Streams |-> 1]
    /\ alive = FALSE /\ dbUp = FALSE /\ cursor = Unset
    /\ mqtt = "down" /\ bridge = <<>> /\ arrived = {}
    /\ joined = {}
    /\ polled = [c \in Clients |-> NoRows]
    /\ direct = [c \in Clients |-> {}]
    /\ since = [c \in Clients |-> Unset]
    /\ faults = 0 /\ outside = Nothing

-----------------------------------------------------------------------------
(* The tables. Each has one writer, so ids follow commit order; a statement *)
(* that failed has still drawn its id.                                      *)

Insert(s, stored) ==
    /\ nextId[s] \in Ids(s)
    /\ nextId' = [nextId EXCEPT ![s] = @ + 1]
    /\ committed' = IF stored THEN [committed EXCEPT ![s] = @ \cup {nextId[s]}] ELSE committed
    \* The timestamp is the device's own.
    /\ \/ UNCHANGED recent
       \/ stored /\ recent' = [recent EXCEPT ![s] = @ \cup {nextId[s]}]
    /\ UNCHANGED <<apiVars, mqttVars, clientVars, faults, outside>>

\* Ten seconds pass.
Age ==
    /\ recent # Nothing
    /\ recent' = Nothing
    /\ UNCHANGED <<committed, nextId, apiVars, mqttVars, clientVars, faults, outside>>

-----------------------------------------------------------------------------
(* The poll. *)

\* Is m what the second statement returns, the greatest id or 0?
IsGreatest(m, s) ==
    /\ IF committed[s] = {} THEN m = 0 ELSE m \in committed[s]
    /\ \A id \in committed[s] : id <= m

\* Is m what reading_poll_cursor or alarm_poll_cursor finds: the id before the
\* rows of the last ten seconds, or the greatest id when there are none?
IsPollCursor(m, s) ==
    IF recent[s] = {} THEN IsGreatest(m, s)
    ELSE m + 1 \in recent[s] /\ \A id \in recent[s] : m < id

\* The cursors a lookup may find, with the statements that failed before.
Found(s) ==
    {[at |-> m, cost |-> 0] : m \in {n \in 0..MaxId(s) : IsPollCursor(n, s)}}
      \cup {[at |-> m, cost |-> 1] : m \in {n \in 0..MaxId(s) : IsGreatest(n, s)}}

\* Mutant: a lookup that failed is taken for id 0.
LookUpsOrZero(s, up) ==
    IF up THEN Found(s) \cup {[at |-> 0, cost |-> 2]} ELSE {[at |-> 0, cost |-> 0]}

\* What a lookup may return, and how many statements failed: the second
\* statement asks for the greatest id, and when it fails too there is no cursor.
LookUps(s, up) ==
    IF up THEN Found(s) \cup {[at |-> NoCursor, cost |-> 2]} ELSE {[at |-> NoCursor, cost |-> 0]}

\* Mutant: only the start looks the cursors up.
CursorsAtStart(s) == {[at |-> cursor[s], cost |-> 0]}

\* The timer looks up a cursor that is not set.
Cursors(s) ==
    IF cursor[s] = NoCursor THEN LookUps(s, dbUp) ELSE {[at |-> cursor[s], cost |-> 0]}

\* readings_after and alarms_after: no rows when the statement fails.
RowsAfter(s, from) ==
    IF from = NoCursor \/ ~dbUp THEN {[rows |-> <<>>, cost |-> 0]}
    ELSE {[rows |-> rows, cost |-> 0] : rows \in InOrder(Above(s, from))}
           \cup {[rows |-> <<>>, cost |-> 1]}

\* Mutant: the cursor moves to the first row.
MovedToFirst(from, rows)  == IF rows = <<>> THEN from ELSE Head(rows)

\* The cursor moves to the last row before any is broadcast.
Moved(from, rows) == IF rows = <<>> THEN from ELSE Last(rows)

\* History: what lay before the window of a lookup that found a cursor.
NoteLookUps(at) ==
    outside' = [s \in Streams |->
                  IF cursor[s] = NoCursor /\ at[s] # NoCursor
                  THEN {id \in committed[s] : \A new \in recent[s] : id < new}
                  ELSE outside[s]]

\* The two-second timer: readings, then alarms. WebSocketBroadcaster::broadcast
\* sends each row to every connection it has.
Tick ==
    /\ alive
    /\ \E lookR \in Cursors("readings"), lookA \in Cursors("alarms") :
       \E readR \in RowsAfter("readings", lookR.at), readA \in RowsAfter("alarms", lookA.at) :
         LET at   == [s \in Streams |-> IF s = "readings" THEN lookR.at ELSE lookA.at]
             rows == [s \in Streams |-> IF s = "readings" THEN readR.rows ELSE readA.rows]
         IN  /\ faults' = faults + lookR.cost + lookA.cost + readR.cost + readA.cost
             /\ faults' <= MaxFaults
             /\ cursor' = [s \in Streams |-> Moved(at[s], rows[s])]
             /\ polled' = [c \in Clients |-> [s \in Streams |->
                             IF c \in joined THEN polled[c][s] \o rows[s] ELSE polled[c][s]]]
             /\ since' = [c \in Clients |-> [s \in Streams |->
                             IF c \in joined /\ since[c][s] = NoCursor THEN at[s] ELSE since[c][s]]]
             /\ NoteLookUps(at)
    /\ UNCHANGED <<tableVars, alive, dbUp, mqttVars, joined, direct>>

-----------------------------------------------------------------------------
(* The API process. *)

\* main connects to the database, which may fail; start subscribes, or there is
\* no broker, and looks both cursors up before any event is handled.
Start ==
    /\ ~alive
    /\ alive' = TRUE
    /\ \E up \in BOOLEAN :
       \E lookR \in LookUps("readings", up), lookA \in LookUps("alarms", up) :
         LET at == [s \in Streams |-> IF s = "readings" THEN lookR.at ELSE lookA.at]
         IN  /\ dbUp' = up
             /\ faults' = faults + lookR.cost + lookA.cost
             /\ faults' <= MaxFaults
             /\ cursor' = at
             /\ NoteLookUps(at)
    /\ mqtt' \in {"down", "subscribed"}
    /\ UNCHANGED <<tableVars, bridge, arrived, clientVars>>

\* The process ends, and every connection with it.
Stop ==
    /\ alive
    /\ alive' = FALSE /\ dbUp' = FALSE
    /\ cursor' = Unset /\ outside' = Nothing
    /\ mqtt' = "down" /\ bridge' = <<>> /\ arrived' = {}
    /\ NoClients
    /\ UNCHANGED <<tableVars, faults>>

LoseDatabase ==
    /\ dbUp
    /\ dbUp' = FALSE
    /\ UNCHANGED <<tableVars, alive, cursor, mqttVars, clientVars, faults, outside>>

-----------------------------------------------------------------------------
(* MQTT. *)

\* MqttBridge::message_arrived on Paho's thread.
MessageArrived(id) ==
    /\ mqtt = "subscribed" /\ id \notin arrived
    /\ arrived' = arrived \cup {id}
    /\ bridge' = Append(bridge, id)
    /\ UNCHANGED <<tableVars, apiVars, mqtt, clientVars, faults, outside>>

\* The event loop runs what the bridge posted.
BroadcastReading ==
    /\ bridge # <<>>
    /\ bridge' = Tail(bridge)
    /\ direct' = [c \in Clients |-> IF c \in joined THEN direct[c] \cup {Head(bridge)} ELSE direct[c]]
    /\ UNCHANGED <<tableVars, apiVars, mqtt, arrived, joined, polled, since,
                   faults, outside>>

\* connection_lost only logs. Paho connects again by itself, with a clean
\* session: the subscription of connect_mqtt is not made again, and readings
\* come from the poll alone.
MqttLost ==
    /\ mqtt = "subscribed"
    /\ mqtt' = "down"
    /\ UNCHANGED <<tableVars, apiVars, bridge, arrived, clientVars, faults, outside>>

-----------------------------------------------------------------------------
(* WebSocket connections. *)

Join(c) ==
    /\ alive /\ c \notin joined
    /\ joined' = joined \cup {c}
    /\ since' = [since EXCEPT ![c] = cursor]
    /\ UNCHANGED <<tableVars, apiVars, mqttVars, polled, direct, faults, outside>>

Leave(c) ==
    /\ c \in joined
    /\ joined' = joined \ {c}
    /\ polled' = [polled EXCEPT ![c] = NoRows]
    /\ direct' = [direct EXCEPT ![c] = {}]
    /\ since' = [since EXCEPT ![c] = Unset]
    /\ UNCHANGED <<tableVars, apiVars, mqttVars, faults, outside>>

Next ==
    \/ \E s \in Streams, stored \in BOOLEAN : Insert(s, stored)
    \/ Age \/ Tick \/ Start \/ Stop \/ LoseDatabase
    \/ \E id \in Ids("readings") : MessageArrived(id)
    \/ BroadcastReading \/ MqttLost
    \/ \E c \in Clients : Join(c) \/ Leave(c)

\* The timer fires and the event loop runs while the process lives.
Fairness == WF_vars(Tick) /\ WF_vars(BroadcastReading)

Spec == Init /\ [][Next]_vars /\ Fairness
=============================================================================
