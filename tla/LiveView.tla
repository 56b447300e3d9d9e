------------------------------ MODULE LiveView ------------------------------
(***************************************************************************)
(* One tile of the dashboard, fed over the reconnecting client (WsClient)  *)
(* by two sources that do not know of each other: what the API pushes      *)
(* (LivePush) and the list of latest readings that the dashboard asks for  *)
(* whenever it is connected (main.cpp).                                    *)
(*                                                                         *)
(* The readings of the tile's sensor are numbered in the order they were   *)
(* taken, which is the order they are stored in.                           *)
(***************************************************************************)
EXTENDS WsClient

CONSTANTS
    Requests,       \* bound: lists that can be in flight at once
    Idle, Asked,    \* a request that is not made, and one that is not served
    Failed,         \* the answer to a list that could not be had
    NoCursor,       \* std::nullopt
    MaxReadings     \* bound: readings

ASSUME ViewAssumption ==
    /\ MaxReadings \in Nat /\ {Idle, Asked, Failed, NoCursor} \cap Nat = {}
    /\ Asked # Idle /\ Failed \notin {Idle, Asked}

Answers == 0..MaxReadings \cup {Failed}

VARIABLES
    stored,     \* the last one in the table
    bridged,    \* the last one MqttBridge has handed on
    polled,     \* the one the poll cursor is at, or NoCursor
    wire,       \* what was pushed on this connection and not read
    list,       \* the state of each request: idle, asked, or its answer
    tile,       \* the reading shown, 0 for none
    reached,    \* history: the newest reading ever shown
    excused     \* history: since the client was connected a list has failed,
                \* or only then was a poll cursor found

serverVars == <<stored, bridged, polled>>
tileVars == <<tile, reached>>
liveVars == <<vars, serverVars, wire, list, tileVars, excused>>

LiveInit ==
    /\ Init
    /\ stored = 0 /\ bridged = 0 /\ polled = 0
    /\ wire = <<>> /\ list = [r \in Requests |-> Idle]
    /\ tile = 0 /\ reached = 0
    /\ excused = FALSE

-----------------------------------------------------------------------------
(* The server, which broadcasts to the connections it has. *)

Pushed(readings) == wire' = IF socket = "open" THEN wire \o readings ELSE wire

Store ==
    /\ stored < MaxReadings
    /\ stored' = stored + 1
    /\ UNCHANGED <<vars, bridged, polled, wire, list, tileVars, excused>>

\* The bridge hands a reading on before it is stored or long after, and misses
\* those published while its subscription is down.
Bridge(n) ==
    /\ bridged < n
    /\ bridged' = n
    /\ Pushed(<<n>>)
    /\ UNCHANGED <<vars, stored, polled, list, tileVars, excused>>

\* The catch-up window of ten seconds is any number of the last readings.
Cursors == 0..stored

\* The API is started again; its first lookup may fail.
Restart ==
    /\ ~reachable /\ socket # "open"
    /\ polled' \in Cursors \cup {NoCursor}
    /\ UNCHANGED <<vars, stored, bridged, wire, list, tileVars, excused>>

\* A tick that has no cursor looks it up.
LookUp ==
    /\ polled = NoCursor
    /\ polled' \in Cursors
    /\ excused' = TRUE
    /\ UNCHANGED <<vars, stored, bridged, wire, list, tileVars>>

Poll ==
    /\ polled # NoCursor /\ polled < stored
    /\ polled' = stored
    /\ Pushed([i \in 1..(stored - polled) |-> polled + i])
    /\ UNCHANGED <<vars, stored, bridged, list, tileVars, excused>>

\* /api/readings/latest is served, or the request ends without an answer, or with
\* the empty list of a statement that failed.
ServeList(r) ==
    /\ list[r] = Asked
    /\ \E a \in {stored, Failed} : list' = [list EXCEPT ![r] = a]
    /\ UNCHANGED <<vars, serverVars, wire, tileVars, excused>>

-----------------------------------------------------------------------------
(* The dashboard. *)

\* updateDevice: the value is taken, whatever it is older than.
Show(n) ==
    /\ tile' = n
    /\ reached' = IF n > reached THEN n ELSE reached

\* Mutant: lists are asked for until one has filled the tile.
ConnectedListingOnce(r) ==
    /\ list[r] = Idle
    /\ OnConnected
    /\ wire' = <<>>
    /\ list' = IF reached = 0 THEN [list EXCEPT ![r] = Asked] ELSE list
    /\ excused' = FALSE
    /\ UNCHANGED <<serverVars, tileVars>>

\* connectedChanged: main.cpp bootstraps.
Connected(r) ==
    /\ list[r] = Idle
    /\ OnConnected
    /\ wire' = <<>>
    /\ list' = [list EXCEPT ![r] = Asked]
    /\ excused' = FALSE
    /\ UNCHANGED <<serverVars, tileVars>>

\* What was pushed and not read is lost with the connection.
Disconnected ==
    /\ OnDisconnected
    /\ wire' = <<>>
    /\ UNCHANGED <<serverVars, list, tileVars, excused>>

\* onReadingReceived.
PushArrives ==
    /\ connected /\ wire # <<>>
    /\ wire' = Tail(wire)
    /\ Show(Head(wire))
    /\ UNCHANGED <<vars, serverVars, list, excused>>

\* The answer of a list; 0 says that the sensor has no reading yet.
ListArrives(r) ==
    /\ list[r] \in Answers
    /\ list' = [list EXCEPT ![r] = Idle]
    /\ IF list[r] \in 1..MaxReadings THEN Show(list[r]) ELSE UNCHANGED tileVars
    /\ excused' = (excused \/ list[r] = Failed)
    /\ UNCHANGED <<vars, serverVars, wire>>

\* Calls and signals of the client that nothing else hears of.
ClientActs ==
    /\ \/ \E enabled \in BOOLEAN : SetAutoReconnect(enabled)
       \/ ConnectToServer \/ DisconnectFromServer \/ TryReconnect \/ ServerChanges
    /\ UNCHANGED <<serverVars, wire, list, tileVars, excused>>

LiveNext ==
    \/ Store \/ Restart \/ LookUp \/ Poll
    \/ \E n \in 1..MaxReadings : Bridge(n)
    \/ \E r \in Requests : ServeList(r) \/ ListArrives(r) \/ Connected(r)
    \/ Disconnected \/ PushArrives \/ ClientActs

\* Qt's event loop: timers fire, and an attempt and a request end.
LiveFairness ==
    /\ WF_liveVars(TryReconnect /\ ClientActs)
    /\ WF_liveVars(\E r \in Requests : Connected(r)) /\ WF_liveVars(Disconnected)
    /\ WF_liveVars(\E r \in Requests : ServeList(r) \/ ListArrives(r))

LiveSpec == LiveInit /\ [][LiveNext]_liveVars /\ LiveFairness

-----------------------------------------------------------------------------
\* Every variable stays in the set of values the code can give it.
LiveTypeOK ==
    /\ bridged \in 0..MaxReadings /\ stored \in 0..MaxReadings /\ polled \in 0..stored \cup {NoCursor}
    /\ wire \in Seq(1..MaxReadings)
    /\ list \in [Requests -> Answers \cup {Idle, Asked}]
    /\ tile \in 0..MaxReadings /\ reached \in tile..MaxReadings
    /\ excused \in BOOLEAN

\* The list asked for on a connection and what that connection carries leave no
\* gap, though the two answer in any order: once the lists are in and the wire is
\* empty, every reading the poll has passed was shown, or a newer one was
\* (main.cpp:119-124, api_server.cpp:98-105).
NoReadingIsMissed ==
    /\ LiveTypeOK
    /\ socket = "open" /\ wire = <<>> /\ (\A r \in Requests : list[r] = Idle) /\ ~excused
         => polled = NoCursor \/ reached >= polled

-----------------------------------------------------------------------------
\* device_model.h: the tile shows the latest value of its sensor.
TileIsLatest ==
    socket = "open" /\ wire = <<>> /\ (\A r \in Requests : list[r] = Idle) => tile = reached
=============================================================================
