------------------------------ MODULE WsClient ------------------------------
(***************************************************************************)
(* The reconnecting WebSocket client of the dashboard (ws_client.cpp).     *)
(* QWebSocket is external: its disconnected signal ends a connection and a *)
(* connection attempt that failed alike.                                   *)
(***************************************************************************)
EXTENDS Naturals, Sequences

CONSTANT MaxAttempts    \* bound: reconnect_attempt_ saturates here

ASSUME AttemptsAssumption == MaxAttempts \in Nat /\ MaxAttempts >= 6

VARIABLES
    socket,     \* QWebSocket: closed, connecting, open or closing
    connected,  \* connected_
    auto,       \* auto_reconnect_
    manual,     \* manual_disconnect_
    timer,      \* reconnect_timer_: the delay it was started with, 0 when stopped
    attempt,    \* reconnect_attempt_
    reachable,  \* would the server accept a connection now?
    wanted,     \* history: connectToServer came after the last disconnectFromServer
    reenabled   \* history: auto_reconnect_ was turned on with the socket closed

vars == <<socket, connected, auto, manual, timer, attempt, reachable, wanted, reenabled>>

Smaller(a, b) == IF a <= b THEN a ELSE b

\* reconnect_delay_ms: doubled at each attempt, up to half a minute.
Delay(n) ==
    CASE n = 0 -> 1000 [] n = 1 -> 2000 [] n = 2 -> 4000 [] n = 3 -> 8000 [] n = 4 -> 16000
      [] OTHER -> 30000

Init ==
    /\ socket = "closed" /\ connected = FALSE
    /\ auto = FALSE /\ manual = FALSE
    /\ timer = 0 /\ attempt = 0
    /\ reachable \in BOOLEAN
    /\ wanted = FALSE /\ reenabled = FALSE

-----------------------------------------------------------------------------
(* What the program calls. *)

\* Mutant: turning it off leaves a timer running.
SetAutoReconnectKeepingTimer(enabled) ==
    /\ auto # enabled
    /\ auto' = enabled
    /\ reenabled' = (enabled /\ socket = "closed")
    /\ UNCHANGED <<socket, connected, manual, timer, attempt, reachable, wanted>>

SetAutoReconnect(enabled) ==
    /\ auto # enabled
    /\ auto' = enabled
    /\ timer' = IF enabled THEN timer ELSE 0
    /\ reenabled' = (enabled /\ socket = "closed")
    /\ UNCHANGED <<socket, connected, manual, attempt, reachable, wanted>>

\* A call on a socket that still closes is left out: the program does not make it.
ConnectToServer ==
    /\ socket # "closing"
    /\ manual' = FALSE
    /\ timer' = 0
    /\ socket' = IF socket = "closed" THEN "connecting" ELSE socket
    /\ wanted' = TRUE
    /\ reenabled' = FALSE
    /\ UNCHANGED <<connected, auto, attempt, reachable>>

DisconnectFromServer ==
    /\ manual' = TRUE
    /\ timer' = 0
    /\ attempt' = 0
    /\ socket' = IF socket = "closed" THEN "closed" ELSE "closing"
    /\ wanted' = FALSE
    /\ UNCHANGED <<connected, auto, reachable, reenabled>>

-----------------------------------------------------------------------------
(* Signals. *)

\* The single-shot timer fires.
TryReconnect ==
    /\ timer # 0
    /\ timer' = 0
    /\ socket' = IF auto /\ ~manual /\ socket = "closed" THEN "connecting" ELSE socket
    /\ UNCHANGED <<connected, auto, manual, attempt, reachable, wanted, reenabled>>

OnConnected ==
    /\ socket = "connecting" /\ reachable
    /\ socket' = "open"
    /\ attempt' = 0
    /\ timer' = 0
    /\ connected' = TRUE
    /\ UNCHANGED <<auto, manual, reachable, wanted, reenabled>>

\* Mutant: only a connection that was up is retried.
OnDisconnectedIfConnected ==
    /\ socket # "closed"
    /\ socket = "connecting" => ~reachable
    /\ socket' = "closed"
    /\ connected' = FALSE
    /\ IF connected /\ auto /\ ~manual
       THEN /\ timer' = Delay(attempt)
            /\ attempt' = Smaller(attempt + 1, MaxAttempts)
       ELSE UNCHANGED <<timer, attempt>>
    /\ reenabled' = FALSE
    /\ UNCHANGED <<auto, manual, reachable, wanted>>

OnDisconnected ==
    /\ socket # "closed"
    /\ socket = "connecting" => ~reachable
    /\ socket' = "closed"
    /\ connected' = FALSE
    /\ IF auto /\ ~manual
       THEN /\ timer' = Delay(attempt)
            /\ attempt' = Smaller(attempt + 1, MaxAttempts)
       ELSE UNCHANGED <<timer, attempt>>
    /\ reenabled' = FALSE
    /\ UNCHANGED <<auto, manual, reachable, wanted>>

\* The server goes and comes back.
ServerChanges ==
    /\ reachable' = ~reachable
    /\ UNCHANGED <<socket, connected, auto, manual, timer, attempt, wanted, reenabled>>

Next ==
    \/ \E enabled \in BOOLEAN : SetAutoReconnect(enabled)
    \/ ConnectToServer \/ DisconnectFromServer
    \/ TryReconnect \/ OnConnected \/ OnDisconnected \/ ServerChanges

\* Qt's event loop: timers fire, and an attempt ends.
Fairness == WF_vars(TryReconnect) /\ WF_vars(OnConnected) /\ WF_vars(OnDisconnected)

Spec == Init /\ [][Next]_vars /\ Fairness

-----------------------------------------------------------------------------
\* Every variable stays in the set of values the code can give it.
TypeOK ==
    /\ socket \in {"closed", "connecting", "open", "closing"}
    /\ connected \in BOOLEAN /\ auto \in BOOLEAN /\ manual \in BOOLEAN
    /\ timer \in Nat
    /\ attempt \in 0..MaxAttempts
    /\ reachable \in BOOLEAN /\ wanted \in BOOLEAN /\ reenabled \in BOOLEAN

\* A client that is wanted, closed and set to reconnect has its timer running,
\* unless it was set to reconnect only after its socket had closed
\* (ws_client.cpp:46-53, 93-105, 133-144).
KeepsTrying ==
    wanted /\ auto /\ socket = "closed" => timer # 0 \/ reenabled

\* The invariant of the client: its two ideas of being connected agree, a timer
\* only runs for a closed socket of a client that may reconnect, with the delay of
\* the failures in a row that it counts, and a client that should come back does.
ClientInv ==
    /\ TypeOK
    /\ connected => socket \in {"open", "closing"}
    /\ timer # 0 =>
          /\ socket = "closed" /\ auto /\ ~manual
          /\ attempt > 0 /\ timer = Delay(attempt - 1)
    /\ wanted => ~manual
    /\ KeepsTrying

\* While the server stays reachable and the client is wanted and set to
\* reconnect, it is connected again and again, however often the link breaks.
ConnectsInTheEnd ==
    <>[](reachable /\ wanted /\ auto /\ ~reenabled) => []<>connected
=============================================================================
