-------------------------- MODULE LiveViewProofs --------------------------
(***************************************************************************)
(* The client keeps its promises, alone and under the tile it feeds, and   *)
(* the tile misses no reading, for any number of readings and of lists in  *)
(* flight.                                                                 *)
(***************************************************************************)
EXTENDS LiveView, SequenceTheorems, TLAPS

LEMMA DelayBounds == \A n \in Nat : Delay(n) \in Nat \ {0}
BY DEF Delay

\* The counter may stop where the delays no longer grow.
LEMMA DelayCounted ==
    ASSUME NEW n \in 0..MaxAttempts
    PROVE  /\ Smaller(n + 1, MaxAttempts) \in 1..MaxAttempts
           /\ Delay(n) = Delay(Smaller(n + 1, MaxAttempts) - 1)
<1>1. CASE n < MaxAttempts
  BY <1>1, AttemptsAssumption DEF Smaller
<1>2. CASE n = MaxAttempts
  <2>1. n >= 5 /\ MaxAttempts - 1 >= 5 /\ Smaller(n + 1, MaxAttempts) = MaxAttempts
    BY <1>2, AttemptsAssumption DEF Smaller
  <2> QED
    BY <1>2, <2>1, AttemptsAssumption DEF Delay
<1> QED
  BY <1>1, <1>2, AttemptsAssumption

-----------------------------------------------------------------------------
(* The client. *)

FlagsOK ==
    /\ connected \in BOOLEAN /\ auto \in BOOLEAN /\ manual \in BOOLEAN
    /\ reachable \in BOOLEAN /\ wanted \in BOOLEAN /\ reenabled \in BOOLEAN
SocketOK == socket \in {"closed", "connecting", "open", "closing"}
CountsOK == timer \in Nat /\ attempt \in 0..MaxAttempts

LEMMA TypeParts == TypeOK <=> FlagsOK /\ SocketOK /\ CountsOK
BY Zenon DEF TypeOK, FlagsOK, SocketOK, CountsOK

LEMMA InitialClient == Init => ClientInv
<1> SUFFICES ASSUME Init PROVE ClientInv
  OBVIOUS
<1>1. CountsOK
  BY AttemptsAssumption DEF Init, CountsOK
<1>2. FlagsOK /\ SocketOK
  BY Zenon DEF Init, FlagsOK, SocketOK
<1> QED
  BY <1>1, <1>2, TypeParts DEF Init, ClientInv, KeepsTrying

LEMMA CallsKeep ==
    ASSUME ClientInv,
           \/ \E enabled \in BOOLEAN : SetAutoReconnect(enabled)
           \/ ConnectToServer \/ DisconnectFromServer
    PROVE  ClientInv'
<1>1. FlagsOK /\ SocketOK /\ CountsOK
  BY TypeParts DEF ClientInv
<1>2. 0 \in Nat /\ 0 \in 0..MaxAttempts
  BY AttemptsAssumption
<1>3. CASE \E enabled \in BOOLEAN : SetAutoReconnect(enabled)
  <2>1. PICK enabled \in BOOLEAN : SetAutoReconnect(enabled)
    BY <1>3
  <2>2. FlagsOK' /\ SocketOK' /\ CountsOK'
    BY <1>1, <1>2, <2>1, Zenon DEF FlagsOK, SocketOK, CountsOK, SetAutoReconnect
  <2>3. TypeOK'
    BY <2>1, <2>2, Zenon DEF TypeOK, FlagsOK, SocketOK, CountsOK
  <2> QED
    BY <2>1, <2>2, <2>3 DEF ClientInv, KeepsTrying, SetAutoReconnect
<1>4. CASE ConnectToServer
  <2>1. FlagsOK' /\ CountsOK'
    BY <1>1, <1>2, <1>4, Zenon DEF FlagsOK, CountsOK, ConnectToServer
  <2>2. SocketOK'
    BY <1>1, <1>4 DEF SocketOK, ConnectToServer
  <2>3. TypeOK'
    BY <1>4, <2>1, <2>2, Zenon DEF TypeOK, FlagsOK, SocketOK, CountsOK
  <2> QED
    BY <1>4, <2>1, <2>2, <2>3 DEF ClientInv, KeepsTrying, ConnectToServer
<1>5. CASE DisconnectFromServer
  <2>1. FlagsOK' /\ CountsOK'
    BY <1>1, <1>2, <1>5, Zenon DEF FlagsOK, CountsOK, DisconnectFromServer
  <2>2. SocketOK'
    BY <1>1, <1>5 DEF SocketOK, DisconnectFromServer
  <2>3. TypeOK'
    BY <1>5, <2>1, <2>2, Zenon DEF TypeOK, FlagsOK, SocketOK, CountsOK
  <2> QED
    BY <1>5, <2>1, <2>2, <2>3 DEF ClientInv, KeepsTrying, DisconnectFromServer
<1> QED
  BY <1>3, <1>4, <1>5

LEMMA DisconnectedKeeps == ASSUME ClientInv, OnDisconnected PROVE ClientInv'
<1>1. FlagsOK /\ SocketOK /\ CountsOK
  BY TypeParts DEF ClientInv
<1>2. attempt \in 0..MaxAttempts /\ attempt \in Nat
  BY <1>1, AttemptsAssumption DEF CountsOK
<1>3. /\ Smaller(attempt + 1, MaxAttempts) \in 1..MaxAttempts
      /\ Delay(attempt) = Delay(Smaller(attempt + 1, MaxAttempts) - 1)
  BY <1>2, DelayCounted
<1>4. Delay(attempt) \in Nat \ {0}
  BY <1>2, DelayBounds
<1>5. FlagsOK' /\ SocketOK'
  BY <1>1, Zenon DEF FlagsOK, SocketOK, OnDisconnected
<1>6. CASE auto /\ ~manual
  <2>1. timer' = Delay(attempt) /\ attempt' = Smaller(attempt + 1, MaxAttempts)
    BY <1>6, Zenon DEF OnDisconnected
  <2>2. timer' \in Nat \ {0} /\ attempt' \in 1..MaxAttempts
    BY <1>3, <1>4, <2>1, Zenon
  <2>3. timer' # 0 /\ attempt' > 0 /\ CountsOK'
    BY <2>2, AttemptsAssumption DEF CountsOK
  <2>4. timer' = Delay(attempt' - 1)
    BY <1>3, <2>1, Zenon
  <2>5. TypeOK'
    BY <1>5, <1>6, <2>3, <2>4, Zenon DEF TypeOK, FlagsOK, SocketOK, CountsOK
  <2> QED
    BY <1>5, <1>6, <2>3, <2>4, <2>5, Zenon DEF ClientInv, KeepsTrying, OnDisconnected
<1>7. CASE ~(auto /\ ~manual)
  <2>1. timer' = timer /\ attempt' = attempt
    BY <1>7, Zenon DEF OnDisconnected
  <2>2. CountsOK'
    BY <1>1, <2>1, Zenon DEF CountsOK
  <2>3. TypeOK'
    BY <1>5, <1>7, <2>1, <2>2, Zenon DEF TypeOK, FlagsOK, SocketOK, CountsOK
  <2> QED
    BY <1>5, <1>7, <2>1, <2>2, <2>3, Zenon DEF ClientInv, KeepsTrying, OnDisconnected
<1> QED
  BY <1>6, <1>7

LEMMA SignalsKeep ==
    ASSUME ClientInv, TryReconnect \/ OnConnected \/ ServerChanges
    PROVE  ClientInv'
<1>1. FlagsOK /\ SocketOK /\ CountsOK
  BY TypeParts DEF ClientInv
<1>2. 0 \in Nat /\ 0 \in 0..MaxAttempts
  BY AttemptsAssumption
<1>3. CASE TryReconnect
  <2>1. socket' = "connecting"
    BY <1>3, Zenon DEF ClientInv, TryReconnect
  <2>2. FlagsOK' /\ SocketOK' /\ CountsOK'
    BY <1>1, <1>2, <1>3, <2>1, Zenon DEF FlagsOK, SocketOK, CountsOK, TryReconnect
  <2>3. socket = "closed" /\ timer' = 0
    BY <1>3, Zenon DEF ClientInv, TryReconnect
  <2>4. TypeOK'
    BY <1>3, <2>1, <2>2, <2>3, Zenon DEF TypeOK, FlagsOK, SocketOK, CountsOK
  <2> QED
    BY <1>3, <2>1, <2>2, <2>3, <2>4 DEF ClientInv, KeepsTrying, TryReconnect
<1>4. CASE OnConnected
  <2>1. FlagsOK' /\ SocketOK' /\ CountsOK'
    BY <1>1, <1>2, <1>4, Zenon DEF FlagsOK, SocketOK, CountsOK, OnConnected
  <2>2. TypeOK'
    BY <1>4, <2>1, Zenon DEF TypeOK, FlagsOK, SocketOK, CountsOK
  <2> QED
    BY <1>4, <2>1, <2>2 DEF ClientInv, KeepsTrying, OnConnected
<1>5. CASE ServerChanges
  <2>1. FlagsOK' /\ SocketOK' /\ CountsOK'
    BY <1>1, <1>5, Zenon DEF FlagsOK, SocketOK, CountsOK, ServerChanges
  <2>2. TypeOK'
    BY <1>5, <2>1, Zenon DEF TypeOK, FlagsOK, SocketOK, CountsOK
  <2> QED
    BY <1>5, <2>1, <2>2 DEF ClientInv, KeepsTrying, ServerChanges
<1> QED
  BY <1>3, <1>4, <1>5

LEMMA ClientStutters == ASSUME ClientInv, UNCHANGED vars PROVE ClientInv'
<1>1. TypeOK'
  BY DEF ClientInv, TypeOK, vars
<1> QED
  BY <1>1 DEF ClientInv, KeepsTrying, vars

\* Whatever the program calls and the socket signals, in any order.
THEOREM ClientInvariant == Spec => []ClientInv
<1>1. ClientInv /\ [Next]_vars => ClientInv'
  BY CallsKeep, DisconnectedKeeps, SignalsKeep, ClientStutters DEF Next
<1> QED
  BY <1>1, InitialClient, PTL DEF Spec

-----------------------------------------------------------------------------
(* The tile. A step of the composition is one of the client or leaves it     *)
(* alone; what the poll is past was shown, is on the wire or in an answer,   *)
(* or an answer that will hold it is still to come.                          *)

LEMMA StepOfClient == LiveNext => [Next]_vars
BY DEF LiveNext, Next, Store, Restart, LookUp, Poll, Bridge, ServeList, ListArrives, Connected,
       Disconnected, PushArrives, ClientActs

NothingIsMissing ==
    socket = "open" /\ ~excused /\ polled # NoCursor =>
        \/ reached >= polled
        \/ \E r \in Requests : list[r] \in {Asked, Failed}
        \/ \E r \in Requests : list[r] \in 0..MaxReadings /\ list[r] >= polled
        \/ \E i \in DOMAIN wire : wire[i] >= polled

ViewInv == LiveTypeOK /\ NothingIsMissing

LEMMA InitialView == LiveInit => ViewInv
<1> SUFFICES ASSUME LiveInit PROVE ViewInv
  OBVIOUS
<1>1. wire \in Seq(1..MaxReadings)
  BY EmptySeq DEF LiveInit
<1>2. list \in [Requests -> Answers \cup {Idle, Asked}] /\ excused \in BOOLEAN
  BY Zenon DEF LiveInit
<1>3. /\ bridged \in 0..MaxReadings /\ stored \in 0..MaxReadings /\ polled \in 0..stored
      /\ tile \in 0..MaxReadings /\ reached \in tile..MaxReadings
  BY ViewAssumption DEF LiveInit
<1>4. socket # "open"
  BY DEF LiveInit, Init
<1> QED
  BY <1>1, <1>2, <1>3, <1>4 DEF ViewInv, LiveTypeOK, NothingIsMissing

LEMMA PushedTypes ==
    ASSUME LiveTypeOK, NEW readings \in Seq(1..MaxReadings), Pushed(readings)
    PROVE  /\ wire' \in Seq(1..MaxReadings)
           /\ socket = "open" =>
                 \A n : (\E i \in DOMAIN wire : wire[i] >= n) => \E i \in DOMAIN wire' : wire'[i] >= n
<1>1. CASE socket = "open"
  <2>1. wire' = wire \o readings /\ wire \in Seq(1..MaxReadings)
    BY <1>1 DEF Pushed, LiveTypeOK
  <2>2. wire' \in Seq(1..MaxReadings)
    BY <2>1, ConcatProperties
  <2>3. ASSUME NEW i \in DOMAIN wire PROVE i \in DOMAIN wire' /\ wire'[i] = wire[i]
    BY <2>1, <2>3, ConcatProperties
  <2> QED
    BY <2>2, <2>3
<1>2. CASE socket # "open"
  BY <1>2 DEF Pushed, LiveTypeOK
<1> QED
  BY <1>1, <1>2

LEMMA ServerKeepsView ==
    ASSUME ViewInv,
           \/ Store \/ Restart \/ LookUp \/ Poll \/ \E n \in 1..MaxReadings : Bridge(n)
           \/ \E r \in Requests : ServeList(r)
    PROVE  ViewInv'
<1>1. CASE Store
  <2>1. stored' \in 0..MaxReadings /\ (polled # NoCursor => polled \in 0..stored')
    BY <1>1, ViewAssumption DEF Store, ViewInv, LiveTypeOK
  <2>2. UNCHANGED <<socket, excused, polled, bridged, wire, list, tile, reached>>
    BY <1>1 DEF Store, vars, tileVars
  <2>3. LiveTypeOK'
    BY <2>1, <2>2, ViewAssumption DEF ViewInv, LiveTypeOK
  <2> QED
    BY <2>2, <2>3 DEF ViewInv, NothingIsMissing
<1>2. CASE Restart
  BY <1>2, ViewAssumption DEF Restart, Cursors, ViewInv, LiveTypeOK, NothingIsMissing, vars, tileVars
<1>3. CASE LookUp
  BY <1>3, ViewAssumption DEF LookUp, Cursors, ViewInv, LiveTypeOK, NothingIsMissing, vars, tileVars
<1>4. CASE Poll
  <2> DEFINE rows == [i \in 1..(stored - polled) |-> polled + i]
  <2>1. polled \in Nat /\ stored \in Nat /\ polled < stored /\ stored <= MaxReadings
    BY <1>4, ViewAssumption DEF Poll, ViewInv, LiveTypeOK
  <2>2. rows \in Seq(1..MaxReadings) /\ Len(rows) = stored - polled
    <3>1. stored - polled \in Nat /\ \A i \in 1..(stored - polled) : polled + i \in 1..MaxReadings
      BY <2>1, ViewAssumption
    <3>2. rows \in [1..(stored - polled) -> 1..MaxReadings]
      BY <3>1
    <3>3. rows \in Seq(1..MaxReadings)
      BY <3>1, <3>2, SeqDef
    <3>4. DOMAIN rows = 1..(stored - polled)
      BY <3>2
    <3> HIDE DEF rows
    <3> QED
      BY <3>1, <3>3, <3>4, LenProperties
  <2>3. rows[Len(rows)] = stored /\ Len(rows) > 0
    BY <2>1, <2>2
  <2>4. Pushed(rows) /\ polled' = stored
    BY <1>4 DEF Poll
  <2> HIDE DEF rows
  <2>5. wire' \in Seq(1..MaxReadings)
    BY <2>2, <2>4, PushedTypes DEF ViewInv
  <2>6. LiveTypeOK'
    BY <1>4, <2>1, <2>5 DEF Poll, ViewInv, LiveTypeOK, vars, tileVars
  <2>7. ASSUME socket' = "open" PROVE \E i \in DOMAIN wire' : wire'[i] >= polled'
    <3>1. wire' = wire \o rows /\ wire \in Seq(1..MaxReadings)
      BY <1>4, <2>4, <2>7 DEF Poll, vars, Pushed, ViewInv, LiveTypeOK
    <3>2. Len(wire) + Len(rows) \in DOMAIN wire' /\ wire'[Len(wire) + Len(rows)] = stored
      BY <2>2, <2>3, <3>1, ConcatProperties
    <3> QED
      BY <2>1, <2>4, <3>2
  <2> QED
    BY <2>6, <2>7 DEF ViewInv, NothingIsMissing
<1>5. CASE \E n \in 1..MaxReadings : Bridge(n)
  <2>1. PICK n \in 1..MaxReadings : Bridge(n)
    BY <1>5
  <2>2. <<n>> \in Seq(1..MaxReadings) /\ Pushed(<<n>>)
    BY <2>1 DEF Bridge
  <2> DEFINE row == <<n>>
  <2> HIDE DEF row
  <2>3. /\ wire' \in Seq(1..MaxReadings)
        /\ socket = "open" =>
              \A k : (\E i \in DOMAIN wire : wire[i] >= k) => \E i \in DOMAIN wire' : wire'[i] >= k
    <3>1. row \in Seq(1..MaxReadings) /\ Pushed(row)
      BY <2>2 DEF row
    <3> QED
      BY <3>1, PushedTypes DEF ViewInv
  <2>4. LiveTypeOK'
    BY <2>1, <2>3 DEF Bridge, ViewInv, LiveTypeOK, vars, tileVars
  <2> QED
    BY <2>1, <2>3, <2>4 DEF Bridge, ViewInv, NothingIsMissing, vars, tileVars
<1>6. CASE \E r \in Requests : ServeList(r)
  <2>1. PICK r \in Requests : ServeList(r)
    BY <1>6
  <2>2. PICK a \in {stored, Failed} : list' = [list EXCEPT ![r] = a]
    BY <2>1 DEF ServeList
  <2>3. a \in Answers
    BY <2>2 DEF ViewInv, LiveTypeOK, Answers
  <2>4. UNCHANGED <<vars, serverVars, wire, tileVars, excused>>
    BY <2>1 DEF ServeList
  <2>5. list' \in [Requests -> Answers \cup {Idle, Asked}]
    BY <2>2, <2>3 DEF ViewInv, LiveTypeOK
  <2>6. LiveTypeOK'
    BY <2>4, <2>5 DEF ViewInv, LiveTypeOK, serverVars, tileVars
  <2>7. list'[r] = a /\ \A q \in Requests \ {r} : list'[q] = list[q]
    BY <2>2 DEF ViewInv, LiveTypeOK
  <2>8. CASE a = Failed
    BY <2>6, <2>7, <2>8 DEF ViewInv, NothingIsMissing
  <2>9. CASE a = stored
    <3>1. polled # NoCursor => list'[r] \in 0..MaxReadings /\ list'[r] >= polled
      BY <2>7, <2>9 DEF ViewInv, LiveTypeOK
    <3> QED
      BY <2>4, <2>6, <3>1 DEF ViewInv, NothingIsMissing, serverVars
  <2> QED
    BY <2>2, <2>8, <2>9
<1> QED
  BY <1>1, <1>2, <1>3, <1>4, <1>5, <1>6

LEMMA ShownTypes ==
    ASSUME LiveTypeOK, NEW n \in 0..MaxReadings, Show(n)
    PROVE  /\ tile' \in 0..MaxReadings /\ reached' \in tile'..MaxReadings
           /\ reached' >= reached /\ reached' >= n
BY ViewAssumption DEF Show, LiveTypeOK

LEMMA DashboardKeepsView ==
    ASSUME ViewInv,
           \/ \E r \in Requests : ListArrives(r) \/ Connected(r)
           \/ Disconnected \/ PushArrives \/ ClientActs
    PROVE  ViewInv'
<1>1. CASE \E r \in Requests : ListArrives(r)
  <2>1. PICK r \in Requests : ListArrives(r)
    BY <1>1
  <2>2. /\ list[r] \in Answers /\ list' = [list EXCEPT ![r] = Idle]
        /\ IF list[r] \in 1..MaxReadings THEN Show(list[r]) ELSE UNCHANGED tileVars
        /\ UNCHANGED <<vars, serverVars, wire>>
    BY <2>1 DEF ListArrives
  <2>3. excused' \in BOOLEAN /\ (excused' = FALSE => excused = FALSE /\ list[r] # Failed)
    BY <2>1, Zenon DEF ListArrives, ViewInv, LiveTypeOK
  <2>4. /\ tile' \in 0..MaxReadings /\ reached' \in tile'..MaxReadings /\ reached' >= reached
        /\ list[r] \in 0..MaxReadings => reached' >= list[r]
    <3>1. CASE list[r] \in 1..MaxReadings
      BY <2>2, <3>1, ShownTypes, ViewAssumption DEF ViewInv
    <3>2. CASE list[r] \notin 1..MaxReadings
      BY <2>2, <3>2, ViewAssumption DEF ViewInv, LiveTypeOK, tileVars
    <3> QED
      BY <3>1, <3>2
  <2>5. list' \in [Requests -> Answers \cup {Idle, Asked}]
    BY <2>2 DEF ViewInv, LiveTypeOK
  <2>6. LiveTypeOK'
    BY <2>2, <2>3, <2>4, <2>5 DEF ViewInv, LiveTypeOK, serverVars
  <2>7. \A q \in Requests \ {r} : list'[q] = list[q]
    BY <2>2 DEF ViewInv, LiveTypeOK
  <2>8. ASSUME socket' = "open", ~excused', polled' # NoCursor
        PROVE  \/ reached' >= polled'
               \/ \E q \in Requests : list'[q] \in {Asked, Failed}
               \/ \E q \in Requests : list'[q] \in 0..MaxReadings /\ list'[q] >= polled'
               \/ \E i \in DOMAIN wire' : wire'[i] >= polled'
    <3>1. socket = "open" /\ ~excused /\ polled # NoCursor /\ list[r] # Failed /\ polled' = polled
      BY <2>2, <2>3, <2>8 DEF vars, serverVars
    <3>2. list[r] \in 0..MaxReadings /\ list[r] # Asked
      BY <2>2, <3>1, ViewAssumption DEF Answers
    <3>3. polled \in Nat /\ reached \in Nat /\ reached' \in Nat
      BY <2>4, <3>1, ViewAssumption DEF ViewInv, LiveTypeOK
    <3>4. CASE reached >= polled
      BY <2>4, <3>1, <3>3, <3>4
    <3>5. CASE \E q \in Requests : list[q] \in {Asked, Failed}
      BY <2>7, <3>1, <3>2, <3>5
    <3>6. CASE \E q \in Requests : list[q] \in 0..MaxReadings /\ list[q] >= polled
      BY <2>4, <2>7, <3>1, <3>2, <3>3, <3>6
    <3>7. CASE \E i \in DOMAIN wire : wire[i] >= polled
      BY <2>2, <3>1, <3>7
    <3> QED
      BY <3>1, <3>4, <3>5, <3>6, <3>7 DEF ViewInv, NothingIsMissing
  <2> QED
    BY <2>6, <2>8 DEF ViewInv, NothingIsMissing
<1>2. CASE \E r \in Requests : Connected(r)
  <2>1. PICK r \in Requests : Connected(r)
    BY <1>2
  <2>2. list' = [list EXCEPT ![r] = Asked] /\ wire' = <<>> /\ excused' = FALSE
    BY <2>1 DEF Connected
  <2>3. list' \in [Requests -> Answers \cup {Idle, Asked}] /\ list'[r] = Asked
    BY <2>2 DEF ViewInv, LiveTypeOK
  <2>4. wire' \in Seq(1..MaxReadings)
    BY <2>2, EmptySeq
  <2>5. LiveTypeOK'
    BY <2>1, <2>2, <2>3, <2>4 DEF Connected, ViewInv, LiveTypeOK, serverVars, tileVars
  <2> QED
    BY <2>3, <2>5 DEF ViewInv, NothingIsMissing
<1>3. CASE Disconnected
  <2>1. wire' \in Seq(1..MaxReadings)
    BY <1>3, EmptySeq DEF Disconnected
  <2>2. LiveTypeOK' /\ socket' # "open"
    BY <1>3, <2>1 DEF Disconnected, OnDisconnected, ViewInv, LiveTypeOK, serverVars, tileVars
  <2> QED
    BY <2>2 DEF ViewInv, NothingIsMissing
<1>4. CASE PushArrives
  <2>1. wire \in Seq(1..MaxReadings) /\ wire # <<>> /\ wire' = Tail(wire) /\ Show(Head(wire))
    BY <1>4 DEF PushArrives, ViewInv, LiveTypeOK
  <2>2. /\ Head(wire) \in 1..MaxReadings /\ Head(wire) = wire[1]
        /\ wire' \in Seq(1..MaxReadings) /\ Len(wire') = Len(wire) - 1
        /\ \A i \in 1..Len(wire') : wire'[i] = wire[i + 1]
    <3>1. /\ wire' \in Seq(1..MaxReadings) /\ Len(wire') = Len(wire) - 1
          /\ \A i \in 1..Len(wire') : wire'[i] = wire[i + 1]
      BY <2>1, HeadTailProperties
    <3>2. Head(wire) \in 1..MaxReadings
      BY <2>1, HeadTailProperties
    <3>3. Head(wire) = wire[1]
      BY <2>1
    <3> QED
      BY <3>1, <3>2, <3>3
  <2>3. /\ tile' \in 0..MaxReadings /\ reached' \in tile'..MaxReadings
        /\ reached' >= reached /\ reached' >= wire[1]
    BY <2>1, <2>2, ShownTypes, ViewAssumption DEF ViewInv
  <2>4. LiveTypeOK'
    BY <1>4, <2>2, <2>3 DEF PushArrives, ViewInv, LiveTypeOK, serverVars
  <2>5. UNCHANGED <<socket, excused, polled, list>>
    BY <1>4 DEF PushArrives, vars, serverVars
  <2>6. ASSUME NEW n \in Nat, \E i \in DOMAIN wire : wire[i] >= n
        PROVE  reached' >= n \/ \E i \in DOMAIN wire' : wire'[i] >= n
    <3>1. PICK i \in 1..Len(wire) : wire[i] >= n
      BY <2>1, <2>6
    <3>2. CASE i = 1
      BY <2>2, <2>3, <3>1, <3>2, ViewAssumption
    <3>3. CASE i > 1
      <4>1. i - 1 \in 1..Len(wire') /\ wire'[i - 1] = wire[i] /\ DOMAIN wire' = 1..Len(wire')
        BY <2>1, <2>2, <3>1, <3>3
      <4> QED
        BY <3>1, <4>1
    <3> QED
      BY <3>1, <3>2, <3>3
  <2>7. polled # NoCursor => polled \in Nat /\ reached \in Nat /\ reached' \in Nat
    BY <2>3, ViewAssumption DEF ViewInv, LiveTypeOK
  <2> QED
    BY <2>3, <2>4, <2>5, <2>6, <2>7 DEF ViewInv, NothingIsMissing
<1>5. CASE ClientActs
  <2>1. LiveTypeOK' /\ UNCHANGED <<wire, list, excused, polled, reached>>
    BY <1>5 DEF ClientActs, ViewInv, LiveTypeOK, serverVars, tileVars
  <2>2. socket' = "open" => socket = "open"
    BY <1>5, Zenon DEF ClientActs, SetAutoReconnect, ConnectToServer, DisconnectFromServer,
                       TryReconnect, ServerChanges
  <2> QED
    BY <2>1, <2>2 DEF ViewInv, NothingIsMissing
<1> QED
  BY <1>1, <1>2, <1>3, <1>4, <1>5

LEMMA ViewStutters == ASSUME ViewInv, UNCHANGED liveVars PROVE ViewInv'
BY DEF ViewInv, LiveTypeOK, NothingIsMissing, liveVars, vars, serverVars, tileVars

LEMMA ViewInvariant == LiveSpec => []ViewInv
<1>1. ViewInv /\ [LiveNext]_liveVars => ViewInv'
  BY ServerKeepsView, DashboardKeepsView, ViewStutters DEF LiveNext
<1> QED
  BY <1>1, InitialView, PTL DEF LiveSpec

\* The client keeps its promises when it feeds a tile, and the list and the pushes
\* of a connection leave no gap in what the tile has shown.
THEOREM NothingIsMissed == LiveSpec => []NoReadingIsMissed
<1>1. ViewInv => NoReadingIsMissed
  <2> SUFFICES ASSUME ViewInv,
                      socket = "open", wire = <<>>, \A r \in Requests : list[r] = Idle, ~excused,
                      polled # NoCursor
               PROVE  reached >= polled
    BY DEF NoReadingIsMissed, ViewInv
  <2> QED
    BY ViewAssumption DEF ViewInv, NothingIsMissing
<1> QED
  BY <1>1, ViewInvariant, PTL

THEOREM ClientOfTile == LiveSpec => []ClientInv
<1>1. LiveInit => ClientInv
  BY InitialClient DEF LiveInit
<1>2. ClientInv /\ [LiveNext]_liveVars => ClientInv'
  <2>1. UNCHANGED liveVars => UNCHANGED vars
    BY DEF liveVars
  <2> QED
    BY <2>1, StepOfClient, CallsKeep, DisconnectedKeeps, SignalsKeep, ClientStutters DEF Next
<1> QED
  BY <1>1, <1>2, PTL DEF LiveSpec
=============================================================================
