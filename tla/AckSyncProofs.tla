--------------------------- MODULE AckSyncProofs ---------------------------
(***************************************************************************)
(* The dashboard shows no ack that is not recorded, forgets none, misses   *)
(* no alarm, and one ack wins, for any number of alarms, requests in       *)
(* flight and faults.                                                      *)
(***************************************************************************)
EXTENDS AckSyncProperties, FiniteSetTheorems, SequenceTheorems, TLAPS

\* Ids are serial, and what was broadcast is in the table.
TableIsSerial ==
    /\ \A a, b \in Alarms : b < a /\ table[a] # "absent" => table[b] # "absent"
    /\ \A a \in 1..pushed : table[a] # "absent"

\* An ack is answered with 200 exactly when it turns the row of the table.
WinnersAreRecorded ==
    \A a \in Alarms : winners[a] = IF table[a] = "acked" THEN 1 ELSE 0

\* Why no alarm is missed: while a link is up, an alarm that was broadcast is
\* shown, was removed, is in a push, or is in a list that is still to come.
NoGap ==
    link = "up" /\ ~unlisted =>
        \A a \in 1..pushed :
            \/ rows[a] # "absent" \/ a \in cleared
            \/ \E i \in DOMAIN ws : ws[i].id = a
            \/ sent.list > 0 \/ replies.failed > 0
            \/ \E shown \in Lists : replies.list[shown] > 0 /\ shown[a] # "absent"

\* What every step preserves.
Inv == AckInv /\ TableIsSerial /\ WinnersAreRecorded /\ NoAckVanishes /\ NoGap
Push == [id : Alarms, state : RowStates \ {"absent"}]

-----------------------------------------------------------------------------
(* Lemmas about the operators. *)

\* A count of alarms is within bounds.
LEMMA UnacknowledgedRange ==
  ASSUME NEW shown
  PROVE  Unacknowledged(shown) \in 0..MaxAlarms
<1> DEFINE L == {a \in Alarms : shown[a] = "live"}
<1>1. IsFiniteSet(Alarms) /\ Cardinality(Alarms) = MaxAlarms
  BY FS_Interval, AckAssumption DEF Alarms
<1>2. L \subseteq Alarms
  OBVIOUS
<1>3. IsFiniteSet(L) /\ Cardinality(L) <= Cardinality(Alarms)
  BY <1>1, <1>2, FS_Subset
<1>4. Cardinality(L) \in Nat
  BY <1>3, FS_CardinalityType
<1> QED
  BY <1>1, <1>3, <1>4, AckAssumption DEF Unacknowledged

\* The pushes of one poll: the alarms after the cursor, as the table has them.
LEMMA NewPushes ==
  ASSUME TypeOK, TableIsSerial, NEW last \in Alarms, last > pushed, table[last] # "absent"
  PROVE  /\ NewAlarms(last) \in Seq(Push)
         /\ DOMAIN NewAlarms(last) = 1..(last - pushed)
         /\ \A i \in 1..(last - pushed) :
               /\ pushed + i \in Alarms
               /\ NewAlarms(last)[i].id = pushed + i
               /\ NewAlarms(last)[i].state = table[pushed + i]
               /\ table[pushed + i] # "absent"
<1>1. pushed \in Nat /\ last \in Nat /\ last - pushed \in Nat /\ last <= MaxAlarms
  BY AckAssumption DEF TypeOK, Alarms
<1>2. ASSUME NEW i \in 1..(last - pushed)
      PROVE  pushed + i \in Alarms /\ table[pushed + i] # "absent"
            /\ table[pushed + i] \in RowStates
  <2>1. pushed + i \in Alarms /\ pushed + i <= last
    BY <1>1, AckAssumption DEF Alarms
  <2>2. pushed + i = last \/ pushed + i < last
    BY <1>1, <2>1 DEF Alarms
  <2>3. table[pushed + i] # "absent"
    BY <2>1, <2>2 DEF TableIsSerial
  <2> QED
    BY <2>1, <2>3 DEF TypeOK, Lists
<1>3. \A i \in 1..(last - pushed) :
        [id |-> pushed + i, state |-> table[pushed + i]] \in Push
  BY <1>2 DEF Push
<1>4. NewAlarms(last) \in Seq(Push)
  BY <1>1, <1>3 DEF NewAlarms
<1> QED
  BY <1>2, <1>4 DEF NewAlarms

\* Rows after a list or a push.
LEMMA MergedRows ==
  ASSUME TypeOK, NEW shown \in Lists
  PROVE  /\ Merged(shown) \in Lists
         /\ BadgeAfter(shown) \in 0..MaxAlarms
         /\ {a \in cleared : shown[a] = "absent"} \subseteq Alarms
<1>1. Merged(shown) \in Lists
  BY DEF Merged, Lists, TypeOK
<1>2. BadgeAfter(shown) \in 0..MaxAlarms
  BY UnacknowledgedRange DEF BadgeAfter, TypeOK
<1> QED
  BY <1>1, <1>2 DEF TypeOK

\* The push at the head of the socket, as a list of one alarm.
LEMMA HeadPush ==
  ASSUME TypeOK, ws # <<>>
  PROVE  /\ Head(ws) = ws[1] /\ 1 \in DOMAIN ws
         /\ Head(ws).id \in Alarms /\ Head(ws).state \in RowStates \ {"absent"}
         /\ [NoRows EXCEPT ![Head(ws).id] = Head(ws).state] \in Lists
         /\ Tail(ws) \in Seq(Push)
         /\ \A i \in DOMAIN Tail(ws) : i + 1 \in DOMAIN ws /\ Tail(ws)[i] = ws[i + 1]
         /\ \A i \in DOMAIN ws : i # 1 => i - 1 \in DOMAIN Tail(ws) /\ ws[i] = Tail(ws)[i - 1]
<1>1. ws \in Seq(Push)
  BY DEF TypeOK, Push
<1>2. Head(ws) = ws[1] /\ 1 \in DOMAIN ws /\ Head(ws) \in Push
  BY <1>1
<1>3. Tail(ws) \in Seq(Push) /\ Len(Tail(ws)) = Len(ws) - 1 /\ Len(ws) \in Nat
  BY <1>1
<1>4. DOMAIN ws = 1..Len(ws) /\ DOMAIN Tail(ws) = 1..(Len(ws) - 1)
  BY <1>1, <1>3
<1>5. \A i \in 1..(Len(ws) - 1) : Tail(ws)[i] = ws[i + 1]
  BY <1>1
<1>6. Head(ws).id \in Alarms /\ Head(ws).state \in RowStates \ {"absent"}
  BY <1>2 DEF Push
<1>7. [NoRows EXCEPT ![Head(ws).id] = Head(ws).state] \in Lists
  BY <1>6 DEF NoRows, Lists, RowStates
<1> QED
  BY <1>2, <1>3, <1>4, <1>5, <1>6, <1>7

-----------------------------------------------------------------------------
(* The inductive invariant. *)

LEMMA InitialAcks == Init => Inv
<1> SUFFICES ASSUME Init PROVE Inv
  OBVIOUS
<1>1. NoRows \in Lists /\ NoAcks \in [Alarms -> Nat] /\ winners \in [Alarms -> Nat]
  BY DEF NoRows, Lists, RowStates, NoAcks, Init
<1>2. NoRequests \in Requests /\ NoReplies \in Replies
  BY <1>1 DEF NoRequests, NoReplies, Requests, Replies
<1>3. ws \in Seq([id : Alarms, state : RowStates \ {"absent"}])
  BY EmptySeq DEF Init
<1>4. pushed \in 0..MaxAlarms /\ badge \in 0..MaxAlarms /\ faults \in 0..MaxFaults
  BY AckAssumption DEF Init
<1>5. TypeOK
  BY <1>1, <1>2, <1>3, <1>4 DEF Init, TypeOK
<1>6. \A a \in Alarms : rows[a] = "absent" /\ table[a] = "absent"
  BY DEF Init, NoRows
<1>7. ScreenIsTruthful
  BY <1>6 DEF ScreenIsTruthful
<1>8. /\ \A shown \in Lists : replies.list[shown] = 0
      /\ \A a \in Alarms : replies.recorded[a] = 0
  BY DEF Init, NoReplies, NoAcks
<1>9. DOMAIN ws = {}
  BY DEF Init
<1>10. AckInv
  <2>1. OneAckWins
    BY DEF OneAckWins, Init
  <2> QED
    BY <1>5, <1>7, <1>8, <1>9, <2>1 DEF AckInv, RepliesAreTrue, PushesAreTrue
<1>11. TableIsSerial
  BY <1>6 DEF TableIsSerial, Init
<1>12. WinnersAreRecorded
  BY <1>6 DEF WinnersAreRecorded, Init
<1>13. NoAckVanishes /\ NoGap
  BY DEF NoAckVanishes, NoGap, Init
<1> QED
  BY <1>10, <1>11, <1>12, <1>13 DEF Inv

\* No step removes an alarm from the table or takes an ack back.
LEMMA TableGrows ==
  ASSUME TypeOK, Next
  PROVE  \A a \in Alarms : /\ table[a] # "absent" => table'[a] # "absent"
                           /\ table[a] = "acked" => table'[a] = "acked"
<1>1. ASSUME NEW b \in Alarms, table' = [table EXCEPT ![b] = "acked"], table[b] = "live"
      PROVE  \A a \in Alarms : /\ table[a] # "absent" => table'[a] # "absent"
                               /\ table[a] = "acked" => table'[a] = "acked"
  BY <1>1 DEF TypeOK, Lists
<1>2. CASE RaiseAlarm
  BY <1>2 DEF RaiseAlarm, TypeOK, Lists
<1>3. CASE OtherClientAcks
  BY <1>1, <1>3 DEF OtherClientAcks
<1>4. ASSUME NEW b \in Alarms, HandleAck(b)
      PROVE  \A a \in Alarms : /\ table[a] # "absent" => table'[a] # "absent"
                               /\ table[a] = "acked" => table'[a] = "acked"
  BY <1>1, <1>4 DEF HandleAck, AcknowledgeAlarm
<1>5. CASE UNCHANGED table
  BY <1>5
<1>6. PollAlarms \/ HandleList \/ LoseRequest \/ LoseReply => UNCHANGED table
  BY DEF PollAlarms, HandleList, LoseRequest, LoseReply, serverVars
<1>7. Accept \/ LoseSocket \/ OnConnected \/ OnDisconnected \/ StartupBootstrap => UNCHANGED table
  BY DEF Accept, LoseSocket, OnConnected, OnDisconnected, StartupBootstrap, serverVars
<1>8. Click \/ Receive \/ ClearAll \/ Restart => UNCHANGED table
  BY DEF Click, Receive, ReceiveList, ReceiveAck, ReceiveFailure, ReceivePush, ClearAll, Restart,
         serverVars
<1> QED
  BY <1>2, <1>3, <1>4, <1>5, <1>6, <1>7, <1>8 DEF Next

\* Requests and replies stay counts.
LEMMA RequestsCount ==
  ASSUME TypeOK
  PROVE  /\ [sent EXCEPT !.list = @ + 1] \in Requests
         /\ sent.list > 0 => [sent EXCEPT !.list = @ - 1] \in Requests
         /\ [list |-> sent.list + 1, ack |-> FlushedAcks] \in Requests
         /\ \A a \in Alarms : /\ [sent EXCEPT !.ack[a] = @ + 1] \in Requests
                              /\ sent.ack[a] > 0 => [sent EXCEPT !.ack[a] = @ - 1] \in Requests
<1>1. sent.list \in Nat /\ sent.ack \in [Alarms -> Nat] /\ sent \in Requests
  BY DEF TypeOK, Requests
<1>2. FlushedAcks \in [Alarms -> Nat]
  BY <1>1 DEF FlushedAcks
<1> QED
  BY <1>1, <1>2 DEF Requests

LEMMA RepliesCount ==
  ASSUME TypeOK
  PROVE  /\ [replies EXCEPT !.failed = @ + 1] \in Replies
         /\ replies.failed > 0 => [replies EXCEPT !.failed = @ - 1] \in Replies
         /\ \A shown \in Lists :
              /\ [replies EXCEPT !.list[shown] = @ + 1] \in Replies
              /\ replies.list[shown] > 0 =>
                   /\ [replies EXCEPT !.list[shown] = @ - 1] \in Replies
                   /\ [replies EXCEPT !.list[shown] = @ - 1, !.failed = @ + 1] \in Replies
         /\ \A a \in Alarms :
              /\ [replies EXCEPT !.recorded[a] = @ + 1] \in Replies
              /\ [replies EXCEPT !.refused[a] = @ + 1] \in Replies
              /\ replies.refused[a] > 0 => [replies EXCEPT !.refused[a] = @ - 1] \in Replies
              /\ replies.recorded[a] > 0 =>
                   /\ [replies EXCEPT !.recorded[a] = @ - 1] \in Replies
                   /\ [replies EXCEPT !.recorded[a] = @ - 1, !.refused[a] = @ + 1] \in Replies
<1>1. /\ replies \in Replies /\ replies.list \in [Lists -> Nat] /\ replies.failed \in Nat
      /\ replies.recorded \in [Alarms -> Nat] /\ replies.refused \in [Alarms -> Nat]
  BY DEF TypeOK, Replies
<1>2. /\ [replies EXCEPT !.failed = @ + 1] \in Replies
      /\ replies.failed > 0 => [replies EXCEPT !.failed = @ - 1] \in Replies
  BY <1>1 DEF Replies
<1>3. ASSUME NEW shown \in Lists
      PROVE  /\ [replies EXCEPT !.list[shown] = @ + 1] \in Replies
             /\ replies.list[shown] > 0 =>
                  /\ [replies EXCEPT !.list[shown] = @ - 1] \in Replies
                  /\ [replies EXCEPT !.list[shown] = @ - 1, !.failed = @ + 1] \in Replies
  <2>1. replies.list[shown] \in Nat
    BY <1>1
  <2>2. [replies.list EXCEPT ![shown] = @ + 1] \in [Lists -> Nat]
    BY <1>1, <2>1
  <2>3. replies.list[shown] > 0 => [replies.list EXCEPT ![shown] = @ - 1] \in [Lists -> Nat]
    BY <1>1, <2>1
  <2>4. [replies EXCEPT !.list[shown] = @ + 1] \in Replies
    BY <1>1, <2>2 DEF Replies
  <2>5. ASSUME replies.list[shown] > 0
        PROVE  [replies EXCEPT !.list[shown] = @ - 1] \in Replies
    BY <1>1, <2>3, <2>5 DEF Replies
  <2>6. ASSUME replies.list[shown] > 0
        PROVE  [replies EXCEPT !.list[shown] = @ - 1, !.failed = @ + 1] \in Replies
    <3>1. [replies.list EXCEPT ![shown] = @ - 1] \in [Lists -> Nat] /\ replies.failed + 1 \in Nat
      BY <1>1, <2>3, <2>6
    <3>2. [[replies EXCEPT !.list[shown] = @ - 1] EXCEPT !.failed = replies.failed + 1] \in Replies
      BY <1>1, <2>5, <2>6, <3>1 DEF Replies
    <3>3. [replies EXCEPT !.list[shown] = @ - 1, !.failed = @ + 1] =
            [[replies EXCEPT !.list[shown] = @ - 1] EXCEPT !.failed = replies.failed + 1]
      OBVIOUS
    <3> QED
      BY <3>2, <3>3
  <2> QED
    BY <2>4, <2>5, <2>6
<1>4. ASSUME NEW a \in Alarms
      PROVE  /\ [replies EXCEPT !.recorded[a] = @ + 1] \in Replies
             /\ [replies EXCEPT !.refused[a] = @ + 1] \in Replies
             /\ replies.refused[a] > 0 => [replies EXCEPT !.refused[a] = @ - 1] \in Replies
             /\ replies.recorded[a] > 0 =>
                  /\ [replies EXCEPT !.recorded[a] = @ - 1] \in Replies
                  /\ [replies EXCEPT !.recorded[a] = @ - 1, !.refused[a] = @ + 1] \in Replies
  <2>1. replies.recorded[a] \in Nat /\ replies.refused[a] \in Nat
    BY <1>1
  <2>2. /\ [replies.recorded EXCEPT ![a] = @ + 1] \in [Alarms -> Nat]
        /\ [replies.refused EXCEPT ![a] = @ + 1] \in [Alarms -> Nat]
    BY <1>1, <2>1
  <2>3. /\ replies.recorded[a] > 0 => [replies.recorded EXCEPT ![a] = @ - 1] \in [Alarms -> Nat]
        /\ replies.refused[a] > 0 => [replies.refused EXCEPT ![a] = @ - 1] \in [Alarms -> Nat]
    BY <1>1, <2>1
  <2> QED
    BY <1>1, <2>2, <2>3 DEF Replies
<1> QED
  BY <1>2, <1>3, <1>4

\* A fault is within the bound.
LEMMA OneMoreFault ==
  ASSUME TypeOK, faults < MaxFaults
  PROVE  faults + 1 \in 0..MaxFaults
<1>1. faults \in 0..MaxFaults /\ MaxFaults \in Nat
  BY AckAssumption DEF TypeOK
<1> QED
  BY <1>1

LEMMA ServerTypes ==
  ASSUME Inv,
         RaiseAlarm \/ OtherClientAcks \/ PollAlarms \/ HandleList \/ \E a \in Alarms : HandleAck(a)
  PROVE  TypeOK'
<1>0. TypeOK /\ TableIsSerial
  BY DEF Inv, AckInv
<1>1. CASE RaiseAlarm
  BY <1>0, <1>1 DEF RaiseAlarm, TypeOK, Lists, RowStates, linkVars, screenVars, cacheVars, netVars,
              historyVars
<1>2. CASE OtherClientAcks
  BY <1>0, <1>2 DEF OtherClientAcks, TypeOK, Lists, RowStates, linkVars, screenVars, cacheVars, netVars
<1>3. CASE PollAlarms
  <2>1. PICK last \in Alarms :
          /\ last > pushed /\ table[last] # "absent" /\ pushed' = last
          /\ ws' = IF Registered THEN ws \o NewAlarms(last) ELSE ws
    BY <1>0, <1>3 DEF PollAlarms
  <2>2. ws \in Seq(Push) /\ NewAlarms(last) \in Seq(Push)
    BY <1>0, <2>1, NewPushes DEF TypeOK, Push
  <2>3. ws \o NewAlarms(last) \in Seq(Push)
    BY <1>0, <2>2
  <2>4. ws' \in Seq(Push)
    BY <1>0, <2>1, <2>2, <2>3
  <2>5. pushed' \in 0..MaxAlarms
    BY <1>0, <2>1, AckAssumption DEF Alarms
  <2> QED
    BY <1>0, <1>3, <2>4, <2>5 DEF PollAlarms, TypeOK, Push, screenVars, cacheVars, netVars, historyVars
<1>4. CASE HandleList
  <2>1. sent' \in Requests
    BY <1>0, <1>4, RequestsCount DEF HandleList
  <2>2. table \in Lists /\ NoRows \in Lists
    BY <1>0 DEF TypeOK, NoRows, Lists, RowStates
  <2>3. replies' \in Replies
    BY <1>0, <1>4, <2>2, RepliesCount DEF HandleList
  <2>4. faults' \in 0..MaxFaults /\ unlisted' \in BOOLEAN
    BY <1>0, <1>4, OneMoreFault DEF HandleList, TypeOK
  <2> QED
    BY <1>0, <1>4, <2>1, <2>3, <2>4
       DEF HandleList, TypeOK, serverVars, linkVars, screenVars, cacheVars
<1>5. ASSUME NEW a \in Alarms, HandleAck(a)
      PROVE  TypeOK'
  <2>1. sent' \in Requests
    BY <1>0, <1>5, RequestsCount DEF HandleAck
  <2>2. [table EXCEPT ![a] = "acked"] \in Lists /\ [winners EXCEPT ![a] = @ + 1] \in [Alarms -> Nat]
    BY <1>0, <1>0 DEF TypeOK, Lists, RowStates
  <2>3. table \in Lists /\ winners \in [Alarms -> Nat] /\ faults \in 0..MaxFaults
    BY <1>0, <1>0 DEF TypeOK
  <2>4. AcknowledgeAlarm(a)
    BY <1>0, <1>5 DEF HandleAck
  <2>5. /\ table' \in Lists /\ winners' \in [Alarms -> Nat] /\ faults' \in 0..MaxFaults
        /\ \/ replies' = [replies EXCEPT !.recorded[a] = @ + 1]
           \/ replies' = [replies EXCEPT !.refused[a] = @ + 1]
    <3>1. CASE table[a] = "live" /\ UNCHANGED faults /\ table' = [table EXCEPT ![a] = "acked"]
               /\ winners' = [winners EXCEPT ![a] = @ + 1]
               /\ replies' = [replies EXCEPT !.recorded[a] = @ + 1]
      BY <1>0, <2>2, <2>3, <3>1
    <3>2. CASE UNCHANGED <<table, winners, faults>>
               /\ replies' = [replies EXCEPT !.refused[a] = @ + 1]
      BY <1>0, <2>3, <3>2
    <3>3. CASE faults < MaxFaults /\ faults' = faults + 1 /\ UNCHANGED <<table, winners>>
               /\ replies' = [replies EXCEPT !.refused[a] = @ + 1]
      BY <1>0, <2>3, <3>3, OneMoreFault
    <3> QED
      BY <1>0, <2>4, <3>1, <3>2, <3>3 DEF AcknowledgeAlarm
  <2>6. replies' \in Replies
    BY <1>0, <2>5, RepliesCount
  <2> QED
    BY <1>0, <1>5, <2>1, <2>5, <2>6
       DEF HandleAck, TypeOK, linkVars, screenVars, cacheVars
<1> QED
  BY <1>0, <1>1, <1>2, <1>3, <1>4, <1>5

LEMMA NetworkTypes ==
  ASSUME Inv, LoseRequest \/ LoseReply \/ Accept \/ LoseSocket
  PROVE  TypeOK'
<1>0. TypeOK
  BY DEF Inv, AckInv
<1>1. CASE LoseRequest
  <2>1. sent' \in Requests /\ replies' \in Replies
    BY <1>0, <1>1, RequestsCount, RepliesCount DEF LoseRequest
  <2>2. faults' \in 0..MaxFaults
    BY <1>0, <1>1, OneMoreFault DEF LoseRequest
  <2> QED
    BY <1>0, <1>1, <2>1, <2>2
       DEF LoseRequest, TypeOK, serverVars, linkVars, screenVars, cacheVars, historyVars
<1>2. CASE LoseReply
  <2>1. \/ \E shown \in Lists :
              replies.list[shown] > 0
              /\ replies' = [replies EXCEPT !.list[shown] = @ - 1, !.failed = @ + 1]
        \/ \E a \in Alarms :
              replies.recorded[a] > 0
              /\ replies' = [replies EXCEPT !.recorded[a] = @ - 1, !.refused[a] = @ + 1]
    BY <1>2 DEF LoseReply
  <2>3. replies' \in Replies
    BY <1>0, <2>1, RepliesCount
  <2>2. faults' \in 0..MaxFaults
    BY <1>0, <1>2, OneMoreFault DEF LoseReply
  <2> QED
    BY <1>0, <1>2, <2>2, <2>3
       DEF LoseReply, TypeOK, serverVars, linkVars, screenVars, cacheVars, historyVars
<1>3. CASE Accept
  BY <1>0, <1>3 DEF Accept, TypeOK, serverVars, screenVars, cacheVars, netVars, historyVars
<1>4. CASE LoseSocket
  BY <1>0, <1>4, EmptySeq
     DEF LoseSocket, TypeOK, serverVars, screenVars, cacheVars, netVars, historyVars
<1> QED
  BY <1>0, <1>1, <1>2, <1>3, <1>4

LEMMA DashboardTypes ==
  ASSUME Inv,
         OnConnected \/ OnDisconnected \/ StartupBootstrap \/ Click \/ Receive \/ ClearAll \/ Restart
  PROVE  TypeOK'
<1>0. TypeOK
  BY DEF Inv, AckInv
<1>1. CASE OnConnected
  <2>1. sent' \in Requests
    BY <1>0, <1>1, RequestsCount DEF OnConnected
  <2> QED
    BY <1>0, <1>1, <2>1 DEF OnConnected, TypeOK, serverVars, screenVars, cacheVars
<1>2. CASE OnDisconnected
  BY <1>0, <1>2 DEF OnDisconnected, TypeOK, serverVars, screenVars, cacheVars, netVars, historyVars
<1>3. CASE StartupBootstrap
  <2>1. sent' \in Requests
    BY <1>0, <1>3, RequestsCount DEF StartupBootstrap
  <2> QED
    BY <1>0, <1>3, <2>1
       DEF StartupBootstrap, TypeOK, serverVars, linkVars, screenVars, cacheVars, historyVars
<1>4. CASE Click
  <2>1. sent' \in Requests
    BY <1>0, <1>4, RequestsCount DEF Click, TypeOK
  <2>2. queued' \subseteq Alarms /\ pending' \subseteq Alarms
    BY <1>0, <1>4 DEF Click, QueueAck, TypeOK
  <2>3. owed' \subseteq Alarms
    BY <1>0, <1>4 DEF Click, TypeOK
  <2> QED
    BY <1>0, <1>4, <2>1, <2>2, <2>3 DEF Click, TypeOK, serverVars, linkVars
<1>5. ASSUME NEW shown \in Lists, ReceiveList(shown)
      PROVE  TypeOK'
  <2>1. replies' \in Replies
    BY <1>0, <1>5, RepliesCount DEF ReceiveList
  <2>2. rows' \in Lists /\ badge' \in 0..MaxAlarms /\ cleared' \subseteq Alarms
    BY <1>0, <1>5, MergedRows DEF ReceiveList, ShowAlarms
  <2> QED
    BY <1>0, <1>5, <2>1, <2>2 DEF ReceiveList, TypeOK, serverVars, linkVars, cacheVars
<1>6. ASSUME NEW a \in Alarms, ReceiveAck(a)
      PROVE  TypeOK'
  <2>1. replies' \in Replies
    BY <1>0, <1>6, RepliesCount DEF ReceiveAck
  <2>2. rows' \in Lists
    BY <1>0, <1>6 DEF ReceiveAck, AckSucceeded, AckFailed, Acknowledge, screenVars, TypeOK, Lists, RowStates
  <2>3. badge' \in 0..MaxAlarms
    BY <1>0, <1>6, UnacknowledgedRange
       DEF ReceiveAck, AckSucceeded, AckFailed, Acknowledge, screenVars, TypeOK
  <2>4. queued' \subseteq Alarms
    BY <1>0, <1>6 DEF ReceiveAck, AckSucceeded, AckFailed, Acknowledge, screenVars, TypeOK
  <2>5. pending' \subseteq Alarms /\ owed' \subseteq Alarms
    BY <1>0, <1>6 DEF ReceiveAck, AckSucceeded, AckFailed, ClearAck, TypeOK
  <2> QED
    BY <1>0, <1>6, <2>1, <2>2, <2>3, <2>4, <2>5 DEF ReceiveAck, TypeOK, serverVars, linkVars
<1>7. CASE ReceiveFailure
  <2>1. replies' \in Replies
    BY <1>0, <1>7, RepliesCount DEF ReceiveFailure
  <2> QED
    BY <1>0, <1>7, <2>1 DEF ReceiveFailure, TypeOK, serverVars, linkVars, screenVars, cacheVars
<1>8. CASE ReceivePush
  <2>1. ws' \in Seq(Push)
    BY <1>0, <1>8, HeadPush DEF ReceivePush
  <2>2. rows' \in Lists /\ badge' \in 0..MaxAlarms /\ cleared' \subseteq Alarms
    BY <1>0, <1>8, HeadPush, MergedRows DEF ReceivePush, ShowAlarms
  <2> QED
    BY <1>0, <1>8, <2>1, <2>2 DEF ReceivePush, TypeOK, Push, serverVars, cacheVars, netVars
<1>9. CASE ClearAll
  <2>1. NoRows \in Lists
    BY DEF NoRows, Lists, RowStates
  <2> QED
    BY <1>0, <1>9, <2>1 DEF ClearAll, TypeOK, serverVars, linkVars, cacheVars, netVars
<1>10. CASE Restart
  <2>1. rows' \in Lists
    BY <1>0, <1>10 DEF Restart, NoRows, Lists, RowStates
  <2>2. sent' \in Requests
    BY <1>0, <1>10 DEF Restart, NoRequests, NoAcks, Requests
  <2>3. replies' \in Replies
    BY <1>0, <1>10 DEF Restart, NoReplies, NoAcks, Replies
  <2>4. ws' \in Seq([id : Alarms, state : RowStates \ {"absent"}])
    BY <1>0, <1>10, EmptySeq DEF Restart
  <2>5. badge' \in 0..MaxAlarms
    BY <1>0, <1>10, AckAssumption DEF Restart
  <2> QED
    BY <1>0, <1>10, <2>1, <2>2, <2>3, <2>4, <2>5 DEF Restart, TypeOK, serverVars
<1> QED
  BY <1>0, <1>1, <1>2, <1>3, <1>4, <1>5, <1>6, <1>7, <1>8, <1>9, <1>10 DEF Receive

\* Where replies come from: a list shows the table or, when its statement
\* failed, nothing; an ack is answered with 200 when the table has it.
LEMMA RepliesOrigin ==
  ASSUME TypeOK, Next
  PROVE  /\ \A shown \in Lists : replies'.list[shown] > 0 =>
              replies.list[shown] > 0 \/ shown = table \/ shown = NoRows
         /\ \A a \in Alarms : replies'.recorded[a] > 0 =>
              replies.recorded[a] > 0 \/ table'[a] = "acked"
<1> DEFINE Origin == /\ \A shown \in Lists : replies'.list[shown] > 0 =>
                          replies.list[shown] > 0 \/ shown = table \/ shown = NoRows
                     /\ \A a \in Alarms : replies'.recorded[a] > 0 =>
                          replies.recorded[a] > 0 \/ table'[a] = "acked"
<1>1. /\ replies \in Replies /\ replies.list \in [Lists -> Nat] /\ replies.failed \in Nat
      /\ replies.recorded \in [Alarms -> Nat] /\ replies.refused \in [Alarms -> Nat]
  BY DEF TypeOK, Replies
<1>2. ASSUME UNCHANGED replies PROVE Origin
  BY <1>2
<1>3. CASE HandleList
  BY <1>1, <1>3 DEF HandleList, Replies
<1>4. ASSUME NEW b \in Alarms, HandleAck(b) PROVE Origin
  <2>1. table \in [Alarms -> RowStates]
    BY DEF TypeOK, Lists
  <2>2. AcknowledgeAlarm(b)
    BY <1>4 DEF HandleAck
  <2>3. CASE table' = [table EXCEPT ![b] = "acked"]
             /\ replies' = [replies EXCEPT !.recorded[b] = @ + 1]
    BY <1>1, <2>1, <2>3 DEF Replies
  <2>4. CASE replies' = [replies EXCEPT !.refused[b] = @ + 1]
    BY <1>1, <2>4 DEF Replies
  <2> QED
    BY <2>2, <2>3, <2>4 DEF AcknowledgeAlarm
<1>5. CASE LoseRequest
  BY <1>1, <1>5 DEF LoseRequest, Replies
<1>6. CASE LoseReply
  <2>1. ASSUME NEW shown \in Lists,
               replies' = [replies EXCEPT !.list[shown] = @ - 1, !.failed = @ + 1]
        PROVE  Origin
    <3>1. /\ replies'.list = [replies.list EXCEPT ![shown] = @ - 1]
          /\ replies'.recorded = replies.recorded
      BY <1>1, <2>1 DEF Replies
    <3> QED
      BY <1>1, <3>1
  <2>2. ASSUME NEW a \in Alarms,
               replies' = [replies EXCEPT !.recorded[a] = @ - 1, !.refused[a] = @ + 1]
        PROVE  Origin
    <3>1. /\ replies'.recorded = [replies.recorded EXCEPT ![a] = @ - 1]
          /\ replies'.list = replies.list
      BY <1>1, <2>2 DEF Replies
    <3> QED
      BY <1>1, <3>1
  <2> QED
    BY <1>6, <2>1, <2>2 DEF LoseReply
<1>7. CASE Receive
  <2>1. ASSUME NEW shown \in Lists, ReceiveList(shown) PROVE Origin
    BY <1>1, <2>1 DEF ReceiveList, Replies
  <2>2. ASSUME NEW a \in Alarms, ReceiveAck(a) PROVE Origin
    BY <1>1, <2>2 DEF ReceiveAck, Replies
  <2>3. CASE ReceiveFailure
    BY <1>1, <2>3 DEF ReceiveFailure, Replies
  <2>4. CASE ReceivePush
    BY <1>2, <2>4 DEF ReceivePush, netVars
  <2> QED
    BY <1>7, <2>1, <2>2, <2>3, <2>4 DEF Receive
<1>8. CASE Restart
  BY <1>8 DEF Restart, NoReplies, NoAcks
<1>9. RaiseAlarm \/ OtherClientAcks \/ PollAlarms \/ Accept \/ LoseSocket => UNCHANGED replies
  BY DEF RaiseAlarm, OtherClientAcks, PollAlarms, Accept, LoseSocket, netVars
<1>10. OnConnected \/ OnDisconnected \/ StartupBootstrap \/ Click \/ ClearAll => UNCHANGED replies
  BY DEF OnConnected, OnDisconnected, StartupBootstrap, Click, ClearAll, netVars
<1> QED
  BY <1>2, <1>3, <1>4, <1>5, <1>6, <1>7, <1>8, <1>9, <1>10 DEF Next

\* Answers under way stay true.
LEMMA RepliesKept ==
  ASSUME Inv, Next
  PROVE  RepliesAreTrue'
<1>1. TypeOK /\ RepliesAreTrue
  BY DEF Inv, AckInv
<1>2. \A a \in Alarms : NoRows[a] = "absent"
  BY DEF NoRows
<1> QED
  BY <1>1, <1>2, RepliesOrigin, TableGrows DEF RepliesAreTrue

\* So do pushes: a poll sends rows as the table has them.
LEMMA PushesKept ==
  ASSUME Inv, Next
  PROVE  PushesAreTrue'
<1>1. TypeOK /\ TableIsSerial /\ PushesAreTrue
  BY DEF Inv, AckInv
<1>2. \A i \in DOMAIN ws : ws[i].id \in Alarms
  <2>1. ws \in Seq(Push)
    BY <1>1 DEF TypeOK, Push
  <2>2. \A i \in DOMAIN ws : ws[i] \in Push
    BY <2>1
  <2> QED
    BY <2>2 DEF Push
<1>3. CASE UNCHANGED ws
  BY <1>1, <1>2, <1>3, TableGrows DEF PushesAreTrue
<1>4. CASE ws' = <<>>
  BY <1>4 DEF PushesAreTrue
<1>5. CASE PollAlarms
  <2>1. PICK last \in Alarms :
          /\ last > pushed /\ table[last] # "absent" /\ pushed' = last
          /\ ws' = IF Registered THEN ws \o NewAlarms(last) ELSE ws
    BY <1>5 DEF PollAlarms
  <2>2. UNCHANGED table
    BY <1>5 DEF PollAlarms
  <2>3. CASE ws' = ws \o NewAlarms(last)
    <3>1. ws \in Seq(Push) /\ NewAlarms(last) \in Seq(Push)
      BY <1>1, <2>1, NewPushes DEF TypeOK, Push
    <3>2. ASSUME NEW i \in DOMAIN ws'
          PROVE  \/ i \in DOMAIN ws /\ ws'[i] = ws[i]
                 \/ i - Len(ws) \in DOMAIN NewAlarms(last) /\ ws'[i] = NewAlarms(last)[i - Len(ws)]
      BY <2>3, <3>1, <3>2
    <3>3. \A j \in DOMAIN NewAlarms(last) :
             /\ table[NewAlarms(last)[j].id] # "absent"
             /\ NewAlarms(last)[j].state = table[NewAlarms(last)[j].id]
      BY <1>1, <2>1, NewPushes
    <3> QED
      BY <1>1, <2>2, <3>2, <3>3 DEF PushesAreTrue
  <2> QED
    BY <1>3, <2>1, <2>3
<1>6. CASE ReceivePush
  <2>1. \A i \in DOMAIN ws' : i + 1 \in DOMAIN ws /\ ws'[i] = ws[i + 1]
    BY <1>1, <1>6, HeadPush DEF ReceivePush
  <2>2. UNCHANGED table
    BY <1>6 DEF ReceivePush, serverVars
  <2> QED
    BY <1>1, <2>1, <2>2 DEF PushesAreTrue
<1>7. RaiseAlarm \/ OtherClientAcks \/ HandleList \/ LoseRequest \/ LoseReply => UNCHANGED ws
  BY DEF RaiseAlarm, OtherClientAcks, HandleList, LoseRequest, LoseReply, linkVars
<1>8. Accept \/ OnConnected \/ OnDisconnected \/ StartupBootstrap \/ Click \/ ClearAll => UNCHANGED ws
  BY DEF Accept, OnConnected, OnDisconnected, StartupBootstrap, Click, ClearAll, linkVars
<1>9. (\E a \in Alarms : HandleAck(a)) => UNCHANGED ws
  BY DEF HandleAck, linkVars
<1>10. Receive => UNCHANGED ws \/ ReceivePush
  BY DEF Receive, ReceiveList, ReceiveAck, ReceiveFailure, linkVars
<1>11. LoseSocket \/ Restart => ws' = <<>>
  BY DEF LoseSocket, Restart
<1> QED
  BY <1>3, <1>4, <1>5, <1>6, <1>7, <1>8, <1>9, <1>10, <1>11 DEF Next

\* The screen stays truthful.
LEMMA ScreenKept ==
  ASSUME Inv, Next
  PROVE  ScreenIsTruthful'
<1>1. TypeOK /\ ScreenIsTruthful /\ RepliesAreTrue /\ PushesAreTrue
  BY DEF Inv, AckInv
<1>2. CASE UNCHANGED rows
  BY <1>1, <1>2, TableGrows DEF ScreenIsTruthful
<1>3. CASE rows' = NoRows
  BY <1>3 DEF ScreenIsTruthful, NoRows
<1>4. ASSUME NEW shown \in Lists, UNCHANGED table, rows' = Merged(shown),
             \A a \in Alarms : /\ shown[a] = "acked" => table[a] = "acked"
                               /\ shown[a] # "absent" => table[a] # "absent"
      PROVE  ScreenIsTruthful'
  BY <1>1, <1>4 DEF ScreenIsTruthful, Merged
<1>5. ASSUME NEW shown \in Lists, ReceiveList(shown) PROVE ScreenIsTruthful'
  <2>1. /\ UNCHANGED table /\ rows' = Merged(shown)
        /\ \A a \in Alarms : /\ shown[a] = "acked" => table[a] = "acked"
                             /\ shown[a] # "absent" => table[a] # "absent"
    BY <1>1, <1>5 DEF ReceiveList, ShowAlarms, serverVars, RepliesAreTrue
  <2> QED
    BY <1>4, <2>1
<1>6. CASE ReceivePush
  <2> DEFINE p == [NoRows EXCEPT ![Head(ws).id] = Head(ws).state]
  <2>1. UNCHANGED table /\ rows' = Merged(p) /\ ws # <<>>
    BY <1>6 DEF ReceivePush, ShowAlarms, serverVars
  <2>2. p \in Lists /\ Head(ws).id \in Alarms
    BY <1>1, <2>1, HeadPush
  <2>3. /\ table[Head(ws).id] # "absent"
        /\ Head(ws).state = "acked" => table[Head(ws).id] = "acked"
    BY <1>1, <2>1, HeadPush DEF PushesAreTrue
  <2>4. \A a \in Alarms : p[a] = IF a = Head(ws).id THEN Head(ws).state ELSE "absent"
    BY DEF NoRows
  <2>5. \A a \in Alarms : /\ p[a] = "acked" => table[a] = "acked"
                          /\ p[a] # "absent" => table[a] # "absent"
    BY <2>3, <2>4
  <2> QED
    BY <1>4, <2>1, <2>2, <2>5
<1>7. ASSUME NEW a \in Alarms, ReceiveAck(a) PROVE ScreenIsTruthful'
  <2>1. UNCHANGED table
    BY <1>7 DEF ReceiveAck, serverVars
  <2>2. \/ UNCHANGED rows
        \/ rows' = [rows EXCEPT ![a] = "acked"] /\ replies.recorded[a] > 0
    BY <1>7 DEF ReceiveAck, AckSucceeded, AckFailed, Acknowledge, screenVars
  <2>3. CASE rows' = [rows EXCEPT ![a] = "acked"] /\ table[a] = "acked"
    BY <1>1, <2>1, <2>3 DEF ScreenIsTruthful, TypeOK, Lists
  <2> QED
    BY <1>1, <1>2, <2>2, <2>3 DEF RepliesAreTrue
<1>8. RaiseAlarm \/ OtherClientAcks \/ PollAlarms \/ HandleList \/ LoseRequest \/ LoseReply
        => UNCHANGED rows
  BY DEF RaiseAlarm, OtherClientAcks, PollAlarms, HandleList, LoseRequest, LoseReply, screenVars
<1>9. Accept \/ LoseSocket \/ OnConnected \/ OnDisconnected \/ StartupBootstrap \/ Click
        => UNCHANGED rows
  BY DEF Accept, LoseSocket, OnConnected, OnDisconnected, StartupBootstrap, Click, screenVars
<1>10. (\E a \in Alarms : HandleAck(a)) \/ ReceiveFailure => UNCHANGED rows
  BY DEF HandleAck, ReceiveFailure, screenVars
<1>11. ClearAll \/ Restart => rows' = NoRows
  BY DEF ClearAll, Restart
<1> QED
  BY <1>2, <1>3, <1>5, <1>6, <1>7, <1>8, <1>9, <1>10, <1>11 DEF Next, Receive

\* Alarms are raised with serial ids, and only what is in the table is broadcast.
LEMMA SerialKept ==
  ASSUME Inv, Next
  PROVE  TableIsSerial'
<1>1. TypeOK /\ TableIsSerial
  BY DEF Inv, AckInv
<1>2. pushed \in Nat /\ pushed <= MaxAlarms /\ table \in [Alarms -> RowStates]
  BY <1>1, AckAssumption DEF TypeOK, Lists
<1>3. \A a \in 1..pushed : a \in Alarms
  BY <1>2, AckAssumption DEF Alarms
<1>4. CASE UNCHANGED <<table, pushed>>
  BY <1>1, <1>4 DEF TableIsSerial
<1>5. CASE RaiseAlarm
  <2>1. PICK b \in Alarms :
          /\ table[b] = "absent" /\ \A c \in 1..(b - 1) : table[c] # "absent"
          /\ table' = [table EXCEPT ![b] = "live"] /\ UNCHANGED pushed
    BY <1>5 DEF RaiseAlarm
  <2>2. \A a \in Alarms : a < b => a \in 1..(b - 1)
    BY DEF Alarms
  <2>3. \A a \in Alarms : table'[a] = IF a = b THEN "live" ELSE table[a]
    BY <1>2, <2>1
  <2>4. ASSUME NEW a \in Alarms, NEW c \in Alarms, c < a, table'[a] # "absent"
        PROVE  table'[c] # "absent"
    BY <1>1, <2>1, <2>2, <2>3, <2>4 DEF TableIsSerial
  <2>5. \A a \in 1..pushed' : table'[a] # "absent"
    BY <1>1, <1>3, <2>1, <2>3 DEF TableIsSerial
  <2> QED
    BY <2>4, <2>5 DEF TableIsSerial
<1>6. ASSUME NEW b \in Alarms, table' = [table EXCEPT ![b] = "acked"], table[b] = "live",
             UNCHANGED pushed
      PROVE  TableIsSerial'
  <2>1. \A a \in Alarms : table'[a] = IF a = b THEN "acked" ELSE table[a]
    BY <1>2, <1>6
  <2> QED
    BY <1>1, <1>3, <1>6, <2>1 DEF TableIsSerial
<1>7. CASE OtherClientAcks
  BY <1>6, <1>7 DEF OtherClientAcks
<1>8. ASSUME NEW a \in Alarms, HandleAck(a) PROVE TableIsSerial'
  BY <1>4, <1>6, <1>8 DEF HandleAck, AcknowledgeAlarm
<1>9. CASE PollAlarms
  <2>1. PICK last \in Alarms : table[last] # "absent" /\ pushed' = last /\ UNCHANGED table
    BY <1>9 DEF PollAlarms
  <2>2. \A a \in 1..last : a \in Alarms /\ (a = last \/ a < last)
    BY AckAssumption DEF Alarms
  <2> QED
    BY <1>1, <2>1, <2>2 DEF TableIsSerial
<1>10. HandleList \/ LoseRequest \/ LoseReply \/ Accept \/ LoseSocket => UNCHANGED <<table, pushed>>
  BY DEF HandleList, LoseRequest, LoseReply, Accept, LoseSocket, serverVars
<1>11. OnConnected \/ OnDisconnected \/ StartupBootstrap \/ Click => UNCHANGED <<table, pushed>>
  BY DEF OnConnected, OnDisconnected, StartupBootstrap, Click, serverVars
<1>12. Receive \/ ClearAll \/ Restart => UNCHANGED <<table, pushed>>
  BY DEF Receive, ReceiveList, ReceiveAck, ReceiveFailure, ReceivePush, ClearAll, Restart,
         serverVars
<1> QED
  BY <1>4, <1>5, <1>7, <1>8, <1>9, <1>10, <1>11, <1>12 DEF Next

\* Each ack that turns a row is the first of its alarm.
LEMMA WinnersKept ==
  ASSUME Inv, Next
  PROVE  WinnersAreRecorded'
<1>1. TypeOK /\ WinnersAreRecorded
  BY DEF Inv, AckInv
<1>2. table \in [Alarms -> RowStates] /\ winners \in [Alarms -> Nat]
  BY <1>1 DEF TypeOK, Lists
<1>3. CASE UNCHANGED <<table, winners>>
  BY <1>1, <1>3 DEF WinnersAreRecorded
<1>4. CASE RaiseAlarm
  BY <1>1, <1>2, <1>4 DEF RaiseAlarm, WinnersAreRecorded, historyVars
<1>5. ASSUME NEW b \in Alarms, table[b] = "live", table' = [table EXCEPT ![b] = "acked"],
             winners' = [winners EXCEPT ![b] = @ + 1]
      PROVE  WinnersAreRecorded'
  BY <1>1, <1>2, <1>5 DEF WinnersAreRecorded
<1>6. CASE OtherClientAcks
  BY <1>5, <1>6 DEF OtherClientAcks
<1>7. ASSUME NEW a \in Alarms, HandleAck(a) PROVE WinnersAreRecorded'
  BY <1>3, <1>5, <1>7 DEF HandleAck, AcknowledgeAlarm
<1>8. PollAlarms \/ HandleList \/ LoseRequest \/ LoseReply => UNCHANGED <<table, winners>>
  BY DEF PollAlarms, HandleList, LoseRequest, LoseReply, serverVars, historyVars
<1>9. Accept \/ LoseSocket \/ OnConnected \/ OnDisconnected => UNCHANGED <<table, winners>>
  BY DEF Accept, LoseSocket, OnConnected, OnDisconnected, serverVars, historyVars
<1>10. StartupBootstrap \/ Click \/ Receive \/ ClearAll \/ Restart => UNCHANGED <<table, winners>>
  BY DEF StartupBootstrap, Click, Receive, ReceiveList, ReceiveAck, ReceiveFailure, ReceivePush,
         ClearAll, Restart, serverVars, historyVars
<1> QED
  BY <1>3, <1>4, <1>6, <1>7, <1>8, <1>9, <1>10 DEF Next

\* An ack that is owed moves from the file to the network and from a request to
\* its answer.
LEMMA OwedKept ==
  ASSUME Inv, Next
  PROVE  NoAckVanishes'
<1> DEFINE UnderWay(a) == sent.ack[a] > 0 \/ replies.recorded[a] > 0 \/ replies.refused[a] > 0
<1>1. TypeOK /\ NoAckVanishes
  BY DEF Inv, AckInv
<1>2. /\ sent \in Requests /\ sent.list \in Nat /\ sent.ack \in [Alarms -> Nat]
      /\ owed \subseteq Alarms /\ pending \subseteq Alarms
  BY <1>1 DEF TypeOK, Requests
<1>3. /\ replies \in Replies /\ replies.list \in [Lists -> Nat] /\ replies.failed \in Nat
      /\ replies.recorded \in [Alarms -> Nat] /\ replies.refused \in [Alarms -> Nat]
  BY <1>1 DEF TypeOK, Replies
<1>4. ASSUME UNCHANGED <<owed, pending>>, \A a \in Alarms : UnderWay(a) => UnderWay(a)'
      PROVE  NoAckVanishes'
  BY <1>1, <1>2, <1>4 DEF NoAckVanishes
<1>5. CASE UNCHANGED <<owed, pending, sent, replies>>
  BY <1>4, <1>5
<1>6. CASE HandleList
  <2>1. /\ UNCHANGED <<owed, pending>> /\ sent' = [sent EXCEPT !.list = @ - 1]
        /\ \E shown \in Lists : replies' = [replies EXCEPT !.list[shown] = @ + 1]
    <3>1. table \in Lists /\ NoRows \in Lists
      BY <1>1 DEF TypeOK, NoRows, Lists, RowStates
    <3> QED
      BY <1>6, <3>1 DEF HandleList, cacheVars
  <2>2. /\ sent'.ack = sent.ack /\ replies'.recorded = replies.recorded
        /\ replies'.refused = replies.refused
    BY <1>2, <1>3, <2>1 DEF Requests, Replies
  <2> QED
    BY <1>4, <2>1, <2>2
<1>7. ASSUME NEW b \in Alarms, HandleAck(b) PROVE NoAckVanishes'
  <2>1. /\ UNCHANGED <<owed, pending>> /\ sent' = [sent EXCEPT !.ack[b] = @ - 1]
        /\ \/ replies' = [replies EXCEPT !.recorded[b] = @ + 1]
           \/ replies' = [replies EXCEPT !.refused[b] = @ + 1]
    BY <1>7 DEF HandleAck, AcknowledgeAlarm, cacheVars
  <2>2. sent'.ack = [sent.ack EXCEPT ![b] = @ - 1]
    BY <1>2, <2>1 DEF Requests
  <2>3. \/ /\ replies'.recorded = [replies.recorded EXCEPT ![b] = @ + 1]
           /\ replies'.refused = replies.refused
        \/ /\ replies'.refused = [replies.refused EXCEPT ![b] = @ + 1]
           /\ replies'.recorded = replies.recorded
    BY <1>3, <2>1 DEF Replies
  <2>4. \A a \in Alarms : UnderWay(a) => UnderWay(a)'
    BY <1>2, <1>3, <2>2, <2>3
  <2> QED
    BY <1>4, <2>1, <2>4
<1>8. CASE LoseRequest
  <2>1. UNCHANGED <<owed, pending>>
    BY <1>8 DEF LoseRequest, cacheVars, historyVars
  <2>2. \/ UNCHANGED <<sent.ack, replies.recorded, replies.refused>>
        \/ \E b \in Alarms :
              /\ sent'.ack = [sent.ack EXCEPT ![b] = @ - 1]
              /\ replies'.refused = [replies.refused EXCEPT ![b] = @ + 1]
              /\ replies'.recorded = replies.recorded
    BY <1>2, <1>3, <1>8 DEF LoseRequest, Requests, Replies
  <2>3. ASSUME NEW a \in Alarms, UnderWay(a) PROVE UnderWay(a)'
    <3>1. CASE UNCHANGED <<sent.ack, replies.recorded, replies.refused>>
      BY <2>3, <3>1
    <3>2. ASSUME NEW b \in Alarms,
                 sent'.ack = [sent.ack EXCEPT ![b] = @ - 1],
                 replies'.refused = [replies.refused EXCEPT ![b] = @ + 1],
                 replies'.recorded = replies.recorded
          PROVE  UnderWay(a)'
      <4>1. CASE a = b
        BY <1>3, <3>2, <4>1
      <4>2. CASE a # b
        BY <1>2, <1>3, <2>3, <3>2, <4>2
      <4> QED
        BY <4>1, <4>2
    <3> QED
      BY <2>2, <3>1, <3>2
  <2> QED
    BY <1>4, <2>1, <2>3
<1>9. CASE LoseReply
  <2>1. UNCHANGED <<owed, pending, sent>>
    BY <1>9 DEF LoseReply, cacheVars, historyVars
  <2>2. \/ UNCHANGED <<replies.recorded, replies.refused>>
        \/ \E b \in Alarms :
              /\ replies'.recorded = [replies.recorded EXCEPT ![b] = @ - 1]
              /\ replies'.refused = [replies.refused EXCEPT ![b] = @ + 1]
    BY <1>3, <1>9 DEF LoseReply, Replies
  <2>3. ASSUME NEW a \in Alarms, UnderWay(a) PROVE UnderWay(a)'
    <3>1. CASE UNCHANGED <<replies.recorded, replies.refused>>
      BY <2>1, <2>3, <3>1
    <3>2. ASSUME NEW b \in Alarms,
                 replies'.recorded = [replies.recorded EXCEPT ![b] = @ - 1],
                 replies'.refused = [replies.refused EXCEPT ![b] = @ + 1]
          PROVE  UnderWay(a)'
      <4>1. CASE a = b
        BY <1>3, <3>2, <4>1
      <4>2. CASE a # b
        BY <1>2, <1>3, <2>1, <2>3, <3>2, <4>2
      <4> QED
        BY <4>1, <4>2
    <3> QED
      BY <2>2, <3>1, <3>2
  <2> QED
    BY <1>4, <2>1, <2>3
<1>10. CASE OnConnected
  <2>1. /\ UNCHANGED <<owed, pending, replies>>
        /\ sent'.ack = [a \in Alarms |-> IF a \in PendingAcks THEN sent.ack[a] + 1 ELSE sent.ack[a]]
    BY <1>10 DEF OnConnected, FlushedAcks, cacheVars
  <2>2. \A a \in Alarms : UnderWay(a) => UnderWay(a)'
    BY <1>2, <2>1
  <2> QED
    BY <1>4, <2>1, <2>2
<1>11. CASE StartupBootstrap
  <2>1. UNCHANGED <<owed, pending, replies>> /\ sent'.ack = sent.ack
    BY <1>2, <1>11 DEF StartupBootstrap, cacheVars, historyVars, Requests
  <2> QED
    BY <1>4, <2>1
<1>12. CASE Click
  <2>1. PICK b \in Alarms :
          /\ IF Connected
             THEN sent' = [sent EXCEPT !.ack[b] = @ + 1] /\ UNCHANGED <<queued, pending>>
             ELSE QueueAck(b) /\ UNCHANGED sent
          /\ owed' = IF Connected \/ cacheOpen THEN owed \cup {b} ELSE owed
          /\ UNCHANGED replies
    BY <1>12 DEF Click
  <2>2. CASE Connected
    <3>1. /\ sent'.ack = [sent.ack EXCEPT ![b] = @ + 1] /\ owed' = owed \cup {b}
          /\ UNCHANGED <<pending, replies>>
      BY <1>2, <2>1, <2>2 DEF Requests
    <3> QED
      BY <1>1, <1>2, <3>1 DEF NoAckVanishes
  <2>3. CASE ~Connected /\ cacheOpen
    BY <1>1, <2>1, <2>3 DEF NoAckVanishes, QueueAck
  <2>4. CASE ~Connected /\ ~cacheOpen
    BY <1>1, <2>1, <2>4 DEF NoAckVanishes, QueueAck
  <2> QED
    BY <2>2, <2>3, <2>4
<1>13. ASSUME NEW b \in Alarms, ReceiveAck(b) PROVE NoAckVanishes'
  <2>1. UNCHANGED sent
    BY <1>13 DEF ReceiveAck
  <2>2. CASE /\ replies' = [replies EXCEPT !.recorded[b] = @ - 1]
             /\ AckSucceeded(b)
    <3>1. /\ replies'.recorded = [replies.recorded EXCEPT ![b] = @ - 1]
          /\ replies'.refused = replies.refused
      BY <1>3, <2>2 DEF Replies
    <3>2. owed' = owed \ {b} /\ pending \ {b} \subseteq pending'
      BY <2>2 DEF AckSucceeded, ClearAck
    <3> QED
      BY <1>1, <1>2, <1>3, <2>1, <3>1, <3>2 DEF NoAckVanishes
  <2>3. CASE /\ replies' = [replies EXCEPT !.refused[b] = @ - 1]
             /\ AckFailed(b)
    <3>1. /\ replies'.refused = [replies.refused EXCEPT ![b] = @ - 1]
          /\ replies'.recorded = replies.recorded
      BY <1>3, <2>3 DEF Replies
    <3>2. UNCHANGED pending /\ owed' \subseteq owed /\ (b \in owed' => b \in pending)
      BY <2>3 DEF AckFailed
    <3> QED
      BY <1>1, <1>2, <1>3, <2>1, <3>1, <3>2 DEF NoAckVanishes
  <2> QED
    BY <1>13, <2>2, <2>3 DEF ReceiveAck
<1>14. CASE Receive
  <2>1. ASSUME NEW shown \in Lists, ReceiveList(shown) PROVE NoAckVanishes'
    <3>1. /\ UNCHANGED <<owed, pending, sent>> /\ replies'.recorded = replies.recorded
          /\ replies'.refused = replies.refused
      BY <1>3, <2>1 DEF ReceiveList, cacheVars, Replies
    <3> QED
      BY <1>4, <3>1
  <2>2. CASE ReceiveFailure
    <3>1. /\ UNCHANGED <<owed, pending, sent>> /\ replies'.recorded = replies.recorded
          /\ replies'.refused = replies.refused
      BY <1>3, <2>2 DEF ReceiveFailure, cacheVars, Replies
    <3> QED
      BY <1>4, <3>1
  <2>3. CASE ReceivePush
    BY <1>5, <2>3 DEF ReceivePush, cacheVars, netVars
  <2> QED
    BY <1>13, <1>14, <2>1, <2>2, <2>3 DEF Receive
<1>15. CASE Restart
  BY <1>15 DEF Restart, NoAckVanishes
<1>16. RaiseAlarm \/ OtherClientAcks \/ PollAlarms => UNCHANGED <<owed, pending, sent, replies>>
  BY DEF RaiseAlarm, OtherClientAcks, PollAlarms, cacheVars, netVars, historyVars
<1>17. Accept \/ LoseSocket \/ OnDisconnected \/ ClearAll => UNCHANGED <<owed, pending, sent, replies>>
  BY DEF Accept, LoseSocket, OnDisconnected, ClearAll, cacheVars, netVars, historyVars
<1> QED
  BY <1>5, <1>6, <1>7, <1>8, <1>9, <1>10, <1>11, <1>12, <1>14, <1>15, <1>16, <1>17 DEF Next

\* A list that is asked for, its answer and the pushes hand an alarm on.
LEMMA GapKept ==
  ASSUME Inv, Next
  PROVE  NoGap'
<1> DEFINE Listed(a) == \E shown \in Lists : replies.list[shown] > 0 /\ shown[a] # "absent"
           Pushed(a) == \E i \in DOMAIN ws : ws[i].id = a
           Covered(a) == \/ rows[a] # "absent" \/ a \in cleared \/ Pushed(a)
                         \/ sent.list > 0 \/ replies.failed > 0 \/ Listed(a)
<1>1. TypeOK /\ TableIsSerial /\ NoGap
  BY DEF Inv, AckInv
<1>2. /\ sent \in Requests /\ sent.list \in Nat /\ sent.ack \in [Alarms -> Nat]
      /\ rows \in [Alarms -> RowStates] /\ table \in Lists
  BY <1>1 DEF TypeOK, Requests, Lists
<1>3. /\ replies \in Replies /\ replies.list \in [Lists -> Nat] /\ replies.failed \in Nat
      /\ replies.recorded \in [Alarms -> Nat] /\ replies.refused \in [Alarms -> Nat]
  BY <1>1 DEF TypeOK, Replies
<1>4. pushed \in Nat /\ pushed <= MaxAlarms /\ \A a \in 1..pushed : a \in Alarms
  BY <1>1, AckAssumption DEF TypeOK, Alarms
<1>5. SUFFICES ASSUME link' = "up", ~unlisted', NEW a \in 1..pushed'
               PROVE  Covered(a)'
  BY DEF NoGap
<1>6. link = "up" /\ ~unlisted /\ a \in 1..pushed => Covered(a)
  BY <1>1 DEF NoGap
<1>7. ASSUME UNCHANGED <<link, pushed, unlisted, rows, cleared, ws>>,
             sent'.list = sent.list, replies'.failed = replies.failed,
             replies'.list = replies.list
      PROVE  Covered(a)'
  BY <1>5, <1>6, <1>7
<1>8. CASE RaiseAlarm \/ OtherClientAcks
  BY <1>7, <1>8 DEF RaiseAlarm, OtherClientAcks, linkVars, screenVars, netVars, historyVars
<1>9. CASE PollAlarms
  <2>1. PICK last \in Alarms :
          /\ last > pushed /\ table[last] # "absent" /\ pushed' = last
          /\ ws' = IF Registered THEN ws \o NewAlarms(last) ELSE ws
    BY <1>9 DEF PollAlarms
  <2>2. UNCHANGED <<link, rows, cleared, unlisted, sent, replies>>
    BY <1>9 DEF PollAlarms, screenVars, netVars, historyVars
  <2>3. ws' = ws \o NewAlarms(last)
    BY <1>5, <2>1, <2>2 DEF Registered
  <2>4. /\ ws \in Seq(Push) /\ NewAlarms(last) \in Seq(Push)
        /\ DOMAIN NewAlarms(last) = 1..(last - pushed)
    BY <1>1, <2>1, NewPushes DEF TypeOK, Push
  <2>5. \A i \in DOMAIN ws : i \in DOMAIN ws' /\ ws'[i] = ws[i]
    BY <2>3, <2>4
  <2>6. \A i \in DOMAIN NewAlarms(last) :
           Len(ws) + i \in DOMAIN ws' /\ ws'[Len(ws) + i] = NewAlarms(last)[i]
    <3>1. /\ Len(ws) \in Nat /\ Len(NewAlarms(last)) \in Nat
          /\ DOMAIN NewAlarms(last) = 1..Len(NewAlarms(last))
      BY <2>4
    <3>2. /\ Len(ws') = Len(ws) + Len(NewAlarms(last)) /\ DOMAIN ws' = 1..Len(ws')
          /\ \A i \in 1..Len(ws') : i > Len(ws) => ws'[i] = NewAlarms(last)[i - Len(ws)]
      BY <2>3, <2>4, ConcatProperties
    <3> QED
      BY <3>1, <3>2
  <2>7. CASE a \in 1..pushed
    BY <1>5, <1>6, <2>2, <2>5, <2>7
  <2>8. CASE a \notin 1..pushed
    <3>1. a - pushed \in 1..(last - pushed)
      BY <1>4, <2>1, <2>8, AckAssumption DEF Alarms
    <3>2. NewAlarms(last)[a - pushed].id = pushed + (a - pushed)
      BY <1>1, <2>1, <3>1, NewPushes
    <3>3. Pushed(a)'
      <4>1. pushed + (a - pushed) = a
        BY <1>4, <2>1, AckAssumption DEF Alarms
      <4>2. a - pushed \in DOMAIN NewAlarms(last)
        BY <2>4, <3>1
      <4> QED
        BY <2>6, <3>2, <4>1, <4>2
    <3> QED
      BY <3>3
  <2> QED
    BY <2>7, <2>8
<1>10. CASE HandleList
  <2>1. replies' = [replies EXCEPT !.list[table] = @ + 1] /\ UNCHANGED pushed
    BY <1>5, <1>10 DEF HandleList, serverVars
  <2>2. replies'.list = [replies.list EXCEPT ![table] = @ + 1]
    BY <1>3, <2>1 DEF Replies
  <2>3. replies'.list[table] > 0
    BY <1>2, <1>3, <2>2
  <2>4. table[a] # "absent"
    BY <1>1, <2>1 DEF TableIsSerial
  <2> QED
    BY <1>2, <2>3, <2>4
<1>11. ASSUME NEW b \in Alarms, HandleAck(b) PROVE Covered(a)'
  <2>1. sent'.list = sent.list /\ replies'.list = replies.list /\ replies'.failed = replies.failed
    BY <1>2, <1>3, <1>11 DEF HandleAck, AcknowledgeAlarm, Requests, Replies
  <2> QED
    BY <1>7, <1>11, <2>1 DEF HandleAck, linkVars, screenVars
<1>12. CASE LoseRequest
  <2>1. CASE replies' = [replies EXCEPT !.failed = @ + 1]
    <3>1. replies'.failed > 0
      BY <1>3, <2>1 DEF Replies
    <3> QED
      BY <3>1
  <2>2. ASSUME NEW b \in Alarms, sent' = [sent EXCEPT !.ack[b] = @ - 1],
               replies' = [replies EXCEPT !.refused[b] = @ + 1]
        PROVE  Covered(a)'
    <3>1. sent'.list = sent.list /\ replies'.list = replies.list /\ replies'.failed = replies.failed
      BY <1>2, <1>3, <2>2 DEF Requests, Replies
    <3> QED
      BY <1>7, <1>12, <3>1 DEF LoseRequest, serverVars, linkVars, screenVars, historyVars
  <2> QED
    BY <1>12, <2>1, <2>2 DEF LoseRequest
<1>13. CASE LoseReply
  <2>1. ASSUME NEW shown \in Lists,
               replies' = [replies EXCEPT !.list[shown] = @ - 1, !.failed = @ + 1]
        PROVE  Covered(a)'
    <3>1. replies'.failed > 0
      BY <1>3, <2>1 DEF Replies
    <3> QED
      BY <3>1
  <2>2. ASSUME NEW b \in Alarms,
               replies' = [replies EXCEPT !.recorded[b] = @ - 1, !.refused[b] = @ + 1]
        PROVE  Covered(a)'
    <3>1. replies'.list = replies.list /\ replies'.failed = replies.failed
      BY <1>3, <2>2 DEF Replies
    <3> QED
      BY <1>7, <1>13, <3>1 DEF LoseReply, serverVars, linkVars, screenVars, historyVars
  <2> QED
    BY <1>13, <2>1, <2>2 DEF LoseReply
<1>14. CASE OnConnected
  <2>1. sent'.list > 0
    BY <1>2, <1>14 DEF OnConnected
  <2> QED
    BY <2>1
<1>15. CASE StartupBootstrap
  <2>1. sent'.list > 0
    BY <1>2, <1>15 DEF StartupBootstrap, Requests
  <2> QED
    BY <2>1
<1>16. CASE Click
  <2>1. sent'.list = sent.list
    BY <1>2, <1>16 DEF Click, Requests
  <2> QED
    BY <1>7, <1>16, <2>1 DEF Click, serverVars, linkVars
<1>17. ASSUME NEW s \in Lists, ReceiveList(s) PROVE Covered(a)'
  <2>1. /\ UNCHANGED <<link, pushed, unlisted, ws, sent>>
        /\ rows' = Merged(s) /\ cleared' = {c \in cleared : s[c] = "absent"}
        /\ replies' = [replies EXCEPT !.list[s] = @ - 1]
    BY <1>17 DEF ReceiveList, ShowAlarms, serverVars, linkVars
  <2>2. replies'.list = [replies.list EXCEPT ![s] = @ - 1] /\ replies'.failed = replies.failed
    BY <1>3, <2>1 DEF Replies
  <2>3. a \in Alarms /\ Covered(a)
    BY <1>4, <1>5, <1>6, <2>1
  <2>4. rows'[a] = IF s[a] = "absent" THEN rows[a] ELSE s[a]
    BY <2>1, <2>3 DEF Merged
  <2>5. CASE s[a] # "absent"
    BY <2>4, <2>5
  <2>6. CASE s[a] = "absent"
    <3>1. Listed(a) => Listed(a)'
      BY <1>3, <2>2, <2>6
    <3>2. Pushed(a) => Pushed(a)'
      BY <2>1
    <3>3. rows[a] # "absent" \/ a \in cleared => Covered(a)'
      BY <2>1, <2>4, <2>6
    <3> QED
      BY <2>1, <2>2, <2>3, <3>1, <3>2, <3>3
  <2> QED
    BY <2>5, <2>6
<1>18. CASE ReceivePush
  <2> DEFINE p == [NoRows EXCEPT ![Head(ws).id] = Head(ws).state]
  <2>1. /\ UNCHANGED <<link, pushed, unlisted, sent, replies>> /\ ws # <<>> /\ ws' = Tail(ws)
        /\ rows' = Merged(p) /\ cleared' = {c \in cleared : p[c] = "absent"}
    BY <1>18 DEF ReceivePush, ShowAlarms, serverVars, netVars
  <2>2. a \in Alarms /\ Covered(a)
    BY <1>4, <1>5, <1>6, <2>1
  <2>3. /\ Head(ws) = ws[1] /\ Head(ws).state # "absent"
        /\ \A i \in DOMAIN ws : i # 1 => i - 1 \in DOMAIN Tail(ws) /\ ws[i] = Tail(ws)[i - 1]
    BY <1>1, <2>1, HeadPush
  <2>4. p[a] = IF a = Head(ws).id THEN Head(ws).state ELSE "absent"
    BY <2>2 DEF NoRows
  <2>5. rows'[a] = IF p[a] = "absent" THEN rows[a] ELSE p[a]
    BY <2>1, <2>2 DEF Merged
  <2>6. CASE a = Head(ws).id
    BY <2>3, <2>4, <2>5, <2>6
  <2>7. CASE a # Head(ws).id
    <3>1. p[a] = "absent" /\ rows'[a] = rows[a] /\ (a \in cleared => a \in cleared')
      BY <2>1, <2>4, <2>5, <2>7
    <3>2. Pushed(a) => Pushed(a)'
      BY <2>1, <2>3, <2>7
    <3>3. Listed(a) => Listed(a)'
      BY <2>1
    <3> QED
      BY <2>1, <2>2, <3>1, <3>2, <3>3
  <2> QED
    BY <2>6, <2>7
<1>19. ASSUME NEW b \in Alarms, ReceiveAck(b) PROVE Covered(a)'
  <2>1. UNCHANGED <<link, pushed, unlisted, cleared, ws, sent>>
    BY <1>19 DEF ReceiveAck, serverVars, linkVars
  <2>2. replies'.list = replies.list /\ replies'.failed = replies.failed
    BY <1>3, <1>19 DEF ReceiveAck, Replies
  <2>3. rows[a] # "absent" => rows'[a] # "absent"
    <3>1. rows' = rows \/ rows' = [rows EXCEPT ![b] = "acked"]
      BY <1>19 DEF ReceiveAck, AckSucceeded, AckFailed, Acknowledge, screenVars
    <3>2. a \in Alarms
      BY <1>4, <2>1
    <3> QED
      BY <1>2, <3>1, <3>2
  <2> QED
    BY <1>5, <1>6, <2>1, <2>2, <2>3
<1>20. CASE ReceiveFailure
  BY <1>5, <1>20 DEF ReceiveFailure
<1>21. CASE ClearAll
  <2>1. UNCHANGED <<link, pushed, unlisted, ws, sent, replies>>
    BY <1>21 DEF ClearAll, serverVars, linkVars, netVars
  <2>2. a \in Alarms
    BY <1>4, <2>1
  <2>3. rows[a] # "absent" \/ a \in cleared => a \in cleared'
    BY <1>21, <2>2 DEF ClearAll
  <2> QED
    BY <1>5, <1>6, <2>1, <2>3
<1>22. Accept \/ LoseSocket \/ OnDisconnected \/ Restart => link' # "up"
  BY DEF Accept, LoseSocket, OnDisconnected, Restart
<1> QED
  BY <1>5, <1>8, <1>9, <1>10, <1>11, <1>12, <1>13, <1>14, <1>15, <1>16, <1>17, <1>18, <1>19,
     <1>20, <1>21, <1>22 DEF Next, Receive

LEMMA StepKeepsAcks == Inv /\ [Next]_vars => Inv'
<1> SUFFICES ASSUME Inv, [Next]_vars PROVE Inv'
  OBVIOUS
<1>1. CASE Next
  <2>1. TypeOK'
    BY <1>1, ServerTypes, NetworkTypes, DashboardTypes DEF Next
  <2> QED
    BY <1>1, <2>1, ScreenKept, RepliesKept, PushesKept, SerialKept, WinnersKept, OwedKept, GapKept
       DEF Inv, AckInv, WinnersAreRecorded, OneAckWins
<1>2. CASE UNCHANGED vars
  <2>1. UNCHANGED <<table, pushed, link, ws, rows, badge, queued, cacheOpen, pending>>
    BY <1>2 DEF vars, serverVars, linkVars, screenVars, cacheVars
  <2>2. UNCHANGED <<booted, sent, replies, faults, owed, winners, cleared, unlisted>>
    BY <1>2 DEF vars, netVars, historyVars
  <2>3. TypeOK'
    BY <2>1, <2>2 DEF Inv, AckInv, TypeOK
  <2>4. ScreenIsTruthful' /\ RepliesAreTrue' /\ PushesAreTrue'
    BY <2>1, <2>2 DEF Inv, AckInv, ScreenIsTruthful, RepliesAreTrue, PushesAreTrue
  <2>5. TableIsSerial' /\ WinnersAreRecorded' /\ NoAckVanishes'
    BY <2>1, <2>2 DEF Inv, TableIsSerial, WinnersAreRecorded, NoAckVanishes
  <2>6. NoGap'
    BY <2>1, <2>2 DEF Inv, NoGap
  <2> QED
    BY <2>3, <2>4, <2>5, <2>6 DEF Inv, AckInv, WinnersAreRecorded, OneAckWins
<1> QED
  BY <1>1, <1>2

LEMMA AcksInvariant == Spec => []Inv
BY InitialAcks, StepKeepsAcks, PTL DEF Spec

-----------------------------------------------------------------------------
(* What it gives. *)

\* The screen and all that is on its way to it claim only what the database
\* holds, in whatever order lists, pushes and answers arrive, and of all clients
\* that acknowledge one alarm at most one is told it did.
THEOREM ScreenNeverLies == Spec => []AckInv
<1>1. Inv => AckInv
  BY DEF Inv
<1> QED
  BY <1>1, AcksInvariant, PTL

\* An ack is queued, on its way or answered, over every loss and restart.
THEOREM AcksAreKept == Spec => []NoAckVanishes
<1>1. Inv => NoAckVanishes
  BY DEF Inv
<1> QED
  BY <1>1, AcksInvariant, PTL

\* The cache file forgets an ack only when the database has it.
THEOREM QueueForgets == Spec => QueueForgetsOnlyRecorded
<1>1. Inv /\ [Next]_vars => [\A a \in pending \ pending' : table[a] = "acked"]_vars
  <2> SUFFICES ASSUME Inv, Next, NEW a \in pending, a \notin pending'
               PROVE  table[a] = "acked"
    BY DEF vars
  <2>1. RepliesAreTrue /\ pending \subseteq Alarms
    BY DEF Inv, AckInv, TypeOK
  <2>2. ASSUME NEW b \in Alarms, ReceiveAck(b) PROVE table[a] = "acked"
    <3>1. a = b /\ replies.recorded[b] > 0
      BY <2>2 DEF ReceiveAck, AckSucceeded, AckFailed, ClearAck
    <3> QED
      BY <2>1, <2>2, <3>1 DEF RepliesAreTrue
  <2>3. CASE Click
    BY <2>3 DEF Click, QueueAck
  <2>4. RaiseAlarm \/ OtherClientAcks \/ PollAlarms \/ HandleList \/ LoseRequest => UNCHANGED pending
    BY DEF RaiseAlarm, OtherClientAcks, PollAlarms, HandleList, LoseRequest, cacheVars
  <2>5. LoseReply \/ Accept \/ LoseSocket \/ OnConnected \/ OnDisconnected => UNCHANGED pending
    BY DEF LoseReply, Accept, LoseSocket, OnConnected, OnDisconnected, cacheVars
  <2>6. StartupBootstrap \/ ClearAll \/ Restart => UNCHANGED pending
    BY DEF StartupBootstrap, ClearAll, Restart, cacheVars
  <2>7. (\E b \in Alarms : HandleAck(b)) => UNCHANGED pending
    BY DEF HandleAck, cacheVars
  <2>8. CASE Receive
    <3>1. (\E s \in Lists : ReceiveList(s)) \/ ReceiveFailure \/ ReceivePush => UNCHANGED pending
      BY DEF ReceiveList, ReceiveFailure, ReceivePush, cacheVars
    <3> QED
      BY <2>2, <2>8, <3>1 DEF Receive
  <2> QED
    BY <2>3, <2>4, <2>5, <2>6, <2>7, <2>8 DEF Next
<1> QED
  BY <1>1, AcksInvariant, PTL DEF Spec, QueueForgetsOnlyRecorded

\* A link that is up shows every alarm that was broadcast, once its list came.
THEOREM NothingIsMissed == Spec => []NoAlarmIsMissed
<1>1. Inv => NoAlarmIsMissed
  BY DEF Inv, NoGap, NoAlarmIsMissed
<1> QED
  BY <1>1, AcksInvariant, PTL
=============================================================================
