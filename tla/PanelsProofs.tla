---------------------------- MODULE PanelsProofs ----------------------------
(***************************************************************************)
(* Proofs about the rules page, the history page and the client they       *)
(* share, for any contents, devices, windows and numbers of calls.         *)
(***************************************************************************)
EXTENDS PanelsProperties, FiniteSetTheorems, SequenceTheorems, TLAPS

-----------------------------------------------------------------------------
(* The strengthening.                                                       *)

\* Rules that are asked for and not made yet.
Unmade == {n \in DOMAIN calls : Kind(n) = "create" /\ ~Answered(n)}

\* Every rule was made by a call or by another dashboard, or it is the first.
RulesAreCounted ==
    /\ nextRule \in Nat \ {0}
    /\ DOMAIN rules \subseteq 1..(nextRule - 1)
    /\ nextRule + Cardinality(Unmade) <= 2 + actions + mishaps

\* A page that is gone left nothing behind.
NothingOfAClosedPage == ~shown => ~loading /\ tsList = <<>>

\* Without mishaps, a rule that is not on the screen is on its way: a change
\* is in flight, whose answer asks for the list, or the API has still to list
\* the table, or an answer with the rule is in flight.
ListIsOnItsWay ==
    mishaps = 0 =>
        /\ \A n \in DOMAIN calls : calls[n].stage # "failed"
        /\ opened =>
              \/ InFlight(ChangeKinds) # {}
              \/ \E n \in InFlight({"rules"}) : ~Answered(n)
              \/ \A row \in RuleList :
                    \/ row \in OnScreen
                    \/ \E n \in InFlight({"rules"}) : Answered(n) /\ row \in calls[n].answer

\* What the client and the API know of the calls and the tables.
CallInv == CallsTyped /\ TablesTyped /\ CounterIsExact /\ RulesAreCounted

\* The rules page and its part of NoStuckSpinner.
EditorInv ==
    /\ EditorTyped /\ ListIsOnItsWay
    /\ saving => InFlight({"create", "update"}) # {}
    /\ loadingRules => InFlight({"rules"}) # {}

\* The history page and its part.
HistoryInv ==
    /\ HistoryTyped /\ PageFollowsModel /\ NothingOfAClosedPage
    /\ loading => InFlight({"history"}) # {}

PanelsIInv == CallInv /\ EditorInv /\ HistoryInv /\ PagesTyped

-----------------------------------------------------------------------------
(* Calls.                                                                   *)

LEMMA KindsOfRequests ==
    /\ \A request \in Load : request.kind = "rules"
    /\ \A request \in History : request.kind = "history" /\ request.device \in Devices /\ request.since \in 1..MaxRows
    /\ \A request \in Create : request.kind = "create" /\ request.content \in Contents
    /\ \A request \in Update : request.kind = "update" /\ request.id \in Ids /\ request.content \in Contents
    /\ \A request \in Delete : request.kind = "delete" /\ request.id \in Ids
  BY DEF Load, History, Create, Update, Delete

LEMMA KindsDiffer ==
    ASSUME NEW request \in Requests
    PROVE  /\ request.kind \in {"rules", "history"} \cup ChangeKinds
           /\ request.kind \in ChangeKinds <=> request \in Changes
           /\ request.kind = "create" <=> request \in Create
           /\ request.kind = "update" <=> request \in Update
           /\ request.kind = "delete" <=> request \in Delete
           /\ request.kind = "rules" <=> request \in Load
           /\ request.kind = "history" <=> request \in History
  BY KindsOfRequests DEF Requests, Changes, ChangeKinds

LEMMA CallsAreFinite ==
    ASSUME CallsTyped, NEW some \in SUBSET DOMAIN calls
    PROVE  IsFiniteSet(some) /\ Cardinality(some) \in Nat
<1>1. actions \in Nat /\ DOMAIN calls \subseteq 1..actions
  BY CallsAssumption DEF CallsTyped
<1>2. IsFiniteSet(1..actions) /\ some \subseteq 1..actions
  BY <1>1, FS_Interval
<1> QED
  BY <1>2, FS_Subset, FS_CardinalityType

\* A call that was made has a number of its own.
LEMMA SendAdds ==
    ASSUME CallsTyped, NEW request, Send(request)
    PROVE  \E k \in 1..(actions + 1) :
             /\ k \notin DOMAIN calls /\ DOMAIN calls' = DOMAIN calls \cup {k}
             /\ calls'[k] = Sent(request)
             /\ \A n \in DOMAIN calls : calls'[n] = calls[n]
             /\ actions' = actions + 1 /\ actions' \in 0..MaxActions
             /\ busy' = TRUE /\ gets' = gets /\ acks' = acks
<1>1. actions \in Nat /\ DOMAIN calls \subseteq 1..actions /\ MaxActions \in Nat /\ actions < MaxActions
  BY CallsAssumption DEF CallsTyped, Send, Act
<1>2. NextFree \in 1..(actions + 1) /\ NextFree \notin DOMAIN calls
  <2>1. actions + 1 \in 1..(actions + 1) /\ actions + 1 \notin DOMAIN calls
    BY <1>1
  <2> QED
    BY <2>1 DEF NextFree
<1> DEFINE k == NextFree
<1> HIDE DEF k
<1>3. /\ calls' = [m \in DOMAIN calls \cup {k} |-> IF m = k THEN Sent(request) ELSE calls[m]]
      /\ actions' = actions + 1 /\ busy' = TRUE /\ gets' = gets /\ acks' = acks
  BY DEF Send, Act, k
<1>4. k \in 1..(actions + 1) /\ k \notin DOMAIN calls
  BY <1>2 DEF k
<1>5. actions' \in 0..MaxActions
  BY <1>1, <1>3
<1> QED
  BY <1>3, <1>4, <1>5

LEMMA ReplySets ==
    ASSUME CallsTyped, NEW n \in DOMAIN calls, NEW stage, NEW answer, Reply(n, stage, answer)
    PROVE  /\ DOMAIN calls' = DOMAIN calls
           /\ calls'[n] = [request |-> calls[n].request, stage |-> stage, answer |-> answer]
           /\ \A m \in DOMAIN calls : m # n => calls'[m] = calls[m]
<1>1. calls[n] = [request |-> calls[n].request, stage |-> calls[n].stage, answer |-> calls[n].answer]
  BY DEF CallsTyped, CallIsTyped
<1> DEFINE one == [calls EXCEPT ![n].stage = stage]
<1>2. DOMAIN one = DOMAIN calls /\ \A m \in DOMAIN calls : m # n => one[m] = calls[m]
  OBVIOUS
<1>3. one[n] = [request |-> calls[n].request, stage |-> stage, answer |-> calls[n].answer]
  BY <1>1
<1>4. calls' = [one EXCEPT ![n].answer = answer]
  BY DEF Reply
<1> HIDE DEF one
<1> QED
  BY <1>2, <1>3, <1>4

LEMMA DropRemoves ==
    ASSUME NEW n \in DOMAIN calls, Drop(n)
    PROVE  DOMAIN calls' = DOMAIN calls \ {n} /\ \A m \in DOMAIN calls' : calls'[m] = calls[m]
  BY DEF Drop

LEMMA ResendReplaces ==
    ASSUME NEW n \in DOMAIN calls, NEW request, Resend(n, request)
    PROVE  /\ DOMAIN calls' = DOMAIN calls /\ calls'[n] = Sent(request)
           /\ \A m \in DOMAIN calls : m # n => calls'[m] = calls[m]
  BY DEF Resend

LEMMA SentIsTyped ==
    ASSUME NEW request \in Requests
    PROVE  /\ CallIsTyped(Sent(request))
           /\ Sent(request).request = request /\ Sent(request).stage = "sent"
  BY DEF Sent, Stages, CallIsTyped

-----------------------------------------------------------------------------
(* What the client and the API do keeps the calls and the tables in order.  *)

LEMMA CallNames == \A n : Kind(n) = calls[n].request.kind /\ (Answered(n) <=> calls[n].stage # "sent")
  BY DEF Kind, Answered

\* A load or a history is sent.
LEMMA AskKeeps ==
    ASSUME CallInv, NEW request \in Load \cup History, SendUncounted(request),
           UNCHANGED <<unreported, apiVars>>
    PROVE  CallInv'
<1>1. /\ CallsTyped /\ CounterIsExact /\ RulesAreCounted /\ Send(request) /\ pending' = pending
      /\ TablesTyped' /\ nextRule' = nextRule /\ rules' = rules /\ mishaps' = mishaps
  BY DEF CallInv, SendUncounted, TablesTyped, apiVars, tableVars
<1>2. PICK k \in 1..(actions + 1) :
        /\ k \notin DOMAIN calls /\ DOMAIN calls' = DOMAIN calls \cup {k}
        /\ calls'[k] = Sent(request)
        /\ \A n \in DOMAIN calls : calls'[n] = calls[n]
        /\ actions' = actions + 1 /\ actions' \in 0..MaxActions
        /\ busy' = TRUE /\ gets' = gets /\ acks' = acks
  BY <1>1, SendAdds
<1>3. /\ request \in Requests /\ request.kind \in {"rules", "history"}
      /\ CallIsTyped(calls'[k]) /\ calls'[k].request = request
  BY <1>2, KindsOfRequests, SentIsTyped DEF Requests
<1>4. CallsTyped'
  <2>1. \A n \in DOMAIN calls' : CallIsTyped(calls'[n])
    BY <1>1, <1>2, <1>3 DEF CallsTyped
  <2>2. DOMAIN calls' \subseteq 1..actions'
    BY <1>1, <1>2, CallsAssumption DEF CallsTyped
  <2> QED
    BY <1>1, <1>2, <2>1, <2>2 DEF CallsTyped
<1>5. InFlight(ChangeKinds)' = InFlight(ChangeKinds)
  BY <1>2, <1>3 DEF InFlight, Kind, ChangeKinds
<1>6. CounterIsExact'
  BY <1>1, <1>2, <1>5 DEF CounterIsExact
<1>7. Unmade' = Unmade
  BY <1>2, <1>3 DEF Unmade, Kind, Answered
<1>8. Cardinality(Unmade) \in Nat
  BY <1>1, CallsAreFinite DEF Unmade
<1>9. RulesAreCounted'
  BY <1>1, <1>2, <1>7, <1>8, CallsAssumption DEF RulesAreCounted, CallsTyped, TablesTyped
<1> QED
  BY <1>1, <1>4, <1>6, <1>9 DEF CallInv

\* A change is sent.
LEMMA ChangeKeeps ==
    ASSUME CallInv, NEW request \in Changes, SendCounted(request),
           UNCHANGED <<unreported, apiVars>>
    PROVE  CallInv'
<1>1. /\ CallsTyped /\ CounterIsExact /\ RulesAreCounted /\ Send(request) /\ pending' = pending + 1
      /\ TablesTyped' /\ nextRule' = nextRule /\ rules' = rules /\ mishaps' = mishaps
  BY DEF CallInv, SendCounted, TablesTyped, apiVars, tableVars
<1>2. PICK k \in 1..(actions + 1) :
        /\ k \notin DOMAIN calls /\ DOMAIN calls' = DOMAIN calls \cup {k}
        /\ calls'[k] = Sent(request)
        /\ \A n \in DOMAIN calls : calls'[n] = calls[n]
        /\ actions' = actions + 1 /\ actions' \in 0..MaxActions
        /\ busy' = TRUE /\ gets' = gets /\ acks' = acks
  BY <1>1, SendAdds
<1>3. /\ request \in Requests /\ request.kind \in ChangeKinds
      /\ CallIsTyped(calls'[k]) /\ calls'[k].request = request /\ calls'[k].stage = "sent"
  <2>1. request \in Requests
    BY DEF Requests
  <2> QED
    BY <1>2, <2>1, KindsDiffer, SentIsTyped
<1>4. CallsTyped'
  <2>1. \A n \in DOMAIN calls' : CallIsTyped(calls'[n])
    BY <1>1, <1>2, <1>3 DEF CallsTyped
  <2>2. DOMAIN calls' \subseteq 1..actions'
    BY <1>1, <1>2, CallsAssumption DEF CallsTyped
  <2> QED
    BY <1>1, <1>2, <2>1, <2>2 DEF CallsTyped
<1>5. InFlight(ChangeKinds)' = InFlight(ChangeKinds) \cup {k} /\ k \notin InFlight(ChangeKinds)
  BY <1>2, <1>3 DEF InFlight, Kind
<1>6. IsFiniteSet(InFlight(ChangeKinds)) /\ Cardinality(InFlight(ChangeKinds)) \in Nat
  BY <1>1, CallsAreFinite DEF InFlight
<1>7. Cardinality(InFlight(ChangeKinds)') = Cardinality(InFlight(ChangeKinds)) + 1
  BY <1>5, <1>6, FS_AddElement
<1>8. CounterIsExact'
  BY <1>1, <1>2, <1>6, <1>7 DEF CounterIsExact, CallsTyped
<1>9. Unmade' = Unmade \/ (Unmade' = Unmade \cup {k} /\ k \notin Unmade)
  BY <1>2, <1>3 DEF Unmade, Kind, Answered
<1>10. IsFiniteSet(Unmade) /\ Cardinality(Unmade) \in Nat
  BY <1>1, CallsAreFinite DEF Unmade
<1>11. Cardinality(Unmade') \in {Cardinality(Unmade), Cardinality(Unmade) + 1}
  BY <1>9, <1>10, FS_AddElement
<1>12. RulesAreCounted'
  BY <1>1, <1>2, <1>10, <1>11, CallsAssumption DEF RulesAreCounted, CallsTyped, TablesTyped
<1> QED
  BY <1>1, <1>4, <1>8, <1>12 DEF CallInv

\* A load or a history ends.
LEMMA FinishKeeps ==
    ASSUME CallInv, NEW n \in DOMAIN calls, Kind(n) \in {"rules", "history"}, Answered(n),
           FinishUncounted(n), UNCHANGED <<unreported, apiVars>>
    PROVE  CallInv'
<1>1. /\ CallsTyped /\ CounterIsExact /\ RulesAreCounted /\ Drop(n) /\ busy' = FALSE
      /\ TablesTyped' /\ nextRule' = nextRule /\ rules' = rules /\ mishaps' = mishaps
      /\ gets' = gets /\ acks' = acks /\ actions' = actions /\ pending' = pending /\ unreported' = unreported
  BY DEF CallInv, FinishUncounted, TablesTyped, apiVars, tableVars
<1>2. DOMAIN calls' = DOMAIN calls \ {n} /\ \A m \in DOMAIN calls' : calls'[m] = calls[m]
  BY <1>1, DropRemoves
<1>3. CallsTyped'
  BY <1>1, <1>2 DEF CallsTyped
<1>4. InFlight(ChangeKinds)' = InFlight(ChangeKinds)
  BY <1>2 DEF InFlight, Kind, ChangeKinds
<1>5. Unmade' = Unmade
  BY <1>2 DEF Unmade, Kind, Answered
<1>6. CounterIsExact' /\ RulesAreCounted'
  BY <1>1, <1>4, <1>5 DEF CounterIsExact, RulesAreCounted
<1> QED
  BY <1>1, <1>3, <1>6 DEF CallInv

\* A change ends: the load that follows a success takes its place.
LEMMA ChangeEndKeeps ==
    ASSUME CallInv, NEW n \in DOMAIN calls, Kind(n) \in ChangeKinds, Answered(n),
           \/ Resend(n, LoadRequest) /\ CountDown(TRUE)
           \/ Drop(n) /\ CountDown(busy),
           UNCHANGED <<gets, acks, actions, unreported, apiVars>>
    PROVE  CallInv'
<1>1. /\ CallsTyped /\ CounterIsExact /\ RulesAreCounted
      /\ TablesTyped' /\ nextRule' = nextRule /\ rules' = rules /\ mishaps' = mishaps
      /\ gets' = gets /\ acks' = acks /\ actions' = actions /\ unreported' = unreported
  BY DEF CallInv, TablesTyped, apiVars, tableVars
<1>2. CallIsTyped(Sent(LoadRequest)) /\ Sent(LoadRequest).request.kind = "rules" /\ LoadRequest \in Requests
  <2>1. LoadRequest \in Requests /\ LoadRequest.kind = "rules"
    BY DEF LoadRequest, Requests, Load
  <2> QED
    BY <2>1, SentIsTyped
<1>3. /\ DOMAIN calls' \subseteq DOMAIN calls
      /\ \A m \in DOMAIN calls : m # n => m \in DOMAIN calls' /\ calls'[m] = calls[m]
      /\ n \in DOMAIN calls' => calls'[n] = Sent(LoadRequest)
  BY DropRemoves, ResendReplaces
<1>4. /\ pending' = (IF pending > 1 THEN pending - 1 ELSE 0)
      /\ busy' \in BOOLEAN /\ (busy' => pending' > 0)
  BY <1>1 DEF CountDown, CallsTyped
<1>5. InFlight(ChangeKinds)' = InFlight(ChangeKinds) \ {n} /\ n \in InFlight(ChangeKinds)
  BY <1>2, <1>3 DEF InFlight, Kind, ChangeKinds
<1>6. IsFiniteSet(InFlight(ChangeKinds)) /\ Cardinality(InFlight(ChangeKinds)) \in Nat
  BY <1>1, CallsAreFinite DEF InFlight
<1>7. Cardinality(InFlight(ChangeKinds)') = Cardinality(InFlight(ChangeKinds)) - 1
  BY <1>5, <1>6, FS_RemoveElement
<1>8. Cardinality(InFlight(ChangeKinds)') \in Nat
  BY <1>5, <1>6, FS_Subset, FS_CardinalityType
<1>9. pending' = gets + acks + Cardinality(InFlight(ChangeKinds)') /\ pending' \in Nat
  BY <1>1, <1>4, <1>6, <1>7, <1>8 DEF CounterIsExact, CallsTyped
<1>10. CallsTyped'
  <2>1. \A m \in DOMAIN calls' : CallIsTyped(calls'[m])
    BY <1>1, <1>2, <1>3 DEF CallsTyped
  <2> QED
    BY <1>1, <1>3, <1>4, <1>9, <2>1 DEF CallsTyped
<1>11. Unmade' = Unmade
  BY <1>2, <1>3 DEF Unmade, Kind, Answered
<1>12. CounterIsExact' /\ RulesAreCounted'
  BY <1>1, <1>4, <1>9, <1>11 DEF CounterIsExact, RulesAreCounted
<1> QED
  BY <1>1, <1>10, <1>12 DEF CallInv

\* The other calls of the client and the readings.
LEMMA CountedElsewhereKeeps ==
    ASSUME CallInv, Bootstrap \/ AcknowledgeAlarm \/ GetAnswered \/ AckAnswered
    PROVE  CallInv'
<1>1. /\ CallsTyped /\ CounterIsExact /\ RulesAreCounted
      /\ TablesTyped' /\ nextRule' = nextRule /\ rules' = rules /\ mishaps' = mishaps
      /\ calls' = calls
  BY DEF CallInv, TablesTyped, apiVars, tableVars, Bootstrap, AcknowledgeAlarm, GetAnswered, AckAnswered
<1>2. /\ InFlight(ChangeKinds)' = InFlight(ChangeKinds) /\ Unmade' = Unmade
      /\ Cardinality(InFlight(ChangeKinds)) \in Nat /\ Cardinality(Unmade) \in Nat
  BY <1>1, CallsAreFinite DEF InFlight, Unmade, Kind, Answered
<1>3. /\ actions' \in {actions, actions + 1} /\ actions' \in 0..MaxActions
      /\ gets' \in Nat /\ acks' \in Nat /\ pending' \in Nat
      /\ pending' = gets' + acks' + Cardinality(InFlight(ChangeKinds))
      /\ busy' => pending' > 0 \/ DOMAIN calls # {}
  <2>1. CASE Bootstrap
    BY <1>1, <1>2, <2>1, CallsAssumption DEF Bootstrap, Act, CallsTyped, CounterIsExact
  <2>2. CASE AcknowledgeAlarm
    BY <1>1, <1>2, <2>2, CallsAssumption DEF AcknowledgeAlarm, Act, CallsTyped, CounterIsExact
  <2>3. CASE GetAnswered
    <3>1. gets \in Nat /\ acks \in Nat /\ pending \in Nat /\ gets > 0 /\ pending >= 1
      BY <1>1, <1>2, <2>3 DEF GetAnswered, CallsTyped, CounterIsExact
    <3>2. gets' = gets - 1 /\ acks' = acks /\ actions' = actions /\ pending' = pending - 1
      BY <2>3, <3>1 DEF GetAnswered, CountDown
    <3>3. busy' => pending' > 0
      BY <2>3 DEF GetAnswered, CountDown
    <3>4. pending = gets + acks + Cardinality(InFlight(ChangeKinds)) /\ actions \in 0..MaxActions
      BY <1>1 DEF CounterIsExact, CallsTyped
    <3> QED
      BY <1>2, <3>1, <3>2, <3>3, <3>4
  <2>4. CASE AckAnswered
    <3>1. gets \in Nat /\ acks \in Nat /\ pending \in Nat /\ acks > 0 /\ pending >= 1
      BY <1>1, <1>2, <2>4 DEF AckAnswered, CallsTyped, CounterIsExact
    <3>2. acks' = acks - 1 /\ gets' = gets /\ actions' = actions /\ pending' = pending - 1
      BY <2>4, <3>1 DEF AckAnswered, CountDown
    <3>3. busy' => pending' > 0
      BY <2>4 DEF AckAnswered, CountDown
    <3>4. pending = gets + acks + Cardinality(InFlight(ChangeKinds)) /\ actions \in 0..MaxActions
      BY <1>1 DEF CounterIsExact, CallsTyped
    <3> QED
      BY <1>2, <3>1, <3>2, <3>3, <3>4
  <2> QED
    BY <2>1, <2>2, <2>3, <2>4
<1>4. busy' \in BOOLEAN /\ unreported' \in BOOLEAN
  BY <1>1 DEF Bootstrap, AcknowledgeAlarm, GetAnswered, AckAnswered, CountDown, CallsTyped
<1>5. CallsTyped'
  BY <1>1, <1>3, <1>4, CallsAssumption DEF CallsTyped
<1>6. CounterIsExact'
  BY <1>1, <1>2, <1>3 DEF CounterIsExact
<1>7. RulesAreCounted'
  BY <1>1, <1>2, <1>3, CallsAssumption DEF RulesAreCounted, CallsTyped, CallInv, TablesTyped
<1> QED
  BY <1>1, <1>5, <1>6, <1>7 DEF CallInv

LEMMA RecordKeeps ==
    ASSUME CallInv, NEW d \in Devices, RecordReading(d)
    PROVE  CallInv'
<1>1. recorded' \in [Devices -> 0..MaxRows]
  BY CallsAssumption DEF CallInv, TablesTyped, RecordReading
<1>2. UNCHANGED <<clientVars, tableVars, mishaps>>
  BY DEF RecordReading
<1>3. CallsTyped' /\ TablesTyped'
  BY <1>1, <1>2 DEF CallInv, CallsTyped, TablesTyped, clientVars, tableVars
<1>4. InFlight(ChangeKinds)' = InFlight(ChangeKinds) /\ Unmade' = Unmade
  BY <1>2 DEF InFlight, Unmade, Kind, Answered, clientVars
<1>5. CounterIsExact' /\ RulesAreCounted'
  BY <1>2, <1>4 DEF CallInv, CounterIsExact, RulesAreCounted, clientVars, tableVars
<1> QED
  BY <1>3, <1>5 DEF CallInv

-----------------------------------------------------------------------------
(* The rules.                                                               *)

\* A new rule takes the next id; the others change or lose rules that are there.
LEMMA TablesChange ==
    ASSUME TablesTyped, RulesAreCounted, CallsTyped, NEW made \in {0, 1},
           nextRule + made <= 1 + MaxActions + MaxMishaps + 1,
           \/ made = 1 /\ \E content \in Contents : Insert(content)
           \/ made = 0 /\ \E id \in Nat, content \in Contents : Replace(id, content)
           \/ made = 0 /\ \E id \in Nat : Remove(id)
    PROVE  /\ nextRule' = nextRule + made
           /\ DOMAIN rules' \subseteq 1..(nextRule' - 1)
           /\ DOMAIN rules' \subseteq Ids
           /\ \A r \in DOMAIN rules' : rules'[r] \in Contents
<1>1. /\ nextRule \in Nat \ {0} /\ DOMAIN rules \subseteq 1..(nextRule - 1) /\ DOMAIN rules \subseteq Ids
      /\ \A r \in DOMAIN rules : rules[r] \in Contents
      /\ MaxActions \in Nat /\ MaxMishaps \in Nat
  BY CallsAssumption DEF TablesTyped, RulesAreCounted
<1>2. CASE made = 1 /\ \E content \in Contents : Insert(content)
  <2>1. PICK content \in Contents : Insert(content)
    BY <1>2
  <2>2. DOMAIN rules' = DOMAIN rules \cup {nextRule} /\ nextRule' = nextRule + 1
    BY <2>1 DEF Insert
  <2>3. nextRule \in Ids
    BY <1>1, <1>2 DEF Ids
  <2>4. \A r \in DOMAIN rules' : rules'[r] \in Contents
    BY <1>1, <2>1, <2>2 DEF Insert
  <2> QED
    BY <1>1, <1>2, <2>2, <2>3, <2>4
<1>3. CASE made = 0 /\ \E id \in Nat, content \in Contents : Replace(id, content)
  <2>1. PICK id \in Nat, content \in Contents : Replace(id, content)
    BY <1>3
  <2> QED
    BY <1>1, <1>3, <2>1 DEF Replace
<1>4. CASE made = 0 /\ \E id \in Nat : Remove(id)
  <2>1. PICK id \in Nat : Remove(id)
    BY <1>4
  <2> QED
    BY <1>1, <1>4, <2>1 DEF Remove
<1> QED
  BY <1>2, <1>3, <1>4

LEMMA OtherDashboardKeeps == ASSUME CallInv, OtherDashboard PROVE CallInv'
<1>1. /\ CallsTyped /\ TablesTyped /\ CounterIsExact /\ RulesAreCounted
      /\ mishaps < MaxMishaps /\ mishaps' = mishaps + 1 /\ UNCHANGED <<clientVars, recorded>>
  BY DEF CallInv, OtherDashboard
<1>2. /\ actions \in Nat /\ actions <= MaxActions /\ mishaps \in Nat /\ MaxActions \in Nat /\ MaxMishaps \in Nat
      /\ nextRule \in Nat
  BY <1>1, CallsAssumption DEF CallsTyped, TablesTyped
<1>3. Cardinality(Unmade) \in Nat /\ Unmade' = Unmade
  BY <1>1, CallsAreFinite DEF Unmade, Kind, Answered, clientVars
<1>4. PICK made \in {0, 1} :
           \/ made = 1 /\ \E content \in Contents : Insert(content)
           \/ made = 0 /\ \E id \in Nat, content \in Contents : Replace(id, content)
           \/ made = 0 /\ \E id \in Nat : Remove(id)
  <2>1. \A r \in DOMAIN rules : r \in Nat
    BY <1>1, <1>2 DEF RulesAreCounted
  <2> QED
    BY <2>1 DEF OtherDashboard
<1>5. nextRule + made <= 1 + MaxActions + MaxMishaps + 1
  BY <1>1, <1>2, <1>3 DEF RulesAreCounted
<1>6. /\ nextRule' = nextRule + made
      /\ DOMAIN rules' \subseteq 1..(nextRule' - 1)
      /\ DOMAIN rules' \subseteq Ids
      /\ \A r \in DOMAIN rules' : rules'[r] \in Contents
  BY <1>1, <1>4, <1>5, TablesChange
<1>7. CallsTyped' /\ TablesTyped'
  BY <1>1, <1>2, <1>6 DEF CallsTyped, TablesTyped, clientVars
<1>8. RulesAreCounted'
  BY <1>1, <1>2, <1>3, <1>6 DEF RulesAreCounted, clientVars
<1>9. CounterIsExact'
  BY <1>1 DEF CounterIsExact, InFlight, Kind, clientVars
<1> QED
  BY <1>7, <1>8, <1>9 DEF CallInv

\* A reply changes neither the requests nor the counter.
LEMMA ReplyKeepsCounter ==
    ASSUME CallInv, NEW n \in DOMAIN calls, NEW stage \in {"ok", "failed"}, NEW answer, Reply(n, stage, answer),
           CallIsTyped([request |-> calls[n].request, stage |-> stage, answer |-> answer]),
           UNCHANGED <<gets, acks, actions, pending, busy, unreported>>
    PROVE  /\ CallsTyped' /\ CounterIsExact'
           /\ Unmade' = Unmade \ {n}
<1>1. CallsTyped /\ CounterIsExact
  BY DEF CallInv
<1>2. /\ DOMAIN calls' = DOMAIN calls
      /\ calls'[n] = [request |-> calls[n].request, stage |-> stage, answer |-> answer]
      /\ \A m \in DOMAIN calls : m # n => calls'[m] = calls[m]
  BY <1>1, ReplySets
<1>3. CallsTyped'
  BY <1>1, <1>2 DEF CallsTyped
<1>4. InFlight(ChangeKinds)' = InFlight(ChangeKinds)
  BY <1>2 DEF InFlight, Kind
<1>5. CounterIsExact'
  BY <1>1, <1>2, <1>4 DEF CounterIsExact
<1>6. Unmade' = Unmade \ {n}
  BY <1>2 DEF Unmade, Kind, Answered
<1> QED
  BY <1>3, <1>5, <1>6

LEMMA ListingIsComplete ==
    ASSUME NEW ids \in SUBSET Nat, IsFiniteSet(ids), NEW rows \in InOrder(ids)
    PROVE  /\ rows \in Seq(ids) /\ Len(rows) \in Nat /\ DOMAIN rows = 1..Len(rows)
           /\ \A i \in 1..Len(rows) : rows[i] \in ids
           /\ \A i, j \in 1..Len(rows) : i < j => rows[i] < rows[j]
           /\ \A id \in ids : \E i \in 1..Len(rows) : rows[i] = id
<1> DEFINE n == Cardinality(ids)
<1>1. n \in Nat
  BY FS_CardinalityType
<1>2. /\ rows \in [1..n -> ids]
      /\ \A i, j \in 1..n : i < j => rows[i] < rows[j]
      /\ \A id \in ids : \E i \in 1..n : rows[i] = id
  BY DEF InOrder, Bijection, Surjection
<1> HIDE DEF n
<1>3. rows \in Seq(ids) /\ Len(rows) = n
  BY <1>1, <1>2
<1> QED
  BY <1>1, <1>2, <1>3

\* The window of a history, and what its answer lists.
LEMMA WindowOf ==
    ASSUME CallInv, NEW n \in DOMAIN calls, Kind(n) = "history"
    PROVE  /\ calls[n].request.since \in 1..MaxRows
           /\ recorded[calls[n].request.device] \in 0..MaxRows
<1>1. calls[n].request \in Requests /\ calls[n].request.kind = "history"
  BY CallNames DEF CallInv, CallsTyped, CallIsTyped
<1>2. calls[n].request \in History
  BY <1>1, KindsDiffer
<1> QED
  BY <1>2, KindsOfRequests DEF CallInv, TablesTyped

LEMMA KeptAreRows ==
    ASSUME NEW first \in 1..MaxRows, NEW last \in 0..MaxRows,
           NEW rows \in InOrder(Downsampled(first, last))
    PROVE  /\ Downsampled(first, last) \in SUBSET Nat /\ IsFiniteSet(Downsampled(first, last))
           /\ rows \in Seq(1..MaxRows)
<1> DEFINE kept == Downsampled(first, last)
<1>1. MaxRows \in Nat
  BY CallsAssumption
<1>2. kept \in SUBSET (first..last)
  BY DEF Downsampled
<1> HIDE DEF kept
<1>3. kept \in SUBSET (1..MaxRows)
  BY <1>1, <1>2
<1>4. IsFiniteSet(1..MaxRows)
  BY <1>1, FS_Interval
<1>5. IsFiniteSet(kept)
  BY <1>3, <1>4, FS_Subset
<1>6. kept \in SUBSET Nat
  BY <1>1, <1>3
<1>7. rows \in Seq(kept)
  BY <1>5, <1>6, ListingIsComplete DEF kept
<1>8. rows \in Seq(1..MaxRows)
  BY <1>3, <1>7, SeqMonotonic
<1> QED
  BY <1>5, <1>8, <1>6 DEF kept

\* What a reply adds fits the request.
LEMMA ReplyIsTyped ==
    ASSUME CallInv, NEW n \in DOMAIN calls, NEW stage, NEW answer,
           \/ stage = "failed" /\ answer = Nothing
           \/ stage = "ok" /\ Kind(n) \in ChangeKinds /\ answer = Nothing
           \/ stage = "ok" /\ Kind(n) = "rules" /\ answer \in SUBSET Row
           \/ stage = "ok" /\ Kind(n) = "history" /\ answer \in Seq(1..MaxRows)
    PROVE  CallIsTyped([request |-> calls[n].request, stage |-> stage, answer |-> answer])
<1>1. calls[n].request \in Requests /\ calls[n].request.kind = Kind(n)
  BY CallNames DEF CallInv, CallsTyped, CallIsTyped
<1> QED
  BY <1>1 DEF CallIsTyped, Stages, ChangeKinds

LEMMA RulesAreRows == CallInv => RuleList \subseteq Row
  BY DEF CallInv, TablesTyped, RuleList, Row

\* A reply that makes no rule.
LEMMA QuietReplyKeeps ==
    ASSUME CallInv, NEW n \in DOMAIN calls, NEW stage \in {"ok", "failed"}, NEW answer, Reply(n, stage, answer),
           CallIsTyped([request |-> calls[n].request, stage |-> stage, answer |-> answer]),
           UNCHANGED <<gets, acks, actions, pending, busy, unreported, recorded>>,
           mishaps' \in {mishaps, mishaps + 1}, mishaps' \in 0..MaxMishaps, nextRule' = nextRule,
           DOMAIN rules' \subseteq DOMAIN rules, \A r \in DOMAIN rules' : rules'[r] \in Contents
    PROVE  CallInv'
<1>1. CallsTyped' /\ CounterIsExact' /\ Unmade' = Unmade \ {n}
  BY ReplyKeepsCounter
<1>2. TablesTyped'
  BY DEF CallInv, TablesTyped
<1>3. /\ CallsTyped /\ IsFiniteSet(Unmade) /\ Cardinality(Unmade) \in Nat
      /\ actions \in Nat /\ mishaps \in Nat
  BY CallsAreFinite, CallsAssumption DEF CallInv, Unmade, CallsTyped, TablesTyped
<1>4. Cardinality(Unmade') <= Cardinality(Unmade) /\ Cardinality(Unmade') \in Nat
  BY <1>1, <1>3, FS_Subset, FS_CardinalityType
<1>5. RulesAreCounted'
  BY <1>3, <1>4 DEF CallInv, RulesAreCounted
<1> QED
  BY <1>1, <1>2, <1>5 DEF CallInv

LEMMA LoseCallKeeps == ASSUME CallInv, NEW n \in DOMAIN calls, LoseCall(n) PROVE CallInv'
<1>1. CallIsTyped([request |-> calls[n].request, stage |-> "failed", answer |-> Nothing])
  BY ReplyIsTyped
<1>2. mishaps' \in {mishaps, mishaps + 1} /\ mishaps' \in 0..MaxMishaps
  BY CallsAssumption DEF LoseCall, CallInv, TablesTyped
<1>3. \A r \in DOMAIN rules' : rules'[r] \in Contents
  BY DEF LoseCall, tableVars, CallInv, TablesTyped
<1> QED
  BY <1>1, <1>2, <1>3, QuietReplyKeeps DEF LoseCall, tableVars

LEMMA ServeKeeps == ASSUME CallInv, NEW n \in DOMAIN calls, Serve(n) PROVE CallInv'
<1>1. /\ CallsTyped /\ TablesTyped /\ CounterIsExact /\ RulesAreCounted
      /\ UNCHANGED <<gets, acks, actions, pending, busy, unreported, recorded>>
      /\ ~Answered(n)
  BY DEF CallInv, Serve
<1>2. CASE ServeRead(n)
  <2>1. /\ mishaps' \in {mishaps, mishaps + 1} /\ mishaps' \in 0..MaxMishaps /\ nextRule' = nextRule
        /\ DOMAIN rules' \subseteq DOMAIN rules /\ \A r \in DOMAIN rules' : rules'[r] \in Contents
    BY <1>1, <1>2 DEF ServeRead, tableVars, TablesTyped
  <2>2. CASE Kind(n) = "rules" /\ Reply(n, "ok", RuleList)
    <3>1. CallIsTyped([request |-> calls[n].request, stage |-> "ok", answer |-> RuleList])
      BY <2>2, RulesAreRows, ReplyIsTyped
    <3> QED
      BY <1>1, <2>1, <2>2, <3>1, QuietReplyKeeps
  <2>3. CASE Kind(n) = "history"
    <3>1. PICK rows \in InOrder(Downsampled(calls[n].request.since, recorded[calls[n].request.device])) :
            Reply(n, "ok", rows)
      BY <1>2, <2>3 DEF ServeRead
    <3>2. rows \in Seq(1..MaxRows)
      BY <2>3, WindowOf, KeptAreRows
    <3>3. CallIsTyped([request |-> calls[n].request, stage |-> "ok", answer |-> rows])
      BY <2>3, <3>2, ReplyIsTyped
    <3> QED
      BY <1>1, <2>1, <3>1, <3>3, QuietReplyKeeps
  <2> QED
    BY <1>2, <2>2, <2>3 DEF ServeRead
<1>3. CASE ServeFault(n)
  <2>1. /\ mishaps' \in {mishaps, mishaps + 1} /\ mishaps' \in 0..MaxMishaps /\ nextRule' = nextRule
        /\ DOMAIN rules' \subseteq DOMAIN rules /\ \A r \in DOMAIN rules' : rules'[r] \in Contents
    BY <1>1, <1>3, CallsAssumption DEF ServeFault, tableVars, TablesTyped
  <2>2. PICK stage \in {"ok", "failed"}, answer \in {Nothing, {}, <<>>} :
          /\ Reply(n, stage, answer)
          /\ \/ stage = "failed" /\ answer = Nothing
             \/ stage = "ok" /\ Kind(n) = "rules" /\ answer = {}
             \/ stage = "ok" /\ Kind(n) = "history" /\ answer = <<>>
    BY <1>3 DEF ServeFault
  <2>3. <<>> \in Seq(1..MaxRows)
    BY EmptySeq
  <2>4. CallIsTyped([request |-> calls[n].request, stage |-> stage, answer |-> answer])
    BY <2>2, <2>3, ReplyIsTyped
  <2> QED
    BY <1>1, <2>1, <2>2, <2>4, QuietReplyKeeps
<1>4. CASE ServeChange(n)
  <2>1. /\ Kind(n) \in ChangeKinds /\ Change(calls[n].request) /\ Reply(n, "ok", Nothing) /\ mishaps' = mishaps
    BY <1>4 DEF ServeChange
  <2>2. calls[n].request \in Requests /\ calls[n].request.kind = Kind(n)
    BY <1>1, CallNames DEF CallsTyped, CallIsTyped
  <2>3. CallIsTyped([request |-> calls[n].request, stage |-> "ok", answer |-> Nothing])
    BY <2>1, ReplyIsTyped
  <2>4. CallsTyped' /\ CounterIsExact' /\ Unmade' = Unmade \ {n}
    BY <1>1, <2>1, <2>3, ReplyKeepsCounter
  <2>5. /\ IsFiniteSet(Unmade) /\ Cardinality(Unmade) \in Nat
        /\ actions \in Nat /\ actions <= MaxActions /\ mishaps \in Nat /\ mishaps <= MaxMishaps
        /\ nextRule \in Nat /\ MaxActions \in Nat /\ MaxMishaps \in Nat
    BY <1>1, CallsAreFinite, CallsAssumption DEF Unmade, CallsTyped, TablesTyped
  <2>6. CASE Kind(n) = "create"
    <3>1. n \in Unmade /\ Cardinality(Unmade') = Cardinality(Unmade) - 1 /\ Cardinality(Unmade') \in Nat
      <4>1. n \in Unmade
        BY <1>1, <2>6 DEF Unmade
      <4> QED
        BY <2>4, <2>5, <4>1, FS_RemoveElement, FS_Subset, FS_CardinalityType
    <3>2. nextRule + 1 <= 1 + MaxActions + MaxMishaps + 1
      BY <1>1, <2>5, <3>1 DEF RulesAreCounted
    <3>3. calls[n].request.content \in Contents /\ Insert(calls[n].request.content)
      <4>1. calls[n].request \in Create
        BY <2>2, <2>6, KindsDiffer
      <4>2. calls[n].request.kind = "create"
        BY <2>2, <2>6
      <4> QED
        BY <2>1, <4>1, <4>2, KindsOfRequests DEF Change
    <3>4. /\ nextRule' = nextRule + 1
          /\ DOMAIN rules' \subseteq 1..(nextRule' - 1) /\ DOMAIN rules' \subseteq Ids
          /\ \A r \in DOMAIN rules' : rules'[r] \in Contents
      BY <1>1, <3>2, <3>3, TablesChange
    <3>5. TablesTyped'
      BY <1>1, <2>1, <2>5, <3>4 DEF TablesTyped
    <3>6. RulesAreCounted'
      BY <1>1, <2>1, <2>5, <3>1, <3>4 DEF RulesAreCounted
    <3> QED
      BY <2>4, <3>5, <3>6 DEF CallInv
  <2>7. CASE Kind(n) \in {"update", "delete"}
    <3>1. /\ nextRule' = nextRule /\ DOMAIN rules' \subseteq DOMAIN rules
          /\ \A r \in DOMAIN rules' : rules'[r] \in Contents
      <4>1. CASE Kind(n) = "update"
        <5>1. calls[n].request.content \in Contents /\ Replace(calls[n].request.id, calls[n].request.content)
          <6>1. calls[n].request \in Update /\ calls[n].request.kind = "update"
            BY <2>2, <4>1, KindsDiffer
          <6> QED
            BY <2>1, <6>1, KindsOfRequests DEF Change
        <5> QED
          BY <1>1, <5>1 DEF Replace, TablesTyped
      <4>2. CASE Kind(n) = "delete"
        <5>1. Remove(calls[n].request.id)
          BY <2>1, <2>2, <4>2 DEF Change
        <5> QED
          BY <1>1, <5>1 DEF Remove, TablesTyped
      <4> QED
        BY <2>7, <4>1, <4>2
    <3>2. mishaps' \in {mishaps, mishaps + 1} /\ mishaps' \in 0..MaxMishaps
      BY <1>1, <2>1 DEF TablesTyped
    <3> QED
      BY <1>1, <2>1, <2>3, <3>1, <3>2, QuietReplyKeeps
  <2> QED
    BY <2>1, <2>6, <2>7 DEF ChangeKinds
<1> QED
  BY <1>2, <1>3, <1>4 DEF Serve

-----------------------------------------------------------------------------
(* The rules page.                                                          *)

\* Calls that the rules page waits for stay as they are, and none fails.
EditorCallsStay ==
    /\ \A n \in DOMAIN calls : Kind(n) \in ChangeKinds \cup {"rules"} =>
          n \in DOMAIN calls' /\ calls'[n] = calls[n]
    /\ \A n \in DOMAIN calls' :
          calls'[n].stage # "failed" \/ (n \in DOMAIN calls /\ calls'[n] = calls[n])

LEMMA ListStays ==
    ASSUME ListIsOnItsWay, EditorCallsStay, UNCHANGED <<rules, listed, opened, mishaps>>
    PROVE  ListIsOnItsWay'
<1> SUFFICES ASSUME mishaps = 0
             PROVE  /\ \A n \in DOMAIN calls' : calls'[n].stage # "failed"
                    /\ opened =>
                          \/ InFlight(ChangeKinds)' # {}
                          \/ \E n \in InFlight({"rules"})' : ~Answered(n)'
                          \/ \A row \in RuleList :
                                \/ row \in OnScreen
                                \/ \E n \in InFlight({"rules"})' : Answered(n)' /\ row \in calls'[n].answer
  BY DEF ListIsOnItsWay, RuleList, OnScreen
<1>1. \A n \in DOMAIN calls : calls[n].stage # "failed"
  BY DEF ListIsOnItsWay
<1>2. \A n \in DOMAIN calls' : calls'[n].stage # "failed"
  BY <1>1 DEF EditorCallsStay
<1>3. InFlight(ChangeKinds) # {} => InFlight(ChangeKinds)' # {}
  BY DEF EditorCallsStay, InFlight, Kind
<1>4. \A n \in InFlight({"rules"}) : n \in InFlight({"rules"})' /\ calls'[n] = calls[n]
  BY DEF EditorCallsStay, InFlight, Kind
<1>5. CASE \E n \in InFlight({"rules"}) : ~Answered(n)
  BY <1>2, <1>4, <1>5 DEF Answered
<1>6. CASE InFlight(ChangeKinds) # {}
  BY <1>2, <1>3, <1>6
<1>7. CASE \A row \in RuleList :
              \/ row \in OnScreen
              \/ \E n \in InFlight({"rules"}) : Answered(n) /\ row \in calls[n].answer
  BY <1>2, <1>4, <1>7 DEF Answered
<1> QED
  BY <1>2, <1>5, <1>6, <1>7 DEF ListIsOnItsWay

LEMMA EditorStays ==
    ASSUME EditorInv, EditorCallsStay, UNCHANGED <<editorVars, rules, mishaps>>
    PROVE  EditorInv'
<1>1. EditorTyped' /\ saving' = saving /\ loadingRules' = loadingRules
  BY DEF EditorInv, EditorTyped, editorVars
<1>2. ListIsOnItsWay'
  BY ListStays DEF EditorInv, editorVars
<1>3. /\ InFlight({"create", "update"}) # {} => InFlight({"create", "update"})' # {}
      /\ InFlight({"rules"}) # {} => InFlight({"rules"})' # {}
  BY DEF EditorCallsStay, InFlight, Kind, ChangeKinds
<1> QED
  BY <1>1, <1>2, <1>3 DEF EditorInv

\* A load of the list: whatever was on the screen, it will be listed.
LEMMA LoadBrings ==
    ASSUME CallInv, EditorInv, AskForRules, opened' \in BOOLEAN
    PROVE  EditorInv' /\ CallInv'
<1>1. /\ listed' = NoRows /\ loadingRules' = TRUE
      /\ SendUncounted(LoadRequest) /\ UNCHANGED <<editingId, saving, lastAction, unreported, apiVars>>
  BY DEF AskForRules, LoadRules
<1>2. LoadRequest \in Load \cup History /\ LoadRequest.kind = "rules"
  BY DEF LoadRequest, Load
<1>3. CallInv'
  BY <1>1, <1>2, AskKeeps
<1>4. PICK k \in 1..(actions + 1) :
        /\ k \notin DOMAIN calls /\ DOMAIN calls' = DOMAIN calls \cup {k}
        /\ calls'[k] = Sent(LoadRequest)
        /\ \A n \in DOMAIN calls : calls'[n] = calls[n]
  BY <1>1, SendAdds DEF CallInv, SendUncounted
<1>5. calls'[k].request.kind = "rules" /\ calls'[k].stage = "sent"
  BY <1>2, <1>4 DEF Sent
<1>6. EditorTyped'
  BY <1>1 DEF EditorInv, EditorTyped, NoRows
<1>7. k \in InFlight({"rules"})' /\ ~Answered(k)'
  BY <1>4, <1>5 DEF InFlight, Kind, Answered
<1>8. saving => InFlight({"create", "update"})' # {}
  BY <1>4 DEF EditorInv, InFlight, Kind
<1>9. mishaps' = 0 => \A n \in DOMAIN calls' : calls'[n].stage # "failed"
  BY <1>1, <1>4, <1>5 DEF EditorInv, ListIsOnItsWay, apiVars
<1>10. ListIsOnItsWay'
  BY <1>7, <1>9 DEF ListIsOnItsWay
<1> QED
  BY <1>1, <1>3, <1>6, <1>7, <1>8, <1>10 DEF EditorInv

\* A change: its answer asks for the list.
LEMMA ChangeBrings ==
    ASSUME CallInv, EditorInv, NEW request \in Changes, SendCounted(request),
           UNCHANGED <<opened, editingId, loadingRules, listed, unreported, apiVars>>,
           lastAction' \in ChangeKinds, saving' \in BOOLEAN,
           saving' => saving \/ request.kind \in {"create", "update"}
    PROVE  EditorInv' /\ CallInv'
<1>1. CallInv'
  BY ChangeKeeps
<1>2. PICK k \in 1..(actions + 1) :
        /\ k \notin DOMAIN calls /\ DOMAIN calls' = DOMAIN calls \cup {k}
        /\ calls'[k] = Sent(request)
        /\ \A n \in DOMAIN calls : calls'[n] = calls[n]
  BY SendAdds DEF CallInv, SendCounted
<1>3. calls'[k].request = request /\ calls'[k].stage = "sent" /\ request.kind \in ChangeKinds
  BY <1>2, KindsOfRequests DEF Sent, Changes, ChangeKinds
<1>4. EditorTyped'
  BY DEF EditorInv, EditorTyped
<1>5. k \in InFlight(ChangeKinds)'
  BY <1>2, <1>3 DEF InFlight, Kind
<1>6. saving' => InFlight({"create", "update"})' # {}
  BY <1>2, <1>3 DEF EditorInv, InFlight, Kind
<1>7. loadingRules => InFlight({"rules"})' # {}
  BY <1>2 DEF EditorInv, InFlight, Kind
<1>8. mishaps' = 0 => \A n \in DOMAIN calls' : calls'[n].stage # "failed"
  BY <1>2, <1>3 DEF EditorInv, ListIsOnItsWay, apiVars
<1>9. ListIsOnItsWay'
  BY <1>5, <1>8 DEF ListIsOnItsWay
<1> QED
  BY <1>1, <1>4, <1>6, <1>7, <1>9 DEF EditorInv

LEMMA UserEditsKeep ==
    ASSUME CallInv, EditorInv, UserEdits
    PROVE  EditorInv' /\ CallInv' /\ opened' = opened
<1>1. CASE Refresh
  <2>1. AskForRules /\ opened' = opened /\ opened' \in BOOLEAN
    BY <1>1 DEF Refresh, EditorInv, EditorTyped
  <2> QED
    BY <2>1, LoadBrings
<1>2. CASE Cancel \/ \E row \in OnScreen : EditRule(row)
  <2>1. UNCHANGED <<opened, saving, loadingRules, lastAction, listed, callVars>>
    BY <1>2 DEF Cancel, EditRule
  <2>2. editingId' \in Ids \cup {Nothing}
    BY <1>2 DEF Cancel, EditRule, OnScreen, Row
  <2>3. CallInv' /\ EditorCallsStay
    BY <2>1 DEF CallInv, CallsTyped, TablesTyped, CounterIsExact, RulesAreCounted, Unmade, InFlight, Kind, Answered,
                callVars, clientVars, apiVars, tableVars, EditorCallsStay
  <2>4. ListIsOnItsWay'
    BY <2>1, <2>3, ListStays DEF EditorInv, callVars, clientVars, apiVars, tableVars
  <2>5. EditorTyped'
    BY <2>1, <2>2 DEF EditorInv, EditorTyped
  <2>6. InFlight({"create", "update"})' = InFlight({"create", "update"}) /\ InFlight({"rules"})' = InFlight({"rules"})
    BY <2>1 DEF InFlight, Kind, callVars, clientVars
  <2> QED
    BY <2>1, <2>3, <2>4, <2>5, <2>6 DEF EditorInv
<1>3. ASSUME NEW content \in Contents, Submit(content) PROVE EditorInv' /\ CallInv' /\ opened' = opened
  <2>1. PICK request \in Create \cup Update : SendCounted(request) /\ lastAction' \in ChangeKinds
    <3>1. CASE editingId = Nothing
      <4>1. [kind |-> "create", content |-> content] \in Create
        BY DEF Create
      <4> QED
        BY <1>3, <3>1, <4>1 DEF Submit, ChangeKinds
    <3>2. CASE editingId # Nothing
      <4>1. [kind |-> "update", id |-> editingId, content |-> content] \in Update
        BY <3>2 DEF Update, EditorInv, EditorTyped
      <4> QED
        BY <1>3, <3>2, <4>1 DEF Submit, ChangeKinds
    <3> QED
      BY <3>1, <3>2
  <2>2. request \in Changes /\ request.kind \in {"create", "update"}
    BY <2>1, KindsOfRequests DEF Changes
  <2>3. saving' = TRUE /\ UNCHANGED <<opened, editingId, loadingRules, listed, unreported, apiVars>>
    BY <1>3 DEF Submit
  <2> QED
    BY <2>1, <2>2, <2>3, ChangeBrings
<1>4. ASSUME NEW row \in OnScreen, DeleteRule(row) PROVE EditorInv' /\ CallInv' /\ opened' = opened
  <2> DEFINE request == [kind |-> "delete", id |-> row.id]
  <2>1. request \in Changes
    BY DEF OnScreen, Row, Delete, Changes
  <2>2. /\ SendCounted(request) /\ lastAction' \in ChangeKinds /\ saving' = saving /\ saving' \in BOOLEAN
        /\ UNCHANGED <<opened, editingId, loadingRules, listed, unreported, apiVars>>
    BY <1>4 DEF DeleteRule, ChangeKinds, EditorInv, EditorTyped
  <2> HIDE DEF request
  <2> QED
    BY <2>1, <2>2, ChangeBrings
<1> QED
  BY <1>1, <1>2, <1>3, <1>4 DEF UserEdits

\* The list arrives: its rows join the screen.
LEMMA ListArrives ==
    ASSUME CallInv, EditorInv, NEW n \in DOMAIN calls, RulesLoadFinished(n)
    PROVE  EditorInv' /\ CallInv' /\ opened' = opened
<1>1. /\ Kind(n) = "rules" /\ Answered(n) /\ FinishUncounted(n) /\ loadingRules' = FALSE
      /\ UNCHANGED <<opened, editingId, saving, lastAction, unreported, apiVars>>
  BY DEF RulesLoadFinished
<1>2. CallInv'
  BY <1>1, FinishKeeps
<1>3. DOMAIN calls' = DOMAIN calls \ {n} /\ \A m \in DOMAIN calls' : calls'[m] = calls[m]
  BY <1>1, DropRemoves DEF FinishUncounted
<1>4. /\ listed \in [Row -> Nat]
      /\ calls[n].stage = "ok" => listed' = [row \in Row |-> IF row \in calls[n].answer THEN listed[row] + 1 ELSE listed[row]]
      /\ calls[n].stage # "ok" => listed' = listed
  BY DEF RulesLoadFinished, EditorInv, EditorTyped
<1>5. listed' \in [Row -> Nat] /\ OnScreen \subseteq OnScreen'
  BY <1>4 DEF OnScreen
<1>6. EditorTyped'
  BY <1>1, <1>5 DEF EditorInv, EditorTyped
<1>7. saving => InFlight({"create", "update"})' # {}
  BY <1>1, <1>3 DEF EditorInv, InFlight, Kind
<1>8. ListIsOnItsWay'
  <2> SUFFICES ASSUME mishaps = 0
               PROVE  /\ \A m \in DOMAIN calls' : calls'[m].stage # "failed"
                      /\ opened =>
                            \/ InFlight(ChangeKinds)' # {}
                            \/ \E m \in InFlight({"rules"})' : ~Answered(m)'
                            \/ \A row \in RuleList :
                                  \/ row \in OnScreen'
                                  \/ \E m \in InFlight({"rules"})' : Answered(m)' /\ row \in calls'[m].answer
    BY <1>1 DEF ListIsOnItsWay, RuleList, apiVars, tableVars
  <2>1. \A m \in DOMAIN calls : calls[m].stage # "failed"
    BY DEF EditorInv, ListIsOnItsWay
  <2>2. calls[n].stage = "ok" /\ calls[n].answer \subseteq Row
    BY <1>1, <2>1, CallNames DEF CallInv, CallsTyped, CallIsTyped, Stages
  <2>3. calls[n].answer \subseteq OnScreen'
    BY <1>4, <2>2 DEF OnScreen
  <2>4. InFlight(ChangeKinds) # {} => InFlight(ChangeKinds)' # {}
    BY <1>1, <1>3 DEF InFlight, Kind, ChangeKinds
  <2>5. \A m \in InFlight({"rules"}) : m # n => m \in InFlight({"rules"})' /\ calls'[m] = calls[m]
    BY <1>3 DEF InFlight, Kind
  <2>6. CASE InFlight(ChangeKinds) # {}
    BY <1>3, <2>1, <2>4, <2>6
  <2>7. CASE \E m \in InFlight({"rules"}) : ~Answered(m)
    BY <1>1, <1>3, <2>1, <2>5, <2>7 DEF Answered
  <2>8. CASE \A row \in RuleList :
                \/ row \in OnScreen
                \/ \E m \in InFlight({"rules"}) : Answered(m) /\ row \in calls[m].answer
    <3>1. ASSUME NEW row \in RuleList
          PROVE  \/ row \in OnScreen'
                 \/ \E m \in InFlight({"rules"})' : Answered(m)' /\ row \in calls'[m].answer
      BY <1>5, <2>3, <2>5, <2>8 DEF Answered
    <3> QED
      BY <1>3, <2>1, <3>1
  <2> QED
    BY <1>3, <2>1, <2>6, <2>7, <2>8 DEF EditorInv, ListIsOnItsWay
<1> QED
  BY <1>1, <1>2, <1>6, <1>7, <1>8 DEF EditorInv

\* A change is answered.
LEMMA ChangeIsAnswered ==
    ASSUME CallInv, EditorInv, NEW n \in DOMAIN calls, RuleMutationFinished(n)
    PROVE  EditorInv' /\ CallInv' /\ opened' = opened
<1>1. /\ Kind(n) \in ChangeKinds /\ Answered(n)
      /\ UNCHANGED <<opened, lastAction, gets, acks, actions, unreported, apiVars>>
  BY DEF RuleMutationFinished
<1>2. CASE calls[n].stage = "ok"
  <2>1. MutationSucceeded(n)
    BY <1>2 DEF RuleMutationFinished
  <2>2. /\ Resend(n, LoadRequest) /\ CountDown(TRUE) /\ saving' = FALSE /\ editingId' = Nothing
        /\ loadingRules' = TRUE /\ listed' = NoRows
    BY <2>1 DEF MutationSucceeded, LoadRules
  <2>3. CallInv'
    BY <1>1, <2>2, ChangeEndKeeps
  <2>4. /\ DOMAIN calls' = DOMAIN calls /\ calls'[n] = Sent(LoadRequest)
        /\ \A m \in DOMAIN calls : m # n => calls'[m] = calls[m]
    BY <2>2, ResendReplaces
  <2>5. calls'[n].request.kind = "rules" /\ calls'[n].stage = "sent"
    BY <2>4 DEF Sent, LoadRequest
  <2>6. n \in InFlight({"rules"})' /\ ~Answered(n)'
    BY <2>4, <2>5 DEF InFlight, Kind, Answered
  <2>7. mishaps' = 0 => \A m \in DOMAIN calls' : calls'[m].stage # "failed"
    BY <1>1, <2>4, <2>5 DEF EditorInv, ListIsOnItsWay, apiVars
  <2>8. ListIsOnItsWay'
    BY <2>6, <2>7 DEF ListIsOnItsWay
  <2>9. EditorTyped'
    BY <1>1, <2>2 DEF EditorInv, EditorTyped, NoRows
  <2> QED
    BY <1>1, <2>2, <2>3, <2>6, <2>8, <2>9 DEF EditorInv
<1>3. CASE calls[n].stage # "ok"
  <2>1. MutationFailed(n)
    BY <1>3 DEF RuleMutationFinished
  <2>2. /\ Drop(n) /\ CountDown(busy) /\ saving' = FALSE /\ UNCHANGED <<editingId, loadingRules, listed>>
    BY <2>1 DEF MutationFailed
  <2>3. CallInv'
    BY <1>1, <2>2, ChangeEndKeeps
  <2>4. DOMAIN calls' = DOMAIN calls \ {n} /\ \A m \in DOMAIN calls' : calls'[m] = calls[m]
    BY <2>2, DropRemoves
  <2>5. mishaps # 0
    <3>1. calls[n].stage = "failed"
      BY <1>1, <1>3 DEF CallInv, CallsTyped, CallIsTyped, Stages, Answered
    <3> QED
      BY <3>1 DEF EditorInv, ListIsOnItsWay
  <2>6. ListIsOnItsWay'
    BY <1>1, <2>5 DEF ListIsOnItsWay, apiVars
  <2>7. EditorTyped'
    BY <1>1, <2>2 DEF EditorInv, EditorTyped
  <2>8. loadingRules => InFlight({"rules"})' # {}
    BY <1>1, <2>4 DEF EditorInv, InFlight, Kind, ChangeKinds
  <2> QED
    BY <1>1, <2>2, <2>3, <2>6, <2>7, <2>8 DEF EditorInv
<1> QED
  BY <1>2, <1>3

-----------------------------------------------------------------------------
(* The API and the tables, seen from the rules page.                        *)

\* After a mishap the list promises nothing.
LEMMA MishapFreesTheList ==
    ASSUME CallInv, EditorInv, UNCHANGED editorVars, mishaps' = mishaps + 1,
           \A n \in DOMAIN calls : n \in DOMAIN calls' /\ calls'[n].request = calls[n].request
    PROVE  EditorInv'
<1>1. EditorTyped' /\ saving' = saving /\ loadingRules' = loadingRules
  BY DEF EditorInv, EditorTyped, editorVars
<1>2. mishaps' # 0
  BY CallsAssumption DEF CallInv, TablesTyped
<1>3. /\ InFlight({"create", "update"}) # {} => InFlight({"create", "update"})' # {}
      /\ InFlight({"rules"}) # {} => InFlight({"rules"})' # {}
  BY DEF InFlight, Kind
<1> QED
  BY <1>1, <1>2, <1>3 DEF EditorInv, ListIsOnItsWay

LEMMA RepliesKeepRequests ==
    ASSUME CallInv, NEW n \in DOMAIN calls, NEW stage, NEW answer, Reply(n, stage, answer)
    PROVE  /\ DOMAIN calls' = DOMAIN calls
           /\ \A m \in DOMAIN calls : calls'[m].request = calls[m].request
           /\ calls'[n].stage = stage /\ calls'[n].answer = answer
           /\ \A m \in DOMAIN calls : m # n => calls'[m] = calls[m]
<1>1. /\ DOMAIN calls' = DOMAIN calls
      /\ calls'[n] = [request |-> calls[n].request, stage |-> stage, answer |-> answer]
      /\ \A m \in DOMAIN calls : m # n => calls'[m] = calls[m]
  BY ReplySets DEF CallInv
<1>2. calls'[n].request = calls[n].request /\ calls'[n].stage = stage /\ calls'[n].answer = answer
  BY <1>1
<1> QED
  BY <1>1, <1>2

LEMMA ServedList ==
    ASSUME CallInv, EditorInv, NEW n \in DOMAIN calls, Serve(n), UNCHANGED editorVars
    PROVE  EditorInv'
<1>1. \E stage, answer : Reply(n, stage, answer)
  <2>1. CASE ServeChange(n)
    BY <2>1 DEF ServeChange
  <2>2. CASE ServeRead(n)
    BY <2>2 DEF ServeRead
  <2>3. CASE ServeFault(n)
    BY <2>3 DEF ServeFault
  <2> QED
    BY <2>1, <2>2, <2>3 DEF Serve
<1>2. /\ DOMAIN calls' = DOMAIN calls
      /\ \A m \in DOMAIN calls : calls'[m].request = calls[m].request
  BY <1>1, RepliesKeepRequests
<1>3. CASE ServeFault(n)
  BY <1>2, <1>3, MishapFreesTheList DEF ServeFault
<1>4. /\ InFlight({"create", "update"})' = InFlight({"create", "update"})
      /\ InFlight({"rules"})' = InFlight({"rules"})
      /\ InFlight(ChangeKinds)' = InFlight(ChangeKinds)
  BY <1>2 DEF InFlight, Kind
<1>5. EditorTyped' /\ saving' = saving /\ loadingRules' = loadingRules /\ opened' = opened /\ listed' = listed
  BY DEF EditorInv, EditorTyped, editorVars
<1>6. CASE ServeChange(n)
  <2>1. Reply(n, "ok", Nothing) /\ Kind(n) \in ChangeKinds /\ mishaps' = mishaps
    BY <1>6 DEF ServeChange
  <2>2. calls'[n].stage = "ok" /\ \A m \in DOMAIN calls : m # n => calls'[m] = calls[m]
    BY <2>1, RepliesKeepRequests
  <2>3. n \in InFlight(ChangeKinds)'
    BY <1>4, <2>1 DEF InFlight
  <2>4. mishaps' = 0 => \A m \in DOMAIN calls' : calls'[m].stage # "failed"
    BY <1>2, <2>1, <2>2 DEF EditorInv, ListIsOnItsWay
  <2>5. ListIsOnItsWay'
    BY <2>3, <2>4 DEF ListIsOnItsWay
  <2> QED
    BY <1>4, <1>5, <2>5 DEF EditorInv
<1>7. CASE ServeRead(n) /\ Kind(n) = "rules"
  <2>1. Reply(n, "ok", RuleList) /\ mishaps' = mishaps /\ rules' = rules
    BY <1>7 DEF ServeRead, tableVars
  <2>2. calls'[n].stage = "ok" /\ calls'[n].answer = RuleList /\ \A m \in DOMAIN calls : m # n => calls'[m] = calls[m]
    BY <2>1, RepliesKeepRequests
  <2>3. n \in InFlight({"rules"})' /\ Answered(n)'
    BY <1>4, <1>7, <2>2 DEF InFlight, Answered
  <2>4. mishaps' = 0 => \A m \in DOMAIN calls' : calls'[m].stage # "failed"
    BY <1>2, <2>1, <2>2 DEF EditorInv, ListIsOnItsWay
  <2>5. RuleList' = RuleList
    BY <2>1 DEF RuleList
  <2>6. ListIsOnItsWay'
    BY <2>2, <2>3, <2>4, <2>5 DEF ListIsOnItsWay
  <2> QED
    BY <1>4, <1>5, <2>6 DEF EditorInv
<1>8. CASE ServeRead(n) /\ Kind(n) = "history"
  <2>1. PICK rows : Reply(n, "ok", rows) /\ mishaps' = mishaps /\ rules' = rules
    BY <1>8 DEF ServeRead, tableVars
  <2>2. calls'[n].stage = "ok" /\ \A m \in DOMAIN calls : m # n => calls'[m] = calls[m]
    BY <2>1, RepliesKeepRequests
  <2>3. EditorCallsStay
    BY <1>2, <1>8, <2>2 DEF EditorCallsStay, ChangeKinds
  <2> QED
    BY <2>1, <2>3, EditorStays
<1> QED
  BY <1>3, <1>6, <1>7, <1>8 DEF Serve, ServeRead

LEMMA ElsewhereKeepsList ==
    ASSUME CallInv, EditorInv, Elsewhere
    PROVE  EditorInv' /\ CallInv'
<1>1. UNCHANGED editorVars
  BY DEF Elsewhere
<1>2. CASE Bootstrap \/ GetAnswered \/ AcknowledgeAlarm \/ AckAnswered
  <2>1. EditorCallsStay /\ UNCHANGED <<rules, mishaps>>
    BY <1>2 DEF Bootstrap, GetAnswered, AcknowledgeAlarm, AckAnswered, EditorCallsStay, apiVars, tableVars
  <2> QED
    BY <1>1, <1>2, <2>1, EditorStays, CountedElsewhereKeeps
<1>3. CASE OtherDashboard
  <2>1. mishaps' = mishaps + 1 /\ calls' = calls
    BY <1>3 DEF OtherDashboard, clientVars
  <2> QED
    BY <1>1, <1>3, <2>1, MishapFreesTheList, OtherDashboardKeeps
<1>4. ASSUME NEW d \in Devices, RecordReading(d) PROVE EditorInv' /\ CallInv'
  <2>1. EditorCallsStay /\ UNCHANGED <<rules, mishaps>>
    BY <1>4 DEF RecordReading, EditorCallsStay, clientVars, tableVars
  <2> QED
    BY <1>1, <1>4, <2>1, EditorStays, RecordKeeps
<1>5. ASSUME NEW n \in DOMAIN calls, Serve(n) PROVE EditorInv' /\ CallInv'
  BY <1>1, <1>5, ServedList, ServeKeeps
<1>6. ASSUME NEW n \in DOMAIN calls, LoseCall(n) PROVE EditorInv' /\ CallInv'
  <2>1. Reply(n, "failed", Nothing) /\ mishaps' = mishaps + 1
    BY <1>6 DEF LoseCall
  <2>2. \A m \in DOMAIN calls : m \in DOMAIN calls' /\ calls'[m].request = calls[m].request
    BY <2>1, RepliesKeepRequests
  <2> QED
    BY <1>1, <1>6, <2>1, <2>2, MishapFreesTheList, LoseCallKeeps
<1> QED
  BY <1>2, <1>3, <1>4, <1>5, <1>6 DEF Elsewhere

-----------------------------------------------------------------------------
(* The history page.                                                        *)

HistoryCallsStay ==
    \A n \in DOMAIN calls : Kind(n) = "history" =>
        n \in DOMAIN calls' /\ calls'[n].request = calls[n].request

LEMMA HistoryStays ==
    ASSUME HistoryInv, HistoryCallsStay, UNCHANGED historyVars
    PROVE  HistoryInv'
<1>1. HistoryTyped' /\ PageFollowsModel' /\ NothingOfAClosedPage' /\ loading' = loading
  BY DEF HistoryInv, HistoryTyped, PageFollowsModel, NothingOfAClosedPage, historyVars
<1>2. InFlight({"history"}) # {} => InFlight({"history"})' # {}
  BY DEF HistoryCallsStay, InFlight, Kind
<1> QED
  BY <1>1, <1>2 DEF HistoryInv

LEMMA LeavingKeeps ==
    ASSUME HistoryInv, LeaveHistory
    PROVE  HistoryInv'
<1>1. /\ shown' = FALSE /\ loading' = FALSE /\ since' = 1 /\ tsList' = <<>> /\ points' = points
  BY DEF LeaveHistory
<1>2. since \in 1..MaxRows /\ points \in Seq(Sample) /\ Len(points) \in Nat
  BY DEF HistoryInv, HistoryTyped
<1>3. 1 \in 1..MaxRows
  BY <1>2, CallsAssumption
<1>4. <<>> \in Seq(1..MaxRows) /\ Len(<<>>) = 0 /\ DOMAIN <<>> = {}
  BY EmptySeq
<1>5. HistoryTyped'
  BY <1>1, <1>2, <1>3, <1>4 DEF HistoryTyped
<1>6. PageFollowsModel'
  BY <1>1, <1>2, <1>4 DEF PageFollowsModel
<1> QED
  BY <1>1, <1>5, <1>6 DEF HistoryInv, NothingOfAClosedPage

LEMMA OpeningKeeps ==
    ASSUME HistoryInv, OpenHistory, ~shown
    PROVE  HistoryInv'
<1>1. shown' = TRUE /\ since' \in 1..MaxRows /\ UNCHANGED <<loading, tsList, points>> /\ ~loading
  BY DEF OpenHistory, HistoryInv, NothingOfAClosedPage
<1>2. HistoryTyped' /\ PageFollowsModel'
  BY <1>1 DEF HistoryInv, HistoryTyped, PageFollowsModel
<1> QED
  BY <1>1, <1>2 DEF HistoryInv, NothingOfAClosedPage

LEMMA LoadingKeeps ==
    ASSUME CallInv, EditorInv, HistoryInv, shown, PressLoad \/ ChooseRange, UNCHANGED editorVars
    PROVE  CallInv' /\ EditorInv' /\ HistoryInv' /\ shown' = shown
<1>1. PICK d \in Devices, from \in 1..MaxRows : LoadHistory(d, from) /\ since' \in 1..MaxRows
  BY DEF PressLoad, ChooseRange, HistoryInv, HistoryTyped
<1> DEFINE request == [kind |-> "history", device |-> d, since |-> from]
<1>2. request \in Load \cup History /\ request.kind = "history"
  BY DEF History
<1>3. /\ loading' = TRUE /\ tsList' = <<>> /\ points' = <<>> /\ SendUncounted(request)
      /\ shown' = shown /\ UNCHANGED <<unreported, apiVars>>
  BY <1>1 DEF LoadHistory
<1> HIDE DEF request
<1>4. CallInv'
  BY <1>2, <1>3, AskKeeps
<1>5. PICK k \in 1..(actions + 1) :
        /\ k \notin DOMAIN calls /\ DOMAIN calls' = DOMAIN calls \cup {k}
        /\ calls'[k] = Sent(request)
        /\ \A n \in DOMAIN calls : calls'[n] = calls[n]
  BY <1>3, SendAdds DEF CallInv, SendUncounted
<1>6. calls'[k].request.kind = "history" /\ calls'[k].stage = "sent"
  BY <1>2, <1>5 DEF Sent
<1>7. EditorInv'
  <2>1. EditorCallsStay
    BY <1>5, <1>6 DEF EditorCallsStay
  <2>2. UNCHANGED <<editorVars, rules, mishaps>>
    BY <1>3 DEF apiVars, tableVars
  <2> QED
    BY <2>1, <2>2, EditorStays
<1>8. k \in InFlight({"history"})'
  BY <1>5, <1>6 DEF InFlight, Kind
<1>9. /\ <<>> \in Seq(1..MaxRows) /\ <<>> \in Seq(Sample) /\ Len(<<>>) = 0 /\ DOMAIN <<>> = {}
  BY EmptySeq
<1>10. HistoryTyped'
  BY <1>1, <1>3, <1>9 DEF HistoryInv, HistoryTyped
<1>11. PageFollowsModel'
  BY <1>3, <1>9 DEF PageFollowsModel
<1>12. NothingOfAClosedPage'
  BY <1>3 DEF NothingOfAClosedPage
<1> QED
  BY <1>3, <1>4, <1>7, <1>8, <1>10, <1>11, <1>12 DEF HistoryInv

LEMMA SamplesAppend ==
    ASSUME NEW model \in Seq(Sample), NEW more \in Seq(Sample)
    PROVE  /\ model \o more \in Seq(Sample) /\ Len(model \o more) = Len(model) + Len(more)
           /\ \A i \in 1..(Len(model) + Len(more)) :
                 (model \o more)[i] = IF i <= Len(model) THEN model[i] ELSE more[i - Len(model)]
  BY ConcatProperties

\* The page and the model append the same samples.
LEMMA BothAppend ==
    ASSUME NEW list \in Seq(1..MaxRows), NEW model \in Seq(Sample),
           Len(model) - Len(list) >= 0,
           \A i \in 1..Len(list) : list[i] = model[(Len(model) - Len(list)) + i].at,
           NEW answer \in Seq(1..MaxRows), NEW more \in Seq(Sample), Len(more) = Len(answer),
           \A i \in 1..Len(answer) : more[i].at = answer[i]
    PROVE  LET ls == list \o answer
               ms == model \o more
           IN  /\ ls \in Seq(1..MaxRows) /\ ms \in Seq(Sample) /\ DOMAIN ls = 1..Len(ls)
               /\ Len(ms) - Len(ls) >= 0
               /\ \A i \in 1..Len(ls) : ls[i] = ms[(Len(ms) - Len(ls)) + i].at
<1> DEFINE n == Len(answer)
           k == Len(list)
           older == Len(model) - k
           ls == list \o answer
           ms == model \o more
<1>1. n \in Nat /\ k \in Nat /\ older \in Nat /\ Len(model) = older + k
  BY LenProperties
<1>2. /\ ls \in Seq(1..MaxRows) /\ Len(ls) = k + n /\ DOMAIN ls = 1..Len(ls)
      /\ \A i \in 1..(k + n) : ls[i] = IF i <= k THEN list[i] ELSE answer[i - k]
  BY ConcatProperties, LenProperties
<1>3. /\ ms \in Seq(Sample) /\ Len(ms) = (older + k) + n
      /\ \A i \in 1..((older + k) + n) : ms[i] = IF i <= older + k THEN model[i] ELSE more[i - (older + k)]
  <2>1. /\ ms \in Seq(Sample) /\ Len(ms) = Len(model) + Len(more)
        /\ \A i \in 1..(Len(model) + Len(more)) : ms[i] = IF i <= Len(model) THEN model[i] ELSE more[i - Len(model)]
    BY SamplesAppend
  <2> QED
    BY <1>1, <2>1
<1>4. \A i \in 1..k : list[i] = model[older + i].at
  OBVIOUS
<1>5. \A i \in 1..n : more[i].at = answer[i]
  OBVIOUS
<1> HIDE DEF n, k, older, ls, ms
<1>6. Len(ms) - Len(ls) = older
  BY <1>1, <1>2, <1>3
<1>7. ASSUME NEW i \in 1..Len(ls) PROVE ls[i] = ms[older + i].at
  <2>1. i \in Nat /\ older + i \in 1..((older + k) + n) /\ i \in 1..(k + n)
    BY <1>1, <1>2
  <2>2. CASE i <= k
    <3>1. older + i <= older + k /\ i \in 1..k
      BY <1>1, <2>1, <2>2
    <3> QED
      BY <1>2, <1>3, <1>4, <2>1, <2>2, <3>1
  <2>3. CASE ~(i <= k)
    <3>1. ~(older + i <= older + k) /\ (older + i) - (older + k) = i - k /\ i - k \in 1..n
      BY <1>1, <2>1, <2>3
    <3> QED
      BY <1>2, <1>3, <1>5, <2>1, <2>3, <3>1
  <2> QED
    BY <2>2, <2>3
<1>8. Len(ms) - Len(ls) >= 0 /\ \A i \in 1..Len(ls) : ls[i] = ms[(Len(ms) - Len(ls)) + i].at
  <2> DEFINE gap == Len(ms) - Len(ls)
  <2>1. gap = older
    BY <1>6
  <2> HIDE DEF gap
  <2>2. gap >= 0 /\ \A i \in 1..Len(ls) : ls[i] = ms[gap + i].at
    BY <1>1, <1>7, <2>1
  <2> QED
    BY <2>2 DEF gap
<1>9. /\ ls \in Seq(1..MaxRows) /\ ms \in Seq(Sample) /\ DOMAIN ls = 1..Len(ls)
      /\ Len(ms) - Len(ls) >= 0
      /\ \A i \in 1..Len(ls) : ls[i] = ms[(Len(ms) - Len(ls)) + i].at
  BY <1>2, <1>3, <1>8
<1> QED
  BY <1>9 DEF ls, ms

LEMMA PageAndModelAppend ==
    ASSUME HistoryTyped, PageFollowsModel, NEW answer \in Seq(1..MaxRows), NEW d \in Devices,
           tsList' = tsList \o answer,
           points' = points \o [i \in DOMAIN answer |-> [device |-> d, at |-> answer[i]]]
    PROVE  tsList' \in Seq(1..MaxRows) /\ points' \in Seq(Sample) /\ PageFollowsModel'
<1> DEFINE more == [i \in DOMAIN answer |-> [device |-> d, at |-> answer[i]]]
           n == Len(answer)
<1>1. n \in Nat /\ DOMAIN answer = 1..n /\ answer \in [1..n -> 1..MaxRows]
  BY LenProperties
<1>2. more \in [1..n -> Sample] /\ \A i \in 1..n : more[i].at = answer[i]
  <2>1. \A i \in 1..n : answer[i] \in 1..MaxRows
    BY <1>1
  <2> HIDE DEF n
  <2>2. more = [i \in 1..n |-> [device |-> d, at |-> answer[i]]]
    BY <1>1
  <2>3. \A i \in 1..n : [device |-> d, at |-> answer[i]] \in Sample
    BY <2>1 DEF Sample
  <2> HIDE DEF more
  <2> QED
    BY <2>2, <2>3
<1>3. points' = points \o more
  OBVIOUS
<1> HIDE DEF more, n
<1>4. more \in Seq(Sample) /\ Len(more) = n
  BY <1>1, <1>2
<1>5. /\ tsList \in Seq(1..MaxRows) /\ points \in Seq(Sample)
      /\ Len(points) - Len(tsList) >= 0
      /\ \A i \in 1..Len(tsList) : tsList[i] = points[(Len(points) - Len(tsList)) + i].at
  BY LenProperties DEF HistoryTyped, PageFollowsModel
<1>6. LET ls == tsList \o answer
          ms == points \o more
      IN  /\ ls \in Seq(1..MaxRows) /\ ms \in Seq(Sample) /\ DOMAIN ls = 1..Len(ls)
          /\ Len(ms) - Len(ls) >= 0
          /\ \A i \in 1..Len(ls) : ls[i] = ms[(Len(ms) - Len(ls)) + i].at
  <2>1. Len(more) = Len(answer) /\ \A i \in 1..Len(answer) : more[i].at = answer[i]
    BY <1>2, <1>4 DEF n
  <2> QED
    BY <1>4, <1>5, <2>1, BothAppend
<1> QED
  BY <1>3, <1>6 DEF PageFollowsModel

LEMMA HistoryArrives ==
    ASSUME CallInv, EditorInv, HistoryInv, NEW n \in DOMAIN calls, HistoryLoadFinished(n), UNCHANGED editorVars
    PROVE  CallInv' /\ EditorInv' /\ HistoryInv' /\ shown' = shown
<1>1. /\ Kind(n) = "history" /\ Answered(n) /\ FinishUncounted(n)
      /\ UNCHANGED <<shown, since, unreported, apiVars>>
  BY DEF HistoryLoadFinished
<1>2. CallInv'
  BY <1>1, FinishKeeps
<1>3. DOMAIN calls' = DOMAIN calls \ {n} /\ \A m \in DOMAIN calls' : calls'[m] = calls[m]
  BY <1>1, DropRemoves DEF FinishUncounted
<1>4. EditorInv'
  <2>1. EditorCallsStay
    BY <1>1, <1>3 DEF EditorCallsStay, ChangeKinds
  <2>2. UNCHANGED <<editorVars, rules, mishaps>>
    BY <1>1 DEF apiVars, tableVars
  <2> QED
    BY <2>1, <2>2, EditorStays
<1>5. CASE shown
  <2>1. loading' = FALSE
    BY <1>5 DEF HistoryLoadFinished
  <2>2. tsList' \in Seq(1..MaxRows) /\ points' \in Seq(Sample) /\ PageFollowsModel'
    <3>1. CASE calls[n].stage = "ok"
      <4>1. calls[n].answer \in Seq(1..MaxRows) /\ calls[n].request.device \in Devices
        <5>1. calls[n].request.kind = "history" /\ CallIsTyped(calls[n])
          BY <1>1, CallNames DEF CallInv, CallsTyped
        <5>2. calls[n].request \in History
          BY <5>1, KindsDiffer DEF CallIsTyped
        <5> QED
          BY <3>1, <5>1, <5>2, KindsOfRequests DEF CallIsTyped
      <4>2. /\ tsList' = tsList \o calls[n].answer
            /\ points' = points \o [i \in DOMAIN calls[n].answer |->
                                      [device |-> calls[n].request.device, at |-> calls[n].answer[i]]]
        BY <1>5, <3>1 DEF HistoryLoadFinished
      <4> QED
        BY <4>1, <4>2, PageAndModelAppend DEF HistoryInv
    <3>2. CASE calls[n].stage # "ok"
      BY <1>5, <3>2 DEF HistoryLoadFinished, HistoryInv, HistoryTyped, PageFollowsModel
    <3> QED
      BY <3>1, <3>2
  <2>3. HistoryTyped'
    BY <1>1, <2>1, <2>2 DEF HistoryInv, HistoryTyped
  <2> QED
    BY <1>1, <1>2, <1>4, <1>5, <2>1, <2>2, <2>3 DEF HistoryInv, NothingOfAClosedPage
<1>6. CASE ~shown
  <2>1. UNCHANGED historyVars /\ ~loading
    BY <1>1, <1>6 DEF HistoryLoadFinished, HistoryInv, NothingOfAClosedPage, historyVars
  <2>2. HistoryTyped' /\ PageFollowsModel' /\ NothingOfAClosedPage'
    BY <2>1 DEF HistoryInv, HistoryTyped, PageFollowsModel, NothingOfAClosedPage, historyVars
  <2> QED
    BY <1>1, <1>2, <1>4, <2>1, <2>2 DEF HistoryInv, historyVars
<1> QED
  BY <1>5, <1>6 DEF HistoryInv, HistoryTyped

-----------------------------------------------------------------------------
(* The steps.                                                               *)

LEMMA InitHolds == Init => PanelsIInv
<1> SUFFICES ASSUME Init PROVE PanelsIInv
  OBVIOUS
<1>1. /\ MaxActions \in Nat /\ MaxMishaps \in Nat /\ MaxVisits \in Nat /\ MaxRows \in Nat /\ OldRows \in 0..MaxRows
  BY CallsAssumption, VisitsAssumption
<1>2. DOMAIN calls = {} /\ actions = 0 /\ gets = 0 /\ acks = 0 /\ pending = 0 /\ busy = FALSE /\ unreported = FALSE
  BY DEF Init, CallsInit
<1>3. InFlight(ChangeKinds) = {} /\ Unmade = {} /\ Cardinality({}) = 0
  BY <1>2, FS_EmptySet DEF InFlight, Unmade
<1>4. CallsTyped /\ CounterIsExact
  <2>1. actions \in 0..MaxActions /\ 0 \in Nat
    BY <1>1, <1>2
  <2>2. \A n \in DOMAIN calls : CallIsTyped(calls[n])
    BY <1>2
  <2>3. CallsTyped
    BY <1>2, <2>1, <2>2 DEF CallsTyped
  <2> QED
    BY <1>2, <1>3, <2>3 DEF CounterIsExact
<1>5. nextRule = 2 /\ DOMAIN rules = {1} /\ rules[1] \in Contents /\ mishaps = 0
  BY DEF Init, CallsInit
<1>6. TablesTyped /\ RulesAreCounted
  <2>1. 1 \in Ids /\ 1 \in 1..(nextRule - 1)
    BY <1>1, <1>5 DEF Ids
  <2>2. recorded \in [Devices -> 0..MaxRows]
    BY <1>1 DEF Init, CallsInit
  <2> QED
    BY <1>1, <1>2, <1>3, <1>5, <2>1, <2>2 DEF TablesTyped, RulesAreCounted
<1>7. EditorInv
  BY <1>2 DEF Init, EditorInit, EditorInv, EditorTyped, ListIsOnItsWay, NoRows, ChangeKinds
<1>8. HistoryInv
  <2>1. <<>> \in Seq(1..MaxRows) /\ <<>> \in Seq(Sample) /\ Len(<<>>) = 0 /\ DOMAIN <<>> = {}
    BY EmptySeq
  <2>2. 1 \in 1..MaxRows
    BY <1>1, CallsAssumption
  <2>3. shown = FALSE /\ loading = FALSE /\ since = 1 /\ tsList = <<>> /\ points = <<>>
    BY DEF Init, HistoryInit
  <2>4. HistoryTyped
    BY <2>1, <2>2, <2>3 DEF HistoryTyped
  <2>5. PageFollowsModel
    BY <2>1, <2>3 DEF PageFollowsModel
  <2> QED
    BY <2>3, <2>4, <2>5 DEF HistoryInv, NothingOfAClosedPage
<1>9. PagesTyped
  <2>1. navIndex = "devices" /\ visits = 0 /\ opened = FALSE /\ shown = FALSE
    BY DEF Init, EditorInit, HistoryInit
  <2>2. visits \in 0..MaxVisits
    BY <1>1, <2>1
  <2> QED
    BY <2>1, <2>2 DEF PagesTyped, Pages
<1> QED
  BY <1>4, <1>6, <1>7, <1>8, <1>9 DEF PanelsIInv, CallInv

LEMMA NothingChanges ==
    ASSUME CallInv, EditorInv, UNCHANGED <<callVars, editorVars>>
    PROVE  CallInv' /\ EditorInv'
<1>1. CallInv'
  BY DEF CallInv, CallsTyped, TablesTyped, CounterIsExact, RulesAreCounted, Unmade, InFlight, Kind, Answered,
         callVars, clientVars, apiVars, tableVars
<1>2. EditorCallsStay /\ UNCHANGED <<rules, mishaps>>
  BY DEF EditorCallsStay, callVars, clientVars, apiVars, tableVars
<1> QED
  BY <1>1, <1>2, EditorStays

LEMMA VisitKeeps == ASSUME PanelsIInv, NEW page \in Pages, Visit(page) PROVE PanelsIInv'
<1>1. /\ CallInv /\ EditorInv /\ HistoryInv /\ PagesTyped
      /\ page # navIndex /\ navIndex' = page /\ visits' \in 0..MaxVisits
  BY VisitsAssumption DEF PanelsIInv, Visit, PagesTyped
<1>2. CallInv' /\ EditorInv' /\ HistoryCallsStay /\ opened' \in BOOLEAN /\ (opened => opened')
      /\ (page = "rules" => opened')
  <2>1. CASE page = "rules" /\ ~opened
    <3>1. AskForRules /\ opened' = TRUE
      BY <2>1 DEF Visit, OpenRules
    <3>2. HistoryCallsStay
      <4>1. Send(LoadRequest)
        BY <3>1 DEF AskForRules, SendUncounted
      <4> QED
        BY <1>1, <4>1, SendAdds DEF HistoryCallsStay, CallInv
    <3> QED
      BY <1>1, <3>1, <3>2, LoadBrings
  <2>2. CASE ~(page = "rules" /\ ~opened)
    <3>1. UNCHANGED <<callVars, editorVars>>
      BY <2>2 DEF Visit
    <3>2. opened' = opened /\ opened \in BOOLEAN /\ HistoryCallsStay
      BY <1>1, <3>1 DEF callVars, clientVars, editorVars, HistoryCallsStay, EditorInv, EditorTyped
    <3> QED
      BY <1>1, <2>2, <3>1, <3>2, NothingChanges
  <2> QED
    BY <2>1, <2>2
<1>3. HistoryInv' /\ shown' = (page = "history")
  <2>1. CASE page = "history"
    <3>1. OpenHistory /\ ~shown
      BY <1>1, <2>1 DEF Visit, PagesTyped
    <3> QED
      BY <1>1, <2>1, <3>1, OpeningKeeps DEF OpenHistory
  <2>2. CASE page # "history" /\ navIndex = "history"
    <3>1. LeaveHistory
      BY <2>2 DEF Visit
    <3> QED
      BY <1>1, <2>2, <3>1, LeavingKeeps DEF LeaveHistory
  <2>3. CASE page # "history" /\ navIndex # "history"
    <3>1. UNCHANGED historyVars /\ shown' = shown /\ shown = FALSE
      BY <1>1, <2>3 DEF Visit, PagesTyped, historyVars
    <3> QED
      BY <1>1, <1>2, <2>3, <3>1, HistoryStays
  <2> QED
    BY <2>1, <2>2, <2>3
<1>4. PagesTyped'
  BY <1>1, <1>2, <1>3 DEF PagesTyped
<1> QED
  BY <1>2, <1>3, <1>4 DEF PanelsIInv

\* Calls of the other pages, answers to them and replies leave the page of the
\* history its calls.
LEMMA OthersLeaveHistory ==
    ASSUME CallInv,
           \/ UserEdits \/ Elsewhere
           \/ \E n \in DOMAIN calls : RulesLoadFinished(n) \/ RuleMutationFinished(n)
    PROVE  HistoryCallsStay
<1>1. ASSUME NEW request, Send(request) PROVE HistoryCallsStay
  BY <1>1, SendAdds DEF HistoryCallsStay, CallInv
<1>2. ASSUME calls' = calls PROVE HistoryCallsStay
  BY <1>2 DEF HistoryCallsStay
<1>3. ASSUME NEW n \in DOMAIN calls, NEW stage, NEW answer, Reply(n, stage, answer) PROVE HistoryCallsStay
  BY <1>3, RepliesKeepRequests DEF HistoryCallsStay
<1>4. ASSUME NEW n \in DOMAIN calls, Kind(n) \in ChangeKinds \cup {"rules"}, Drop(n) \/ Resend(n, LoadRequest)
      PROVE  HistoryCallsStay
  BY <1>4, DropRemoves, ResendReplaces DEF HistoryCallsStay, ChangeKinds
<1>5. CASE UserEdits
  <2>1. CASE Cancel \/ \E row \in OnScreen : EditRule(row)
    BY <1>2, <2>1 DEF Cancel, EditRule, callVars, clientVars
  <2>2. CASE Refresh
    BY <1>1, <2>2 DEF Refresh, AskForRules, SendUncounted
  <2>3. CASE \E content \in Contents : Submit(content)
    <3>1. PICK content \in Contents : Submit(content)
      BY <2>3
    <3>2. \E request : Send(request)
      BY <3>1 DEF Submit, SendCounted
    <3> QED
      BY <1>1, <3>2
  <2>4. CASE \E row \in OnScreen : DeleteRule(row)
    <3>1. PICK row \in OnScreen : DeleteRule(row)
      BY <2>4
    <3>2. \E request : Send(request)
      BY <3>1 DEF DeleteRule, SendCounted
    <3> QED
      BY <1>1, <3>2
  <2> QED
    BY <1>5, <2>1, <2>2, <2>3, <2>4 DEF UserEdits
<1>6. CASE Elsewhere
  <2>1. CASE \/ Bootstrap \/ GetAnswered \/ AcknowledgeAlarm \/ AckAnswered \/ OtherDashboard
             \/ \E d \in Devices : RecordReading(d)
    BY <1>2, <2>1 DEF Bootstrap, GetAnswered, AcknowledgeAlarm, AckAnswered, OtherDashboard, RecordReading, clientVars
  <2>2. CASE \E n \in DOMAIN calls : Serve(n) \/ LoseCall(n)
    <3>1. PICK n \in DOMAIN calls : Serve(n) \/ LoseCall(n)
      BY <2>2
    <3>2. \E stage, answer : Reply(n, stage, answer)
      <4>1. CASE LoseCall(n)
        BY <4>1 DEF LoseCall
      <4>2. CASE Serve(n) /\ ServeChange(n)
        BY <4>2 DEF ServeChange
      <4>3. CASE Serve(n) /\ ServeRead(n)
        BY <4>3 DEF ServeRead
      <4>4. CASE Serve(n) /\ ServeFault(n)
        BY <4>4 DEF ServeFault
      <4> QED
        BY <3>1, <4>1, <4>2, <4>3, <4>4 DEF Serve
    <3> QED
      BY <1>3, <3>2
  <2> QED
    BY <1>6, <2>1, <2>2 DEF Elsewhere
<1>7. ASSUME NEW n \in DOMAIN calls, RulesLoadFinished(n) \/ RuleMutationFinished(n) PROVE HistoryCallsStay
  <2>1. Kind(n) \in ChangeKinds \cup {"rules"} /\ (Drop(n) \/ Resend(n, LoadRequest))
    BY <1>7 DEF RulesLoadFinished, FinishUncounted, RuleMutationFinished, MutationSucceeded, MutationFailed
  <2> QED
    BY <1>4, <2>1
<1> QED
  BY <1>5, <1>6, <1>7

LEMMA NextKeeps == ASSUME PanelsIInv, [Next]_vars PROVE PanelsIInv'
<1>1. CallInv /\ EditorInv /\ HistoryInv /\ PagesTyped
  BY DEF PanelsIInv
<1>2. ASSUME CallInv', EditorInv', HistoryInv', opened' = opened, shown' = shown, UNCHANGED <<navIndex, visits>>
      PROVE  PanelsIInv'
  BY <1>1, <1>2 DEF PagesTyped, PanelsIInv
<1>3. CASE \E page \in Pages : Visit(page)
  BY <1>3, VisitKeeps
<1>4. CASE EditRules
  <2>1. HistoryInv' /\ shown' = shown
    BY <1>1, <1>4, OthersLeaveHistory, HistoryStays DEF EditRules, historyVars
  <2> QED
    BY <1>1, <1>2, <1>4, <2>1, UserEditsKeep DEF EditRules
<1>5. CASE BrowseHistory
  <2>1. shown /\ (PressLoad \/ ChooseRange) /\ UNCHANGED editorVars /\ UNCHANGED <<navIndex, visits>>
    BY <1>1, <1>5 DEF BrowseHistory, PagesTyped
  <2> QED
    BY <1>1, <1>2, <2>1, LoadingKeeps DEF editorVars
<1>6. CASE Elsewhere
  <2>1. HistoryInv' /\ shown' = shown
    BY <1>1, <1>6, OthersLeaveHistory, HistoryStays DEF Elsewhere, historyVars
  <2> QED
    BY <1>1, <1>2, <1>6, <2>1, ElsewhereKeepsList DEF Elsewhere, editorVars
<1>7. ASSUME NEW n \in DOMAIN calls, Answer(n) PROVE PanelsIInv'
  <2>1. CASE RulesLoadFinished(n) \/ RuleMutationFinished(n)
    <3>1. UNCHANGED historyVars /\ UNCHANGED <<navIndex, visits>>
      BY <1>7, <2>1 DEF Answer, RulesLoadFinished, RuleMutationFinished, HistoryLoadFinished, ChangeKinds
    <3>2. HistoryInv' /\ shown' = shown
      BY <1>1, <2>1, <3>1, OthersLeaveHistory, HistoryStays DEF historyVars
    <3> QED
      BY <1>1, <1>2, <2>1, <3>1, <3>2, ListArrives, ChangeIsAnswered
  <2>2. CASE HistoryLoadFinished(n) /\ UNCHANGED editorVars
    BY <1>1, <1>2, <1>7, <2>2, HistoryArrives DEF Answer, editorVars
  <2> QED
    BY <1>7, <2>1, <2>2 DEF Answer
<1>8. CASE UNCHANGED vars
  <2>1. UNCHANGED <<callVars, editorVars>> /\ UNCHANGED historyVars /\ UNCHANGED <<navIndex, visits>>
    BY <1>8 DEF vars
  <2>2. HistoryCallsStay
    BY <2>1 DEF HistoryCallsStay, callVars, clientVars
  <2> QED
    BY <1>1, <1>2, <2>1, <2>2, NothingChanges, HistoryStays DEF editorVars, historyVars
<1> QED
  BY <1>3, <1>4, <1>5, <1>6, <1>7, <1>8 DEF Next, Rest

-----------------------------------------------------------------------------
(* The rows of a history.                                                   *)

LEMMA DivisionOfIntegers ==
    ASSUME NEW a \in Int, NEW b \in Int, b > 0
    PROVE  a = b * (a \div b) + (a % b)
  OBVIOUS

LEMMA Division ==
    ASSUME NEW a \in Nat, NEW b \in Nat \ {0}
    PROVE  a \div b \in Nat /\ a % b \in 0..(b - 1) /\ a = b * (a \div b) + (a % b)
<1>1. a \div b \in Nat
  OBVIOUS
<1>2. a % b \in 0..(b - 1)
  OBVIOUS
<1>3. a \in Int /\ b \in Int /\ b > 0
  OBVIOUS
<1>4. a = b * (a \div b) + (a % b)
  BY <1>3, DivisionOfIntegers
<1> QED
  BY <1>1, <1>2, <1>4

LEMMA Multiple ==
    ASSUME NEW b \in Nat \ {0}, NEW q \in Nat
    PROVE  b * q \in Nat /\ (b * q) % b = 0
<1> DEFINE a == b * q
<1>1. a \in Nat /\ a = b * q
  OBVIOUS
<1> HIDE DEF a
<1> DEFINE d == a \div b
<1> DEFINE r == a % b
<1>2. d \in Nat /\ r \in 0..(b - 1) /\ a = b * d + r
  BY <1>1, Division
<1> HIDE DEF d, r
<1>3. b * (q - d) = r
  BY <1>1, <1>2
<1>4. q - d < 1
  <2> SUFFICES ASSUME q - d >= 1 PROVE FALSE
    BY <1>2
  <2>1. b * (q - d) >= b
    BY <1>2
  <2> QED
    BY <1>2, <1>3, <2>1
<1>5. q - d > -1
  <2> SUFFICES ASSUME q - d <= -1 PROVE FALSE
    BY <1>2
  <2>1. b * (q - d) <= -b
    BY <1>2
  <2> QED
    BY <1>2, <1>3, <2>1
<1>6. q = d
  BY <1>2, <1>4, <1>5
<1>7. r = 0
  BY <1>3, <1>6
<1> QED
  BY <1>1, <1>7 DEF a, r

\* MaxPoints strides span a window, and MaxPoints strides less one row each are
\* shorter than it.
LEMMA StrideSpans ==
    ASSUME NEW total \in Nat \ {0}
    PROVE  /\ Stride(total) \in Nat \ {0}
           /\ total <= Stride(total) * MaxPoints
           /\ (Stride(total) - 1) * MaxPoints < total
<1> DEFINE a == total + MaxPoints - 1
<1> DEFINE s == a \div MaxPoints
<1> DEFINE r == a % MaxPoints
<1>1. MaxPoints \in Nat \ {0} /\ a \in Nat /\ a >= MaxPoints
  BY CallsAssumption
<1> HIDE DEF a
<1>2. s \in Nat /\ r \in 0..(MaxPoints - 1) /\ a = MaxPoints * s + r
  BY <1>1, Division
<1> HIDE DEF s, r
<1>3. a = total + MaxPoints - 1
  BY DEF a
<1>4. s # 0
  <2> SUFFICES ASSUME s = 0 PROVE FALSE
    OBVIOUS
  <2>1. MaxPoints * s = 0
    BY <1>1
  <2> QED
    BY <1>1, <1>2, <2>1
<1> DEFINE p == MaxPoints * s
<1>5. p \in Nat /\ s * MaxPoints = p /\ (s - 1) * MaxPoints = p - MaxPoints
  BY <1>1, <1>2
<1>6. a = p + r
  BY <1>2
<1> HIDE DEF p
<1>7. total <= p /\ p - MaxPoints < total
  BY <1>1, <1>2, <1>3, <1>5, <1>6
<1>8. Stride(total) = s
  BY DEF Stride, s, a
<1> QED
  BY <1>2, <1>4, <1>5, <1>7, <1>8

\* A row between two rows of an ordered listing that follow each other is not
\* in the list.
LEMMA NoneBetween ==
    ASSUME NEW ids \in SUBSET Nat, IsFiniteSet(ids), NEW rows \in InOrder(ids),
           NEW i \in DOMAIN rows, i > 1, NEW id \in ids, rows[i - 1] < id, id < rows[i]
    PROVE  FALSE
<1>1. /\ Len(rows) \in Nat /\ DOMAIN rows = 1..Len(rows)
      /\ \A k \in 1..Len(rows) : rows[k] \in ids
      /\ \A k, j \in 1..Len(rows) : k < j => rows[k] < rows[j]
      /\ \E k \in 1..Len(rows) : rows[k] = id
  BY ListingIsComplete
<1>2. PICK k \in 1..Len(rows) : rows[k] = id
  BY <1>1
<1>3. i \in 1..Len(rows) /\ i - 1 \in 1..Len(rows)
  BY <1>1
<1>4. rows[i - 1] \in Nat /\ rows[i] \in Nat /\ id \in Nat
  BY <1>1, <1>3
<1>5. CASE k < i - 1
  <2>1. rows[k] < rows[i - 1]
    BY <1>1, <1>3, <1>5
  <2> QED
    BY <1>2, <1>4, <2>1
<1>6. CASE k > i
  <2>1. rows[i] < rows[k]
    BY <1>1, <1>3, <1>6
  <2> QED
    BY <1>2, <1>4, <2>1
<1>7. CASE k = i - 1 \/ k = i
  BY <1>2, <1>4, <1>7
<1> QED
  BY <1>3, <1>5, <1>6, <1>7

\* The rows on the stride are at most MaxPoints.
LEMMA StrideKeepsFew ==
    ASSUME NEW first \in Nat, NEW last \in Nat, first <= last, NEW s \in Nat \ {0},
           last - first + 1 <= s * MaxPoints
    PROVE  LET grid == {t \in first..last : (t - first) % s = 0}
           IN  IsFiniteSet(grid) /\ Cardinality(grid) <= MaxPoints
<1> DEFINE grid == {t \in first..last : (t - first) % s = 0}
<1> DEFINE place == [t \in grid |-> (t - first) \div s]
<1>1. MaxPoints \in Nat \ {0}
  BY CallsAssumption
<1>2. ASSUME NEW t \in grid
      PROVE  place[t] \in 0..(MaxPoints - 1) /\ t = first + s * place[t]
  <2> DEFINE a == t - first
  <2> DEFINE q == a \div s
  <2> DEFINE r == a % s
  <2>1. a \in Nat /\ a < s * MaxPoints /\ t = first + a
    <3>1. t \in first..last
      BY <1>2
    <3> QED
      BY <1>1, <3>1
  <2>2. r = 0
    BY <1>2
  <2>3. place[t] = q
    BY <1>2
  <2> HIDE DEF a, grid, place
  <2>4. q \in Nat /\ a = s * q + r
    BY <2>1, Division
  <2> HIDE DEF q, r
  <2>5. q < MaxPoints
    <3> SUFFICES ASSUME q >= MaxPoints PROVE FALSE
      BY <1>1, <2>4
    <3>1. s * q >= s * MaxPoints
      BY <1>1, <2>4
    <3> QED
      BY <1>1, <2>1, <2>2, <2>4, <3>1
  <2> QED
    BY <1>1, <2>1, <2>2, <2>3, <2>4, <2>5
<1> HIDE DEF place
<1>3. place = [t \in grid |-> place[t]]
  BY DEF place
<1> HIDE DEF grid
<1>4. place \in [grid -> 0..(MaxPoints - 1)]
  BY <1>2, <1>3
<1>5. \A t, u \in grid : place[t] = place[u] => t = u
  BY <1>2
<1>6. place \in Injection(grid, 0..(MaxPoints - 1))
  BY <1>4, <1>5 DEF Injection, IsInjective
<1>7. IsFiniteSet(0..(MaxPoints - 1)) /\ Cardinality(0..(MaxPoints - 1)) = MaxPoints
  <2>1. 0 \in Int /\ MaxPoints - 1 \in Int /\ ~(0 > MaxPoints - 1) /\ MaxPoints - 1 - 0 + 1 = MaxPoints
    BY <1>1
  <2> QED
    BY <2>1, FS_Interval
<1>8. IsFiniteSet(grid) /\ Cardinality(grid) <= MaxPoints
  BY <1>6, <1>7, FS_Injection
<1> QED
  BY <1>8 DEF grid

LEMMA ListingShowsWindow ==
    ASSUME NEW first \in 1..MaxRows, NEW last \in 0..MaxRows,
           NEW rows \in InOrder(Downsampled(first, last))
    PROVE  ShowsWindow(rows, first, last)
<1> DEFINE total == last - first + 1
<1> DEFINE ids == Downsampled(first, last)
<1> DEFINE kept == {rows[i] : i \in DOMAIN rows}
<1> DEFINE s == Stride(total)
<1>1. /\ first \in Nat /\ last \in Nat /\ total \in Int
      /\ MaxPoints \in Nat \ {0} /\ Anomalies \subseteq Nat
  BY CallsAssumption
<1>2. ids \in SUBSET Nat /\ IsFiniteSet(ids) /\ rows \in InOrder(ids)
  BY KeptAreRows
<1>3. \A t : t \in ids <=> /\ t \in first..last
                           /\ total <= MaxPoints \/ (t - first) % s = 0 \/ t \in Anomalies \/ t = last
  BY DEF Downsampled
<1>4. total > 0 => s \in Nat \ {0} /\ total <= s * MaxPoints /\ (s - 1) * MaxPoints < total
  <2> SUFFICES ASSUME total > 0 PROVE s \in Nat \ {0} /\ total <= s * MaxPoints /\ (s - 1) * MaxPoints < total
    OBVIOUS
  <2>1. total \in Nat \ {0}
    BY <1>1
  <2> HIDE DEF total
  <2> QED
    BY <2>1, StrideSpans
<1> HIDE DEF ids, s
<1>5. /\ Len(rows) \in Nat /\ DOMAIN rows = 1..Len(rows)
      /\ \A i \in DOMAIN rows : rows[i] \in ids
      /\ \A i, j \in DOMAIN rows : i < j => rows[i] < rows[j]
      /\ \A id \in ids : \E i \in DOMAIN rows : rows[i] = id
  BY <1>2, ListingIsComplete
<1>6. kept = ids
  BY <1>5
<1>7. kept \subseteq first..last /\ Anomalies \cap (first..last) \subseteq kept
  BY <1>3, <1>6
<1>8. total > 0 => {first, last} \subseteq kept
  <2> SUFFICES ASSUME total > 0 PROVE first \in ids /\ last \in ids
    BY <1>6
  <2>1. first \in first..last /\ last \in first..last /\ first - first = 0
    BY <1>1
  <2>2. 0 % s = 0
    <3>1. s * 0 = 0 /\ (s * 0) % s = 0
      BY <1>4, Multiple
    <3> QED
      BY <3>1
  <2> QED
    BY <1>3, <2>1, <2>2
<1>9. Cardinality(kept \ (Anomalies \cup {last})) <= MaxPoints
  <2> DEFINE regular == kept \ (Anomalies \cup {last})
  <2>1. CASE total <= MaxPoints
    <3>1. IsFiniteSet(first..last) /\ Cardinality(first..last) <= MaxPoints
      <4>1. first \in Int /\ last \in Int
        BY <1>1
      <4>2. Cardinality(first..last) = IF first > last THEN 0 ELSE last - first + 1
        BY <4>1, FS_Interval
      <4>3. IsFiniteSet(first..last)
        BY <4>1, FS_Interval
      <4> QED
        BY <1>1, <2>1, <4>2, <4>3
    <3>2. regular \subseteq first..last
      BY <1>7
    <3> HIDE DEF regular
    <3>3. /\ IsFiniteSet(regular)
          /\ Cardinality(regular) <= Cardinality(first..last)
      BY <3>1, <3>2, FS_Subset
    <3>4. Cardinality(regular) \in Nat /\ Cardinality(first..last) \in Nat
      BY <3>1, <3>3, FS_CardinalityType
    <3>5. Cardinality(regular) <= MaxPoints
      BY <1>1, <3>1, <3>3, <3>4
    <3> QED
      BY <3>5 DEF regular
  <2>2. CASE ~(total <= MaxPoints)
    <3> DEFINE grid == {t \in first..last : (t - first) % s = 0}
    <3>1. total > 0 /\ first <= last
      BY <1>1, <2>2
    <3>2. IsFiniteSet(grid) /\ Cardinality(grid) <= MaxPoints
      BY <1>1, <1>4, <3>1, StrideKeepsFew
    <3>3. regular \subseteq grid
      BY <1>3, <1>6, <2>2
    <3> HIDE DEF regular, grid
    <3>4. IsFiniteSet(regular) /\ Cardinality(regular) <= Cardinality(grid)
      BY <3>2, <3>3, FS_Subset
    <3>5. Cardinality(regular) \in Nat /\ Cardinality(grid) \in Nat
      BY <3>2, <3>4, FS_CardinalityType
    <3>6. Cardinality(regular) <= MaxPoints
      BY <1>1, <3>2, <3>4, <3>5
    <3> QED
      BY <3>6 DEF regular
  <2> QED
    BY <2>1, <2>2
<1>10. ASSUME NEW i \in DOMAIN rows, i > 1
       PROVE  (rows[i] - rows[i - 1] - 1) * MaxPoints < total
  <2> DEFINE a == rows[i - 1]
  <2> DEFINE b == rows[i]
  <2>1. i - 1 \in DOMAIN rows /\ i - 1 < i
    BY <1>5, <1>10
  <2>2. a \in ids /\ b \in ids /\ a < b
    BY <1>5, <1>10, <2>1
  <2>3. \A id \in ids : ~(a < id /\ id < b)
    BY <1>2, <1>10, NoneBetween
  <2> HIDE DEF a, b
  <2>4. a \in first..last /\ b \in first..last /\ a \in Nat /\ b \in Nat /\ total > 0
    BY <1>1, <1>3, <2>2
  <2>5. CASE total <= MaxPoints
    <3>1. b = a + 1
      <4> SUFFICES ASSUME b # a + 1 PROVE FALSE
        OBVIOUS
      <4>1. a + 1 \in first..last /\ a < a + 1 /\ a + 1 < b
        BY <1>1, <2>2, <2>4
      <4> QED
        BY <1>3, <2>3, <2>5, <4>1
    <3>2. (b - a - 1) * MaxPoints = 0
      <4>1. b - a - 1 = 0
        BY <2>4, <3>1
      <4> QED
        BY <1>1, <4>1
    <3> QED
      BY <2>4, <3>2 DEF a, b
  <2>6. CASE ~(total <= MaxPoints)
    <3> DEFINE d == a - first
    <3> DEFINE q == d \div s
    <3> DEFINE r == d % s
    <3>1. d \in Nat /\ a = first + d /\ s \in Nat \ {0}
      BY <1>1, <1>4, <2>4
    <3> HIDE DEF d
    <3>2. q \in Nat /\ r \in 0..(s - 1) /\ d = s * q + r
      BY <3>1, Division
    <3> HIDE DEF q, r
    <3> DEFINE m == s * (q + 1)
    <3>3. m \in Nat /\ m % s = 0
      <4>1. q + 1 \in Nat
        BY <3>2
      <4> QED
        BY <3>1, <4>1, Multiple
    <3>4. m = s * q + s /\ s * q \in Nat
      BY <3>1, <3>2
    <3> HIDE DEF m
    <3>5. d < m /\ m <= d + s
      BY <3>1, <3>2, <3>3, <3>4
    <3> DEFINE g == first + m
    <3>6. g \in Nat /\ a < g /\ g <= a + s /\ g - first = m
      BY <1>1, <3>1, <3>3, <3>5
    <3> HIDE DEF g
    <3>7. b <= g
      <4> SUFFICES ASSUME g < b PROVE FALSE
        BY <2>4, <3>6
      <4>1. g \in first..last
        BY <1>1, <2>4, <3>6
      <4> QED
        BY <1>3, <2>3, <3>3, <3>6, <4>1
    <3>8. b - a - 1 \in Nat /\ b - a - 1 <= s - 1
      BY <2>2, <2>4, <3>1, <3>6, <3>7
    <3>9. (b - a - 1) * MaxPoints <= (s - 1) * MaxPoints
      <4> DEFINE x == b - a - 1
      <4> DEFINE y == s - 1
      <4>1. x \in Nat /\ y \in Nat /\ x <= y
        BY <3>1, <3>8
      <4> HIDE DEF x, y
      <4>2. x * MaxPoints <= y * MaxPoints
        BY <1>1, <4>1
      <4> QED
        BY <4>2 DEF x, y
    <3> DEFINE u == (b - a - 1) * MaxPoints
    <3> DEFINE v == (s - 1) * MaxPoints
    <3>10. u \in Int /\ v \in Int /\ u <= v /\ v < total
      BY <1>1, <1>4, <2>4, <3>1, <3>8, <3>9
    <3> HIDE DEF u, v
    <3>11. u < total
      BY <1>1, <3>10
    <3> QED
      BY <3>11 DEF u, a, b
  <2> QED
    BY <2>5, <2>6
<1> QED
  BY <1>5, <1>7, <1>8, <1>9, <1>10 DEF ShowsWindow

\* Without a mishap, only the route of the API answers a history.
LEMMA OnlyTheRouteAnswers ==
    ASSUME CallInv, [Next]_vars, NEW n \in DOMAIN calls, n \in DOMAIN calls',
           Kind(n) = "history", ~Answered(n), calls'[n].stage = "ok", mishaps' = mishaps
    PROVE  Serve(n) /\ ServeRead(n)
<1>1. calls[n].stage = "sent" /\ mishaps \in Nat /\ mishaps' # mishaps + 1
  <2>1. mishaps \in Nat
    BY CallsAssumption DEF CallInv, TablesTyped
  <2> QED
    BY <2>1 DEF Answered
<1>2. calls'[n] # calls[n]
  BY <1>1
<1>3. ASSUME NEW request, Send(request) PROVE FALSE
  BY <1>2, <1>3, SendAdds DEF CallInv
<1>4. ASSUME calls' = calls PROVE FALSE
  BY <1>2, <1>4
<1>5. ASSUME NEW m \in DOMAIN calls, Answered(m), Drop(m) \/ Resend(m, LoadRequest) PROVE FALSE
  BY <1>2, <1>5, DropRemoves, ResendReplaces
<1>6. ASSUME NEW m \in DOMAIN calls, m # n, NEW stage, NEW answer, Reply(m, stage, answer) PROVE FALSE
  BY <1>2, <1>6, RepliesKeepRequests
<1>7. CASE \E page \in Pages : Visit(page)
  BY <1>3, <1>4, <1>7 DEF Visit, OpenRules, AskForRules, SendUncounted, callVars, clientVars
<1>8. CASE EditRules
  <2>1. CASE Cancel \/ \E row \in OnScreen : EditRule(row)
    BY <1>4, <2>1 DEF Cancel, EditRule, callVars, clientVars
  <2>2. CASE Refresh
    BY <1>3, <2>2 DEF Refresh, AskForRules, SendUncounted
  <2>3. CASE \E content \in Contents : Submit(content)
    BY <1>3, <2>3 DEF Submit, SendCounted
  <2>4. CASE \E row \in OnScreen : DeleteRule(row)
    BY <1>3, <2>4 DEF DeleteRule, SendCounted
  <2> QED
    BY <1>8, <2>1, <2>2, <2>3, <2>4 DEF EditRules, UserEdits
<1>9. CASE BrowseHistory
  BY <1>3, <1>9 DEF BrowseHistory, PressLoad, ChooseRange, LoadHistory, SendUncounted
<1>10. CASE Elsewhere
  <2>1. CASE \/ Bootstrap \/ GetAnswered \/ AcknowledgeAlarm \/ AckAnswered \/ OtherDashboard
             \/ \E d \in Devices : RecordReading(d)
    BY <1>4, <2>1 DEF Bootstrap, GetAnswered, AcknowledgeAlarm, AckAnswered, OtherDashboard, RecordReading, clientVars
  <2>2. ASSUME NEW m \in DOMAIN calls, LoseCall(m) PROVE FALSE
    BY <1>1, <2>2 DEF LoseCall
  <2>3. ASSUME NEW m \in DOMAIN calls, Serve(m) PROVE m = n /\ ServeRead(n)
    <3>1. ~ServeFault(m)
      BY <1>1 DEF ServeFault
    <3>2. \E stage, answer : Reply(m, stage, answer)
      BY <2>3, <3>1 DEF Serve, ServeChange, ServeRead
    <3>3. m = n
      BY <1>6, <3>2
    <3>4. ~ServeChange(n)
      BY DEF ServeChange, ChangeKinds
    <3> QED
      BY <2>3, <3>1, <3>3, <3>4 DEF Serve
  <2> QED
    BY <1>10, <2>1, <2>2, <2>3 DEF Elsewhere
<1>11. ASSUME NEW m \in DOMAIN calls, Answer(m) PROVE FALSE
  <2>1. Answered(m) /\ (Drop(m) \/ Resend(m, LoadRequest))
    BY <1>11 DEF Answer, RulesLoadFinished, FinishUncounted, RuleMutationFinished, MutationSucceeded, MutationFailed,
                 HistoryLoadFinished
  <2> QED
    BY <1>5, <2>1
<1>12. CASE UNCHANGED vars
  BY <1>4, <1>12 DEF vars, callVars, clientVars
<1> QED
  BY <1>7, <1>8, <1>9, <1>10, <1>11, <1>12 DEF Next, Rest

-----------------------------------------------------------------------------
(* The theorems.                                                            *)

\* The strengthening holds in every reachable state.
THEOREM PanelsAreInductive == Spec => []PanelsIInv
<1>1. PanelsIInv /\ [Next]_vars => PanelsIInv'
  BY NextKeeps
<1> QED
  BY InitHolds, <1>1, PTL DEF Spec

\* The counter of the client is that of its calls, no spinner outlives its call,
\* and the samples of the history page are the newest of its model, whatever the
\* order of actions, answers and losses (api_client.cpp, RuleEditorPanel.qml,
\* HistoryPanel.qml).
THEOREM NoCallIsForgotten == Spec => []PanelsInv
<1>1. PanelsIInv => PanelsInv
  BY DEF PanelsIInv, CallInv, EditorInv, HistoryInv, PanelsInv, TypeOK, NoStuckSpinner
<1> QED
  BY PanelsAreInductive, <1>1, PTL

\* Once the rules page waits for nothing, every rule of the table is on the
\* screen as it stands, unless a call failed or another dashboard changed it
\* (RuleEditorPanel.qml: the answer to a change loads the list again).
THEOREM NoRuleIsMissing == Spec => []QuietListIsComplete
<1>1. ASSUME PanelsIInv PROVE QuietListIsComplete
  <2> SUFFICES ASSUME opened, mishaps = 0, InFlight(ChangeKinds \cup {"rules"}) = {}
               PROVE  RuleList \subseteq OnScreen
    BY DEF QuietListIsComplete
  <2>1. InFlight(ChangeKinds) = {} /\ InFlight({"rules"}) = {}
    BY DEF InFlight
  <2> QED
    BY <1>1, <2>1 DEF PanelsIInv, EditorInv, ListIsOnItsWay
<1> QED
  BY PanelsAreInductive, <1>1, PTL

\* Every answer of the history route shows its window: in the order of time,
\* with its first row, its newest and every anomaly, with a bounded number of
\* other rows and no gap wider than the stride, for every cap of the route and
\* every window (device_service.cpp:151-170).
THEOREM HistoryShowsItsWindow == Spec => AnswersShowTheWindow
<1> DEFINE Shown == \A n \in DOMAIN calls \cap DOMAIN calls' :
                       Kind(n) = "history" /\ ~Answered(n) /\ calls'[n].stage = "ok" /\ mishaps' = mishaps
                         => ShowsWindow(calls'[n].answer, calls[n].request.since,
                                        recorded[calls[n].request.device])
<1>1. ASSUME PanelsIInv, [Next]_vars PROVE Shown
  <2> SUFFICES ASSUME NEW n \in DOMAIN calls, n \in DOMAIN calls', Kind(n) = "history", ~Answered(n),
                      calls'[n].stage = "ok", mishaps' = mishaps
               PROVE  ShowsWindow(calls'[n].answer, calls[n].request.since,
                                  recorded[calls[n].request.device])
    OBVIOUS
  <2> DEFINE first == calls[n].request.since
  <2> DEFINE last == recorded[calls[n].request.device]
  <2>1. CallInv
    BY <1>1 DEF PanelsIInv
  <2>2. ServeRead(n)
    BY <1>1, <2>1, OnlyTheRouteAnswers
  <2>3. first \in 1..MaxRows /\ last \in 0..MaxRows
    BY <2>1, WindowOf
  <2>4. PICK rows \in InOrder(Downsampled(first, last)) : Reply(n, "ok", rows)
    BY <2>2 DEF ServeRead
  <2>5. calls'[n].answer = rows
    BY <2>1, <2>4, RepliesKeepRequests
  <2> HIDE DEF first, last
  <2>6. ShowsWindow(rows, first, last)
    BY <2>3, <2>4, ListingShowsWindow
  <2> QED
    BY <2>5, <2>6 DEF first, last
<1>2. Spec => [][Shown]_vars
  BY PanelsAreInductive, <1>1, PTL DEF Spec
<1> QED
  BY <1>2 DEF AnswersShowTheWindow
=============================================================================
