------------------------------ MODULE ApiCalls ------------------------------
(***************************************************************************)
(* The REST calls of one dashboard (ui/src/api_client.cpp) and the API     *)
(* routes that serve the rule list, its changes and the history of a       *)
(* device.  Calls travel over several HTTP connections: the API takes      *)
(* them, one at a time on its event loop, and the dashboard receives the   *)
(* answers, in any order.  ApiClient keeps one counter and one busy flag   *)
(* for all of them.                                                        *)
(***************************************************************************)
EXTENDS Listings, Sequences

CONSTANTS
    Contents,    \* what a rule says: device, sensor, condition, threshold, severity
    Devices,     \* device ids
    Anomalies,   \* the readings, by their place in time, flagged as anomalies
    Nothing,     \* no answer, no rule, no content
    MaxPoints,   \* the cap of the history route
    OldRows,     \* readings of a device stored before the dashboard starts
    MaxRows,     \* bound: readings stored for one device
    MaxActions,  \* bound: actions of the user and of main.cpp that make calls
    MaxMishaps   \* bound: statements that fail, calls that are lost, and changes of
                 \* the rules by another dashboard

ASSUME CallsAssumption ==
    /\ MaxPoints \in Nat \ {0}
    /\ MaxRows \in Nat \ {0} /\ OldRows \in 0..MaxRows
    /\ MaxActions \in Nat /\ MaxMishaps \in Nat
    /\ Anomalies \subseteq Nat
    /\ Nothing \notin Contents \cup Nat

VARIABLES
    calls,       \* calls in flight, by a number of their own
    gets,        \* requests of bootstrap() in flight
    acks,        \* acks in flight
    actions,
    pending,     \* ApiClient::pending_
    busy,        \* ApiClient::busy_
    unreported,  \* no bootstrapFinished since the last bootstrap
    rules,       \* the table alarm_rules: content by id
    nextRule,    \* the sequence of its ids
    recorded,    \* rows of readings, by device; their places in time are 1, 2, ...
    mishaps

clientVars == <<calls, gets, acks, actions, pending, busy, unreported>>
tableVars  == <<rules, nextRule>>
apiVars    == <<tableVars, recorded, mishaps>>
callVars   == <<clientVars, apiVars>>

Ids == 1..(1 + MaxActions + MaxMishaps)
Row == [id : Ids, content : Contents]

Load    == [kind : {"rules"}]
History == [kind : {"history"}, device : Devices, since : 1..MaxRows]
Create  == [kind : {"create"}, content : Contents]
Update  == [kind : {"update"}, id : Ids, content : Contents]
Delete  == [kind : {"delete"}, id : Ids]

Changes  == Create \cup Update \cup Delete
Requests == Load \cup History \cup Changes

\* A call waits for the API ("sent") or its answer waits for the dashboard.
Stages == {"sent", "ok", "failed"}

Kind(n) == calls[n].request.kind
InFlight(kinds) == {n \in DOMAIN calls : Kind(n) \in kinds}
Answered(n) == calls[n].stage # "sent"

ChangeKinds == {"create", "update", "delete"}

CallsInit ==
    /\ calls = <<>> /\ gets = 0 /\ acks = 0 /\ actions = 0
    /\ pending = 0 /\ busy = FALSE /\ unreported = FALSE
    /\ nextRule = 2 /\ rules \in [{1} -> Contents]
    /\ recorded = [d \in Devices |-> OldRows]
    /\ mishaps = 0

-----------------------------------------------------------------------------
(* ApiClient.  get_json, post_json and handle_rule_mutation count their     *)
(* requests; fetchHistory and fetchRules do not.                            *)

Sent(request) == [request |-> request, stage |-> "sent", answer |-> Nothing]

Act == actions < MaxActions /\ actions' = actions + 1

NextFree == CHOOSE n \in 1..(actions + 1) : n \notin DOMAIN calls

Send(request) ==
    /\ Act
    /\ calls' = [m \in DOMAIN calls \cup {NextFree} |->
                    IF m = NextFree THEN Sent(request) ELSE calls[m]]
    /\ busy' = TRUE
    /\ UNCHANGED <<gets, acks>>

SendUncounted(request) == Send(request) /\ UNCHANGED pending
SendCounted(request) == Send(request) /\ pending' = pending + 1

\* Call n has been answered; or its answer makes the client send a request.
Drop(n) == calls' = [m \in DOMAIN calls \ {n} |-> calls[m]]
Resend(n, request) == calls' = [calls EXCEPT ![n] = Sent(request)]

\* A counted call ends, after its handler: the flag is what the handler left,
\* and goes down at zero even if the handler has just sent a request.
CountDown(flag) ==
    /\ pending' = IF pending > 1 THEN pending - 1 ELSE 0
    /\ busy' = (flag /\ pending' > 0)

\* An uncounted call ends: the flag goes down whatever else is in flight.
FinishUncounted(n) ==
    /\ Drop(n)
    /\ busy' = FALSE
    /\ UNCHANGED <<gets, acks, actions, pending>>

-----------------------------------------------------------------------------
(* The API.                                                                 *)

Stride(total) == (total + MaxPoints - 1) \div MaxPoints

\* Mutant: the anomalies are thinned out with the other rows.
DownsampledEvenly(first, last) ==
    LET total == last - first + 1
    IN  {t \in first..last : total <= MaxPoints \/ (t - first) % Stride(total) = 0 \/ t = last}

\* The rows kept of a window: all of them, or every stride-th, the anomalies and
\* the newest.
Downsampled(first, last) ==
    LET total == last - first + 1
    IN  {t \in first..last : \/ total <= MaxPoints
                             \/ (t - first) % Stride(total) = 0
                             \/ t \in Anomalies
                             \/ t = last}

RuleList == {[id |-> r, content |-> rules[r]] : r \in DOMAIN rules}

Reply(n, stage, answer) ==
    calls' = [calls EXCEPT ![n].stage = stage, ![n].answer = answer]

Insert(content) ==
    /\ rules' = [r \in DOMAIN rules \cup {nextRule} |->
                    IF r = nextRule THEN content ELSE rules[r]]
    /\ nextRule' = nextRule + 1

\* The UPDATE of a rule that is gone is a success that changes no row.
Replace(id, content) ==
    /\ rules' = [r \in DOMAIN rules |-> IF r = id THEN content ELSE rules[r]]
    /\ UNCHANGED nextRule

Remove(id) ==
    /\ rules' = [r \in DOMAIN rules \ {id} |-> rules[r]]
    /\ UNCHANGED nextRule

Change(request) ==
    CASE request.kind = "create" -> Insert(request.content)
      [] request.kind = "update" -> Replace(request.id, request.content)
      [] request.kind = "delete" -> Remove(request.id)

ServeChange(n) ==
    /\ Kind(n) \in ChangeKinds
    /\ Change(calls[n].request)
    /\ Reply(n, "ok", Nothing)
    /\ UNCHANGED mishaps

ServeRead(n) ==
    /\ \/ Kind(n) = "rules" /\ Reply(n, "ok", RuleList)
       \/ /\ Kind(n) = "history"
          /\ LET request == calls[n].request
             IN  \E rows \in InOrder(Downsampled(request.since, recorded[request.device])) :
                    Reply(n, "ok", rows)
    /\ UNCHANGED <<tableVars, mishaps>>

\* The statement fails.  A change is refused; a list or a history is answered
\* with 200 and nothing in it.
ServeFault(n) ==
    /\ mishaps < MaxMishaps /\ mishaps' = mishaps + 1
    /\ \/ Kind(n) \in ChangeKinds /\ Reply(n, "failed", Nothing)
       \/ Kind(n) = "rules" /\ Reply(n, "ok", {})
       \/ Kind(n) = "history" /\ Reply(n, "ok", <<>>)
    /\ UNCHANGED tableVars

Serve(n) ==
    /\ ~Answered(n)
    /\ ServeChange(n) \/ ServeRead(n) \/ ServeFault(n)
    /\ UNCHANGED <<gets, acks, actions, pending, busy, unreported, recorded>>

\* The request, or the answer to it, is lost with its connection.
LoseCall(n) ==
    /\ calls[n].stage # "failed"
    /\ mishaps < MaxMishaps /\ mishaps' = mishaps + 1
    /\ Reply(n, "failed", Nothing)
    /\ UNCHANGED <<gets, acks, actions, pending, busy, unreported, tableVars, recorded>>

\* Another dashboard uses the same routes.
OtherDashboard ==
    /\ mishaps < MaxMishaps /\ mishaps' = mishaps + 1
    /\ \/ \E c \in Contents : Insert(c)
       \/ \E r \in DOMAIN rules : Remove(r) \/ \E c \in Contents : Replace(r, c)
    /\ UNCHANGED <<clientVars, recorded>>

\* Ingestion stores the next reading of a device.
RecordReading(d) ==
    /\ recorded[d] < MaxRows
    /\ recorded' = [recorded EXCEPT ![d] = @ + 1]
    /\ UNCHANGED <<clientVars, tableVars, mishaps>>

-----------------------------------------------------------------------------
(* The calls of the other pages: the answers end up in their models, and    *)
(* here only their ends count.                                              *)

\* Every new WebSocket connection, and a timer after the start.
Bootstrap ==
    /\ Act
    /\ gets' = gets + 3 /\ pending' = pending + 3 /\ busy' = TRUE
    /\ unreported' = TRUE
    /\ UNCHANGED <<calls, acks, apiVars>>

AcknowledgeAlarm ==
    /\ Act
    /\ acks' = acks + 1 /\ pending' = pending + 1 /\ busy' = TRUE
    /\ UNCHANGED <<calls, gets, unreported, apiVars>>

\* bootstrapFinished(true) tells that the counter is at zero, whatever the
\* answers were; only the end of a get tells it.
GetAnswered ==
    /\ gets > 0 /\ gets' = gets - 1
    /\ CountDown(busy)
    /\ unreported' = (unreported /\ pending' > 0)
    /\ UNCHANGED <<calls, acks, actions, apiVars>>

AckAnswered ==
    /\ acks > 0 /\ acks' = acks - 1
    /\ CountDown(busy)
    /\ UNCHANGED <<calls, gets, actions, unreported, apiVars>>
=============================================================================
