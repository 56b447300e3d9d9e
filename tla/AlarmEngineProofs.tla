------------------------- MODULE AlarmEngineProofs -------------------------
(***************************************************************************)
(* Proofs about the alarm engine, for every value of its constants: type   *)
(* correctness, the invariant of the poll, at most one alarm per reading   *)
(* and rule, no reading skipped and none replayed, the refinement of       *)
(* OrderedPoll, and what alarms say, refer to and keep.                    *)
(***************************************************************************)
EXTENDS AlarmEngineProperties, SequenceTheorems, TLAPS

\* What the routes and the seeding store in alarm_rules is a row of the table
\* (api_server.cpp:345-369, alarm_store.cpp:116-153).
LEMMA FromBodyType ==
    ASSUME NEW id \in Nat \ {0}, NEW template \in Templates,
           NEW body, body.stream \in Streams, body.threshold \in Int
    PROVE  FromBody(id, body, template) \in Rule
  BY DEF FromBody, Rule, ConditionFromString, SeverityFromString, Conditions, Severities

\* Loading drops the template and nothing else (alarm_store.cpp:235-265).
LEMMA LoadedRulesType ==
    ASSUME rules \subseteq Rule
    PROVE  LoadedRules \subseteq Rule
<1> SUFFICES ASSUME NEW r \in rules
             PROVE  [r EXCEPT !.template = NoTemplate] \in Rule
  BY DEF LoadedRules
<1>1. r \in Rule
  OBVIOUS
<1> QED
  BY <1>1, RulesAssumption DEF Rule

\* The columns alarms keeps of a fired rule (alarm_store.cpp:274-306).
LEMMA AlarmRowType ==
    ASSUME NEW id \in 1..MaxReadingId, NEW r \in Rule
    PROVE  [reading |-> id, by |-> r, ref |-> r.id, message |-> FormatMessage(r)]
             \in AlarmRow
<1>1. FormatMessage(r) \in Messages
  BY DEF FormatMessage, DefaultMessageTemplate, Messages, Rule
<1> QED
  BY <1>1 DEF AlarmRow, Rule

\* Nulling the reference of some alarms (rule_service.cpp:156) keeps the table's type.
LEMMA DetachedType ==
    ASSUME alarms \in Seq(AlarmRow), NEW S
    PROVE  [i \in DOMAIN alarms |->
              IF i \in S THEN [alarms[i] EXCEPT !.ref = 0] ELSE alarms[i]] \in Seq(AlarmRow)
<1>1. ASSUME NEW i \in DOMAIN alarms
      PROVE  [alarms[i] EXCEPT !.ref = 0] \in AlarmRow /\ alarms[i] \in AlarmRow
  <2>1. alarms[i] \in AlarmRow
    OBVIOUS
  <2> QED
    BY <2>1 DEF AlarmRow
<1>2. DOMAIN alarms = 1..Len(alarms) /\ Len(alarms) \in Nat
  OBVIOUS
<1> QED
  BY <1>1, <1>2

\* A query's outcome moves the fault counter within its bound.
LEMMA QueryType ==
    ASSUME faults \in 0..MaxFaults, NEW link, Succeeds(link) \/ Fails(link)
    PROVE  faults' \in 0..MaxFaults
  BY BoundsAssumption DEF Succeeds, Fails

\* Every variable keeps its type: the code's own types, and the bounds.
THEOREM TypeCorrect == Spec => []TypeOK
<1>1. Init => TypeOK
  <2>1. <<>> \in Seq(AlarmRow) /\ <<>> \in Seq(SeedRule)
    BY EmptySeq
  <2>2. NoTx \in [step : {"none", "detached", "deleted"}, rule : Nat, held : SUBSET Nat]
    BY DEF NoTx
  <2>3. Init => alarms \in Seq(AlarmRow)
    BY <2>1 DEF Init
  <2>4. Init => seedLeft \in Seq(SeedRule)
    BY <2>1 DEF Init
  <2>5. Init => tx \in [step : {"none", "detached", "deleted"}, rule : Nat, held : SUBSET Nat]
    BY <2>2 DEF Init
  <2>6. Init => /\ readings \subseteq Reading /\ nextReading \in 1..(MaxReadingId + 1)
                /\ rules \subseteq Rule /\ nextRule \in Nat \ {0}
                /\ fk \in {"noaction", "setnull"}
                /\ pc \in PCs /\ lastId \in Nat \cup {NoCursor}
                /\ cached \subseteq Rule /\ batch \subseteq Reading
    BY BoundsAssumption, FlagsAssumption DEF Init, PCs
  <2>7. Init => IF pc = "write" THEN row \in Reading ELSE row = NoReading
    BY DEF Init
  <2>8. Init => /\ todo \subseteq Rule /\ lost \subseteq {"store", "reader"}
                /\ start \in Nat \cup {NoCursor} /\ evaluated \subseteq 1..MaxReadingId
                /\ steady \subseteq Rule /\ initialLoad \in BOOLEAN
    BY DEF Init
  <2>9. Init => faults \in 0..MaxFaults /\ starts \in 0..MaxStarts
    BY BoundsAssumption DEF Init
  <2> QED
    BY <2>3, <2>4, <2>5, <2>6, <2>7, <2>8, <2>9 DEF TypeOK
<1>2. TypeOK /\ [Next]_vars => TypeOK'
  <2> SUFFICES ASSUME TypeOK, [Next]_vars PROVE TypeOK'
    OBVIOUS
  <2> USE BoundsAssumption, ValuesAssumption DEF TypeOK
  <2>1. ASSUME NEW a \in Samples, InsertBatch(<<a>>) PROVE TypeOK'
    BY <2>1 DEF InsertBatch, Samples, Reading, procVars, envVars, histVars
  <2>2. ASSUME NEW a \in Samples, NEW b \in Samples, InsertBatch(<<a, b>>) PROVE TypeOK'
    BY <2>2 DEF InsertBatch, Samples, Reading, procVars, envVars, histVars
  <2>3. CASE InsertBatchFails
    BY <2>3 DEF InsertBatchFails, procVars, histVars
  <2>4. ASSUME NEW body \in RuleBodies, CreateRule(body) PROVE TypeOK'
    <3>1. FromBody(nextRule, body, NoTemplate) \in Rule
      BY RulesAssumption, FromBodyType DEF RuleBody
    <3> QED
      BY <2>4, <3>1 DEF CreateRule, procVars, envVars, histVars
  <2>5. ASSUME NEW r \in rules, NEW body \in RuleBodies, UpdateRule(r, body) PROVE TypeOK'
    <3>1. FromBody(r.id, body, r.template) \in Rule
      BY FromBodyType, RulesAssumption DEF Rule, RuleBody
    <3> QED
      BY <2>5, <3>1 DEF UpdateRule, procVars, envVars
  <2>6. ASSUME NEW r \in rules, DeleteDetach(r) PROVE TypeOK'
    BY <2>6 DEF DeleteDetach, Rule, procVars, envVars, histVars
  <2>7. CASE DeleteRow
    <3>1. Unseen \subseteq Nat
      BY DEF Unseen
    <3>2. tx' \in [step : {"none", "detached", "deleted"}, rule : Nat, held : SUBSET Nat]
      BY <2>7, <3>1 DEF DeleteRow
    <3> QED
      BY <2>7, <3>2 DEF DeleteRow, procVars, envVars, histVars
  <2>8. CASE DeleteCommit
    <3>1. alarms' \in Seq(AlarmRow)
      BY <2>8, DetachedType DEF DeleteCommit
    <3> QED
      BY <2>8, <3>1 DEF DeleteCommit, NoTx, procVars, envVars
  <2>9. CASE DeleteRollback
    BY <2>9 DEF DeleteRollback, NoTx, procVars, histVars
  <2>10. CASE EngineStart
    BY <2>10 DEF EngineStart, PCs, Ids, Reading
  <2>11. CASE SeedCheck
    BY <2>11, QueryType, RulesAssumption DEF SeedCheck, PCs, dbVars, histVars
  <2>12. CASE AddRule
    <3> DEFINE head == Head(seedLeft)
    <3>1. /\ head \in SeedRule
          /\ Tail(seedLeft) \in Seq(SeedRule)
      BY <2>12, HeadTailProperties DEF AddRule
    <3>2. FromBody(nextRule, head, head.template) \in Rule
      BY <3>1, FromBodyType DEF SeedRule
    <3> QED
      BY <2>12, <3>1, <3>2, QueryType DEF AddRule, histVars
  <2>13. CASE SeedDone
    BY <2>13 DEF SeedDone, PCs, dbVars, envVars, histVars
  <2>14. CASE OpenReader
    BY <2>14 DEF OpenReader, PCs, dbVars, histVars
  <2>15. CASE InitialLoad
    BY <2>15, QueryType, LoadedRulesType DEF InitialLoad, PCs, dbVars
  <2>16. CASE CatchUp
    BY <2>16, QueryType DEF CatchUp, CatchUpReadingId, PCs, dbVars, Ids, Reading
  <2>17. CASE WakeUp
    BY <2>17, QueryType DEF WakeUp, CatchUpReadingId, PCs, dbVars, Ids, Reading
  <2>18. CASE ReloadRules
    BY <2>18, QueryType, LoadedRulesType DEF ReloadRules, PCs, dbVars, histVars
  <2>19. CASE FetchReadings
    BY <2>19, QueryType DEF FetchReadings, ReadingsAfter, PCs, dbVars, histVars
  <2>20. CASE EvaluateAll
    BY <2>20 DEF EvaluateAll, First, Firing, PCs, Reading, dbVars, envVars
  <2>21. CASE WriteAlarm
    <3> DEFINE new(r) == [reading |-> row.id, by |-> r, ref |-> r.id,
                          message |-> FormatMessage(r)]
    <3>1. row.id \in 1..MaxReadingId
      BY <2>21 DEF WriteAlarm, Reading
    <3>2. \A r \in todo : new(r) \in AlarmRow
      BY <3>1, AlarmRowType
    <3>3. \E r \in todo : alarms' = Append(alarms, new(r)) \/ alarms' = alarms
      BY <2>21 DEF WriteAlarm
    <3> HIDE DEF new
    <3>5. alarms' \in Seq(AlarmRow)
      BY <3>2, <3>3
    <3>4. todo' \subseteq Rule /\ faults' \in 0..MaxFaults
      BY <2>21, QueryType DEF WriteAlarm
    <3> QED
      BY <2>21, <3>5, <3>4 DEF WriteAlarm
  <2>22. CASE AdvanceCursor
    BY <2>22 DEF AdvanceCursor, Reading, PCs, dbVars, envVars, histVars
  <2>23. CASE Environment
    BY <2>23, EmptySeq DEF Environment, Stop, Crash, Reset, LoseConnection, PCs,
                dbVars, procVars, envVars, histVars
  <2>24. CASE UNCHANGED vars
    BY <2>24 DEF vars, dbVars, procVars, envVars, histVars
  <2> QED
    BY <2>1, <2>2, <2>3, <2>4, <2>5, <2>6, <2>7, <2>8, <2>9, <2>10, <2>11, <2>12,
       <2>13, <2>14, <2>15, <2>16, <2>17, <2>18, <2>19, <2>20, <2>21, <2>22, <2>23, <2>24
       DEF Next, Ingestion, Api, Startup, Poll
<1> QED
  BY <1>1, <1>2, PTL DEF Spec

-----------------------------------------------------------------------------
(* The invariant of the poll.                                               *)

\* What the types say about ids, in the form the steps below use.
LEMMA IdTypes ==
    ASSUME TypeOK
    PROVE  /\ \A r \in readings : r.id \in Nat /\ r.id \in 1..MaxReadingId
           /\ \A r \in rules \cup cached \cup todo : r.id \in Nat
           /\ \A r \in batch : r.id \in Nat /\ r.id \in 1..MaxReadingId
           /\ lastId # NoCursor => lastId \in Nat
           /\ start # NoCursor => start \in Nat
           /\ nextReading \in Nat /\ nextRule \in Nat
           /\ evaluated \subseteq Nat
  BY BoundsAssumption DEF TypeOK, Reading, Rule

\* A load copies ids.
LEMMA LoadKeepsIds ==
    ASSUME rules \subseteq Rule, UniqueIds(rules)
    PROVE  UniqueIds(LoadedRules)
<1> DEFINE load(r) == [r EXCEPT !.template = NoTemplate]
<1>1. \A r \in rules : load(r).id = r.id
  BY DEF Rule
<1>2. LoadedRules = {load(r) : r \in rules}
  BY DEF LoadedRules
<1> HIDE DEF load
<1> QED
  BY <1>1, <1>2 DEF UniqueIds

PollState == <<readings, nextReading, rules, nextRule, alarms, pc, lastId, cached,
               batch, row, todo, start, evaluated>>

\* Steps of the other actors that touch none of the poll's state.
LEMMA FrameStep ==
    ASSUME PollInv, UNCHANGED PollState
    PROVE  PollInv'
  BY DEF PollInv, PollState, IdsAreSerial, UniqueIds, ControlState, First, BatchIsNext,
         EvaluatedIsBehind, PollCursor, Ids, AlarmsAreBehind, CursorSkipsNothing,
         NoDuplicateAlarm

LEMMA PollInvInit == Init => PollInv
  BY DEF Init, PollInv, IdsAreSerial, UniqueIds, ControlState, BatchIsNext,
         EvaluatedIsBehind, PollCursor, Ids, AlarmsAreBehind, CursorSkipsNothing,
         NoDuplicateAlarm

\* Ids of a new batch are above every committed one, so they are above the
\* cursor's past, and behind the batch a poll may be working on.
LEMMA AppendKeepsPollInv ==
    ASSUME TypeOK, PollInv, NEW samples \in Seq(Samples), InsertBatch(samples)
    PROVE  PollInv'
<1> DEFINE new == {[id |-> nextReading + i - 1, stream |-> samples[i].stream,
                    value |-> samples[i].value] : i \in 1..Len(samples)}
<1>1. /\ readings' = readings \cup new
      /\ nextReading' = nextReading + Len(samples)
      /\ UNCHANGED <<rules, nextRule, alarms, pc, lastId, cached, batch, row, todo,
                     start, evaluated>>
  BY DEF InsertBatch, procVars, envVars, histVars
<1>2. nextReading \in Nat /\ Len(samples) \in Nat
  BY IdTypes
<1>3. \A r \in new : r.id \in Nat /\ nextReading <= r.id /\ r.id < nextReading'
  BY <1>1, <1>2, IdTypes
<1>4. UniqueIds(new)
  BY <1>2 DEF UniqueIds
<1>5. \A r \in readings : r.id \in Nat /\ r.id < nextReading
  BY IdTypes DEF PollInv, IdsAreSerial
<1> HIDE DEF new
<1>6. IdsAreSerial'
  BY <1>1, <1>2, <1>3, <1>4, <1>5, IdTypes DEF PollInv, IdsAreSerial, UniqueIds
<1>7. ControlState'
  BY <1>1 DEF PollInv, ControlState, First
<1>8. BatchIsNext'
  <2>1. \A b \in batch, r \in new : b.id < r.id
    BY <1>2, <1>3, <1>5, IdTypes DEF PollInv, BatchIsNext
  <2> QED
    BY <1>1, <1>3, <2>1, IdTypes DEF PollInv, BatchIsNext
<1>9. EvaluatedIsBehind' /\ AlarmsAreBehind' /\ NoDuplicateAlarm'
  BY <1>1 DEF PollInv, EvaluatedIsBehind, AlarmsAreBehind, NoDuplicateAlarm, PollCursor, Ids
<1>10. CursorSkipsNothing'
  <2> SUFFICES ASSUME lastId # NoCursor, NEW r \in new, start < r.id, r.id <= lastId
               PROVE  FALSE
    BY <1>1 DEF PollInv, CursorSkipsNothing
  <2> QED
    BY <1>2, <1>3, IdTypes DEF PollInv, IdsAreSerial
<1> QED
  BY <1>6, <1>7, <1>8, <1>9, <1>10 DEF PollInv

\* What the API does to alarm_rules and to the reference column of alarms.
LEMMA RuleRoutesKeepPollInv ==
    ASSUME TypeOK, PollInv,
           \/ \E body \in RuleBodies : CreateRule(body)
           \/ \E r \in rules, body \in RuleBodies : UpdateRule(r, body)
           \/ DeleteCommit
    PROVE  PollInv'
<1> DEFINE PollUntouched == UNCHANGED <<readings, nextReading, pc, lastId, cached, batch,
                                        row, todo, start, evaluated>>
<1>1. IdsAreSerial' /\ PollUntouched
  <2>1. ASSUME NEW body \in RuleBodies, CreateRule(body) PROVE IdsAreSerial' /\ PollUntouched
    BY <2>1, IdTypes DEF CreateRule, FromBody, PollInv, IdsAreSerial, UniqueIds,
                         procVars, envVars, histVars
  <2>2. ASSUME NEW r \in rules, NEW body \in RuleBodies, UpdateRule(r, body)
        PROVE  IdsAreSerial' /\ PollUntouched
    BY <2>2, IdTypes DEF UpdateRule, FromBody, PollInv, IdsAreSerial, UniqueIds,
                         procVars, envVars
  <2>3. CASE DeleteCommit
    BY <2>3, IdTypes DEF DeleteCommit, PollInv, IdsAreSerial, UniqueIds, procVars, envVars
  <2> QED
    BY <2>1, <2>2, <2>3
<1>2. /\ DOMAIN alarms' = DOMAIN alarms
      /\ \A i \in DOMAIN alarms : /\ alarms'[i].reading = alarms[i].reading
                                 /\ alarms'[i].by = alarms[i].by
  <2>1. CASE DeleteCommit
    <3>1. \A i \in DOMAIN alarms : alarms[i] \in AlarmRow
      BY DEF TypeOK
    <3> QED
      BY <2>1, <3>1 DEF DeleteCommit, AlarmRow
  <2>2. CASE UNCHANGED alarms
    BY <2>2
  <2> QED
    BY <2>1, <2>2 DEF CreateRule, UpdateRule
<1>3. AlarmsAreBehind' /\ NoDuplicateAlarm'
  BY <1>1, <1>2 DEF PollInv, AlarmsAreBehind, NoDuplicateAlarm, Ids
<1>4. ControlState' /\ BatchIsNext' /\ EvaluatedIsBehind' /\ CursorSkipsNothing'
  BY <1>1 DEF PollInv, ControlState, First, BatchIsNext, EvaluatedIsBehind, PollCursor,
              CursorSkipsNothing, Ids
<1> QED
  BY <1>1, <1>3, <1>4 DEF PollInv

\* Starting up: nothing is fetched before there is a cursor, and the cursor is
\* at or above every id that was ever evaluated.
LEMMA StartupKeepsPollInv ==
    ASSUME TypeOK, PollInv, EngineStart \/ Startup
    PROVE  PollInv'
<1> USE DEF PollInv, IdsAreSerial, UniqueIds, ControlState, First, BatchIsNext,
            EvaluatedIsBehind, PollCursor, Ids, AlarmsAreBehind, CursorSkipsNothing,
            NoDuplicateAlarm
<1>1. CASE EngineStart
  BY <1>1 DEF EngineStart
<1>2. CASE SeedCheck
  BY <1>2 DEF SeedCheck, dbVars, histVars
<1>3. CASE AddRule
  BY <1>3, IdTypes DEF AddRule, FromBody, histVars
<1>4. CASE SeedDone
  BY <1>4 DEF SeedDone, dbVars, envVars, histVars
<1>5. CASE OpenReader
  BY <1>5 DEF OpenReader, dbVars, histVars
<1>6. CASE InitialLoad
  <2>1. UniqueIds(cached')
    BY <1>6, LoadKeepsIds DEF InitialLoad, TypeOK
  <2> QED
    BY <1>6, <2>1 DEF InitialLoad, dbVars
<1>7. CASE CatchUp
  BY <1>7, IdTypes, CursorAssumption DEF CatchUp, CatchUpReadingId, IsCaughtUp, dbVars, TypeOK
<1> QED
  BY <1>1, <1>2, <1>3, <1>4, <1>5, <1>6, <1>7 DEF Startup

\* The poll up to the fetch: what is fetched is everything above last_id.
LEMMA PollBeginKeepsPollInv ==
    ASSUME TypeOK, PollInv, WakeUp \/ ReloadRules \/ FetchReadings
    PROVE  PollInv'
<1> USE DEF PollInv, IdsAreSerial, UniqueIds, ControlState, First, BatchIsNext,
            EvaluatedIsBehind, PollCursor, Ids, AlarmsAreBehind, CursorSkipsNothing,
            NoDuplicateAlarm
<1>1. CASE WakeUp
  <2>1. CASE lastId # NoCursor
    BY <1>1, <2>1 DEF WakeUp, dbVars
  <2>2. CASE lastId = NoCursor /\ lastId' = NoCursor
    BY <1>1, <2>2 DEF WakeUp, dbVars
  <2>3. CASE lastId = NoCursor /\ lastId' # NoCursor
    <3>1. IsCaughtUp(lastId') /\ start' = lastId' /\ pc' = "reload"
      BY <1>1, <2>3 DEF WakeUp, CatchUpReadingId
    <3>2. lastId' \in Nat /\ lastId' < nextReading /\ \A r \in readings : r.id <= lastId'
      BY <3>1, IdTypes DEF IsCaughtUp, TypeOK
    <3> QED
      BY <1>1, <2>3, <3>1, <3>2, IdTypes DEF WakeUp, dbVars
  <2> QED
    BY <2>1, <2>2, <2>3
<1>2. CASE ReloadRules
  <2>1. UniqueIds(cached')
    BY <1>2, LoadKeepsIds DEF ReloadRules, TypeOK
  <2> QED
    BY <1>2, <2>1 DEF ReloadRules, dbVars, histVars
<1>3. CASE FetchReadings
  BY <1>3, IdTypes DEF FetchReadings, ReadingsAfter, dbVars, histVars
<1> QED
  BY <1>1, <1>2, <1>3

\* Evaluating the first row of the batch: no alarm can be its own yet.
LEMMA EvaluateKeepsPollInv ==
    ASSUME TypeOK, PollInv, EvaluateAll
    PROVE  PollInv'
<1>1. PICK r \in batch : /\ First(r, batch) /\ row' = r
                         /\ todo' = Firing(cached, r)
                         /\ evaluated' = evaluated \cup {r.id}
  BY DEF EvaluateAll
<1>2. /\ pc = "row" /\ pc' = "write"
      /\ UNCHANGED <<readings, nextReading, rules, nextRule, alarms, lastId, cached,
                     batch, start>>
  BY DEF EvaluateAll, dbVars, envVars
<1>3. /\ lastId \in Nat /\ r.id \in Nat /\ r \in readings /\ lastId < r.id
      /\ \A id \in evaluated : id \in Nat /\ id <= lastId
  BY <1>2, IdTypes DEF PollInv, ControlState, BatchIsNext, EvaluatedIsBehind, PollCursor
<1>4. IdsAreSerial' /\ BatchIsNext' /\ NoDuplicateAlarm'
  BY <1>2 DEF PollInv, IdsAreSerial, BatchIsNext, NoDuplicateAlarm
<1>5. ControlState'
  BY <1>1, <1>2 DEF PollInv, ControlState, First, Firing
<1>6. EvaluatedIsBehind'
  BY <1>1, <1>2, <1>3 DEF PollInv, EvaluatedIsBehind, PollCursor, Ids
<1>7. AlarmsAreBehind'
  BY <1>1, <1>2, <1>3 DEF PollInv, AlarmsAreBehind
<1>8. CursorSkipsNothing'
  BY <1>1, <1>2, <1>3 DEF PollInv, CursorSkipsNothing
<1> QED
  BY <1>4, <1>5, <1>6, <1>7, <1>8 DEF PollInv

\* Writing one alarm: its rule leaves todo as its row enters the table.
LEMMA WriteKeepsPollInv ==
    ASSUME TypeOK, PollInv, WriteAlarm
    PROVE  PollInv'
<1> DEFINE new(r) == [reading |-> row.id, by |-> r, ref |-> r.id, message |-> FormatMessage(r)]
<1>1. PICK r \in todo : /\ todo' = todo \ {r}
                        /\ \/ alarms' = Append(alarms, new(r))
                           \/ alarms' = alarms
  BY DEF WriteAlarm
<1>2. /\ pc = "write"
      /\ UNCHANGED <<readings, nextReading, rules, nextRule, pc, lastId, cached,
                     batch, row, start, evaluated>>
  BY DEF WriteAlarm
<1>3. new(r).reading = row.id /\ new(r).by = r
  OBVIOUS
<1> HIDE DEF new
<1>4. todo \subseteq cached /\ UniqueIds(cached) /\ row.id \in evaluated
  BY <1>2 DEF PollInv, ControlState, IdsAreSerial
<1>5. r.id \notin Ids(todo')
  BY <1>1, <1>4 DEF UniqueIds, Ids
<1>6. IdsAreSerial' /\ ControlState' /\ BatchIsNext' /\ EvaluatedIsBehind' /\ CursorSkipsNothing'
  BY <1>1, <1>2 DEF PollInv, IdsAreSerial, ControlState, First, BatchIsNext,
                    EvaluatedIsBehind, PollCursor, Ids, CursorSkipsNothing
<1>7. AlarmsAreBehind' /\ NoDuplicateAlarm'
  <2>1. CASE alarms' = alarms
    BY <1>1, <1>2, <2>1 DEF PollInv, AlarmsAreBehind, NoDuplicateAlarm, Ids
  <2>2. CASE alarms' = Append(alarms, new(r))
    <3>1. /\ DOMAIN alarms' = DOMAIN alarms \cup {Len(alarms) + 1}
          /\ alarms'[Len(alarms) + 1] = new(r)
          /\ \A i \in DOMAIN alarms : alarms'[i] = alarms[i]
      BY <2>2 DEF TypeOK
    <3>2. AlarmsAreBehind'
      BY <1>1, <1>2, <1>3, <1>4, <1>5, <3>1 DEF PollInv, AlarmsAreBehind, Ids
    <3>3. \A i \in DOMAIN alarms : alarms[i].reading # row.id \/ alarms[i].by.id # r.id
      BY <1>1, <1>2 DEF PollInv, AlarmsAreBehind, Ids
    <3> QED
      BY <1>3, <3>1, <3>2, <3>3 DEF PollInv, NoDuplicateAlarm
  <2> QED
    BY <1>1, <2>1, <2>2
<1> QED
  BY <1>6, <1>7 DEF PollInv

\* Moving the cursor over the first row: nothing lies between the two.
LEMMA AdvanceKeepsPollInv ==
    ASSUME TypeOK, PollInv, AdvanceCursor
    PROVE  PollInv'
<1>1. /\ pc = "write" /\ todo = {}
      /\ lastId' = row.id
      /\ batch' = batch \ {row}
      /\ pc' = IF batch' = {} THEN "sleep" ELSE "row"
      /\ UNCHANGED <<readings, nextReading, rules, nextRule, alarms, cached, todo,
                     start, evaluated>>
  BY DEF AdvanceCursor, dbVars, envVars, histVars
<1>2. /\ row \in batch /\ \A b \in batch : row.id <= b.id
      /\ row \in readings /\ row.id \in evaluated
  BY <1>1 DEF PollInv, ControlState, First, BatchIsNext
<1>3. /\ lastId \in Nat /\ row.id \in Nat /\ row.id # NoCursor /\ lastId < row.id
      /\ row.id < nextReading
      /\ \A b \in batch' : b.id \in Nat /\ row.id < b.id
  <2>1. lastId \in Nat /\ row.id \in Nat /\ lastId < row.id /\ row.id < nextReading
    BY <1>1, <1>2, IdTypes DEF PollInv, ControlState, BatchIsNext, IdsAreSerial
  <2>2. \A b \in batch' : b.id \in Nat /\ b.id # row.id
    BY <1>1, <1>2, IdTypes DEF PollInv, BatchIsNext, IdsAreSerial, UniqueIds
  <2> QED
    BY <1>1, <1>2, <2>1, <2>2, CursorAssumption
<1>4. IdsAreSerial' /\ NoDuplicateAlarm'
  BY <1>1, <1>3 DEF PollInv, IdsAreSerial, NoDuplicateAlarm
<1>5. ControlState'
  BY <1>1, <1>3 DEF PollInv, ControlState
<1>6. BatchIsNext'
  BY <1>1, <1>2, <1>3, IdTypes DEF PollInv, BatchIsNext
<1>7. EvaluatedIsBehind' /\ AlarmsAreBehind'
  BY <1>1 DEF PollInv, EvaluatedIsBehind, AlarmsAreBehind, PollCursor
<1>8. CursorSkipsNothing'
  <2>1. start \in Nat /\ start <= lastId
    BY <1>1, IdTypes DEF PollInv, CursorSkipsNothing, ControlState
  <2> SUFFICES ASSUME NEW s \in readings, start < s.id, s.id <= row.id
               PROVE  s.id \in evaluated
    BY <1>1, <1>3, <2>1, CursorAssumption DEF CursorSkipsNothing
  <2>2. CASE s.id <= lastId
    BY <2>2, <1>1, <1>3 DEF PollInv, CursorSkipsNothing, ControlState
  <2>3. CASE lastId < s.id
    <3>1. s \in batch
      BY <2>3, <1>2 DEF PollInv, BatchIsNext
    <3>2. s.id = row.id
      BY <3>1, <1>2, <1>3, IdTypes
    <3> QED
      BY <3>2, <1>2
  <2> QED
    BY <2>2, <2>3, <1>3, IdTypes
<1> QED
  BY <1>4, <1>5, <1>6, <1>7, <1>8 DEF PollInv

\* The end of the process keeps what is about the tables.
LEMMA ResetKeepsPollInv ==
    ASSUME PollInv, Reset
    PROVE  PollInv'
  BY DEF Reset, PollInv, IdsAreSerial, UniqueIds, ControlState, First, BatchIsNext,
         EvaluatedIsBehind, PollCursor, Ids, AlarmsAreBehind, CursorSkipsNothing,
         NoDuplicateAlarm, dbVars, envVars

LEMMA PollInvStep ==
    ASSUME TypeOK, PollInv, [Next]_vars
    PROVE  PollInv'
<1>1. CASE Ingestion
  <2>1. ASSUME NEW a \in Samples, InsertBatch(<<a>>) PROVE PollInv'
    BY <2>1, AppendKeepsPollInv, <<a>> \in Seq(Samples)
  <2>2. ASSUME NEW a \in Samples, NEW b \in Samples, InsertBatch(<<a, b>>) PROVE PollInv'
    BY <2>2, AppendKeepsPollInv, <<a, b>> \in Seq(Samples)
  <2>3. CASE InsertBatchFails
    BY <2>3, IdTypes DEF InsertBatchFails, procVars, histVars,
         PollInv, IdsAreSerial, UniqueIds, ControlState, First, BatchIsNext,
         EvaluatedIsBehind, PollCursor, Ids, AlarmsAreBehind, CursorSkipsNothing,
         NoDuplicateAlarm
  <2> QED
    BY <1>1, <2>1, <2>2, <2>3 DEF Ingestion
<1>2. CASE Api
  <2>1. ASSUME \/ \E r \in rules : DeleteDetach(r)
               \/ DeleteRow
               \/ DeleteRollback
        PROVE  PollInv'
    BY <2>1, FrameStep DEF DeleteDetach, DeleteRow, DeleteRollback, PollState,
                           procVars, envVars, histVars
  <2> QED
    BY <1>2, <2>1, RuleRoutesKeepPollInv DEF Api
<1>3. CASE EngineStart \/ Startup
  BY <1>3, StartupKeepsPollInv
<1>4. CASE Poll
  BY <1>4, PollBeginKeepsPollInv, EvaluateKeepsPollInv, WriteKeepsPollInv, AdvanceKeepsPollInv
     DEF Poll
<1>5. CASE Environment
  <2>1. ASSUME NEW link \in {"store", "reader"}, LoseConnection(link) PROVE PollInv'
    BY <2>1, FrameStep DEF LoseConnection, PollState, dbVars, procVars, histVars
  <2> QED
    BY <1>5, <2>1, ResetKeepsPollInv DEF Environment, Stop, Crash
<1>6. CASE UNCHANGED vars
  BY <1>6, FrameStep DEF vars, dbVars, procVars, envVars, histVars, PollState
<1> QED
  BY <1>1, <1>2, <1>3, <1>4, <1>5, <1>6 DEF Next

\* The invariant of the poll holds in every reachable state.
THEOREM PollInvariant == Spec => []PollInv
<1>1. TypeOK /\ PollInv /\ [Next]_vars => PollInv'
  BY PollInvStep
<1> QED
  BY <1>1, PollInvInit, TypeCorrect, PTL DEF Spec

\* One alarm per reading and rule at most, over every poll, failure and restart
\* (main.cpp:119-162).
THEOREM AtMostOneAlarm == Spec => []NoDuplicateAlarm
<1>1. PollInv => NoDuplicateAlarm
  BY DEF PollInv
<1> QED
  BY <1>1, PollInvariant, PTL

\* The cursor passes no committed reading without evaluating it
\* (reading_cursor.h: a row must not be permanently skipped).
THEOREM NothingIsSkipped == Spec => []CursorSkipsNothing
<1>1. PollInv => CursorSkipsNothing
  BY DEF PollInv
<1> QED
  BY <1>1, PollInvariant, PTL

-----------------------------------------------------------------------------
(* The engine implements the ordered poll.                                  *)

PollerVars == <<Ids(readings), PollCursor, evaluated>>

\* Steps that move neither the readings nor the engine through its poll.
LEMMA PollerStutter ==
    ASSUME UNCHANGED <<readings, lastId, evaluated>>,
           \/ UNCHANGED <<pc, row>>
           \/ pc # "write" /\ pc' # "write"
    PROVE  UNCHANGED PollerVars
  BY DEF PollerVars, PollCursor, Ids

LEMMA PollerStep ==
    ASSUME TypeOK, PollInv, PollInv', [Next]_vars
    PROVE  [Poller!Next]_PollerVars
<1> USE DEF PollerVars
<1>1. ASSUME NEW samples \in Seq(Samples), InsertBatch(samples) PROVE Poller!Next
  <2>1. /\ readings \subseteq readings'
        /\ \A r \in readings' \ readings : r.id \in Nat /\ nextReading <= r.id
        /\ UNCHANGED <<lastId, pc, row, evaluated>>
    BY <1>1, IdTypes DEF InsertBatch, procVars, envVars, histVars
  <2>2. \A new \in Ids(readings') \ Ids(readings), old \in Ids(readings) : old < new
    <3>1. \A r \in readings : r.id \in Nat /\ r.id < nextReading
      BY IdTypes DEF PollInv, IdsAreSerial
    <3> QED
      BY <2>1, <3>1, IdTypes DEF Ids
  <2> QED
    BY <2>1, <2>2 DEF Poller!Next, Poller!Commit, PollCursor, Ids
<1>2. CASE Ingestion
  <2>1. CASE InsertBatchFails
    BY <2>1, PollerStutter DEF InsertBatchFails, procVars, histVars
  <2> QED
    BY <1>1, <1>2, <2>1, \A a, b \in Samples : <<a>> \in Seq(Samples) /\ <<a, b>> \in Seq(Samples)
       DEF Ingestion
<1>3. CASE Api
  BY <1>3, PollerStutter DEF Api, CreateRule, UpdateRule, DeleteDetach, DeleteRow, DeleteCommit,
                             DeleteRollback, procVars, envVars, histVars
<1>4. CASE EngineStart \/ SeedCheck \/ AddRule \/ SeedDone \/ OpenReader \/ InitialLoad
  BY <1>4, PollerStutter DEF EngineStart, SeedCheck, AddRule, SeedDone, OpenReader, InitialLoad,
                             dbVars, envVars, histVars
<1>5. CASE CatchUp \/ WakeUp
  <2>1. /\ pc \in {"catchUp", "sleep"} /\ pc' \in {"sleep", "reload"}
        /\ UNCHANGED <<readings, evaluated>>
        /\ lastId' # lastId => lastId = NoCursor /\ IsCaughtUp(lastId')
    BY <1>5 DEF CatchUp, WakeUp, CatchUpReadingId, PollInv, ControlState, dbVars
  <2>2. CASE lastId' = lastId
    BY <2>1, <2>2, PollerStutter
  <2>3. CASE lastId = NoCursor /\ IsCaughtUp(lastId')
    <3>1. lastId' \in {0} \cup Ids(readings) /\ \A id \in Ids(readings) : id <= lastId'
      BY <2>3 DEF IsCaughtUp, Ids
    <3> QED
      BY <2>1, <2>3, <3>1 DEF Poller!Next, Poller!Attach, PollCursor, Ids
  <2> QED
    BY <2>1, <2>2, <2>3
<1>6. CASE ReloadRules \/ FetchReadings \/ WriteAlarm
  BY <1>6, PollerStutter DEF ReloadRules, FetchReadings, WriteAlarm, dbVars, histVars
<1>7. CASE EvaluateAll
  <2>1. PICK r \in batch : First(r, batch) /\ row' = r /\ evaluated' = evaluated \cup {r.id}
    BY <1>7 DEF EvaluateAll
  <2>2. pc = "row" /\ pc' = "write" /\ UNCHANGED <<readings, lastId, batch>>
    BY <1>7 DEF EvaluateAll, dbVars, envVars
  <2>3. /\ r \in readings /\ r.id \in Nat /\ lastId \in Nat /\ lastId < r.id
        /\ r.id \notin evaluated /\ lastId # NoCursor
    BY <2>1, <2>2, IdTypes DEF PollInv, ControlState, BatchIsNext, EvaluatedIsBehind, PollCursor
  <2>4. \A other \in Ids(readings) : other <= lastId \/ r.id <= other
    BY <2>1, <2>2, <2>3, IdTypes DEF PollInv, BatchIsNext, First, Ids
  <2>5. Poller!Deliver(r.id)
    BY <2>1, <2>2, <2>3, <2>4 DEF Poller!Deliver, PollCursor, Ids
  <2> QED
    BY <2>3, <2>5 DEF Poller!Next, Ids
<1>8. CASE AdvanceCursor
  BY <1>8 DEF AdvanceCursor, PollCursor, dbVars, envVars, histVars
<1>9. CASE Environment
  <2>1. CASE Reset
    <3>1. PollCursor' = NoCursor /\ UNCHANGED <<readings, evaluated>>
      BY <2>1 DEF Reset, PollCursor, dbVars
    <3> QED
      BY <3>1 DEF Poller!Next, Poller!Detach, Ids
  <2>2. ASSUME NEW link \in {"store", "reader"}, LoseConnection(link) PROVE UNCHANGED PollerVars
    BY <2>2, PollerStutter DEF LoseConnection, dbVars, procVars, histVars
  <2> QED
    BY <1>9, <2>1, <2>2 DEF Environment, Stop, Crash
<1>10. CASE UNCHANGED vars
  BY <1>10, PollerStutter DEF vars, dbVars, procVars, envVars, histVars
<1> QED
  BY <1>2, <1>3, <1>4, <1>5, <1>6, <1>7, <1>8, <1>9, <1>10 DEF Next, Startup, Poll

\* Under the mapping of PollCursor the engine is an ordered poll: every
\* committed reading above the starting cursor once, in id order, never again.
THEOREM EngineRefinesOrderedPoll == Spec => ImplementsOrderedPoll
<1>1. Init => Poller!Init
  BY DEF Init, Poller!Init, PollCursor, Ids
<1>2. TypeOK /\ PollInv /\ PollInv' /\ [Next]_vars => [Poller!Next]_PollerVars
  BY PollerStep
<1> QED
  BY <1>1, <1>2, TypeCorrect, PollInvariant, PTL
     DEF Spec, ImplementsOrderedPoll, Poller!Spec, PollerVars

-----------------------------------------------------------------------------
(* Alarms are justified: the alarms still to be written for a reading are    *)
(* those of rules of its stream that it breaches.                            *)

LEMMA EvaluateMeansBreached ==
    ASSUME NEW by, NEW value \in Int, by.threshold \in Int, Evaluate(by, value)
    PROVE  Breached(by, value)
<1> DEFINE side == IF value > by.threshold THEN "above"
                   ELSE IF value = by.threshold THEN "at" ELSE "below"
<1>1. CASE by.condition = "gt" /\ value > by.threshold
  <2>1. side = "above"
    BY <1>1
  <2> QED
    BY <1>1, <2>1 DEF Breached
<1>2. CASE by.condition = "lt" /\ value < by.threshold
  <2>1. side = "below"
    BY <1>2
  <2> QED
    BY <1>2, <2>1 DEF Breached
<1>3. CASE by.condition = "gte" /\ value >= by.threshold
  <2>1. side \in {"above", "at"}
    BY <1>3
  <2> QED
    BY <1>3, <2>1 DEF Breached
<1>4. CASE by.condition = "lte" /\ value <= by.threshold
  <2>1. side \in {"below", "at"}
    BY <1>4
  <2> QED
    BY <1>4, <2>1 DEF Breached
<1>5. CASE by.condition = "eq" /\ value = by.threshold
  <2>1. side = "at"
    BY <1>5
  <2> QED
    BY <1>5, <2>1 DEF Breached
<1> QED
  BY <1>1, <1>2, <1>3, <1>4, <1>5 DEF Evaluate

TodoFires ==
    pc = "write" =>
        \A by \in todo : by.stream = row.stream /\ Breached(by, row.value)

JustInv == AlarmsAreJustified /\ TodoFires

\* Steps that add no alarm, keep every reading and leave the one being evaluated.
LEMMA JustFrame ==
    ASSUME JustInv, readings \subseteq readings', UNCHANGED alarms,
           UNCHANGED <<pc, row, todo>> \/ pc' # "write"
    PROVE  JustInv'
BY DEF JustInv, AlarmsAreJustified, TodoFires, Breached

LEMMA EvaluateKeepsJust ==
    ASSUME TypeOK, JustInv, EvaluateAll
    PROVE  JustInv'
<1>1. PICK r \in batch : row' = r /\ todo' = Firing(cached, r)
  BY DEF EvaluateAll
<1>2. r \in Reading /\ cached \subseteq Rule /\ UNCHANGED <<readings, alarms>>
  BY DEF TypeOK, EvaluateAll, dbVars
<1>3. r.value \in Int
  BY <1>2, ValuesAssumption DEF Reading
<1>4. \A by \in todo' : by.stream = r.stream /\ Breached(by, r.value)
  BY <1>1, <1>2, <1>3, EvaluateMeansBreached DEF Firing, Matches, Rule
<1> QED
  BY <1>1, <1>2, <1>4 DEF JustInv, AlarmsAreJustified, TodoFires, Breached

LEMMA WriteKeepsJust ==
    ASSUME TypeOK, PollInv, JustInv, WriteAlarm
    PROVE  JustInv'
<1> DEFINE new(r) == [reading |-> row.id, by |-> r, ref |-> r.id, message |-> FormatMessage(r)]
<1>1. PICK r \in todo : /\ todo' = todo \ {r}
                        /\ \/ alarms' = Append(alarms, new(r))
                           \/ alarms' = alarms
  BY DEF WriteAlarm
<1>2. pc = "write" /\ UNCHANGED <<readings, pc, row>>
  BY DEF WriteAlarm
<1>3. new(r).reading = row.id /\ new(r).by = r
  OBVIOUS
<1> HIDE DEF new
<1>4. row \in readings /\ r.stream = row.stream /\ Breached(r, row.value)
  BY <1>2 DEF JustInv, TodoFires, PollInv, ControlState, First, BatchIsNext
<1>5. TodoFires'
  BY <1>1, <1>2 DEF JustInv, TodoFires, Breached
<1>6. CASE alarms' = alarms
  BY <1>2, <1>5, <1>6 DEF JustInv, AlarmsAreJustified, Breached
<1>7. CASE alarms' = Append(alarms, new(r))
  <2>1. /\ DOMAIN alarms' = DOMAIN alarms \cup {Len(alarms) + 1}
        /\ alarms'[Len(alarms) + 1] = new(r)
        /\ \A i \in DOMAIN alarms : alarms'[i] = alarms[i]
    BY <1>7 DEF TypeOK
  <2> QED
    BY <1>2, <1>3, <1>4, <1>5, <2>1 DEF JustInv, AlarmsAreJustified, Breached
<1> QED
  BY <1>1, <1>6, <1>7

\* Deleting a rule rewrites a column no justification is about.
LEMMA CommitKeepsColumns ==
    ASSUME TypeOK, DeleteCommit
    PROVE  /\ DOMAIN alarms' = DOMAIN alarms
           /\ \A i \in DOMAIN alarms :
                 /\ alarms'[i].reading = alarms[i].reading /\ alarms'[i].by = alarms[i].by
                 /\ alarms'[i].ref = IF i \in tx.held THEN 0 ELSE alarms[i].ref
<1>1. \A i \in DOMAIN alarms : alarms[i] \in AlarmRow
  BY DEF TypeOK
<1> QED
  BY <1>1 DEF DeleteCommit, AlarmRow

LEMMA JustStep ==
    ASSUME TypeOK, PollInv, JustInv, [Next]_vars
    PROVE  JustInv'
<1>1. CASE Ingestion
  BY <1>1, JustFrame DEF Ingestion, InsertBatch, InsertBatchFails, procVars
<1>2. CASE DeleteCommit
  <2>1. UNCHANGED <<readings, pc, row, todo>>
    BY <1>2 DEF DeleteCommit, procVars
  <2> QED
    BY <1>2, <2>1, CommitKeepsColumns DEF JustInv, AlarmsAreJustified, TodoFires, Breached
<1>3. CASE Api /\ ~DeleteCommit
  BY <1>3, JustFrame DEF Api, CreateRule, UpdateRule, DeleteDetach, DeleteRow, DeleteRollback,
                         procVars
<1>4. CASE EngineStart \/ Startup
  BY <1>4, JustFrame DEF EngineStart, Startup, SeedCheck, AddRule, SeedDone, OpenReader, InitialLoad,
                         CatchUp, dbVars
<1>5. CASE WakeUp \/ ReloadRules \/ FetchReadings \/ AdvanceCursor
  BY <1>5, JustFrame DEF WakeUp, ReloadRules, FetchReadings, AdvanceCursor, dbVars
<1>6. CASE Environment
  BY <1>6, JustFrame DEF Environment, Stop, Crash, Reset, LoseConnection, dbVars, procVars
<1>7. CASE UNCHANGED vars
  BY <1>7, JustFrame DEF vars, dbVars, procVars
<1> QED
  BY <1>1, <1>2, <1>3, <1>4, <1>5, <1>6, <1>7, EvaluateKeepsJust, WriteKeepsJust DEF Next, Poll

\* Whatever the API does to the rules meanwhile, an alarm has a stored reading of
\* its rule's stream behind it that breaches the rule as the engine read it.
THEOREM AlarmsAreSound == Spec => []AlarmsInv
<1>1. Init => JustInv
  BY DEF Init, JustInv, AlarmsAreJustified, TodoFires
<1>2. TypeOK /\ PollInv /\ JustInv /\ [Next]_vars => JustInv'
  BY JustStep
<1>3. TypeOK /\ JustInv => AlarmsInv
  BY DEF JustInv, AlarmsInv
<1> QED
  BY <1>1, <1>2, <1>3, TypeCorrect, PollInvariant, PTL DEF Spec

-----------------------------------------------------------------------------
(* The reference of an alarm.  Ids are not used twice, and a delete that got *)
(* as far as the rule row holds every alarm that references it.              *)

RuleIdsPast ==
    /\ \A r \in rules \cup cached : r.id < nextRule
    /\ \A i \in DOMAIN alarms : alarms[i].by.id < nextRule

DeleteHolds ==
    /\ tx.step # "none" =>
          tx.rule # 0 /\ \A i \in tx.held \cap DOMAIN alarms : alarms[i].ref = tx.rule
    /\ tx.step = "deleted" =>
          \A i \in DOMAIN alarms : alarms[i].ref = tx.rule => i \in tx.held

\* A delete holds no row that is not there.
HeldIsThere == tx.step # "none" => tx.held \subseteq DOMAIN alarms

RefInv == AlarmsReferToRules /\ RuleIdsPast /\ DeleteHolds /\ HeldIsThere

LEMMA RefFrame ==
    ASSUME RefInv, UNCHANGED <<rules, nextRule, alarms, tx>>, cached' \subseteq cached
    PROVE  RefInv'
BY DEF RefInv, AlarmsReferToRules, RuleIdsPast, DeleteHolds, HeldIsThere, Ids

LEMMA NewRuleKeepsRef ==
    ASSUME TypeOK, RefInv, NEW rule, rule.id = nextRule, rules' = rules \cup {rule},
           nextRule' = nextRule + 1, UNCHANGED <<alarms, tx, cached>>
    PROVE  RefInv'
<1>1. /\ nextRule \in Nat /\ \A r \in rules \cup cached : r.id \in Nat
      /\ \A i \in DOMAIN alarms : alarms[i] \in AlarmRow
  BY IdTypes DEF TypeOK
<1>2. \A i \in DOMAIN alarms : alarms[i].by.id \in Nat
  BY <1>1 DEF AlarmRow, Rule
<1>3. Ids(rules') = Ids(rules) \cup {nextRule}
  BY DEF Ids
<1>4. RuleIdsPast'
  BY <1>1, <1>2 DEF RefInv, RuleIdsPast
<1>5. \A i \in DOMAIN alarms : alarms[i].by.id # nextRule
  BY <1>1, <1>2 DEF RefInv, RuleIdsPast
<1>6. AlarmsReferToRules'
  BY <1>3, <1>5 DEF RefInv, AlarmsReferToRules
<1> QED
  BY <1>4, <1>6 DEF RefInv, DeleteHolds, HeldIsThere

LEMMA RoutesKeepRef ==
    ASSUME TypeOK, RefInv, Api
    PROVE  RefInv'
<1>1. CASE \E body \in RuleBodies : CreateRule(body)
  <2>1. PICK body \in RuleBodies : CreateRule(body)
    BY <1>1
  <2>2. FromBody(nextRule, body, NoTemplate).id = nextRule
    BY DEF FromBody
  <2> QED
    BY <2>1, <2>2, NewRuleKeepsRef DEF CreateRule, procVars
<1>2. CASE \E r \in rules, body \in RuleBodies : UpdateRule(r, body)
  <2>1. PICK r \in rules, body \in RuleBodies : UpdateRule(r, body)
    BY <1>2
  <2>2. FromBody(r.id, body, r.template).id = r.id
    BY DEF FromBody
  <2>3. /\ rules' = (rules \ {r}) \cup {FromBody(r.id, body, r.template)}
        /\ UNCHANGED <<nextRule, alarms, tx, cached>>
    BY <2>1 DEF UpdateRule, procVars
  <2>4. Ids(rules') = Ids(rules)
    BY <2>2, <2>3 DEF Ids
  <2>5. \A s \in rules' \cup cached' : s.id < nextRule
    BY <2>2, <2>3 DEF RefInv, RuleIdsPast
  <2> QED
    BY <2>3, <2>4, <2>5 DEF RefInv, AlarmsReferToRules, RuleIdsPast, DeleteHolds, HeldIsThere
<1>3. CASE \E r \in rules : DeleteDetach(r)
  <2>1. PICK r \in rules : DeleteDetach(r)
    BY <1>3
  <2>2. /\ tx'.step = "detached" /\ tx'.rule = r.id
        /\ tx'.held = {i \in DOMAIN alarms : alarms[i].ref = r.id}
        /\ UNCHANGED <<rules, nextRule, alarms, cached>>
    BY <2>1 DEF DeleteDetach, procVars
  <2>3. r.id # 0
    BY DEF TypeOK, Rule
  <2> QED
    BY <2>2, <2>3 DEF RefInv, AlarmsReferToRules, RuleIdsPast, DeleteHolds, HeldIsThere, Ids
<1>4. CASE DeleteRow
  <2>1. /\ tx.step = "detached" /\ tx'.step = "deleted" /\ tx'.rule = tx.rule
        /\ tx'.held = tx.held \cup Unseen
        /\ UNCHANGED <<rules, nextRule, alarms, cached>>
    BY <1>4 DEF DeleteRow, TypeOK, procVars
  <2> QED
    BY <2>1 DEF RefInv, AlarmsReferToRules, RuleIdsPast, DeleteHolds, HeldIsThere, Unseen, Ids
<1>5. CASE DeleteRollback
  <2>1. tx'.step = "none" /\ UNCHANGED <<rules, nextRule, alarms, cached>>
    BY <1>5 DEF DeleteRollback, NoTx, procVars
  <2> QED
    BY <2>1 DEF RefInv, AlarmsReferToRules, RuleIdsPast, DeleteHolds, HeldIsThere, Ids
<1>6. CASE DeleteCommit
  <2>1. /\ tx.step = "deleted" /\ tx'.step = "none" /\ UNCHANGED <<nextRule, cached>>
        /\ rules' = {r \in rules : r.id # tx.rule}
    BY <1>6 DEF DeleteCommit, NoTx, procVars
  <2>2. Ids(rules') = Ids(rules) \ {tx.rule}
    BY <2>1 DEF Ids
  <2>3. RuleIdsPast'
    BY <1>6, <2>1, CommitKeepsColumns DEF RefInv, RuleIdsPast
  <2>4. AlarmsReferToRules'
    <3> SUFFICES ASSUME NEW i \in DOMAIN alarms
                 PROVE  \/ alarms'[i].ref = alarms'[i].by.id /\ alarms'[i].by.id \in Ids(rules')
                        \/ alarms'[i].ref = 0 /\ alarms'[i].by.id \notin Ids(rules')
      BY <1>6, CommitKeepsColumns DEF AlarmsReferToRules
    <3>1. /\ alarms'[i].by = alarms[i].by
          /\ alarms'[i].ref = IF i \in tx.held THEN 0 ELSE alarms[i].ref
      BY <1>6, CommitKeepsColumns
    <3>2. \/ alarms[i].ref = alarms[i].by.id /\ alarms[i].by.id \in Ids(rules)
          \/ alarms[i].ref = 0 /\ alarms[i].by.id \notin Ids(rules)
      BY DEF RefInv, AlarmsReferToRules
    <3>3. tx.rule # 0 /\ (i \in tx.held <=> alarms[i].ref = tx.rule)
      BY <2>1 DEF RefInv, DeleteHolds
    <3> QED
      BY <2>2, <3>1, <3>2, <3>3
  <2> QED
    BY <2>1, <2>3, <2>4 DEF RefInv, DeleteHolds, HeldIsThere
<1> QED
  BY <1>1, <1>2, <1>3, <1>4, <1>5, <1>6 DEF Api

LEMMA LoadKeepsRef ==
    ASSUME TypeOK, RefInv, cached' = LoadedRules, UNCHANGED <<rules, nextRule, alarms, tx>>
    PROVE  RefInv'
<1>1. \A r \in LoadedRules : r.id < nextRule
  <2>1. \A r \in rules : r \in Rule /\ r.id < nextRule
    BY DEF TypeOK, RefInv, RuleIdsPast
  <2>2. \A r \in Rule : [r EXCEPT !.template = NoTemplate].id = r.id
    BY DEF Rule
  <2> QED
    BY <2>1, <2>2 DEF LoadedRules
<1> QED
  BY <1>1 DEF RefInv, AlarmsReferToRules, RuleIdsPast, DeleteHolds, HeldIsThere, Ids

LEMMA WriteKeepsRef ==
    ASSUME TypeOK, PollInv, RefInv, WriteAlarm
    PROVE  RefInv'
<1> DEFINE new(r) == [reading |-> row.id, by |-> r, ref |-> r.id, message |-> FormatMessage(r)]
<1>1. UNCHANGED <<rules, nextRule, tx, cached>>
  BY DEF WriteAlarm
<1>2. CASE alarms' = alarms
  BY <1>1, <1>2, RefFrame
<1>3. CASE alarms' # alarms
  <2>1. PICK r \in todo : /\ ~(tx.step = "deleted" /\ tx.rule = r.id)
                          /\ r.id \in Ids(rules) /\ alarms' = Append(alarms, new(r))
    BY <1>3 DEF WriteAlarm
  <2>2. new(r).ref = r.id /\ new(r).by = r
    OBVIOUS
  <2> HIDE DEF new
  <2>3. /\ DOMAIN alarms' = DOMAIN alarms \cup {Len(alarms) + 1}
        /\ alarms'[Len(alarms) + 1] = new(r)
        /\ \A i \in DOMAIN alarms : alarms'[i] = alarms[i]
        /\ Len(alarms) + 1 \notin DOMAIN alarms
    BY <2>1 DEF TypeOK
  <2>4. r.id < nextRule
    BY <2>1 DEF RefInv, RuleIdsPast, Ids
  <2>5. AlarmsReferToRules'
    BY <1>1, <2>1, <2>2, <2>3 DEF RefInv, AlarmsReferToRules, Ids
  <2>6. RuleIdsPast'
    BY <1>1, <2>2, <2>3, <2>4 DEF RefInv, RuleIdsPast
  <2>7. DeleteHolds' /\ HeldIsThere'
    BY <1>1, <2>1, <2>2, <2>3 DEF RefInv, DeleteHolds, HeldIsThere
  <2> QED
    BY <2>5, <2>6, <2>7 DEF RefInv
<1> QED
  BY <1>2, <1>3

LEMMA RefStep ==
    ASSUME TypeOK, PollInv, RefInv, [Next]_vars
    PROVE  RefInv'
<1>1. CASE Ingestion
  BY <1>1, RefFrame DEF Ingestion, InsertBatch, InsertBatchFails, procVars
<1>2. CASE EngineStart \/ SeedCheck \/ SeedDone \/ OpenReader \/ CatchUp
  BY <1>2, RefFrame DEF EngineStart, SeedCheck, SeedDone, OpenReader, CatchUp, dbVars
<1>3. CASE AddRule
  <2>1. CASE UNCHANGED <<rules, nextRule>>
    BY <1>3, <2>1, RefFrame DEF AddRule
  <2>2. CASE ~UNCHANGED <<rules, nextRule>>
    <3> DEFINE rule == FromBody(nextRule, Head(seedLeft), Head(seedLeft).template)
    <3>1. rule.id = nextRule
      BY DEF FromBody
    <3>2. /\ rules' = rules \cup {rule} /\ nextRule' = nextRule + 1
          /\ UNCHANGED <<alarms, tx, cached>>
      BY <1>3, <2>2 DEF AddRule
    <3> HIDE DEF rule
    <3> QED
      BY <3>1, <3>2, NewRuleKeepsRef
  <2> QED
    BY <2>1, <2>2
<1>4. CASE InitialLoad \/ ReloadRules
  <2>1. /\ UNCHANGED <<rules, nextRule, alarms, tx>>
        /\ cached' = LoadedRules \/ cached' \subseteq cached
    BY <1>4 DEF InitialLoad, ReloadRules, dbVars
  <2> QED
    BY <2>1, LoadKeepsRef, RefFrame
<1>5. CASE WakeUp \/ FetchReadings \/ EvaluateAll \/ AdvanceCursor
  BY <1>5, RefFrame DEF WakeUp, FetchReadings, EvaluateAll, AdvanceCursor, dbVars
<1>6. CASE Environment
  BY <1>6, RefFrame DEF Environment, Stop, Crash, Reset, LoseConnection, dbVars, procVars
<1>7. CASE UNCHANGED vars
  BY <1>7, RefFrame DEF vars, dbVars, procVars
<1> QED
  BY <1>1, <1>2, <1>3, <1>4, <1>5, <1>6, <1>7, RoutesKeepRef, WriteKeepsRef DEF Next, Startup, Poll

\* An alarm's rule column names an existing rule or is NULL, under the legacy
\* foreign key and the migrated one, whatever the engine commits while a rule is
\* being deleted.
THEOREM ReferencesAreSound == Spec => []AlarmsReferToRules
<1>1. Init => RefInv
  BY DEF Init, NoTx, RefInv, AlarmsReferToRules, RuleIdsPast, DeleteHolds, HeldIsThere
<1>2. TypeOK /\ PollInv /\ RefInv /\ [Next]_vars => RefInv'
  BY RefStep
<1>3. RefInv => AlarmsReferToRules
  BY DEF RefInv
<1> QED
  BY <1>1, <1>2, <1>3, TypeCorrect, PollInvariant, PTL DEF Spec
-----------------------------------------------------------------------------
(* History.  What was in the table when the process started lies at or below *)
(* its cursor, once it has one.                                              *)

BeforeIsBehind ==
    /\ before \subseteq Ids(readings)
    /\ lastId # NoCursor => \A id \in before : id <= lastId

LEMMA BeforeFrame ==
    ASSUME BeforeIsBehind, readings \subseteq readings', UNCHANGED before,
           lastId' \in {lastId, NoCursor}
    PROVE  BeforeIsBehind'
BY DEF BeforeIsBehind, Ids

\* A cursor that is read lies at the end of the table.
LEMMA CaughtUpIsPast ==
    ASSUME BeforeIsBehind, CatchUpReadingId, UNCHANGED <<readings, before>>
    PROVE  BeforeIsBehind'
<1>1. CASE lastId' = NoCursor
  BY <1>1 DEF BeforeIsBehind, Ids
<1>2. CASE IsCaughtUp(lastId')
  BY <1>2 DEF BeforeIsBehind, IsCaughtUp, Ids
<1> QED
  BY <1>1, <1>2 DEF CatchUpReadingId

LEMMA AdvanceKeepsBefore ==
    ASSUME TypeOK, PollInv, BeforeIsBehind, AdvanceCursor
    PROVE  BeforeIsBehind'
<1>1. pc = "write" /\ lastId' = row.id /\ UNCHANGED <<readings, before>>
  BY DEF AdvanceCursor, dbVars, histVars
<1>2. lastId # NoCursor /\ lastId \in Nat /\ row.id \in Nat /\ lastId < row.id
  BY <1>1, IdTypes DEF PollInv, ControlState, BatchIsNext, First
<1>3. \A id \in before : id \in Nat /\ id <= lastId
  BY <1>2, IdTypes DEF BeforeIsBehind, Ids
<1> QED
  BY <1>1, <1>2, <1>3 DEF BeforeIsBehind, Ids

LEMMA BeforeStep ==
    ASSUME TypeOK, PollInv, BeforeIsBehind, [Next]_vars
    PROVE  BeforeIsBehind'
<1>1. CASE Ingestion \/ Api
  BY <1>1, BeforeFrame DEF Ingestion, InsertBatch, InsertBatchFails, Api, CreateRule, UpdateRule,
       DeleteDetach, DeleteRow, DeleteCommit, DeleteRollback, procVars, histVars
<1>2. CASE EngineStart
  <2>1. lastId = NoCursor
    BY <1>2 DEF EngineStart, PollInv, ControlState
  <2> QED
    BY <1>2, <2>1 DEF EngineStart, BeforeIsBehind, Ids
<1>3. CASE Startup
  BY <1>3, BeforeFrame, CaughtUpIsPast DEF Startup, SeedCheck, AddRule, SeedDone, OpenReader, InitialLoad,
       CatchUp, dbVars, histVars
<1>4. CASE WakeUp
  BY <1>4, BeforeFrame, CaughtUpIsPast DEF WakeUp, dbVars
<1>5. CASE ReloadRules \/ FetchReadings \/ EvaluateAll \/ WriteAlarm
  BY <1>5, BeforeFrame DEF ReloadRules, FetchReadings, EvaluateAll, WriteAlarm, dbVars, histVars
<1>6. CASE Environment
  BY <1>6, BeforeFrame DEF Environment, Stop, Crash, Reset, LoseConnection, dbVars, procVars, histVars
<1>7. CASE UNCHANGED vars
  BY <1>7, BeforeFrame DEF vars, dbVars, procVars, histVars
<1> QED
  BY <1>1, <1>2, <1>3, <1>4, <1>5, <1>6, <1>7, AdvanceKeepsBefore DEF Next, Poll

\* Only the evaluation of a row adds to what was evaluated.
LEMMA EvaluatesOnlyNewer ==
    ASSUME TypeOK, PollInv, BeforeIsBehind, Next, NEW id \in evaluated' \ evaluated
    PROVE  id \notin before
<1>1. EvaluateAll
  BY DEF Next, Ingestion, InsertBatch, InsertBatchFails, Api, CreateRule, UpdateRule, DeleteDetach,
       DeleteRow, DeleteCommit, DeleteRollback, EngineStart, Startup, SeedCheck, AddRule, SeedDone,
       OpenReader, InitialLoad, CatchUp, Poll, WakeUp, ReloadRules, FetchReadings, WriteAlarm,
       AdvanceCursor, Environment, Stop, Crash, Reset, LoseConnection, histVars
<1>2. PICK r \in batch : id = r.id
  BY <1>1 DEF EvaluateAll
<1>3. lastId # NoCursor /\ lastId \in Nat /\ id \in Nat /\ lastId < id
  BY <1>1, <1>2, IdTypes DEF EvaluateAll, PollInv, ControlState, BatchIsNext
<1> QED
  BY <1>3 DEF BeforeIsBehind

\* A process never evaluates a reading that was in the table when it started,
\* however often its cursor could not be read (main.cpp:119-134).
THEOREM HistoryIsNotReplayed == Spec => NoHistoryReplay
<1>1. Init => BeforeIsBehind
  BY DEF Init, BeforeIsBehind
<1>2. TypeOK /\ PollInv /\ BeforeIsBehind /\ [Next]_vars => BeforeIsBehind'
  BY BeforeStep
<1>3. TypeOK /\ PollInv /\ BeforeIsBehind /\ [Next]_vars
        => [\A id \in evaluated' \ evaluated : id \notin before]_vars
  BY EvaluatesOnlyNewer
<1> QED
  BY <1>1, <1>2, <1>3, TypeCorrect, PollInvariant, PTL DEF Spec, NoHistoryReplay

-----------------------------------------------------------------------------
(* The history of alarms.                                                    *)

\* Alarms may get company, and their reference may go.
LEMMA NoAlarmIsRewritten ==
    ASSUME TypeOK, [Next]_vars, NEW i \in DOMAIN alarms
    PROVE  /\ i \in DOMAIN alarms'
           /\ alarms'[i].ref \in {0, alarms[i].ref}
           /\ [alarms'[i] EXCEPT !.ref = 0] = [alarms[i] EXCEPT !.ref = 0]
<1>1. CASE DeleteCommit
  <2>1. alarms[i] \in AlarmRow
    BY DEF TypeOK
  <2> QED
    BY <1>1, <2>1 DEF DeleteCommit, AlarmRow
<1>2. CASE WriteAlarm
  <2>1. alarms' = alarms \/ \E a : alarms' = Append(alarms, a)
    BY <1>2 DEF WriteAlarm
  <2>2. i \in 1..Len(alarms) /\ alarms \in Seq(AlarmRow)
    BY DEF TypeOK
  <2>3. ASSUME NEW a, alarms' = Append(alarms, a)
        PROVE  i \in DOMAIN alarms' /\ alarms'[i] = alarms[i]
    BY <2>2, <2>3
  <2>4. i \in DOMAIN alarms' /\ alarms'[i] = alarms[i]
    BY <2>1, <2>3
  <2> QED
    BY <2>4
<1>3. CASE ~DeleteCommit /\ ~WriteAlarm
  <2>1. UNCHANGED alarms
    BY <1>3 DEF Next, Ingestion, InsertBatch, InsertBatchFails, Api, CreateRule, UpdateRule, DeleteDetach,
       DeleteRow, DeleteRollback, EngineStart, Startup, SeedCheck, AddRule, SeedDone,
       OpenReader, InitialLoad, CatchUp, Poll, WakeUp, ReloadRules, FetchReadings, EvaluateAll,
       AdvanceCursor, Environment, Stop, Crash, Reset, LoseConnection, dbVars, vars
  <2> QED
    BY <2>1
<1> QED
  BY <1>1, <1>2, <1>3

\* No step of the engine or of the API removes or rewrites an alarm, whatever
\* becomes of its rule (rule_service.cpp:131-182).
THEOREM HistoryIsKept == Spec => AlarmHistoryIsKept
<1>1. TypeOK /\ [Next]_vars
        => [\A i \in DOMAIN alarms :
              /\ i \in DOMAIN alarms'
              /\ alarms'[i].ref \in {0, alarms[i].ref}
              /\ [alarms'[i] EXCEPT !.ref = 0] = [alarms[i] EXCEPT !.ref = 0]]_vars
  BY NoAlarmIsRewritten
<1> QED
  BY <1>1, TypeCorrect, PTL DEF Spec, AlarmHistoryIsKept
-----------------------------------------------------------------------------
(* No breach is missed.  A rule that did not change since the initial load   *)
(* is among the rules in force, so it is among the alarms still to be        *)
(* written for the row or one of its alarms was written or dropped.          *)

LEMMA BreachedMeansEvaluate ==
    ASSUME NEW by, NEW value \in Int, by.threshold \in Int, Breached(by, value)
    PROVE  Evaluate(by, value)
<1>1. CASE value > by.threshold
  <2>1. <<by.condition, "above">> \in {<<"gt", "above">>, <<"gte", "above">>, <<"gte", "at">>,
          <<"eq", "at">>, <<"lte", "at">>, <<"lte", "below">>, <<"lt", "below">>}
    BY <1>1 DEF Breached
  <2> QED
    BY <1>1, <2>1 DEF Evaluate
<1>2. CASE value = by.threshold
  <2>1. <<by.condition, "at">> \in {<<"gt", "above">>, <<"gte", "above">>, <<"gte", "at">>,
          <<"eq", "at">>, <<"lte", "at">>, <<"lte", "below">>, <<"lt", "below">>}
    BY <1>2 DEF Breached
  <2> QED
    BY <1>2, <2>1 DEF Evaluate
<1>3. CASE value < by.threshold
  <2>1. <<by.condition, "below">> \in {<<"gt", "above">>, <<"gte", "above">>, <<"gte", "at">>,
          <<"eq", "at">>, <<"lte", "at">>, <<"lte", "below">>, <<"lt", "below">>}
    BY <1>3 DEF Breached
  <2> QED
    BY <1>3, <2>1 DEF Evaluate
<1> QED
  BY <1>1, <1>2, <1>3

Raised(id, rule) ==
    \/ \E i \in DOMAIN alarms : alarms[i].reading = id /\ alarms[i].by.id = rule
    \/ <<id, rule>> \in dropped

SteadyIsLoaded ==
    /\ steady \subseteq rules
    /\ initialLoad => \A by \in steady : [by EXCEPT !.template = NoTemplate] \in cached

RowIsCovered ==
    pc = "write" /\ initialLoad =>
        \A by \in steady : by.stream = row.stream /\ Breached(by, row.value)
                             => by.id \in Ids(todo) \/ Raised(row.id, by.id)

PassedIsRaised ==
    initialLoad /\ lastId # NoCursor =>
        \A r \in readings, by \in steady :
            start < r.id /\ r.id <= lastId /\ r.stream = by.stream /\ Breached(by, r.value)
                => Raised(r.id, by.id)

SteadyInv == SteadyIsLoaded /\ RowIsCovered /\ PassedIsRaised

\* Steps that write nothing and touch no rule in force.
LEMMA SteadyFrame ==
    ASSUME SteadyInv, rules \subseteq rules', pc' \in {pc} \/ pc' # "write",
           UNCHANGED <<readings, alarms, lastId, start, cached, row, todo, steady, initialLoad, dropped>>
    PROVE  SteadyInv'
BY DEF SteadyInv, SteadyIsLoaded, RowIsCovered, PassedIsRaised, Raised, Breached, Ids

\* New readings lie above the cursor.
LEMMA IngestionKeepsSteady ==
    ASSUME TypeOK, PollInv, SteadyInv, Ingestion
    PROVE  SteadyInv'
<1>1. /\ UNCHANGED <<rules, alarms, procVars, histVars>>
      /\ \A r \in readings' : r \in readings \/ (r.id \in Nat /\ r.id >= nextReading)
  <2>1. CASE InsertBatchFails
    BY <2>1 DEF InsertBatchFails
  <2>2. ASSUME NEW samples \in Seq(Samples), InsertBatch(samples)
        PROVE  /\ UNCHANGED <<rules, alarms, procVars, histVars>>
               /\ \A r \in readings' : r \in readings \/ (r.id \in Nat /\ r.id >= nextReading)
    <3>1. nextReading \in Nat /\ Len(samples) \in Nat
      BY IdTypes
    <3>2. \A r \in {[id |-> nextReading + i - 1, stream |-> samples[i].stream,
                     value |-> samples[i].value] : i \in 1..Len(samples)} :
            r.id \in Nat /\ r.id >= nextReading
      BY <3>1
    <3> QED
      BY <2>2, <3>2 DEF InsertBatch
  <2>3. ASSUME NEW a \in Samples, NEW b \in Samples
        PROVE  <<a>> \in Seq(Samples) /\ <<a, b>> \in Seq(Samples)
    OBVIOUS
  <2> QED
    BY <2>1, <2>2, <2>3 DEF Ingestion
<1>2. lastId # NoCursor => lastId \in Nat /\ lastId < nextReading
  BY IdTypes DEF PollInv, IdsAreSerial, TypeOK
<1>3. nextReading \in Nat
  BY IdTypes DEF TypeOK
<1>4. lastId # NoCursor => \A r \in readings' : r.id <= lastId => r \in readings
  BY <1>1, <1>2, <1>3
<1> QED
  BY <1>1, <1>4 DEF SteadyInv, SteadyIsLoaded, RowIsCovered, PassedIsRaised, Raised, Breached, Ids,
                    procVars, histVars

\* A rule that is edited or deleted is no longer one that did not change.
LEMMA RoutesKeepSteady ==
    ASSUME TypeOK, SteadyInv, Api
    PROVE  SteadyInv'
<1>1. CASE \/ \E body \in RuleBodies : CreateRule(body)
           \/ \E r \in rules : DeleteDetach(r)
           \/ DeleteRow \/ DeleteRollback
  BY <1>1, SteadyFrame DEF CreateRule, DeleteDetach, DeleteRow, DeleteRollback, procVars, histVars
<1>2. ASSUME NEW r \in rules, NEW body \in RuleBodies, UpdateRule(r, body)
      PROVE  SteadyInv'
  BY <1>2 DEF UpdateRule, SteadyInv, SteadyIsLoaded, RowIsCovered, PassedIsRaised, Raised, Breached, Ids,
              procVars
<1>3. CASE DeleteCommit
  <2>1. /\ steady' = steady \cap rules'
        /\ UNCHANGED <<readings, procVars, start, initialLoad, dropped>>
    BY <1>3 DEF DeleteCommit
  <2>2. \A id, rule : Raised(id, rule) => Raised(id, rule)'
    BY <1>3, <2>1, CommitKeepsColumns DEF Raised
  <2> QED
    BY <2>1, <2>2 DEF SteadyInv, SteadyIsLoaded, RowIsCovered, PassedIsRaised, Breached, Ids, procVars
<1> QED
  BY <1>1, <1>2, <1>3 DEF Api

\* Loads that succeed hold the rules of the table, and those that fail change nothing.
LEMMA LoadKeepsSteady ==
    ASSUME PollInv, SteadyInv, InitialLoad \/ ReloadRules
    PROVE  SteadyInv'
<1>1. CASE InitialLoad
  <2>1. /\ steady' = rules /\ pc' = "catchUp" /\ lastId' = NoCursor /\ UNCHANGED rules
        /\ initialLoad' = TRUE => cached' = LoadedRules
    BY <1>1 DEF InitialLoad, dbVars, PollInv, ControlState
  <2> QED
    BY <2>1 DEF SteadyInv, SteadyIsLoaded, RowIsCovered, PassedIsRaised, LoadedRules
<1>2. CASE ReloadRules
  <2>1. /\ cached' \in {cached, LoadedRules} /\ pc' = "fetch"
        /\ UNCHANGED <<dbVars, lastId, histVars>>
    BY <1>2 DEF ReloadRules
  <2> QED
    BY <2>1 DEF SteadyInv, SteadyIsLoaded, RowIsCovered, PassedIsRaised, LoadedRules, Raised, Breached,
                dbVars, histVars
<1> QED
  BY <1>1, <1>2

\* A cursor that was just read has passed nothing.
LEMMA CursorKeepsSteady ==
    ASSUME TypeOK, PollInv, SteadyInv, CatchUp \/ WakeUp
    PROVE  SteadyInv'
<1>1. /\ pc' # "write"
      /\ UNCHANGED <<readings, rules, alarms, cached, steady, initialLoad, dropped>>
      /\ UNCHANGED <<lastId, start>> \/ start' = lastId'
  BY DEF CatchUp, WakeUp, dbVars
<1>2. lastId' = NoCursor \/ lastId' \in Nat \/ UNCHANGED <<lastId, start>>
  <2>1. ASSUME NEW m \in {0} \cup Ids(readings) PROVE m \in Nat
    BY IdTypes DEF Ids
  <2>2. ASSUME CatchUpReadingId PROVE lastId' = NoCursor \/ lastId' \in Nat
    BY <2>1, <2>2 DEF CatchUpReadingId
  <2> QED
    BY <2>2 DEF CatchUp, WakeUp
<1>3. \A r \in readings : r.id \in Nat
  BY IdTypes
<1>4. RowIsCovered' /\ SteadyIsLoaded'
  BY <1>1 DEF SteadyInv, RowIsCovered, SteadyIsLoaded
<1>5. CASE UNCHANGED <<lastId, start>>
  BY <1>1, <1>4, <1>5 DEF SteadyInv, PassedIsRaised, Raised, Breached
<1>6. CASE start' = lastId' /\ lastId' \in Nat \cup {NoCursor}
  <2>1. lastId' # NoCursor => \A r \in readings' : ~(start' < r.id /\ r.id <= lastId')
    BY <1>1, <1>3, <1>6
  <2> QED
    BY <1>4, <2>1 DEF SteadyInv, PassedIsRaised
<1> QED
  BY <1>1, <1>2, <1>5, <1>6

LEMMA EvaluateKeepsSteady ==
    ASSUME TypeOK, SteadyInv, EvaluateAll
    PROVE  SteadyInv'
<1>1. PICK r \in batch : row' = r /\ todo' = Firing(cached, r)
  BY DEF EvaluateAll
<1>2. /\ r \in Reading /\ steady \subseteq Rule
      /\ UNCHANGED <<readings, rules, alarms, lastId, start, cached, steady, initialLoad, dropped>>
  BY DEF TypeOK, EvaluateAll, dbVars
<1>3. r.value \in Int
  BY <1>2, ValuesAssumption DEF Reading
<1>4. ASSUME initialLoad, NEW by \in steady, by.stream = r.stream, Breached(by, r.value)
      PROVE  by.id \in Ids(todo')
  <2> DEFINE loaded == [by EXCEPT !.template = NoTemplate]
  <2>1. loaded \in cached
    BY <1>4 DEF SteadyInv, SteadyIsLoaded
  <2>2. /\ by.threshold \in Int
        /\ loaded.id = by.id /\ loaded.stream = by.stream
        /\ loaded.condition = by.condition /\ loaded.threshold = by.threshold
    BY <1>2 DEF Rule
  <2>3. Evaluate(by, r.value)
    BY <1>3, <1>4, <2>2, BreachedMeansEvaluate
  <2> HIDE DEF loaded
  <2>4. loaded \in todo'
    BY <1>1, <1>4, <2>1, <2>2, <2>3 DEF Firing, Matches, Evaluate
  <2> QED
    BY <2>2, <2>4 DEF Ids
<1>5. RowIsCovered'
  BY <1>1, <1>2, <1>4 DEF RowIsCovered, Breached, Ids
<1> QED
  BY <1>2, <1>5 DEF SteadyInv, SteadyIsLoaded, PassedIsRaised, Raised, Breached

\* The rule leaves todo, and its alarm was written or dropped unless it is gone.
LEMMA WriteKeepsSteady ==
    ASSUME TypeOK, SteadyInv, WriteAlarm
    PROVE  SteadyInv'
<1> DEFINE new(r) == [reading |-> row.id, by |-> r, ref |-> r.id, message |-> FormatMessage(r)]
<1>1. PICK r \in todo :
        /\ todo' = todo \ {r}
        /\ \/ alarms' = Append(alarms, new(r)) /\ UNCHANGED dropped
           \/ r.id \notin Ids(rules) /\ UNCHANGED <<alarms, dropped>>
           \/ dropped' = dropped \cup {<<row.id, r.id>>} /\ UNCHANGED alarms
  BY DEF WriteAlarm
<1>2. UNCHANGED <<readings, rules, pc, row, lastId, start, cached, steady, initialLoad>>
  BY DEF WriteAlarm
<1>3. new(r).reading = row.id /\ new(r).by = r
  OBVIOUS
<1> HIDE DEF new
<1>4. /\ \A id, rule : Raised(id, rule) => Raised(id, rule)'
      /\ r.id \in Ids(rules) => Raised(row.id, r.id)'
  <2>1. CASE alarms' = Append(alarms, new(r)) /\ UNCHANGED dropped
    <3>1. /\ DOMAIN alarms' = DOMAIN alarms \cup {Len(alarms) + 1}
          /\ alarms'[Len(alarms) + 1] = new(r)
          /\ \A i \in DOMAIN alarms : alarms'[i] = alarms[i]
      BY <2>1 DEF TypeOK
    <3> QED
      BY <1>2, <1>3, <2>1, <3>1 DEF Raised
  <2>2. CASE UNCHANGED alarms
    BY <1>1, <1>2, <2>2 DEF Raised
  <2> QED
    BY <1>1, <2>1, <2>2
<1>5. ASSUME NEW by \in steady, by.id \in Ids(todo)
      PROVE  by.id \in Ids(todo') \/ Raised(row.id, by.id)'
  <2>1. by.id \in Ids(rules)
    BY DEF SteadyInv, SteadyIsLoaded, Ids
  <2> QED
    BY <1>1, <1>4, <1>5, <2>1 DEF Ids
<1>6. RowIsCovered'
  BY <1>2, <1>4, <1>5 DEF SteadyInv, RowIsCovered, Breached
<1> QED
  BY <1>2, <1>4, <1>6 DEF SteadyInv, SteadyIsLoaded, PassedIsRaised, Breached

\* The cursor passes the row, whose alarms are all written.
LEMMA AdvanceKeepsSteady ==
    ASSUME TypeOK, PollInv, SteadyInv, AdvanceCursor
    PROVE  SteadyInv'
<1>1. /\ pc = "write" /\ todo = {} /\ lastId' = row.id /\ pc' # "write"
      /\ UNCHANGED <<readings, rules, alarms, cached, start, steady, initialLoad, dropped>>
  BY DEF AdvanceCursor, dbVars, histVars
<1>2. /\ row \in batch /\ row \in readings
      /\ \A b \in batch : row.id <= b.id
      /\ \A r \in readings : lastId < r.id /\ r.id <= row.id => r \in batch
      /\ lastId # NoCursor
  BY <1>1 DEF PollInv, ControlState, First, BatchIsNext
<1>3. ASSUME NEW r \in readings, lastId < r.id, r.id <= row.id PROVE r = row
  BY <1>2, <1>3, IdTypes DEF PollInv, IdsAreSerial, UniqueIds
<1>4. ASSUME initialLoad, NEW r \in readings, NEW by \in steady, start < r.id, r.id <= row.id,
             r.stream = by.stream, Breached(by, r.value)
      PROVE  Raised(r.id, by.id)
  <2>1. CASE r.id <= lastId
    BY <1>2, <1>4, <2>1 DEF SteadyInv, PassedIsRaised
  <2>2. CASE lastId < r.id
    <3>1. r = row
      BY <1>3, <1>4, <2>2
    <3> QED
      BY <1>1, <1>4, <3>1 DEF SteadyInv, RowIsCovered, Ids
  <2> QED
    BY <1>2, <2>1, <2>2, IdTypes
<1>5. PassedIsRaised'
  BY <1>1, <1>4 DEF PassedIsRaised, Raised, Breached
<1> QED
  BY <1>1, <1>5 DEF SteadyInv, SteadyIsLoaded, RowIsCovered

LEMMA SteadyStep ==
    ASSUME TypeOK, PollInv, SteadyInv, [Next]_vars
    PROVE  SteadyInv'
<1>1. CASE EngineStart \/ SeedCheck \/ AddRule \/ SeedDone \/ OpenReader
  BY <1>1, SteadyFrame DEF EngineStart, SeedCheck, AddRule, SeedDone, OpenReader, dbVars, histVars
<1>2. CASE FetchReadings
  BY <1>2, SteadyFrame DEF FetchReadings, dbVars, histVars
<1>3. CASE Environment
  <2>1. CASE Reset
    BY <2>1 DEF Reset, SteadyInv, SteadyIsLoaded, RowIsCovered, PassedIsRaised
  <2> QED
    BY <1>3, <2>1, SteadyFrame DEF Environment, Stop, Crash, LoseConnection, dbVars, procVars, histVars
<1>4. CASE UNCHANGED vars
  BY <1>4, SteadyFrame DEF vars, dbVars, procVars, histVars
<1> QED
  BY <1>1, <1>2, <1>3, <1>4, IngestionKeepsSteady, RoutesKeepSteady, LoadKeepsSteady, CursorKeepsSteady,
     EvaluateKeepsSteady, WriteKeepsSteady, AdvanceKeepsSteady DEF Next, Startup, Poll

\* A rule that did not change since the process read it misses no breach of a
\* reading the cursor has passed (main.cpp:136-162).
THEOREM NoBreachIsMissed == Spec => []SteadyRuleMissesNothing
<1>1. Init => SteadyInv
  BY DEF Init, SteadyInv, SteadyIsLoaded, RowIsCovered, PassedIsRaised
<1>2. TypeOK /\ PollInv /\ SteadyInv /\ [Next]_vars => SteadyInv'
  BY SteadyStep
<1>3. SteadyInv => SteadyRuleMissesNothing
  BY DEF SteadyInv, PassedIsRaised, Raised, SteadyRuleMissesNothing
<1> QED
  BY <1>1, <1>2, <1>3, TypeCorrect, PollInvariant, PTL DEF Spec
=============================================================================
