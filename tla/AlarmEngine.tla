---------------------------- MODULE AlarmEngine ----------------------------
(***************************************************************************)
(* The alarm engine process (alarm-engine/main.cpp), the three tables it   *)
(* shares with the rest of the system, and the actors that touch them      *)
(* while it runs: the ingestion writer that appends readings and the API   *)
(* that creates, updates and deletes rules.                                *)
(*                                                                         *)
(* The engine has two connections: "store" (AlarmStore) and "reader" (the  *)
(* PGconn of main).  Any query may fail; a connection that is lost is never*)
(* reset, so every later query on it fails until the process is restarted. *)
(***************************************************************************)
EXTENDS RuleEvaluator, Sequences

CONSTANTS
    Streams,       \* (device_id, sensor) pairs
    Values,        \* values a sensor may report
    Words,         \* what a request may say for a condition or a severity
    Templates,     \* message templates a rule may carry
    RuleBodies,    \* bodies of POST and PUT /api/rules
    DefaultRules,  \* the rules of seed_default_rules, in order
    SeedRules,     \* was the engine started with --seed?
    LegacySchema,  \* does alarms.rule_id start with the NO ACTION foreign key?
    NoCursor,      \* std::nullopt
    MaxReadingId,  \* bound: ids the readings sequence hands out
    MaxRuleId,     \* bound: the API creates no rule with a greater id
    MaxFaults,     \* bound: transient query failures
    MaxStarts      \* bound: times the engine process is started

ASSUME BoundsAssumption ==
    /\ MaxReadingId \in Nat /\ MaxRuleId \in Nat
    /\ MaxFaults \in Nat /\ MaxStarts \in Nat
ASSUME CursorAssumption == NoCursor \notin Nat
ASSUME ValuesAssumption == Values \subseteq Int
ASSUME FlagsAssumption == SeedRules \in BOOLEAN /\ LegacySchema \in BOOLEAN

RuleBody == [stream : Streams, condition : Words, threshold : Int, severity : Words]
SeedRule == [stream : Streams, condition : Words, threshold : Int, severity : Words,
             template : Templates]

ASSUME RulesAssumption ==
    /\ RuleBodies \subseteq RuleBody
    /\ DefaultRules \in Seq(SeedRule)
    /\ NoTemplate \in Templates

VARIABLES
    \* The database.
    readings,      \* rows of readings: [id, stream, value]
    nextReading,   \* next value of its id sequence
    rules,         \* rows of alarm_rules
    nextRule,      \* next value of its id sequence
    alarms,        \* rows of alarms in id order: [reading, by, ref, message]
    fk,            \* delete action of alarms.rule_id: "noaction" or "setnull"
    tx,            \* the open transaction of RuleService::delete_rule
    \* The engine process.
    pc,            \* the statement of main it is about to execute
    lastId,        \* last_id
    cached,        \* rules
    batch,         \* readings not yet evaluated in this poll
    row,           \* the reading being evaluated
    todo,          \* its alarms not yet written, as the rules that fired
    seedLeft,      \* default rules not yet inserted
    \* The environment.
    lost,          \* connections that are lost
    faults,        \* transient failures so far
    starts,        \* process starts so far
    \* History variables, read by properties only.
    before,        \* ids committed when the process started
    start,         \* the cursor this process started from
    evaluated,     \* ids ever evaluated
    steady,        \* rules unchanged in the table since the initial load
    initialLoad,   \* did the initial load of this process succeed?
    dropped        \* (reading, rule) pairs whose INSERT failed on a query error

dbVars == <<readings, nextReading, rules, nextRule, alarms, fk, tx>>
procVars == <<pc, lastId, cached, batch, row, todo, seedLeft>>
envVars == <<lost, faults, starts>>
histVars == <<before, start, evaluated, steady, initialLoad, dropped>>
vars == <<dbVars, procVars, envVars, histVars>>

Reading == [id : 1..MaxReadingId, stream : Streams, value : Values]
Rule == [id : Nat \ {0}, stream : Streams, condition : Conditions,
         threshold : Int, severity : Severities, template : Templates]

Ids(rows) == {r.id : r \in rows}

\* Mutant: rows taken in any order, as without ORDER BY id.
FirstAnyOrder(r, rows) == r \in rows

First(r, rows) == r \in rows /\ \A s \in rows : r.id <= s.id

NoReading == [id |-> 0]
NoTx == [step |-> "none", rule |-> 0, held |-> {}]

PCs == {"down", "seedCheck", "seed", "open", "load", "catchUp",
        "sleep", "reload", "fetch", "row", "write"}

-----------------------------------------------------------------------------
(* Queries: one succeeds while its connection is up; it fails when the      *)
(* connection is lost, or by a transient error.                             *)

Succeeds(link) == link \notin lost /\ UNCHANGED faults

Fails(link) ==
    \/ link \in lost /\ UNCHANGED faults
    \/ link \notin lost /\ faults < MaxFaults /\ faults' = faults + 1

Init ==
    /\ readings = {} /\ nextReading = 1
    /\ rules = {} /\ nextRule = 1
    /\ alarms = <<>>
    /\ fk = IF LegacySchema THEN "noaction" ELSE "setnull"
    /\ tx = NoTx
    /\ pc = "down" /\ lastId = NoCursor /\ cached = {}
    /\ batch = {} /\ row = NoReading /\ todo = {} /\ seedLeft = <<>>
    /\ lost = {} /\ faults = 0 /\ starts = 0
    /\ before = {} /\ start = NoCursor /\ evaluated = {}
    /\ steady = {} /\ initialLoad = FALSE /\ dropped = {}

-----------------------------------------------------------------------------
(* The ingestion writer: DbWriter::insert_batch is one INSERT statement on  *)
(* one connection, so its rows commit together and ids follow commit order. *)
(* A statement that fails has still consumed the ids it drew.               *)

InsertBatch(samples) ==
    LET n == Len(samples)
    IN  /\ nextReading + n - 1 <= MaxReadingId
        /\ nextReading' = nextReading + n
        /\ readings' = readings \cup
             {[id |-> nextReading + i - 1, stream |-> samples[i].stream,
               value |-> samples[i].value] : i \in 1..n}
        /\ UNCHANGED <<rules, nextRule, alarms, fk, tx, procVars, envVars, histVars>>

InsertBatchFails ==
    /\ nextReading <= MaxReadingId
    /\ faults < MaxFaults
    /\ faults' = faults + 1
    /\ nextReading' = nextReading + 1
    /\ UNCHANGED <<readings, rules, nextRule, alarms, fk, tx, procVars,
                   lost, starts, histVars>>

-----------------------------------------------------------------------------
(* The API's rule routes.  Its HTTP server is one thread with one           *)
(* connection, so no other route runs inside the transaction of a delete.   *)

FromBody(id, body, template) ==
    [id |-> id, stream |-> body.stream,
     condition |-> ConditionFromString(body.condition), threshold |-> body.threshold,
     severity |-> SeverityFromString(body.severity), template |-> template]

CreateRule(body) ==
    /\ tx.step = "none"
    /\ nextRule <= MaxRuleId
    /\ rules' = rules \cup {FromBody(nextRule, body, NoTemplate)}
    /\ nextRule' = nextRule + 1
    /\ UNCHANGED <<readings, nextReading, alarms, fk, tx, procVars, envVars, histVars>>

\* The UPDATE names every column but message_template, which the row keeps.
UpdateRule(r, body) ==
    /\ tx.step = "none"
    /\ rules' = (rules \ {r}) \cup {FromBody(r.id, body, r.template)}
    /\ steady' = steady \cap rules'
    /\ UNCHANGED <<readings, nextReading, nextRule, alarms, fk, tx, procVars, envVars,
                   before, start, evaluated, initialLoad, dropped>>

\* BEGIN; UPDATE alarms SET rule_id = NULL.  The rows it found stay locked;
\* nothing is visible outside before the COMMIT.
DeleteDetach(r) ==
    /\ tx.step = "none"
    /\ tx' = [step |-> "detached", rule |-> r.id,
              held |-> {i \in DOMAIN alarms : alarms[i].ref = r.id}]
    /\ UNCHANGED <<readings, nextReading, rules, nextRule, alarms, fk,
                   procVars, envVars, histVars>>

\* Alarms that reference the rule and that the UPDATE did not see.
Unseen == {i \in DOMAIN alarms : alarms[i].ref = tx.rule} \ tx.held

\* Mutant: ON DELETE SET NULL does not reach the alarms the UPDATE missed.
DeleteRowForgetsUnseen ==
    /\ tx.step = "detached"
    /\ tx' = [tx EXCEPT !.step = "deleted"]
    /\ UNCHANGED <<readings, nextReading, rules, nextRule, alarms, fk,
                   procVars, envVars, histVars>>

\* DELETE FROM alarm_rules.  SET NULL takes the unseen alarms along; NO
\* ACTION rejects the statement when there is one, and the code rolls back.
DeleteRow ==
    /\ tx.step = "detached"
    /\ fk = "setnull" \/ Unseen = {}
    /\ tx' = [tx EXCEPT !.step = "deleted", !.held = @ \cup Unseen]
    /\ UNCHANGED <<readings, nextReading, rules, nextRule, alarms, fk,
                   procVars, envVars, histVars>>

\* Mutant: the foreign key cascades.
DeleteCommitCascades ==
    /\ tx.step = "deleted"
    /\ rules' = {r \in rules : r.id # tx.rule}
    /\ alarms' = SelectSeq(alarms, LAMBDA a : a.ref # tx.rule)
    /\ steady' = steady \cap rules'
    /\ tx' = NoTx
    /\ UNCHANGED <<readings, nextReading, nextRule, fk, procVars, envVars,
                   before, start, evaluated, initialLoad, dropped>>

DeleteCommit ==
    /\ tx.step = "deleted"
    /\ rules' = {r \in rules : r.id # tx.rule}
    /\ alarms' = [i \in DOMAIN alarms |->
                    IF i \in tx.held THEN [alarms[i] EXCEPT !.ref = 0] ELSE alarms[i]]
    /\ steady' = steady \cap rules'
    /\ tx' = NoTx
    /\ UNCHANGED <<readings, nextReading, nextRule, fk, procVars, envVars,
                   before, start, evaluated, initialLoad, dropped>>

\* The rejected DELETE, a failed statement, or the end of the API process.
DeleteRollback ==
    /\ \/ tx.step = "detached" /\ fk = "noaction" /\ Unseen # {} /\ UNCHANGED faults
       \/ tx.step # "none" /\ faults < MaxFaults /\ faults' = faults + 1
    /\ tx' = NoTx
    /\ UNCHANGED <<readings, nextReading, rules, nextRule, alarms, fk, procVars,
                   lost, starts, histVars>>

-----------------------------------------------------------------------------
(* Starting the engine.  create_tables runs DDL on alarms, which waits for  *)
(* the row locks of an open delete; its result is not looked at.            *)

EngineStart ==
    /\ pc = "down"
    /\ starts < MaxStarts
    /\ starts' = starts + 1
    /\ tx.step = "none"
    /\ lost' = {}
    /\ \/ fk' = "setnull" /\ UNCHANGED faults
       \/ faults < MaxFaults /\ faults' = faults + 1 /\ UNCHANGED fk
    /\ pc' = IF SeedRules THEN "seedCheck" ELSE "open"
    /\ before' = Ids(readings)
    /\ UNCHANGED <<readings, nextReading, rules, nextRule, alarms, tx,
                   lastId, cached, batch, row, todo, seedLeft,
                   start, evaluated, steady, initialLoad, dropped>>

\* seed_default_rules: load_rules answers {} for an empty table and for a
\* query that failed, and {} is what it tests.
SeedCheck ==
    /\ pc = "seedCheck"
    /\ \/ /\ Succeeds("store")
          /\ pc' = IF rules = {} THEN "seed" ELSE "open"
       \/ /\ Fails("store")
          /\ pc' = "seed"
    /\ seedLeft' = IF pc' = "seed" THEN DefaultRules ELSE <<>>
    /\ UNCHANGED <<dbVars, lastId, cached, batch, row, todo, lost, starts, histVars>>

AddRule ==
    /\ pc = "seed"
    /\ seedLeft # <<>>
    /\ seedLeft' = Tail(seedLeft)
    /\ \/ /\ Succeeds("store")
          /\ nextRule' = nextRule + 1
          /\ rules' = rules \cup
               {FromBody(nextRule, Head(seedLeft), Head(seedLeft).template)}
       \/ /\ Fails("store")
          /\ UNCHANGED <<rules, nextRule>>
    /\ UNCHANGED <<readings, nextReading, alarms, fk, tx,
                   pc, lastId, cached, batch, row, todo, lost, starts, histVars>>

SeedDone ==
    /\ pc = "seed"
    /\ seedLeft = <<>>
    /\ pc' = "open"
    /\ UNCHANGED <<dbVars, lastId, cached, batch, row, todo, seedLeft, envVars, histVars>>

\* The second connection: without it main returns.
OpenReader ==
    /\ pc = "open"
    /\ \/ pc' = "load" /\ UNCHANGED faults
       \/ pc' = "down" /\ faults < MaxFaults /\ faults' = faults + 1
    /\ UNCHANGED <<dbVars, lastId, cached, batch, row, todo, seedLeft, lost, starts, histVars>>

\* try_load_rules does not select message_template.
LoadedRules == {[r EXCEPT !.template = NoTemplate] : r \in rules}

\* load_rules answers {} when the query fails.
InitialLoad ==
    /\ pc = "load"
    /\ \/ Succeeds("store") /\ cached' = LoadedRules /\ initialLoad' = TRUE
       \/ Fails("store") /\ cached' = {} /\ initialLoad' = FALSE
    /\ steady' = rules
    /\ pc' = "catchUp"
    /\ UNCHANGED <<dbVars, lastId, batch, row, todo, seedLeft, lost, starts,
                   before, start, evaluated, dropped>>

-----------------------------------------------------------------------------
(* The cursor.  catch_up_reading_id is COALESCE(MAX(id), 0), or nullopt.    *)

IsCaughtUp(m) ==
    \/ readings = {} /\ m = 0
    \/ m \in Ids(readings) /\ \A r \in readings : r.id <= m

\* Mutant: a query that failed reads as cursor 0.
CatchUpReadingIdFromZero ==
    \/ /\ Succeeds("reader")
       /\ \E m \in {0} \cup Ids(readings) : IsCaughtUp(m) /\ lastId' = m
    \/ Fails("reader") /\ lastId' = 0

CatchUpReadingId ==
    \/ /\ Succeeds("reader")
       /\ \E m \in {0} \cup Ids(readings) : IsCaughtUp(m) /\ lastId' = m
    \/ /\ Fails("reader")
       /\ lastId' = NoCursor

CatchUp ==
    /\ pc = "catchUp"
    /\ CatchUpReadingId
    /\ start' = lastId'
    /\ pc' = "sleep"
    /\ UNCHANGED <<dbVars, cached, batch, row, todo, seedLeft, lost, starts,
                   before, evaluated, steady, initialLoad, dropped>>

\* Mutant: an unset cursor is not read again.
WakeUpWithoutRetry ==
    /\ pc = "sleep"
    /\ pc' = IF lastId = NoCursor THEN "sleep" ELSE "reload"
    /\ UNCHANGED <<dbVars, lastId, cached, batch, row, todo, seedLeft, envVars, histVars>>

\* The top of the loop after the sleep, with the retry of an unset cursor.
WakeUp ==
    /\ pc = "sleep"
    /\ \/ /\ lastId # NoCursor
          /\ pc' = "reload"
          /\ UNCHANGED <<lastId, start, faults>>
       \/ /\ lastId = NoCursor
          /\ CatchUpReadingId
          /\ start' = lastId'
          /\ pc' = IF lastId' = NoCursor THEN "sleep" ELSE "reload"
    /\ UNCHANGED <<dbVars, cached, batch, row, todo, seedLeft, lost, starts,
                   before, evaluated, steady, initialLoad, dropped>>

-----------------------------------------------------------------------------
(* One poll.                                                                *)

\* Mutant: a failed reload empties the rule set.
ReloadRulesOrNone ==
    /\ pc = "reload"
    /\ \/ Succeeds("store") /\ cached' = LoadedRules
       \/ Fails("store") /\ cached' = {}
    /\ pc' = "fetch"
    /\ UNCHANGED <<dbVars, lastId, batch, row, todo, seedLeft, lost, starts, histVars>>

\* rules_for_poll: a failed load keeps the previous set.
ReloadRules ==
    /\ pc = "reload"
    /\ \/ Succeeds("store") /\ cached' = LoadedRules
       \/ Fails("store") /\ UNCHANGED cached
    /\ pc' = "fetch"
    /\ UNCHANGED <<dbVars, lastId, batch, row, todo, seedLeft, lost, starts, histVars>>

\* Mutant: the row at the cursor is fetched again.
ReadingsFrom(id) == {r \in readings : r.id >= id}

ReadingsAfter(id) == {r \in readings : r.id > id}

FetchReadings ==
    /\ pc = "fetch"
    /\ \/ Succeeds("reader") /\ batch' = ReadingsAfter(lastId)
       \/ Fails("reader") /\ batch' = {}
    /\ pc' = IF batch' = {} THEN "sleep" ELSE "row"
    /\ UNCHANGED <<dbVars, lastId, cached, row, todo, seedLeft, lost, starts, histVars>>

EvaluateAll ==
    /\ pc = "row"
    /\ \E r \in batch :
         /\ First(r, batch)
         /\ row' = r
         /\ todo' = Firing(cached, r)
         /\ evaluated' = evaluated \cup {r.id}
    /\ pc' = "write"
    /\ UNCHANGED <<dbVars, lastId, cached, batch, seedLeft, envVars,
                   before, start, steady, initialLoad, dropped>>

\* write_alarm for the next rule that fired.  The INSERT needs the rule row:
\* it waits while a delete of that row is open, and is rejected after it.
\* Its result only counts towards a log line.
WriteAlarm ==
    /\ pc = "write"
    /\ \E r \in todo :
         /\ First(r, todo)
         /\ ~(tx.step = "deleted" /\ tx.rule = r.id)
         /\ todo' = todo \ {r}
         /\ \/ /\ Succeeds("store")
               /\ r.id \in Ids(rules)
               /\ alarms' = Append(alarms, [reading |-> row.id, by |-> r, ref |-> r.id,
                                            message |-> FormatMessage(r)])
               /\ UNCHANGED dropped
            \/ /\ Succeeds("store")
               /\ r.id \notin Ids(rules)
               /\ UNCHANGED <<alarms, dropped>>
            \/ /\ Fails("store")
               /\ dropped' = dropped \cup {<<row.id, r.id>>}
               /\ UNCHANGED alarms
    /\ UNCHANGED <<readings, nextReading, rules, nextRule, fk, tx,
                   pc, lastId, cached, batch, row, seedLeft, lost, starts,
                   before, start, evaluated, steady, initialLoad>>

\* Mutant: the cursor jumps to the end of the batch with its first row.
AdvanceCursorToBack ==
    /\ pc = "write"
    /\ todo = {}
    /\ \E last \in batch : (\A r \in batch : r.id <= last.id) /\ lastId' = last.id
    /\ batch' = batch \ {row}
    /\ row' = NoReading
    /\ pc' = IF batch' = {} THEN "sleep" ELSE "row"
    /\ UNCHANGED <<dbVars, cached, todo, seedLeft, envVars, histVars>>

AdvanceCursor ==
    /\ pc = "write"
    /\ todo = {}
    /\ lastId' = row.id
    /\ batch' = batch \ {row}
    /\ row' = NoReading
    /\ pc' = IF batch' = {} THEN "sleep" ELSE "row"
    /\ UNCHANGED <<dbVars, cached, todo, seedLeft, envVars, histVars>>

-----------------------------------------------------------------------------
(* The end of the process: SIGTERM at the top of the loop, or a crash       *)
(* anywhere.  Nothing of the process survives; the tables do.               *)

Reset ==
    /\ pc' = "down" /\ lastId' = NoCursor /\ cached' = {} /\ batch' = {}
    /\ row' = NoReading /\ todo' = {} /\ seedLeft' = <<>>
    /\ start' = NoCursor /\ steady' = {} /\ initialLoad' = FALSE
    /\ UNCHANGED <<dbVars, envVars, before, evaluated, dropped>>

Stop == pc = "sleep" /\ Reset

Crash == pc # "down" /\ Reset

LoseConnection(link) ==
    /\ pc # "down"
    /\ link \notin lost
    /\ lost' = lost \cup {link}
    /\ UNCHANGED <<dbVars, procVars, faults, starts, histVars>>

-----------------------------------------------------------------------------
Samples == [stream : Streams, value : Values]

Ingestion ==
    \/ \E a \in Samples : InsertBatch(<<a>>)
    \/ \E a, b \in Samples : InsertBatch(<<a, b>>)
    \/ InsertBatchFails

Api ==
    \/ \E body \in RuleBodies : CreateRule(body)
    \/ \E r \in rules, body \in RuleBodies : UpdateRule(r, body)
    \/ \E r \in rules : DeleteDetach(r)
    \/ DeleteRow
    \/ DeleteCommit
    \/ DeleteRollback

Startup == SeedCheck \/ AddRule \/ SeedDone \/ OpenReader \/ InitialLoad \/ CatchUp
Poll == WakeUp \/ ReloadRules \/ FetchReadings \/ EvaluateAll \/ WriteAlarm \/ AdvanceCursor
Environment == Stop \/ Crash \/ \E link \in {"store", "reader"} : LoseConnection(link)

Next == Ingestion \/ Api \/ EngineStart \/ Startup \/ Poll \/ Environment

Spec == Init /\ [][Next]_vars
=============================================================================
