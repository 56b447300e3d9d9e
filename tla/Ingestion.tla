----------------------------- MODULE Ingestion -----------------------------
(***************************************************************************)
(* The ingestion service (ingestion/main.cpp): the MQTT callback thread    *)
(* parses messages and submits a task for each reading; the workers of the *)
(* pool write it to DbWriter's buffer and publish it on the event bus,     *)
(* whose subscriber produces to Kafka; main flushes the buffer every 500ms *)
(* and shuts everything down.                                              *)
(*                                                                         *)
(* A reading is identified by its task number, so 1, 2, ... is the order   *)
(* in which message_arrived accepted them.                                 *)
(***************************************************************************)
EXTENDS ThreadPool, SequencesExt

CONSTANTS
    Devices,     \* device ids
    BatchSize,   \* config_.batch_size
    MaxFaults,   \* bound: statements and produce calls that fail by themselves
    MaxOutages   \* bound: times the MQTT connection is lost

ASSUME BatchAssumption == BatchSize \in Nat \ {0}
ASSUME FaultAssumption == MaxFaults \in Nat /\ MaxOutages \in Nat

VARIABLES
    accepted,    \* accepted[n]: the n-th reading, [device, valid]
    stage,       \* stage[w]: the statement of its task w is about to execute
    buffer,      \* DbWriter::buffer_
    stored,      \* rows of readings in id order
    failed,      \* readings of INSERTs that failed
    produced,    \* records in Kafka, in the order of the produce calls
    unproduced,  \* readings whose produce call failed
    main,        \* the statement of main
    running,     \* g_running
    link,        \* the MQTT session: "down", "up", "subscribed"
    outages,
    dbUp,        \* is the libpq connection alive?
    faults

ownVars == <<accepted, stage, buffer, stored, failed, produced,
             unproduced, main, running, link, outages, dbUp, faults>>
vars == <<poolVars, ownVars>>

\* valid: PostgreSQL accepts the row.  The parser only asks that the timestamp
\* is a string (reading_parser.cpp:45-48).
Message == [device : Devices, valid : BOOLEAN]

MainStates == {"connect", "check", "sleep", "disconnect", "shutdown", "destroy",
               "returned", "crashed"}
Alive == main \notin {"returned", "crashed"}

Init ==
    /\ PoolInit
    /\ accepted = <<>>
    /\ stage = [w \in Workers |-> "none"]
    /\ buffer = <<>> /\ stored = <<>> /\ failed = {}
    /\ produced = <<>> /\ unproduced = {}
    /\ main = "connect" /\ running = TRUE
    /\ link = "down" /\ outages = 0
    /\ dbUp = TRUE /\ faults = 0

-----------------------------------------------------------------------------
(* The MQTT callback thread.  Paho makes its calls one after the other, and *)
(* none once disconnect()->wait() has returned.                             *)

MessageArrived(m) ==
    /\ link = "subscribed" /\ Alive
    /\ signals = 0
    /\ Submit
    /\ accepted' = Append(accepted, m)
    /\ UNCHANGED <<stage, buffer, stored, failed, produced, unproduced,
                   main, running, link, outages, dbUp, faults>>

\* Logged and dropped.
MalformedMessage ==
    /\ link = "subscribed" /\ Alive
    /\ UNCHANGED vars

\* The session is a clean one: the broker forgets the subscription, and the
\* automatic reconnect does not run main's subscribe again.
ConnectionLost ==
    /\ link # "down" /\ Alive
    /\ outages < MaxOutages
    /\ outages' = outages + 1
    /\ link' = "down"
    /\ UNCHANGED <<poolVars, accepted, stage, buffer, stored, failed,
                   produced, unproduced, main, running, dbUp, faults>>

AutomaticReconnect ==
    /\ link = "down" /\ Alive
    /\ main \in {"check", "sleep"}
    /\ link' = "up"
    /\ UNCHANGED <<poolVars, accepted, stage, buffer, stored, failed,
                   produced, unproduced, main, running, outages, dbUp, faults>>

-----------------------------------------------------------------------------
(* DbWriter.  insert_batch is one INSERT of the whole batch and clears it   *)
(* whatever the outcome.                                                    *)

\* Mutant: a batch whose INSERT failed stays in the buffer.
InsertKeepingFailures(batch) ==
    \/ /\ dbUp /\ \A i \in DOMAIN batch : accepted[batch[i]].valid
       /\ stored' = stored \o batch
       /\ buffer' = <<>>
       /\ UNCHANGED <<failed, faults>>
    \/ /\ \/ ~dbUp /\ UNCHANGED faults
          \/ \E i \in DOMAIN batch : ~accepted[batch[i]].valid /\ UNCHANGED faults
          \/ faults < MaxFaults /\ faults' = faults + 1
       /\ failed' = failed \cup ToSet(batch)
       /\ buffer' = batch
       /\ UNCHANGED stored

InsertBatch(batch) ==
    /\ buffer' = <<>>
    /\ \/ /\ dbUp /\ \A i \in DOMAIN batch : accepted[batch[i]].valid
          /\ stored' = stored \o batch
          /\ UNCHANGED <<failed, faults>>
       \/ /\ \/ ~dbUp /\ UNCHANGED faults
             \/ \E i \in DOMAIN batch : ~accepted[batch[i]].valid /\ UNCHANGED faults
             \/ faults < MaxFaults /\ faults' = faults + 1
          /\ failed' = failed \cup ToSet(batch)
          /\ UNCHANGED stored

\* Mutant: the batch is tested against the limit before the new reading is in it.
WriteTestsFirst(w) ==
    /\ at[w] = "running" /\ stage[w] = "write"
    /\ stage' = [stage EXCEPT ![w] = "publish"]
    /\ IF Len(buffer) >= BatchSize
       THEN InsertBatch(buffer)
       ELSE buffer' = Append(buffer, task[w]) /\ UNCHANGED <<stored, failed, faults>>
    /\ UNCHANGED <<poolVars, accepted, produced, unproduced, main,
                   running, link, outages, dbUp>>

Write(w) ==
    /\ at[w] = "running" /\ stage[w] = "write"
    /\ stage' = [stage EXCEPT ![w] = "publish"]
    /\ LET full == Append(buffer, task[w])
       IN  IF Len(full) >= BatchSize
           THEN InsertBatch(full)
           ELSE buffer' = full /\ UNCHANGED <<stored, failed, faults>>
    /\ UNCHANGED <<poolVars, accepted, produced, unproduced, main,
                   running, link, outages, dbUp>>

\* Does nothing when the buffer is empty.
FlushBuffer ==
    IF buffer = <<>> THEN UNCHANGED <<buffer, stored, failed, faults>>
                     ELSE InsertBatch(buffer)

LoseDatabase ==
    /\ dbUp /\ Alive
    /\ faults < MaxFaults
    /\ faults' = faults + 1
    /\ dbUp' = FALSE
    /\ UNCHANGED <<poolVars, accepted, stage, buffer, stored, failed,
                   produced, unproduced, main, running, link, outages>>

-----------------------------------------------------------------------------
(* The workers.  The task of a reading is db_.write, then bus_.publish,     *)
(* which calls the Kafka sink under the bus's mutex.                        *)

TakeTask(w) ==
    /\ Pop(w)
    /\ stage' = [stage EXCEPT ![w] = "write"]
    /\ UNCHANGED <<accepted, buffer, stored, failed, produced, unproduced,
                   main, running, link, outages, dbUp, faults>>

\* rd_kafka_producev queues a copy or refuses it; a refusal is only logged.
Produce(n) ==
    \/ /\ produced' = Append(produced, n)
       /\ UNCHANGED <<unproduced, faults>>
    \/ /\ faults < MaxFaults /\ faults' = faults + 1
       /\ unproduced' = unproduced \cup {n}
       /\ UNCHANGED produced

Publish(w) ==
    /\ stage[w] = "publish"
    /\ Finish(w)
    /\ stage' = [stage EXCEPT ![w] = "none"]
    /\ Produce(task[w])
    /\ UNCHANGED <<accepted, buffer, stored, failed, main, running, link,
                   outages, dbUp>>

-----------------------------------------------------------------------------
(* main.                                                                    *)

\* connect()->wait() and subscribe()->wait(); an exception leaves the try.
ConnectAndSubscribe ==
    /\ main = "connect"
    /\ \/ link' = "subscribed" /\ main' = "check" /\ UNCHANGED outages
       \/ /\ outages < MaxOutages /\ outages' = outages + 1
          /\ link' \in {"down", "up"} /\ main' = "disconnect"
    /\ UNCHANGED <<poolVars, accepted, stage, buffer, stored, failed,
                   produced, unproduced, running, dbUp, faults>>

Signal ==
    /\ running /\ Alive
    /\ running' = FALSE
    /\ UNCHANGED <<poolVars, accepted, stage, buffer, stored, failed,
                   produced, unproduced, main, link, outages, dbUp, faults>>

LoopTest ==
    /\ main = "check"
    /\ main' = IF running THEN "sleep" ELSE "disconnect"
    /\ UNCHANGED <<poolVars, accepted, stage, buffer, stored, failed,
                   produced, unproduced, running, link, outages, dbUp, faults>>

\* Mutant: the loop does not flush partial batches.
FlushTickWithoutFlush ==
    /\ main = "sleep"
    /\ main' = "check"
    /\ UNCHANGED <<poolVars, accepted, stage, buffer, stored, failed,
                   produced, unproduced, running, link, outages, dbUp, faults>>

FlushTick ==
    /\ main = "sleep"
    /\ main' = "check"
    /\ FlushBuffer
    /\ UNCHANGED <<poolVars, accepted, stage, produced, unproduced,
                   running, link, outages, dbUp>>

\* disconnect() throws when there is no connection, and nothing catches it.
Disconnect ==
    /\ main = "disconnect"
    /\ IF link = "down" THEN main' = "crashed" /\ UNCHANGED link
                        ELSE main' = "shutdown" /\ link' = "down"
    /\ UNCHANGED <<poolVars, accepted, stage, buffer, stored, failed,
                   produced, unproduced, running, outages, dbUp, faults>>

\* pool.shutdown(): set, notify, join.
ShutDownPool ==
    /\ main = "shutdown"
    /\ BeginShutdown \/ NotifyAll \/ Join
    /\ main' = IF closer' = "joined" THEN "destroy" ELSE "shutdown"
    /\ UNCHANGED <<accepted, stage, buffer, stored, failed, produced,
                   unproduced, running, link, outages, dbUp, faults>>

\* Mutant: ~DbWriter only closes the connection.
DestroyWithoutFlush ==
    /\ main = "destroy"
    /\ main' = "returned"
    /\ UNCHANGED <<poolVars, accepted, stage, buffer, stored, failed,
                   produced, unproduced, running, link, outages, dbUp, faults>>

\* ~DbWriter flushes; the pool is destroyed last and is already shut down.
Destroy ==
    /\ main = "destroy"
    /\ main' = "returned"
    /\ FlushBuffer
    /\ UNCHANGED <<poolVars, accepted, stage, produced, unproduced,
                   running, link, outages, dbUp>>

Crash ==
    /\ Alive
    /\ main' = "crashed"
    /\ UNCHANGED <<poolVars, accepted, stage, buffer, stored, failed,
                   produced, unproduced, running, link, outages, dbUp, faults>>

-----------------------------------------------------------------------------
PoolStep ==
    /\ Alive
    /\ \/ NotifyOne
       \/ \E w \in Workers : SpuriousWakeup(w) \/ Wait(w) \/ Exit(w)
    /\ UNCHANGED ownVars

Work(w) == Alive /\ (TakeTask(w) \/ Write(w) \/ Publish(w))
Main == ConnectAndSubscribe \/ LoopTest \/ FlushTick \/ Disconnect \/ ShutDownPool \/ Destroy

Environment ==
    \/ \E m \in Message : MessageArrived(m)
    \/ MalformedMessage \/ ConnectionLost \/ AutomaticReconnect
    \/ LoseDatabase \/ Signal \/ Crash

\* The process has ended.
Ended == ~Alive /\ UNCHANGED vars

Next == Main \/ PoolStep \/ (\E w \in Workers : Work(w)) \/ Environment \/ Ended

Spec == Init /\ [][Next]_vars

\* Every thread of the process keeps running, and a sleep ends.
FairSpec ==
    /\ Spec
    /\ WF_vars(Main)
    /\ WF_vars(Alive /\ NotifyOne /\ UNCHANGED ownVars)
    /\ \A w \in Workers : WF_vars(Work(w) \/ (Alive /\ (Wait(w) \/ Exit(w)) /\ UNCHANGED ownVars))
=============================================================================
