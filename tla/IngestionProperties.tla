------------------------ MODULE IngestionProperties ------------------------
(***************************************************************************)
(* What the ingestion service promises about the readings it accepted.     *)
(***************************************************************************)
EXTENDS Ingestion

\* Every variable stays in the set of values the code can give it.
TypeOK ==
    /\ PoolTypeOK
    /\ accepted \in Seq(Message)
    /\ stage \in [Workers -> {"none", "write", "publish"}]
    /\ buffer \in Seq(1..MaxTasks)
    /\ stored \in Seq(1..MaxTasks)
    /\ failed \subseteq 1..MaxTasks
    /\ produced \in Seq(1..MaxTasks)
    /\ unproduced \subseteq 1..MaxTasks
    /\ main \in MainStates
    /\ running \in BOOLEAN
    /\ link \in {"down", "up", "subscribed"}
    /\ outages \in 0..MaxOutages
    /\ dbUp \in BOOLEAN
    /\ faults \in 0..MaxFaults

\* Readings no worker has yet written to the buffer.
Unwritten == ToSet(tasks) \cup {task[w] : w \in {v \in Workers : stage[v] = "write"}}

\* A reading is in one place: waiting for its write, buffered, in the table or
\* in a failed INSERT; it is buffered once and stored in one row, and the
\* buffer stays below the batch size between writes (db_writer.cpp:83-101 with
\* the workers, the flush of main and the destructor).
EachReadingHasOnePlace ==
    /\ 1..submitted = Unwritten \cup ToSet(buffer) \cup ToSet(stored) \cup failed
    /\ Unwritten \cap (ToSet(buffer) \cup ToSet(stored) \cup failed) = {}
    /\ ToSet(buffer) \cap (ToSet(stored) \cup failed) = {}
    /\ ToSet(stored) \cap failed = {}
    /\ IsInjective(buffer) /\ IsInjective(stored)
    /\ Len(buffer) < BatchSize

\* A worker has a statement to execute exactly while it holds a task.
StageOfTask == \A w \in Workers : (stage[w] = "none") = (task[w] = NoTask)

\* What ran has been handed to Kafka once, or its one produce call failed.
PublishedOnce ==
    /\ finished = ToSet(produced) \cup unproduced
    /\ ToSet(produced) \cap unproduced = {}
    /\ IsInjective(produced)

\* main closes the pool after its loop and flushes last.
MainOrder ==
    /\ main \in {"connect", "check", "sleep", "disconnect"} => closer = "open"
    /\ main \in {"destroy", "returned"} => closer = "joined"
    /\ main = "returned" => buffer = <<>>

\* The invariant of the service: no reading is duplicated or forgotten on its
\* way from the callback through the workers and the buffer to the table.
IngestionInv ==
    /\ PoolInv
    /\ TypeOK
    /\ Len(accepted) = submitted
    /\ StageOfTask
    /\ EachReadingHasOnePlace
    /\ PublishedOnce
    /\ MainOrder

\* A main that returns has stored or tried to store every accepted reading and
\* has produced it once (main.cpp:165-170 and the destructors).
ReturnDrains ==
    main = "returned" =>
        /\ 1..submitted = ToSet(stored) \cup failed
        /\ 1..submitted = ToSet(produced) \cup unproduced
        /\ IsInjective(produced)

\* Parallel workers reorder readings, but only so far: a reading on the bus has
\* overtaken fewer earlier ones than there are workers.
OvertakingIsBounded ==
    \A i \in DOMAIN produced :
        Cardinality({n \in 1..(produced[i] - 1) :
                       n \notin ToSet(SubSeq(produced, 1, i)) \cup unproduced})
            < Cardinality(Workers)

\* While the connection lives, one failed statement or one row PostgreSQL
\* rejects costs at most one batch: the INSERT is one statement and the batch is
\* dropped with it, but nothing that was accepted later is.
LossIsBounded ==
    dbUp => Cardinality(failed) <=
              BatchSize * (faults + Cardinality({n \in 1..submitted : ~accepted[n].valid}))

\* The service is a write-behind store of readings.
Table == INSTANCE WriteBehind WITH
           Items <- 1..MaxTasks,
           pending <- (1..submitted) \ (ToSet(stored) \cup failed),
           stored <- ToSet(stored), lost <- failed
ImplementsWriteBehind == Table!Spec

\* Every accepted reading reaches the table or a failed INSERT while the
\* process lives: partial batches do not wait for a full one.
ReadingsReachTheTable ==
    \A n \in 1..MaxTasks :
        (n <= submitted) ~> (n \in ToSet(stored) \cup failed \/ main = "crashed")

\* A signal ends the process.
SignalEndsTheProcess == ~running ~> ~Alive

-----------------------------------------------------------------------------
\* kafka_producer.h:18-19: "publishes each reading as JSON to Kafka, keyed by
\* device_id so a partition stays ordered per device".
KafkaKeepsDeviceOrder ==
    \A i, j \in DOMAIN produced :
        i < j /\ accepted[produced[i]].device = accepted[produced[j]].device
            => produced[i] < produced[j]
=============================================================================
