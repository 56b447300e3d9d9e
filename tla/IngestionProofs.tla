-------------------------- MODULE IngestionProofs --------------------------
(***************************************************************************)
(* Proofs about the worker pool on its own, for any number of workers and  *)
(* tasks, and about the ingestion service it is a part of, for any number  *)
(* of readings and faults and any batch size.                              *)
(***************************************************************************)
EXTENDS IngestionProperties, FiniteSetTheorems, SequenceTheorems, TLAPS

-----------------------------------------------------------------------------
(* The worker pool.                                                         *)

\* Nothing of the pool is out of type before a worker runs.
LEMMA InitialInvariant == PoolInit => PoolInv
<1> SUFFICES ASSUME PoolInit PROVE PoolInv
    OBVIOUS
<1> USE WorkersAssumption, TaskAssumption
<1>1. PoolTypeOK
  <2>1. tasks \in Seq(1..MaxTasks)
    BY EmptySeq DEF PoolInit
  <2>2. at \in [Workers -> WorkerStates] /\ task \in [Workers -> (1..MaxTasks) \cup {NoTask}]
    BY DEF PoolInit, WorkerStates
  <2>3. shutdown \in BOOLEAN /\ closer \in CloserStates
    BY DEF PoolInit, CloserStates
  <2>4. signals \in Nat /\ submitted \in 0..MaxTasks /\ finished \subseteq 1..MaxTasks
    BY DEF PoolInit
  <2>5. QED
    BY <2>1, <2>2, <2>3, <2>4 DEF PoolTypeOK
<1>2. QueueIsFifo
    BY DEF PoolInit, QueueIsFifo, Popped
<1>3. TasksAreConserved
    BY DEF PoolInit, TasksAreConserved, Popped
<1>4. JoinWaitsForNoSleeper /\ ShutdownDrains
    BY DEF PoolInit, JoinWaitsForNoSleeper, ShutdownDrains, Waiting
<1>5. QED
    BY <1>1, <1>2, <1>3, <1>4 DEF PoolInv

\* Submitting appends the newest task.
LEMMA SubmitKeeps ==
    ASSUME PoolInv, Submit
    PROVE  PoolInv'
<1> USE WorkersAssumption, TaskAssumption
<1>1. PoolTypeOK'
    BY DEF PoolInv, Submit, PoolTypeOK, WorkerStates
<1>2. Popped' = Popped /\ Len(tasks') = Len(tasks) + 1
    BY DEF PoolInv, PoolTypeOK, Submit, Popped
<1>3. QueueIsFifo'
  <2>1. tasks \in Seq(1..MaxTasks) /\ submitted \in Nat /\ Len(tasks) \in Nat
    BY DEF PoolInv, PoolTypeOK
  <2>2. tasks' = Append(tasks, submitted + 1)
    BY DEF Submit
  <2>3. \A i \in 1..Len(tasks') :
           tasks'[i] = IF i = Len(tasks) + 1 THEN submitted + 1 ELSE tasks[i]
    BY <1>2, <2>1, <2>2, AppendProperties
  <2>4. Popped + Len(tasks) = submitted
    BY <2>1 DEF Popped
  <2>5. Popped >= 0 /\ Popped \in Int /\ \A i \in 1..Len(tasks) : tasks[i] = Popped + i
    BY <2>1 DEF PoolInv, QueueIsFifo, Popped
  <2>6. \A i \in 1..Len(tasks') : tasks'[i] = Popped + i
    <3>1. ASSUME NEW i \in 1..Len(tasks'), i = Len(tasks) + 1 PROVE tasks'[i] = Popped + i
      <4>1. tasks'[i] = submitted + 1
        BY <2>3, <3>1
      <4>2. Popped + i = submitted + 1
        BY <2>1, <2>4, <2>5, <3>1
      <4>3. QED
        BY <4>1, <4>2
    <3>2. ASSUME NEW i \in 1..Len(tasks'), i # Len(tasks) + 1 PROVE tasks'[i] = Popped + i
      <4>1. i \in 1..Len(tasks)
        BY <1>2, <2>1, <3>2
      <4>2. QED
        BY <2>3, <2>5, <3>2, <4>1
    <3>3. QED
      BY <3>1, <3>2
  <2>7. QED
    BY <1>2, <2>5, <2>6 DEF QueueIsFifo
<1>4. TasksAreConserved'
    BY <1>2 DEF PoolInv, Submit, TasksAreConserved
<1>5. JoinWaitsForNoSleeper' /\ ShutdownDrains'
    BY DEF PoolInv, Submit, JoinWaitsForNoSleeper, ShutdownDrains, Waiting
<1>6. QED
    BY <1>1, <1>3, <1>4, <1>5 DEF PoolInv

\* Steps that only move workers between waiting, checking and exited.
LEMMA WakeupKeeps ==
    ASSUME PoolInv,
           \/ NotifyOne
           \/ NotifyAll
           \/ \E w \in Workers : SpuriousWakeup(w) \/ Wait(w) \/ Exit(w)
    PROVE  PoolInv'
<1> USE WorkersAssumption, TaskAssumption
<1>1. PoolTypeOK'
  <2>1. at' \in [Workers -> WorkerStates]
    BY DEF PoolInv, PoolTypeOK, NotifyOne, NotifyAll, SpuriousWakeup, Wait, Exit,
           WorkerStates, Waiting
  <2>2. signals' \in Nat
    BY DEF PoolInv, PoolTypeOK, NotifyOne, NotifyAll, SpuriousWakeup, Wait, Exit
  <2>3. closer' \in CloserStates
    BY DEF PoolInv, PoolTypeOK, NotifyOne, NotifyAll, SpuriousWakeup, Wait, Exit, CloserStates
  <2>4. UNCHANGED <<tasks, shutdown, task, submitted, finished>>
    BY DEF NotifyOne, NotifyAll, SpuriousWakeup, Wait, Exit
  <2>5. QED
    BY <2>1, <2>2, <2>3, <2>4 DEF PoolInv, PoolTypeOK
<1>2. UNCHANGED <<tasks, task, submitted, finished, shutdown>> /\ Popped' = Popped
    BY DEF NotifyOne, NotifyAll, SpuriousWakeup, Wait, Exit, Popped
<1>3. QueueIsFifo'
    BY <1>2 DEF PoolInv, QueueIsFifo
<1>4. \A w \in Workers : (at'[w] = "running") = (at[w] = "running")
    BY DEF PoolInv, PoolTypeOK, NotifyOne, NotifyAll, SpuriousWakeup, Wait, Exit,
           WorkerStates, Waiting
<1>5. TasksAreConserved'
    BY <1>2, <1>4 DEF PoolInv, TasksAreConserved
<1>6. JoinWaitsForNoSleeper' /\ ShutdownDrains'
  <2>1. CASE NotifyOne
    BY <2>1 DEF PoolInv, PoolTypeOK, NotifyOne, JoinWaitsForNoSleeper, ShutdownDrains, Waiting
  <2>2. CASE NotifyAll
    BY <2>2 DEF PoolInv, PoolTypeOK, NotifyAll, JoinWaitsForNoSleeper, ShutdownDrains, Waiting
  <2>3. CASE \E w \in Workers : SpuriousWakeup(w) \/ Wait(w) \/ Exit(w)
    BY <2>3 DEF PoolInv, PoolTypeOK, SpuriousWakeup, Wait, Exit, JoinWaitsForNoSleeper,
                ShutdownDrains, Waiting, CloserStates
  <2>4. QED
    BY <2>1, <2>2, <2>3
<1>7. QED
    BY <1>1, <1>3, <1>5, <1>6 DEF PoolInv

\* A worker takes the oldest queued task.
LEMMA PopKeeps ==
    ASSUME PoolInv, NEW w \in Workers, Pop(w)
    PROVE  PoolInv'
<1> USE WorkersAssumption, TaskAssumption
<1>1. /\ tasks \in Seq(1..MaxTasks) /\ tasks # <<>>
      /\ Len(tasks') = Len(tasks) - 1 /\ Len(tasks) >= 1
      /\ tasks' \in Seq(1..MaxTasks)
      /\ \A i \in 1..Len(tasks') : tasks'[i] = tasks[i + 1]
      /\ Head(tasks) = tasks[1]
    BY DEF PoolInv, PoolTypeOK, Pop
<1>2. Popped' = Popped + 1 /\ Popped \in Nat /\ tasks[1] = Popped + 1
    BY <1>1 DEF PoolInv, PoolTypeOK, QueueIsFifo, Popped, Pop
<1>3. PoolTypeOK'
    BY <1>1 DEF PoolInv, PoolTypeOK, Pop, WorkerStates
<1>4. QueueIsFifo'
    BY <1>1, <1>2 DEF PoolInv, QueueIsFifo
<1>5. task[w] = NoTask
    BY DEF PoolInv, TasksAreConserved, Pop
<1>6. TasksAreConserved'
  <2>1. \A v \in Workers : task'[v] = IF v = w THEN Popped + 1 ELSE task[v]
    BY <1>1, <1>2 DEF PoolInv, PoolTypeOK, Pop
  <2>2. \A v \in Workers : at'[v] = IF v = w THEN "running" ELSE at[v]
    BY DEF PoolInv, PoolTypeOK, Pop
  <2>3. finished' = finished
    BY DEF Pop
  <2>4. \A v \in Workers : (at'[v] = "running") = (task'[v] # NoTask)
    BY <1>2, <2>1, <2>2 DEF PoolInv, TasksAreConserved
  <2>5. \A v \in Workers : task'[v] # NoTask =>
           /\ task'[v] \in 1..Popped' \ finished'
           /\ \A u \in Workers : task'[u] = task'[v] => u = v
    BY <1>2, <2>1, <2>3 DEF PoolInv, TasksAreConserved
  <2>6. \A t \in 1..Popped' : t \in finished' \/ \E v \in Workers : task'[v] = t
    BY <1>2, <1>5, <2>1, <2>3 DEF PoolInv, TasksAreConserved
  <2>7. finished' \subseteq 1..Popped'
    BY <1>2, <2>3 DEF PoolInv, TasksAreConserved
  <2>8. QED
    BY <2>4, <2>5, <2>6, <2>7 DEF TasksAreConserved
<1>7. JoinWaitsForNoSleeper' /\ ShutdownDrains'
    BY <1>1 DEF PoolInv, PoolTypeOK, Pop, JoinWaitsForNoSleeper, ShutdownDrains, Waiting
<1>8. QED
    BY <1>3, <1>4, <1>6, <1>7 DEF PoolInv

\* A task that ran is finished and nobody holds it.
LEMMA FinishKeeps ==
    ASSUME PoolInv, NEW w \in Workers, Finish(w)
    PROVE  PoolInv'
<1> USE WorkersAssumption, TaskAssumption
<1>1. Popped' = Popped /\ UNCHANGED <<tasks, submitted, shutdown, closer, signals>>
    BY DEF Finish, Popped
<1>2. task[w] \in 1..Popped /\ task[w] # NoTask
    BY DEF PoolInv, TasksAreConserved, Finish
<1>3. Popped <= submitted /\ Popped \in Nat
    BY DEF PoolInv, PoolTypeOK, QueueIsFifo, Popped
<1>4. PoolTypeOK'
    BY <1>1, <1>2, <1>3 DEF PoolInv, PoolTypeOK, Finish, WorkerStates
<1>5. QueueIsFifo'
    BY <1>1 DEF PoolInv, QueueIsFifo
<1>6. TasksAreConserved'
  <2>1. \A v \in Workers : task'[v] = IF v = w THEN NoTask ELSE task[v]
    BY DEF PoolInv, PoolTypeOK, Finish
  <2>2. \A v \in Workers : at'[v] = IF v = w THEN "check" ELSE at[v]
    BY DEF PoolInv, PoolTypeOK, Finish
  <2>3. finished' = finished \cup {task[w]}
    BY DEF Finish
  <2>4. \A v \in Workers : (at'[v] = "running") = (task'[v] # NoTask)
    BY <2>1, <2>2 DEF PoolInv, TasksAreConserved
  <2>5. \A v \in Workers : task'[v] # NoTask =>
           /\ task'[v] \in 1..Popped \ finished'
           /\ \A u \in Workers : task'[u] = task'[v] => u = v
    BY <1>2, <2>1, <2>3 DEF PoolInv, TasksAreConserved
  <2>6. \A t \in 1..Popped : t \in finished' \/ \E v \in Workers : task'[v] = t
    BY <1>2, <2>1, <2>3 DEF PoolInv, TasksAreConserved
  <2>7. finished' \subseteq 1..Popped
    BY <1>2, <2>3 DEF PoolInv, TasksAreConserved
  <2>8. QED
    BY <1>1, <2>4, <2>5, <2>6, <2>7 DEF TasksAreConserved
<1>7. JoinWaitsForNoSleeper' /\ ShutdownDrains'
    BY <1>1, <1>2, <1>3 DEF PoolInv, PoolTypeOK, Finish, JoinWaitsForNoSleeper,
                            ShutdownDrains, Waiting, TasksAreConserved
<1>8. QED
    BY <1>4, <1>5, <1>6, <1>7 DEF PoolInv

\* When every worker has left, every accepted task has run.
LEMMA JoinKeeps ==
    ASSUME PoolInv, BeginShutdown \/ Join
    PROVE  PoolInv'
<1> USE WorkersAssumption, TaskAssumption
<1>1. Popped' = Popped /\ UNCHANGED <<tasks, at, task, signals, submitted, finished>>
    BY DEF BeginShutdown, Join, Popped
<1>2. PoolTypeOK'
    BY <1>1 DEF PoolInv, PoolTypeOK, BeginShutdown, Join, CloserStates
<1>3. QueueIsFifo' /\ TasksAreConserved'
    BY <1>1 DEF PoolInv, QueueIsFifo, TasksAreConserved
<1>4. JoinWaitsForNoSleeper'
    BY <1>1 DEF PoolInv, BeginShutdown, Join, JoinWaitsForNoSleeper, Waiting
<1>5. ShutdownDrains'
  <2>1. CASE BeginShutdown
    BY <2>1 DEF BeginShutdown, ShutdownDrains
  <2>2. CASE Join
    <3>1. \A w \in Workers : at[w] = "exited" /\ task[w] = NoTask
      BY <2>2 DEF Join, PoolInv, TasksAreConserved
    <3>2. tasks = <<>> /\ Popped = submitted
      BY <3>1 DEF PoolInv, PoolTypeOK, JoinWaitsForNoSleeper, Popped
    <3>3. 1..submitted \subseteq finished
      BY <3>1, <3>2 DEF PoolInv, PoolTypeOK, TasksAreConserved
    <3>4. finished = 1..submitted
      BY <3>2, <3>3 DEF PoolInv, TasksAreConserved
    <3>5. QED
      BY <1>1, <3>4 DEF ShutdownDrains
  <2>3. QED
    BY <2>1, <2>2
<1>6. QED
    BY <1>2, <1>3, <1>4, <1>5 DEF PoolInv

\* Every step of the pool preserves its invariant.
LEMMA InvariantIsInductive == PoolInv /\ [PoolNext]_poolVars => PoolInv'
<1> SUFFICES ASSUME PoolInv, [PoolNext]_poolVars PROVE PoolInv'
    OBVIOUS
<1>1. CASE Submit
    BY <1>1, SubmitKeeps
<1>2. CASE NotifyOne \/ NotifyAll
    BY <1>2, WakeupKeeps
<1>3. CASE \E w \in Workers : SpuriousWakeup(w) \/ Wait(w) \/ Exit(w)
    BY <1>3, WakeupKeeps
<1>4. CASE \E w \in Workers : Pop(w) \/ Finish(w)
    BY <1>4, PopKeeps, FinishKeeps
<1>5. CASE BeginShutdown \/ Join
    BY <1>5, JoinKeeps
<1>6. CASE UNCHANGED poolVars
    BY <1>6 DEF PoolInv, PoolTypeOK, QueueIsFifo, TasksAreConserved, Popped,
                JoinWaitsForNoSleeper, ShutdownDrains, Waiting, poolVars
<1>7. QED
    BY <1>1, <1>2, <1>3, <1>4, <1>5, <1>6 DEF PoolNext, WorkerStep, Closed

\* The pool is first-in first-out, gives each task to one worker, and shuts
\* down only when every accepted task has run (thread_pool.cpp:20-67).
THEOREM PoolInvariant == PoolSpec => []PoolInv
<1>1. PoolInv /\ [PoolNext]_poolVars => PoolInv'
    BY InvariantIsInductive
<1>2. QED
    BY <1>1, InitialInvariant, PTL DEF PoolSpec

-----------------------------------------------------------------------------
\* The workers about to test the predicate are finitely many.
LEMMA CheckingIsFinite == IsFiniteSet(Checking) /\ Cardinality(Checking) \in Nat
    BY WorkersAssumption, FS_Subset, FS_CardinalityType DEF Checking

\* A worker that comes to the test adds one to their number.
LEMMA OneMoreChecks ==
    ASSUME PoolTypeOK, NEW w \in Workers, at[w] # "check",
           at' = [at EXCEPT ![w] = "check"]
    PROVE  Cardinality(Checking') = Cardinality(Checking) + 1
<1>1. Checking' = Checking \cup {w} /\ w \notin Checking
    BY DEF PoolTypeOK, Checking
<1>2. QED
    BY <1>1, CheckingIsFinite, FS_AddElement

\* A worker that leaves the test takes one away.
LEMMA OneFewerChecks ==
    ASSUME PoolTypeOK, NEW w \in Workers, NEW to, at[w] = "check", to # "check",
           at' = [at EXCEPT ![w] = to]
    PROVE  Cardinality(Checking') = Cardinality(Checking) - 1
<1>1. Checking' = Checking \ {w} /\ w \in Checking
    BY DEF PoolTypeOK, Checking
<1>2. QED
    BY <1>1, CheckingIsFinite, FS_RemoveElement

\* The notification a submit still owes, or a worker already awake, covers
\* every queued task in each step.
LEMMA WakeupsStayCovered ==
    ASSUME PoolTypeOK, NoLostWakeup, [PoolNext]_poolVars
    PROVE  NoLostWakeup'
<1>1. tasks \in Seq(1..MaxTasks) /\ Len(tasks) \in Nat /\ signals \in Nat
    BY DEF PoolTypeOK
<1>2. Cardinality(Checking) \in Nat
    BY CheckingIsFinite
<1>3. CASE Submit
  <2>1. Len(tasks') = Len(tasks) + 1 /\ signals' = signals + 1
    BY <1>1, <1>3 DEF Submit
  <2>2. Waiting' = Waiting /\ Checking' = Checking
    BY <1>3 DEF Submit, Waiting, Checking
  <2>3. QED
    BY <1>1, <1>2, <2>1, <2>2 DEF NoLostWakeup
<1>4. CASE NotifyOne
  <2>1. CASE Waiting = {}
    <3>1. Waiting' = {}
      BY <1>4, <2>1 DEF NotifyOne, Waiting
    <3>2. QED
      BY <3>1 DEF NoLostWakeup
  <2>2. CASE Waiting # {}
    <3>1. PICK w \in Waiting : at' = [at EXCEPT ![w] = "check"]
      BY <1>4, <2>2 DEF NotifyOne
    <3>2. w \in Workers /\ at[w] # "check"
      BY <3>1 DEF Waiting
    <3>3. Cardinality(Checking') = Cardinality(Checking) + 1
      BY <3>1, <3>2, OneMoreChecks
    <3>4. signals' = signals - 1 /\ tasks' = tasks
      BY <1>4 DEF NotifyOne
    <3>5. QED
      BY <1>1, <1>2, <2>2, <3>3, <3>4 DEF NoLostWakeup
  <2>3. QED
    BY <2>1, <2>2
<1>5. ASSUME NEW w \in Workers, SpuriousWakeup(w) PROVE NoLostWakeup'
  <2>1. Cardinality(Checking') = Cardinality(Checking) + 1
    BY <1>5, OneMoreChecks DEF SpuriousWakeup
  <2>2. Waiting # {} /\ UNCHANGED <<tasks, signals>>
    BY <1>5 DEF SpuriousWakeup, Waiting
  <2>3. QED
    BY <1>1, <1>2, <2>1, <2>2 DEF NoLostWakeup
<1>6. ASSUME NEW w \in Workers, Wait(w) \/ Exit(w) PROVE NoLostWakeup'
  <2>1. Len(tasks') = 0 /\ signals' = signals
    BY <1>6 DEF Wait, Exit
  <2>2. Cardinality(Checking') = Cardinality(Checking) - 1
    BY <1>6, OneFewerChecks DEF Wait, Exit
  <2>3. Cardinality(Checking') \in Nat
    <3>1. Checking' \subseteq Workers
      BY DEF Checking
    <3>2. QED
      BY <3>1, WorkersAssumption, FS_Subset, FS_CardinalityType
  <2>4. QED
    BY <1>1, <2>1, <2>3 DEF NoLostWakeup
<1>7. ASSUME NEW w \in Workers, Pop(w) PROVE NoLostWakeup'
  <2>1. Len(tasks') = Len(tasks) - 1 /\ signals' = signals
    BY <1>1, <1>7 DEF Pop
  <2>2. Cardinality(Checking') = Cardinality(Checking) - 1
    BY <1>7, OneFewerChecks DEF Pop
  <2>3. Waiting' = Waiting
    BY <1>7 DEF Pop, Waiting, PoolTypeOK
  <2>4. QED
    BY <1>1, <1>2, <2>1, <2>2, <2>3 DEF NoLostWakeup
<1>8. ASSUME NEW w \in Workers, Finish(w) PROVE NoLostWakeup'
  <2>1. Cardinality(Checking') = Cardinality(Checking) + 1
    BY <1>8, OneMoreChecks DEF Finish
  <2>2. Waiting' = Waiting /\ UNCHANGED <<tasks, signals>>
    BY <1>8 DEF Finish, Waiting, PoolTypeOK
  <2>3. QED
    BY <1>1, <1>2, <2>1, <2>2 DEF NoLostWakeup
<1>9. CASE NotifyAll
  <2>1. Waiting' = {}
    BY <1>9 DEF NotifyAll, Waiting
  <2>2. QED
    BY <2>1 DEF NoLostWakeup
<1>10. CASE BeginShutdown \/ Join \/ UNCHANGED poolVars
    BY <1>10 DEF BeginShutdown, Join, poolVars, NoLostWakeup, Waiting, Checking
<1>11. QED
    BY <1>3, <1>4, <1>5, <1>6, <1>7, <1>8, <1>9, <1>10
       DEF PoolNext, WorkerStep, Closed

\* No task waits in the queue while a worker that nobody will wake sleeps
\* (submit's notify_one after the unlock, thread_pool.cpp:39-52, against the
\* wait of worker_loop).
THEOREM NoWakeupIsLost == PoolSpec => []NoLostWakeup
<1>1. PoolInit => NoLostWakeup
    BY DEF PoolInit, NoLostWakeup, Waiting
<1>2. PoolInv /\ NoLostWakeup /\ [PoolNext]_poolVars => NoLostWakeup'
    BY WakeupsStayCovered DEF PoolInv
<1>3. QED
    BY <1>1, <1>2, PoolInvariant, PTL DEF PoolSpec

-----------------------------------------------------------------------------
(* Sequences as the sets of their elements.                                 *)

\* Elements of a sequence over S are in S.
LEMMA ElementsAreTyped ==
    ASSUME NEW S, NEW s \in Seq(S)
    PROVE  ToSet(s) \subseteq S
<1>1. \A i \in DOMAIN s : s[i] \in S
    BY LenProperties, ElementOfSeq
<1>2. QED
    BY <1>1 DEF ToSet

\* Appending an element adds it to the set, and keeps a sequence injective when
\* it was not there.
LEMMA AppendedElement ==
    ASSUME NEW S, NEW s \in Seq(S), NEW e \in S
    PROVE  /\ Append(s, e) \in Seq(S)
           /\ ToSet(Append(s, e)) = ToSet(s) \cup {e}
           /\ IsInjective(s) /\ e \notin ToSet(s) => IsInjective(Append(s, e))
<1>1. /\ Append(s, e) \in Seq(S)
      /\ DOMAIN Append(s, e) = 1..(Len(s) + 1) /\ DOMAIN s = 1..Len(s) /\ Len(s) \in Nat
      /\ Append(s, e)[Len(s) + 1] = e
      /\ \A i \in 1..Len(s) : Append(s, e)[i] = s[i]
    BY AppendProperties, LenProperties
<1>2. \A i \in 1..(Len(s) + 1) : i \in 1..Len(s) \/ i = Len(s) + 1
    BY <1>1
<1>3. ToSet(Append(s, e)) = ToSet(s) \cup {e}
    BY <1>1, <1>2 DEF ToSet
<1>4. ASSUME IsInjective(s), e \notin ToSet(s) PROVE IsInjective(Append(s, e))
    BY <1>1, <1>2, <1>4 DEF ToSet, IsInjective
<1>5. QED
    BY <1>1, <1>3, <1>4

\* The same for a concatenation of disjoint sequences.
LEMMA ConcatenatedElements ==
    ASSUME NEW S, NEW s \in Seq(S), NEW t \in Seq(S)
    PROVE  /\ s \o t \in Seq(S)
           /\ ToSet(s \o t) = ToSet(s) \cup ToSet(t)
           /\ IsInjective(s) /\ IsInjective(t) /\ ToSet(s) \cap ToSet(t) = {}
                => IsInjective(s \o t)
<1>1. /\ s \o t \in Seq(S)
      /\ DOMAIN (s \o t) = 1..(Len(s) + Len(t))
      /\ DOMAIN s = 1..Len(s) /\ DOMAIN t = 1..Len(t)
      /\ Len(s) \in Nat /\ Len(t) \in Nat
    BY ConcatProperties, LenProperties
<1>2. \A i \in 1..(Len(s) + Len(t)) :
         (s \o t)[i] = IF i <= Len(s) THEN s[i] ELSE t[i - Len(s)]
    BY ConcatProperties
<1>3. \A i \in 1..Len(s) : i \in DOMAIN (s \o t) /\ (s \o t)[i] = s[i]
    BY <1>1, <1>2
<1>4. \A i \in 1..Len(t) : i + Len(s) \in DOMAIN (s \o t) /\ (s \o t)[i + Len(s)] = t[i]
    BY <1>1, <1>2
<1>5. \A i \in DOMAIN (s \o t) : i \in 1..Len(s) \/ i - Len(s) \in 1..Len(t)
    BY <1>1
<1>6. \A i \in DOMAIN (s \o t) : i \notin 1..Len(s) => (s \o t)[i] = t[i - Len(s)]
    BY <1>1, <1>2
<1>7. ToSet(s \o t) = ToSet(s) \cup ToSet(t)
  <2>1. ToSet(s) \subseteq ToSet(s \o t)
    BY <1>1, <1>3 DEF ToSet
  <2>2. ToSet(t) \subseteq ToSet(s \o t)
    BY <1>1, <1>4 DEF ToSet
  <2>3. ToSet(s \o t) \subseteq ToSet(s) \cup ToSet(t)
    BY <1>1, <1>3, <1>5, <1>6 DEF ToSet
  <2>4. QED
    BY <2>1, <2>2, <2>3
<1>8. ASSUME IsInjective(s), IsInjective(t), ToSet(s) \cap ToSet(t) = {}
      PROVE  IsInjective(s \o t)
  <2>1. SUFFICES ASSUME NEW i \in DOMAIN (s \o t), NEW j \in DOMAIN (s \o t),
                        (s \o t)[i] = (s \o t)[j]
                 PROVE  i = j
    BY DEF IsInjective
  <2>2. CASE i \in 1..Len(s) /\ j \in 1..Len(s)
    BY <1>1, <1>3, <1>8, <2>1, <2>2 DEF IsInjective
  <2>3. CASE i \in 1..Len(s) /\ j \notin 1..Len(s)
    BY <1>1, <1>3, <1>5, <1>6, <1>8, <2>1, <2>3 DEF ToSet
  <2>4. CASE i \notin 1..Len(s) /\ j \in 1..Len(s)
    BY <1>1, <1>3, <1>5, <1>6, <1>8, <2>1, <2>4 DEF ToSet
  <2>5. CASE i \notin 1..Len(s) /\ j \notin 1..Len(s)
    <3>1. i - Len(s) = j - Len(s)
      BY <1>1, <1>5, <1>6, <1>8, <2>1, <2>5 DEF IsInjective
    <3>2. QED
      BY <1>1, <3>1
  <2>6. QED
    BY <2>2, <2>3, <2>4, <2>5
<1>9. QED
    BY <1>1, <1>7, <1>8

\* The empty sequence.
LEMMA NoElements == \A S : <<>> \in Seq(S) /\ ToSet(<<>>) = {} /\ IsInjective(<<>>)
    BY EmptySeq DEF ToSet, IsInjective

-----------------------------------------------------------------------------
(* The pieces of a step.                                                    *)

\* Every step of the service is a step of its pool or leaves the pool alone.
LEMMA StepsOfThePool ==
    ASSUME [Next]_vars
    PROVE  [PoolNext]_poolVars
<1>1. CASE Main
    BY <1>1 DEF Main, ConnectAndSubscribe, LoopTest, FlushTick, Disconnect, ShutDownPool,
                Destroy, PoolNext
<1>2. CASE PoolStep
    BY <1>2 DEF PoolStep, PoolNext, WorkerStep
<1>3. CASE \E w \in Workers : Work(w)
    BY <1>3 DEF Work, TakeTask, Write, Publish, PoolNext, WorkerStep
<1>4. CASE Environment
    BY <1>4 DEF Environment, MessageArrived, MalformedMessage, ConnectionLost,
                AutomaticReconnect, LoseDatabase, Signal, Crash, PoolNext, vars
<1>5. CASE Ended \/ UNCHANGED vars
    BY <1>5 DEF Ended, vars
<1>6. QED
    BY <1>1, <1>2, <1>3, <1>4, <1>5 DEF Next

\* What an INSERT of a batch of new readings does to their places.
LEMMA InsertMovesBatch ==
    ASSUME NEW batch \in Seq(1..MaxTasks), InsertBatch(batch), IsInjective(batch),
           stored \in Seq(1..MaxTasks), failed \subseteq 1..MaxTasks, IsInjective(stored),
           ToSet(stored) \cap failed = {},
           ToSet(batch) \cap (ToSet(stored) \cup failed) = {},
           MaxFaults \in Nat, faults \in 0..MaxFaults
    PROVE  /\ buffer' = <<>>
           /\ stored' \in Seq(1..MaxTasks) /\ failed' \subseteq 1..MaxTasks
           /\ IsInjective(stored') /\ ToSet(stored') \cap failed' = {}
           /\ ToSet(stored') \cup failed' = ToSet(stored) \cup failed \cup ToSet(batch)
           /\ faults' \in 0..MaxFaults
<1>1. ToSet(batch) \subseteq 1..MaxTasks
    BY ElementsAreTyped
<1>2. buffer' = <<>> /\ faults' \in 0..MaxFaults
    BY DEF InsertBatch
<1>3. CASE stored' = stored \o batch /\ UNCHANGED failed
  <2>1. /\ stored' \in Seq(1..MaxTasks)
        /\ ToSet(stored') = ToSet(stored) \cup ToSet(batch)
        /\ IsInjective(stored')
    BY <1>3, ConcatenatedElements
  <2>2. QED
    BY <1>2, <1>3, <2>1
<1>4. CASE failed' = failed \cup ToSet(batch) /\ UNCHANGED stored
    BY <1>1, <1>2, <1>4
<1>5. QED
    BY <1>3, <1>4 DEF InsertBatch

\* A queue of consecutive numbers.
LEMMA ConsecutiveElements ==
    ASSUME NEW S, NEW s \in Seq(S), NEW p \in Nat,
           \A i \in 1..Len(s) : s[i] = p + i
    PROVE  ToSet(s) = (p + 1)..(p + Len(s))
<1>1. DOMAIN s = 1..Len(s) /\ Len(s) \in Nat
    BY LenProperties
<1>2. ToSet(s) \subseteq (p + 1)..(p + Len(s))
    BY <1>1 DEF ToSet
<1>3. ASSUME NEW n \in (p + 1)..(p + Len(s)) PROVE n \in ToSet(s)
  <2>1. n - p \in 1..Len(s) /\ s[n - p] = n
    BY <1>1
  <2>2. QED
    BY <1>1, <2>1 DEF ToSet
<1>4. QED
    BY <1>2, <1>3

-----------------------------------------------------------------------------
(* The invariant, action by action.                                         *)

\* Nothing has happened to any reading.
LEMMA InitialService == Init => IngestionInv
<1> SUFFICES ASSUME Init PROVE IngestionInv
    OBVIOUS
<1> USE WorkersAssumption, TaskAssumption, BatchAssumption, FaultAssumption
<1>1. PoolInv
    BY InitialInvariant DEF Init
<1>2. /\ accepted \in Seq(Message) /\ Len(accepted) = 0
      /\ buffer \in Seq(1..MaxTasks) /\ stored \in Seq(1..MaxTasks)
      /\ produced \in Seq(1..MaxTasks)
    BY EmptySeq DEF Init
<1>3. /\ ToSet(tasks) = {} /\ ToSet(buffer) = {} /\ ToSet(stored) = {} /\ ToSet(produced) = {}
      /\ IsInjective(buffer) /\ IsInjective(stored) /\ IsInjective(produced)
    BY NoElements DEF Init, PoolInit
<1>4. stage \in [Workers -> {"none", "write", "publish"}] /\ StageOfTask
    BY DEF Init, PoolInit, StageOfTask
<1>5. TypeOK
  <2>1. failed \subseteq 1..MaxTasks /\ unproduced \subseteq 1..MaxTasks
    BY DEF Init
  <2>2. main \in MainStates /\ running \in BOOLEAN /\ dbUp \in BOOLEAN
        /\ link \in {"down", "up", "subscribed"}
    BY DEF Init, MainStates
  <2>3. outages \in 0..MaxOutages /\ faults \in 0..MaxFaults
    BY DEF Init
  <2>4. QED
    BY <1>1, <1>2, <1>4, <2>1, <2>2, <2>3 DEF TypeOK, PoolInv
<1>6. submitted = 0 /\ finished = {}
    BY DEF Init, PoolInit
<1>7. Unwritten = {}
    BY <1>3, <1>4 DEF Init, Unwritten
<1>8. Len(buffer) < BatchSize
    BY DEF Init
<1>9. EachReadingHasOnePlace
    BY <1>3, <1>6, <1>7, <1>8 DEF Init, EachReadingHasOnePlace
<1>10. PublishedOnce /\ MainOrder
    BY <1>3, <1>6 DEF Init, PoolInit, PublishedOnce, MainOrder
<1>11. QED
    BY <1>1, <1>2, <1>4, <1>5, <1>6, <1>9, <1>10 DEF IngestionInv

\* Steps of the environment, of main and of idle workers that touch no reading.
LEMMA QuietSteps ==
    ASSUME IngestionInv, PoolInv',
           UNCHANGED <<accepted, stage, buffer, stored, failed, produced, unproduced>>,
           UNCHANGED <<tasks, task, submitted, finished>>,
           /\ main' \in MainStates /\ running' \in BOOLEAN /\ dbUp' \in BOOLEAN
           /\ link' \in {"down", "up", "subscribed"}
           /\ outages' \in 0..MaxOutages /\ faults' \in 0..MaxFaults,
           MainOrder'
    PROVE  IngestionInv'
<1>1. TypeOK'
    BY DEF IngestionInv, TypeOK, PoolInv
<1>2. StageOfTask' /\ PublishedOnce' /\ Len(accepted') = submitted'
    BY DEF IngestionInv, StageOfTask, PublishedOnce
<1>3. Unwritten' = Unwritten
    BY DEF Unwritten
<1>4. EachReadingHasOnePlace'
    BY <1>3 DEF IngestionInv, EachReadingHasOnePlace
<1>5. QED
    BY <1>1, <1>2, <1>4 DEF IngestionInv

\* The MQTT callback adds one reading, which waits in the queue.
LEMMA ArrivalKeeps ==
    ASSUME IngestionInv, PoolInv', NEW m \in Message, MessageArrived(m)
    PROVE  IngestionInv'
<1> USE TaskAssumption
<1>1. submitted' = submitted + 1 /\ submitted \in Nat /\ tasks' = Append(tasks, submitted')
      /\ submitted' \in 1..MaxTasks /\ tasks \in Seq(1..MaxTasks)
      /\ UNCHANGED <<task, finished, closer>>
    BY DEF MessageArrived, Submit, IngestionInv, PoolInv, PoolTypeOK
<1>2. accepted' \in Seq(Message) /\ Len(accepted') = submitted'
    BY <1>1, AppendProperties DEF MessageArrived, IngestionInv, TypeOK
<1>3. TypeOK'
    BY <1>2 DEF MessageArrived, IngestionInv, TypeOK, PoolInv
<1>4. StageOfTask' /\ PublishedOnce' /\ MainOrder'
    BY <1>1 DEF MessageArrived, IngestionInv, StageOfTask, PublishedOnce, MainOrder
<1>5. ToSet(tasks') = ToSet(tasks) \cup {submitted + 1}
    BY <1>1, AppendedElement
<1>6. Unwritten' = Unwritten \cup {submitted + 1}
    BY <1>1, <1>5 DEF Unwritten, MessageArrived
<1>7. 1..submitted' = 1..submitted \cup {submitted + 1} /\ submitted + 1 \notin 1..submitted
    BY <1>1
<1>8. UNCHANGED <<buffer, stored, failed>>
    BY DEF MessageArrived
<1>9. EachReadingHasOnePlace'
    BY <1>6, <1>7, <1>8 DEF IngestionInv, EachReadingHasOnePlace
<1>10. QED
    BY <1>2, <1>3, <1>4, <1>9 DEF IngestionInv

\* A reading moves from the queue to the hands of a worker.
LEMMA TakeKeeps ==
    ASSUME IngestionInv, PoolInv', NEW w \in Workers, TakeTask(w)
    PROVE  IngestionInv'
<1> USE TaskAssumption
<1>1. /\ Popped' = Popped + 1 /\ Popped \in Nat /\ submitted' = submitted /\ submitted \in Nat
      /\ Popped + 1 <= submitted
    <2>1. tasks \in Seq(1..MaxTasks) /\ Len(tasks) >= 1 /\ Len(tasks') = Len(tasks) - 1
      BY DEF TakeTask, Pop, IngestionInv, PoolInv, PoolTypeOK
    <2>2. QED
      BY <2>1 DEF TakeTask, Pop, IngestionInv, PoolInv, PoolTypeOK, QueueIsFifo, Popped
<1>2. task' = [task EXCEPT ![w] = Popped + 1]
  <2>1. tasks \in Seq(1..MaxTasks) /\ tasks # <<>> /\ task' = [task EXCEPT ![w] = Head(tasks)]
    BY DEF TakeTask, Pop, IngestionInv, PoolInv, PoolTypeOK
  <2>2. Head(tasks) = tasks[1] /\ 1 \in 1..Len(tasks)
    BY <2>1
  <2>3. tasks[1] = Popped + 1
    BY <2>2 DEF IngestionInv, PoolInv, QueueIsFifo
  <2>4. QED
    BY <2>1, <2>2, <2>3
<1>3. task[w] = NoTask /\ stage[w] = "none"
    BY DEF TakeTask, Pop, IngestionInv, PoolInv, TasksAreConserved, StageOfTask
<1>4. \A v \in Workers : /\ task'[v] = IF v = w THEN Popped + 1 ELSE task[v]
                         /\ stage'[v] = IF v = w THEN "write" ELSE stage[v]
    BY <1>2 DEF TakeTask, IngestionInv, PoolInv, PoolTypeOK, TypeOK
<1>5. UNCHANGED <<accepted, buffer, stored, failed, produced, unproduced, finished, closer, main>>
    BY DEF TakeTask, Pop
<1>6. StageOfTask' /\ PublishedOnce' /\ MainOrder' /\ Len(accepted') = submitted'
    BY <1>1, <1>4, <1>5 DEF IngestionInv, StageOfTask, PublishedOnce, MainOrder
<1>7. TypeOK'
    BY DEF TakeTask, IngestionInv, TypeOK, PoolInv
<1>8. Unwritten' = Unwritten
  <2>1. ToSet(tasks) = (Popped + 1)..submitted /\ ToSet(tasks') = (Popped + 2)..submitted
    <3>1. /\ tasks \in Seq(1..MaxTasks) /\ tasks' \in Seq(1..MaxTasks)
          /\ \A i \in 1..Len(tasks) : tasks[i] = Popped + i
          /\ \A i \in 1..Len(tasks') : tasks'[i] = Popped' + i
      BY DEF IngestionInv, PoolInv, PoolTypeOK, QueueIsFifo
    <3>2. ToSet(tasks) = (Popped + 1)..(Popped + Len(tasks))
      BY <1>1, <3>1, ConsecutiveElements
    <3>3. ToSet(tasks') = (Popped' + 1)..(Popped' + Len(tasks'))
      <4>1. Popped' \in Nat
        BY <1>1
      <4>2. QED
        BY <3>1, <4>1, ConsecutiveElements
    <3>4. Popped + Len(tasks) = submitted /\ Popped' + Len(tasks') = submitted
      BY <1>1, <3>1 DEF Popped
    <3>5. QED
      BY <1>1, <3>2, <3>3, <3>4
  <2>2. (Popped + 1)..submitted = {Popped + 1} \cup ((Popped + 2)..submitted)
    BY <1>1
  <2>3. {task'[v] : v \in {u \in Workers : stage'[u] = "write"}}
          = {task[v] : v \in {u \in Workers : stage[u] = "write"}} \cup {Popped + 1}
    BY <1>3, <1>4
  <2>4. QED
    BY <2>1, <2>2, <2>3 DEF Unwritten
<1>9. EachReadingHasOnePlace'
    BY <1>1, <1>5, <1>8 DEF IngestionInv, EachReadingHasOnePlace
<1>10. QED
    BY <1>6, <1>7, <1>9 DEF IngestionInv

\* A reading moves from its worker to the buffer, and a full buffer to the
\* table or to the failed ones.
LEMMA WriteKeeps ==
    ASSUME IngestionInv, PoolInv', NEW w \in Workers, Write(w), main # "returned"
    PROVE  IngestionInv'
<1> USE TaskAssumption, BatchAssumption, FaultAssumption
<1> DEFINE full == Append(buffer, task[w])
<1>1. UNCHANGED <<tasks, task, submitted, finished, closer, accepted, produced, unproduced, main>>
    BY DEF Write, poolVars
<1>2. task[w] \in 1..MaxTasks /\ task[w] # NoTask /\ stage[w] = "write" /\ stage[w] # "none"
    BY DEF Write, IngestionInv, PoolInv, PoolTypeOK, TasksAreConserved
<1>3. \A v \in Workers : stage'[v] = IF v = w THEN "publish" ELSE stage[v]
    BY DEF Write, IngestionInv, TypeOK
<1>4. StageOfTask' /\ PublishedOnce' /\ Len(accepted') = submitted'
    BY <1>1, <1>2, <1>3 DEF IngestionInv, StageOfTask, PublishedOnce
<1>5. task[w] \in Unwritten
    BY <1>2 DEF Unwritten
<1>6. Unwritten' = Unwritten \ {task[w]}
  <2>1. task[w] \notin ToSet(tasks)
    <3>1. task[w] \in 1..Popped /\ Popped \in Nat
      BY <1>2 DEF IngestionInv, PoolInv, PoolTypeOK, QueueIsFifo, TasksAreConserved, Popped
    <3>2. ToSet(tasks) = (Popped + 1)..(Popped + Len(tasks))
      BY <3>1, ConsecutiveElements DEF IngestionInv, PoolInv, PoolTypeOK, QueueIsFifo
    <3>3. QED
      BY <3>1, <3>2
  <2>2. \A v \in Workers : task[v] = task[w] => v = w
    BY <1>2 DEF IngestionInv, PoolInv, TasksAreConserved
  <2>3. {task'[v] : v \in {u \in Workers : stage'[u] = "write"}}
          = {task[v] : v \in {u \in Workers : stage[u] = "write"}} \ {task[w]}
    BY <1>1, <1>2, <1>3, <2>2
  <2>4. QED
    BY <1>1, <2>1, <2>3 DEF Unwritten
<1>7. /\ buffer \in Seq(1..MaxTasks) /\ Len(buffer) \in Nat /\ Len(buffer) < BatchSize
      /\ stored \in Seq(1..MaxTasks) /\ failed \subseteq 1..MaxTasks /\ faults \in 0..MaxFaults
    BY DEF IngestionInv, TypeOK, EachReadingHasOnePlace
<1>8. /\ full \in Seq(1..MaxTasks)
      /\ ToSet(full) = ToSet(buffer) \cup {task[w]}
      /\ IsInjective(full) /\ Len(full) = Len(buffer) + 1
  <2>1. task[w] \notin ToSet(buffer)
    BY <1>5 DEF IngestionInv, EachReadingHasOnePlace
  <2>2. IsInjective(buffer)
    BY DEF IngestionInv, EachReadingHasOnePlace
  <2>3. QED
    BY <1>2, <1>7, <2>1, <2>2, AppendedElement, AppendProperties
<1>9. ToSet(full) \cap (ToSet(stored) \cup failed) = {}
    BY <1>5, <1>8 DEF IngestionInv, EachReadingHasOnePlace
<1>10. CASE Len(full) >= BatchSize
  <2>1. InsertBatch(full)
    BY <1>10 DEF Write
  <2>2. /\ buffer' = <<>>
        /\ stored' \in Seq(1..MaxTasks) /\ failed' \subseteq 1..MaxTasks
        /\ IsInjective(stored') /\ ToSet(stored') \cap failed' = {}
        /\ ToSet(stored') \cup failed' = ToSet(stored) \cup failed \cup ToSet(full)
        /\ faults' \in 0..MaxFaults
    <3>1. IsInjective(stored) /\ ToSet(stored) \cap failed = {}
      BY DEF IngestionInv, EachReadingHasOnePlace
    <3> HIDE DEF full
    <3>2. QED
      BY <1>7, <1>8, <1>9, <2>1, <3>1, InsertMovesBatch
  <2>3. buffer' \in Seq(1..MaxTasks) /\ ToSet(buffer') = {} /\ IsInjective(buffer')
        /\ Len(buffer') < BatchSize
    BY <2>2, NoElements
  <2>4. EachReadingHasOnePlace'
    <3> HIDE DEF full
    <3>1. ToSet(stored') \cup failed' = ToSet(stored) \cup failed \cup ToSet(buffer) \cup {task[w]}
      BY <1>8, <2>2
    <3>2. QED
      BY <1>1, <1>5, <1>6, <2>2, <2>3, <3>1 DEF IngestionInv, EachReadingHasOnePlace
  <2>5. TypeOK'
    BY <2>2, <2>3 DEF Write, IngestionInv, TypeOK, PoolInv
  <2>6. MainOrder'
    BY <1>1, <2>2 DEF IngestionInv, MainOrder
  <2>7. QED
    BY <1>4, <2>4, <2>5, <2>6 DEF IngestionInv
<1>11. CASE ~(Len(full) >= BatchSize)
  <2>1. buffer' = full /\ UNCHANGED <<stored, failed, faults>>
    BY <1>11 DEF Write
  <2>2. Len(full) < BatchSize
    BY <1>7, <1>8, <1>11
  <2>3. EachReadingHasOnePlace'
    <3> HIDE DEF full
    <3>1. QED
      BY <1>1, <1>5, <1>6, <1>8, <2>1, <2>2 DEF IngestionInv, EachReadingHasOnePlace
  <2>4. TypeOK'
    <3> HIDE DEF full
    <3>1. QED
      BY <1>8, <2>1 DEF Write, IngestionInv, TypeOK, PoolInv
  <2>5. MainOrder'
    BY <1>1 DEF IngestionInv, MainOrder
  <2>6. QED
    BY <1>4, <2>3, <2>4, <2>5 DEF IngestionInv
<1>12. QED
    BY <1>10, <1>11

\* A task ends when its reading has been handed to the bus.
LEMMA PublishKeeps ==
    ASSUME IngestionInv, PoolInv', NEW w \in Workers, Publish(w)
    PROVE  IngestionInv'
<1> USE TaskAssumption, FaultAssumption
<1>1. UNCHANGED <<tasks, submitted, closer, accepted, buffer, stored, failed, main>>
    BY DEF Publish, Finish
<1>2. task[w] \in 1..MaxTasks /\ task[w] # NoTask /\ stage[w] # "write" /\ task[w] \notin finished
    BY DEF Publish, Finish, IngestionInv, PoolInv, PoolTypeOK, TasksAreConserved
<1>3. \A v \in Workers : /\ stage'[v] = IF v = w THEN "none" ELSE stage[v]
                         /\ task'[v] = IF v = w THEN NoTask ELSE task[v]
    BY DEF Publish, Finish, IngestionInv, TypeOK, PoolInv, PoolTypeOK
<1>4. StageOfTask' /\ Len(accepted') = submitted' /\ MainOrder'
    BY <1>1, <1>3 DEF IngestionInv, StageOfTask, MainOrder
<1>5. finished' = finished \cup {task[w]}
    BY DEF Publish, Finish
<1>6. produced \in Seq(1..MaxTasks) /\ unproduced \subseteq 1..MaxTasks
    BY DEF IngestionInv, TypeOK
<1>7. /\ PublishedOnce'
      /\ produced' \in Seq(1..MaxTasks) /\ unproduced' \subseteq 1..MaxTasks
      /\ faults' \in 0..MaxFaults
  <2>1. finished = ToSet(produced) \cup unproduced /\ ToSet(produced) \cap unproduced = {}
        /\ IsInjective(produced)
    BY DEF IngestionInv, PublishedOnce
  <2>2. CASE produced' = Append(produced, task[w]) /\ unproduced' = unproduced /\ faults' = faults
    <3>1. /\ produced' \in Seq(1..MaxTasks)
          /\ ToSet(produced') = ToSet(produced) \cup {task[w]}
          /\ IsInjective(produced')
      BY <1>2, <1>6, <2>1, <2>2, AppendedElement
    <3>2. QED
      BY <1>2, <1>5, <1>6, <2>1, <2>2, <3>1 DEF PublishedOnce, IngestionInv, TypeOK
  <2>3. CASE /\ faults < MaxFaults /\ faults' = faults + 1
             /\ unproduced' = unproduced \cup {task[w]} /\ produced' = produced
    <3>1. faults \in 0..MaxFaults
      BY DEF IngestionInv, TypeOK
    <3>2. unproduced' \subseteq 1..MaxTasks /\ faults' \in 0..MaxFaults
      <4>1. unproduced' \subseteq 1..MaxTasks
        BY <1>2, <1>6, <2>3
      <4>2. faults' \in 0..MaxFaults
        BY <2>3, <3>1
      <4>3. QED
        BY <4>1, <4>2
    <3>3. PublishedOnce'
      BY <1>2, <1>5, <2>1, <2>3 DEF PublishedOnce
    <3>4. QED
      BY <1>6, <2>3, <3>2, <3>3
  <2>4. (\/ produced' = Append(produced, task[w]) /\ unproduced' = unproduced /\ faults' = faults
         \/ /\ faults < MaxFaults /\ faults' = faults + 1
            /\ unproduced' = unproduced \cup {task[w]} /\ produced' = produced)
    BY DEF Publish, Produce
  <2>5. QED
    BY <2>2, <2>3, <2>4
<1>8. TypeOK'
    BY <1>7 DEF Publish, IngestionInv, TypeOK, PoolInv
<1>9. Unwritten' = Unwritten
    BY <1>1, <1>2, <1>3 DEF Unwritten
<1>10. EachReadingHasOnePlace'
    BY <1>1, <1>9 DEF IngestionInv, EachReadingHasOnePlace
<1>11. QED
    BY <1>4, <1>7, <1>8, <1>10 DEF IngestionInv

\* A flush empties the buffer; what main does around it touches no reading.
LEMMA FlushKeeps ==
    ASSUME IngestionInv, PoolInv', FlushTick \/ Destroy
    PROVE  IngestionInv'
<1> USE TaskAssumption, BatchAssumption, FaultAssumption
<1>1. UNCHANGED <<tasks, task, stage, submitted, finished, closer, accepted, produced, unproduced>>
    BY DEF FlushTick, Destroy, poolVars
<1>2. FlushBuffer
    BY DEF FlushTick, Destroy
<1>3. main' \in MainStates /\ (main' = "check" \/ main' = "returned")
      /\ UNCHANGED <<running, dbUp, link, outages>>
    BY DEF FlushTick, Destroy, MainStates
<1>4. /\ buffer \in Seq(1..MaxTasks) /\ stored \in Seq(1..MaxTasks)
      /\ failed \subseteq 1..MaxTasks /\ faults \in 0..MaxFaults
      /\ IsInjective(buffer) /\ IsInjective(stored) /\ ToSet(stored) \cap failed = {}
      /\ ToSet(buffer) \cap (ToSet(stored) \cup failed) = {}
    BY DEF IngestionInv, TypeOK, EachReadingHasOnePlace
<1>5. /\ buffer' = <<>>
      /\ stored' \in Seq(1..MaxTasks) /\ failed' \subseteq 1..MaxTasks
      /\ IsInjective(stored') /\ ToSet(stored') \cap failed' = {}
      /\ ToSet(stored') \cup failed' = ToSet(stored) \cup failed \cup ToSet(buffer)
      /\ faults' \in 0..MaxFaults
  <2>1. CASE buffer = <<>>
    BY <1>2, <1>4, <2>1, NoElements DEF FlushBuffer
  <2>2. CASE buffer # <<>>
    <3>1. InsertBatch(buffer)
      BY <1>2, <2>2 DEF FlushBuffer
    <3>2. QED
      BY <1>4, <3>1, InsertMovesBatch
  <2>3. QED
    BY <2>1, <2>2
<1>6. /\ buffer' \in Seq(1..MaxTasks) /\ ToSet(buffer') = {} /\ IsInjective(buffer')
      /\ Len(buffer') < BatchSize
    BY <1>5, NoElements
<1>7. Unwritten' = Unwritten
    BY <1>1 DEF Unwritten
<1>8. EachReadingHasOnePlace'
    BY <1>1, <1>5, <1>6, <1>7 DEF IngestionInv, EachReadingHasOnePlace
<1>9. TypeOK'
    BY <1>1, <1>3, <1>5, <1>6 DEF IngestionInv, TypeOK, PoolInv
<1>10. MainOrder'
    BY <1>1, <1>5 DEF FlushTick, Destroy, IngestionInv, MainOrder
<1>11. StageOfTask' /\ PublishedOnce' /\ Len(accepted') = submitted'
    BY <1>1 DEF IngestionInv, StageOfTask, PublishedOnce
<1>12. QED
    BY <1>8, <1>9, <1>10, <1>11 DEF IngestionInv

\* Every other step of main, of the environment and of the idle pool.
LEMMA OtherStepsKeep ==
    ASSUME IngestionInv, PoolInv',
           \/ ConnectAndSubscribe \/ LoopTest \/ Disconnect \/ ShutDownPool
           \/ MalformedMessage \/ ConnectionLost \/ AutomaticReconnect
           \/ LoseDatabase \/ Signal \/ Crash
           \/ PoolStep \/ Ended \/ UNCHANGED vars
    PROVE  IngestionInv'
<1> USE TaskAssumption, FaultAssumption
<1>1. UNCHANGED <<accepted, stage, buffer, stored, failed, produced, unproduced>>
    BY DEF ConnectAndSubscribe, LoopTest, Disconnect, ShutDownPool, MalformedMessage,
           ConnectionLost, AutomaticReconnect, LoseDatabase, Signal, Crash, PoolStep, Ended,
           vars, ownVars
<1>2. UNCHANGED <<tasks, task, submitted, finished>>
    BY DEF ConnectAndSubscribe, LoopTest, Disconnect, ShutDownPool, MalformedMessage,
           ConnectionLost, AutomaticReconnect, LoseDatabase, Signal, Crash, PoolStep, Ended,
           vars, poolVars, BeginShutdown, NotifyAll, Join, NotifyOne, SpuriousWakeup, Wait, Exit
<1>3. main' \in MainStates /\ running' \in BOOLEAN /\ dbUp' \in BOOLEAN
      /\ link' \in {"down", "up", "subscribed"}
    BY DEF ConnectAndSubscribe, LoopTest, Disconnect, ShutDownPool, MalformedMessage,
           ConnectionLost, AutomaticReconnect, LoseDatabase, Signal, Crash, PoolStep, Ended,
           vars, ownVars, MainStates, IngestionInv, TypeOK
<1>4. outages' \in 0..MaxOutages
  <2>1. outages \in 0..MaxOutages
    BY DEF IngestionInv, TypeOK
  <2>2. outages' = outages \/ (outages < MaxOutages /\ outages' = outages + 1)
    BY DEF ConnectAndSubscribe, LoopTest, Disconnect, ShutDownPool, MalformedMessage,
           ConnectionLost, AutomaticReconnect, LoseDatabase, Signal, Crash, PoolStep, Ended,
           vars, ownVars
  <2>3. QED
    BY <2>1, <2>2
<1>5. faults' \in 0..MaxFaults
  <2>1. faults \in 0..MaxFaults
    BY DEF IngestionInv, TypeOK
  <2>2. faults' = faults \/ (faults < MaxFaults /\ faults' = faults + 1)
    BY DEF ConnectAndSubscribe, LoopTest, Disconnect, ShutDownPool, MalformedMessage,
           ConnectionLost, AutomaticReconnect, LoseDatabase, Signal, Crash, PoolStep, Ended,
           vars, ownVars
  <2>3. QED
    BY <2>1, <2>2
<1>6. MainOrder'
  <2>1. MainOrder
    BY DEF IngestionInv
  <2>2. CASE ShutDownPool
    BY <2>2 DEF ShutDownPool, MainOrder
  <2>3. CASE ~ShutDownPool
    <3>1. closer' = closer /\ buffer' = buffer
      BY <1>1, <2>3 DEF ConnectAndSubscribe, LoopTest, Disconnect, MalformedMessage,
             ConnectionLost, AutomaticReconnect, LoseDatabase, Signal, Crash, PoolStep,
             Ended, vars, poolVars, NotifyOne, SpuriousWakeup, Wait, Exit
    <3>2. \/ main' = main \/ main' = "crashed"
          \/ /\ main \in {"connect", "check", "disconnect"}
             /\ main' \in {"check", "sleep", "disconnect", "shutdown"}
      BY <2>3 DEF ConnectAndSubscribe, LoopTest, Disconnect, MalformedMessage,
             ConnectionLost, AutomaticReconnect, LoseDatabase, Signal, Crash, PoolStep,
             Ended, vars, ownVars
    <3>3. QED
      BY <2>1, <3>1, <3>2 DEF MainOrder
  <2>4. QED
    BY <2>2, <2>3
<1>7. QED
    BY <1>1, <1>2, <1>3, <1>4, <1>5, <1>6, QuietSteps

\* No reading is duplicated or forgotten between the MQTT callback and the
\* table, whatever the workers, the flushes and the failures do.
THEOREM IngestionInvariant == Spec => []IngestionInv
<1>1. IngestionInv /\ [Next]_vars => IngestionInv'
  <2> SUFFICES ASSUME IngestionInv, [Next]_vars PROVE IngestionInv'
      OBVIOUS
  <2>1. PoolInv'
    BY StepsOfThePool, InvariantIsInductive DEF IngestionInv
  <2>2. CASE Main
    BY <2>1, <2>2, FlushKeeps, OtherStepsKeep DEF Main
  <2>3. CASE PoolStep \/ Ended \/ UNCHANGED vars
    BY <2>1, <2>3, OtherStepsKeep
  <2>4. ASSUME NEW w \in Workers, Work(w) PROVE IngestionInv'
    BY <2>1, <2>4, TakeKeeps, WriteKeeps, PublishKeeps DEF Work, Alive
  <2>5. CASE Environment
    BY <2>1, <2>5, ArrivalKeeps, OtherStepsKeep DEF Environment
  <2>6. QED
    BY <2>2, <2>3, <2>4, <2>5 DEF Next
<1>2. QED
    BY <1>1, InitialService, PTL DEF Spec

\* A main that returns leaves nothing behind (main.cpp:165-170).
THEOREM MainReturnsDrained == Spec => []ReturnDrains
<1>1. IngestionInv => ReturnDrains
  <2> SUFFICES ASSUME IngestionInv, main = "returned"
               PROVE  /\ 1..submitted = ToSet(stored) \cup failed
                      /\ 1..submitted = ToSet(produced) \cup unproduced
                      /\ IsInjective(produced)
      BY DEF ReturnDrains
  <2>1. closer = "joined" /\ buffer = <<>>
    BY DEF IngestionInv, MainOrder
  <2>2. finished = 1..submitted /\ submitted \in Nat
    BY <2>1 DEF IngestionInv, PoolInv, PoolTypeOK, ShutdownDrains
  <2>3. /\ \A w \in Workers : task[w] = NoTask
        /\ Popped <= submitted
    BY <2>2 DEF IngestionInv, PoolInv, PoolTypeOK, TasksAreConserved, Popped
  <2>4. Popped = submitted
    BY <2>2, <2>3 DEF IngestionInv, PoolInv, PoolTypeOK, TasksAreConserved, QueueIsFifo, Popped
  <2>5. ToSet(tasks) = {}
    BY <2>2, <2>4, NoElements DEF IngestionInv, PoolInv, PoolTypeOK, Popped
  <2>6. Unwritten = {}
    BY <2>3, <2>5 DEF Unwritten, IngestionInv, StageOfTask
  <2>7. ToSet(buffer) = {}
    BY <2>1, NoElements
  <2>8. QED
    BY <2>2, <2>6, <2>7 DEF IngestionInv, EachReadingHasOnePlace, PublishedOnce
<1>2. QED
    BY <1>1, IngestionInvariant, PTL

-----------------------------------------------------------------------------
(* How far readings overtake each other on the bus.                          *)

\* Readings that workers other than w hold are fewer than the workers.
LEMMA HeldByOthers ==
    ASSUME NEW w \in Workers, NEW held,
           \A n \in held : \E v \in Workers \ {w} : task[v] = n
    PROVE  IsFiniteSet(held) /\ Cardinality(held) < Cardinality(Workers)
<1> DEFINE others == Workers \ {w}
           holder == [n \in held |-> CHOOSE v \in others : task[v] = n]
<1>1. \A n \in held : holder[n] \in others /\ task[holder[n]] = n
    OBVIOUS
<1>2. holder \in Injection(held, others)
    BY <1>1 DEF Injection, IsInjective
<1>3. /\ IsFiniteSet(others)
      /\ Cardinality(others) = Cardinality(Workers) - 1
      /\ Cardinality(Workers) \in Nat
    BY WorkersAssumption, FS_RemoveElement, FS_CardinalityType
<1> HIDE DEF others, holder
<1>4. IsFiniteSet(held) /\ Cardinality(held) <= Cardinality(others)
    BY <1>2, <1>3, FS_Injection
<1>5. Cardinality(held) \in Nat
    BY <1>4, FS_CardinalityType
<1> QED
    BY <1>3, <1>4, <1>5

\* The readings that the i-th one on the bus overtook and that may still come.
Overtaken(i) ==
    {n \in 1..(produced[i] - 1) : n \notin {produced[j] : j \in 1..i} \cup unproduced}

LEMMA OvertakenIsWhatIsMissing ==
    ASSUME produced \in Seq(1..MaxTasks), NEW i \in DOMAIN produced
    PROVE  ToSet(SubSeq(produced, 1, i)) = {produced[j] : j \in 1..i}
<1>1. i \in 1..Len(produced) /\ Len(produced) \in Nat
    BY LenProperties
<1>2. \A j \in 1..i : produced[j] \in 1..MaxTasks
  <2>1. \A j \in 1..Len(produced) : produced[j] \in 1..MaxTasks
    BY <1>1, ElementsAreTyped, LenProperties DEF ToSet
  <2> QED
    BY <1>1, <2>1
<1>3. /\ SubSeq(produced, 1, i) \in Seq(1..MaxTasks) /\ Len(SubSeq(produced, 1, i)) = i
      /\ \A j \in 1..i : SubSeq(produced, 1, i)[j] = produced[j]
    BY <1>1, <1>2, SubSeqProperties
<1>4. DOMAIN SubSeq(produced, 1, i) = 1..i
    BY <1>3, LenProperties
<1> QED
    BY <1>3, <1>4 DEF ToSet

OvertakingIsSmall ==
    \A i \in DOMAIN produced :
        IsFiniteSet(Overtaken(i)) /\ Cardinality(Overtaken(i)) < Cardinality(Workers)

LEMMA SmallIsBounded ==
    ASSUME produced \in Seq(1..MaxTasks), OvertakingIsSmall
    PROVE  OvertakingIsBounded
    BY OvertakenIsWhatIsMissing DEF OvertakingIsSmall, OvertakingIsBounded, Overtaken

\* What was overtaken and is not there yet is in the hands of the other workers.
LEMMA PublishOvertakes ==
    ASSUME IngestionInv, OvertakingIsSmall, NEW w \in Workers, Publish(w)
    PROVE  OvertakingIsSmall'
<1> USE TaskAssumption
<1>1. /\ task[w] \in 1..Popped /\ task[w] # NoTask /\ Popped \in Nat
      /\ \A v \in Workers : task'[v] = IF v = w THEN NoTask ELSE task[v]
      /\ \A t \in 1..Popped : t \in finished \/ \E v \in Workers : task[v] = t
      /\ finished = ToSet(produced) \cup unproduced
      /\ produced \in Seq(1..MaxTasks) /\ Len(produced) \in Nat /\ DOMAIN produced = 1..Len(produced)
      /\ task[w] \in 1..MaxTasks
    BY LenProperties DEF Publish, Finish, IngestionInv, PoolInv, PoolTypeOK, TasksAreConserved, QueueIsFifo,
       Popped, TypeOK, PublishedOnce
<1>2. CASE produced' = Append(produced, task[w]) /\ UNCHANGED unproduced
  <2>1. /\ DOMAIN produced' = 1..(Len(produced) + 1)
        /\ produced'[Len(produced) + 1] = task[w]
        /\ \A j \in 1..Len(produced) : produced'[j] = produced[j]
    BY <1>1, <1>2, AppendProperties, LenProperties
  <2>2. ASSUME NEW i \in 1..Len(produced)
        PROVE  IsFiniteSet(Overtaken(i)') /\ Cardinality(Overtaken(i)') < Cardinality(Workers)
    <3>1. Overtaken(i)' = Overtaken(i)
      BY <1>1, <1>2, <2>1 DEF Overtaken
    <3> QED
      BY <1>1, <3>1 DEF OvertakingIsSmall
  <2>3. ASSUME NEW i, i = Len(produced) + 1
        PROVE  IsFiniteSet(Overtaken(i)') /\ Cardinality(Overtaken(i)') < Cardinality(Workers)
    <3>1. ASSUME NEW n \in Overtaken(i)'
          PROVE  \E v \in Workers \ {w} : task[v] = n
      <4>1. n \in 1..(task[w] - 1) /\ n \notin unproduced /\ \A j \in 1..i : n # produced'[j]
        BY <1>2, <2>1, <2>3, <3>1 DEF Overtaken
      <4>2. n \notin ToSet(produced)
        BY <1>1, <2>1, <2>3, <4>1 DEF ToSet
      <4>3. n \in 1..Popped /\ n # task[w]
        BY <1>1, <4>1
      <4> QED
        BY <1>1, <4>1, <4>2, <4>3
    <3> QED
      BY <3>1, HeldByOthers
  <2> QED
    <3>1. \A i \in DOMAIN produced' : i \in 1..Len(produced) \/ i = Len(produced) + 1
      BY <1>1, <2>1
    <3> QED
      BY <2>2, <2>3, <3>1 DEF OvertakingIsSmall
<1>3. CASE UNCHANGED produced /\ unproduced \subseteq unproduced'
  <2>1. ASSUME NEW i \in DOMAIN produced
        PROVE  IsFiniteSet(Overtaken(i)') /\ Cardinality(Overtaken(i)') < Cardinality(Workers)
    <3>1. Overtaken(i)' \in SUBSET Overtaken(i)
      BY <1>3 DEF Overtaken
    <3>2. IsFiniteSet(Overtaken(i)) /\ Cardinality(Overtaken(i)) < Cardinality(Workers)
      BY DEF OvertakingIsSmall
    <3>3. IsFiniteSet(Overtaken(i)') /\ Cardinality(Overtaken(i)') <= Cardinality(Overtaken(i))
      BY <3>1, <3>2, FS_Subset
    <3> QED
      BY <3>2, <3>3, WorkersAssumption, FS_CardinalityType
  <2> QED
    BY <1>3, <2>1 DEF OvertakingIsSmall
<1> QED
    BY <1>2, <1>3 DEF Publish, Produce

\* However the workers interleave, a reading on the bus has overtaken fewer
\* earlier ones than there are workers (thread_pool.cpp:24-31, main.cpp:89-93).
THEOREM OvertakingHasABound == Spec => []OvertakingIsBounded
<1>1. Init => OvertakingIsSmall
    BY DEF Init, OvertakingIsSmall
<1>2. IngestionInv /\ OvertakingIsSmall /\ [Next]_vars => OvertakingIsSmall'
  <2> SUFFICES ASSUME IngestionInv, OvertakingIsSmall, [Next]_vars PROVE OvertakingIsSmall'
      OBVIOUS
  <2>1. CASE UNCHANGED <<produced, unproduced>>
    BY <2>1 DEF OvertakingIsSmall, Overtaken
  <2>2. CASE \E w \in Workers : Publish(w)
    BY <2>2, PublishOvertakes
  <2> QED
    BY <2>1, <2>2 DEF Next, Main, ConnectAndSubscribe, LoopTest, FlushTick, Disconnect, ShutDownPool, Destroy,
       PoolStep, Work, TakeTask, Write, Environment, MessageArrived, MalformedMessage, ConnectionLost,
       AutomaticReconnect, LoseDatabase, Signal, Crash, Ended, vars, ownVars
<1>3. IngestionInv /\ OvertakingIsSmall => OvertakingIsBounded
    BY SmallIsBounded DEF IngestionInv, TypeOK
<1> QED
    BY <1>1, <1>2, <1>3, IngestionInvariant, PTL DEF Spec

-----------------------------------------------------------------------------
(* What a failure costs.                                                     *)

Refused(set) == {n \in set : ~accepted[n].valid}

\* Each statement that failed and each refused reading that was dropped pays
\* for one batch.
LossIsPaid ==
    dbUp => Cardinality(failed) <= BatchSize * (faults + Cardinality(Refused(failed)))

LEMMA ManyIsFinite ==
    ASSUME NEW S \in SUBSET (1..MaxTasks)
    PROVE  IsFiniteSet(S) /\ Cardinality(S) \in Nat
<1>1. IsFiniteSet(1..MaxTasks)
    BY TaskAssumption, FS_Interval
<1>2. IsFiniteSet(S)
    BY <1>1, FS_Subset
<1> QED
    BY <1>2, FS_CardinalityType

LEMMA BatchHasItsSize ==
    ASSUME NEW batch \in Seq(1..MaxTasks)
    PROVE  Cardinality(ToSet(batch)) <= Len(batch)
<1>1. DOMAIN batch = 1..Len(batch) /\ Len(batch) \in Nat
    BY LenProperties
<1>2. batch \in Surjection(1..Len(batch), ToSet(batch))
    BY <1>1 DEF Surjection, ToSet
<1>3. IsFiniteSet(1..Len(batch)) /\ Cardinality(1..Len(batch)) = Len(batch)
    BY <1>1, FS_Interval
<1> QED
    BY <1>2, <1>3, FS_Surjection

LEMMA OneMoreBatch ==
    ASSUME NEW b \in Nat, NEW x \in Nat, NEW y \in Nat, NEW lost \in Nat, NEW more \in Nat,
           lost <= b * x, more <= b, x + 1 <= y
    PROVE  lost + more <= b * y
<1>1. b * y = b * x + b * (y - x)
    OBVIOUS
<1>2. b * (y - x) = b + b * (y - x - 1)
    OBVIOUS
<1>3. b * (y - x - 1) >= 0
  <2> DEFINE z == y - x - 1
  <2>1. z \in Nat
    OBVIOUS
  <2> HIDE DEF z
  <2>2. b * z >= 0
    BY <2>1
  <2> QED
    BY <2>2 DEF z
<1>4. b * x \in Int /\ b * (y - x) \in Int /\ b * (y - x - 1) \in Int
    OBVIOUS
<1> QED
    BY <1>1, <1>2, <1>3, <1>4

LEMMA MoreToPayWith ==
    ASSUME NEW b \in Nat, NEW x \in Nat, NEW y \in Nat, NEW lost \in Nat, lost <= b * x, x <= y
    PROVE  lost <= b * y
<1>1. b * y = b * x + b * (y - x)
    OBVIOUS
<1>2. b * (y - x) >= 0
  <2> DEFINE z == y - x
  <2>1. z \in Nat
    OBVIOUS
  <2> HIDE DEF z
  <2>2. b * z >= 0
    BY <2>1
  <2> QED
    BY <2>2 DEF z
<1>3. b * x \in Int /\ b * (y - x) \in Int
    OBVIOUS
<1> QED
    BY <1>1, <1>2, <1>3

\* A failed INSERT is paid for by its own fault or by a reading it refused,
\* which was in no failed INSERT before.
LEMMA InsertIsPaid ==
    ASSUME IngestionInv, LossIsPaid, NEW batch \in Seq(1..MaxTasks), InsertBatch(batch),
           Len(batch) <= BatchSize, ToSet(batch) \cap failed = {}, UNCHANGED <<accepted, dbUp>>
    PROVE  LossIsPaid'
<1>1. /\ failed \in SUBSET (1..MaxTasks) /\ faults \in Nat /\ faults' \in Nat /\ BatchSize \in Nat
      /\ ToSet(batch) \in SUBSET (1..MaxTasks) /\ Len(batch) \in Nat
  <2>1. failed \in SUBSET (1..MaxTasks) /\ faults \in 0..MaxFaults
    BY DEF IngestionInv, TypeOK
  <2>2. faults' \in {faults, faults + 1}
    BY DEF InsertBatch
  <2>3. ToSet(batch) \in SUBSET (1..MaxTasks) /\ Len(batch) \in Nat
    BY ElementsAreTyped, LenProperties
  <2> QED
    BY <2>1, <2>2, <2>3, BatchAssumption, FaultAssumption
<1>2. CASE UNCHANGED <<failed, faults>>
    BY <1>2 DEF LossIsPaid, Refused
<1>3. CASE /\ failed' = failed \cup ToSet(batch) /\ dbUp
           /\ \/ faults' = faults + 1
              \/ UNCHANGED faults /\ \E i \in DOMAIN batch : ~accepted[batch[i]].valid
  <2>1. /\ failed' \in SUBSET (1..MaxTasks)
        /\ Refused(failed) \in SUBSET (1..MaxTasks) /\ Refused(failed)' \in SUBSET (1..MaxTasks)
        /\ Refused(failed) \in SUBSET Refused(failed)'
    BY <1>1, <1>3 DEF Refused
  <2>2. /\ Cardinality(failed) \in Nat /\ Cardinality(failed') \in Nat /\ Cardinality(ToSet(batch)) \in Nat
        /\ Cardinality(Refused(failed)) \in Nat /\ Cardinality(Refused(failed)') \in Nat
        /\ IsFiniteSet(failed) /\ IsFiniteSet(ToSet(batch)) /\ IsFiniteSet(Refused(failed)')
    BY <1>1, <2>1, ManyIsFinite
  <2>3. Cardinality(failed') <= Cardinality(failed) + Cardinality(ToSet(batch))
    <3>1. Cardinality(failed \cap ToSet(batch)) = 0
      <4>1. failed \cap ToSet(batch) = {}
        OBVIOUS
      <4> QED
        BY <4>1, FS_EmptySet
    <3>2. Cardinality(failed \cup ToSet(batch))
            = Cardinality(failed) + Cardinality(ToSet(batch)) - Cardinality(failed \cap ToSet(batch))
      BY <2>2, FS_Union
    <3> QED
      BY <1>3, <2>2, <3>1, <3>2
  <2>4. Cardinality(ToSet(batch)) <= BatchSize
    BY <1>1, <2>2, BatchHasItsSize
  <2>5. Cardinality(Refused(failed)) <= Cardinality(Refused(failed)')
    BY <2>1, <2>2, FS_Subset
  <2>6. faults + Cardinality(Refused(failed)) + 1 <= faults' + Cardinality(Refused(failed)')
    <3>1. CASE faults' = faults + 1
      BY <1>1, <2>2, <2>5, <3>1
    <3>2. CASE UNCHANGED faults /\ \E i \in DOMAIN batch : ~accepted[batch[i]].valid
      <4>1. PICK n \in ToSet(batch) : ~accepted[n].valid
        BY <3>2 DEF ToSet
      <4>2. n \in Refused(failed)' /\ n \notin Refused(failed)
        BY <1>3, <4>1 DEF Refused
      <4>3. Cardinality(Refused(failed)) # Cardinality(Refused(failed)')
        BY <2>1, <2>2, <4>2, FS_Subset
      <4> QED
        BY <1>1, <2>2, <2>5, <3>2, <4>3
    <3> QED
      BY <1>3, <3>1, <3>2
  <2>7. Cardinality(failed) <= BatchSize * (faults + Cardinality(Refused(failed)))
    BY <1>3 DEF LossIsPaid
  <2> DEFINE x == faults + Cardinality(Refused(failed))
             y == faults' + Cardinality(Refused(failed)')
  <2>8. x \in Nat /\ y \in Nat /\ x + 1 <= y /\ Cardinality(failed) <= BatchSize * x
    BY <1>1, <2>2, <2>6, <2>7
  <2> HIDE DEF x, y
  <2>9. Cardinality(failed) + Cardinality(ToSet(batch)) <= BatchSize * y
    BY <1>1, <2>2, <2>4, <2>8, OneMoreBatch
  <2>10. BatchSize * y \in Int
    BY <1>1, <2>8
  <2>11. Cardinality(failed') <= BatchSize * y
    BY <2>2, <2>3, <2>9, <2>10
  <2> QED
    BY <2>11 DEF LossIsPaid, y
<1>4. CASE ~dbUp
    BY <1>4 DEF LossIsPaid
<1> QED
    BY <1>2, <1>3, <1>4 DEF InsertBatch

\* A fault that loses nothing leaves more to pay with.
LEMMA LaterFaultsPay ==
    ASSUME IngestionInv, LossIsPaid, UNCHANGED <<failed, accepted, dbUp>>, faults' \in {faults, faults + 1}
    PROVE  LossIsPaid'
<1>1. /\ failed \in SUBSET (1..MaxTasks) /\ Refused(failed) \in SUBSET (1..MaxTasks)
      /\ faults \in Nat /\ BatchSize \in Nat
  <2>1. failed \in SUBSET (1..MaxTasks) /\ faults \in 0..MaxFaults
    BY DEF IngestionInv, TypeOK
  <2>2. faults \in Nat /\ BatchSize \in Nat
    BY <2>1, BatchAssumption, FaultAssumption
  <2> QED
    BY <2>1, <2>2 DEF Refused
<1>2. Cardinality(failed) \in Nat /\ Cardinality(Refused(failed)) \in Nat
    BY <1>1, ManyIsFinite
<1>3. Refused(failed)' = Refused(failed)
    BY DEF Refused
<1> DEFINE x == faults + Cardinality(Refused(failed))
           y == faults' + Cardinality(Refused(failed))
<1>4. x \in Nat /\ y \in Nat /\ x <= y
    BY <1>1, <1>2
<1>5. dbUp => Cardinality(failed) <= BatchSize * x
    BY DEF LossIsPaid
<1> HIDE DEF x, y
<1>6. dbUp => Cardinality(failed) <= BatchSize * y
    BY <1>1, <1>2, <1>4, <1>5, MoreToPayWith
<1> QED
    BY <1>3, <1>6 DEF LossIsPaid, y

LEMMA StepIsPaid ==
    ASSUME IngestionInv, LossIsPaid, [Next]_vars
    PROVE  LossIsPaid'
<1>1. /\ buffer \in Seq(1..MaxTasks) /\ Len(buffer) \in Nat /\ Len(buffer) < BatchSize
      /\ failed \subseteq 1..MaxTasks /\ BatchSize \in Nat /\ faults \in Nat
      /\ ToSet(buffer) \cap failed = {}
    BY BatchAssumption, FaultAssumption, LenProperties DEF IngestionInv, TypeOK, EachReadingHasOnePlace
<1>2. CASE FlushTick \/ Destroy
  <2>1. CASE buffer = <<>>
    BY <1>2, <2>1 DEF FlushTick, Destroy, FlushBuffer, LossIsPaid, Refused
  <2>2. CASE buffer # <<>>
    <3>1. InsertBatch(buffer) /\ UNCHANGED <<accepted, dbUp>>
      BY <1>2, <2>2 DEF FlushTick, Destroy, FlushBuffer
    <3> QED
      BY <1>1, <3>1, InsertIsPaid
  <2> QED
    BY <2>1, <2>2
<1>3. ASSUME NEW w \in Workers, Write(w) PROVE LossIsPaid'
  <2> DEFINE full == Append(buffer, task[w])
  <2>1. task[w] \in 1..MaxTasks /\ task[w] \in Unwritten
    BY <1>3, TaskAssumption DEF Write, IngestionInv, PoolInv, PoolTypeOK, TasksAreConserved, Unwritten
  <2>2. task[w] \notin failed /\ task[w] \notin ToSet(buffer)
    BY <2>1 DEF IngestionInv, EachReadingHasOnePlace
  <2>3. /\ full \in Seq(1..MaxTasks) /\ Len(full) <= BatchSize
        /\ ToSet(full) \cap failed = {}
    <3>1. /\ full \in Seq(1..MaxTasks) /\ Len(full) = Len(buffer) + 1
          /\ ToSet(full) = ToSet(buffer) \cup {task[w]}
      BY <1>1, <2>1, <2>2, TaskAssumption, AppendedElement, AppendProperties
    <3> HIDE DEF full
    <3> QED
      BY <1>1, <2>2, <3>1
  <2>4. CASE InsertBatch(full)
    <3>1. UNCHANGED <<accepted, dbUp>>
      BY <1>3 DEF Write
    <3> HIDE DEF full
    <3> QED
      BY <2>3, <2>4, <3>1, InsertIsPaid
  <2>5. CASE UNCHANGED <<stored, failed, faults>>
    BY <1>3, <2>5 DEF Write, LossIsPaid, Refused
  <2> QED
    BY <1>3, <2>4, <2>5 DEF Write
<1>4. ASSUME NEW w \in Workers, Publish(w) PROVE LossIsPaid'
  <2>1. UNCHANGED <<failed, accepted, dbUp>> /\ faults' \in {faults, faults + 1}
    BY <1>4 DEF Publish, Produce
  <2> QED
    BY <1>1, <2>1, LaterFaultsPay
<1>5. ASSUME NEW m \in Message, MessageArrived(m) PROVE LossIsPaid'
  <2>1. \A n \in failed : accepted'[n] = accepted[n]
    <3>1. accepted \in Seq(Message) /\ failed \subseteq 1..submitted /\ Len(accepted) = submitted
      BY DEF IngestionInv, TypeOK, EachReadingHasOnePlace
    <3>2. accepted' = Append(accepted, m)
      BY <1>5 DEF MessageArrived
    <3> QED
      BY <3>1, <3>2, AppendProperties
  <2>2. Refused(failed)' = Refused(failed)
    BY <1>5, <2>1 DEF Refused, MessageArrived
  <2> QED
    BY <1>5, <2>2 DEF LossIsPaid, MessageArrived
<1>6. CASE LoseDatabase
    BY <1>6 DEF LoseDatabase, LossIsPaid
<1>7. CASE UNCHANGED <<failed, faults, accepted, dbUp>>
    BY <1>7 DEF LossIsPaid, Refused
<1> QED
    BY <1>2, <1>3, <1>4, <1>5, <1>6, <1>7 DEF Next, Main, ConnectAndSubscribe, LoopTest, Disconnect,
       ShutDownPool, PoolStep, Work, TakeTask, Environment, MalformedMessage, ConnectionLost,
       AutomaticReconnect, Signal, Crash, Ended, vars, ownVars

\* While the connection lives, one failure costs at most one batch
\* (db_writer.cpp:83-101, 177).
THEOREM LossHasABound == Spec => []LossIsBounded
<1>1. Init => LossIsPaid
  <2> SUFFICES ASSUME Init PROVE LossIsPaid
      OBVIOUS
  <2>1. failed = {} /\ Refused(failed) = {} /\ faults = 0
    BY DEF Init, Refused
  <2> QED
    BY <2>1, BatchAssumption, FS_EmptySet DEF LossIsPaid
<1>2. IngestionInv /\ LossIsPaid /\ [Next]_vars => LossIsPaid'
    BY StepIsPaid
<1>3. IngestionInv /\ LossIsPaid => LossIsBounded
  <2> SUFFICES ASSUME IngestionInv, LossIsPaid, dbUp
               PROVE  Cardinality(failed) <= BatchSize * (faults + Cardinality(Refused(1..submitted)))
      BY DEF LossIsBounded, Refused
  <2>1. /\ failed \in SUBSET (1..MaxTasks) /\ Refused(failed) \in SUBSET (1..MaxTasks)
        /\ Refused(1..submitted) \in SUBSET (1..MaxTasks)
        /\ Refused(failed) \in SUBSET Refused(1..submitted)
        /\ faults \in Nat /\ BatchSize \in Nat
    BY TaskAssumption, BatchAssumption, FaultAssumption DEF IngestionInv, TypeOK, EachReadingHasOnePlace, PoolInv,
       PoolTypeOK, Refused
  <2>2. /\ Cardinality(failed) \in Nat /\ Cardinality(Refused(failed)) \in Nat
        /\ Cardinality(Refused(1..submitted)) \in Nat
        /\ Cardinality(Refused(failed)) <= Cardinality(Refused(1..submitted))
    BY <2>1, ManyIsFinite, FS_Subset
  <2> DEFINE x == faults + Cardinality(Refused(failed))
             y == faults + Cardinality(Refused(1..submitted))
  <2>3. x \in Nat /\ y \in Nat /\ x <= y /\ Cardinality(failed) <= BatchSize * x
    BY <2>1, <2>2 DEF LossIsPaid
  <2> HIDE DEF x, y
  <2>4. Cardinality(failed) <= BatchSize * y
    BY <2>1, <2>2, <2>3, MoreToPayWith
  <2> QED
    BY <2>4 DEF y
<1> QED
    BY <1>1, <1>2, <1>3, IngestionInvariant, PTL DEF Spec

\* The service steps its pool as the pool may step, so no wakeup is lost in it.
THEOREM ServiceLosesNoWakeup == Spec => []NoLostWakeup
<1>1. Init => PoolInit
    BY DEF Init
<1>2. [Next]_vars => [PoolNext]_poolVars
    BY StepsOfThePool
<1> QED
    BY <1>1, <1>2, NoWakeupIsLost, PTL DEF Spec, PoolSpec

-----------------------------------------------------------------------------
(* The refinement.                                                          *)

\* A successful INSERT is the Store of its batch, a failed one its loss.
LEMMA InsertIsAbstract ==
    ASSUME NEW batch \in Seq(1..MaxTasks), InsertBatch(batch), batch # <<>>,
           stored \in Seq(1..MaxTasks), submitted' = submitted,
           ToSet(batch) \subseteq (1..submitted) \ (ToSet(stored) \cup failed)
    PROVE  Table!Next
<1>1. ToSet(batch) # {}
  <2>1. 1 \in DOMAIN batch
    BY LenProperties, EmptySeq
  <2>2. QED
    BY <2>1 DEF ToSet
<1>2. CASE stored' = stored \o batch /\ failed' = failed
  <2>1. ToSet(stored') = ToSet(stored) \cup ToSet(batch)
    BY <1>2, ConcatenatedElements
  <2>2. Table!Store(ToSet(batch))
    BY <1>1, <1>2, <2>1 DEF Table!Store
  <2>3. QED
    BY <2>2 DEF Table!Next
<1>3. CASE failed' = failed \cup ToSet(batch) /\ stored' = stored
  <2>1. Table!Lose(ToSet(batch))
    BY <1>1, <1>3 DEF Table!Lose
  <2>2. QED
    BY <2>1 DEF Table!Next
<1>4. QED
    BY <1>2, <1>3 DEF InsertBatch

\* A write only buffers its reading or inserts the full buffer.
LEMMA WriteIsAbstract ==
    ASSUME IngestionInv, NEW w \in Workers, Write(w)
    PROVE  Table!Next \/ UNCHANGED <<submitted, stored, failed>>
<1> DEFINE full == Append(buffer, task[w])
<1>1. /\ buffer \in Seq(1..MaxTasks) /\ stored \in Seq(1..MaxTasks)
      /\ ToSet(buffer) \cup Unwritten \subseteq (1..submitted) \ (ToSet(stored) \cup failed)
    BY DEF IngestionInv, TypeOK, EachReadingHasOnePlace
<1>2. submitted' = submitted
    BY DEF Write, poolVars
<1>3. task[w] \in 1..MaxTasks /\ task[w] \in Unwritten
    BY DEF Write, Unwritten, IngestionInv, PoolInv, PoolTypeOK, TasksAreConserved
<1>4. full \in Seq(1..MaxTasks) /\ ToSet(full) = ToSet(buffer) \cup {task[w]}
    BY <1>1, <1>3, TaskAssumption, AppendedElement
<1>5. CASE Len(full) >= BatchSize
  <2>1. InsertBatch(full)
    BY <1>5 DEF Write
  <2> HIDE DEF full
  <2>2. full # <<>>
    BY <1>4, NoElements
  <2>3. ToSet(full) \subseteq (1..submitted) \ (ToSet(stored) \cup failed)
    BY <1>1, <1>3, <1>4
  <2>4. QED
    BY <1>1, <1>2, <1>4, <2>1, <2>2, <2>3, InsertIsAbstract
<1>6. CASE ~(Len(full) >= BatchSize)
  <2>1. UNCHANGED <<stored, failed>>
    BY <1>6 DEF Write
  <2>2. QED
    BY <1>2, <2>1
<1>7. QED
    BY <1>5, <1>6

\* The service implements the write-behind store: each reading is accepted
\* once, and stored at most once or lost for good with its batch.
THEOREM IngestionRefinesWriteBehind == Spec => ImplementsWriteBehind
<1> DEFINE abstractVars ==
      <<(1..submitted) \ (ToSet(stored) \cup failed), ToSet(stored), failed>>
<1>1. Init => Table!Init
    BY NoElements DEF Init, PoolInit, Table!Init
<1>2. IngestionInv /\ [Next]_vars => [Table!Next]_abstractVars
  <2> SUFFICES ASSUME IngestionInv, [Next]_vars PROVE [Table!Next]_abstractVars
      OBVIOUS
  <2>1. ASSUME UNCHANGED <<submitted, stored, failed>> PROVE UNCHANGED abstractVars
    BY <2>1
  <2>2. /\ buffer \in Seq(1..MaxTasks) /\ stored \in Seq(1..MaxTasks)
        /\ submitted \in Nat
        /\ ToSet(buffer) \cup Unwritten \subseteq (1..submitted) \ (ToSet(stored) \cup failed)
    BY DEF IngestionInv, PoolInv, PoolTypeOK, TypeOK, EachReadingHasOnePlace
  <2>3. CASE FlushTick \/ Destroy
    <3>1. submitted' = submitted
      BY <2>3 DEF FlushTick, Destroy, poolVars
    <3>2. CASE buffer = <<>>
      <4>1. UNCHANGED <<stored, failed>>
        BY <2>3, <3>2 DEF FlushTick, Destroy, FlushBuffer
      <4>2. QED
        BY <2>1, <3>1, <4>1
    <3>3. CASE buffer # <<>>
      <4>1. InsertBatch(buffer)
        BY <2>3, <3>3 DEF FlushTick, Destroy, FlushBuffer
      <4>2. QED
        BY <2>2, <3>1, <3>3, <4>1, InsertIsAbstract
    <3>4. QED
      BY <3>2, <3>3
  <2>4. ASSUME NEW w \in Workers, Write(w) PROVE [Table!Next]_abstractVars
    BY <2>1, <2>4, WriteIsAbstract
  <2>5. ASSUME NEW m \in Message, MessageArrived(m) PROVE [Table!Next]_abstractVars
    <3>1. submitted' = submitted + 1 /\ submitted' \in 1..MaxTasks
      BY <2>2, <2>5, TaskAssumption DEF MessageArrived, Submit
    <3>2. UNCHANGED <<stored, failed>>
      BY <2>5 DEF MessageArrived
    <3>3. submitted + 1 \notin ToSet(stored) \cup failed
      BY <2>2 DEF IngestionInv, EachReadingHasOnePlace
    <3>4. Table!Accept(submitted + 1)
      BY <2>2, <3>1, <3>2, <3>3 DEF Table!Accept
    <3>5. QED
      BY <3>1, <3>4 DEF Table!Next
  <2>6. CASE \/ ConnectAndSubscribe \/ LoopTest \/ Disconnect \/ ShutDownPool
             \/ MalformedMessage \/ ConnectionLost \/ AutomaticReconnect
             \/ LoseDatabase \/ Signal \/ Crash
             \/ PoolStep \/ Ended \/ UNCHANGED vars
             \/ \E w \in Workers : TakeTask(w) \/ Publish(w)
    <3>1. UNCHANGED <<submitted, stored, failed>>
      BY <2>6 DEF ConnectAndSubscribe, LoopTest, Disconnect, ShutDownPool, MalformedMessage,
             ConnectionLost, AutomaticReconnect, LoseDatabase, Signal, Crash, PoolStep, Ended,
             vars, ownVars, poolVars, BeginShutdown, NotifyAll, Join, NotifyOne,
             SpuriousWakeup, Wait, Exit, TakeTask, Pop, Publish, Finish
    <3>2. QED
      BY <2>1, <3>1
  <2>7. QED
    BY <2>3, <2>4, <2>5, <2>6 DEF Next, Main, Environment, Work
<1>3. QED
    BY <1>1, <1>2, IngestionInvariant, PTL DEF Spec, ImplementsWriteBehind, Table!Spec
=============================================================================
