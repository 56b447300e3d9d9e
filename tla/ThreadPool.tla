----------------------------- MODULE ThreadPool -----------------------------
(***************************************************************************)
(* The worker pool of the ingestion service (ingestion/src/thread_pool.cpp)*)
(* with its mutex and condition variable.  What runs under the mutex is    *)
(* one step; what the code does after releasing it (notify_one, notify_all,*)
(* the task itself, join) is a step of its own.  Tasks are numbered in the *)
(* order submit accepts them.                                              *)
(***************************************************************************)
EXTENDS Integers, Sequences, FiniteSets

CONSTANTS
    Workers,     \* the threads of the pool
    NoTask,      \* a worker without a task
    MaxTasks     \* bound: tasks submitted

ASSUME WorkersAssumption == IsFiniteSet(Workers) /\ Workers # {}
ASSUME TaskAssumption == NoTask \notin Nat /\ MaxTasks \in Nat

VARIABLES
    tasks,       \* tasks_
    shutdown,    \* shutdown_
    at,          \* at[w]: where in worker_loop w is
    task,        \* task[w]: the task w has popped
    signals,     \* calls of submit that have not reached notify_one
    closer,      \* where in shutdown() the thread that closes the pool is
    submitted,   \* tasks accepted so far
    finished     \* tasks that have run

poolVars == <<tasks, shutdown, at, task, signals, closer, submitted, finished>>

\* "check": evaluates the predicate of the wait, holding the mutex.
WorkerStates == {"check", "waiting", "running", "exited"}
CloserStates == {"open", "notify", "join", "joined"}

PoolInit ==
    /\ tasks = <<>>
    /\ shutdown = FALSE
    /\ at = [w \in Workers |-> "check"]
    /\ task = [w \in Workers |-> NoTask]
    /\ signals = 0
    /\ closer = "open"
    /\ submitted = 0
    /\ finished = {}

-----------------------------------------------------------------------------
Waiting == {w \in Workers : at[w] = "waiting"}

Submit ==
    /\ ~shutdown
    /\ submitted < MaxTasks
    /\ submitted' = submitted + 1
    /\ tasks' = Append(tasks, submitted')
    /\ signals' = signals + 1
    /\ UNCHANGED <<shutdown, at, task, closer, finished>>

\* Mutant: the notification is sent only when no task was queued before.
NotifyIfFirst ==
    /\ signals > 0
    /\ signals' = signals - 1
    /\ \/ /\ Len(tasks) = 1
          /\ \E w \in Waiting : at' = [at EXCEPT ![w] = "check"]
       \/ (Waiting = {} \/ Len(tasks) # 1) /\ UNCHANGED at
    /\ UNCHANGED <<tasks, shutdown, task, closer, submitted, finished>>

NotifyOne ==
    /\ signals > 0
    /\ signals' = signals - 1
    /\ \/ \E w \in Waiting : at' = [at EXCEPT ![w] = "check"]
       \/ Waiting = {} /\ UNCHANGED at
    /\ UNCHANGED <<tasks, shutdown, task, closer, submitted, finished>>

\* cv_.wait may return without a notification; the predicate is tested again.
SpuriousWakeup(w) ==
    /\ at[w] = "waiting"
    /\ at' = [at EXCEPT ![w] = "check"]
    /\ UNCHANGED <<tasks, shutdown, task, signals, closer, submitted, finished>>

\* The predicate is false: the mutex is released and the thread sleeps.
Wait(w) ==
    /\ at[w] = "check"
    /\ ~shutdown /\ tasks = <<>>
    /\ at' = [at EXCEPT ![w] = "waiting"]
    /\ UNCHANGED <<tasks, shutdown, task, signals, closer, submitted, finished>>

\* Mutant: the queue is a stack.
PopNewest(w) ==
    /\ at[w] = "check"
    /\ tasks # <<>>
    /\ task' = [task EXCEPT ![w] = tasks[Len(tasks)]]
    /\ tasks' = SubSeq(tasks, 1, Len(tasks) - 1)
    /\ at' = [at EXCEPT ![w] = "running"]
    /\ UNCHANGED <<shutdown, signals, closer, submitted, finished>>

Pop(w) ==
    /\ at[w] = "check"
    /\ tasks # <<>>
    /\ task' = [task EXCEPT ![w] = Head(tasks)]
    /\ tasks' = Tail(tasks)
    /\ at' = [at EXCEPT ![w] = "running"]
    /\ UNCHANGED <<shutdown, signals, closer, submitted, finished>>

Exit(w) ==
    /\ at[w] = "check"
    /\ shutdown /\ tasks = <<>>
    /\ at' = [at EXCEPT ![w] = "exited"]
    /\ UNCHANGED <<tasks, shutdown, task, signals, closer, submitted, finished>>

\* The task returns, or throws into its promise: the loop goes on either way.
Finish(w) ==
    /\ at[w] = "running"
    /\ finished' = finished \cup {task[w]}
    /\ task' = [task EXCEPT ![w] = NoTask]
    /\ at' = [at EXCEPT ![w] = "check"]
    /\ UNCHANGED <<tasks, shutdown, signals, closer, submitted>>

-----------------------------------------------------------------------------
(* shutdown(): a second call, from the destructor, returns at its test.     *)

BeginShutdown ==
    /\ closer = "open"
    /\ shutdown' = TRUE
    /\ closer' = "notify"
    /\ UNCHANGED <<tasks, at, task, signals, submitted, finished>>

\* Mutant: one thread is notified of the shutdown.
NotifyAllReachesOne ==
    /\ closer = "notify"
    /\ closer' = "join"
    /\ \/ \E w \in Waiting : at' = [at EXCEPT ![w] = "check"]
       \/ Waiting = {} /\ UNCHANGED at
    /\ UNCHANGED <<tasks, shutdown, task, signals, submitted, finished>>

NotifyAll ==
    /\ closer = "notify"
    /\ closer' = "join"
    /\ at' = [w \in Workers |-> IF at[w] = "waiting" THEN "check" ELSE at[w]]
    /\ UNCHANGED <<tasks, shutdown, task, signals, submitted, finished>>

Join ==
    /\ closer = "join"
    /\ \A w \in Workers : at[w] = "exited"
    /\ closer' = "joined"
    /\ UNCHANGED <<tasks, shutdown, at, task, signals, submitted, finished>>

-----------------------------------------------------------------------------
WorkerStep(w) == Wait(w) \/ Pop(w) \/ Exit(w) \/ Finish(w)

\* Every thread has returned: the program may stop here.
Closed == closer = "joined" /\ UNCHANGED poolVars

PoolNext ==
    \/ Submit \/ NotifyOne
    \/ \E w \in Workers : SpuriousWakeup(w) \/ WorkerStep(w)
    \/ BeginShutdown \/ NotifyAll \/ Join
    \/ Closed

PoolSpec == PoolInit /\ [][PoolNext]_poolVars

-----------------------------------------------------------------------------
(* What the pool promises.                                                  *)

PoolTypeOK ==
    /\ tasks \in Seq(1..MaxTasks)
    /\ shutdown \in BOOLEAN
    /\ at \in [Workers -> WorkerStates]
    /\ task \in [Workers -> (1..MaxTasks) \cup {NoTask}]
    /\ signals \in Nat
    /\ closer \in CloserStates
    /\ submitted \in 0..MaxTasks
    /\ finished \subseteq 1..MaxTasks

\* Number of tasks that have left the queue.
Popped == submitted - Len(tasks)

\* The queue holds the newest tasks in the order of their submission: no task
\* overtakes another one in the queue and none is there twice.
QueueIsFifo == Popped >= 0 /\ \A i \in 1..Len(tasks) : tasks[i] = Popped + i

\* A task that left the queue is in the hands of one worker or has run, and
\* never both; no two workers hold the same one (thread_pool.cpp:24-31).
TasksAreConserved ==
    /\ \A w \in Workers : (at[w] = "running") = (task[w] # NoTask)
    /\ \A w \in Workers : task[w] # NoTask =>
          /\ task[w] \in 1..Popped \ finished
          /\ \A v \in Workers : task[v] = task[w] => v = w
    /\ \A t \in 1..Popped : t \in finished \/ \E w \in Workers : task[w] = t
    /\ finished \subseteq 1..Popped

\* shutdown() returns only when every accepted task has run
\* (tests/ingestion/test_thread_pool.cpp ShutdownDrainsQueue, for any
\* interleaving of the workers, the submitters and the notifications).
ShutdownDrains == closer = "joined" => finished = 1..submitted

\* No wakeup is lost: while a worker sleeps, the queued tasks are covered by
\* workers about to look at the queue or by notifications about to be sent
\* (submit notifies after it released the mutex).
Checking == {w \in Workers : at[w] = "check"}
NoLostWakeup ==
    Waiting # {} => Len(tasks) <= signals + Cardinality(Checking)

\* Once shutdown() is joining, nobody sleeps any more and nothing is accepted.
JoinWaitsForNoSleeper ==
    /\ closer \in {"join", "joined"} => Waiting = {}
    /\ shutdown = (closer # "open")
    /\ \A w \in Workers : at[w] = "exited" => shutdown /\ tasks = <<>>

PoolInv ==
    /\ PoolTypeOK
    /\ QueueIsFifo
    /\ TasksAreConserved
    /\ JoinWaitsForNoSleeper
    /\ ShutdownDrains
=============================================================================
