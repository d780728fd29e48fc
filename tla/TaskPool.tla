------------------------------ MODULE TaskPool ------------------------------
(***************************************************************************)
(* What utils::thread_pool promises its clients, with the locks, condition *)
(* variables and polling of its implementation hidden: a FIFO of tasks, the *)
(* tasks its workers hold, the counter that readers poll without a lock,    *)
(* and the pause and running flags.  ThreadPool is shown to implement this  *)
(* module and ScanEngine is built on it.                                    *)
(***************************************************************************)
EXTENDS Naturals, Sequences, FiniteSets

CONSTANTS
  Task,      \* what clients push (std::function<void()> in the code)
  Worker,    \* the worker threads
  NoTask,    \* a worker's hand when it holds no task
  MaxTasks   \* tasks the memory can hold: beyond it push_task throws bad_alloc

ASSUME WorkerAssumption == IsFiniteSet(Worker) /\ Worker # {}
ASSUME NoTaskAssumption == NoTask \notin Task
ASSUME MaxTasksAssumption == MaxTasks \in Nat

VARIABLES
  tasks,        \* tasks_: pushed and not yet taken
  taking,       \* the worker that has found the pool open and a task queued,
                \* and is about to take it: at most one, it holds the mutex
  hand,         \* the task each worker has taken and not yet counted off
  tasks_total,  \* tasks_total_: the counter get_tasks_count() returns
  paused,       \* paused_
  running       \* running_: FALSE once the destructor stops the workers

vars == <<tasks, taking, hand, tasks_total, paused, running>>

TypeOK ==
  /\ tasks \in Seq(Task)
  /\ taking \subseteq Worker
  /\ hand \in [Worker -> Task \cup {NoTask}]
  /\ tasks_total \in 0 .. MaxTasks
  /\ paused \in BOOLEAN
  /\ running \in BOOLEAN

Init ==
  /\ tasks = <<>>
  /\ taking = {}
  /\ hand = [w \in Worker |-> NoTask]
  /\ tasks_total = 0
  /\ paused = FALSE
  /\ running = TRUE

-----------------------------------------------------------------------------

Busy == {w \in Worker : hand[w] # NoTask}

(* Mutants: the definitions below that they replace in the checks of the    *)
(* properties are Drained, Push and Finish.                                 *)

\* wait_for_tasks looks at the queue only.
DrainedQueueOnly == paused \/ tasks = <<>>

\* push_task goes on when the memory is used up.
PushUnbounded(t) ==
  /\ running
  /\ tasks' = Append(tasks, t)
  /\ tasks_total' = tasks_total + 1
  /\ UNCHANGED <<taking, hand, paused, running>>

\* The worker counts its task off twice.
FinishTwice(w) ==
  /\ hand[w] # NoTask
  /\ hand' = [hand EXCEPT ![w] = NoTask]
  /\ tasks_total' = tasks_total - 2
  /\ UNCHANGED <<tasks, taking, paused, running>>

\* The worker does not count off a task that throws.
FinishUncounted(w) ==
  /\ hand[w] # NoTask
  /\ hand' = [hand EXCEPT ![w] = NoTask]
  /\ UNCHANGED <<tasks, taking, tasks_total, paused, running>>

-----------------------------------------------------------------------------

\* The condition wait_for_tasks waits for: nothing is left but, in a paused
\* pool, the queue.
Drained == tasks_total = IF paused THEN Len(tasks) ELSE 0

Push(t) ==
  /\ running
  /\ tasks_total < MaxTasks
  /\ tasks' = Append(tasks, t)
  /\ tasks_total' = tasks_total + 1
  /\ UNCHANGED <<taking, hand, paused, running>>

\* An idle worker finds the pool open and a task queued ...
Look(w) ==
  /\ running /\ ~paused
  /\ hand[w] = NoTask
  /\ tasks # <<>>
  /\ taking = {} /\ taking' = {w}
  /\ UNCHANGED <<tasks, hand, tasks_total, paused, running>>

\* ... and takes the first.  The pool may have been paused in between.  (The
\* mutex keeps Push and Finish out of this gap; no promise below needs that.)
Take(w) ==
  /\ w \in taking /\ taking' = {}
  /\ hand' = [hand EXCEPT ![w] = Head(tasks)]
  /\ tasks' = Tail(tasks)
  /\ UNCHANGED <<tasks_total, paused, running>>

\* The task has returned, or thrown an exception the worker catches.
Finish(w) ==
  /\ hand[w] # NoTask
  /\ hand' = [hand EXCEPT ![w] = NoTask]
  /\ tasks_total' = tasks_total - 1
  /\ UNCHANGED <<tasks, taking, paused, running>>

Pause ==
  /\ running
  /\ paused' = TRUE
  /\ UNCHANGED <<tasks, taking, hand, tasks_total, running>>

Unpause ==
  /\ running
  /\ paused' = FALSE
  /\ UNCHANGED <<tasks, taking, hand, tasks_total, running>>

\* The destructor: it waits for Drained, which it reads under the mutex, then
\* stops the workers.
Shutdown ==
  /\ running
  /\ taking = {} /\ Drained
  /\ running' = FALSE
  /\ UNCHANGED <<tasks, taking, hand, tasks_total, paused>>

Next ==
  \/ \E t \in Task : Push(t)
  \/ \E w \in Worker : Look(w)
  \/ \E w \in Worker : Take(w)
  \/ \E w \in Worker : Finish(w)
  \/ Pause
  \/ Unpause
  \/ Shutdown

Spec == Init /\ [][Next]_vars

\* A worker that can take a task, and a task that runs, are not held up for
\* ever: tasks terminate and idle workers poll.
Fairness ==
  /\ WF_vars(\E w \in Worker : Look(w))
  /\ WF_vars(\E w \in Worker : Take(w))
  /\ \A w \in Worker : WF_vars(Finish(w))

FairSpec == Spec /\ Fairness

-----------------------------------------------------------------------------

\* The counter that get_tasks_count(), and through it is_scan_over(), reads
\* without the lock is exactly the number of tasks queued or in a worker's
\* hand: it is 0 only when there is no work anywhere, and the difference
\* get_tasks_running() computes never wraps below 0.
CountExact == tasks_total = Len(tasks) + Cardinality(Busy)

\* Once the destructor has stopped the workers no task is half done, and a
\* pool that was not paused has left no task behind.
QuietAfterShutdown ==
  ~running => Busy = {} /\ (paused \/ tasks = <<>>)
=============================================================================
