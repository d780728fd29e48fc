----------------------------- MODULE ThreadPool -----------------------------
(***************************************************************************)
(* utils::thread_pool (src/Linux/utils/thread_pool.hpp) at the grain of its *)
(* mutex, its two condition variables and its atomics.                     *)
(*                                                                         *)
(* The owner is the thread that made the pool: it pushes, waits and runs   *)
(* the destructor.  A task may push further tasks, and another thread may  *)
(* pause and unpause.  A step is one access to an atomic, or one stretch   *)
(* under tasks_mutex_ with at most one access to an atomic that a thread   *)
(* outside the mutex reads or writes.                                      *)
(***************************************************************************)
EXTENDS Naturals, Sequences, FiniteSets

CONSTANTS
  ThreadHint,           \* the constructor's thread_count
  HardwareConcurrency,  \* std::thread::hardware_concurrency(), 0 if unknown
  MaxTasks,             \* bound: tasks pushed in the life of the pool
  NoTask,               \* a worker's hand when it holds no task
  NoThread              \* the holder of a mutex nobody holds

ASSUME HintAssumption == ThreadHint \in Nat /\ HardwareConcurrency \in Nat
ASSUME BoundAssumption == MaxTasks \in Nat
ASSUME NullAssumption == NoTask \notin Nat /\ NoThread \notin Nat

DEFAULT_THREAD_COUNT == 3

determine_thread_count(t_count, hardware) ==
  LET wanted == IF t_count = 0 THEN DEFAULT_THREAD_COUNT ELSE t_count
  IN  IF hardware = 0 THEN 1
      ELSE IF wanted > hardware THEN hardware ELSE wanted

Task   == 1 .. MaxTasks   \* tasks are numbered in the order they are pushed
Worker == 1 .. determine_thread_count(ThreadHint, HardwareConcurrency)
Owner  == 0
Thread == Worker \cup {Owner}

VARIABLES
  running, waiting, paused,  \* the three atomic flags
  mutex,                     \* the thread that holds tasks_mutex_
  tasks,                     \* tasks_
  tasks_total,               \* tasks_total_
  hand,                      \* each worker's local variable task
  pc,                        \* where each thread is
  closing,                   \* is the owner in the destructor?
  pushed,                    \* history: how many tasks have been pushed
  ended                      \* history: the tasks that have returned

flags == <<running, waiting, paused>>
vars  == <<running, waiting, paused, mutex, tasks, tasks_total, hand, pc,
           closing, pushed, ended>>

(***************************************************************************)
(* A worker's places, in the order of worker(); "notify" is the end of a   *)
(* push_task that its task calls.                                          *)
(***************************************************************************)
WorkerAt == {"while", "lock", "check", "pred", "block", "asleep", "woken",
             "look", "take", "task", "notify", "count", "signal", "exited"}

\* The owner's places: free to call, in push_task, in wait_for_tasks and in
\* destroy_threads.
OwnerAt == {"free", "notify", "wait lock", "wait pred", "wait block",
            "wait asleep", "wait woken", "stop", "notify all", "join", "gone"}

TypeOK ==
  /\ running \in BOOLEAN /\ waiting \in BOOLEAN /\ paused \in BOOLEAN
  /\ mutex \in Thread \cup {NoThread}
  /\ tasks \in Seq(Task)
  /\ tasks_total \in 0 .. MaxTasks
  /\ hand \in [Worker -> Task \cup {NoTask}]
  /\ pc \in [Thread -> WorkerAt \cup OwnerAt]
  /\ \A w \in Worker : pc[w] \in WorkerAt
  /\ pc[Owner] \in OwnerAt
  /\ closing \in BOOLEAN
  /\ pushed \in 0 .. MaxTasks
  /\ ended \in SUBSET Task

\* The constructor: running_ is set before the first worker starts.
Init ==
  /\ running = TRUE /\ waiting = FALSE /\ paused = FALSE
  /\ mutex = NoThread
  /\ tasks = <<>>
  /\ tasks_total = 0
  /\ hand = [w \in Worker |-> NoTask]
  /\ pc = [t \in Thread |-> IF t = Owner THEN "free" ELSE "while"]
  /\ closing = FALSE
  /\ pushed = 0
  /\ ended = {}

-----------------------------------------------------------------------------
(* Locking and signalling. *)

Goto(t, from, to) == pc[t] = from /\ pc' = [pc EXCEPT ![t] = to]

Lock(t) == mutex = NoThread /\ mutex' = t
Unlock  == mutex' = NoThread

\* The threads asleep on task_available_cv_.
Asleep == {w \in Worker : pc[w] = "asleep"}

\* t moves on and wakes one of the sleepers on task_available_cv_, if any.
GotoNotifying(t, from, to) ==
  /\ pc[t] = from
  /\ \/ Asleep = {} /\ pc' = [pc EXCEPT ![t] = to]
     \/ \E w \in Asleep : pc' = [pc EXCEPT ![t] = to, ![w] = "woken"]

-----------------------------------------------------------------------------
(* Mutants: what the checks of the properties replace WorkerTimeout,         *)
(* WorkerLook, WorkerTake, WorkerCount, wait_for_tasks and AllDone by.       *)

\* wait instead of wait_until, as in the line the code has commented out.
NoTimeout(w) == FALSE

\* break instead of continue when the queue is empty.
LookOrExit(w) ==
  /\ \/ running /\ ~paused /\ tasks # <<>> /\ Goto(w, "look", "take") /\ UNCHANGED mutex
     \/ ~(running /\ ~paused /\ tasks # <<>>) /\ Goto(w, "look", "exited") /\ Unlock
  /\ UNCHANGED <<flags, tasks, tasks_total, hand, closing, pushed, ended>>

\* The newest task is taken first.
TakeNewest(w) ==
  /\ Goto(w, "take", "task")
  /\ Unlock
  /\ hand' = [hand EXCEPT ![w] = tasks[Len(tasks)]]
  /\ tasks' = SubSeq(tasks, 1, Len(tasks) - 1)
  /\ UNCHANGED <<flags, tasks_total, closing, pushed, ended>>

\* The counter is decremented twice.
CountTwice(w) ==
  /\ Goto(w, "count", "signal")
  /\ Lock(w)
  /\ tasks_total' = tasks_total - 2
  /\ hand' = [hand EXCEPT ![w] = NoTask]
  /\ UNCHANGED <<flags, tasks, closing, pushed, ended>>

\* waiting_ is not set.
wait_unannounced ==
  /\ Goto(Owner, "free", "wait lock")
  /\ closing' \in BOOLEAN
  /\ UNCHANGED <<flags, mutex, tasks, tasks_total, hand, pushed, ended>>

\* The tasks that run are not waited for.
QueueDone == paused \/ tasks = <<>>

-----------------------------------------------------------------------------
(* push_task: the queue and the counter change under the mutex, notify_one *)
(* is called after it is released.                                         *)

push_task(t) ==
  /\ \/ t = Owner /\ Goto(t, "free", "notify")
     \/ t \in Worker /\ Goto(t, "task", "notify")
  /\ mutex = NoThread
  /\ pushed < MaxTasks
  /\ pushed' = pushed + 1
  /\ tasks' = Append(tasks, pushed + 1)
  /\ tasks_total' = tasks_total + 1
  /\ UNCHANGED <<flags, mutex, hand, closing, ended>>

PushNotify(t) ==
  /\ GotoNotifying(t, "notify", IF t = Owner THEN "free" ELSE "task")
  /\ UNCHANGED <<flags, mutex, tasks, tasks_total, hand, closing, pushed,
                 ended>>

-----------------------------------------------------------------------------
(* pause and unpause: one store each, made by any thread before the         *)
(* destructor starts.  Neither of them notifies anyone.                     *)

pause ==
  /\ ~closing
  /\ paused' = TRUE
  /\ UNCHANGED <<running, waiting, mutex, tasks, tasks_total, hand, pc,
                 closing, pushed, ended>>

unpause ==
  /\ ~closing
  /\ paused' = FALSE
  /\ UNCHANGED <<running, waiting, mutex, tasks, tasks_total, hand, pc,
                 closing, pushed, ended>>

-----------------------------------------------------------------------------
(* worker(): the loop of a pool thread.                                     *)

\* while(running_)
WorkerLoop(w) ==
  /\ Goto(w, "while", IF running THEN "lock" ELSE "exited")
  /\ UNCHANGED <<flags, mutex, tasks, tasks_total, hand, closing, pushed,
                 ended>>

WorkerLock(w) ==
  /\ Goto(w, "lock", "check")
  /\ Lock(w)
  /\ UNCHANGED <<flags, tasks, tasks_total, hand, closing, pushed, ended>>

\* if(!running_) break, which releases the mutex.
WorkerCheck(w) ==
  /\ \/ running /\ Goto(w, "check", "pred") /\ UNCHANGED mutex
     \/ ~running /\ Goto(w, "check", "exited") /\ Unlock
  /\ UNCHANGED <<flags, tasks, tasks_total, hand, closing, pushed, ended>>

\* The predicate of wait_until, evaluated under the mutex ...
WorkerPred(w) ==
  /\ Goto(w, "pred", IF tasks # <<>> \/ ~running THEN "look" ELSE "block")
  /\ UNCHANGED <<flags, mutex, tasks, tasks_total, hand, closing, pushed,
                 ended>>

\* ... and, it being false, the mutex is released and the worker goes to
\* sleep in one step.  running_ may have changed in between.
WorkerBlock(w) ==
  /\ Goto(w, "block", "asleep")
  /\ Unlock
  /\ UNCHANGED <<flags, tasks, tasks_total, hand, closing, pushed, ended>>

\* Woken by a notification: the mutex is taken back, the predicate read again.
WorkerWake(w) ==
  /\ Goto(w, "woken", "pred")
  /\ Lock(w)
  /\ UNCHANGED <<flags, tasks, tasks_total, hand, closing, pushed, ended>>

\* 50ms have passed: wait_until returns, and its result is not looked at.
WorkerTimeout(w) ==
  /\ Goto(w, "asleep", "look")
  /\ Lock(w)
  /\ UNCHANGED <<flags, tasks, tasks_total, hand, closing, pushed, ended>>

\* if(running_ && !paused_) if(tasks_.empty()) continue: a task is to be taken,
\* or the mutex is released and the loop goes round.  running_ and paused_ are
\* read in one step: nobody pauses after the destructor has cleared running_.
WorkerLook(w) ==
  /\ \/ running /\ ~paused /\ tasks # <<>> /\ Goto(w, "look", "take") /\ UNCHANGED mutex
     \/ ~(running /\ ~paused /\ tasks # <<>>) /\ Goto(w, "look", "while") /\ Unlock
  /\ UNCHANGED <<flags, tasks, tasks_total, hand, closing, pushed, ended>>

\* The front of the queue is popped, whatever pause() has done since the look,
\* and the mutex released.
WorkerTake(w) ==
  /\ Goto(w, "take", "task")
  /\ Unlock
  /\ hand' = [hand EXCEPT ![w] = Head(tasks)]
  /\ tasks' = Tail(tasks)
  /\ UNCHANGED <<flags, tasks_total, closing, pushed, ended>>

\* task() returns, or throws a std::exception that is caught and printed.
TaskEnds(w) ==
  /\ Goto(w, "task", "count")
  /\ ended' = ended \cup {hand[w]}
  /\ UNCHANGED <<flags, mutex, tasks, tasks_total, hand, closing, pushed>>

\* tasks_lock.lock(); --tasks_total_
WorkerCount(w) ==
  /\ Goto(w, "count", "signal")
  /\ Lock(w)
  /\ tasks_total' = tasks_total - 1
  /\ hand' = [hand EXCEPT ![w] = NoTask]
  /\ UNCHANGED <<flags, tasks, closing, pushed, ended>>

\* if(waiting_) task_done_cv_.notify_one(), then the mutex is released.
WorkerSignal(w) ==
  /\ pc[w] = "signal"
  /\ IF waiting /\ pc[Owner] = "wait asleep"
     THEN pc' = [pc EXCEPT ![w] = "while", ![Owner] = "wait woken"]
     ELSE pc' = [pc EXCEPT ![w] = "while"]
  /\ Unlock
  /\ UNCHANGED <<flags, tasks, tasks_total, hand, closing, pushed, ended>>

-----------------------------------------------------------------------------
(* wait_for_tasks(), called on its own or as the first act of the           *)
(* destructor.                                                              *)

wait_for_tasks ==
  /\ Goto(Owner, "free", "wait lock")
  /\ waiting' = TRUE
  /\ closing' \in BOOLEAN
  /\ UNCHANGED <<running, paused, mutex, tasks, tasks_total, hand, pushed,
                 ended>>

WaitLock ==
  /\ Goto(Owner, "wait lock", "wait pred")
  /\ Lock(Owner)
  /\ UNCHANGED <<flags, tasks, tasks_total, hand, closing, pushed, ended>>

\* The predicate of task_done_cv_.wait.
AllDone == tasks_total = IF paused THEN Len(tasks) ELSE 0

WaitPred ==
  /\ \/ /\ AllDone
        /\ Goto(Owner, "wait pred", IF closing THEN "stop" ELSE "free")
        /\ waiting' = FALSE
        /\ Unlock
     \/ /\ ~AllDone
        /\ Goto(Owner, "wait pred", "wait block")
        /\ UNCHANGED <<waiting, mutex>>
  /\ UNCHANGED <<running, paused, tasks, tasks_total, hand, closing, pushed,
                 ended>>

WaitBlock ==
  /\ Goto(Owner, "wait block", "wait asleep")
  /\ Unlock
  /\ UNCHANGED <<flags, tasks, tasks_total, hand, closing, pushed, ended>>

WaitWake ==
  /\ Goto(Owner, "wait woken", "wait pred")
  /\ Lock(Owner)
  /\ UNCHANGED <<flags, tasks, tasks_total, hand, closing, pushed, ended>>

\* A condition variable may wake a thread that nobody notified.
SpuriousWake(t) ==
  /\ \/ t = Owner /\ Goto(t, "wait asleep", "wait woken")
     \/ t \in Worker /\ Goto(t, "asleep", "woken")
  /\ UNCHANGED <<flags, mutex, tasks, tasks_total, hand, closing, pushed,
                 ended>>

-----------------------------------------------------------------------------
(* destroy_threads(): running_ is cleared without the mutex.                *)

ClearRunning ==
  /\ Goto(Owner, "stop", "notify all")
  /\ running' = FALSE
  /\ UNCHANGED <<waiting, paused, mutex, tasks, tasks_total, hand, closing,
                 pushed, ended>>

NotifyAll ==
  /\ pc[Owner] = "notify all"
  /\ pc' = [t \in Thread |-> IF t = Owner THEN "join"
                             ELSE IF pc[t] = "asleep" THEN "woken" ELSE pc[t]]
  /\ UNCHANGED <<flags, mutex, tasks, tasks_total, hand, closing, pushed,
                 ended>>

JoinWorkers ==
  /\ \A w \in Worker : pc[w] = "exited"
  /\ Goto(Owner, "join", "gone")
  /\ UNCHANGED <<flags, mutex, tasks, tasks_total, hand, closing, pushed,
                 ended>>

\* The pool is gone; nothing happens any more.
Gone == pc[Owner] = "gone" /\ UNCHANGED vars

-----------------------------------------------------------------------------

\* The steps of a worker that have to get the mutex, and those that do not.
WorkerAcquires(w) ==
  WorkerLock(w) \/ WorkerWake(w) \/ WorkerTimeout(w) \/ WorkerCount(w)

WorkerMoves(w) ==
  \/ WorkerLoop(w) \/ WorkerCheck(w) \/ WorkerPred(w) \/ WorkerBlock(w)
  \/ WorkerLook(w) \/ WorkerTake(w) \/ TaskEnds(w) \/ WorkerSignal(w)
  \/ PushNotify(w)

OwnerAcquires == WaitLock \/ WaitWake

OwnerMoves ==
  \/ WaitPred \/ WaitBlock \/ ClearRunning \/ NotifyAll \/ JoinWorkers
  \/ PushNotify(Owner)

Next ==
  \/ \E t \in Thread : push_task(t) \/ SpuriousWake(t)
  \/ \E w \in Worker : WorkerAcquires(w) \/ WorkerMoves(w)
  \/ pause \/ unpause \/ wait_for_tasks
  \/ OwnerAcquires \/ OwnerMoves
  \/ Gone

Spec == Init /\ [][Next]_vars

(***************************************************************************)
(* A thread that can run does run, and a thread that wants the mutex is not *)
(* passed over for ever: strong fairness, because the polling workers take  *)
(* and release it all the time.  A task ends.  The steady clock ticks       *)
(* (WorkerTimeout).  Nothing makes anyone push, pause, unpause or wait, and *)
(* spurious wake-ups may never come.                                        *)
(***************************************************************************)
Fairness ==
  /\ \A w \in Worker : SF_vars(WorkerAcquires(w)) /\ WF_vars(WorkerMoves(w))
  /\ SF_vars(OwnerAcquires) /\ WF_vars(OwnerMoves)

FairSpec == Spec /\ Fairness
-----------------------------------------------------------------------------
(* Properties. *)

\* The pool keeps the contract clients rely on: locks, sleeping, polling and
\* signalling add nothing to it.
Taking   == {w \in Worker : pc[w] = "take"}
Contract == INSTANCE TaskPool WITH taking <- Taking
ImplementsFairContract == Contract!FairSpec

\* w runs a task.
Runs(w) == pc[w] \in {"task", "notify"}

\* Every task pushed is in one place only: in the queue, which holds the last
\* tasks pushed in the order they were pushed, running on one worker, or
\* ended.  None is lost, run twice or overtaken in the queue.
OnceInOrder ==
  LET taken == pushed - Len(tasks)
  IN  /\ \A i \in DOMAIN tasks : tasks[i] = taken + i
      /\ ended \subseteq 1 .. taken
      /\ \A t \in (1 .. taken) \ ended : \E w \in Worker : Runs(w) /\ hand[w] = t
      /\ \A w \in Worker : Runs(w) => hand[w] \in (1 .. taken) \ ended
      /\ \A v, w \in Worker : Runs(v) /\ Runs(w) /\ hand[v] = hand[w] => v = w

\* The owner is asleep or about to be, what it waits for is the case, and no
\* worker is about to notify it.
Forgotten ==
  /\ pc[Owner] \in {"wait block", "wait asleep"} /\ AllDone
  /\ \A w \in Worker : pc[w] # "signal"

\* wait_for_tasks does not miss its notification, although waiting_ is set
\* and read without agreeing on a lock: no step of the owner or of a worker
\* leaves the owner asleep when it could return.  Only pause() does: it makes
\* what is left in the queue enough to return, and notifies no one.
WaiterNotForgotten == [][~Forgotten /\ Forgotten' => ~paused /\ paused']_vars

\* When the workers have been joined every task has run to its end, except,
\* in a paused pool, those still queued; none is cut short.
NothingCutShort ==
  pc[Owner] = "gone" =>
    (1 .. pushed) \ ended = IF paused THEN {tasks[i] : i \in DOMAIN tasks} ELSE {}

\* The destructor returns, whatever the workers do when running_ is cleared:
\* one that goes to sleep after notify_all is woken by its timeout.
DestructorReturns == closing ~> pc[Owner] = "gone"

\* wait_for_tasks returns if from some time on nobody pauses the pool: an owner
\* that pause() has left asleep is notified once unpause() lets the workers go on.
WaitReturns ==
  <>[]~paused => (pc[Owner] = "wait lock" ~> pc[Owner] \in {"free", "stop"})
=============================================================================
