-------------------------- MODULE ThreadPoolProofs --------------------------
(***************************************************************************)
(* The implementation of the pool keeps the contract of TaskPool, loses no *)
(* task and forgets no waiter: for any number of workers and tasks.        *)
(***************************************************************************)
EXTENDS ThreadPool, FiniteSetTheorems, TLAPS

PoolProofs == INSTANCE TaskPoolProofs WITH taking <- Taking

-----------------------------------------------------------------------------
(* The inductive invariant. *)

\* What TypeOK says beyond the types of the contract's variables.
Types ==
  /\ waiting \in BOOLEAN /\ closing \in BOOLEAN
  /\ mutex \in Thread \cup {NoThread}
  /\ pc \in [Thread -> WorkerAt \cup OwnerAt]
  /\ \A w \in Worker : pc[w] \in WorkerAt
  /\ pc[Owner] \in OwnerAt
  /\ pushed \in 0 .. MaxTasks
  /\ ended \in SUBSET Task

\* The places where a thread holds tasks_mutex_, and the rule of the mutex.
Holding == {"check", "pred", "block", "look", "take", "signal", "wait pred",
            "wait block"}
MutexHeld == \A t \in Thread : pc[t] \in Holding => mutex = t

\* A worker has a task from taking it to counting it off.
HandsAgree == \A w \in Worker : hand[w] # NoTask <=> pc[w] \in {"task", "notify", "count"}

\* running_ goes down when the destructor has waited, and what it has waited
\* for stays the case: nothing is left that could push, and nobody pauses.
Waits    == {"wait lock", "wait pred", "wait block", "wait asleep", "wait woken"}
Stopping == {"stop", "notify all", "join", "gone"}
OwnerAgrees ==
  /\ ~running <=> pc[Owner] \in Stopping \ {"stop"}
  /\ pc[Owner] \in Stopping => closing /\ AllDone
  /\ closing => pc[Owner] \notin {"free", "notify"}
  /\ pc[Owner] \in Waits => waiting

\* What the destructor has waited for leaves nobody about to take a task: the
\* predicate is read under the mutex, and nobody finds the pool open after it.
NobodyTakes == pc[Owner] \in Stopping => Taking = {}

IInv ==
  /\ PoolProofs!IInv /\ Types
  /\ MutexHeld /\ HandsAgree /\ OwnerAgrees /\ NobodyTakes
  /\ tasks_total <= pushed

-----------------------------------------------------------------------------
(* The constants. *)

LEMMA ThreadFacts ==
  /\ IsFiniteSet(Worker) /\ Worker # {}
  /\ Owner \notin Worker /\ Owner \in Thread /\ Worker \subseteq Thread
  /\ NoThread \notin Thread /\ NoTask \notin Task
<1> DEFINE n == determine_thread_count(ThreadHint, HardwareConcurrency)
<1>1. n \in Nat /\ n >= 1
  BY HintAssumption DEF determine_thread_count, DEFAULT_THREAD_COUNT
<1>2. Worker = 1 .. n
  BY DEF Worker
<1> HIDE DEF n
<1>3. IsFiniteSet(Worker)
  BY <1>1, <1>2, FS_Interval
<1>4. 1 \in Worker /\ 0 \notin Worker /\ Worker \subseteq Nat
  BY <1>1, <1>2
<1>5. Task \subseteq Nat
  BY BoundAssumption DEF Task
<1>6. Worker # {} /\ Owner \notin Worker
  BY <1>4 DEF Owner
<1>7. Owner \in Thread /\ Worker \subseteq Thread
  BY DEF Thread
<1>8. NoThread \notin Thread
  <2>1. Thread \subseteq Nat
    BY <1>4 DEF Owner, Thread
  <2> QED
    BY <2>1, NullAssumption
<1>9. NoTask \notin Task
  BY <1>5, NullAssumption
<1> QED
  BY <1>3, <1>6, <1>7, <1>8, <1>9

LEMMA ThreadCases == \A t \in Thread : t = Owner \/ t \in Worker
BY DEF Thread

LEMMA PoolAssumptions ==
  /\ PoolProofs!WorkerAssumption
  /\ PoolProofs!NoTaskAssumption
  /\ PoolProofs!MaxTasksAssumption
BY ThreadFacts, BoundAssumption
   DEF PoolProofs!WorkerAssumption, PoolProofs!NoTaskAssumption,
       PoolProofs!MaxTasksAssumption, IsFiniteSet, PoolProofs!IsFiniteSet

\* The two instances of TaskPool are the same.
LEMMA SameContract ==
  /\ Contract!Init <=> PoolProofs!Init
  /\ [Contract!Next]_Contract!vars <=> [PoolProofs!Next]_PoolProofs!vars
BY DEF Contract!Init, PoolProofs!Init, Contract!Next, PoolProofs!Next,
       Contract!vars, PoolProofs!vars, Contract!Push, PoolProofs!Push,
       Contract!Look, PoolProofs!Look,
       Contract!Take, PoolProofs!Take, Contract!Finish, PoolProofs!Finish,
       Contract!Pause, PoolProofs!Pause, Contract!Unpause, PoolProofs!Unpause,
       Contract!Shutdown, PoolProofs!Shutdown, Contract!Drained,
       PoolProofs!Drained

-----------------------------------------------------------------------------
(* What the contract's invariant says here. *)

LEMMA ContractFacts ==
  ASSUME PoolProofs!IInv
  PROVE  /\ tasks \in Seq(Task) /\ hand \in [Worker -> Task \cup {NoTask}]
         /\ tasks_total \in 0 .. MaxTasks
         /\ paused \in BOOLEAN /\ running \in BOOLEAN
         /\ Len(tasks) \in Nat /\ Len(tasks) <= tasks_total
         /\ AllDone => \A w \in Worker : hand[w] = NoTask
         /\ AllDone /\ ~paused => tasks = <<>>
         /\ ~running => \A w \in Worker : hand[w] = NoTask
         /\ Taking # {} => tasks # <<>> /\ running
<1>1. /\ tasks \in Seq(Task) /\ hand \in [Worker -> Task \cup {NoTask}]
      /\ tasks_total \in 0 .. MaxTasks
      /\ paused \in BOOLEAN /\ running \in BOOLEAN
  BY DEF PoolProofs!IInv, PoolProofs!TypeOK
<1>2. Len(tasks) \in Nat /\ (Len(tasks) = 0 => tasks = <<>>)
  BY <1>1
<1>3. tasks_total = Len(tasks) + PoolProofs!Cardinality(PoolProofs!Busy)
  BY DEF PoolProofs!IInv, PoolProofs!CountExact
<1>4. /\ PoolProofs!Cardinality(PoolProofs!Busy) \in Nat
      /\ PoolProofs!Cardinality(PoolProofs!Busy) = 0 <=> PoolProofs!Busy = {}
  BY PoolProofs!BusyFinite, PoolAssumptions
<1>5. PoolProofs!Busy = {} => \A w \in Worker : hand[w] = NoTask
  BY DEF PoolProofs!Busy
<1>6. ~running => PoolProofs!Busy = {}
  BY DEF PoolProofs!IInv, PoolProofs!QuietAfterShutdown
<1>7. Taking # {} => tasks # <<>> /\ running
  BY DEF PoolProofs!IInv, PoolProofs!TakerReady
<1> QED
  BY <1>1, <1>2, <1>3, <1>4, <1>5, <1>6, <1>7, BoundAssumption DEF AllDone

\* Only a worker that looks or takes changes who is about to take.
LEMMA TakingKept ==
  ASSUME Types, [Next]_vars,
         \A w \in Worker : ~WorkerLook(w) /\ ~WorkerTake(w)
  PROVE  Taking' = Taking
<1>a. /\ pc \in [Thread -> WorkerAt \cup OwnerAt]
      /\ Owner \in Thread /\ Owner \notin Worker /\ Worker \subseteq Thread
  BY ThreadFacts DEF Types
<1> DEFINE Same == \A w \in Worker : pc'[w] = "take" <=> pc[w] = "take"
<1>1. ASSUME NEW w \in Worker, WorkerAcquires(w)
      PROVE  Same
  BY <1>1, <1>a DEF WorkerAcquires, WorkerLock, WorkerWake, WorkerTimeout, WorkerCount, Goto
<1>2. ASSUME NEW w \in Worker,
             \/ WorkerLoop(w) \/ WorkerCheck(w) \/ WorkerPred(w)
             \/ WorkerBlock(w) \/ TaskEnds(w)
      PROVE  Same
  BY <1>2, <1>a DEF WorkerLoop, WorkerCheck, WorkerPred, WorkerBlock, TaskEnds, Goto
<1>3. ASSUME NEW w \in Worker, WorkerSignal(w)
      PROVE  Same
  BY <1>3, <1>a DEF WorkerSignal
<1>4. ASSUME NEW t \in Thread, push_task(t) \/ SpuriousWake(t)
      PROVE  Same
  BY <1>4, <1>a DEF push_task, SpuriousWake, Goto
<1>5. ASSUME NEW t \in Thread, PushNotify(t)
      PROVE  Same
  BY <1>5, <1>a DEF PushNotify, GotoNotifying, Asleep
<1>6. ASSUME pause \/ unpause \/ wait_for_tasks \/ OwnerAcquires
      PROVE  Same
  BY <1>6, <1>a DEF pause, unpause, wait_for_tasks, OwnerAcquires, WaitLock, WaitWake,
                    Goto
<1>7. ASSUME WaitPred \/ WaitBlock \/ ClearRunning \/ JoinWorkers
      PROVE  Same
  BY <1>7, <1>a DEF WaitPred, WaitBlock, ClearRunning, JoinWorkers, Goto
<1>8. ASSUME NotifyAll \/ Gone \/ UNCHANGED vars
      PROVE  Same
  BY <1>8, <1>a DEF NotifyAll, Gone, vars
<1>9. Same
  <2> HIDE DEF Same
  <2> QED
    BY <1>1, <1>2, <1>3, <1>4, <1>5, <1>6, <1>7, <1>8, <1>a
       DEF Next, WorkerMoves, OwnerMoves
<1> QED
  BY <1>9 DEF Taking

\* A step of the implementation is a step of the contract, or hidden from it.
LEMMA ContractStep ==
  ASSUME IInv, [Next]_vars
  PROVE  [PoolProofs!Next]_PoolProofs!vars
<1> USE DEF IInv
<1>a. /\ tasks \in Seq(Task) /\ hand \in [Worker -> Task \cup {NoTask}]
      /\ tasks_total \in 0 .. MaxTasks
      /\ ~running => \A w \in Worker : hand[w] = NoTask
  BY ContractFacts
<1>b. /\ pc \in [Thread -> WorkerAt \cup OwnerAt]
      /\ Owner \in Thread /\ Owner \notin Worker /\ Worker \subseteq Thread
  BY ThreadFacts DEF Types
<1>c. (\A w \in Worker : ~WorkerLook(w) /\ ~WorkerTake(w)) => Taking' = Taking
  BY TakingKept
<1>d. ASSUME \/ \E t \in Thread : push_task(t)
             \/ \E w \in Worker : WorkerCount(w)
             \/ pause \/ unpause \/ ClearRunning
      PROVE  Taking' = Taking
  BY <1>d, <1>b DEF push_task, WorkerCount, pause, unpause, ClearRunning, Goto, Taking
<1>1. ASSUME NEW t \in Thread, push_task(t)
      PROVE  \E x \in Task : PoolProofs!Push(x)
  <2>1. running
    <3>1. CASE t = Owner
      BY <1>1, <3>1, ThreadFacts DEF push_task, Goto, OwnerAgrees, Stopping
    <3>2. CASE t \in Worker
      BY <1>1, <1>a, <3>2, ThreadFacts DEF push_task, Goto, HandsAgree
    <3> QED
      BY <3>1, <3>2 DEF Thread
  <2>2. pushed + 1 \in Task
    BY <1>1, BoundAssumption DEF push_task, Types, Task
  <2>3. PoolProofs!Push(pushed + 1)
    BY <1>1, <1>a, <1>d, <2>1, BoundAssumption
       DEF push_task, PoolProofs!Push, flags, Types
  <2> QED
    BY <2>2, <2>3
<1>2. ASSUME NEW w \in Worker, WorkerLook(w)
      PROVE  [PoolProofs!Next]_PoolProofs!vars
  <2>1. CASE running /\ ~paused /\ tasks # <<>>
    <3>1. hand[w] = NoTask
      BY <1>2, <2>1, <1>a DEF WorkerLook, Goto, HandsAgree
    <3>2. \A v \in Worker : pc[v] # "take"
      BY <1>2, <1>b DEF WorkerLook, Goto, MutexHeld, Holding
    <3>3. Taking = {} /\ Taking' = {w}
      BY <1>2, <1>b, <2>1, <3>2 DEF WorkerLook, Goto, Taking
    <3>4. PoolProofs!Look(w)
      BY <1>2, <2>1, <3>1, <3>3 DEF WorkerLook, PoolProofs!Look, flags
    <3> QED
      BY <3>4 DEF PoolProofs!Next
  <2>2. CASE ~(running /\ ~paused /\ tasks # <<>>)
    <3>1. Taking' = Taking
      BY <1>2, <1>b, <2>2 DEF WorkerLook, Goto, Taking
    <3> QED
      BY <1>2, <2>2, <3>1 DEF WorkerLook, PoolProofs!vars, flags
  <2> QED
    BY <2>1, <2>2
<1>7. ASSUME NEW w \in Worker, WorkerTake(w)
      PROVE  PoolProofs!Take(w)
  <2>1. \A v \in Worker : pc[v] = "take" <=> v = w
    BY <1>7, <1>b DEF WorkerTake, Goto, MutexHeld, Holding
  <2>2. w \in Taking /\ Taking' = {}
    BY <1>7, <1>b, <2>1 DEF WorkerTake, Goto, Taking
  <2> QED
    BY <1>7, <2>2 DEF WorkerTake, PoolProofs!Take, flags
<1>3. ASSUME NEW w \in Worker, WorkerCount(w)
      PROVE  PoolProofs!Finish(w)
  <2>1. hand[w] # NoTask
    BY <1>3, <1>a DEF WorkerCount, Goto, HandsAgree
  <2> QED
    BY <1>3, <1>d, <2>1 DEF WorkerCount, PoolProofs!Finish, flags
<1>4. ASSUME pause \/ unpause
      PROVE  PoolProofs!Pause \/ PoolProofs!Unpause
  <2>1. running
    BY <1>4 DEF pause, unpause, OwnerAgrees, Stopping
  <2> QED
    BY <1>4, <1>d, <2>1 DEF pause, unpause, PoolProofs!Pause, PoolProofs!Unpause
<1>5. ASSUME ClearRunning
      PROVE  PoolProofs!Shutdown
  <2>1. running /\ AllDone /\ Taking = {}
    BY <1>5 DEF ClearRunning, Goto, OwnerAgrees, NobodyTakes, Stopping
  <2> QED
    BY <1>5, <1>d, <2>1 DEF ClearRunning, PoolProofs!Shutdown, PoolProofs!Drained, AllDone
<1>6. ASSUME \/ \E t \in Thread : SpuriousWake(t) \/ PushNotify(t)
             \/ \E w \in Worker :
                  \/ WorkerLock(w) \/ WorkerWake(w) \/ WorkerTimeout(w)
                  \/ WorkerLoop(w) \/ WorkerCheck(w) \/ WorkerPred(w)
                  \/ WorkerBlock(w) \/ TaskEnds(w) \/ WorkerSignal(w)
             \/ wait_for_tasks \/ OwnerAcquires \/ WaitPred \/ WaitBlock
             \/ NotifyAll \/ JoinWorkers \/ Gone \/ UNCHANGED vars
      PROVE  UNCHANGED <<tasks, hand, tasks_total, paused, running>>
  BY <1>6 DEF SpuriousWake, PushNotify, WorkerLock, WorkerWake, WorkerTimeout,
              WorkerLoop, WorkerCheck, WorkerPred, WorkerBlock, TaskEnds,
              WorkerSignal, wait_for_tasks, OwnerAcquires, WaitLock, WaitWake,
              WaitPred, WaitBlock, NotifyAll, JoinWorkers, Gone, vars, flags
<1>8. CASE \E w \in Worker : WorkerLook(w) \/ WorkerTake(w)
  BY <1>2, <1>7, <1>8 DEF PoolProofs!Next
<1>9. CASE \A w \in Worker : ~WorkerLook(w) /\ ~WorkerTake(w)
  <2>1. \/ UNCHANGED <<tasks, hand, tasks_total, paused, running>>
        \/ PoolProofs!Next
    BY <1>1, <1>3, <1>4, <1>5, <1>6, <1>9, ThreadFacts
       DEF Next, WorkerAcquires, WorkerMoves, OwnerMoves, PoolProofs!Next
  <2> QED
    BY <1>c, <1>9, <2>1 DEF PoolProofs!vars
<1> QED
  BY <1>8, <1>9

-----------------------------------------------------------------------------
(* The rest of the invariant, part by part. *)

LEMMA TypesStep ==
  ASSUME IInv, [Next]_vars, PoolProofs!IInv'
  PROVE  Types' /\ tasks_total' <= pushed'
<1> USE DEF IInv
<1>1. ASSUME NEW w \in Worker, WorkerLock(w)
      PROVE  Types' /\ tasks_total' <= pushed'
  BY <1>1, ThreadFacts DEF WorkerLock, Goto, Lock, Types, WorkerAt, OwnerAt, flags
<1>2. ASSUME NEW w \in Worker, WorkerWake(w)
      PROVE  Types' /\ tasks_total' <= pushed'
  BY <1>2, ThreadFacts DEF WorkerWake, Goto, Lock, Types, WorkerAt, OwnerAt, flags
<1>3. ASSUME NEW w \in Worker, WorkerTimeout(w)
      PROVE  Types' /\ tasks_total' <= pushed'
  BY <1>3, ThreadFacts
     DEF WorkerTimeout, Goto, Lock, Types, WorkerAt, OwnerAt, flags
<1>4. ASSUME NEW w \in Worker, WorkerCount(w)
      PROVE  Types' /\ tasks_total' <= pushed'
  <2>1. Types'
    BY <1>4, ThreadFacts, ThreadCases
       DEF WorkerCount, Goto, Lock, Types, WorkerAt, flags
  <2>2. tasks_total \in Nat /\ tasks_total' = tasks_total - 1 /\ pushed' = pushed
    BY <1>4, ContractFacts, BoundAssumption DEF WorkerCount
  <2>3. pushed \in Nat
    BY BoundAssumption DEF Types
  <2> QED
    BY <2>1, <2>2, <2>3
<1>5. ASSUME NEW w \in Worker,
             WorkerLoop(w) \/ WorkerPred(w)
      PROVE  Types' /\ tasks_total' <= pushed'
  BY <1>5, ThreadFacts
     DEF WorkerLoop, WorkerPred, Goto, Types, WorkerAt, OwnerAt, flags
<1>6. ASSUME NEW w \in Worker,
             WorkerCheck(w) \/ WorkerBlock(w) \/ WorkerLook(w) \/ WorkerTake(w)
      PROVE  Types' /\ tasks_total' <= pushed'
  BY <1>6, ThreadFacts
     DEF WorkerCheck, WorkerBlock, WorkerLook, WorkerTake, Goto, Unlock, Types,
         WorkerAt, OwnerAt, flags
<1>7. ASSUME NEW w \in Worker, WorkerSignal(w)
      PROVE  Types' /\ tasks_total' <= pushed'
  BY <1>7, ThreadFacts DEF WorkerSignal, Unlock, Types, WorkerAt, OwnerAt, flags
<1>8. ASSUME NEW w \in Worker, TaskEnds(w)
      PROVE  Types' /\ tasks_total' <= pushed'
  BY <1>8, ThreadFacts, ThreadCases, ContractFacts
     DEF TaskEnds, Goto, Types, WorkerAt, OwnerAt, HandsAgree, flags
<1>9. ASSUME NEW t \in Thread, push_task(t)
      PROVE  Types' /\ tasks_total' <= pushed'
  <2>1. pc' \in [Thread -> WorkerAt \cup OwnerAt]
        /\ (\A w \in Worker : pc'[w] \in WorkerAt) /\ pc'[Owner] \in OwnerAt
    BY <1>9, ThreadFacts, ThreadCases DEF push_task, Goto, Types, WorkerAt, OwnerAt
  <2>2. pushed' \in 0 .. MaxTasks /\ tasks_total' <= pushed'
    BY <1>9, ContractFacts, BoundAssumption DEF push_task, Types
  <2> QED
    BY <1>9, <2>1, <2>2 DEF push_task, Types, flags
<1>10. ASSUME NEW t \in Thread, PushNotify(t)
      PROVE  Types' /\ tasks_total' <= pushed'
  <2>1. CASE t = Owner
    <3>1. pc' \in [Thread -> WorkerAt \cup OwnerAt]
          /\ (\A w \in Worker : pc'[w] \in WorkerAt) /\ pc'[Owner] \in OwnerAt
      BY <1>10, <2>1, ThreadFacts
         DEF PushNotify, GotoNotifying, Asleep, Types, WorkerAt, OwnerAt
    <3> QED
      BY <1>10, <3>1 DEF PushNotify, Types, flags
  <2>2. CASE t \in Worker
    <3>1. pc' \in [Thread -> WorkerAt \cup OwnerAt]
          /\ (\A w \in Worker : pc'[w] \in WorkerAt) /\ pc'[Owner] \in OwnerAt
      BY <1>10, <2>2, ThreadFacts
         DEF PushNotify, GotoNotifying, Asleep, Types, WorkerAt, OwnerAt
    <3> QED
      BY <1>10, <3>1 DEF PushNotify, Types, flags
  <2> QED
    BY <2>1, <2>2, ThreadCases
<1>11. ASSUME NEW t \in Thread, SpuriousWake(t)
      PROVE  Types' /\ tasks_total' <= pushed'
  BY <1>11, ThreadFacts DEF SpuriousWake, Goto, Types, WorkerAt, OwnerAt, flags
<1>12. CASE pause \/ unpause \/ wait_for_tasks
  BY <1>12, ThreadFacts
     DEF pause, unpause, wait_for_tasks, Goto, Types, WorkerAt, OwnerAt, flags
<1>13. CASE WaitLock \/ WaitWake
  BY <1>13, ThreadFacts
     DEF WaitLock, WaitWake, Goto, Lock, Types, WorkerAt, OwnerAt, flags
<1>14. CASE WaitPred
  BY <1>14, ThreadFacts DEF WaitPred, Goto, Unlock, Types, WorkerAt, OwnerAt, flags
<1>15. CASE WaitBlock
  BY <1>15, ThreadFacts DEF WaitBlock, Goto, Unlock, Types, WorkerAt, OwnerAt, flags
<1>16. CASE ClearRunning \/ NotifyAll \/ JoinWorkers
  <2>1. CASE ClearRunning \/ JoinWorkers
    BY <2>1, ThreadFacts
       DEF ClearRunning, JoinWorkers, Goto, Types, WorkerAt, OwnerAt, flags
  <2>2. CASE NotifyAll
    <3>1. pc' \in [Thread -> WorkerAt \cup OwnerAt]
          /\ (\A w \in Worker : pc'[w] \in WorkerAt) /\ pc'[Owner] \in OwnerAt
      BY <2>2, ThreadFacts DEF NotifyAll, Types, WorkerAt, OwnerAt
    <3> QED
      BY <2>2, <3>1 DEF NotifyAll, Types, flags
  <2> QED
    BY <1>16, <2>1, <2>2
<1>17. CASE Gone \/ UNCHANGED vars
  BY <1>17 DEF Gone, vars, Types, WorkerAt, OwnerAt, flags
<1> QED
  BY <1>1, <1>2, <1>3, <1>4, <1>5, <1>6, <1>7, <1>8, <1>9, <1>10, <1>11, <1>12,
     <1>13, <1>14, <1>15, <1>16, <1>17, ThreadFacts
     DEF Next, WorkerAcquires, WorkerMoves, OwnerAcquires, OwnerMoves

\* Whoever takes the mutex has found it free.
LEMMA MutexStep ==
  ASSUME IInv, [Next]_vars, PoolProofs!IInv'
  PROVE  MutexHeld'
<1> USE DEF IInv
<1>1. ASSUME NEW w \in Worker, WorkerLock(w)
      PROVE  MutexHeld'
  BY <1>1, ThreadFacts DEF WorkerLock, Goto, Lock, MutexHeld, Types, Holding, flags
<1>2. ASSUME NEW w \in Worker, WorkerWake(w)
      PROVE  MutexHeld'
  BY <1>2, ThreadFacts DEF WorkerWake, Goto, Lock, MutexHeld, Types, Holding, flags
<1>3. ASSUME NEW w \in Worker, WorkerTimeout(w)
      PROVE  MutexHeld'
  BY <1>3, ThreadFacts
     DEF WorkerTimeout, Goto, Lock, MutexHeld, Types, Holding, flags
<1>4. ASSUME NEW w \in Worker, WorkerCount(w)
      PROVE  MutexHeld'
  BY <1>4, ThreadFacts DEF WorkerCount, Goto, Lock, MutexHeld, Types, Holding, flags
<1>5. ASSUME NEW w \in Worker,
             WorkerLoop(w) \/ WorkerPred(w)
      PROVE  MutexHeld'
  BY <1>5 DEF WorkerLoop, WorkerPred, Goto, MutexHeld, Types, Holding, flags
<1>6. ASSUME NEW w \in Worker, WorkerCheck(w)
      PROVE  MutexHeld'
  BY <1>6, ThreadFacts
     DEF WorkerCheck, Goto, Unlock, MutexHeld, Types, Holding, flags
<1>7. ASSUME NEW w \in Worker, WorkerBlock(w)
      PROVE  MutexHeld'
  BY <1>7, ThreadFacts
     DEF WorkerBlock, Goto, Unlock, MutexHeld, Types, Holding, flags
<1>8. ASSUME NEW w \in Worker, WorkerTake(w)
      PROVE  MutexHeld'
  BY <1>8, ThreadFacts
     DEF WorkerTake, Goto, Unlock, MutexHeld, Types, Holding, flags
<1>20. ASSUME NEW w \in Worker, WorkerLook(w)
       PROVE  MutexHeld'
  <2>1. /\ pc \in [Thread -> WorkerAt \cup OwnerAt] /\ w \in Thread
        /\ pc[w] = "look" /\ mutex = w
    BY <1>20, ThreadFacts DEF WorkerLook, Goto, MutexHeld, Types, Holding
  <2>2. \/ pc' = [pc EXCEPT ![w] = "take"] /\ mutex' = mutex
        \/ pc' = [pc EXCEPT ![w] = "while"]
    BY <1>20 DEF WorkerLook, Goto
  <2>3. \A t \in Thread : t # w => pc[t] \notin Holding
    BY <2>1 DEF MutexHeld
  <2>4. \A t \in Thread : pc'[t] \in Holding => t = w /\ mutex' = mutex
    BY <2>1, <2>2, <2>3 DEF Holding
  <2> QED
    BY <2>1, <2>4 DEF MutexHeld
<1>9. ASSUME NEW w \in Worker, WorkerSignal(w)
      PROVE  MutexHeld'
  BY <1>9, ThreadFacts DEF WorkerSignal, Unlock, MutexHeld, Types, Holding, flags
<1>10. ASSUME NEW w \in Worker, TaskEnds(w)
      PROVE  MutexHeld'
  BY <1>10 DEF TaskEnds, Goto, MutexHeld, Types, Holding, flags
<1>11. ASSUME NEW t \in Thread, push_task(t)
      PROVE  MutexHeld'
  BY <1>11 DEF push_task, Goto, MutexHeld, Types, Holding, flags
<1>12. ASSUME NEW t \in Thread, PushNotify(t)
      PROVE  MutexHeld'
  BY <1>12 DEF PushNotify, GotoNotifying, Asleep, MutexHeld, Types, Holding, flags
<1>13. ASSUME NEW t \in Thread, SpuriousWake(t)
      PROVE  MutexHeld'
  BY <1>13 DEF SpuriousWake, Goto, MutexHeld, Types, Holding, flags
<1>14. CASE pause \/ unpause \/ wait_for_tasks
  BY <1>14
     DEF pause, unpause, wait_for_tasks, Goto, MutexHeld, Types, Holding, flags
<1>15. CASE WaitLock \/ WaitWake
  BY <1>15, ThreadFacts
     DEF WaitLock, WaitWake, Goto, Lock, MutexHeld, Types, Holding, flags
<1>16. CASE WaitPred
  BY <1>16, ThreadFacts DEF WaitPred, Goto, Unlock, MutexHeld, Types, Holding, flags
<1>17. CASE WaitBlock
  BY <1>17, ThreadFacts
     DEF WaitBlock, Goto, Unlock, MutexHeld, Types, Holding, flags
<1>18. CASE ClearRunning \/ NotifyAll \/ JoinWorkers
  BY <1>18
     DEF ClearRunning, NotifyAll, JoinWorkers, Goto, MutexHeld, Types, Holding,
         flags
<1>19. CASE Gone \/ UNCHANGED vars
  BY <1>19 DEF Gone, vars, MutexHeld, Types, Holding, flags
<1> QED
  BY ThreadFacts, <1>1, <1>2, <1>3, <1>4, <1>5, <1>6, <1>7, <1>8, <1>9, <1>10, <1>11,
     <1>12, <1>13, <1>14, <1>15, <1>16, <1>17, <1>18, <1>19, <1>20
     DEF Next, WorkerAcquires, WorkerMoves, OwnerAcquires, OwnerMoves

\* A hand is filled by WorkerTake and emptied by WorkerCount.
LEMMA HandsStep ==
  ASSUME IInv, [Next]_vars, PoolProofs!IInv'
  PROVE  HandsAgree'
<1> USE DEF IInv
<1>1. ASSUME NEW w \in Worker,
             WorkerLock(w) \/ WorkerWake(w) \/ WorkerTimeout(w) \/ WorkerCount(w)
      PROVE  HandsAgree'
  BY <1>1, ThreadFacts, ThreadCases, ContractFacts
     DEF WorkerLock, WorkerWake, WorkerTimeout, WorkerCount, Goto, Lock, HandsAgree,
         Types, flags
<1>2. ASSUME NEW w \in Worker,
             WorkerLoop(w) \/ WorkerPred(w)
      PROVE  HandsAgree'
  BY <1>2, ThreadFacts DEF WorkerLoop, WorkerPred, Goto, HandsAgree, Types, flags
<1>3. ASSUME NEW w \in Worker,
             WorkerCheck(w) \/ WorkerBlock(w) \/ WorkerLook(w)
      PROVE  HandsAgree'
  BY <1>3, ThreadFacts, ThreadCases, ContractFacts
     DEF WorkerCheck, WorkerBlock, WorkerLook, Goto, Unlock, HandsAgree, Types,
         flags
<1>15. ASSUME NEW w \in Worker, WorkerTake(w)
       PROVE  HandsAgree'
  <2>1. tasks # <<>>
    BY <1>15, ContractFacts DEF WorkerTake, Goto, Taking
  <2>2. Head(tasks) # NoTask
    BY <2>1, ContractFacts, ThreadFacts
  <2> QED
    BY <1>15, <2>2, ThreadFacts, ContractFacts
       DEF WorkerTake, Goto, HandsAgree, Types, flags
<1>4. ASSUME NEW w \in Worker, WorkerSignal(w)
      PROVE  HandsAgree'
  BY <1>4, ThreadFacts DEF WorkerSignal, Unlock, HandsAgree, Types, flags
<1>5. ASSUME NEW w \in Worker, TaskEnds(w)
      PROVE  HandsAgree'
  BY <1>5 DEF TaskEnds, Goto, HandsAgree, Types, flags
<1>6. ASSUME NEW t \in Thread, push_task(t)
      PROVE  HandsAgree'
  BY <1>6, ThreadFacts DEF push_task, Goto, HandsAgree, Types, flags
<1>7. ASSUME NEW t \in Thread, PushNotify(t)
      PROVE  HandsAgree'
  BY <1>7, ThreadFacts, ThreadCases, ContractFacts
     DEF PushNotify, GotoNotifying, Asleep, HandsAgree, Types, flags
<1>8. ASSUME NEW t \in Thread, SpuriousWake(t)
      PROVE  HandsAgree'
  BY <1>8, ThreadFacts, ThreadCases, ContractFacts
     DEF SpuriousWake, Goto, HandsAgree, Types, flags
<1>9. CASE pause \/ unpause \/ wait_for_tasks
  BY <1>9, ThreadFacts, ThreadCases, ContractFacts
     DEF pause, unpause, wait_for_tasks, Goto, HandsAgree, Types, flags
<1>10. CASE WaitLock \/ WaitWake
  BY <1>10, ThreadFacts, ThreadCases, ContractFacts
     DEF WaitLock, WaitWake, Goto, Lock, HandsAgree, Types, flags
<1>11. CASE WaitPred
  BY <1>11, ThreadFacts, ThreadCases, ContractFacts
     DEF WaitPred, Goto, Unlock, HandsAgree, Types, flags
<1>12. CASE WaitBlock
  BY <1>12, ThreadFacts, ThreadCases, ContractFacts
     DEF WaitBlock, Goto, Unlock, HandsAgree, Types, flags
<1>13. CASE ClearRunning \/ NotifyAll \/ JoinWorkers
  BY <1>13, ThreadFacts, ThreadCases, ContractFacts
     DEF ClearRunning, NotifyAll, JoinWorkers, Goto, HandsAgree, Types, flags
<1>14. CASE Gone \/ UNCHANGED vars
  BY <1>14, ThreadFacts, ThreadCases, ContractFacts
     DEF Gone, vars, HandsAgree, Types, flags
<1> QED
  BY ThreadFacts, <1>1, <1>2, <1>3, <1>4, <1>5, <1>6, <1>7, <1>8, <1>9, <1>10, <1>11,
     <1>12, <1>13, <1>14, <1>15
     DEF Next, WorkerAcquires, WorkerMoves, OwnerAcquires, OwnerMoves

\* Phase(a, b): the owner's places a and b are alike for OwnerAgrees.
Phase(a, b) ==
  \A S \in {Waits, Stopping, Stopping \ {"stop"}, {"free", "notify"}} : a \in S <=> b \in S

\* Other threads, and the owner within a phase, do not disturb OwnerAgrees.
LEMMA OwnerKept ==
  ASSUME OwnerAgrees, Phase(pc[Owner], pc'[Owner]),
         UNCHANGED <<running, waiting, closing>>,
         pc[Owner] \in Stopping => UNCHANGED <<paused, tasks, tasks_total>>
  PROVE  OwnerAgrees'
<1>1. pc[Owner] \in Stopping => AllDone' = AllDone
  BY DEF AllDone
<1>2. /\ pc'[Owner] \in Waits <=> pc[Owner] \in Waits
      /\ pc'[Owner] \in Stopping <=> pc[Owner] \in Stopping
      /\ pc'[Owner] \in Stopping \ {"stop"} <=> pc[Owner] \in Stopping \ {"stop"}
      /\ pc'[Owner] \in {"free", "notify"} <=> pc[Owner] \in {"free", "notify"}
  BY DEF Phase
<1> QED
  BY <1>1, <1>2 DEF OwnerAgrees

LEMMA OwnerStep ==
  ASSUME IInv, [Next]_vars
  PROVE  OwnerAgrees'
<1> USE DEF IInv
<1> DEFINE Kept == /\ Phase(pc[Owner], pc'[Owner])
                   /\ UNCHANGED <<running, waiting, closing>>
                   /\ pc[Owner] \in Stopping => UNCHANGED <<paused, tasks, tasks_total>>
<1>a. /\ pc \in [Thread -> WorkerAt \cup OwnerAt]
      /\ Owner \in Thread /\ Owner \notin Worker /\ Worker \subseteq Thread
  BY ThreadFacts DEF Types
<1>b. pc[Owner] \in Stopping =>
        closing /\ (\A w \in Worker : hand[w] = NoTask) /\ (paused \/ tasks = <<>>)
  BY ContractFacts DEF OwnerAgrees
<1>c. \A x : Phase(x, x)
  BY DEF Phase
<1>1. ASSUME NEW w \in Worker,
             \/ WorkerLock(w) \/ WorkerWake(w) \/ WorkerTimeout(w) \/ WorkerLoop(w)
             \/ WorkerCheck(w) \/ WorkerPred(w) \/ WorkerBlock(w) \/ WorkerLook(w)
             \/ TaskEnds(w)
      PROVE  Kept
  <2>1. pc'[Owner] = pc[Owner]
    BY <1>1, <1>a DEF WorkerLock, WorkerWake, WorkerTimeout, WorkerLoop, WorkerCheck,
                      WorkerPred, WorkerBlock, WorkerLook, TaskEnds, Goto
  <2> QED
    BY <1>1, <1>c, <2>1 DEF WorkerLock, WorkerWake, WorkerTimeout, WorkerLoop,
              WorkerCheck, WorkerPred, WorkerBlock, WorkerLook, TaskEnds, flags
<1>2. ASSUME NEW w \in Worker, WorkerTake(w) \/ WorkerCount(w)
      PROVE  Kept
  <2>1. pc'[Owner] = pc[Owner] /\ UNCHANGED <<running, waiting, closing>>
    BY <1>2, <1>a DEF WorkerTake, WorkerCount, Goto, flags
  <2>2. CASE pc[Owner] \in Stopping
    <3>1. ~WorkerCount(w)
      BY <1>b, <2>2 DEF WorkerCount, Goto, HandsAgree
    <3>2. ~WorkerTake(w)
      BY <2>2 DEF WorkerTake, Goto, Taking, NobodyTakes
    <3> QED
      BY <1>2, <3>1, <3>2
  <2>3. CASE pc[Owner] \notin Stopping
    BY <1>c, <2>1, <2>3
  <2> QED
    BY <2>2, <2>3
<1>3. ASSUME NEW w \in Worker, WorkerSignal(w)
      PROVE  Kept
  <2>1. \/ pc'[Owner] = pc[Owner]
        \/ pc[Owner] = "wait asleep" /\ pc'[Owner] = "wait woken"
    BY <1>3, <1>a DEF WorkerSignal
  <2>2. Phase(pc[Owner], pc'[Owner])
    BY <2>1 DEF Phase, Waits, Stopping
  <2> QED
    BY <1>3, <2>2 DEF WorkerSignal, flags
<1>4. ASSUME NEW t \in Thread, push_task(t)
      PROVE  Kept
  <2>1. t = Owner \/ t \in Worker
    BY DEF Thread
  <2>2. pc[Owner] \notin Stopping
    BY <1>4, <1>b, <2>1 DEF push_task, Goto, HandsAgree, Stopping
  <2>3. \/ pc'[Owner] = pc[Owner]
        \/ pc[Owner] = "free" /\ pc'[Owner] = "notify"
    BY <1>4, <1>a DEF push_task, Goto
  <2>4. Phase(pc[Owner], pc'[Owner])
    BY <2>3 DEF Phase, Waits, Stopping
  <2> QED
    BY <1>4, <2>2, <2>4 DEF push_task, flags
<1>5. ASSUME NEW t \in Thread, PushNotify(t) \/ SpuriousWake(t)
      PROVE  Kept
  <2>1. \/ pc'[Owner] = pc[Owner]
        \/ pc[Owner] = "notify" /\ pc'[Owner] = "free"
        \/ pc[Owner] = "wait asleep" /\ pc'[Owner] = "wait woken"
    <3>1. CASE PushNotify(t)
      BY <1>a, <3>1 DEF PushNotify, GotoNotifying, Asleep
    <3>2. CASE SpuriousWake(t)
      BY <1>a, <3>2 DEF SpuriousWake, Goto
    <3> QED
      BY <1>5, <3>1, <3>2
  <2>2. Phase(pc[Owner], pc'[Owner])
    BY <2>1 DEF Phase, Waits, Stopping
  <2> QED
    BY <1>5, <2>2 DEF PushNotify, SpuriousWake, flags
<1>6. ASSUME pause \/ unpause
      PROVE  Kept
  <2>1. pc[Owner] \notin Stopping
    BY <1>6, <1>b DEF pause, unpause
  <2> QED
    BY <1>6, <1>c, <2>1 DEF pause, unpause
<1>7. ASSUME WaitLock \/ WaitWake \/ WaitBlock \/ NotifyAll \/ JoinWorkers
      PROVE  Kept
  <2>1. \/ pc[Owner] \in Waits /\ pc'[Owner] \in Waits
        \/ pc[Owner] \in {"notify all", "join"} /\ pc'[Owner] \in {"join", "gone"}
    BY <1>7, <1>a
       DEF WaitLock, WaitWake, WaitBlock, NotifyAll, JoinWorkers, Goto, Waits
  <2>2. Phase(pc[Owner], pc'[Owner])
    BY <2>1 DEF Phase, Waits, Stopping
  <2> QED
    BY <1>7, <2>2 DEF WaitLock, WaitWake, WaitBlock, NotifyAll, JoinWorkers, flags
<1>8. ASSUME Gone \/ UNCHANGED vars
      PROVE  Kept
  BY <1>8, <1>c DEF Gone, vars
<1>9. CASE wait_for_tasks
  <2>1. pc[Owner] = "free" /\ pc'[Owner] = "wait lock"
    BY <1>9, <1>a DEF wait_for_tasks, Goto
  <2>2. waiting' /\ running' = running
    BY <1>9 DEF wait_for_tasks
  <2> QED
    BY <2>1, <2>2 DEF OwnerAgrees, Waits, Stopping
<1>10. CASE WaitPred
  <2>1. pc[Owner] = "wait pred"
    BY <1>10 DEF WaitPred, Goto
  <2>2. /\ UNCHANGED <<running, closing, paused, tasks, tasks_total>>
        /\ AllDone' = AllDone
    BY <1>10 DEF WaitPred, AllDone
  <2>3. \/ ~closing /\ pc'[Owner] = "free"
        \/ closing /\ AllDone /\ pc'[Owner] = "stop"
        \/ pc'[Owner] = "wait block" /\ waiting' = waiting
    BY <1>10, <1>a DEF WaitPred, Goto
  <2> QED
    BY <2>1, <2>2, <2>3 DEF OwnerAgrees, Waits, Stopping
<1>11. CASE ClearRunning
  <2>1. pc[Owner] = "stop" /\ pc'[Owner] = "notify all" /\ running' = FALSE
    BY <1>11, <1>a DEF ClearRunning, Goto
  <2>2. closing' = closing /\ AllDone' = AllDone
    BY <1>11 DEF ClearRunning, AllDone
  <2> QED
    BY <2>1, <2>2 DEF OwnerAgrees, Waits, Stopping
<1>12. ASSUME Kept PROVE OwnerAgrees'
  BY <1>12, OwnerKept
<1> HIDE DEF Kept
<1> QED
  BY <1>1, <1>2, <1>3, <1>4, <1>5, <1>6, <1>7, <1>8, <1>9, <1>10, <1>11, <1>12,
     ThreadFacts
     DEF Next, WorkerAcquires, WorkerMoves, OwnerAcquires, OwnerMoves

\* Only wait_for_tasks, at its end, lets the destructor go on.
LEMMA StoppingKept ==
  ASSUME Types, [Next]_vars, ~WaitPred, pc'[Owner] \in Stopping
  PROVE  pc[Owner] \in Stopping
<1>a. /\ pc \in [Thread -> WorkerAt \cup OwnerAt]
      /\ Owner \in Thread /\ Owner \notin Worker /\ Worker \subseteq Thread
  BY ThreadFacts DEF Types
<1> DEFINE Goal == pc[Owner] \in Stopping
<1>1. ASSUME NEW w \in Worker,
             \/ WorkerLock(w) \/ WorkerWake(w) \/ WorkerTimeout(w) \/ WorkerLoop(w)
             \/ WorkerCheck(w) \/ WorkerPred(w) \/ WorkerBlock(w) \/ WorkerLook(w)
             \/ WorkerTake(w) \/ TaskEnds(w) \/ WorkerCount(w)
      PROVE  Goal
  BY <1>1, <1>a DEF WorkerLock, WorkerWake, WorkerTimeout, WorkerLoop, WorkerCheck,
                    WorkerPred, WorkerBlock, WorkerLook, WorkerTake, TaskEnds,
                    WorkerCount, Goto
<1>2. ASSUME NEW w \in Worker, WorkerSignal(w)
      PROVE  Goal
  BY <1>2, <1>a DEF WorkerSignal, Stopping
<1>3. ASSUME NEW t \in Thread, push_task(t) \/ SpuriousWake(t)
      PROVE  Goal
  BY <1>3, <1>a DEF push_task, SpuriousWake, Goto, Stopping
<1>4. ASSUME NEW t \in Thread, PushNotify(t)
      PROVE  Goal
  BY <1>4, <1>a DEF PushNotify, GotoNotifying, Asleep, Stopping
<1>5. ASSUME pause \/ unpause \/ wait_for_tasks \/ OwnerAcquires \/ WaitBlock
      PROVE  Goal
  BY <1>5, <1>a DEF pause, unpause, wait_for_tasks, OwnerAcquires, WaitLock, WaitWake,
                    WaitBlock, Goto, Stopping
<1>6. ASSUME ClearRunning \/ NotifyAll \/ JoinWorkers \/ Gone \/ UNCHANGED vars
      PROVE  Goal
  BY <1>6, <1>a DEF ClearRunning, NotifyAll, JoinWorkers, Goto, Gone, vars, Stopping
<1> HIDE DEF Goal
<1>7. Goal
  BY <1>1, <1>2, <1>3, <1>4, <1>5, <1>6, ThreadFacts
     DEF Next, WorkerAcquires, WorkerMoves, OwnerMoves
<1> QED
  BY <1>7 DEF Goal

\* Nobody is about to take a task when the destructor has waited.
LEMMA TakingStep ==
  ASSUME IInv, [Next]_vars
  PROVE  NobodyTakes'
<1> USE DEF IInv
<1>a. /\ pc \in [Thread -> WorkerAt \cup OwnerAt]
      /\ Owner \in Thread /\ Owner \notin Worker /\ Worker \subseteq Thread
  BY ThreadFacts DEF Types
<1>b. pc[Owner] \in Stopping => Taking = {} /\ (paused \/ tasks = <<>>)
  BY ContractFacts DEF OwnerAgrees, NobodyTakes
<1>1. CASE \E w \in Worker : WorkerLook(w) \/ WorkerTake(w)
  <2>1. PICK w \in Worker : WorkerLook(w) \/ WorkerTake(w)
    BY <1>1
  <2>2. pc'[Owner] = pc[Owner]
    BY <2>1, <1>a DEF WorkerLook, WorkerTake, Goto
  <2>3. ASSUME pc[Owner] \in Stopping
        PROVE  Taking' = {}
    <3>1. WorkerLook(w) /\ ~(running /\ ~paused /\ tasks # <<>>)
      BY <1>b, <2>1, <2>3 DEF WorkerTake, Goto, Taking
    <3> QED
      BY <1>a, <1>b, <2>3, <3>1 DEF WorkerLook, Goto, Taking
  <2> QED
    BY <2>2, <2>3 DEF NobodyTakes
<1>2. CASE \A w \in Worker : ~WorkerLook(w) /\ ~WorkerTake(w)
  <2>1. Taking' = Taking
    BY <1>2, TakingKept
  <2>2. CASE WaitPred
    <3>1. Taking = {}
      BY <1>a, <2>2 DEF WaitPred, Goto, MutexHeld, Holding, Taking
    <3> QED
      BY <2>1, <3>1 DEF NobodyTakes
  <2>3. CASE ~WaitPred
    <3>1. pc'[Owner] \in Stopping => pc[Owner] \in Stopping
      BY <1>2, <1>a, <2>3, StoppingKept
    <3> QED
      BY <2>1, <3>1 DEF NobodyTakes
  <2> QED
    BY <2>2, <2>3
<1> QED
  BY <1>1, <1>2

LEMMA InitInv == Init => IInv
<1> SUFFICES ASSUME Init PROVE IInv
  OBVIOUS
<1>1. PoolProofs!IInv
  <2>1. PoolProofs!Init
    BY ThreadFacts DEF Init, PoolProofs!Init, Taking
  <2> QED
    BY <2>1, PoolProofs!InitInv, PoolAssumptions
<1>2. Types
  <2>1. mutex \in Thread \cup {NoThread} /\ pc \in [Thread -> WorkerAt \cup OwnerAt]
    BY DEF Init, WorkerAt, OwnerAt
  <2>2. (\A w \in Worker : pc[w] \in WorkerAt) /\ pc[Owner] \in OwnerAt
    BY ThreadFacts DEF Init, WorkerAt, OwnerAt
  <2>3. pushed \in 0 .. MaxTasks
    BY BoundAssumption DEF Init
  <2> QED
    BY <2>1, <2>2, <2>3 DEF Init, Types
<1>3. MutexHeld
  BY DEF Init, MutexHeld, Holding
<1>4. HandsAgree
  BY ThreadFacts DEF Init, HandsAgree
<1>7. Taking = {}
  BY ThreadFacts DEF Init, Taking
<1>5. OwnerAgrees
  BY ThreadFacts DEF Init, OwnerAgrees, Waits, Stopping
<1>6. tasks_total <= pushed
  BY DEF Init
<1> QED
  BY <1>1, <1>2, <1>3, <1>4, <1>5, <1>6, <1>7 DEF IInv, NobodyTakes

LEMMA StepInv == IInv /\ [Next]_vars => IInv'
<1> SUFFICES ASSUME IInv, [Next]_vars PROVE IInv'
  OBVIOUS
<1>1. PoolProofs!IInv'
  BY ContractStep, PoolAssumptions, PoolProofs!StepInv DEF IInv
<1> QED
  BY <1>1, TypesStep, MutexStep, HandsStep, OwnerStep, TakingStep DEF IInv

\* The invariant holds in every state.
THEOREM InvHolds == Spec => []IInv
BY InitInv, StepInv, PTL DEF Spec

\* The variables of the pool have their types (thread_pool.hpp:177).
THEOREM TypeCorrect == Spec => []TypeOK
<1>1. IInv => TypeOK
  BY ContractFacts DEF IInv, Types, TypeOK
<1> QED
  BY <1>1, InvHolds, PTL

\* Everything the implementation does, the contract allows: the mutex, the
\* condition variables and the polling hide nothing a client could see.
THEOREM ImplementsContract == Spec => Contract!Spec
<1>1. Init => Contract!Init
  BY ThreadFacts DEF Init, Contract!Init, Taking
<1>2. IInv /\ [Next]_vars => [Contract!Next]_Contract!vars
  BY ContractStep, SameContract
<1> QED
  BY <1>1, <1>2, InvHolds, PTL DEF Spec, Contract!Spec

-----------------------------------------------------------------------------
(* No task is lost, repeated, overtaken or cut short. *)

\* What OnceInOrder depends on stays the same.
LEMMA OrderKept ==
  ASSUME OnceInOrder, UNCHANGED <<tasks, pushed, ended>>,
         \A w \in Worker : /\ Runs(w)' <=> Runs(w)
                           /\ Runs(w) => hand'[w] = hand[w]
  PROVE  OnceInOrder'
BY DEF OnceInOrder

LEMMA OrderStep ==
  ASSUME IInv, OnceInOrder, [Next]_vars
  PROVE  OnceInOrder'
<1> USE DEF IInv
<1> DEFINE Kept == /\ UNCHANGED <<tasks, pushed, ended>>
                   /\ \A w \in Worker : /\ Runs(w)' <=> Runs(w)
                                        /\ Runs(w) => hand'[w] = hand[w]
<1>a. /\ pc \in [Thread -> WorkerAt \cup OwnerAt]
      /\ Owner \in Thread /\ Owner \notin Worker /\ Worker \subseteq Thread
  BY ThreadFacts DEF Types
<1>b. /\ tasks \in Seq(Task) /\ hand \in [Worker -> Task \cup {NoTask}]
      /\ Len(tasks) \in Nat /\ pushed \in Nat /\ Len(tasks) <= pushed
  BY ContractFacts, BoundAssumption DEF Types
<1>1. ASSUME NEW w \in Worker,
             \/ WorkerLock(w) \/ WorkerWake(w) \/ WorkerTimeout(w) \/ WorkerLoop(w)
             \/ WorkerCheck(w) \/ WorkerPred(w) \/ WorkerBlock(w) \/ WorkerLook(w)
      PROVE  Kept
  BY <1>1, <1>a DEF WorkerLock, WorkerWake, WorkerTimeout, WorkerLoop, WorkerCheck,
                    WorkerPred, WorkerBlock, WorkerLook, Goto, Runs
<1>2. ASSUME NEW w \in Worker, WorkerCount(w) \/ WorkerSignal(w)
      PROVE  Kept
  BY <1>2, <1>a, <1>b DEF WorkerCount, WorkerSignal, Goto, Runs
<1>3. ASSUME NEW t \in Thread, PushNotify(t) \/ SpuriousWake(t)
      PROVE  Kept
  <2>1. CASE PushNotify(t)
    BY <2>1, <1>a DEF PushNotify, GotoNotifying, Asleep, Runs
  <2>2. CASE SpuriousWake(t)
    BY <2>2, <1>a DEF SpuriousWake, Goto, Runs
  <2> QED
    BY <1>3, <2>1, <2>2
<1>4. ASSUME \/ pause \/ unpause \/ wait_for_tasks \/ WaitLock \/ WaitWake
             \/ WaitPred \/ WaitBlock \/ ClearRunning \/ JoinWorkers
      PROVE  Kept
  BY <1>4, <1>a DEF pause, unpause, wait_for_tasks, WaitLock, WaitWake,
                    WaitPred, WaitBlock, ClearRunning, JoinWorkers, Goto, Runs
<1>5. ASSUME NotifyAll \/ Gone \/ UNCHANGED vars
      PROVE  Kept
  BY <1>5, <1>a DEF NotifyAll, Gone, vars, Runs
<1>6. ASSUME NEW t \in Thread, push_task(t)
      PROVE  OnceInOrder'
  <2>1. /\ \A w \in Worker : Runs(w)' <=> Runs(w)
        /\ UNCHANGED <<hand, ended>>
    BY <1>6, <1>a DEF push_task, Goto, Runs
  <2>2. /\ pushed' = pushed + 1 /\ tasks' = Append(tasks, pushed + 1)
        /\ pushed + 1 \in Task
    BY <1>6, BoundAssumption DEF push_task, Task, Types
  <2>3. Len(tasks') = Len(tasks) + 1 /\ DOMAIN tasks' = 1 .. Len(tasks) + 1
    BY <1>b, <2>2
  <2>4. pushed' - Len(tasks') = pushed - Len(tasks)
    BY <1>b, <2>2, <2>3
  <2>5. \A i \in DOMAIN tasks' : tasks'[i] = pushed - Len(tasks) + i
    BY <1>b, <2>2, <2>3 DEF OnceInOrder
  <2> QED
    BY <2>1, <2>4, <2>5 DEF OnceInOrder
<1>7. ASSUME NEW w \in Worker, WorkerTake(w)
      PROVE  OnceInOrder'
  <2>a. tasks # <<>>
    BY <1>7, ContractFacts DEF WorkerTake, Goto, Taking
  <2> DEFINE taken == pushed - Len(tasks)
  <2>1. /\ pc' = [pc EXCEPT ![w] = "task"] /\ pc[w] = "take"
        /\ hand' = [hand EXCEPT ![w] = tasks[1]] /\ tasks' = Tail(tasks)
        /\ UNCHANGED <<pushed, ended>>
    BY <1>7, <1>b, <2>a DEF WorkerTake, Goto
  <2>2. tasks[1] = taken + 1 /\ taken \in Nat
    BY <1>b, <2>a DEF OnceInOrder
  <2>3. /\ Len(tasks') = Len(tasks) - 1 /\ DOMAIN tasks' = 1 .. Len(tasks) - 1
        /\ \A i \in DOMAIN tasks' : tasks'[i] = tasks[i + 1]
    BY <1>b, <2>a, <2>1
  <2>4. pushed' - Len(tasks') = taken + 1
    <3>1. pushed' = pushed
      BY <2>1
    <3> QED
      BY <1>b, <2>3, <3>1
  <2>5. \A i \in DOMAIN tasks' : tasks'[i] = taken + 1 + i
    <3>1. \A i \in 1 .. Len(tasks) : tasks[i] = taken + i
      BY <1>b DEF OnceInOrder
    <3>2. ASSUME NEW i \in 1 .. Len(tasks) - 1
          PROVE  tasks[i + 1] = taken + 1 + i
      <4>1. i + 1 \in 1 .. Len(tasks)
        BY <1>b
      <4>2. tasks[i + 1] = taken + (i + 1)
        BY <3>1, <4>1
      <4> QED
        BY <1>b, <4>2
    <3> QED
      BY <2>3, <3>2
  <2>6. \A v \in Worker : /\ Runs(v)' <=> Runs(v) \/ v = w
                          /\ v # w => hand'[v] = hand[v]
    BY <1>a, <1>b, <2>1 DEF Runs
  <2>7. ~Runs(w) /\ hand'[w] = taken + 1
    BY <1>b, <2>1, <2>2 DEF Runs
  <2>8. 1 .. taken + 1 = (1 .. taken) \cup {taken + 1} /\ taken + 1 \notin 1 .. taken
    BY <2>2
  <2>9. /\ ended \subseteq 1 .. taken
        /\ \A t \in (1 .. taken) \ ended : \E v \in Worker : Runs(v) /\ hand[v] = t
        /\ \A v \in Worker : Runs(v) => hand[v] \in (1 .. taken) \ ended
        /\ \A u, v \in Worker : Runs(u) /\ Runs(v) /\ hand[u] = hand[v] => u = v
    BY DEF OnceInOrder
  <2> HIDE DEF taken
  <2>10. ended' \subseteq 1 .. taken + 1
    BY <2>1, <2>8, <2>9
  <2>11. \A t \in (1 .. taken + 1) \ ended' : \E v \in Worker : Runs(v)' /\ hand'[v] = t
    BY <2>1, <2>6, <2>7, <2>8, <2>9
  <2>12. \A v \in Worker : Runs(v)' => hand'[v] \in (1 .. taken + 1) \ ended'
    BY <2>1, <2>6, <2>7, <2>8, <2>9
  <2>13. \A u, v \in Worker : Runs(u)' /\ Runs(v)' /\ hand'[u] = hand'[v] => u = v
    BY <2>6, <2>7, <2>8, <2>9
  <2> QED
    BY <2>4, <2>5, <2>10, <2>11, <2>12, <2>13 DEF OnceInOrder
<1>8. ASSUME NEW w \in Worker, TaskEnds(w)
      PROVE  OnceInOrder'
  <2>1. \A v \in Worker : Runs(v)' <=> Runs(v) /\ v # w
    BY <1>8, <1>a DEF TaskEnds, Goto, Runs
  <2>2. Runs(w) /\ ended' = ended \cup {hand[w]} /\ UNCHANGED <<tasks, hand, pushed>>
    BY <1>8 DEF TaskEnds, Goto, Runs
  <2>3. hand[w] \in 1 .. pushed - Len(tasks)
        /\ \A v \in Worker : Runs(v) /\ v # w => hand[v] # hand[w]
    BY <2>2 DEF OnceInOrder
  <2>4. ended' \subseteq 1 .. pushed - Len(tasks)
    BY <2>2, <2>3 DEF OnceInOrder
  <2>5. \A t \in (1 .. pushed - Len(tasks)) \ ended' :
          \E v \in Worker : Runs(v)' /\ hand[v] = t
    BY <2>1, <2>2 DEF OnceInOrder
  <2>6. \A v \in Worker : Runs(v)' => hand[v] \in (1 .. pushed - Len(tasks)) \ ended'
    BY <2>1, <2>2, <2>3 DEF OnceInOrder
  <2>7. \A u, v \in Worker : Runs(u)' /\ Runs(v)' /\ hand[u] = hand[v] => u = v
    BY <2>1 DEF OnceInOrder
  <2>8. \A i \in DOMAIN tasks : tasks[i] = pushed - Len(tasks) + i
    BY DEF OnceInOrder
  <2> QED
    BY <2>2, <2>4, <2>5, <2>6, <2>7, <2>8 DEF OnceInOrder
<1>9. ASSUME Kept PROVE OnceInOrder'
  BY <1>9, OrderKept
<1> HIDE DEF Kept
<1> QED
  BY <1>1, <1>2, <1>3, <1>4, <1>5, <1>6, <1>7, <1>8, <1>9, ThreadFacts
     DEF Next, WorkerAcquires, WorkerMoves, OwnerAcquires, OwnerMoves

\* Every task pushed is queued in order, running on one worker, or ended
\* (thread_pool.hpp:85, 139).
THEOREM AlwaysOnceInOrder == Spec => []OnceInOrder
<1>1. Init => OnceInOrder
  BY ThreadFacts DEF Init, OnceInOrder, Runs
<1> QED
  BY <1>1, OrderStep, InvHolds, PTL DEF Spec

\* When the workers have been joined no task is half done, and only a paused
\* pool leaves tasks in its queue (thread_pool.hpp:32).
THEOREM NeverCutShort == Spec => []NothingCutShort
<1>1. ASSUME IInv, OnceInOrder PROVE NothingCutShort
  <2> SUFFICES ASSUME pc[Owner] = "gone"
               PROVE  (1 .. pushed) \ ended =
                        IF paused THEN {tasks[i] : i \in DOMAIN tasks} ELSE {}
    BY DEF NothingCutShort
  <2> DEFINE taken == pushed - Len(tasks)
  <2>1. AllDone /\ ~running
    BY <1>1 DEF IInv, OwnerAgrees, Stopping
  <2>2. /\ \A w \in Worker : hand[w] = NoTask
        /\ ~paused => tasks = <<>>
        /\ tasks \in Seq(Task) /\ Len(tasks) \in Nat
    BY <1>1, <2>1, ContractFacts DEF IInv
  <2>3. \A w \in Worker : ~Runs(w)
    BY <1>1, <2>2 DEF IInv, HandsAgree, Runs
  <2>4. ended = 1 .. taken
    BY <1>1, <2>3 DEF OnceInOrder
  <2>5. pushed \in Nat /\ taken \in Nat
    BY <1>1, <2>2, ContractFacts, BoundAssumption DEF IInv, Types
  <2>6. (1 .. pushed) \ ended = {taken + i : i \in 1 .. Len(tasks)}
    <3>1. ASSUME NEW n \in (1 .. pushed) \ ended
          PROVE  n - taken \in 1 .. Len(tasks) /\ n = taken + (n - taken)
      BY <2>2, <2>4, <2>5
    <3>2. ASSUME NEW i \in 1 .. Len(tasks)
          PROVE  taken + i \in (1 .. pushed) \ ended
      BY <2>2, <2>4, <2>5
    <3> QED
      BY <3>1, <3>2
  <2>7. DOMAIN tasks = 1 .. Len(tasks) /\ \A i \in DOMAIN tasks : tasks[i] = taken + i
    BY <1>1, <2>2 DEF OnceInOrder
  <2>8. {tasks[i] : i \in DOMAIN tasks} = {taken + i : i \in 1 .. Len(tasks)}
    BY <2>7
  <2>9. ~paused => 1 .. Len(tasks) = {}
    BY <2>2
  <2> QED
    BY <2>6, <2>8, <2>9
<1> QED
  BY <1>1, InvHolds, AlwaysOnceInOrder, PTL

-----------------------------------------------------------------------------
(* Whoever waits is notified. *)

MayForget == {"wait block", "wait asleep"}

\* Three ways in which a step might leave the owner forgotten.
LEMMA NothingForgotten ==
  ASSUME AllDone' => AllDone,
         pc'[Owner] \in MayForget => pc[Owner] \in MayForget,
         \A w \in Worker : pc[w] = "signal" => pc'[w] = "signal"
  PROVE  ~Forgotten => ~Forgotten'
BY DEF Forgotten, MayForget

LEMMA ForgottenStep ==
  ASSUME IInv, [Next]_vars, ~Forgotten, Forgotten'
  PROVE  ~paused /\ paused'
<1> USE DEF IInv
<1> DEFINE Kept == /\ AllDone' => AllDone
                   /\ pc'[Owner] \in MayForget => pc[Owner] \in MayForget
                   /\ \A w \in Worker : pc[w] = "signal" => pc'[w] = "signal"
<1>a. /\ pc \in [Thread -> WorkerAt \cup OwnerAt]
      /\ Owner \in Thread /\ Owner \notin Worker /\ Worker \subseteq Thread
  BY ThreadFacts DEF Types
<1>b. /\ tasks \in Seq(Task) /\ tasks_total \in Nat /\ paused \in BOOLEAN
      /\ Len(tasks) \in Nat /\ Len(tasks) <= tasks_total
  BY ContractFacts, BoundAssumption
<1>1. ASSUME NEW w \in Worker,
             \/ WorkerLock(w) \/ WorkerWake(w) \/ WorkerTimeout(w) \/ WorkerLoop(w)
             \/ WorkerCheck(w) \/ WorkerPred(w) \/ WorkerBlock(w) \/ WorkerLook(w)
             \/ TaskEnds(w)
      PROVE  Kept
  <2>1. AllDone' = AllDone
    BY <1>1 DEF WorkerLock, WorkerWake, WorkerTimeout, WorkerLoop, WorkerCheck,
                WorkerPred, WorkerBlock, WorkerLook, TaskEnds, AllDone, flags
  <2>2. pc'[Owner] = pc[Owner] /\ \A v \in Worker : pc[v] = "signal" => pc'[v] = "signal"
    BY <1>1, <1>a DEF WorkerLock, WorkerWake, WorkerTimeout, WorkerLoop, WorkerCheck,
                      WorkerPred, WorkerBlock, WorkerLook, TaskEnds, Goto
  <2> QED
    BY <2>1, <2>2
<1>2. ASSUME NEW w \in Worker, WorkerTake(w)
      PROVE  Kept
  <2>1. AllDone' => AllDone
    <3>1. tasks # <<>>
      BY <1>2, ContractFacts DEF WorkerTake, Goto, Taking
    <3>2. Len(tasks') = Len(tasks) - 1 /\ UNCHANGED <<paused, tasks_total>>
      BY <1>2, <1>b, <3>1 DEF WorkerTake, flags
    <3> QED
      BY <1>b, <3>2 DEF AllDone
  <2>2. pc'[Owner] = pc[Owner] /\ \A v \in Worker : pc[v] = "signal" => pc'[v] = "signal"
    BY <1>2, <1>a DEF WorkerTake, Goto
  <2> QED
    BY <2>1, <2>2
<1>3. ASSUME NEW w \in Worker, WorkerCount(w)
      PROVE  FALSE
  BY <1>3, <1>a DEF WorkerCount, Goto, Forgotten
<1>4. ASSUME NEW w \in Worker, WorkerSignal(w)
      PROVE  FALSE
  <2>1. pc[Owner] # "wait block"
    BY <1>4, <1>a DEF WorkerSignal, MutexHeld, Holding
  <2>2. pc[Owner] = "wait asleep" => waiting
    BY DEF OwnerAgrees, Waits
  <2>3. pc'[Owner] \notin MayForget
    BY <1>4, <1>a, <2>1, <2>2 DEF WorkerSignal, MayForget
  <2> QED
    BY <2>3 DEF Forgotten, MayForget
<1>5. ASSUME NEW t \in Thread, push_task(t)
      PROVE  Kept
  <2>1. AllDone' => AllDone
    <3>1. tasks_total' = tasks_total + 1 /\ Len(tasks') = Len(tasks) + 1 /\ paused' = paused
      BY <1>5, <1>b DEF push_task, flags
    <3> QED
      BY <1>b, <3>1 DEF AllDone
  <2>2. pc'[Owner] \in MayForget => pc[Owner] \in MayForget
    BY <1>5, <1>a DEF push_task, Goto, MayForget
  <2>3. \A v \in Worker : pc[v] = "signal" => pc'[v] = "signal"
    BY <1>5, <1>a DEF push_task, Goto
  <2> QED
    BY <2>1, <2>2, <2>3
<1>6. ASSUME NEW t \in Thread, PushNotify(t) \/ SpuriousWake(t)
      PROVE  Kept
  <2>1. AllDone' = AllDone
    <3>1. UNCHANGED <<paused, tasks, tasks_total>>
      BY <1>6 DEF PushNotify, SpuriousWake, flags
    <3> QED
      BY <3>1 DEF AllDone
  <2>2. pc'[Owner] \in MayForget => pc[Owner] \in MayForget
    <3>1. CASE PushNotify(t)
      BY <1>a, <3>1 DEF PushNotify, GotoNotifying, Asleep, MayForget
    <3>2. CASE SpuriousWake(t)
      BY <1>a, <3>2 DEF SpuriousWake, Goto, MayForget
    <3> QED
      BY <1>6, <3>1, <3>2
  <2>3. \A v \in Worker : pc[v] = "signal" => pc'[v] = "signal"
    <3>1. CASE PushNotify(t)
      BY <1>a, <3>1 DEF PushNotify, GotoNotifying, Asleep
    <3>2. CASE SpuriousWake(t)
      BY <1>a, <3>2 DEF SpuriousWake, Goto
    <3> QED
      BY <1>6, <3>1, <3>2
  <2> QED
    BY <2>1, <2>2, <2>3
<1>7. ASSUME pause
      PROVE  Kept \/ (~paused /\ paused')
  <2>1. CASE paused
    BY <1>7, <2>1 DEF pause, AllDone
  <2>2. CASE ~paused
    BY <1>7, <2>2 DEF pause
  <2> QED
    BY <2>1, <2>2
<1>8. ASSUME unpause
      PROVE  Kept
  <2>1. UNCHANGED <<tasks, tasks_total, pc>> /\ paused' = FALSE
    BY <1>8 DEF unpause
  <2>2. AllDone' => tasks_total = 0
    BY <2>1 DEF AllDone
  <2>3. tasks_total = 0 => AllDone
    BY <1>b DEF AllDone
  <2> QED
    BY <2>1, <2>2, <2>3
<1>9. ASSUME WaitBlock \/ Gone \/ UNCHANGED vars
      PROVE  Kept
  <2>1. UNCHANGED <<paused, tasks, tasks_total>>
    BY <1>9 DEF WaitBlock, Gone, vars, flags
  <2>2. AllDone' = AllDone
    BY <2>1 DEF AllDone
  <2>3. CASE WaitBlock
    BY <1>a, <2>2, <2>3 DEF WaitBlock, Goto, MayForget
  <2>4. CASE Gone \/ UNCHANGED vars
    BY <2>2, <2>4 DEF Gone, vars
  <2> QED
    BY <1>9, <2>3, <2>4
<1>10. ASSUME WaitPred
       PROVE  FALSE
  <2>1. AllDone' = AllDone
    BY <1>10 DEF WaitPred, AllDone
  <2>2. AllDone => pc'[Owner] \notin MayForget
    BY <1>10, <1>a DEF WaitPred, Goto, MayForget
  <2> QED
    BY <2>1, <2>2 DEF Forgotten, MayForget
<1>11. ASSUME \/ wait_for_tasks \/ WaitLock \/ WaitWake \/ ClearRunning
              \/ NotifyAll \/ JoinWorkers
       PROVE  FALSE
  <2>1. pc'[Owner] \notin MayForget
    BY <1>11, <1>a DEF wait_for_tasks, WaitLock, WaitWake, ClearRunning,
                       NotifyAll, JoinWorkers, Goto, MayForget
  <2> QED
    BY <2>1 DEF Forgotten, MayForget
<1>12. ~Kept
  BY NothingForgotten
<1> HIDE DEF Kept
<1> QED
  BY <1>1, <1>2, <1>3, <1>4, <1>5, <1>6, <1>7, <1>8, <1>9, <1>10, <1>11, <1>12,
     ThreadFacts
     DEF Next, WorkerAcquires, WorkerMoves, OwnerAcquires, OwnerMoves

\* No step but a pause() leaves the owner asleep when it could return
\* (thread_pool.hpp:41, 93, 152).
THEOREM OnlyPauseForgets == Spec => WaiterNotForgotten
<1>1. IInv /\ [Next]_vars => [~Forgotten /\ Forgotten' => ~paused /\ paused']_vars
  BY ForgottenStep
<1> QED
  BY <1>1, InvHolds, PTL DEF Spec, WaiterNotForgotten
=============================================================================
