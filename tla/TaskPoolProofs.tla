--------------------------- MODULE TaskPoolProofs ---------------------------
(***************************************************************************)
(* The contract of the pool keeps its promises, for every set of tasks and *)
(* workers and every size of the memory.                                   *)
(***************************************************************************)
EXTENDS TaskPool, FiniteSetTheorems, TLAPS

\* The worker that is about to take a task is idle, alone, and will find one.
TakerReady ==
  /\ taking # {} => tasks # <<>> /\ running
  /\ \A w \in taking : hand[w] = NoTask /\ taking = {w}

\* No conjunct is inductive alone: that the counter stays in its range when a
\* task is counted off needs CountExact, that a drained pool has no busy worker
\* needs it too, and that a task is there to be taken needs TakerReady.
IInv == TypeOK /\ CountExact /\ QuietAfterShutdown /\ TakerReady

\* Busy sets are finite, and empty exactly when their cardinality is 0.
LEMMA BusyFinite ==
  /\ IsFiniteSet(Busy)
  /\ Cardinality(Busy) \in Nat
  /\ Cardinality(Busy) = 0 <=> Busy = {}
<1>1. Busy \subseteq Worker
  BY DEF Busy
<1> QED
  BY <1>1, WorkerAssumption, FS_Subset, FS_CardinalityType, FS_EmptySet

\* Taking a task makes one more worker busy, counting one off one less.
LEMMA BusyChanges ==
  ASSUME TypeOK, TakerReady, NEW w \in Worker
  PROVE  /\ Take(w) => Cardinality(Busy') = Cardinality(Busy) + 1
         /\ Finish(w) => /\ Cardinality(Busy) > 0
                         /\ Cardinality(Busy') = Cardinality(Busy) - 1
<1>1. ASSUME Take(w)
      PROVE  Cardinality(Busy') = Cardinality(Busy) + 1
  <2>1. Head(tasks) # NoTask
    BY <1>1, NoTaskAssumption DEF TypeOK, Take, TakerReady
  <2>2. Busy' = Busy \cup {w} /\ w \notin Busy
    BY <1>1, <2>1 DEF TypeOK, Take, Busy, TakerReady
  <2> QED
    BY <2>2, BusyFinite, FS_AddElement
<1>2. ASSUME Finish(w)
      PROVE  /\ Cardinality(Busy) > 0
             /\ Cardinality(Busy') = Cardinality(Busy) - 1
  <2>1. Busy' = Busy \ {w} /\ w \in Busy
    BY <1>2 DEF TypeOK, Finish, Busy
  <2>2. Busy # {}
    BY <2>1
  <2> QED
    BY <2>1, <2>2, BusyFinite, FS_RemoveElement
<1> QED
  BY <1>1, <1>2

LEMMA InitInv == Init => IInv
<1> SUFFICES ASSUME Init PROVE IInv
  OBVIOUS
<1>1. TypeOK
  <2>1. tasks \in Seq(Task)
    BY DEF Init
  <2>2. tasks_total \in 0 .. MaxTasks
    BY MaxTasksAssumption DEF Init
  <2> QED
    BY <2>1, <2>2 DEF Init, TypeOK
<1>2. Busy = {}
  BY DEF Init, Busy
<1> QED
  BY <1>1, <1>2, FS_EmptySet
     DEF Init, IInv, CountExact, QuietAfterShutdown, TakerReady

LEMMA StepInv == IInv /\ [Next]_vars => IInv'
<1> SUFFICES ASSUME IInv, [Next]_vars PROVE IInv'
  OBVIOUS
<1> USE DEF IInv
<1>a. TypeOK /\ CountExact /\ QuietAfterShutdown /\ TakerReady
  OBVIOUS
<1>1. CASE \E t \in Task : Push(t)
  <2>1. PICK t \in Task : Push(t)
    BY <1>1
  <2>2. Busy' = Busy
    BY <2>1 DEF Push, Busy
  <2>3. TypeOK'
    BY <2>1, MaxTasksAssumption DEF TypeOK, Push
  <2>4. CountExact'
    BY <2>1, <2>2, BusyFinite DEF TypeOK, CountExact, Push
  <2>5. tasks' # <<>>
    BY <2>1 DEF TypeOK, Push
  <2> QED
    BY <2>1, <2>3, <2>4, <2>5 DEF Push, QuietAfterShutdown, TakerReady
<1>2. CASE \E w \in Worker : Take(w)
  <2>1. PICK w \in Worker : Take(w)
    BY <1>2
  <2>2. Head(tasks) \in Task /\ Tail(tasks) \in Seq(Task)
        /\ Len(Tail(tasks)) = Len(tasks) - 1
    BY <2>1 DEF TypeOK, Take, TakerReady
  <2>3. TypeOK'
    BY <2>1, <2>2 DEF TypeOK, Take
  <2>4. Cardinality(Busy') = Cardinality(Busy) + 1
    BY <2>1, BusyChanges
  <2>5. Len(tasks') = Len(tasks) - 1 /\ Len(tasks) \in Nat
    BY <2>1, <2>2 DEF TypeOK, Take
  <2>6. CountExact'
    BY <2>1, <2>4, <2>5, BusyFinite DEF TypeOK, CountExact, Take
  <2>7. running
    BY <2>1 DEF Take, TakerReady
  <2> QED
    BY <2>1, <2>3, <2>6, <2>7 DEF Take, QuietAfterShutdown, TakerReady
<1>3. CASE \E w \in Worker : Finish(w)
  <2>1. PICK w \in Worker : Finish(w)
    BY <1>3
  <2>2. Cardinality(Busy) > 0 /\ Cardinality(Busy') = Cardinality(Busy) - 1
    BY <2>1, BusyChanges
  <2>3. TypeOK'
    BY <2>1, <2>2, BusyFinite, MaxTasksAssumption DEF TypeOK, CountExact, Finish
  <2>4. CountExact'
    BY <2>1, <2>2, BusyFinite DEF TypeOK, CountExact, Finish
  <2>5. running
    BY <2>2, BusyFinite DEF QuietAfterShutdown
  <2>6. w \notin taking
    BY <2>1 DEF Finish, TakerReady
  <2>7. TakerReady'
    BY <2>1, <2>6 DEF TypeOK, Finish, TakerReady
  <2> QED
    BY <2>1, <2>3, <2>4, <2>5, <2>7 DEF Finish, QuietAfterShutdown
<1>4. CASE Pause \/ Unpause
  <2>1. Busy' = Busy
    BY <1>4 DEF Pause, Unpause, Busy
  <2> QED
    BY <1>4, <2>1
       DEF Pause, Unpause, TypeOK, CountExact, QuietAfterShutdown, TakerReady
<1>5. CASE Shutdown
  <2>1. Busy' = Busy
    BY <1>5 DEF Shutdown, Busy
  <2>2. Len(tasks) \in Nat /\ (Len(tasks) = 0 <=> tasks = <<>>)
    BY DEF TypeOK
  <2>3. Busy = {} /\ (paused \/ tasks = <<>>)
    BY <1>5, <2>2, BusyFinite DEF Shutdown, Drained, CountExact
  <2> QED
    BY <1>5, <2>1, <2>3
       DEF Shutdown, TypeOK, CountExact, QuietAfterShutdown, TakerReady
<1>6. CASE UNCHANGED vars
  <2>1. Busy' = Busy
    BY <1>6 DEF vars, Busy
  <2> QED
    BY <1>6, <2>1 DEF vars, TypeOK, CountExact, QuietAfterShutdown, TakerReady
<1>7. CASE \E w \in Worker : Look(w)
  <2>1. PICK w \in Worker : Look(w)
    BY <1>7
  <2>2. Busy' = Busy
    BY <2>1 DEF Look, Busy
  <2>3. TypeOK'
    BY <2>1 DEF Look, TypeOK
  <2>4. TakerReady'
    BY <2>1 DEF Look, TakerReady
  <2> QED
    BY <2>1, <2>2, <2>3, <2>4 DEF Look, CountExact, QuietAfterShutdown
<1> QED
  BY <1>1, <1>2, <1>3, <1>4, <1>5, <1>6, <1>7 DEF Next

\* What a client that polls the counter may conclude from the invariant.
LEMMA ZeroMeansIdle ==
  ASSUME IInv
  PROVE  /\ tasks \in Seq(Task) /\ hand \in [Worker -> Task \cup {NoTask}]
         /\ tasks_total \in Nat
         /\ tasks_total = 0 => tasks = <<>> /\ \A w \in Worker : hand[w] = NoTask
<1>1. tasks \in Seq(Task) /\ hand \in [Worker -> Task \cup {NoTask}]
      /\ tasks_total \in Nat
  BY MaxTasksAssumption DEF IInv, TypeOK
<1>2. Len(tasks) \in Nat /\ (Len(tasks) = 0 => tasks = <<>>)
  BY <1>1
<1>3. tasks_total = 0 => Len(tasks) = 0 /\ Cardinality(Busy) = 0
  BY <1>1, <1>2, BusyFinite DEF IInv, CountExact
<1> QED
  BY <1>1, <1>2, <1>3, BusyFinite DEF Busy

\* What the pool promises holds in every state: the types, the exact counter
\* and, after the destructor, no half-done task.
THEOREM InvHolds == Spec => []IInv
BY InitInv, StepInv, PTL DEF Spec

\* The variables of the pool have their types; the counter stays in 0..MaxTasks.
THEOREM TypeCorrect == Spec => []TypeOK
BY InvHolds, PTL DEF IInv

\* get_tasks_count() is 0 only when no work is left (thread_pool.hpp:74).
THEOREM CountAlwaysExact == Spec => []CountExact
BY InvHolds, PTL DEF IInv

\* The destructor leaves no half-done task (thread_pool.hpp:32).
THEOREM AlwaysQuietAfterShutdown == Spec => []QuietAfterShutdown
BY InvHolds, PTL DEF IInv
=============================================================================
