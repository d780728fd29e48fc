-------------------------- MODULE ScanEngineProofs --------------------------
(***************************************************************************)
(* The scan engine declares a scan over only when it is complete, for every *)
(* tree, every number of workers and whatever allocation fails.  What a     *)
(* scan leaves behind: for any number of launches the types, an object      *)
(* nobody is left in when its destructor has returned, and a stop() after   *)
(* which at most one task starts; for the first launch an exact total, and  *)
(* every file recorded as what it is.                                       *)
(***************************************************************************)
EXTENDS ScanEngine, FiniteSetTheorems, TLAPS

PoolProofs == INSTANCE TaskPoolProofs WITH Task <- Path

-----------------------------------------------------------------------------
(* The inductive invariant. *)

Entries == Path \cup File \cup Link

Types ==
  /\ unscanned_dirs \in Seq(Path) /\ next \in Nat \ {0} /\ launches \in Nat
  /\ scanning \in BOOLEAN /\ stopped \in BOOLEAN
  /\ notifier \in NotifierAt
  /\ at \in [Worker -> WorkerAt]
  /\ unread \in [Worker -> SUBSET Entries]
  /\ found \in [Worker -> SUBSET Entries]
  /\ roots \subseteq Path /\ scanned \subseteq Path

\* Before the first launch nothing goes on; while it pushes, neither helper
\* has been started.
LaunchOrder ==
  /\ launches = 0 =>
       /\ notifier = "none" /\ recorder = "none"
       /\ user \notin {"launching", "start notifier"}
       /\ tasks = <<>> /\ \A w \in Worker : at[w] = "idle"
  /\ user = "launching" => recorder = "none"
  /\ user \in {"launching", "start notifier"} => notifier = "none"

NobodyKilled ==
  user # "killed" /\ notifier # "killed" /\ \A w \in Worker : at[w] # "killed"

HandsAgree == \A w \in Worker : at[w] = "idle" <=> hand[w] = NoTask

\* Nothing is left, and so nothing can push, once the scan is declared over;
\* until then nobody but stop() has cleared running_.
OverIsIdle == Over => tasks_total = 0
ScanningOn ==
  FirstScan /\ notifier \in {"none", "poll", "clear"} => scanning

\* What do_scan still holds at each of its places.
Pending ==
  \A w \in Worker :
    /\ at[w] # "read" => unread[w] = {}
    /\ at[w] \notin {"read", "count", "lock dirs", "push"} => found[w] \cap Path = {}

\* The paths that are queued, in a worker's hand or scanned.
Known == Range(tasks) \cup Range(hand) \cup scanned

\* The subdirectories of a directory that is being or has been scanned are
\* known, or still in the lists of the task that scans it.
ChildrenKnown ==
  ~stopped =>
    /\ \A w \in Worker :
         at[w] \notin {"idle", "enter"} /\ Expands(hand[w]) =>
           SubDirs[hand[w]] \subseteq unread[w] \cup found[w] \cup Known
    /\ \A p \in scanned : Expands(p) => SubDirs[p] \subseteq Known

\* The roots are known, or launch() has still to push them.
RootsKnown ==
  /\ user = "launching" =>
       \A p \in roots : \/ p \in Known
                        \/ \E i \in next .. Len(unscanned_dirs) : unscanned_dirs[i] = p
  /\ user = "start notifier" \/ notifier # "none" => roots \subseteq Known

FirstLaunchInv ==
  /\ LaunchOrder /\ NobodyKilled /\ HandsAgree /\ OverIsIdle /\ ScanningOn
  /\ Pending /\ ChildrenKnown /\ RootsKnown

IInv == PoolProofs!IInv /\ Types /\ (launches <= 1 => FirstLaunchInv)

-----------------------------------------------------------------------------
(* The pool. *)

LEMMA PoolAssumptions ==
  /\ PoolProofs!WorkerAssumption
  /\ PoolProofs!NoTaskAssumption
  /\ PoolProofs!MaxTasksAssumption
BY ThreadAssumption, SwitchAssumption
   DEF PoolProofs!WorkerAssumption, PoolProofs!NoTaskAssumption,
       PoolProofs!MaxTasksAssumption, IsFiniteSet, PoolProofs!IsFiniteSet

\* The two instances of TaskPool are the same.
LEMMA SamePool ==
  /\ Pool!Init <=> PoolProofs!Init
  /\ [Pool!Next]_Pool!vars <=> [PoolProofs!Next]_PoolProofs!vars
BY DEF Pool!Init, PoolProofs!Init, Pool!Next, PoolProofs!Next, Pool!vars,
       PoolProofs!vars, Pool!Push, PoolProofs!Push, Pool!Look, PoolProofs!Look,
       Pool!Take, PoolProofs!Take,
       Pool!Finish, PoolProofs!Finish, Pool!Pause, PoolProofs!Pause,
       Pool!Unpause, PoolProofs!Unpause, Pool!Shutdown, PoolProofs!Shutdown,
       Pool!Drained, PoolProofs!Drained

LEMMA PoolFacts ==
  ASSUME PoolProofs!IInv
  PROVE  /\ tasks \in Seq(Path) /\ hand \in [Worker -> Path \cup {NoTask}]
         /\ tasks_total \in Nat
         /\ tasks_total = 0 => tasks = <<>> /\ \A w \in Worker : hand[w] = NoTask
BY PoolAssumptions, PoolProofs!ZeroMeansIdle

\* A step of the engine is a step of the pool, or leaves the pool alone.
LEMMA PoolStep ==
  ASSUME Types, [Next]_vars
  PROVE  [Pool!Next]_Pool!vars
<1>1. CASE LaunchPush
  <2>1. unscanned_dirs[next] \in Path
    BY <1>1 DEF Types, LaunchPush
  <2> QED
    BY <1>1, <2>1 DEF LaunchPush, Pool!Next
<1>2. CASE \E w \in Worker : PushDir(w)
  BY <1>2 DEF PushDir, Pool!Next
<1>3. CASE \E w \in Worker : LookForTask(w) \/ TakeTask(w) \/ ReturnFromScan(w)
  BY <1>3 DEF LookForTask, TakeTask, ReturnFromScan, Pool!Next
<1>4. CASE StopPauses \/ NotifierPauses \/ ClosePool
  BY <1>4 DEF StopPauses, NotifierPauses, ClosePool, Pool!Next
<1>5. CASE \/ \E p \in RootPath : add_path(p)
           \/ launch \/ wait \/ LaunchThrows \/ StartRecorder \/ StartNotifier
           \/ StartTerminates \/ JoinNotifier \/ JoinRecorder \/ stop
  BY <1>5 DEF add_path, launch, wait, LaunchThrows, StartRecorder,
              StartNotifier, StartTerminates, JoinNotifier, JoinRecorder, stop,
              pool, Pool!vars
<1>6. CASE \/ NotifierPolls \/ NotifierSeesEnd \/ NotifierClears
           \/ RecorderMoves \/ Gone \/ UNCHANGED vars
  BY <1>6 DEF NotifierPolls, NotifierSeesEnd, NotifierClears, RecorderMoves,
              RecorderReadsRunning, RecorderReadsEmpty, RecorderSwaps, Gone,
              vars, pool, Pool!vars
<1>7. CASE \E w \in Worker :
             \/ EnterScan(w) \/ ReadEntry(w) \/ ReadEnds(w) \/ CountEntries(w)
             \/ PushEnds(w) \/ CheckEntry(w) \/ CheckEnds(w) \/ ScanThrows(w)
             \/ ScanAcquires(w)
  BY <1>7 DEF EnterScan, ReadEntry, ReadEnds, CountEntries, PushEnds,
              CheckEntry, CheckEnds, ScanThrows, ScanAcquires, LockDirs,
              LockFiles, pool, Pool!vars
<1> QED
  BY <1>1, <1>2, <1>3, <1>4, <1>5, <1>6, <1>7
     DEF Next, UserMoves, NotifierMoves, ScanMoves

\* Whoever takes a task finds one, and has none.
LEMMA TakeFacts ==
  ASSUME PoolProofs!IInv, NEW w \in Worker, Pool!Take(w)
  PROVE  /\ tasks # <<>> /\ hand[w] = NoTask
         /\ taking = {w} /\ taking' = {} /\ running
         /\ hand' = [hand EXCEPT ![w] = Head(tasks)] /\ tasks' = Tail(tasks)
         /\ UNCHANGED <<tasks_total, paused, running>>
BY DEF PoolProofs!IInv, PoolProofs!TakerReady, Pool!Take

LEMMA PoolInvStep ==
  ASSUME PoolProofs!IInv, Types, [Next]_vars
  PROVE  PoolProofs!IInv'
BY PoolStep, SamePool, PoolAssumptions, PoolProofs!StepInv

-----------------------------------------------------------------------------
(* Steps that change nothing, or only who is about to take a task. *)

Rests ==
  UNCHANGED <<tasks, hand, tasks_total, paused, running, shared, client, helpers,
              local, history>>

LEMMA RestsCover ==
  /\ Gone => Rests
  /\ UNCHANGED vars => Rests
  /\ \A w \in Worker : LookForTask(w) => Rests
BY DEF Gone, vars, pool, Rests, LookForTask, Pool!Look

-----------------------------------------------------------------------------
(* What is known stays known. *)

LEMMA RangeAppend ==
  ASSUME NEW S, NEW s \in Seq(S), NEW e \in S
  PROVE  Range(Append(s, e)) = Range(s) \cup {e}
<1>1. Append(s, e) \in Seq(S) /\ Len(Append(s, e)) = Len(s) + 1 /\ Len(s) \in Nat
      /\ DOMAIN Append(s, e) = 1 .. Len(s) + 1 /\ DOMAIN s = 1 .. Len(s)
  OBVIOUS
<1>2. \A i \in 1 .. Len(s) : Append(s, e)[i] = s[i]
  OBVIOUS
<1>3. Append(s, e)[Len(s) + 1] = e
  OBVIOUS
<1> QED
  BY <1>1, <1>2, <1>3 DEF Range

LEMMA RangeHeadTail ==
  ASSUME NEW S, NEW s \in Seq(S), s # <<>>
  PROVE  Range(s) \subseteq {Head(s)} \cup Range(Tail(s))
<1> SUFFICES ASSUME NEW i \in 1 .. Len(s), i # 1
             PROVE  s[i] \in Range(Tail(s))
  BY DEF Range
<1>1. i - 1 \in 1 .. Len(Tail(s)) /\ Tail(s)[i - 1] = s[i]
      /\ DOMAIN Tail(s) = 1 .. Len(Tail(s))
  OBVIOUS
<1> QED
  BY <1>1 DEF Range

\* One step of a worker's hand: nothing leaves it but what it held.
LEMMA RangeHand ==
  ASSUME NEW S, NEW h \in [Worker -> S], NEW w \in Worker, NEW t
  PROVE  LET k == [h EXCEPT ![w] = t]
         IN  t \in Range(k) /\ Range(h) \subseteq {h[w]} \cup Range(k)
BY DEF Range

LEMMA KnownGrows ==
  ASSUME PoolProofs!IInv, Types, [Next]_vars
  PROVE  Known \cap Path \subseteq Known'
<1>0. tasks \in Seq(Path) /\ hand \in [Worker -> Path \cup {NoTask}]
  BY PoolFacts
<1>1. CASE tasks' = tasks /\ hand' = hand /\ scanned' = scanned
  BY <1>1 DEF Known
<1>2. ASSUME NEW d \in Path, Pool!Push(d), scanned' = scanned
      PROVE  Known \subseteq Known'
  BY <1>0, <1>2, RangeAppend DEF Known, Pool!Push
<1>3. ASSUME NEW w \in Worker, TakeTask(w)
      PROVE  Known \cap Path \subseteq Known'
  <2>1. tasks # <<>> /\ hand[w] = NoTask /\ scanned' = scanned
        /\ hand' = [hand EXCEPT ![w] = Head(tasks)] /\ tasks' = Tail(tasks)
    BY <1>3, TakeFacts DEF TakeTask
  <2>2. Range(tasks) \subseteq {Head(tasks)} \cup Range(tasks')
    BY <1>0, <2>1, RangeHeadTail
  <2>3. Head(tasks) \in Range(hand') /\ Range(hand) \subseteq {NoTask} \cup Range(hand')
    BY <1>0, <2>1, RangeHand
  <2> QED
    BY <2>1, <2>2, <2>3, ThreadAssumption DEF Known
<1>4. ASSUME NEW w \in Worker, ReturnFromScan(w)
      PROVE  Known \subseteq Known'
  <2>1. scanned' = scanned \cup {hand[w]} /\ tasks' = tasks
        /\ hand' = [hand EXCEPT ![w] = NoTask]
    BY <1>4 DEF ReturnFromScan, Pool!Finish
  <2>2. Range(hand) \subseteq {hand[w]} \cup Range(hand')
    BY <1>0, <2>1, RangeHand
  <2> QED
    BY <2>1, <2>2 DEF Known
<1>5. CASE LaunchPush
  <2>1. unscanned_dirs[next] \in Path
    BY <1>5 DEF Types, LaunchPush
  <2> QED
    BY <1>2, <1>5, <2>1 DEF LaunchPush, history
<1>6. CASE \E w \in Worker : PushDir(w)
  BY <1>2, <1>6 DEF PushDir, history
<1>7. CASE StopPauses \/ NotifierPauses \/ ClosePool
  BY <1>1, <1>7 DEF StopPauses, NotifierPauses, ClosePool, Pool!Pause,
                    Pool!Shutdown, history
<1>8. CASE \/ \E p \in RootPath : add_path(p)
           \/ launch \/ wait \/ LaunchThrows \/ StartRecorder \/ StartNotifier
           \/ StartTerminates \/ JoinNotifier \/ JoinRecorder \/ stop
  BY <1>1, <1>8 DEF add_path, launch, wait, LaunchThrows, StartRecorder,
              StartNotifier, StartTerminates, JoinNotifier, JoinRecorder, stop,
              pool, history
<1>9. CASE \/ NotifierPolls \/ NotifierSeesEnd \/ NotifierClears
           \/ RecorderMoves \/ Rests
  BY <1>1, <1>9 DEF NotifierPolls, NotifierSeesEnd, NotifierClears,
              RecorderMoves, RecorderReadsRunning, RecorderReadsEmpty,
              RecorderSwaps, Rests, vars, pool, history
<1>10. CASE \E w \in Worker :
             \/ EnterScan(w) \/ ReadEntry(w) \/ ReadEnds(w) \/ CountEntries(w)
             \/ PushEnds(w) \/ CheckEntry(w) \/ CheckEnds(w) \/ ScanThrows(w)
             \/ ScanAcquires(w)
  BY <1>1, <1>10 DEF EnterScan, ReadEntry, ReadEnds, CountEntries, PushEnds,
              CheckEntry, CheckEnds, ScanThrows, ScanAcquires, LockDirs,
              LockFiles, pool, history
<1> QED
  BY <1>3, <1>4, <1>5, <1>6, <1>7, <1>8, <1>9, <1>10, RestsCover
     DEF Next, UserMoves, NotifierMoves, ScanMoves

-----------------------------------------------------------------------------
(* Types, one step per group of actions. *)

LEMMA TypesStep ==
  ASSUME PoolProofs!IInv, Types, [Next]_vars
  PROVE  Types'
<1>0. hand \in [Worker -> Path \cup {NoTask}]
  BY PoolFacts
<1>1. CASE \/ wait \/ LaunchThrows \/ StartRecorder \/ StartNotifier
           \/ JoinNotifier \/ JoinRecorder \/ stop
  BY <1>1 DEF Types, wait, LaunchThrows, StartRecorder, StartNotifier,
         JoinNotifier, JoinRecorder, stop, local, helpers, history, shared,
         NotifierAt
<1>9. CASE StartTerminates
  BY <1>9 DEF Types, StartTerminates, shared, history, NotifierAt, WorkerAt
<1>10. ASSUME NEW p \in RootPath, add_path(p)
       PROVE  Types'
  <2>1. Append(unscanned_dirs, p) \in Seq(Path)
    BY TreeAssumption DEF Types
  <2> QED
    BY <1>10, <2>1 DEF Types, add_path, local, helpers, history, shared
<1>2. CASE launch
  <2>1. Range(unscanned_dirs) \subseteq Path
    BY DEF Types, Range
  <2> QED
    BY <1>2, <2>1 DEF Types, launch, shared, local, helpers
<1>3. CASE ClosePool \/ StopPauses \/ NotifierMoves
  BY <1>3 DEF Types, ClosePool, StopPauses, NotifierMoves,
              NotifierPolls, NotifierSeesEnd, NotifierClears, NotifierPauses,
              vars, shared, client, local, helpers, history, NotifierAt
<1>11. CASE LaunchPush
  BY <1>11 DEF Types, LaunchPush, shared, local, helpers, history
<1>4. CASE RecorderMoves \/ Rests
  BY <1>4 DEF Types, RecorderMoves, RecorderReadsRunning, RecorderReadsEmpty,
              RecorderSwaps, Rests, vars, shared, client, local, helpers, history
<1>5. ASSUME NEW w \in Worker,
             \/ TakeTask(w) \/ CountEntries(w) \/ LockDirs(w) \/ LockFiles(w)
             \/ ReadEnds(w) \/ PushEnds(w)
      PROVE  Types'
  BY <1>5 DEF Types, TakeTask, CountEntries, LockDirs, LockFiles, ReadEnds,
              PushEnds, Goto, shared, client, helpers, history, WorkerAt
<1>12. ASSUME NEW w \in Worker, ReadEntry(w) \/ PushDir(w)
       PROVE  Types'
  BY <1>12 DEF Types, ReadEntry, PushDir, shared, client, helpers, history
<1>6. ASSUME NEW w \in Worker, CheckEntry(w) \/ CheckEnds(w) \/ ScanThrows(w)
      PROVE  Types'
  BY <1>6 DEF Types, CheckEntry, CheckEnds, ScanThrows, Goto, shared, client,
              helpers, history, WorkerAt
<1>7. ASSUME NEW w \in Worker, EnterScan(w)
      PROVE  Types'
  <2>1. hand[w] \in Openable =>
          SubDirs[hand[w]] \cup Contents[hand[w]] \subseteq Entries
    BY TreeAssumption DEF Entries
  <2> QED
    BY <1>7, <2>1 DEF Types, EnterScan, Goto, shared, client, helpers, history,
                      WorkerAt
<1>8. ASSUME NEW w \in Worker, ReturnFromScan(w)
      PROVE  Types'
  <2>1. hand[w] \in Path
    BY <1>0, <1>8 DEF ReturnFromScan, Pool!Finish
  <2> QED
    BY <1>8, <2>1 DEF Types, ReturnFromScan, Goto, shared, client, helpers,
                      WorkerAt
<1> QED
  BY <1>1, <1>2, <1>3, <1>4, <1>5, <1>6, <1>7, <1>8, <1>9, <1>10, <1>11, <1>12,
     RestsCover DEF Next, UserMoves, ScanMoves, ScanAcquires

-----------------------------------------------------------------------------
(* The parts of FirstLaunchInv.  A step of the engine is a step of one       *)
(* worker in do_scan, or a step of another thread, which leaves the workers  *)
(* where they are.                                                           *)

OtherStep ==
  \/ \E p \in RootPath : add_path(p)
  \/ launch \/ wait \/ stop \/ StopPauses \/ LaunchPush \/ LaunchThrows
  \/ StartRecorder \/ StartNotifier \/ JoinNotifier \/ JoinRecorder \/ ClosePool
  \/ NotifierMoves \/ RecorderMoves \/ Rests

WorkerStep(w) == TakeTask(w) \/ ScanMoves(w) \/ ScanAcquires(w)

LEMMA OtherFrame ==
  ASSUME OtherStep
  PROVE  UNCHANGED <<hand, at, unread, found, scanned, lost>>
<1>1. CASE \/ \E p \in RootPath : add_path(p)
           \/ launch \/ wait \/ stop \/ LaunchThrows \/ StartRecorder
           \/ StartNotifier \/ JoinNotifier \/ JoinRecorder
  BY <1>1 DEF add_path, launch, wait, stop, LaunchThrows, StartRecorder,
              StartNotifier, JoinNotifier, JoinRecorder, pool, local, history
<1>2. CASE StopPauses \/ LaunchPush \/ ClosePool
  BY <1>2 DEF StopPauses, LaunchPush, ClosePool, Pool!Pause, Pool!Push,
              Pool!Shutdown, local, history
<1>3. CASE NotifierMoves \/ RecorderMoves \/ Rests
  BY <1>3 DEF NotifierMoves, NotifierPolls, NotifierSeesEnd, NotifierClears,
              NotifierPauses, Pool!Pause, RecorderMoves, RecorderReadsRunning,
              RecorderReadsEmpty, RecorderSwaps, Rests, vars, pool, local, history
<1> QED
  BY <1>1, <1>2, <1>3 DEF OtherStep

LEMMA WorkerFrame ==
  ASSUME NEW w \in Worker, WorkerStep(w)
  PROVE  /\ UNCHANGED <<scanning, unscanned_dirs, user, next, launches, notifier,
                        recorder, roots, stopped>>
         /\ lost \subseteq lost'
BY DEF WorkerStep, TakeTask, ScanMoves, ScanAcquires, EnterScan, ReadEntry,
       ReadEnds, CountEntries, LockDirs, PushDir, PushEnds, LockFiles,
       CheckEntry, CheckEnds, ScanThrows, ReturnFromScan, shared, client,
       helpers, history

\* A step of w leaves the other workers alone.
LEMMA WorkerFrameLocal ==
  ASSUME PoolProofs!IInv, Types, NEW w \in Worker, WorkerStep(w),
         NEW v \in Worker, v # w
  PROVE  /\ at'[v] = at[v] /\ hand'[v] = hand[v]
         /\ unread'[v] = unread[v] /\ found'[v] = found[v]
<1>0. hand \in [Worker -> Path \cup {NoTask}]
  BY PoolFacts
<1>1. CASE TakeTask(w) \/ PushDir(w) \/ ReturnFromScan(w)
  BY <1>0, <1>1 DEF Types, TakeTask, PushDir, ReturnFromScan, Goto, Pool!Take,
                    Pool!Push, Pool!Finish
<1>2. CASE \/ EnterScan(w) \/ ReadEntry(w) \/ ReadEnds(w) \/ CountEntries(w)
           \/ PushEnds(w) \/ CheckEntry(w) \/ CheckEnds(w) \/ ScanThrows(w)
           \/ ScanAcquires(w)
  BY <1>2 DEF Types, EnterScan, ReadEntry, ReadEnds, CountEntries, PushEnds,
              CheckEntry, CheckEnds, ScanThrows, ScanAcquires, LockDirs,
              LockFiles, Goto, pool
<1> QED
  BY <1>1, <1>2 DEF WorkerStep, ScanMoves

\* While only one launch() has been called, no step terminates the program.
LEMMA StepCases ==
  ASSUME Types, FirstLaunchInv, launches' <= 1, [Next]_vars
  PROVE  OtherStep \/ \E w \in Worker : WorkerStep(w)
<1>1. ~StartTerminates
  BY DEF FirstLaunchInv, LaunchOrder, StartTerminates, Joinable
<1> QED
  BY <1>1, RestsCover DEF Next, UserMoves, OtherStep, WorkerStep

LEMMA LaunchesGrow ==
  ASSUME Types, [Next]_vars
  PROVE  launches <= launches'
<1>1. CASE launch
  BY <1>1 DEF Types, launch
<1>3. CASE StartTerminates \/ (OtherStep /\ ~launch)
  <2>1. launches' = launches
    BY <1>3 DEF OtherStep, add_path, wait, stop, StopPauses, LaunchPush,
         LaunchThrows, StartRecorder, StartNotifier, JoinNotifier,
         JoinRecorder, ClosePool, NotifierMoves, NotifierPolls,
         NotifierSeesEnd, NotifierClears, NotifierPauses, RecorderMoves,
         RecorderReadsRunning, RecorderReadsEmpty, RecorderSwaps, Rests, vars,
         client, StartTerminates
  <2> QED
    BY <2>1 DEF Types
<1>2. CASE \E w \in Worker : WorkerStep(w)
  BY <1>2, WorkerFrame DEF Types
<1> QED
  BY <1>1, <1>2, <1>3, RestsCover DEF Next, UserMoves, OtherStep, WorkerStep

\* A worker that has work keeps the scan from being declared over.
LEMMA BusyIsNotOver ==
  ASSUME PoolProofs!IInv, Types, FirstLaunchInv, NEW w \in Worker,
         at[w] # "idle"
  PROVE  tasks_total # 0 /\ ~Over /\ notifier \in {"none", "poll"} /\ launches # 0
<1>1. hand[w] # NoTask
  BY DEF FirstLaunchInv, HandsAgree
<1>2. tasks_total # 0
  BY <1>1, PoolFacts
<1> QED
  BY <1>2 DEF FirstLaunchInv, OverIsIdle, Over, NobodyKilled, Types, NotifierAt,
              LaunchOrder

-----------------------------------------------------------------------------

LEMMA OrderStep ==
  ASSUME PoolProofs!IInv, Types, FirstLaunchInv, launches' <= 1, [Next]_vars
  PROVE  (LaunchOrder /\ NobodyKilled)'
<1> USE DEF FirstLaunchInv, LaunchOrder, NobodyKilled
<1>1. CASE \/ \E p \in RootPath : add_path(p)
           \/ wait \/ stop \/ LaunchThrows \/ StartRecorder
           \/ StartNotifier \/ JoinNotifier \/ JoinRecorder
  BY <1>1 DEF Types, add_path, wait, stop, LaunchThrows, StartRecorder,
              StartNotifier, JoinNotifier, JoinRecorder, pool, local, helpers
<1>2. CASE launch
  BY <1>2 DEF Types, launch, local, helpers
<1>3. CASE StopPauses \/ LaunchPush \/ ClosePool
  BY <1>3 DEF StopPauses, LaunchPush, ClosePool, Pool!Pause, Pool!Shutdown,
              local, helpers
<1>4. CASE NotifierMoves \/ RecorderMoves \/ Rests
  BY <1>4 DEF NotifierMoves, NotifierPolls, NotifierSeesEnd, NotifierClears,
              NotifierPauses, Pool!Pause, RecorderMoves, RecorderReadsRunning,
              RecorderReadsEmpty, RecorderSwaps, Rests, vars, pool, local,
              client, helpers
<1>5. ASSUME NEW w \in Worker, WorkerStep(w)
      PROVE  (LaunchOrder /\ NobodyKilled)'
  <2>1. launches # 0
    <3>1. CASE TakeTask(w)
      BY <3>1, TakeFacts DEF TakeTask
    <3>2. CASE at[w] # "idle"
      BY <3>2, BusyIsNotOver
    <3> QED
      BY <1>5, <3>1, <3>2
         DEF WorkerStep, ScanMoves, ScanAcquires, EnterScan, ReadEntry,
             ReadEnds, CountEntries, LockDirs, PushDir, PushEnds, LockFiles,
             CheckEntry, CheckEnds, ScanThrows, ReturnFromScan, Goto
  <2>2. at'[w] # "killed"
    BY <1>5 DEF Types, WorkerStep, ScanMoves, ScanAcquires, TakeTask, EnterScan,
             ReadEntry, ReadEnds, CountEntries, LockDirs, PushDir, PushEnds,
             LockFiles, CheckEntry, CheckEnds, ScanThrows, ReturnFromScan, Goto
  <2>3. \A v \in Worker : at'[v] # "killed"
    BY <1>5, <2>2, WorkerFrameLocal
  <2> QED
    BY <1>5, <2>1, <2>3, WorkerFrame
<1> QED
  BY <1>1, <1>2, <1>3, <1>4, <1>5, StepCases DEF OtherStep

LEMMA HandsStep ==
  ASSUME PoolProofs!IInv, Types, FirstLaunchInv, launches' <= 1, [Next]_vars
  PROVE  HandsAgree'
<1>0. HandsAgree /\ tasks \in Seq(Path) /\ hand \in [Worker -> Path \cup {NoTask}]
  BY PoolFacts DEF FirstLaunchInv
<1>1. CASE OtherStep
  BY <1>0, <1>1, OtherFrame DEF HandsAgree
<1>2. ASSUME NEW w \in Worker, WorkerStep(w)
      PROVE  HandsAgree'
  <2>1. at'[w] = "idle" <=> hand'[w] = NoTask
    <3>1. CASE TakeTask(w)
      <4>1. Head(tasks) \in Path
        BY <1>0, <3>1, TakeFacts DEF TakeTask
      <4> QED
        BY <1>0, <3>1, <4>1, ThreadAssumption
           DEF Types, TakeTask, Pool!Take, Goto
    <3>2. CASE ReturnFromScan(w)
      BY <1>0, <3>2 DEF Types, ReturnFromScan, Pool!Finish, Goto
    <3>3. CASE PushDir(w)
      BY <1>0, <3>3 DEF HandsAgree, PushDir, Pool!Push
    <3>4. CASE \/ EnterScan(w) \/ ReadEntry(w) \/ ReadEnds(w) \/ CountEntries(w)
               \/ PushEnds(w) \/ CheckEntry(w) \/ CheckEnds(w) \/ ScanThrows(w)
               \/ ScanAcquires(w)
      BY <1>0, <3>4 DEF HandsAgree, Types, EnterScan, ReadEntry, ReadEnds,
                        CountEntries, PushEnds, CheckEntry, CheckEnds,
                        ScanThrows, ScanAcquires, LockDirs, LockFiles, Goto, pool
    <3> QED
      BY <1>2, <3>1, <3>2, <3>3, <3>4 DEF WorkerStep, ScanMoves
  <2> QED
    BY <1>0, <1>2, <2>1, WorkerFrameLocal DEF HandsAgree
<1> QED
  BY <1>1, <1>2, StepCases

LEMMA OverStep ==
  ASSUME PoolProofs!IInv, Types, FirstLaunchInv, launches' <= 1, [Next]_vars
  PROVE  OverIsIdle'
<1> USE DEF FirstLaunchInv, OverIsIdle, Over
<1>1. CASE \/ \E p \in RootPath : add_path(p)
           \/ wait \/ stop \/ LaunchThrows \/ StartRecorder
           \/ StartNotifier \/ JoinNotifier \/ JoinRecorder \/ launch
  BY <1>1 DEF add_path, wait, stop, LaunchThrows, StartRecorder,
              StartNotifier, JoinNotifier, JoinRecorder, launch, pool, helpers
<1>2. CASE StopPauses \/ ClosePool
  BY <1>2 DEF StopPauses, ClosePool, Pool!Pause, Pool!Shutdown, helpers
<1>3. CASE LaunchPush
  BY <1>3 DEF LaunchPush, LaunchOrder, helpers
<1>4. CASE NotifierMoves \/ RecorderMoves \/ Rests
  BY <1>4 DEF NotifierMoves, NotifierPolls, NotifierSeesEnd, NotifierClears,
              NotifierPauses, Pool!Pause, RecorderMoves, RecorderReadsRunning,
              RecorderReadsEmpty, RecorderSwaps, Rests, vars, pool,
              helpers, is_scan_over
<1>5. ASSUME NEW w \in Worker, WorkerStep(w)
      PROVE  OverIsIdle'
  <2>1. CASE TakeTask(w)
    BY <2>1 DEF TakeTask, Pool!Take, helpers
  <2>2. CASE at[w] # "idle"
    BY <1>5, <2>2, BusyIsNotOver, WorkerFrame
  <2> QED
    BY <1>5, <2>1, <2>2
       DEF WorkerStep, ScanMoves, ScanAcquires, EnterScan, ReadEntry,
           ReadEnds, CountEntries, LockDirs, PushDir, PushEnds, LockFiles,
           CheckEntry, CheckEnds, ScanThrows, ReturnFromScan, Goto
<1> QED
  BY <1>1, <1>2, <1>3, <1>4, <1>5, StepCases DEF OtherStep

LEMMA ScanningStep ==
  ASSUME PoolProofs!IInv, Types, FirstLaunchInv, launches' <= 1, [Next]_vars
  PROVE  ScanningOn'
<1> USE DEF FirstLaunchInv, ScanningOn, FirstScan
<1>1. CASE \/ \E p \in RootPath : add_path(p)
           \/ wait \/ LaunchThrows \/ StartRecorder
           \/ JoinNotifier \/ JoinRecorder
  BY <1>1 DEF add_path, wait, LaunchThrows, StartRecorder,
              JoinNotifier, JoinRecorder, shared, helpers, history
<1>2. CASE launch \/ stop
  BY <1>2 DEF launch, stop
<1>3. CASE StopPauses \/ ClosePool \/ LaunchPush
  BY <1>3 DEF StopPauses, ClosePool, LaunchPush, shared, helpers, history
<1>4. CASE StartNotifier
  BY <1>4 DEF StartNotifier, LaunchOrder, shared, history
<1>5. CASE NotifierMoves \/ RecorderMoves \/ Rests
  BY <1>5 DEF NotifierMoves, NotifierPolls, NotifierSeesEnd, NotifierClears,
              NotifierPauses, RecorderMoves, RecorderReadsRunning,
              RecorderReadsEmpty, RecorderSwaps, Rests, vars, shared, client,
              helpers, history
<1>6. CASE \E w \in Worker : WorkerStep(w)
  BY <1>6, WorkerFrame
<1> QED
  BY <1>1, <1>2, <1>3, <1>4, <1>5, <1>6, StepCases DEF OtherStep

LEMMA PendingStep ==
  ASSUME PoolProofs!IInv, Types, FirstLaunchInv, launches' <= 1, [Next]_vars
  PROVE  Pending'
<1>0. Pending
  BY DEF FirstLaunchInv
<1>1. CASE OtherStep
  BY <1>0, <1>1, OtherFrame DEF Pending
<1>2. ASSUME NEW w \in Worker, WorkerStep(w)
      PROVE  Pending'
  <2>1. /\ at'[w] # "read" => unread'[w] = {}
        /\ at'[w] \notin {"read", "count", "lock dirs", "push"} =>
             found'[w] \cap Path = {}
    <3>1. CASE TakeTask(w) \/ EnterScan(w) \/ ReadEntry(w) \/ ReadEnds(w)
      BY <1>0, <3>1 DEF Pending, Types, TakeTask, EnterScan, ReadEntry, ReadEnds, Goto
    <3>2. CASE \/ CountEntries(w) \/ PushDir(w) \/ PushEnds(w) \/ ScanAcquires(w)
               \/ ScanThrows(w)
      BY <1>0, <3>2 DEF Pending, Types, CountEntries, PushDir, PushEnds,
                        ScanAcquires, LockDirs, LockFiles, ScanThrows, Goto
    <3>3. CASE CheckEntry(w) \/ CheckEnds(w) \/ ReturnFromScan(w)
      BY <1>0, <3>3 DEF Pending, Types, CheckEntry, CheckEnds, ReturnFromScan, Goto
    <3> QED
      BY <1>2, <3>1, <3>2, <3>3 DEF WorkerStep, ScanMoves
  <2> QED
    BY <1>0, <1>2, <2>1, WorkerFrameLocal DEF Pending
<1> QED
  BY <1>1, <1>2, StepCases

\* The subdirectories of a path are paths.
LEMMA SubDirsArePaths == \A p \in Path : SubDirs[p] \subseteq Path
BY TreeAssumption

LEMMA ChildrenStep ==
  ASSUME PoolProofs!IInv, Types, FirstLaunchInv, launches' <= 1, [Next]_vars,
         HandsAgree'
  PROVE  ChildrenKnown'
<1> SUFFICES ASSUME ~stopped'
             PROVE  /\ \A v \in Worker :
                         at'[v] \notin {"idle", "enter"} /\ Expands(hand[v])' =>
                           SubDirs[hand'[v]] \subseteq unread'[v] \cup found'[v] \cup Known'
                    /\ \A p \in scanned' : Expands(p)' => SubDirs[p] \subseteq Known'
  BY DEF ChildrenKnown
<1>0. /\ HandsAgree /\ Pending
      /\ tasks \in Seq(Path) /\ hand \in [Worker -> Path \cup {NoTask}]
      /\ scanned \subseteq Path
  BY PoolFacts DEF FirstLaunchInv, Types
<1>1. Known \cap Path \subseteq Known'
  BY KnownGrows
<1>2. CASE OtherStep
  <2>1. ~stopped
    <3>1. CASE stop \/ launch \/ RecorderSwaps
      BY <3>1 DEF stop, launch, RecorderSwaps
    <3>2. CASE ~(stop \/ launch \/ RecorderSwaps)
      BY <1>2, <3>2
         DEF OtherStep, add_path, wait, StopPauses, LaunchPush, LaunchThrows,
             StartRecorder, StartNotifier, JoinNotifier, JoinRecorder,
             ClosePool, NotifierMoves, NotifierPolls, NotifierSeesEnd,
             NotifierClears, NotifierPauses, RecorderMoves,
             RecorderReadsRunning, RecorderReadsEmpty, Rests, vars,
             history
    <3> QED
      BY <3>1, <3>2
  <2>2. lost' = lost /\ UNCHANGED <<hand, at, unread, found, scanned>>
    BY <1>2, OtherFrame
  <2>3. \A v \in Worker : at[v] # "idle" => hand[v] \in Path
    BY <1>0 DEF HandsAgree
  <2>4. ChildrenKnown
    BY DEF FirstLaunchInv
  <2>5. \A p \in Path : Expands(p)' <=> Expands(p)
    BY <2>2 DEF Expands
  <2>6. ASSUME NEW v \in Worker, at'[v] \notin {"idle", "enter"}, Expands(hand[v])'
        PROVE  SubDirs[hand'[v]] \subseteq unread'[v] \cup found'[v] \cup Known'
    <3>1. hand[v] \in Path /\ Expands(hand[v]) /\ hand'[v] = hand[v]
      BY <2>1, <2>2, <2>3, <2>6 DEF Expands
    <3> QED
      BY <1>1, <2>1, <2>2, <2>4, <2>6, <3>1, SubDirsArePaths DEF ChildrenKnown
  <2>7. ASSUME NEW p \in scanned', Expands(p)'
        PROVE  SubDirs[p] \subseteq Known'
    BY <1>0, <1>1, <2>1, <2>2, <2>4, <2>5, <2>7, SubDirsArePaths DEF ChildrenKnown
  <2> QED
    BY <2>6, <2>7
<1>3. ASSUME NEW w \in Worker, WorkerStep(w)
      PROVE  /\ \A v \in Worker :
                   at'[v] \notin {"idle", "enter"} /\ Expands(hand[v])' =>
                     SubDirs[hand'[v]] \subseteq unread'[v] \cup found'[v] \cup Known'
             /\ \A p \in scanned' : Expands(p)' => SubDirs[p] \subseteq Known'
  <2>1. ~stopped /\ lost \subseteq lost'
    BY <1>3, WorkerFrame
  <2>2. ChildrenKnown
    BY DEF FirstLaunchInv
  <2>3. \A p \in Path : Expands(p)' => Expands(p)
    BY <2>1 DEF Expands
  <2>4. \A v \in Worker : at[v] # "idle" => hand[v] \in Path
    BY <1>0 DEF HandsAgree
  <2>5. at[w] # "idle" => scanning
    <3> SUFFICES ASSUME at[w] # "idle" PROVE scanning
      OBVIOUS
    <3>1. notifier \in {"none", "poll"} /\ launches # 0
      BY BusyIsNotOver
    <3>2. launches = 1
      BY <3>1, LaunchesGrow, TypesStep DEF Types
    <3> QED
      BY <2>1, <3>1, <3>2 DEF FirstLaunchInv, ScanningOn, FirstScan
  <2>6. ASSUME NEW v \in Worker, v # w,
               at'[v] \notin {"idle", "enter"}, Expands(hand[v])'
        PROVE  SubDirs[hand'[v]] \subseteq unread'[v] \cup found'[v] \cup Known'
    <3>1. /\ at'[v] = at[v] /\ hand'[v] = hand[v]
          /\ unread'[v] = unread[v] /\ found'[v] = found[v]
      BY <1>3, <2>6, WorkerFrameLocal
    <3>2. hand[v] \in Path /\ Expands(hand[v])
      BY <2>1, <2>4, <2>6, <3>1 DEF Expands
    <3> QED
      BY <1>1, <2>1, <2>2, <2>6, <3>1, <3>2, SubDirsArePaths DEF ChildrenKnown
  <2>7. ASSUME at'[w] \notin {"idle", "enter"}, Expands(hand[w])'
        PROVE  SubDirs[hand'[w]] \subseteq unread'[w] \cup found'[w] \cup Known'
    <3>1. at[w] # "idle" /\ hand'[w] = hand[w]
      BY <1>3, <2>7
         DEF Types, WorkerStep, ScanMoves, ScanAcquires, TakeTask, EnterScan, ReadEntry,
             ReadEnds, CountEntries, LockDirs, PushDir, PushEnds, LockFiles,
             CheckEntry, CheckEnds, ScanThrows, ReturnFromScan, Goto, pool,
             Pool!Push
    <3>2. hand[w] \in Path /\ Expands(hand[w]) /\ scanning
      BY <2>1, <2>4, <2>5, <3>1, <2>7 DEF Expands
    <3>3. CASE EnterScan(w)
      BY <3>1, <3>2, <3>3 DEF EnterScan, Expands, Types
    <3>4. CASE at[w] # "enter"
      <4>1. SubDirs[hand[w]] \subseteq unread[w] \cup found[w] \cup Known
        BY <2>1, <2>2, <3>1, <3>2, <3>4 DEF ChildrenKnown
      <4>2. SubDirs[hand[w]] \subseteq unread[w] \cup found[w] \cup Known'
        BY <1>1, <3>2, <4>1, SubDirsArePaths
      <4>3. CASE ReadEntry(w)
        BY <3>1, <4>2, <4>3 DEF ReadEntry, Types
      <4>4. CASE ReadEnds(w)
        BY <3>1, <3>2, <4>2, <4>4 DEF ReadEnds, Types
      <4>5. CASE PushDir(w)
        <5>1. PICK d \in found[w] \cap Path :
                /\ Pool!Push(d)
                /\ found' = [found EXCEPT ![w] = @ \ {d}]
          BY <4>5 DEF PushDir
        <5>2. d \in Known'
          BY <1>0, <5>1, RangeAppend DEF Pool!Push, Known
        <5>3. unread' = unread
          BY <4>5 DEF PushDir
        <5> QED
          BY <3>1, <4>2, <5>1, <5>2, <5>3 DEF Types
      <4>6. CASE CheckEntry(w)
        <5>1. found[w] \cap Path = {} /\ unread' = unread
          BY <1>0, <4>6 DEF Pending, CheckEntry
        <5> QED
          BY <3>1, <3>2, <4>2, <5>1, SubDirsArePaths
      <4>7. CASE ScanThrows(w)
        BY <2>7, <3>1, <4>7 DEF ScanThrows, Expands
      <4>8. CASE \/ CountEntries(w) \/ PushEnds(w) \/ CheckEnds(w)
                 \/ ScanAcquires(w)
        BY <3>1, <4>2, <4>8 DEF CountEntries, PushEnds, CheckEnds, ScanAcquires,
                                LockDirs, LockFiles
      <4>9. CASE TakeTask(w) \/ ReturnFromScan(w)
        BY <2>7, <4>9 DEF TakeTask, ReturnFromScan, Goto, Types
      <4>10. ~EnterScan(w)
        BY <3>4 DEF EnterScan, Goto
      <4> QED
        BY <1>3, <4>3, <4>4, <4>5, <4>6, <4>7, <4>8, <4>9, <4>10
           DEF WorkerStep, ScanMoves
    <3> QED
      BY <1>3, <3>1, <3>3, <3>4
         DEF WorkerStep, ScanMoves, ScanAcquires, TakeTask, ReadEntry,
             ReadEnds, CountEntries, LockDirs, PushDir, PushEnds, LockFiles,
             CheckEntry, CheckEnds, ScanThrows, ReturnFromScan, Goto
  <2>8. ASSUME NEW p \in scanned', Expands(p)'
        PROVE  SubDirs[p] \subseteq Known'
    <3>1. CASE p \in scanned
      BY <1>0, <1>1, <2>1, <2>2, <2>3, <2>8, <3>1, SubDirsArePaths DEF ChildrenKnown
    <3>2. CASE p \notin scanned
      <4>1. ReturnFromScan(w) /\ p = hand[w]
        BY <1>3, <2>8, <3>2
           DEF WorkerStep, ScanMoves, ScanAcquires, TakeTask, EnterScan,
               ReadEntry, ReadEnds, CountEntries, LockDirs, PushDir, PushEnds,
               LockFiles, CheckEntry, CheckEnds, ScanThrows, ReturnFromScan,
               history
      <4>2. at[w] = "return" /\ p \in Path /\ Expands(p)
        BY <2>3, <2>4, <2>8, <4>1 DEF ReturnFromScan, Goto
      <4>3. unread[w] = {} /\ found[w] \cap Path = {}
        BY <1>0, <4>2 DEF Pending
      <4>4. SubDirs[p] \subseteq unread[w] \cup found[w] \cup Known
        BY <2>1, <2>2, <4>1, <4>2 DEF ChildrenKnown
      <4> QED
        BY <1>1, <4>2, <4>3, <4>4, SubDirsArePaths
    <3> QED
      BY <3>1, <3>2
  <2> QED
    BY <2>6, <2>7, <2>8
<1> QED
  BY <1>2, <1>3, StepCases

LEMMA RootsStep ==
  ASSUME PoolProofs!IInv, Types, FirstLaunchInv, launches' <= 1, [Next]_vars
  PROVE  RootsKnown'
<1>0. /\ RootsKnown /\ LaunchOrder
      /\ tasks \in Seq(Path) /\ roots \subseteq Path /\ unscanned_dirs \in Seq(Path)
      /\ next \in Nat \ {0} /\ launches \in Nat
  BY PoolFacts DEF FirstLaunchInv, Types
<1>1. Known \cap Path \subseteq Known'
  BY KnownGrows
<1>2. CASE UNCHANGED <<user, next, unscanned_dirs, notifier, roots>>
  <2>1. user = "launching" =>
          \A p \in roots : p \in Known'
             \/ \E i \in next .. Len(unscanned_dirs) : unscanned_dirs[i] = p
    BY <1>0, <1>1 DEF RootsKnown
  <2>2. user = "start notifier" \/ notifier # "none" => roots \subseteq Known'
    BY <1>0, <1>1 DEF RootsKnown
  <2> QED
    BY <1>2, <2>1, <2>2 DEF RootsKnown
<1>3. CASE launch
  <2>1. notifier' = "none" /\ user' = "launching" /\ next' = 1
        /\ roots' = Range(unscanned_dirs) /\ unscanned_dirs' = unscanned_dirs
    BY <1>0, <1>3 DEF launch, LaunchOrder, helpers
  <2>2. \A p \in roots' : \E i \in 1 .. Len(unscanned_dirs) : unscanned_dirs[i] = p
    BY <1>0, <2>1 DEF Range
  <2> QED
    BY <2>1, <2>2 DEF RootsKnown
<1>4. CASE LaunchPush
  <2>1. /\ user = "launching" /\ user' = user /\ next <= Len(unscanned_dirs)
        /\ next' = next + 1 /\ Pool!Push(unscanned_dirs[next])
        /\ unscanned_dirs' = unscanned_dirs /\ roots' = roots
        /\ notifier' = notifier /\ notifier = "none"
    BY <1>0, <1>4 DEF LaunchPush, LaunchOrder, helpers, history
  <2>2. unscanned_dirs[next] \in Path
    BY <1>0, <2>1
  <2>3. unscanned_dirs[next] \in Known'
    BY <1>0, <2>1, <2>2, RangeAppend DEF Known, Pool!Push
  <2>4. ASSUME NEW p \in roots, p \notin Known'
        PROVE  \E i \in next + 1 .. Len(unscanned_dirs) : unscanned_dirs[i] = p
    <3>1. p \notin Known
      BY <1>0, <1>1, <2>4
    <3>2. PICK i \in next .. Len(unscanned_dirs) : unscanned_dirs[i] = p
      BY <1>0, <2>1, <3>1 DEF RootsKnown
    <3>3. i # next
      BY <2>3, <2>4, <3>2
    <3>4. i \in next + 1 .. Len(unscanned_dirs)
      BY <1>0, <3>2, <3>3
    <3> QED
      BY <3>2, <3>4
  <2> QED
    BY <2>1, <2>4 DEF RootsKnown
<1>5. CASE StartRecorder
  <2>1. /\ user = "launching" /\ user' = "start notifier"
        /\ next > Len(unscanned_dirs)
        /\ notifier' = notifier /\ roots' = roots
    BY <1>5 DEF StartRecorder, history
  <2>2. \A i \in next .. Len(unscanned_dirs) : FALSE
    <3>1. Len(unscanned_dirs) \in Nat /\ next \in Nat
      BY <1>0
    <3>2. next > Len(unscanned_dirs)
      BY <2>1
    <3> QED
      BY <3>1, <3>2
  <2>3. roots \subseteq Known
    BY <1>0, <2>1, <2>2 DEF RootsKnown
  <2> QED
    BY <1>0, <1>1, <2>1, <2>3 DEF RootsKnown
<1>6. CASE \/ \E p \in RootPath : add_path(p)
           \/ wait \/ LaunchThrows \/ JoinRecorder \/ ClosePool
  <2>1. /\ user' \notin {"launching", "start notifier"}
        /\ notifier' = notifier /\ roots' = roots
    BY <1>6 DEF add_path, wait, LaunchThrows, JoinRecorder, ClosePool, helpers,
                history
  <2> QED
    BY <1>0, <1>1, <2>1 DEF RootsKnown
<1>7. CASE StartNotifier \/ JoinNotifier
  <2>1. /\ user' \notin {"launching", "start notifier"}
        /\ user = "start notifier" \/ notifier # "none" \/ notifier' = "none"
        /\ roots' = roots
    BY <1>7 DEF StartNotifier, JoinNotifier, history
  <2> QED
    BY <1>0, <1>1, <2>1 DEF RootsKnown
<1>8. CASE NotifierMoves
  <2>1. /\ UNCHANGED <<user, next, unscanned_dirs, roots>>
        /\ notifier # "none"
    BY <1>8 DEF NotifierMoves, NotifierPolls, NotifierSeesEnd, NotifierClears,
                NotifierPauses, vars, client, history
  <2>2. user # "launching"
    BY <1>0, <2>1 DEF LaunchOrder
  <2> QED
    BY <1>0, <1>1, <2>1, <2>2 DEF RootsKnown
<1>9. CASE stop \/ StopPauses \/ RecorderMoves \/ Rests
  <2>1. UNCHANGED <<user, next, unscanned_dirs, notifier, roots>>
    BY <1>9 DEF stop, StopPauses, RecorderMoves, RecorderReadsRunning,
                RecorderReadsEmpty, RecorderSwaps, Rests, vars, client, helpers,
                history
  <2> QED
    BY <1>2, <2>1
<1>10. CASE \E w \in Worker : WorkerStep(w)
  BY <1>2, <1>10, WorkerFrame
<1> QED
  BY <1>3, <1>4, <1>5, <1>6, <1>7, <1>8, <1>9, <1>10, StepCases DEF OtherStep

-----------------------------------------------------------------------------
(* The theorems. *)

LEMMA InitInv == Init => IInv
<1> SUFFICES ASSUME Init PROVE IInv
  OBVIOUS
<1>1. PoolProofs!IInv
  BY SamePool, PoolAssumptions, PoolProofs!InitInv DEF Init
<1>2. Types
  <2>1. unscanned_dirs \in Seq(Path)
    BY DEF Init
  <2>2. at \in [Worker -> WorkerAt] /\ unread \in [Worker -> SUBSET Entries]
        /\ found \in [Worker -> SUBSET Entries]
    BY DEF Init, WorkerAt
  <2>3. next = 1 /\ launches = 0
    BY DEF Init
  <2>5. scanning \in BOOLEAN /\ stopped \in BOOLEAN
        /\ roots \subseteq Path /\ scanned \subseteq Path
    BY DEF Init
  <2>4. notifier \in NotifierAt
    BY DEF Init, NotifierAt
  <2> QED
    BY <2>1, <2>2, <2>3, <2>4, <2>5 DEF Types
<1>3. FirstLaunchInv
  BY DEF Init, Pool!Init, FirstLaunchInv, LaunchOrder, NobodyKilled, HandsAgree,
         OverIsIdle, Over, ScanningOn, FirstScan, Pending, ChildrenKnown, RootsKnown
<1> QED
  BY <1>1, <1>2, <1>3 DEF IInv

LEMMA StepInv == IInv /\ [Next]_vars => IInv'
<1> SUFFICES ASSUME IInv, [Next]_vars PROVE IInv'
  OBVIOUS
<1>1. PoolProofs!IInv /\ Types
  BY DEF IInv
<1>2. PoolProofs!IInv' /\ Types'
  BY <1>1, PoolInvStep, TypesStep
<1>3. ASSUME launches' <= 1
      PROVE  FirstLaunchInv'
  <2>1. launches <= 1
    BY <1>1, <1>2, <1>3, LaunchesGrow DEF Types
  <2>2. FirstLaunchInv
    BY <2>1 DEF IInv
  <2>3. HandsAgree'
    BY <1>1, <1>3, <2>2, HandsStep
  <2> QED
    BY <1>1, <1>3, <2>2, <2>3, OrderStep, OverStep, ScanningStep, PendingStep,
       ChildrenStep, RootsStep DEF FirstLaunchInv
<1> QED
  BY <1>2, <1>3 DEF IInv

\* The invariant gives ScanComplete: when the scan is over the scanned paths
\* are closed, so they contain every path that is reachable.
LEMMA InvComplete == IInv => ScanComplete
<1> SUFFICES ASSUME IInv, FirstScan, Over
             PROVE  Reachable \subseteq scanned
  BY DEF ScanComplete
<1>1. FirstLaunchInv /\ Types /\ ~stopped
  BY DEF IInv, FirstScan
<1>2. tasks = <<>> /\ \A w \in Worker : hand[w] = NoTask
  BY <1>1, PoolFacts DEF IInv, FirstLaunchInv, OverIsIdle
<1>3. Known \cap Path \subseteq scanned
  BY <1>2, PoolFacts, ThreadAssumption DEF Known, Range, IInv
<1>4. roots \subseteq scanned
  BY <1>1, <1>3 DEF FirstLaunchInv, RootsKnown, Over, Types
<1>5. \A p \in scanned : Expands(p) => SubDirs[p] \subseteq scanned
  BY <1>1, <1>3, SubDirsArePaths DEF FirstLaunchInv, ChildrenKnown, Types
<1>6. Closed(scanned)
  BY <1>4, <1>5 DEF Closed
<1> QED
  BY <1>1, <1>6 DEF Reachable, Types

\* Every state satisfies the invariant.
THEOREM InvHolds == Spec => []IInv
BY InitInv, StepInv, PTL DEF Spec

\* Termination detection is sound: when the notifier leaves its loop, every
\* directory below the roots has been scanned (scan_private.cpp:84, 91, 290).
THEOREM ScanIsComplete == Spec => []ScanComplete
BY InvHolds, InvComplete, PTL

-----------------------------------------------------------------------------
(* The inductive invariant, for any number of launches.  A thread that has   *)
(* been killed stays where it was, with the locks and lists it had.          *)

MoreTypes ==
  /\ Len(unscanned_dirs) <= MaxRoots /\ launches <= MaxLaunches
  /\ dir_mutex \in Worker \cup {NoThread}
  /\ file_info_mutex \in Worker \cup {NoThread}
  /\ file_infos \subseteq Info /\ recorded \subseteq Info
  /\ file_counts \in Nat /\ seen \in Nat /\ late \in Nat
  /\ user \in UserAt /\ recorder \in RecorderAt
  /\ stopper \in {"free", "pause", "killed"}
  /\ closing \in BOOLEAN /\ lost \subseteq Path
  /\ \A w \in Worker : IsFiniteSet(found[w])

\* Nothing is in the hand of an idle worker, and something in any other's.
HandsHold ==
  \A w \in Worker :
    /\ at[w] = "idle" => hand[w] = NoTask
    /\ at[w] \notin {"idle", "killed"} => hand[w] # NoTask

\* A mutex is held by the worker that is in its critical section.
LocksHeld ==
  \A w \in Worker :
    /\ at[w] = "push" => dir_mutex = w
    /\ dir_mutex = w => at[w] \in {"push", "killed"}
    /\ at[w] = "check" => file_info_mutex = w
    /\ file_info_mutex = w => at[w] \in {"check", "killed"}

\* What do_scan still holds at each of its places.
ListsEmpty ==
  \A w \in Worker :
    /\ at[w] \notin {"read", "killed"} => unread[w] = {}
    /\ at[w] \notin {"read", "count", "lock dirs", "push", "killed"} =>
         found[w] \cap Path = {}
    /\ at[w] \in {"idle", "enter", "return"} => found[w] = {}
    /\ unread[w] \cap found[w] = {}

\* The destructor joins the helpers before it closes the pool.
JoinOrder ==
  /\ user \in {"join recorder", "close pool", "gone"} => ~Joinable(notifier)
  /\ user \in {"close pool", "gone"} => ~Joinable(recorder)
  /\ user = "gone" => ~running
  /\ user # "killed" => \A w \in Worker : at[w] # "killed"

\* When stop() has returned the pool is paused, and nobody but a worker that was
\* about to take a task then takes one.
StopAgrees ==
  /\ stopped /\ stopper = "free" => paused
  /\ late \in {0, 1}
  /\ late = 1 => paused /\ taking = {}

SafeInv ==
  IInv /\ MoreTypes /\ HandsHold /\ LocksHeld /\ ListsEmpty /\ JoinOrder /\ StopAgrees

-----------------------------------------------------------------------------
(* Steps. *)

LEMMA AnyStep ==
  ASSUME [Next]_vars
  PROVE  OtherStep \/ StartTerminates \/ \E w \in Worker : WorkerStep(w)
BY RestsCover DEF Next, UserMoves, OtherStep, WorkerStep

\* The steps of do_scan between the one that takes a task and the last one.
LEMMA WorkerSteps ==
  ASSUME NEW w \in Worker, WorkerStep(w)
  PROVE  \/ TakeTask(w) \/ EnterScan(w) \/ ReadEntry(w) \/ ReadEnds(w)
         \/ CountEntries(w) \/ LockDirs(w) \/ PushDir(w) \/ PushEnds(w)
         \/ LockFiles(w) \/ CheckEntry(w) \/ CheckEnds(w) \/ ScanThrows(w)
         \/ ReturnFromScan(w)
BY DEF WorkerStep, ScanMoves, ScanAcquires

LEMMA OtherKeepsLocks ==
  ASSUME OtherStep
  PROVE  UNCHANGED <<dir_mutex, file_info_mutex>>
BY DEF OtherStep, add_path, launch, wait, stop, StopPauses, LaunchPush,
       LaunchThrows, StartRecorder, StartNotifier, JoinNotifier, JoinRecorder,
       ClosePool, NotifierMoves, NotifierPolls, NotifierSeesEnd, NotifierClears,
       NotifierPauses, RecorderMoves, RecorderReadsRunning, RecorderReadsEmpty,
       RecorderSwaps, Rests, vars, shared

LEMMA HandsHoldStep ==
  ASSUME PoolProofs!IInv, Types, HandsHold, [Next]_vars
  PROVE  HandsHold'
<1>0. tasks \in Seq(Path) /\ hand \in [Worker -> Path \cup {NoTask}]
  BY PoolFacts
<1>1. CASE OtherStep
  BY <1>1, OtherFrame DEF HandsHold
<1>2. CASE StartTerminates
  BY <1>2 DEF HandsHold, StartTerminates
<1>3. ASSUME NEW w \in Worker, WorkerStep(w)
      PROVE  HandsHold'
  <2>1. /\ at'[w] = "idle" => hand'[w] = NoTask
        /\ at'[w] \notin {"idle", "killed"} => hand'[w] # NoTask
    <3>1. CASE TakeTask(w)
      <4>1. Head(tasks) \in Path
        BY <1>0, <3>1, TakeFacts DEF TakeTask
      <4> QED
        BY <1>0, <3>1, <4>1, ThreadAssumption
           DEF Types, TakeTask, Pool!Take, Goto
    <3>2. CASE ReturnFromScan(w)
      BY <1>0, <3>2 DEF Types, ReturnFromScan, Pool!Finish, Goto
    <3>3. CASE PushDir(w)
      BY <3>3 DEF HandsHold, PushDir, Pool!Push
    <3>4. CASE \/ EnterScan(w) \/ ReadEntry(w) \/ ReadEnds(w) \/ CountEntries(w)
               \/ LockDirs(w) \/ PushEnds(w) \/ LockFiles(w) \/ CheckEntry(w)
               \/ CheckEnds(w) \/ ScanThrows(w)
      BY <3>4 DEF HandsHold, Types, EnterScan, ReadEntry, ReadEnds,
                  CountEntries, LockDirs, PushEnds, LockFiles, CheckEntry,
                  CheckEnds, ScanThrows, Goto, pool
    <3> QED
      BY <1>3, <3>1, <3>2, <3>3, <3>4, WorkerSteps
  <2> QED
    BY <1>3, <2>1, WorkerFrameLocal DEF HandsHold
<1> QED
  BY <1>1, <1>2, <1>3, AnyStep

LEMMA LocksHeldStep ==
  ASSUME PoolProofs!IInv, Types, MoreTypes, LocksHeld, [Next]_vars
  PROVE  LocksHeld'
<1>1. CASE OtherStep
  BY <1>1, OtherFrame, OtherKeepsLocks DEF LocksHeld
<1>2. CASE StartTerminates
  BY <1>2 DEF LocksHeld, StartTerminates, shared
<1>3. ASSUME NEW w \in Worker, WorkerStep(w)
      PROVE  LocksHeld'
  <2>1. /\ at'[w] = "push" => dir_mutex' = w
        /\ dir_mutex' = w => at'[w] \in {"push", "killed"}
        /\ at'[w] = "check" => file_info_mutex' = w
        /\ file_info_mutex' = w => at'[w] \in {"check", "killed"}
    <3>1. CASE TakeTask(w) \/ EnterScan(w) \/ ReadEntry(w) \/ ReadEnds(w)
      BY <3>1 DEF LocksHeld, Types, TakeTask, EnterScan, ReadEntry, ReadEnds,
                  Goto, shared
    <3>2. CASE CountEntries(w) \/ LockDirs(w) \/ PushDir(w) \/ PushEnds(w)
      BY <3>2, ThreadAssumption
         DEF LocksHeld, Types, CountEntries, LockDirs, PushDir, PushEnds, Goto,
             shared
    <3>3. CASE \/ LockFiles(w) \/ CheckEntry(w) \/ CheckEnds(w) \/ ScanThrows(w)
               \/ ReturnFromScan(w)
      BY <3>3, ThreadAssumption
         DEF LocksHeld, Types, LockFiles, CheckEntry, CheckEnds, ScanThrows,
             ReturnFromScan, Goto, shared
    <3> QED
      BY <1>3, <3>1, <3>2, <3>3, WorkerSteps
  <2>2. ASSUME NEW v \in Worker, v # w
        PROVE  /\ dir_mutex' = v <=> dir_mutex = v
               /\ file_info_mutex' = v <=> file_info_mutex = v
    <3>1. CASE LockDirs(w) \/ PushEnds(w) \/ LockFiles(w) \/ CheckEnds(w)
      BY <2>2, <3>1, ThreadAssumption
         DEF LocksHeld, LockDirs, PushEnds, LockFiles, CheckEnds, Goto
    <3>2. CASE \/ TakeTask(w) \/ EnterScan(w) \/ ReadEntry(w) \/ ReadEnds(w)
               \/ CountEntries(w) \/ PushDir(w) \/ CheckEntry(w)
               \/ ScanThrows(w) \/ ReturnFromScan(w)
      BY <2>2, <3>2, ThreadAssumption
         DEF TakeTask, EnterScan, ReadEntry, ReadEnds, CountEntries, PushDir,
             CheckEntry, ScanThrows, ReturnFromScan, shared
    <3> QED
      BY <1>3, <3>1, <3>2, WorkerSteps
  <2> QED
    BY <1>3, <2>1, <2>2, WorkerFrameLocal DEF LocksHeld
<1> QED
  BY <1>1, <1>2, <1>3, AnyStep

LEMMA ListsEmptyStep ==
  ASSUME PoolProofs!IInv, Types, ListsEmpty, [Next]_vars
  PROVE  ListsEmpty'
<1>1. CASE OtherStep
  BY <1>1, OtherFrame DEF ListsEmpty
<1>2. CASE StartTerminates
  BY <1>2 DEF ListsEmpty, StartTerminates
<1>3. ASSUME NEW w \in Worker, WorkerStep(w)
      PROVE  ListsEmpty'
  <2>1. /\ at'[w] \notin {"read", "killed"} => unread'[w] = {}
        /\ at'[w] \notin {"read", "count", "lock dirs", "push", "killed"} =>
             found'[w] \cap Path = {}
        /\ at'[w] \in {"idle", "enter", "return"} => found'[w] = {}
        /\ unread'[w] \cap found'[w] = {}
    <3>1. CASE TakeTask(w) \/ EnterScan(w) \/ ReturnFromScan(w)
      BY <3>1 DEF ListsEmpty, Types, TakeTask, EnterScan, ReturnFromScan, Goto
    <3>2. CASE ReadEntry(w) \/ ReadEnds(w) \/ CountEntries(w)
      BY <3>2 DEF ListsEmpty, Types, ReadEntry, ReadEnds, CountEntries, Goto
    <3>3. CASE LockDirs(w) \/ PushDir(w) \/ PushEnds(w)
      BY <3>3 DEF ListsEmpty, Types, LockDirs, PushDir, PushEnds, Goto
    <3>4. CASE LockFiles(w) \/ CheckEntry(w) \/ CheckEnds(w) \/ ScanThrows(w)
      BY <3>4 DEF ListsEmpty, Types, LockFiles, CheckEntry, CheckEnds,
                  ScanThrows, Goto
    <3> QED
      BY <1>3, <3>1, <3>2, <3>3, <3>4, WorkerSteps
  <2> QED
    BY <1>3, <2>1, WorkerFrameLocal DEF ListsEmpty
<1> QED
  BY <1>1, <1>2, <1>3, AnyStep

-----------------------------------------------------------------------------
(* The types. *)

\* What a name found in a directory adds to file_infos_ is about that name.
LEMMA OutcomesAreInfo ==
  ASSUME NEW e \in File \cup Link, NEW outcome \in Outcomes(e)
  PROVE  outcome \subseteq {r \in Info : r.path = e}
<1>1. \A t : Entry(e, t) \subseteq {r \in Info : r.path = e}
  BY DEF Entry, Info
<1>2. \E t : outcome = Entry(e, t) \/ outcome = {}
  BY DEF Outcomes, symbol_reloader, file_checker
<1> QED
  BY <1>1, <1>2

\* The readdir loop and the checks handle one entry of a finite list.
LEMMA OneEntryLess ==
  ASSUME NEW S, NEW e, IsFiniteSet(S)
  PROVE  IsFiniteSet(S \cup {e}) /\ IsFiniteSet(S \ {e})
BY FS_AddElement, FS_RemoveElement

\* The entry that is being checked is a file or a link.
LEMMA CheckedIsFile ==
  ASSUME Types, ListsEmpty, NEW w \in Worker, at[w] = "check"
  PROVE  found[w] \subseteq File \cup Link
BY DEF Types, ListsEmpty, Entries

LEMMA FoundStaysFinite ==
  ASSUME PoolProofs!IInv, Types, MoreTypes, [Next]_vars
  PROVE  \A w \in Worker : IsFiniteSet(found'[w])
<1>1. CASE OtherStep \/ StartTerminates
  BY <1>1, OtherFrame DEF MoreTypes, StartTerminates
<1>2. ASSUME NEW w \in Worker, WorkerStep(w)
      PROVE  \A v \in Worker : IsFiniteSet(found'[v])
  <2>1. IsFiniteSet(found'[w])
    <3>1. CASE ReadEntry(w)
      <4>1. PICK e \in unread[w] : found' = [found EXCEPT ![w] = @ \cup {e}]
        BY <3>1 DEF ReadEntry
      <4> QED
        BY <4>1, OneEntryLess DEF Types, MoreTypes
    <3>2. CASE PushDir(w)
      <4>1. PICK d \in found[w] : found' = [found EXCEPT ![w] = @ \ {d}]
        BY <3>2 DEF PushDir
      <4> QED
        BY <4>1, OneEntryLess DEF Types, MoreTypes
    <3>3. CASE CheckEntry(w)
      <4>1. PICK e \in found[w] : found' = [found EXCEPT ![w] = @ \ {e}]
        BY <3>3 DEF CheckEntry
      <4> QED
        BY <4>1, OneEntryLess DEF Types, MoreTypes
    <3>4. CASE ScanThrows(w)
      BY <3>4, FS_EmptySet DEF Types, ScanThrows
    <3>5. CASE \/ TakeTask(w) \/ EnterScan(w) \/ ReadEnds(w) \/ CountEntries(w)
               \/ LockDirs(w) \/ PushEnds(w) \/ LockFiles(w) \/ CheckEnds(w)
               \/ ReturnFromScan(w)
      BY <3>5 DEF MoreTypes, TakeTask, EnterScan, ReadEnds, CountEntries,
                  LockDirs, PushEnds, LockFiles, CheckEnds, ReturnFromScan
    <3> QED
      BY <1>2, <3>1, <3>2, <3>3, <3>4, <3>5, WorkerSteps
  <2> QED
    BY <1>2, <2>1, WorkerFrameLocal DEF MoreTypes
<1> QED
  BY <1>1, <1>2, AnyStep

\* The part of MoreTypes that is not about found.
Scalars ==
  /\ Len(unscanned_dirs) <= MaxRoots /\ launches <= MaxLaunches
  /\ dir_mutex \in Worker \cup {NoThread}
  /\ file_info_mutex \in Worker \cup {NoThread}
  /\ file_infos \subseteq Info /\ recorded \subseteq Info
  /\ file_counts \in Nat /\ seen \in Nat /\ late \in Nat
  /\ user \in UserAt /\ recorder \in RecorderAt
  /\ stopper \in {"free", "pause", "killed"}
  /\ closing \in BOOLEAN /\ lost \subseteq Path

LEMMA ScalarsStep ==
  ASSUME PoolProofs!IInv, Types, MoreTypes, HandsHold, ListsEmpty, [Next]_vars
  PROVE  Scalars'
<1>0. /\ Scalars
      /\ hand \in [Worker -> Path \cup {NoTask}]
      /\ unscanned_dirs \in Seq(Path) /\ launches \in Nat
      /\ MaxRoots \in Nat /\ MaxLaunches \in Nat
  BY PoolFacts, SwitchAssumption DEF MoreTypes, Scalars, Types
<1>1. ASSUME NEW p \in RootPath, add_path(p)
      PROVE  Scalars'
  <2>1. Len(unscanned_dirs') <= MaxRoots
    BY <1>0, <1>1 DEF add_path
  <2> QED
    BY <1>0, <1>1, <2>1 DEF Scalars, add_path, shared, helpers, history
<1>2. CASE launch
  BY <1>0, <1>2 DEF Scalars, launch, helpers, UserAt
<1>3. CASE wait \/ stop \/ StopPauses
  BY <1>0, <1>3 DEF Scalars, wait, stop, StopPauses, shared, helpers, history,
                    UserAt
<1>4. CASE LaunchPush \/ LaunchThrows \/ StartRecorder \/ StartNotifier
  BY <1>0, <1>4 DEF Scalars, LaunchPush, LaunchThrows, StartRecorder,
                    StartNotifier, shared, helpers, history, UserAt, RecorderAt
<1>5. CASE JoinNotifier \/ JoinRecorder \/ ClosePool \/ StartTerminates
  BY <1>0, <1>5 DEF Scalars, JoinNotifier, JoinRecorder, ClosePool,
                    StartTerminates, shared, helpers, history, UserAt, RecorderAt
<1>6. CASE NotifierMoves
  BY <1>0, <1>6 DEF Scalars, NotifierMoves, NotifierPolls, NotifierSeesEnd,
                    NotifierClears, NotifierPauses, vars, shared, client,
                    helpers, history
<1>7. CASE RecorderMoves \/ Rests
  BY <1>0, <1>7 DEF Scalars, RecorderMoves, RecorderReadsRunning,
                    RecorderReadsEmpty, RecorderSwaps, Rests, vars, shared,
                    client, helpers, history, RecorderAt
<1>8. ASSUME NEW w \in Worker, WorkerStep(w)
      PROVE  Scalars'
  <2>1. CASE CountEntries(w)
    <3>1. Cardinality(found[w]) \in Nat
      BY FS_CardinalityType DEF MoreTypes
    <3>2. file_counts \in Nat /\ file_counts' = file_counts + Cardinality(found[w])
      BY <2>1 DEF MoreTypes, CountEntries
    <3>3. file_counts' \in Nat
      BY <3>1, <3>2
    <3> QED
      BY <1>0, <2>1, <3>3 DEF Scalars, CountEntries, client, helpers, history
  <2>2. CASE CheckEntry(w)
    <3>0. PICK e \in found[w] :
            \E added \in Outcomes(e) : file_infos' = file_infos \cup added
      BY <2>2 DEF CheckEntry
    <3>1. PICK added \in Outcomes(e) : file_infos' = file_infos \cup added
      BY <3>0
    <3>2. e \in File \cup Link
      BY <2>2, CheckedIsFile DEF CheckEntry
    <3>3. added \subseteq Info
      BY <3>1, <3>2, OutcomesAreInfo
    <3> QED
      BY <1>0, <2>2, <3>1, <3>3
         DEF Scalars, CheckEntry, client, helpers, history
  <2>3. CASE ScanThrows(w)
    <3>1. hand[w] \in Path
      BY <1>0, <2>3 DEF ScanThrows, HandsHold
    <3> QED
      BY <1>0, <2>3, <3>1 DEF Scalars, ScanThrows, client, helpers
  <2>4. CASE \/ LockDirs(w) \/ PushDir(w) \/ PushEnds(w) \/ LockFiles(w)
             \/ CheckEnds(w)
    BY <1>0, <2>4 DEF Scalars, LockDirs, PushDir, PushEnds, LockFiles, CheckEnds,
                      shared, client, helpers, history
  <2>5. CASE \/ TakeTask(w) \/ EnterScan(w) \/ ReadEntry(w) \/ ReadEnds(w)
             \/ ReturnFromScan(w)
    BY <1>0, <2>5 DEF Scalars, TakeTask, EnterScan, ReadEntry, ReadEnds,
                      ReturnFromScan, shared, client, helpers, history
  <2> QED
    BY <1>8, <2>1, <2>2, <2>3, <2>4, <2>5, WorkerSteps
<1> QED
  BY <1>1, <1>2, <1>3, <1>4, <1>5, <1>6, <1>7, <1>8, AnyStep DEF OtherStep

LEMMA MoreTypesStep ==
  ASSUME PoolProofs!IInv, Types, MoreTypes, HandsHold, ListsEmpty, [Next]_vars
  PROVE  MoreTypes'
BY ScalarsStep, FoundStaysFinite DEF Scalars, MoreTypes

-----------------------------------------------------------------------------
(* The user's threads. *)

LEMMA JoinOrderStep ==
  ASSUME Types, PoolProofs!IInv, JoinOrder, [Next]_vars
  PROVE  JoinOrder'
<1> USE DEF JoinOrder
<1>1. CASE \/ \E p \in RootPath : add_path(p)
           \/ launch \/ wait \/ stop \/ LaunchThrows
  <2>1. /\ UNCHANGED <<at, running, notifier, recorder>>
        /\ \/ user' = user
           \/ user # "killed" /\ user' \in {"free", "launching", "join notifier"}
    BY <1>1 DEF add_path, launch, wait, stop, LaunchThrows, pool, local, helpers
  <2> QED
    BY <2>1 DEF Joinable
<1>6. CASE StartRecorder \/ StartNotifier \/ JoinNotifier \/ JoinRecorder
  <2>1. UNCHANGED <<at, running>>
    BY <1>6 DEF StartRecorder, StartNotifier, JoinNotifier, JoinRecorder, pool,
                local
  <2> QED
    BY <1>6, <2>1 DEF Joinable, StartRecorder, StartNotifier, JoinNotifier,
                      JoinRecorder
<1>2. CASE LaunchPush \/ ClosePool
  <2>1. UNCHANGED <<notifier, recorder, at>>
    BY <1>2 DEF LaunchPush, ClosePool, local, helpers
  <2>2. \/ user = "launching" /\ user' = user
        \/ user = "close pool" /\ user' = "gone" /\ ~running'
    BY <1>2 DEF LaunchPush, ClosePool, Pool!Shutdown
  <2> QED
    BY <2>1, <2>2 DEF Joinable
<1>3. CASE StopPauses \/ NotifierMoves \/ RecorderMoves \/ Rests
  <2>1. UNCHANGED <<user, at, running>>
    BY <1>3 DEF StopPauses, NotifierMoves, NotifierPolls, NotifierSeesEnd,
                NotifierClears, NotifierPauses, RecorderMoves,
                RecorderReadsRunning, RecorderReadsEmpty, RecorderSwaps, Rests, vars,
                Pool!Pause, pool, client, local
  <2>2. notifier' = notifier \/ Joinable(notifier)
    BY <1>3 DEF StopPauses, NotifierMoves, NotifierPolls, NotifierSeesEnd,
                NotifierClears, NotifierPauses, RecorderMoves,
                RecorderReadsRunning, RecorderReadsEmpty, RecorderSwaps, Rests, vars,
                helpers, Joinable
  <2>3. recorder' = recorder \/ Joinable(recorder)
    BY <1>3 DEF StopPauses, NotifierMoves, NotifierPolls, NotifierSeesEnd,
                NotifierClears, NotifierPauses, RecorderMoves,
                RecorderReadsRunning, RecorderReadsEmpty, RecorderSwaps, Rests, vars,
                helpers, Joinable
  <2> QED
    BY <2>1, <2>2, <2>3 DEF Joinable
<1>4. CASE StartTerminates
  BY <1>4 DEF StartTerminates
<1>5. ASSUME NEW w \in Worker, WorkerStep(w)
      PROVE  JoinOrder'
  <2>1. UNCHANGED <<user, notifier, recorder>>
    BY <1>5, WorkerFrame
  <2>2. running' = running
    BY <1>5, WorkerSteps
       DEF TakeTask, EnterScan, ReadEntry, ReadEnds, CountEntries, LockDirs,
           PushDir, PushEnds, LockFiles, CheckEntry, CheckEnds, ScanThrows,
           ReturnFromScan, Pool!Take, Pool!Push, Pool!Finish, pool
  <2>3. at[w] # "killed" => at'[w] # "killed"
    BY <1>5, WorkerSteps
       DEF Types, TakeTask, EnterScan, ReadEntry, ReadEnds, CountEntries,
           LockDirs, PushDir, PushEnds, LockFiles, CheckEntry, CheckEnds,
           ScanThrows, ReturnFromScan, Goto
  <2>4. \A v \in Worker : at[v] # "killed" => at'[v] # "killed"
    BY <1>5, <2>3, WorkerFrameLocal
  <2> QED
    BY <2>1, <2>2, <2>4 DEF Joinable
<1> QED
  BY <1>1, <1>2, <1>3, <1>4, <1>5, <1>6, AnyStep DEF OtherStep

LEMMA StopAgreesStep ==
  ASSUME PoolProofs!IInv, StopAgrees, [Next]_vars
  PROVE  StopAgrees'
<1>1. CASE \/ \E p \in RootPath : add_path(p)
           \/ launch \/ wait \/ stop \/ LaunchThrows \/ StartRecorder
           \/ StartNotifier \/ JoinNotifier \/ JoinRecorder \/ StartTerminates
  <2>1. UNCHANGED <<paused, taking, late>>
    BY <1>1 DEF add_path, launch, wait, stop, LaunchThrows, StartRecorder,
                StartNotifier, JoinNotifier, JoinRecorder, StartTerminates, pool,
                history
  <2>2. stopped' /\ stopper' = "free" => stopped /\ stopper = "free"
    BY <1>1 DEF add_path, launch, wait, stop, LaunchThrows, StartRecorder,
                StartNotifier, JoinNotifier, JoinRecorder, StartTerminates,
                history
  <2> QED
    BY <2>1, <2>2 DEF StopAgrees
<1>2. CASE StopPauses \/ LaunchPush \/ ClosePool
  <2>1. UNCHANGED <<taking, late, stopped>>
    BY <1>2 DEF StopPauses, LaunchPush, ClosePool, Pool!Pause, Pool!Push,
                Pool!Shutdown, history
  <2>2. CASE StopPauses
    BY <2>1, <2>2 DEF StopPauses, Pool!Pause, StopAgrees
  <2>3. CASE LaunchPush \/ ClosePool
    <3>1. UNCHANGED <<paused, stopper>>
      BY <2>3 DEF LaunchPush, ClosePool, Pool!Push, Pool!Shutdown
    <3> QED
      BY <2>1, <3>1 DEF StopAgrees
  <2> QED
    BY <1>2, <2>2, <2>3
<1>3. CASE NotifierMoves \/ RecorderMoves \/ Gone \/ UNCHANGED vars
  BY <1>3 DEF NotifierMoves, NotifierPolls, NotifierSeesEnd, NotifierClears,
              NotifierPauses, Pool!Pause, RecorderMoves, RecorderReadsRunning,
              RecorderReadsEmpty, RecorderSwaps, Gone, vars, pool, client, history,
              StopAgrees
<1>4. ASSUME NEW w \in Worker, LookForTask(w)
      PROVE  StopAgrees'
  BY <1>4 DEF LookForTask, Pool!Look, client, history, StopAgrees
<1>5. ASSUME NEW w \in Worker, TakeTask(w)
      PROVE  StopAgrees'
  <2>1. taking = {w} /\ taking' = {} /\ paused' = paused
    BY <1>5, TakeFacts DEF TakeTask
  <2>2. late = 0
    BY <2>1 DEF StopAgrees
  <2>3. /\ UNCHANGED <<stopped, stopper>>
        /\ late' = IF stopped /\ stopper = "free" THEN late + 1 ELSE late
    BY <1>5 DEF TakeTask, client
  <2> QED
    BY <2>1, <2>2, <2>3 DEF StopAgrees
<1>6. ASSUME NEW w \in Worker, WorkerStep(w), ~TakeTask(w)
      PROVE  StopAgrees'
  <2>1. UNCHANGED <<stopped, stopper, paused, taking, late>>
    BY <1>6, WorkerSteps
       DEF EnterScan, ReadEntry, ReadEnds, CountEntries, LockDirs, PushDir,
           PushEnds, LockFiles, CheckEntry, CheckEnds, ScanThrows,
           ReturnFromScan, Pool!Push, Pool!Finish, pool, client, history
  <2> QED
    BY <2>1 DEF StopAgrees
<1> QED
  BY <1>1, <1>2, <1>3, <1>4, <1>5, <1>6 DEF Next, UserMoves, WorkerStep

-----------------------------------------------------------------------------
(* The theorems for any number of launches. *)

LEMMA SafeInit == Init => SafeInv
<1> SUFFICES ASSUME Init PROVE SafeInv
  OBVIOUS
<1>1. MoreTypes
  <2>1. Len(unscanned_dirs) <= MaxRoots /\ launches <= MaxLaunches
    BY SwitchAssumption DEF Init
  <2>2. \A w \in Worker : IsFiniteSet(found[w])
    BY FS_EmptySet DEF Init
  <2> QED
    BY <2>1, <2>2 DEF MoreTypes, Init, UserAt, RecorderAt
<1>2. HandsHold /\ LocksHeld /\ ListsEmpty /\ JoinOrder /\ StopAgrees
  BY ThreadAssumption
     DEF Init, Pool!Init, HandsHold, LocksHeld, ListsEmpty, JoinOrder, StopAgrees
<1> QED
  BY <1>1, <1>2, InitInv DEF SafeInv

LEMMA SafeStep == SafeInv /\ [Next]_vars => SafeInv'
<1> SUFFICES ASSUME SafeInv, [Next]_vars PROVE SafeInv'
  OBVIOUS
<1>1. PoolProofs!IInv /\ Types
  BY DEF SafeInv, IInv
<1> QED
  BY <1>1, StepInv, MoreTypesStep, HandsHoldStep, LocksHeldStep, ListsEmptyStep,
     JoinOrderStep, StopAgreesStep DEF SafeInv

THEOREM SafeHolds == Spec => []SafeInv
BY SafeInit, SafeStep, PTL DEF Spec

\* Every variable of the engine has its type, whatever is added, launched,
\* stopped or fails.
THEOREM TypeCorrect == Spec => []TypeOK
<1>1. SafeInv => TypeOK
  <2> SUFFICES ASSUME SafeInv PROVE TypeOK
    OBVIOUS
  <2>1. PoolProofs!TypeOK
    BY DEF SafeInv, IInv, PoolProofs!IInv
  <2>2. Pool!TypeOK
    BY <2>1 DEF Pool!TypeOK, PoolProofs!TypeOK
  <2>3. launches \in 0 .. MaxLaunches
    BY SwitchAssumption DEF SafeInv, IInv, Types, MoreTypes
  <2> QED
    BY <2>2, <2>3 DEF SafeInv, IInv, Types, MoreTypes, TypeOK, Entries
<1> QED
  BY <1>1, SafeHolds, PTL

\* When the destructor has returned nobody is left in the object: no worker in
\* do_scan, no helper thread, no mutex held (scan_private.cpp:30, 69).
THEOREM NeverUsedAfterDestroy == Spec => []NoUseAfterDestroy
<1>1. SafeInv => NoUseAfterDestroy
  <2> SUFFICES ASSUME SafeInv, user = "gone"
               PROVE  /\ \A w \in Worker : at[w] = "idle" /\ hand[w] = NoTask
                      /\ ~Joinable(notifier) /\ ~Joinable(recorder)
                      /\ dir_mutex = NoThread /\ file_info_mutex = NoThread
    BY DEF NoUseAfterDestroy
  <2>1. /\ ~running /\ ~Joinable(notifier) /\ ~Joinable(recorder)
        /\ \A w \in Worker : at[w] # "killed"
    BY DEF SafeInv, JoinOrder
  <2>2. \A w \in Worker : hand[w] = NoTask
    BY <2>1 DEF SafeInv, IInv, PoolProofs!IInv, PoolProofs!QuietAfterShutdown,
                PoolProofs!Busy
  <2>3. \A w \in Worker : at[w] = "idle"
    BY <2>1, <2>2 DEF SafeInv, HandsHold
  <2>4. dir_mutex = NoThread /\ file_info_mutex = NoThread
    BY <2>3 DEF SafeInv, LocksHeld, MoreTypes
  <2> QED
    BY <2>1, <2>2, <2>3, <2>4
<1> QED
  BY <1>1, SafeHolds, PTL

\* stop() holds for good: whatever happens once it has returned, at most one
\* task starts, that of a worker which had read paused_ before pause() and not
\* yet popped (scan_private.cpp:78, thread_pool.hpp:138-145).
THEOREM StopAlwaysHolds == Spec => []StopHolds
<1>1. SafeInv => StopHolds
  BY DEF SafeInv, StopAgrees, StopHolds
<1> QED
  BY <1>1, SafeHolds, PTL

-----------------------------------------------------------------------------
(* The first launch: the invariant continued.                               *)

\* The entries that readdir has yielded (and seen counts) and do_scan has not
\* yet added to file_counts_, with the worker that holds them.
Uncounted ==
  {u \in Worker \X Entries :
     at[u[1]] \in {"read", "count"} /\ u[2] \in found[u[1]]}

CountsAgree ==
  /\ IsFiniteSet(Uncounted)
  /\ lost = {} => seen = file_counts + Cardinality(Uncounted)

\* What e stands for has been handed over, unless there is nothing to record.
Handled(e) ==
  \E outcome \in Outcomes(e) : outcome \subseteq file_infos \cup recorded

\* An entry of a directory that is being scanned is handled, or still in the
\* lists of the task; of one that has been scanned, it is handled.
FilesHandled ==
  ~stopped =>
    /\ \A w \in Worker : at[w] \notin {"idle", "enter"} /\ Expands(hand[w]) =>
         \A e \in Contents[hand[w]] : e \in unread[w] \cup found[w] \/ Handled(e)
    /\ \A p \in scanned : Expands(p) => \A e \in Contents[p] : Handled(e)

\* The recorder leaves its loop only after the notifier has cleared running_,
\* and with nothing left to record.
RecorderLast ==
  FirstScan =>
    /\ recorder \in {"empty?", "done", "joined"} =>
         notifier \in {"pause", "done", "joined"}
    /\ recorder \in {"done", "joined"} => file_infos = {}

\* Every record is one that the header of its file can give (any launch).
PossibleRecords == \A r \in file_infos \cup recorded : r \in UNION Outcomes(r.path)

RecordInv ==
  /\ SafeInv /\ PossibleRecords
  /\ launches <= 1 => CountsAgree /\ FilesHandled /\ RecorderLast

-----------------------------------------------------------------------------
(* The total. *)

LEMMA OtherKeepsCounts ==
  ASSUME OtherStep, ~launch
  PROVE  UNCHANGED <<seen, file_counts>>
BY DEF OtherStep, add_path, wait, stop, StopPauses, LaunchPush,
       LaunchThrows, StartRecorder, StartNotifier, JoinNotifier, JoinRecorder,
       ClosePool, NotifierMoves, NotifierPolls, NotifierSeesEnd, NotifierClears,
       NotifierPauses, RecorderMoves, RecorderReadsRunning, RecorderReadsEmpty,
       RecorderSwaps, Rests, vars, shared, history

\* As many pairs as entries.
LEMMA PairsWith ==
  ASSUME NEW w, NEW S, IsFiniteSet(S)
  PROVE  IsFiniteSet({w} \X S) /\ Cardinality({w} \X S) = Cardinality(S)
<1>1. IsFiniteSet({w}) /\ Cardinality({w}) = 1
  BY FS_Singleton
<1>2. Cardinality(S) \in Nat
  BY FS_CardinalityType
<1>3. /\ IsFiniteSet({w} \X S)
      /\ Cardinality({w} \X S) = Cardinality({w}) * Cardinality(S)
  BY <1>1, FS_Product
<1> QED
  BY <1>1, <1>2, <1>3

LEMMA CountsStep ==
  ASSUME SafeInv, FirstLaunchInv, CountsAgree, launches' <= 1, [Next]_vars
  PROVE  CountsAgree'
<1>0. /\ PoolProofs!IInv /\ Types /\ MoreTypes /\ ListsEmpty
      /\ found \in [Worker -> SUBSET Entries]
      /\ unread \in [Worker -> SUBSET Entries]
      /\ at \in [Worker -> WorkerAt]
  BY DEF SafeInv, IInv, Types
<1>1. CASE Uncounted' = Uncounted /\ UNCHANGED <<seen, file_counts, lost>>
  BY <1>1 DEF CountsAgree
<1>2. CASE OtherStep /\ ~launch
  <2>1. UNCHANGED <<at, found, lost>>
    BY <1>2, OtherFrame
  <2> QED
    BY <1>1, <1>2, <2>1, OtherKeepsCounts DEF Uncounted
<1>3. CASE launch
  <2>1. launches = 0
    BY <1>0, <1>3 DEF launch, Types
  <2>2. at' = at /\ \A w \in Worker : at[w] = "idle"
    BY <1>3, <2>1 DEF FirstLaunchInv, LaunchOrder, launch, local
  <2>3. Uncounted' = {}
    BY <2>2 DEF Uncounted
  <2>4. seen' = file_counts' /\ file_counts' \in Nat
    BY <1>0, <1>3 DEF launch, Types
  <2> QED
    BY <2>3, <2>4, FS_EmptySet DEF CountsAgree
<1>4. ASSUME NEW w \in Worker, WorkerStep(w)
      PROVE  CountsAgree'
  <2>1. \A v \in Worker : v # w => at'[v] = at[v] /\ found'[v] = found[v]
    BY <1>0, <1>4, WorkerFrameLocal
  <2>2. CASE ReadEntry(w)
    <3>1. PICK e \in unread[w] : found' = [found EXCEPT ![w] = @ \cup {e}]
      BY <2>2 DEF ReadEntry
    <3>2. e \in Entries /\ e \notin found[w]
      BY <1>0, <3>1 DEF ListsEmpty
    <3>3. at' = at /\ at[w] = "read"
      BY <2>2 DEF ReadEntry
    <3>4. Uncounted' = Uncounted \cup {<<w, e>>} /\ <<w, e>> \notin Uncounted
      BY <1>0, <3>1, <3>2, <3>3 DEF Uncounted
    <3>5. seen' = seen + 1 /\ file_counts' = file_counts /\ lost' = lost
      BY <2>2 DEF ReadEntry, shared
    <3>6. /\ IsFiniteSet(Uncounted')
          /\ Cardinality(Uncounted') = Cardinality(Uncounted) + 1
      BY <3>4, FS_AddElement DEF CountsAgree
    <3>7. Cardinality(Uncounted) \in Nat /\ file_counts \in Nat
      BY <1>0, FS_CardinalityType DEF CountsAgree, MoreTypes
    <3> QED
      BY <3>5, <3>6, <3>7 DEF CountsAgree
  <2>3. CASE CountEntries(w)
    <3>1. at' = [at EXCEPT ![w] = "lock dirs"] /\ at[w] = "count" /\ found' = found
      BY <2>3 DEF CountEntries, Goto
    <3>2. /\ Uncounted' = Uncounted \ ({w} \X found[w])
          /\ {w} \X found[w] \subseteq Uncounted
      BY <1>0, <3>1 DEF Uncounted
    <3>3. IsFiniteSet(Uncounted) /\ IsFiniteSet(found[w])
      BY <1>0 DEF CountsAgree, MoreTypes
    <3>4. /\ IsFiniteSet(Uncounted')
          /\ Cardinality(Uncounted') =
               Cardinality(Uncounted) - Cardinality(Uncounted \cap ({w} \X found[w]))
      BY <3>2, <3>3, FS_Difference
    <3>5. Uncounted \cap ({w} \X found[w]) = {w} \X found[w]
      BY <3>2
    <3>9. Cardinality({w} \X found[w]) = Cardinality(found[w])
      BY <3>3, PairsWith, Zenon
    <3>6. Cardinality(Uncounted') = Cardinality(Uncounted) - Cardinality(found[w])
      BY <3>4, <3>5, <3>9, Zenon
    <3>7. /\ file_counts' = file_counts + Cardinality(found[w])
          /\ seen' = seen /\ lost' = lost
      BY <2>3 DEF CountEntries, history
    <3>8. /\ Cardinality(Uncounted) \in Nat /\ Cardinality(found[w]) \in Nat
          /\ file_counts \in Nat
      BY <1>0, <3>3, FS_CardinalityType DEF MoreTypes
    <3> QED
      BY <3>4, <3>6, <3>7, <3>8 DEF CountsAgree
  <2>4. CASE ScanThrows(w)
    <3>1. lost' # {} /\ found'[w] = {}
      BY <1>0, <2>4 DEF ScanThrows
    <3>2. Uncounted' \subseteq Uncounted
      BY <2>1, <3>1 DEF Uncounted
    <3> QED
      BY <3>1, <3>2, FS_Subset DEF CountsAgree
  <2>5. CASE EnterScan(w)
    <3>1. found' = found /\ found[w] = {} /\ UNCHANGED <<seen, file_counts, lost>>
      BY <1>0, <2>5 DEF EnterScan, Goto, ListsEmpty, shared, history
    <3>2. Uncounted' = Uncounted
      BY <2>1, <3>1 DEF Uncounted
    <3> QED
      BY <1>1, <3>1, <3>2
  <2>6. CASE ReadEnds(w)
    <3>1. /\ at[w] = "read" /\ at'[w] = "count" /\ found' = found
          /\ UNCHANGED <<seen, file_counts, lost>>
      BY <1>0, <2>6 DEF ReadEnds, Goto, shared, history
    <3>2. Uncounted' = Uncounted
      BY <2>1, <3>1 DEF Uncounted
    <3> QED
      BY <1>1, <3>1, <3>2
  <2>7. CASE \/ TakeTask(w) \/ LockDirs(w) \/ PushDir(w) \/ PushEnds(w)
             \/ LockFiles(w) \/ CheckEntry(w) \/ CheckEnds(w) \/ ReturnFromScan(w)
    <3>1. at[w] \notin {"read", "count"} /\ at'[w] \notin {"read", "count"}
      BY <1>0, <2>7 DEF TakeTask, LockDirs, PushDir, PushEnds, LockFiles,
                        CheckEntry, CheckEnds, ReturnFromScan, Goto
    <3>2. UNCHANGED <<seen, file_counts, lost>>
      BY <2>7 DEF TakeTask, LockDirs, PushDir, PushEnds, LockFiles, CheckEntry,
                  CheckEnds, ReturnFromScan, shared, history
    <3>3. Uncounted' = Uncounted
      BY <2>1, <3>1 DEF Uncounted
    <3> QED
      BY <1>1, <3>2, <3>3
  <2> QED
    BY <1>4, <2>2, <2>3, <2>4, <2>5, <2>6, <2>7, WorkerSteps
<1> QED
  BY <1>0, <1>2, <1>3, <1>4, StepCases

-----------------------------------------------------------------------------
(* The records. *)

\* Nothing that has been found is dropped.
LEMMA RecordsGrow ==
  ASSUME [Next]_vars
  PROVE  file_infos \cup recorded \subseteq file_infos' \cup recorded'
<1>1. CASE OtherStep \/ StartTerminates
  BY <1>1 DEF OtherStep, add_path, launch, wait, stop, StopPauses, LaunchPush,
       LaunchThrows, StartRecorder, StartNotifier, JoinNotifier, JoinRecorder,
       ClosePool, NotifierMoves, NotifierPolls, NotifierSeesEnd, NotifierClears,
       NotifierPauses, RecorderMoves, RecorderReadsRunning, RecorderReadsEmpty,
       RecorderSwaps, Rests, vars, shared, history, StartTerminates
<1>2. ASSUME NEW w \in Worker, WorkerStep(w)
      PROVE  file_infos \subseteq file_infos' /\ recorded \subseteq recorded'
  BY <1>2, WorkerSteps
     DEF TakeTask, EnterScan, ReadEntry, ReadEnds, CountEntries, LockDirs,
         PushDir, PushEnds, LockFiles, CheckEntry, CheckEnds, ScanThrows,
         ReturnFromScan, shared, history
<1> QED
  BY <1>1, <1>2, AnyStep

LEMMA HandledStays ==
  ASSUME [Next]_vars, NEW e, Handled(e)
  PROVE  Handled(e)'
BY RecordsGrow DEF Handled

\* Only a worker in its critical section adds to file_infos_.
LEMMA OnlyCheckAdds ==
  ASSUME [Next]_vars
  PROVE  \/ file_infos' \cup recorded' = file_infos \cup recorded
         \/ \E w \in Worker : CheckEntry(w)
<1>1. CASE OtherStep \/ StartTerminates
  BY <1>1 DEF OtherStep, add_path, launch, wait, stop, StopPauses, LaunchPush,
       LaunchThrows, StartRecorder, StartNotifier, JoinNotifier, JoinRecorder,
       ClosePool, NotifierMoves, NotifierPolls, NotifierSeesEnd, NotifierClears,
       NotifierPauses, RecorderMoves, RecorderReadsRunning, RecorderReadsEmpty,
       RecorderSwaps, Rests, vars, shared, history, StartTerminates
<1>2. ASSUME NEW w \in Worker, WorkerStep(w), ~CheckEntry(w)
      PROVE  UNCHANGED <<file_infos, recorded>>
  BY <1>2, WorkerSteps
     DEF TakeTask, EnterScan, ReadEntry, ReadEnds, CountEntries, LockDirs,
         PushDir, PushEnds, LockFiles, CheckEnds, ScanThrows, ReturnFromScan,
         shared, history
<1> QED
  BY <1>1, <1>2, AnyStep

\* One round of the critical section handles one entry.
LEMMA CheckHandles ==
  ASSUME Types, ListsEmpty, NEW w \in Worker, CheckEntry(w)
  PROVE  \E e \in found[w] :
           /\ e \in File \cup Link
           /\ found' = [found EXCEPT ![w] = @ \ {e}]
           /\ \E added \in Outcomes(e) : /\ file_infos' = file_infos \cup added
                                         /\ added \subseteq {r \in Info : r.path = e}
<1>1. PICK e \in found[w] :
        /\ \E added \in Outcomes(e) : file_infos' = file_infos \cup added
        /\ found' = [found EXCEPT ![w] = @ \ {e}]
  BY DEF CheckEntry
<1>2. PICK added \in Outcomes(e) : file_infos' = file_infos \cup added
  BY <1>1
<1>3. e \in File \cup Link
  BY <1>1, CheckedIsFile DEF CheckEntry
<1>4. added \subseteq {r \in Info : r.path = e}
  BY <1>3, OutcomesAreInfo
<1> QED
  BY <1>1, <1>2, <1>3, <1>4

LEMMA PossibleStep ==
  ASSUME Types, ListsEmpty, PossibleRecords, [Next]_vars
  PROVE  PossibleRecords'
<1>1. CASE file_infos' \cup recorded' = file_infos \cup recorded
  BY <1>1 DEF PossibleRecords
<1>2. ASSUME NEW w \in Worker, CheckEntry(w)
      PROVE  PossibleRecords'
  <2>1. PICK e \in found[w] :
          \E added \in Outcomes(e) : /\ file_infos' = file_infos \cup added
                                     /\ added \subseteq {r \in Info : r.path = e}
    BY <1>2, CheckHandles
  <2>2. PICK added \in Outcomes(e) : /\ file_infos' = file_infos \cup added
                                     /\ added \subseteq {r \in Info : r.path = e}
    BY <2>1
  <2>3. \A r \in added : r \in UNION Outcomes(r.path)
    BY <2>2
  <2>4. recorded' = recorded
    BY <1>2 DEF CheckEntry, history
  <2> QED
    BY <2>2, <2>3, <2>4 DEF PossibleRecords
<1> QED
  BY <1>1, <1>2, OnlyCheckAdds

\* The first scan goes on as long as a worker is busy.
LEMMA BusyScans ==
  ASSUME PoolProofs!IInv, Types, FirstLaunchInv, launches' <= 1, [Next]_vars,
         ~stopped, NEW w \in Worker, at[w] # "idle"
  PROVE  scanning
<1>1. notifier \in {"none", "poll"} /\ launches # 0
  BY BusyIsNotOver
<1>2. launches = 1
  BY <1>1, LaunchesGrow, TypesStep DEF Types
<1> QED
  BY <1>1, <1>2 DEF FirstLaunchInv, ScanningOn, FirstScan

\* Nothing un-stops a scan or finds a lost path again.
LEMMA StaysStopped ==
  ASSUME [Next]_vars
  PROVE  (stopped => stopped') /\ lost \subseteq lost'
<1>1. CASE OtherStep
  <2>1. CASE stop \/ launch \/ RecorderSwaps
    BY <2>1 DEF stop, launch, RecorderSwaps
  <2>2. CASE ~(stop \/ launch \/ RecorderSwaps)
    <3>1. stopped' = stopped
      BY <1>1, <2>2
         DEF OtherStep, add_path, wait, StopPauses, LaunchPush, LaunchThrows,
             StartRecorder, StartNotifier, JoinNotifier, JoinRecorder,
             ClosePool, NotifierMoves, NotifierPolls, NotifierSeesEnd,
             NotifierClears, NotifierPauses, RecorderMoves,
             RecorderReadsRunning, RecorderReadsEmpty, Rests, vars,
             history
    <3> QED
      BY <1>1, <3>1, OtherFrame
  <2> QED
    BY <2>1, <2>2
<1>2. CASE StartTerminates
  BY <1>2 DEF StartTerminates, history
<1> QED
  BY <1>1, <1>2, WorkerFrame, AnyStep

\* The entries of a directory are files and links, no paths.
LEMMA ContentsAreFiles ==
  \A p \in Path : Contents[p] \subseteq File \cup Link /\ Contents[p] \cap Path = {}
BY TreeAssumption

\* The worker that takes the step: none of the entries it has to handle is
\* dropped.
LEMMA WorkerHandles ==
  ASSUME SafeInv, FirstLaunchInv, FilesHandled, launches' <= 1, [Next]_vars,
         ~stopped', NEW w \in Worker, WorkerStep(w),
         at'[w] \notin {"idle", "enter"}, Expands(hand[w])',
         NEW e \in Contents[hand'[w]]
  PROVE  e \in unread'[w] \cup found'[w] \/ Handled(e)'
<1>0. /\ PoolProofs!IInv /\ Types /\ ListsEmpty /\ HandsHold /\ ~stopped
      /\ found \in [Worker -> SUBSET Entries]
      /\ unread \in [Worker -> SUBSET Entries]
      /\ at \in [Worker -> WorkerAt]
      /\ hand \in [Worker -> Path \cup {NoTask}]
  BY PoolFacts, StaysStopped DEF SafeInv, IInv, Types
<1>1. at[w] # "idle" /\ hand'[w] = hand[w]
  BY <1>0, WorkerSteps
     DEF TakeTask, EnterScan, ReadEntry, ReadEnds, CountEntries, LockDirs,
         PushDir, PushEnds, LockFiles, CheckEntry, CheckEnds, ScanThrows,
         ReturnFromScan, Goto, pool, Pool!Push
<1>2. scanning
  BY <1>0, <1>1, BusyScans
<1>3. hand[w] \in Path /\ Expands(hand[w])
  <2>1. at[w] # "killed"
    BY DEF FirstLaunchInv, NobodyKilled
  <2>2. hand[w] \in Path
    BY <1>0, <1>1, <2>1 DEF HandsHold
  <2> QED
    BY <1>1, <2>2, StaysStopped DEF Expands
<1>4. e \in Contents[hand[w]] /\ e \in File \cup Link /\ e \notin Path
  BY <1>1, <1>3, ContentsAreFiles
<1>5. CASE EnterScan(w)
  <2>1. unread'[w] = SubDirs[hand[w]] \cup Contents[hand[w]]
    BY <1>0, <1>2, <1>3, <1>5 DEF EnterScan, Expands
  <2> QED
    BY <1>4, <2>1
<1>6. CASE ScanThrows(w)
  BY <1>1, <1>6 DEF ScanThrows, Expands
<1>7. CASE TakeTask(w) \/ ReturnFromScan(w)
  BY <1>0, <1>7 DEF TakeTask, ReturnFromScan, Goto
<1>8. ASSUME at[w] # "enter"
      PROVE  e \in unread[w] \cup found[w] \/ Handled(e)'
  BY <1>0, <1>1, <1>3, <1>4, <1>8, HandledStays DEF FilesHandled
<1>9. CASE ReadEntry(w)
  <2>1. unread[w] \cup found[w] \subseteq unread'[w] \cup found'[w]
    BY <1>0, <1>9 DEF ReadEntry
  <2> QED
    BY <1>8, <1>9, <2>1 DEF ReadEntry
<1>10. CASE ReadEnds(w)
  <2>1. unread[w] = {} /\ found' = found /\ at[w] = "read"
    BY <1>2, <1>10 DEF ReadEnds, Goto
  <2> QED
    BY <1>8, <2>1
<1>11. CASE PushDir(w)
  <2>1. /\ unread' = unread /\ found[w] \ Path \subseteq found'[w]
        /\ at[w] = "push"
    BY <1>0, <1>11 DEF PushDir
  <2> QED
    BY <1>4, <1>8, <2>1
<1>12. CASE CheckEntry(w)
  <2>1. PICK f \in found[w] :
          /\ found' = [found EXCEPT ![w] = @ \ {f}]
          /\ \E added \in Outcomes(f) : file_infos' = file_infos \cup added
    BY <1>0, <1>12, CheckHandles
  <2>2. Handled(f)'
    BY <2>1 DEF Handled
  <2>3. unread' = unread /\ at[w] = "check"
    BY <1>12 DEF CheckEntry
  <2> QED
    BY <1>0, <1>8, <2>1, <2>2, <2>3
<1>13. CASE \/ CountEntries(w) \/ LockDirs(w) \/ PushEnds(w) \/ LockFiles(w)
            \/ CheckEnds(w)
  <2>1. unread' = unread /\ found' = found /\ at[w] # "enter"
    BY <1>13 DEF CountEntries, LockDirs, PushEnds, LockFiles, CheckEnds, Goto
  <2> QED
    BY <1>8, <2>1
<1> QED
  BY <1>5, <1>6, <1>7, <1>9, <1>10, <1>11, <1>12, <1>13, WorkerSteps

LEMMA FilesStep ==
  ASSUME SafeInv, FirstLaunchInv, FilesHandled, launches' <= 1, [Next]_vars
  PROVE  FilesHandled'
<1> SUFFICES
      ASSUME ~stopped'
      PROVE  /\ \A v \in Worker :
                  at'[v] \notin {"idle", "enter"} /\ Expands(hand[v])' =>
                    \A e \in Contents[hand'[v]] :
                      e \in unread'[v] \cup found'[v] \/ Handled(e)'
             /\ \A p \in scanned' : Expands(p)' => \A e \in Contents[p] : Handled(e)'
  BY DEF FilesHandled
<1>0. /\ PoolProofs!IInv /\ Types /\ ListsEmpty /\ HandsHold /\ ~stopped
      /\ at \in [Worker -> WorkerAt] /\ scanned \subseteq Path
  BY PoolFacts, StaysStopped DEF SafeInv, IInv, Types
<1>1. \A p : Expands(p)' => Expands(p)
  BY StaysStopped DEF Expands
\* A worker that does not move keeps what it has to handle.
<1>2. ASSUME NEW v \in Worker, at'[v] = at[v], hand'[v] = hand[v],
             unread'[v] = unread[v], found'[v] = found[v],
             at'[v] \notin {"idle", "enter"}, Expands(hand[v])',
             NEW e \in Contents[hand'[v]]
      PROVE  e \in unread'[v] \cup found'[v] \/ Handled(e)'
  <2>1. Expands(hand[v])
    BY <1>2, StaysStopped DEF Expands
  <2>2. e \in unread[v] \cup found[v] \/ Handled(e)
    BY <1>0, <1>2, <2>1 DEF FilesHandled
  <2> QED
    BY <1>2, <2>2, HandledStays
<1>3. ASSUME NEW p \in scanned, Expands(p)', NEW e \in Contents[p]
      PROVE  Handled(e)'
  BY <1>0, <1>1, <1>3, HandledStays DEF FilesHandled
<1>4. CASE OtherStep
  <2>1. UNCHANGED <<hand, at, unread, found, scanned>>
    BY <1>4, OtherFrame
  <2> QED
    BY <1>2, <1>3, <2>1
<1>5. ASSUME NEW w \in Worker, WorkerStep(w)
      PROVE  /\ \A v \in Worker :
                  at'[v] \notin {"idle", "enter"} /\ Expands(hand[v])' =>
                    \A e \in Contents[hand'[v]] :
                      e \in unread'[v] \cup found'[v] \/ Handled(e)'
             /\ \A p \in scanned' : Expands(p)' => \A e \in Contents[p] : Handled(e)'
  <2>1. ASSUME NEW v \in Worker, v # w, at'[v] \notin {"idle", "enter"},
               Expands(hand[v])', NEW e \in Contents[hand'[v]]
        PROVE  e \in unread'[v] \cup found'[v] \/ Handled(e)'
    BY <1>0, <1>2, <1>5, <2>1, WorkerFrameLocal
  <2>2. ASSUME at'[w] \notin {"idle", "enter"}, Expands(hand[w])',
               NEW e \in Contents[hand'[w]]
        PROVE  e \in unread'[w] \cup found'[w] \/ Handled(e)'
    BY <1>5, <2>2, WorkerHandles
  <2>3. ASSUME NEW p \in scanned', p \notin scanned, Expands(p)',
               NEW e \in Contents[p]
        PROVE  Handled(e)'
    <3>1. ReturnFromScan(w) /\ p = hand[w]
      BY <1>5, <2>3, WorkerSteps
         DEF TakeTask, EnterScan, ReadEntry, ReadEnds, CountEntries, LockDirs,
             PushDir, PushEnds, LockFiles, CheckEntry, CheckEnds, ScanThrows,
             ReturnFromScan, history
    <3>2. at[w] = "return" /\ Expands(p)
      BY <1>1, <2>3, <3>1 DEF ReturnFromScan, Goto
    <3>3. unread[w] = {} /\ found[w] = {}
      BY <1>0, <3>2 DEF ListsEmpty
    <3>4. Handled(e)
      BY <1>0, <2>3, <3>1, <3>2, <3>3 DEF FilesHandled
    <3> QED
      BY <3>4, HandledStays
  <2> QED
    BY <1>3, <2>1, <2>2, <2>3
<1> QED
  BY <1>0, <1>4, <1>5, StepCases

LEMMA RecorderLastStep ==
  ASSUME SafeInv, FirstLaunchInv, RecorderLast, launches' <= 1, [Next]_vars
  PROVE  RecorderLast'
<1> SUFFICES ASSUME FirstScan'
             PROVE  /\ recorder' \in {"empty?", "done", "joined"} =>
                         notifier' \in {"pause", "done", "joined"}
                    /\ recorder' \in {"done", "joined"} => file_infos' = {}
  BY DEF RecorderLast
<1>0. PoolProofs!IInv /\ Types /\ LaunchOrder /\ NobodyKilled
  BY DEF SafeInv, IInv, FirstLaunchInv
<1>1. CASE launch
  <2>1. recorder' = "none"
    BY <1>0, <1>1 DEF launch, Types, LaunchOrder, FirstScan, helpers
  <2> QED
    BY <2>1
<1>2. ASSUME ~launch
      PROVE  FirstScan
  <2>1. CASE OtherStep
    <3>1. launches' = launches
      BY <1>2, <2>1
         DEF OtherStep, add_path, wait, stop, StopPauses, LaunchPush,
             LaunchThrows, StartRecorder, StartNotifier, JoinNotifier,
             JoinRecorder, ClosePool, NotifierMoves, NotifierPolls,
             NotifierSeesEnd, NotifierClears, NotifierPauses, RecorderMoves,
             RecorderReadsRunning, RecorderReadsEmpty, RecorderSwaps, Rests, vars, client
    <3> QED
      BY <3>1, StaysStopped DEF FirstScan
  <2>2. CASE \E w \in Worker : WorkerStep(w)
    BY <2>2, WorkerFrame, StaysStopped DEF FirstScan
  <2> QED
    BY <1>0, <2>1, <2>2, StepCases
<1>3. ASSUME ~launch
      PROVE  /\ recorder \in {"empty?", "done", "joined"} =>
                  notifier \in {"pause", "done", "joined"}
             /\ recorder \in {"done", "joined"} => file_infos = {}
  BY <1>2, <1>3 DEF RecorderLast
<1>4. CASE \/ \E p \in RootPath : add_path(p)
           \/ wait \/ stop \/ LaunchThrows \/ StopPauses \/ LaunchPush \/ ClosePool
  <2>1. UNCHANGED <<file_infos, recorder, notifier>> /\ ~launch
    BY <1>4 DEF add_path, wait, stop, LaunchThrows, StopPauses, LaunchPush,
                ClosePool, launch, shared, helpers
  <2> QED
    BY <1>3, <2>1
<1>5. CASE StartRecorder \/ StartNotifier \/ JoinNotifier \/ JoinRecorder
  <2>1. file_infos' = file_infos /\ ~launch
    BY <1>5 DEF StartRecorder, StartNotifier, JoinNotifier, JoinRecorder, launch,
                shared
  <2> QED
    BY <1>0, <1>3, <1>5, <2>1
       DEF StartRecorder, StartNotifier, JoinNotifier, JoinRecorder, LaunchOrder
<1>6. CASE NotifierMoves
  <2>1. /\ file_infos' = file_infos /\ recorder' = recorder
        /\ notifier' = notifier \/ notifier' \in {"pause", "done"}
             \/ notifier = "poll"
    BY <1>6 DEF NotifierMoves, NotifierPolls, NotifierSeesEnd, NotifierClears,
                NotifierPauses, vars, shared, helpers
  <2>2. ~launch
    BY <1>6 DEF NotifierMoves, NotifierPolls, NotifierSeesEnd, NotifierClears,
                NotifierPauses, launch, vars, client, Types, LaunchOrder
  <2> QED
    BY <1>3, <2>1, <2>2
<1>7. CASE RecorderMoves
  <2>1. notifier' = notifier
    BY <1>7 DEF RecorderMoves, RecorderReadsRunning, RecorderReadsEmpty,
                RecorderSwaps
  <2>2. FirstScan /\ ~launch
    BY <1>2, <1>7 DEF RecorderMoves, RecorderReadsRunning, RecorderReadsEmpty,
                      RecorderSwaps, launch, client
  <2>3. CASE RecorderReadsRunning
    <3>1. ~scanning => notifier \in {"pause", "done", "joined"}
      BY <1>0, <2>2 DEF FirstLaunchInv, ScanningOn, Types, NotifierAt, NobodyKilled
    <3>2. recorder' = IF scanning THEN "swap" ELSE "empty?"
      BY <2>3 DEF RecorderReadsRunning
    <3> QED
      BY <2>1, <3>1, <3>2
  <2>4. CASE RecorderReadsEmpty
    <3>1. /\ recorder = "empty?" /\ file_infos' = file_infos
          /\ recorder' = IF file_infos # {} THEN "swap" ELSE "done"
      BY <2>4 DEF RecorderReadsEmpty, shared
    <3> QED
      BY <1>3, <2>1, <2>2, <3>1
  <2>5. CASE RecorderSwaps
    BY <2>5 DEF RecorderSwaps
  <2> QED
    BY <1>7, <2>3, <2>4, <2>5 DEF RecorderMoves
<1>8. CASE Rests
  <2>1. UNCHANGED <<file_infos, recorder, notifier, launches>>
    BY <1>8 DEF Rests, shared, helpers, client
  <2>2. ~launch
    BY <1>0, <2>1 DEF launch, Types
  <2> QED
    BY <1>3, <2>1, <2>2
<1>9. ASSUME NEW w \in Worker, WorkerStep(w)
      PROVE  /\ recorder' \in {"empty?", "done", "joined"} =>
                  notifier' \in {"pause", "done", "joined"}
             /\ recorder' \in {"done", "joined"} => file_infos' = {}
  <2>1. UNCHANGED <<recorder, notifier, launches>>
    BY <1>9, WorkerFrame
  <2>2. ~launch
    BY <1>0, <2>1 DEF launch, Types
  <2>3. CASE CheckEntry(w)
    <3>1. notifier \in {"none", "poll"}
      BY <1>0, <2>3, BusyIsNotOver DEF CheckEntry
    <3> QED
      BY <1>3, <2>1, <2>2, <3>1
  <2>4. CASE ~CheckEntry(w)
    <3>1. file_infos' = file_infos
      BY <1>9, <2>4, WorkerSteps
         DEF TakeTask, EnterScan, ReadEntry, ReadEnds, CountEntries, LockDirs,
             PushDir, PushEnds, LockFiles, CheckEnds, ScanThrows,
             ReturnFromScan, shared
    <3> QED
      BY <1>3, <2>1, <2>2, <3>1
  <2> QED
    BY <2>3, <2>4
<1> QED
  BY <1>0, <1>1, <1>4, <1>5, <1>6, <1>7, <1>8, <1>9, StepCases DEF OtherStep

-----------------------------------------------------------------------------
(* The theorems for the first launch. *)

LEMMA RecordInit == Init => RecordInv
<1> SUFFICES ASSUME Init PROVE RecordInv
  OBVIOUS
<1>1. PossibleRecords /\ FilesHandled /\ RecorderLast
  BY DEF Init, PossibleRecords, FilesHandled, RecorderLast
<1>2. CountsAgree
  <2>1. Uncounted = {}
    BY DEF Init, Uncounted
  <2> QED
    BY <2>1, FS_EmptySet DEF Init, CountsAgree
<1> QED
  BY <1>1, <1>2, SafeInit DEF RecordInv

LEMMA RecordStep == RecordInv /\ [Next]_vars => RecordInv'
<1> SUFFICES ASSUME RecordInv, [Next]_vars PROVE RecordInv'
  OBVIOUS
<1>1. SafeInv /\ PossibleRecords /\ Types /\ ListsEmpty
  BY DEF RecordInv, SafeInv, IInv
<1>2. SafeInv' /\ PossibleRecords'
  BY <1>1, SafeStep, PossibleStep
<1>3. ASSUME launches' <= 1
      PROVE  (CountsAgree /\ FilesHandled /\ RecorderLast)'
  <2>1. launches <= 1
    BY <1>1, <1>2, <1>3, LaunchesGrow DEF SafeInv, IInv, Types
  <2>2. FirstLaunchInv /\ CountsAgree /\ FilesHandled /\ RecorderLast
    BY <2>1 DEF RecordInv, SafeInv, IInv
  <2> QED
    BY <1>1, <1>3, <2>2, CountsStep, FilesStep, RecorderLastStep
<1> QED
  BY <1>2, <1>3 DEF RecordInv

THEOREM RecordHolds == Spec => []RecordInv
BY RecordInit, RecordStep, PTL DEF Spec

\* The total that the destructor prints is exact when the scan is over, for
\* every tree and every order in which the tasks add to it while launch() still
\* pushes (scan_private.cpp:52, 101).
THEOREM CountsAlwaysExact == Spec => []CountsExact
<1>1. RecordInv => CountsExact
  <2> SUFFICES ASSUME RecordInv, launches = 1, Over, lost = {}
               PROVE  file_counts = seen
    BY DEF CountsExact
  <2>1. FirstLaunchInv /\ CountsAgree /\ PoolProofs!IInv /\ MoreTypes
    BY DEF RecordInv, SafeInv, IInv
  <2>2. \A w \in Worker : at[w] = "idle"
    <3>1. \A w \in Worker : hand[w] = NoTask
      BY <2>1, PoolFacts DEF FirstLaunchInv, OverIsIdle
    <3> QED
      BY <2>1, <3>1 DEF FirstLaunchInv, HandsAgree
  <2>3. Uncounted = {}
    BY <2>2 DEF Uncounted
  <2> QED
    BY <2>1, <2>3, FS_EmptySet DEF CountsAgree, MoreTypes
<1> QED
  BY <1>1, RecordHolds, PTL

\* When wait() has returned from the first scan, every file of every directory
\* below the roots has been recorded as what its header made of it, nothing is
\* left unrecorded, and nothing was recorded as what it could not be
\* (scan_private.cpp:69, 194).
THEOREM RecordsAlwaysComplete == Spec => []RecordsComplete
<1>1. RecordInv => RecordsComplete
  <2> SUFFICES
        ASSUME RecordInv, FirstScan, notifier = "joined", recorder = "joined"
        PROVE  /\ file_infos = {}
               /\ \A p \in Reachable : Expands(p) =>
                    \A e \in Contents[p] :
                      \E outcome \in Outcomes(e) : outcome \subseteq recorded
               /\ \A r \in recorded : r \in UNION Outcomes(r.path)
    BY DEF RecordsComplete
  <2>1. /\ IInv /\ PossibleRecords /\ FilesHandled /\ RecorderLast /\ ~stopped
    BY DEF RecordInv, SafeInv, FirstScan
  <2>2. file_infos = {}
    BY <2>1 DEF RecorderLast
  <2>3. Reachable \subseteq scanned
    BY <2>1, InvComplete DEF ScanComplete, Over
  <2>4. \A p \in Reachable : Expands(p) => \A e \in Contents[p] : Handled(e)
    BY <2>1, <2>3 DEF FilesHandled
  <2> QED
    BY <2>1, <2>2, <2>4 DEF PossibleRecords, Handled
<1> QED
  BY <1>1, RecordHolds, PTL
=============================================================================
