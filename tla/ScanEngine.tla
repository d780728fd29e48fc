----------------------------- MODULE ScanEngine -----------------------------
(***************************************************************************)
(* scan::scanner and scan::detail::scan_private: a directory tree scanned   *)
(* by the tasks of a thread pool, a notifier thread that decides when the   *)
(* scan is over and a recorder thread that drains what the tasks found.     *)
(*                                                                          *)
(* The pool is taken by its contract (TaskPool, which ThreadPool            *)
(* implements).  Threads: the user, who calls the scanner's methods one     *)
(* after the other; a second user thread that may call stop(); notifier_;   *)
(* db_recorder_; the workers.                                               *)
(***************************************************************************)
EXTENDS FileCheck, FiniteSets, Functions

CONSTANTS
  Path,         \* directory paths, as pushed (they end in a slash)
  SubDirs,      \* [Path -> SUBSET Path]: fullpath + '/' of the DT_DIR entries
  Contents,     \* [Path -> SUBSET (File \cup Link)]: fullpath of the others
  Openable,     \* paths that opendir opens
  RootPath,     \* paths the user may add
  Worker, NoTask, NoThread,
  MaxTasks,     \* tasks the memory can hold (see TaskPool)
  MayThrow,     \* may any other allocation, or the start of a thread, fail?
  MayStop,      \* may the second user thread call stop()?
  MaxRoots,     \* bound: paths added
  MaxLaunches   \* bound: calls of launch()

ASSUME TreeAssumption ==
  /\ SubDirs \in [Path -> SUBSET Path]
  /\ Contents \in [Path -> SUBSET (File \cup Link)]
  /\ Openable \subseteq Path /\ RootPath \subseteq Path
  /\ Path \cap (File \cup Link) = {} /\ File \cap Link = {}
ASSUME ThreadAssumption ==
  /\ IsFiniteSet(Worker) /\ Worker # {}
  /\ NoTask \notin Path /\ NoThread \notin Worker
ASSUME SwitchAssumption ==
  /\ MayThrow \in BOOLEAN /\ MayStop \in BOOLEAN
  /\ MaxTasks \in Nat /\ MaxRoots \in Nat /\ MaxLaunches \in Nat

VARIABLES
  \* task_pool_
  tasks, taking, hand, tasks_total, paused, running,
  \* scan_private
  scanning,         \* running_
  unscanned_dirs,   \* unscanned_dirs_
  dir_mutex,        \* holder of dir_mutex_
  file_info_mutex,  \* holder of file_info_mutex_
  file_infos,       \* file_infos_, as a set: nobody looks at its order
  file_counts,      \* file_counts_
  \* places of the threads
  user, next, closing, launches, stopper, notifier, recorder,
  at, unread, found,  \* of each worker: place in do_scan, entries readdir has
                      \* still to yield, entries read and not yet handled
  \* history, read by properties only
  roots,      \* paths the last launch() was to push
  scanned,    \* paths whose do_scan has ended
  lost,       \* paths whose do_scan ended in an exception
  recorded,   \* entries db_recorder_ has taken out of file_infos_
  seen,       \* paths and directory entries met so far
  stopped,    \* has the user called stop()?
  late        \* tasks taken after stop() had returned

pool    == <<tasks, taking, hand, tasks_total, paused, running>>
shared  == <<scanning, dir_mutex, file_info_mutex, file_infos, file_counts>>
client  == <<unscanned_dirs, user, next, closing, launches, stopper>>
helpers == <<notifier, recorder>>
local   == <<at, unread, found>>
history == <<roots, scanned, lost, recorded, seen, stopped, late>>
vars == <<pool, shared, client, helpers, local, history>>

Pool == INSTANCE TaskPool WITH Task <- Path

\* "killed": std::terminate has stopped the thread where it was.
WorkerAt == {"idle", "enter", "read", "count", "lock dirs", "push",
             "lock files", "check", "return", "killed"}
UserAt == {"free", "launching", "start notifier", "join notifier",
           "join recorder", "close pool", "gone", "killed"}
\* "none" and "joined": the std::thread in the Thread object is not joinable.
NotifierAt == {"none", "poll", "clear", "pause", "done", "joined", "killed"}
RecorderAt == {"none", "running?", "empty?", "swap", "done", "joined", "killed"}

TypeOK ==
  /\ Pool!TypeOK
  /\ scanning \in BOOLEAN
  /\ unscanned_dirs \in Seq(Path) /\ Len(unscanned_dirs) <= MaxRoots
  /\ dir_mutex \in Worker \cup {NoThread}
  /\ file_info_mutex \in Worker \cup {NoThread}
  /\ file_infos \subseteq Info /\ recorded \subseteq Info
  /\ file_counts \in Nat /\ seen \in Nat /\ late \in Nat
  /\ user \in UserAt /\ notifier \in NotifierAt /\ recorder \in RecorderAt
  /\ stopper \in {"free", "pause", "killed"}
  /\ next \in Nat \ {0} /\ launches \in 0 .. MaxLaunches
  /\ closing \in BOOLEAN /\ stopped \in BOOLEAN
  /\ at \in [Worker -> WorkerAt]
  /\ unread \in [Worker -> SUBSET (Path \cup File \cup Link)]
  /\ found \in [Worker -> SUBSET (Path \cup File \cup Link)]
  /\ roots \subseteq Path /\ scanned \subseteq Path /\ lost \subseteq Path

Init ==
  /\ Pool!Init
  /\ scanning = FALSE
  /\ unscanned_dirs = <<>>
  /\ dir_mutex = NoThread /\ file_info_mutex = NoThread
  /\ file_infos = {} /\ recorded = {}
  /\ file_counts = 0 /\ seen = 0 /\ late = 0
  /\ user = "free" /\ notifier = "none" /\ recorder = "none" /\ stopper = "free"
  /\ next = 1 /\ launches = 0
  /\ closing = FALSE /\ stopped = FALSE
  /\ at = [w \in Worker |-> "idle"]
  /\ unread = [w \in Worker |-> {}]
  /\ found = [w \in Worker |-> {}]
  /\ roots = {} /\ scanned = {} /\ lost = {}

-----------------------------------------------------------------------------
(* Mutants: what the checks of the properties replace StartRecorder,          *)
(* JoinRecorder, StopPauses, is_scan_over, NotifierClears,                   *)
(* RecorderReadsRunning and ScanThrows by.                                  *)

Goto(w, from, to) == at[w] = from /\ at' = [at EXCEPT ![w] = to]

\* file_counts_ is assigned after the pushes.
StartRecorderLateCount ==
  /\ user = "launching" /\ next > Len(unscanned_dirs)
  /\ recorder \in {"none", "joined"}
  /\ user' = "start notifier" /\ recorder' = "running?"
  /\ file_counts' = Len(unscanned_dirs)
  /\ UNCHANGED <<pool, scanning, dir_mutex, file_info_mutex, file_infos,
                 unscanned_dirs, next, closing, launches, stopper, notifier,
                 local, history>>

\* wait() does not wait for the recorder.
JoinNobody ==
  /\ user = "join recorder"
  /\ user' = IF closing THEN "close pool" ELSE "free"
  /\ UNCHANGED <<pool, shared, unscanned_dirs, next, closing, launches, stopper,
                 helpers, local, history>>

\* stop() does not pause the pool.
StopForgetsPause ==
  /\ stopper = "pause" /\ stopper' = "free"
  /\ UNCHANGED <<pool, shared, unscanned_dirs, user, next, closing, launches,
                 helpers, local, history>>

\* is_scan_over looks at the queue.
QueueEmpty == tasks = <<>>

\* The notifier does not clear running_.
NotifierOnlyPauses ==
  /\ notifier = "clear" /\ notifier' = "pause"
  /\ UNCHANGED <<pool, shared, client, recorder, local, history>>

\* The loop of write_to_db_ does not look at file_infos_.
RecorderLeavesAtOnce ==
  /\ recorder = "running?"
  /\ recorder' = IF scanning THEN "swap" ELSE "done"
  /\ UNCHANGED <<pool, shared, client, notifier, local, history>>

\* An exception leaves the mutexes locked.
ThrowKeepsLocks(w) ==
  /\ \/ MayThrow /\ at[w] \in {"read", "push", "check"}
     \/ at[w] = "push" /\ found[w] \cap Path # {} /\ tasks_total = MaxTasks
  /\ at' = [at EXCEPT ![w] = "return"]
  /\ unread' = [unread EXCEPT ![w] = {}]
  /\ found' = [found EXCEPT ![w] = {}]
  /\ lost' = lost \cup {hand[w]}
  /\ UNCHANGED <<pool, shared, client, helpers, roots, scanned, recorded, seen,
                 stopped, late>>

-----------------------------------------------------------------------------
(* The user's calls. *)

add_path(p) ==
  /\ user = "free"
  /\ Len(unscanned_dirs) < MaxRoots
  /\ unscanned_dirs' = Append(unscanned_dirs, p)
  /\ UNCHANGED <<pool, shared, user, next, closing, launches, stopper, helpers,
                 local, history>>

launch ==
  /\ user = "free" /\ launches < MaxLaunches
  /\ user' = "launching" /\ next' = 1 /\ launches' = launches + 1
  /\ scanning' = TRUE
  /\ file_counts' = Len(unscanned_dirs)
  /\ seen' = Len(unscanned_dirs)
  /\ roots' = Range(unscanned_dirs)
  /\ UNCHANGED <<pool, dir_mutex, file_info_mutex, file_infos, unscanned_dirs,
                 closing, stopper, helpers, local, scanned, lost, recorded,
                 stopped, late>>

LaunchPush ==
  /\ user = "launching" /\ next <= Len(unscanned_dirs)
  /\ Pool!Push(unscanned_dirs[next])
  /\ next' = next + 1
  /\ UNCHANGED <<shared, unscanned_dirs, user, closing, launches, stopper,
                 helpers, local, history>>

\* push_task throws, or one of the two std::threads cannot be made: the
\* exception leaves launch() with what it has pushed and started so far.
LaunchThrows ==
  /\ \/ user \in {"launching", "start notifier"} /\ MayThrow
     \/ /\ user = "launching" /\ next <= Len(unscanned_dirs)
        /\ tasks_total = MaxTasks
  /\ user' = "free"
  /\ UNCHANGED <<pool, shared, unscanned_dirs, next, closing, launches, stopper,
                 helpers, local, history>>

\* The std::thread in a Thread object is joinable.
Joinable(place) == place \notin {"none", "joined"}

StartRecorder ==
  /\ user = "launching" /\ next > Len(unscanned_dirs)
  /\ ~Joinable(recorder)
  /\ user' = "start notifier" /\ recorder' = "running?"
  /\ UNCHANGED <<pool, shared, unscanned_dirs, next, closing, launches, stopper,
                 notifier, local, history>>

StartNotifier ==
  /\ user = "start notifier"
  /\ ~Joinable(notifier)
  /\ user' = "free" /\ notifier' = "poll"
  /\ UNCHANGED <<pool, shared, unscanned_dirs, next, closing, launches, stopper,
                 recorder, local, history>>

\* Thread::start assigns to its std::thread; if that is joinable, the program
\* is terminated and every thread with it.
StartTerminates ==
  /\ user = "start notifier" \/ (user = "launching" /\ next > Len(unscanned_dirs))
  /\ Joinable(IF user = "launching" THEN recorder ELSE notifier)
  /\ user' = "killed" /\ stopper' = "killed"
  /\ notifier' = "killed" /\ recorder' = "killed"
  /\ at' = [w \in Worker |-> "killed"]
  /\ UNCHANGED <<pool, shared, unscanned_dirs, next, closing, launches, unread,
                 found, history>>

\* wait(), or the destructor, which begins with it.  The destructor does not
\* overlap a call of another thread.
wait ==
  /\ user = "free"
  /\ user' = "join notifier"
  /\ closing' \in {FALSE, stopper = "free"}
  /\ UNCHANGED <<pool, shared, unscanned_dirs, next, launches, stopper, helpers,
                 local, history>>

JoinNotifier ==
  /\ user = "join notifier"
  /\ notifier \in {"none", "done", "joined"}
  /\ user' = "join recorder"
  /\ notifier' = IF notifier = "done" THEN "joined" ELSE notifier
  /\ UNCHANGED <<pool, shared, unscanned_dirs, next, closing, launches, stopper,
                 recorder, local, history>>

JoinRecorder ==
  /\ user = "join recorder"
  /\ recorder \in {"none", "done", "joined"}
  /\ user' = IF closing THEN "close pool" ELSE "free"
  /\ recorder' = IF recorder = "done" THEN "joined" ELSE recorder
  /\ UNCHANGED <<pool, shared, unscanned_dirs, next, closing, launches, stopper,
                 notifier, local, history>>

\* The members are destroyed, the pool before the Thread objects.
ClosePool ==
  /\ user = "close pool"
  /\ Pool!Shutdown
  /\ user' = "gone"
  /\ UNCHANGED <<shared, unscanned_dirs, next, closing, launches, stopper,
                 helpers, local, history>>

\* stop(), called by the second thread, at most once: running_ = false ...
stop ==
  /\ MayStop /\ ~stopped /\ ~closing
  /\ stopper = "free" /\ stopper' = "pause"
  /\ scanning' = FALSE
  /\ stopped' = TRUE
  /\ UNCHANGED <<pool, dir_mutex, file_info_mutex, file_infos, file_counts,
                 unscanned_dirs, user, next, closing, launches, helpers, local,
                 roots, scanned, lost, recorded, seen, late>>

\* ... and then task_pool_.pause().
StopPauses ==
  /\ stopper = "pause" /\ stopper' = "free"
  /\ Pool!Pause
  /\ UNCHANGED <<shared, unscanned_dirs, user, next, closing, launches, helpers,
                 local, history>>

-----------------------------------------------------------------------------
(* status_notifier(). *)

is_scan_over == tasks_total = 0

\* The loop polls every 50ms ...
NotifierPolls == notifier = "poll" /\ ~is_scan_over /\ UNCHANGED vars

\* ... and is left when the scan is over.
NotifierSeesEnd ==
  /\ notifier = "poll" /\ is_scan_over
  /\ notifier' = "clear"
  /\ UNCHANGED <<pool, shared, client, recorder, local, history>>

\* stop(): running_ = false; task_pool_.pause()
NotifierClears ==
  /\ notifier = "clear" /\ notifier' = "pause"
  /\ scanning' = FALSE
  /\ UNCHANGED <<pool, dir_mutex, file_info_mutex, file_infos, file_counts,
                 client, recorder, local, history>>

NotifierPauses ==
  /\ notifier = "pause" /\ notifier' = "done"
  /\ Pool!Pause
  /\ UNCHANGED <<shared, client, recorder, local, history>>

-----------------------------------------------------------------------------
(* write_to_db_(): while (running_ || !file_infos_.empty()).  The condition *)
(* is evaluated without the mutex; a worker that holds it may be appending,  *)
(* and the racing read sees the vector as it was or as it will be.           *)

RecorderReadsRunning ==
  /\ recorder = "running?"
  /\ recorder' = IF scanning THEN "swap" ELSE "empty?"
  /\ UNCHANGED <<pool, shared, client, notifier, local, history>>

RecorderReadsEmpty ==
  /\ recorder = "empty?"
  /\ recorder' = IF file_infos # {} THEN "swap" ELSE "done"
  /\ UNCHANGED <<pool, shared, client, notifier, local, history>>

\* After 50ms: lock, swap with an empty vector, unlock, handle what it held.
RecorderSwaps ==
  /\ recorder = "swap" /\ recorder' = "running?"
  /\ file_info_mutex = NoThread
  /\ recorded' = recorded \cup file_infos
  /\ file_infos' = {}
  /\ UNCHANGED <<pool, scanning, dir_mutex, file_info_mutex, file_counts, client,
                 notifier, local, roots, scanned, lost, seen, stopped, late>>

-----------------------------------------------------------------------------
(* do_scan(), run by worker w on the path in its hand. *)

LookForTask(w) ==
  /\ at[w] = "idle"
  /\ Pool!Look(w)
  /\ UNCHANGED <<shared, client, helpers, local, history>>

TakeTask(w) ==
  /\ Goto(w, "idle", "enter")
  /\ Pool!Take(w)
  /\ late' = IF stopped /\ stopper = "free" THEN late + 1 ELSE late
  /\ UNCHANGED <<shared, client, helpers, unread, found, roots, scanned, lost,
                 recorded, seen, stopped>>

\* if(!running_ || !valid_path (curr_dir_path)) return
EnterScan(w) ==
  /\ \/ /\ scanning /\ valid_path(hand[w])
        /\ Goto(w, "enter", "read")
        /\ unread' = [unread EXCEPT ![w] = IF hand[w] \in Openable
                        THEN SubDirs[hand[w]] \cup Contents[hand[w]] ELSE {}]
     \/ /\ ~(scanning /\ valid_path(hand[w]))
        /\ Goto(w, "enter", "return")
        /\ UNCHANGED unread
  /\ UNCHANGED <<pool, shared, client, helpers, found, history>>

\* traverse_dir_: one round of the readdir loop.
ReadEntry(w) ==
  /\ at[w] = "read" /\ scanning
  /\ \E e \in unread[w] :
       /\ unread' = [unread EXCEPT ![w] = @ \ {e}]
       /\ found' = [found EXCEPT ![w] = @ \cup {e}]
  /\ seen' = seen + 1
  /\ UNCHANGED <<pool, shared, client, helpers, at, roots, scanned, lost, recorded,
                 stopped, late>>

\* The loop ends with the directory, or when running_ is seen false.
ReadEnds(w) ==
  /\ unread[w] = {} \/ ~scanning
  /\ Goto(w, "read", "count")
  /\ unread' = [unread EXCEPT ![w] = {}]
  /\ UNCHANGED <<pool, shared, client, helpers, found, history>>

CountEntries(w) ==
  /\ Goto(w, "count", "lock dirs")
  /\ file_counts' = file_counts + Cardinality(found[w])
  /\ UNCHANGED <<pool, scanning, dir_mutex, file_info_mutex, file_infos, client,
                 helpers, unread, found, history>>

LockDirs(w) ==
  /\ Goto(w, "lock dirs", "push")
  /\ dir_mutex = NoThread /\ dir_mutex' = w
  /\ UNCHANGED <<pool, scanning, file_info_mutex, file_infos, file_counts, client,
                 helpers, unread, found, history>>

PushDir(w) ==
  /\ at[w] = "push"
  /\ \E d \in found[w] \cap Path :
       /\ Pool!Push(d)
       /\ found' = [found EXCEPT ![w] = @ \ {d}]
  /\ UNCHANGED <<shared, client, helpers, at, unread, history>>

PushEnds(w) ==
  /\ found[w] \cap Path = {}
  /\ Goto(w, "push", "lock files")
  /\ dir_mutex' = NoThread
  /\ UNCHANGED <<pool, scanning, file_info_mutex, file_infos, file_counts, client,
                 helpers, unread, found, history>>

LockFiles(w) ==
  /\ Goto(w, "lock files", "check")
  /\ file_info_mutex = NoThread /\ file_info_mutex' = w
  /\ UNCHANGED <<pool, scanning, dir_mutex, file_infos, file_counts, client,
                 helpers, unread, found, history>>

\* file_checker on every file, then symbol_reloader on every symbolic link.
CheckEntry(w) ==
  /\ at[w] = "check"
  /\ \E e \in found[w] :
       /\ e \in Link => found[w] \cap File = {}
       /\ \E added \in Outcomes(e) : file_infos' = file_infos \cup added
       /\ found' = [found EXCEPT ![w] = @ \ {e}]
  /\ UNCHANGED <<pool, scanning, dir_mutex, file_info_mutex, file_counts, client,
                 helpers, at, unread, history>>

CheckEnds(w) ==
  /\ found[w] = {}
  /\ Goto(w, "check", "return")
  /\ file_info_mutex' = NoThread
  /\ UNCHANGED <<pool, scanning, dir_mutex, file_infos, file_counts, client,
                 helpers, unread, found, history>>

\* bad_alloc: the locks are released on the way out and the worker of the
\* pool catches the exception.
ScanThrows(w) ==
  /\ \/ MayThrow /\ at[w] \in {"read", "push", "check"}
     \/ at[w] = "push" /\ found[w] \cap Path # {} /\ tasks_total = MaxTasks
  /\ at' = [at EXCEPT ![w] = "return"]
  /\ unread' = [unread EXCEPT ![w] = {}]
  /\ found' = [found EXCEPT ![w] = {}]
  /\ dir_mutex' = IF dir_mutex = w THEN NoThread ELSE dir_mutex
  /\ file_info_mutex' = IF file_info_mutex = w THEN NoThread ELSE file_info_mutex
  /\ lost' = lost \cup {hand[w]}
  /\ UNCHANGED <<pool, scanning, file_infos, file_counts, client, helpers, roots,
                 scanned, recorded, seen, stopped, late>>

ReturnFromScan(w) ==
  /\ Goto(w, "return", "idle")
  /\ Pool!Finish(w)
  /\ scanned' = scanned \cup {hand[w]}
  /\ UNCHANGED <<shared, client, helpers, unread, found, roots, lost, recorded,
                 seen, stopped, late>>

-----------------------------------------------------------------------------

UserMoves ==
  \/ LaunchPush \/ LaunchThrows
  \/ StartRecorder \/ StartNotifier \/ StartTerminates
  \/ JoinNotifier \/ JoinRecorder \/ ClosePool

NotifierMoves ==
  NotifierPolls \/ NotifierSeesEnd \/ NotifierClears \/ NotifierPauses

RecorderMoves == RecorderReadsRunning \/ RecorderReadsEmpty \/ RecorderSwaps

\* A step of do_scan that needs no mutex, or one that does.
ScanMoves(w) ==
  \/ EnterScan(w) \/ ReadEntry(w) \/ ReadEnds(w) \/ CountEntries(w)
  \/ PushDir(w) \/ PushEnds(w) \/ CheckEntry(w) \/ CheckEnds(w)
  \/ ScanThrows(w) \/ ReturnFromScan(w)
ScanAcquires(w) == LockDirs(w) \/ LockFiles(w)

\* The scanner, or the program, is gone; nothing happens any more.
Gone == user \in {"gone", "killed"} /\ UNCHANGED vars

Next ==
  \/ \E p \in RootPath : add_path(p)
  \/ launch \/ wait \/ UserMoves
  \/ stop \/ StopPauses
  \/ NotifierMoves \/ RecorderMoves
  \/ \E w \in Worker :
       LookForTask(w) \/ TakeTask(w) \/ ScanMoves(w) \/ ScanAcquires(w)
  \/ Gone

Spec == Init /\ [][Next]_vars

(***************************************************************************)
(* A thread that is in a call goes on with it, a task is taken when the     *)
(* pool lets one be taken (TaskPool!Fairness), a thread that wants a mutex   *)
(* gets it in the end, and sleeping threads wake after their 50ms.  Nobody   *)
(* has to call a method.                                                     *)
(***************************************************************************)
Fairness ==
  /\ WF_vars(UserMoves) /\ WF_vars(StopPauses)
  /\ WF_vars(NotifierMoves)
  /\ WF_vars(RecorderReadsRunning \/ RecorderReadsEmpty) /\ SF_vars(RecorderSwaps)
  /\ WF_vars(\E w \in Worker : LookForTask(w))
  /\ WF_vars(\E w \in Worker : TakeTask(w))
  /\ \A w \in Worker : WF_vars(ScanMoves(w)) /\ SF_vars(ScanAcquires(w))

FairSpec == Spec /\ Fairness
-----------------------------------------------------------------------------
(* Properties.  Most of them are about the first launch: what a second one   *)
(* does to a scan that is going on, or is over, is in hazards of its own.    *)

\* The notifier has decided that the scan is over.
Over == notifier \in {"clear", "pause", "done", "joined"}

\* The first launch went undisturbed by stop().
FirstScan == launches = 1 /\ ~stopped

\* The entries of directory p are looked at, and no allocation failed on them.
Expands(p) == valid_path(p) /\ p \in Openable /\ p \notin lost

\* The directories that a scan of the roots has to reach.
Closed(S) == roots \subseteq S /\ \A p \in S : Expands(p) => SubDirs[p] \subseteq S
Reachable == {p \in Path : \A S \in SUBSET Path : Closed(S) => p \in S}

\* The scan is declared over only when every directory below the roots has
\* been scanned: a directory's task pushes its subdirectories' tasks before it
\* is itself counted off, so the counter never touches 0 in between.
ScanComplete == FirstScan /\ Over => Reachable \subseteq scanned

\* When wait() has returned, every file below the roots has been handed to the
\* recorder as what its header made of it, and nothing was recorded as what its
\* header could not be: the recorder does not leave while a scan may still
\* append to file_infos_.  (A file with a short header that is scanned twice,
\* below two roots, may be recorded twice, as two types.)
RecordsComplete ==
  FirstScan /\ notifier = "joined" /\ recorder = "joined" =>
    /\ file_infos = {}
    /\ \A p \in Reachable : Expands(p) =>
         \A e \in Contents[p] : \E outcome \in Outcomes(e) : outcome \subseteq recorded
    /\ \A r \in recorded : r \in UNION Outcomes(r.path)

\* The total that the destructor prints is the number of paths and directory
\* entries the scan met, although tasks add to it while launch(), which
\* assigns it, still pushes others.
CountsExact == launches = 1 /\ Over /\ lost = {} => file_counts = seen

\* When the destructor has returned, no thread is left in the object, or
\* holds one of its mutexes.
NoUseAfterDestroy ==
  user = "gone" =>
    /\ \A w \in Worker : at[w] = "idle" /\ hand[w] = NoTask
    /\ ~Joinable(notifier) /\ ~Joinable(recorder)
    /\ dir_mutex = NoThread /\ file_info_mutex = NoThread

\* A directory entry is recorded as an executable or a shared object only if
\* it is one ("update elf files" in do_scan).
OnlyElfRecorded == \A r \in file_infos \cup recorded : IsElf(r.path)

\* Once the notifier has been started the scan ends and wait() returns, even
\* if allocations fail in tasks: no failure leaks the counter or a mutex.
ScanEnds == notifier = "poll" ~> notifier \in {"done", "joined"}
WaitReturns == user = "join notifier" ~> user \in {"free", "close pool"}

\* Nobody is left to end the recorder: launch() has thrown after it had started
\* db_recorder_, so notifier_ does not run, and only stop() would clear running_.
RecorderAbandoned ==
  scanning /\ recorder \notin {"none", "done", "joined"} /\ ~Joinable(notifier)

\* The destructor returns, even if allocations fail in tasks and in launch(),
\* unless it finds a recorder that a failing launch() has left alone, which it
\* would have to join for ever.
DestructorReturns ==
  closing /\ user = "join notifier" /\ ~RecorderAbandoned ~> user = "gone"

\* stop() stops the pool, whatever is pushed, launched or waited for afterwards,
\* but one task may still start once it has returned: that of a worker which had
\* found the pool open and had not popped yet, as pause() takes no mutex.
StopHolds == late <= 1

\* When a forced end lets wait() return, the file list has been cleared ("when
\* force exit ... just wait and clear the filemap" in write_to_db_).
NothingLeftUnrecorded ==
  launches = 1 /\ recorder \in {"done", "joined"} /\ (\A w \in Worker : at[w] = "idle") =>
    file_infos = {}
=============================================================================
