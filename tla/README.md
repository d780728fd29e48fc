# Verification of lib_sys_utils

TLA+ models of the parts of lib_sys_utils that keep state or make decisions, the
TLC configurations that check them on small instances, and theorems that TLAPS
proves for every value of the constants. `PROJECT.json` is the index: components,
runs, the mutant that shows each property can fail, the source lines each
definition translates, findings, hazards and theorems.

    tlc -workers 2 -config MCScanEngine.cfg MCScanEngine    # model-check
    tlapm ScanEngineProofs.tla                              # check proofs

## 1. The system

| component | state | operations | talks to |
|---|---|---|---|
| `utils::thread_pool` | three atomic flags, a queue, an atomic counter, a mutex, two condition variables, worker threads | `push_task`, `wait_for_tasks`, `pause`, `unpause`, getters, destructor; the worker loop | runs the tasks of the scan engine, which push further tasks |
| scan engine (`scan::scanner`, `scan_private`) | `running_`, the roots, `file_infos_` and its mutex, `dir_mutex_`, `file_counts_`, two helper threads | `add_path`, `launch`, `wait`, `stop`, `is_scan_over`, destructor; `do_scan`, `status_notifier`, `write_to_db_` | pushes `do_scan` to the pool, polls its counter, pauses it |
| `utils::Thread` | a `std::thread` | `start`, `wait` | runs the notifier and the recorder |
| ELF check (`check_if_valid_elf`) | none | one | called by `do_scan` for files and links |
| path and number helpers (`utils.cpp`, `utils.hpp`) | none | prefixes, parents, names, tokens, links, numbers | `hasPrefix` (one comparison, not modelled) decides which paths a scan skips |
| `process_mutex`, `process_lock_guard` (Windows) | a handle; a pointer and an owner flag | create, move, destroy, lock, timed lock, unlock | a mutex of the kernel shared with other processes |
| registry wrapper, installed programs, startups, Windows version (Windows) | what was read, open handles | `GetInstalledAppList`, `DumpInfo`, `GetWendousInfo`, the `Reg...` functions | the registry, which other processes write |
| services, network adapters (Windows) | a singleton with a list each, a handle of the service manager | construction, `DumpInfo`, `ResetFilter`, `Reflush`, `ResetAndDump` | the operating system, where services and adapters come and go |
| the rest: virtual machine and session queries, encoding conversion, `scoped_fd`, `md5` | none | single calls | the operating system |

What is hard: the pool sleeps and signals with flags that are written outside its
mutex; the scan engine recognises its own end by polling a counter while tasks
create tasks; a third thread may call `stop()` at any point; any allocation may
throw inside a task or in the middle of `launch()`, which may also fail to start one
of its threads; the recorder reads a vector
without the lock; process locks outlive the processes that hold them; the registry
may change between the question for a size and the reading; a list may be rebuilt
halfway when a reset throws.

What makes each component correct:

* pool: no task lost, repeated or cut short; the counter is exact at every step;
  whoever waits is woken; the destructor returns and leaves silence;
* scan engine: the scan is declared over neither before every reachable directory
  has been scanned nor never; every ELF file found reaches the recorder, and
  nothing else; counts are exact; no thread outlives the object; no failure
  leaves a lock or a count behind; after `stop()` at most one task more starts;
* process lock: one process at a time; every hold has one owner who will release
  it; nothing but a failed `create_mutex` makes a release fail;
* path helpers: each agrees with what its name and examples promise;
* registry queries: undisturbed they give everything once, disturbed nothing that was not stored;
  handles are closed;
* lists: what is kept is what was last asked for, whole if nothing disturbed it,
  and never mixed with what was kept before; every reading ends.

## 2. The modules

| module | models | uses |
|---|---|---|
| `TaskPool` | the contract of the pool: queue, hands, counter, two flags; no locks | |
| `ThreadPool` | `thread_pool.hpp` at the grain of mutex, condition variables and atomics | instance of `TaskPool` as its abstract specification |
| `FileCheck` | `file_checker`, `symbol_reloader`, `valid_path`, `elf_check.hpp`: the set of possible answers for a file | |
| `ScanEngine` | `scan_private.cpp`, `scan.cpp`, and `Thread` as they use it | EXTENDS `FileCheck`; its pool is an instance of `TaskPool` |
| `ProcessLock` | `process_mutex.hpp`, with the kernel's mutex as an external object | |
| `RegistryQuery` | the registry queries, with the registry and other processes as external | |
| `SystemLists` | the two singletons, with the service manager and the adapters as external | |
| `PathUtils`, `NumberText` | pure functions of `utils.cpp` and `utils.hpp` | |
| `TaskPoolProofs`, `ThreadPoolProofs`, `ScanEngineProofs`, `ProcessLockProofs`, `RegistryQueryProofs`, `SystemListsProofs`, `PathUtilsProofs` | theorems | each EXTENDS the module it is about (`PathUtilsProofs` `MCPathUtils`, where the reference definitions are); the second and the third use the first through an instance |
| `NumberLemmas` | lemmas: induction up to a number, recursive functions, largest elements | used by `SystemListsProofs` and `PathUtilsProofs` |
| `MC...` | small instances and, for the pure functions, the reference definitions (`MCPathUtils`) | |

The scan engine is not built on `ThreadPool` but on `TaskPool`: the
implementation refines the contract (proved for its steps in `ThreadPoolProofs`,
checked for its fairness by the run `thread_pool`), so what is shown of the engine
over the contract holds of the engine over the implementation. That keeps both
state spaces small, and lets the proofs about the engine cite those about the
contract.

### TaskPool and ThreadPool

In `ThreadPool`, `pc` says where each thread is in its function; a step is one
access to an atomic, or one stretch under `tasks_mutex_` with at most one access
to an atomic that another thread may touch without the mutex. A worker's loop is
`WorkerLoop` (`while(running_)`), `WorkerLock`, `WorkerCheck`, then `WorkerPred`
and `WorkerBlock` for `wait_until` (the predicate, and releasing the mutex and
going to sleep, are two steps, and `running_` can be cleared in between),
`WorkerWake` or `WorkerTimeout`, `WorkerLook` (`paused_` and the queue), `WorkerTake` (the
pop; `pause()` takes no mutex and may come in between), `TaskEnds`, `WorkerCount`,
`WorkerSignal`. `notify_one` wakes any one sleeper or nobody; `SpuriousWake` wakes
a thread nobody notified. `wait_for_tasks` is six actions, `destroy_threads`
three. The predicate, timeout and `continue` paths of the code are all there.

The contract hides all that. The refinement mapping is the identity: `tasks`,
`hand`, `tasks_total`, `paused` and `running` have the same names, and the contract's
`taking`, the worker that has looked and will pop, is the one at "take". `hand` is the
worker's local `task` until the counter has been decremented, which is why the
contract can say that the counter is always the queue plus the hands.

Bounded by `MaxTasks`, the tasks ever pushed in `ThreadPool`; in `TaskPool` and
`ScanEngine` the tasks that memory can hold, beyond which `push_task` throws.

### ScanEngine and FileCheck

Threads: a user who calls methods one after the other; a second thread that may
call `stop()` once; the notifier; the recorder; the workers. `do_scan` is cut at
every access to something shared: the test of `running_`, each `readdir` with its
test of `running_`, the `fetch_add`, each lock, each push, each file checked, the
return. `ScanThrows` is an allocation failure at any place that allocates; it
unwinds through the guards. `launch` is one step per root pushed, then one per
thread started; `LaunchThrows` is a push or a `std::thread` that fails before any of these.
`LookForTask` and `TakeTask` are the pool's look and pop. `StartTerminates` is `std::terminate` from starting a joinable
thread. The recorder's unlocked read of `file_infos_` sees it before or after a
concurrent append.

The file system is constant during a scan: `SubDirs`, `Contents`, `Openable`,
`Target` (realpath) and `Image` (what opening and reading a file gives). A header
read from a short file keeps arbitrary values in the fields that were not filled,
because the struct is not initialised: `check_if_valid_elf` is the set of answers.

Not modelled in the engine: the two times, which only the final print reads;
prints; the md5, a constant string; roots without a trailing slash.

### ProcessLock

Processes with one thread each; each has slots for `process_mutex` objects and
guards. The kernel's mutex has an owner, a recursion count and an abandoned flag,
and exists while a handle is open. A wait is a call and, later, its end: `Gets`,
`GetsAbandoned` (the code throws, the mutex is taken) or `TimesOut`. Objects can be
moved, assigned and destroyed, also the guards that own. Two rules the classes do
not enforce are put on clients: an object is neither destroyed nor moved while a
lock is held through it, and `process_mutex::unlock()` is called only for a lock
that no guard owns. `create_mutex` may be called on any object, and may fail
(`CreateFails`): it has overwritten the handle then. `failed` records the objects that
this happened to. A guard that has locked such an object releases through a null
handle, which throws: `ReleaseGuard` is not enabled, and its destructor, being
`noexcept`, ends the process (`DestroyGuardTerminates`). `ReleaseSucceeds` says that no
other history makes a release fail. `orphaned` records the locks that a throwing wait has
left behind: they are the one exception in `LockAccounted`, and the reason why a
crash of one process can block all others until a second one ends.

### PathUtils and NumberText

Strings are sequences of characters, `npos` is index 0. `symLnkPath` takes the
size `lstat` gave and the target that `readlink` finds, which may differ. The
size limits are constants so that TLC reaches them. Numbers are unsigned;
`setbase` knows three bases, and any other means decimal when a number is written
and the base of a literal when one is read (a leading 0 is octal). A text without a
number leaves `num` as it was, uninitialised: `stringToNumber` is a set of answers.

### RegistryQuery

One query at a time goes through its system calls; `pc` is the next of them and
`call` the locals: the keys still to visit, the count, the size allocated (`room`: a
name buffer or a string), the index, the names read, the result. The queries are
`GetInstalledAppList` (32 and 64 differ only in the view they open), `DumpInfo` of
the startups, `GetWendousInfo` (up to four values, and which of them depends on the
first), and `RegGetMultiString` and `RegEnumValues` on a key of the caller's. The
functions whose names end in A and in W are the same statements and are modelled
once. Between two calls of the system another process may add, change or remove an
entry (`OtherWrites`), and any of the calls may fail (`SystemFails`). `OpenSub` and
`CloseSub` are the fallback for 32-bit XP, which opens a key for each read;
`native` says whether it is used. A string value is a sequence of characters that
need not end in NUL, a multi-string one that need not end in two; `StringLength`
wraps around as the `DWORD` does, modulo a small constant. Each query starts with
arbitrary entries, so nothing is assumed of what is written between two queries.

Promised of a disturbed query is little: by index, in a key that changes, names are
skipped or given twice. `NothingInvented` is what remains: no name or string is cut,
padded or put together from two values. `past` is what the source has held during the
call; `Offers` is what that offers, as stored: a value without the NUL that ends
it, and of a multi-string what stands between its NULs. The XP fallback cuts the
last character off a value that is stored without a NUL, and so gives a string that
was never stored: `NothingInvented` excludes calls whose source had one (`Whole`).
`UndisturbedComplete` excludes all values that are not stored as the API asks, also
multi-strings with an empty string inside, of which `RegGetMultiString` loses what
follows it.

### SystemLists

`class` is chosen once: the two singletons share nothing. `list` is the vector the
instance keeps, `built` whether the instance has been constructed. A call goes
through `Instance()`, which constructs and reads on first use (`call.building`), and a
reset then clears the list and reads again with its own filter. Services are read
by page (`EnumServices`): the resume point is an index, so a service that comes or
goes between two pages shifts what follows, and the buffer grows to what remains.
Adapters are asked for twice at most. When a reading throws, a constructor leaves no
instance and a reset leaves an instance with the pages read so far: a later
`DumpInfo` gives them without an error. `ListIsWhole` says what holds of undisturbed
readings after any such history, `NothingStale` what holds in any case. The memory
that `NetCardInfo::Init` loses on every success (it deletes the null pointer its
walk ends with) is not modelled, and neither are the text of addresses and the
service states. One thread calls: two would race on the vector, which nothing guards.

## 3. The runs

| run | instance | shows |
|---|---|---|
| `task_pool` | 2 workers, 2 kinds of task, 4 in memory | the contract's own invariants (502 states) |
| `thread_pool` | 2 workers (hint 8, two cores), 4 tasks, pauses at any time, fair | refinement of the contract and of its fairness; no task lost, repeated, reordered in the queue or cut short; only `pause()` can leave the owner asleep; the destructor and `wait_for_tasks` return (35 000) |
| `scan` | wide tree, 2 workers, 2 of 3 roots, 3 tasks in memory | completeness, records, counts (224 000) |
| `scan_fail` | narrow tree, 2 workers, 2 roots, 2 tasks in memory, any allocation and either thread of `launch()` may fail, fair | completeness under failure, nothing alive after destruction; the scan ends; the destructor returns unless the recorder is abandoned (112 000) |
| `scan_stop` | narrow tree, 2 workers, `stop()`, 2 launches | at most one task starts after `stop()`, silence after destruction; a second launch may terminate the program (269 000) |
| `process_lock` | 2 processes, 2 objects and 2 guards each, any `create_mutex` may fail, 1 crash | exclusion, accounted holds, releases that fail only after a failed `create_mutex` (887 000) |
| `path_utils` | strings to 5 characters over `/`, `.`, `a`; second argument and sizes to 3, default and maximum size 2; numbers to 600 in widths to 4, bytes of 256 values, after prefixes to 1 | five agreements with reference definitions (61 000) |
| `registry_query` | three names of two sizes, four string values, three of the version, five multi-strings, two startup keys, two entries in a key, two writes by others per query, any failing call | completeness, no result that was not stored, handles (1 130 000) |
| `system_lists` | three services or adapters of two sizes, three filters, first page of 1, three entries, two changes per call, one lost handle when a call begins | the list after any history of calls, resets and failures; handles; termination (32 000) |
| `stop_hangs`, `stop_loses`, `short_file` | expected violations | the findings below |

Bounds. Two workers of the pool are one that is anywhere in its loop while another runs or
finishes a task, and four tasks leave two queued behind both. Two
workers and directories nested twice are enough for a task to push tasks while
another is counted off, and for both mutexes to be contended; two roots, one below
the other, for the same directory to be scanned twice, and for `launch()` to fail
between two pushes. Two processes with two guards each cover recursion, moving
between guards, and waiting behind a dead owner. The path functions distinguish
only separators, dots and other characters, and their searches only the ends and
repetitions of these, which five positions contain. With a default and a maximum size
of 2 there are targets longer than the default and sizes beyond the maximum. 600 is beyond a byte and three
digits long in base 8, 10 and 16, and one character in front is enough to begin reading in the middle. For the registry one write can come between any two
calls and two replace an entry behind its back; two entries suffice to shift an
index. For the lists three entries need several pages, two changes replace an entry,
and a first page of 1 is too small for the longest name, so that the buffer has to grow.
Symmetry is used over workers,
processes, objects and guards, and never together with a liveness property.

Fairness. A runnable thread runs (weak fairness of its steps). A thread that wants
a mutex gets it in the end: strong fairness, because polling threads take and
release it for ever; the mutexes of the standard library are not fair in theory,
but they do not starve a thread either. Clocks advance, so timeouts and sleeps end.
A task ends, because a directory has finitely many entries. Nobody is required to
push, pause, unpause, launch or stop. A call of `SystemLists` goes on as long as the
system answers; that it ends supposes that services come finitely often while it runs.
`scan_fail` assumes the contract's fairness,
which `thread_pool` shows of the implementation. `WaitReturns` of the pool is claimed
only if pausing stops for good: `pause()` changes what the owner's wait is for and
notifies nobody, so an owner may sleep through a pause that made its wait true
(`WaiterNotForgotten` says that this is the only way to be forgotten). `DestructorReturns`
of the engine excuses a destructor that begins in one state, `RecorderAbandoned`:
`launch()` has thrown between its two threads, and the recorder waits for a notifier that
does not exist. Liveness of the scan is claimed only without `stop()`: see `stop_hangs`.

## 4. Findings

* `stop_hangs`: `stop()` with tasks queued makes `wait()` and the destructor hang:
  the pool is paused for good, its counter stays above 0, and the notifier waits
  for 0. The comment in `write_to_db_` expects a forced exit to let threads be joined.
* `stop_loses`: after `stop()` the recorder may leave before a running task
  appends; the entries stay in `file_infos_`.
* `short_file`: a file shorter than an ELF header is judged by stale stack content.

Also seen, and contradicted by no text of the repository: when `notifier_.start()` throws in
`launch()` (`scan_private.cpp:64`) the recorder runs on, `running_` stays set and `wait()` and the
destructor join the recorder for ever; one task may start after `stop()` has returned,
because `pause()` takes no mutex; a `create_mutex` that fails on an object in use loses its
handle, and a guard that owns the lock then terminates the process from its destructor; a
second `launch()` after
a finished scan never proceeds, because the notifier has paused the pool; `lock()`
that throws on an abandoned process mutex keeps it; `symLnkPath` of a bare link name
answers an absolute path; a registry query that throws leaves its key open, and
`DumpInfo`, being `noexcept`, ends the program when a startup is removed while it
reads; the XP fallback cuts the last character off a string stored without NUL and
throws on an empty one. The hazards in `PROJECT.json` say where. The comment above
`tokenizeString` ("if no delimiters found, tokens = 0") describes the two lines below it
that are commented out: the code gives one token. `TokensJoin` is about texts that hold
a delimiter.

## 5. What is proved

TLAPS proves, for any sets of tasks and workers, trees, roots, failures and calls:

* `TaskPoolProofs`: type correctness, `CountExact` and `QuietAfterShutdown` of the
  contract. The inductive invariant is their conjunction with `TakerReady`, which
  says that one who is about to take a task is alone and finds one: the bound of the counter
  needs its exactness (a decrement happens only while a hand is full), and silence
  after shutdown needs both (`Drained` compares the counter with the queue, and
  exactness turns that into "no hand is full"). The work is in `BusyChanges`: how
  the number of busy workers changes when one hand does.
* `ThreadPoolProofs`: for any number of workers and tasks, the implementation is
  type correct, implements the contract (`ImplementsContract`: initial states map to
  initial states, every step to a step or a stutter), keeps `OnceInOrder` and
  `NothingCutShort`, and only `pause()` forgets a waiter (`WaiterNotForgotten`).
* `ProcessLockProofs`: for any processes, objects, guards and crashes, type
  correctness, `Exclusive`, `ReleaseSucceeds` and `LockAccounted`.
* `RegistryQueryProofs`: type correctness, `HandlesAccounted`, `NothingInvented` and
  `UndisturbedComplete`, for any names, values, keys and number of writes by others,
  with and without the XP fallback.
* `SystemListsProofs`: `HandlesAccounted`, type correctness, `ListIsWhole` and
  `NothingStale`, for any services, sizes, filters, first page and number of changes.
* `ScanEngineProofs`: `ScanIsComplete`: a first scan that `stop()` leaves alone is
  declared over only when every reachable directory has been scanned.
  For any tree, number of launches and failures, the engine is type
  correct, nothing of it is used after its destructor (`NoUseAfterDestroy`), and
  at most one task starts after `stop()` (`StopHolds`); of the first launch, the total is
  exact (`CountsExact`) and all files are recorded as what they are (`RecordsComplete`).
* `PathUtilsProofs`: for texts of any length over any characters, `LinkResolves`,
  `ParentAndName`, `TokensJoin` and `TokenIsEnclosed`: the four agreements about
  paths, tokens and links; and `RoundTrip`, of every number that fits an unsigned int
  and any width, after any prefix within the bound.

So every safety property that a run checks and that holds is also a theorem.

The argument for completeness: a directory is *known* when it is queued, in a hand
or scanned. `RootsKnown`: each root is known or still to be pushed by `launch()`.
`ChildrenKnown`: each subdirectory of a directory whose task has begun is known or
still in that task's lists. When the notifier has seen 0, exactness of the counter
says that queue and hands are empty, so known means scanned, and the scanned
directories are closed under `SubDirs`, so they contain the least closed set,
`Reachable`. Four more parts make it inductive: the notifier starts after the last
push (`LaunchOrder`), nobody starts new work once the counter has been seen at 0
(`OverIsIdle`), `running_` is up until then (`ScanningOn`), and a worker's place
agrees with its hand and lists (`HandsAgree`, `Pending`). The parts are only
claimed up to the first launch, since a later one starts over.

The argument for the pool: the contract's own invariant is part of the inductive
invariant, so the counter is exact and need not be argued again: a step that
preserves the other parts is a step of the contract, and `TaskPoolProofs` says what
such a step preserves. The other parts say where threads are: `MutexHeld`, a
thread between taking and releasing `tasks_mutex_` is its holder; a worker
that has looked and not yet popped holds the mutex, so there is one such at most, and it
finds a queue that still has a task and a pool that still runs (the contract's
`TakerReady`); once the destructor has waited there is none (`NobodyTakes`); `HandsAgree`, a
worker has a task from `WorkerTake` to `WorkerCount`; `OwnerAgrees`, `running_` goes
down only after the destructor has waited, and what it has waited for stays the
case, because an idle pool has nobody left to push and nobody may pause it any
more. That last part is what maps `ClearRunning` to the contract's `Shutdown`. A
waiter is not forgotten although `waiting_` and `running_` are atomics outside the
mutex: the owner goes to sleep holding the mutex from the test of its predicate on,
so a worker cannot be between its decrement and its notification then.

The argument for the rest of the engine, `SafeInv`, holds over any number of launches.
`HandsHold`, `LocksHeld` and `ListsEmpty` say what a worker has at each place of
`do_scan`: a task, at most the mutex of its critical section, and lists that are empty
where the code has consumed them. `JoinOrder` is what `NoUseAfterDestroy` needs: the
notifier is joined before the recorder and the recorder before the pool is closed, and a
pool that has closed is silent by `QuietAfterShutdown`. `StopAgrees` says that after
`stop()` the pool is paused, for which no step may unpause, and that once a task has started
late nobody else is about to take one: the mutex admits one taker (`TakerReady`), and a
paused pool no new one. A thread that a terminated program has left is "killed" and excluded
everywhere.

`RecordInv` adds what is true up to the first launch. `CountsAgree`: the total lacks exactly
the entries that tasks have met and not added yet (`Uncounted`). `FilesHandled`: an entry of a directory whose task has begun
is in the task's lists, or *handled*: one of the outcomes its header allows has reached
`file_infos_` or the recorder. With completeness, every file has been handled when the
scan is over. `RecorderLast`: the recorder leaves only after the notifier has cleared
`running_`, hence after the last append, and with nothing left.
`PossibleRecords` is the converse, of any launch. The proof showed that an earlier form of
`RecordsComplete`, one outcome per file, is too strong in general: a file shorter than a
header, below two roots, is judged twice and may be recorded as two types. The instances
had no such tree; the property now says what the code gives.

The argument for the process lock: `KernelAgrees`, the kernel's count is what the
owner's guards, direct locks and orphaned locks add up to, and nobody else has any.
`Exclusive` and `LockAccounted` follow from it; it is inductive with `HandlesUsed`,
a guard that owns has an object with a handle, unless the last `create_mutex` on that object
failed (`Created`), and what waits has a handle (so that a release goes through one), and
`OpenWhileHeld`, whoever holds has the mutex open (so that the kernel's mutex, which
disappears with its last handle, never does so while it is locked).

The argument for the handles: a handle is open while a query is at one of the places
between opening and closing, and one more while the fallback is between its own two
calls. `SubInUse` says that nothing but those two calls happens in between, so that no
query ends there with its key open; `GivenOnce` that a query on the caller's key never
comes to open the next one.

The argument for what a query gives, `FoundInv`: what the keys hold is on record in
`past` since the call began (`SourceFound`; a write adds to the record what it writes), the
names read so far and the result so far are made of what was held (`NamesFound`,
`ResultFound`, `Gave`), and of the version each value asked for has given a string or an
empty one (`ValuesRead`), so that its first is there when it decides what to read next.
`TakesFront` says what the code makes of a value: what is cut off is the last character of
what has been read, not of what had been asked for. `FoundIsOffered` says that this is what
the value holds, where every value on record is whole: the cut takes the terminator, and the
strings between two zeros of a multi-string are its stretches (`StringsArePieces`).

The argument for what an undisturbed query has collected, `CompleteInv`, adds what the
handles and types do not say: that the result so far is right (`SoFar`). The keys are as
they were and at least one is left (`SourceStill`); the names read are those of the
first entries, and the buffer is as long as the longest (`NamesSoFar`), so that no name is
ever too long; a startup key that has been read has given all its names, and no other key
any (`StartupsSoFar`); the programs and the version have given the texts of the first
values (`AppsSoFar`, `VersionSoFar`, which also keeps which values the first one asks for);
and the size allocated is that of the value (`SizeAsked`), so that what is cut off is the
terminator alone. Where a query is disturbed nothing is claimed. What a multi-string
holds is read by a recursive function of its characters, whose strings, each with its
terminator, join to the characters read. Types need an invariant of their own
(`TypeInv`), since the type of the result depends on the query and that of the locals on
the place.

The argument for the lists, `ListInv`: what there is to read is on offer and nothing has
been read before the pages (`Started`); if nothing disturbs it the list is what lies before the
resume point, and the second call for the adapters has room for all (`ReadSoFar`);
construction and `DumpInfo` ask for everything (`AllWanted`). A page and what was read
before it are again what lies before a point (`PageJoins`), and when nothing remains
that point is the end, because only an empty list takes no room (`TotalPositive`).

The pure functions have an invariant that says nothing, `Inputs`: any input there can be
satisfies the properties, and the work is in the lemmas. `LastInFound` and `LastInIs` say
that `find_last_of` gives a last position and that there is one such; `ParentAndName` then
follows the three searches of `parentPath` and finds the same ones in the path without its
trailing separators (`SameSearch`), whose parts fit together (`PartsJoin`). The
tokens are read by a recursive function of the loop (`TokensIn`), whose states are numbered
(`ReadsOneByOne`): the token that has begun is what follows the last delimiter (`BegunIs`),
no token holds one (`ReadsFree`), the tokens so far join to the text so far
(`ReadsJoin`), and those that have ended are the stretches before each delimiter
(`EndedIs`). `LinkRead` is what `symLnkPath` makes of a target and a size. It showed that
an earlier form of `LinkResolves` was true only because the instance never had a target
longer than the default size or a size beyond the maximum, for which the
answer is empty; the property and the instance now have both.

A number is read back because its digits are. What is written is described digit by digit
(`WrittenOneByOne`), and by induction on the number, from its quotient, it has the right
value, whatever zeros stand before it, and begins with a 0 only if it is 0
(`WrittenReadsAs`): so a base that `setbase` does not know reads it as decimal again, or
as an octal 0. Reading skips the spaces and takes all that is left (`SpacesThenNumber`),
because every character of it is a digit of the base and the value fits.

What recursive functions compute for every input is proved by induction on a number. The
induction theorems of the library take a predicate as a parameter, which no installed
prover instantiates; `NumberLemmas` therefore states induction, and the existence of
functions defined by recursion, about sets: the numbers of which something holds are a
set, which has no least element outside it. `Filtered` and `Total` of
`SystemLists`, `MultiStrings` and `Terminated` of `RegistryQuery`, `TokensIn` of
`PathUtils`, `Written` and `ValueOf` of `NumberText` and `Joined` of `MCPathUtils` are
written as recursive functions, and not with the folds, `SelectSeq` or `SortSeq`, so that
this can be used.

Assumptions: those the modules name (`WorkerAssumption`, `TreeAssumption`, ...):
finitely many workers and guards, a tree within `Path`, null values outside the sets
they stand beside, values and lists of keys that are sequences, no value that is
mistaken for none when it is given with a terminator (`IsData`), strings shorter than
the longest `std::string`, and numbers to be written that fit an unsigned int
(`NumberAssumption`). TLC evaluates them on the instances.

Only model-checked: liveness (`DestructorReturns`, `WaitReturns`, `ScanEnds`,
`LoadEnds`) and the contract's fairness (`ImplementsFairContract`, whose safety part is
`ImplementsContract`), because temporal reasoning about fairness is beyond the installed
provers; and the findings, which are counterexamples.

## 6. What is not modelled

What could be added: `RegGetDWord` as one more query, `loadFiles` if it gets callers, and
two callers of one singleton if the code gives it a lock.

Not modelled:

* `Convertor`: two functions that are calls of the C library and say what the locale
  says. `to_wstring` converts one character only.
* `loadFiles`: it calls back two functions of a caller that does not exist. It never
  closes its directory stream, and goes on with a null one when `opendir` fails.
* `RegGetDWord`: one call with a fixed size.
* `VirtualDetection` and the session queries (inline assembly, single calls whose answer is
  formatted), the unused `scoped_fd`, and the programs, which are one behaviour of the
  engine or print what the wrappers return.
* The text of a hardware address, where an adapter without one makes `NetCard.cpp` erase
  before the beginning (line 63): the model keeps no text.
* Copying, moving and stopping a `Thread`, which nobody does.
* The times of a scan (an epoch in milliseconds cut to an `int`) and the prefixes of
  paths as text: `hasPrefix` compares without a separator, so `/devel` is skipped with
  `/dev`, and a root without a trailing slash runs into the names in it. Which
  directories are skipped is a constant of the model.
* Two threads in one of the singletons: the code has no lock there and no such caller.
* The order in which `GetWendousInfo` reads the operands of `+`, which a compiler may
  choose: the model takes that of the text.
