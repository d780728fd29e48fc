---------------------------- MODULE ProcessLock ----------------------------
(***************************************************************************)
(* bl_mtx::process_mutex and bl_mtx::process_lock_guard, used by several   *)
(* processes on one name.  Each process has one thread, some process_mutex *)
(* objects and some guard objects.  The kernel's mutex (external) belongs  *)
(* to a thread, can be taken again by its owner, is handed over abandoned  *)
(* when its owner dies, and lives as long as some process has it open.     *)
(*                                                                         *)
(* Calls that throw and change nothing (a lock on a guard that owns, an     *)
(* unlock on one that does not or that fails) have no action.  The          *)
(* clients keep two rules that the classes do not enforce: an object is     *)
(* neither destroyed nor moved while a lock is held through it, and         *)
(* process_mutex::unlock() is called only for a lock that no guard owns.    *)
(***************************************************************************)
EXTENDS Naturals, FiniteSets

CONSTANTS
  Process,    \* the processes, each with one thread
  Object,     \* slots for process_mutex objects in a process
  Guard,      \* slots for process_lock_guard objects in a process
  Null,       \* nullptr, no thread, an empty slot
  MaxHolds,   \* bound: locks taken without a guard and not released, and
              \* locks taken by a call that then threw, per process
  MaxCrashes  \* bound: processes that die and are started again

ASSUME SlotAssumption == Null \notin Process \cup Object \cup Guard
ASSUME BoundAssumption == MaxHolds \in Nat /\ MaxCrashes \in Nat /\ IsFiniteSet(Guard)

VARIABLES
  owner, count, abandoned,  \* the kernel's mutex
  leaked,   \* processes with an open handle that no object holds
  handle,   \* is _Mutex_Handle set, for each process_mutex object
  guard,    \* each guard: Null or its _Pmtx and _Owns
  call,     \* the wait each process is in, Null if none
  direct,   \* history: locks each process holds without a guard
  orphaned, \* history: locks it was given by a wait that then threw
  failed,   \* history: <<process, object>>, where create_mutex has failed last
  crashes

kernel == <<owner, count, abandoned>>
objects == <<leaked, handle>>
history == <<direct, orphaned, failed, crashes>>
vars == <<kernel, objects, guard, call, history>>

GuardState == [mutex: Object \cup {Null}, owns: BOOLEAN]

\* The waits: through a guard or (guard = Null) on a process_mutex itself.
Wait == [guard: Guard \cup {Null}, mutex: Object, timed: BOOLEAN]

ASSUME NullAssumption == Null \notin GuardState \cup Wait

Owning(p) == {g \in Guard : guard[p][g] # Null /\ guard[p][g].owns}

\* Locks taken by p, through guards or not, that were reported as taken.
Holds(p) == Owning(p) # {} \/ direct[p] > 0

TypeOK ==
  /\ owner \in Process \cup {Null} /\ count \in Nat /\ abandoned \in BOOLEAN
  /\ leaked \subseteq Process
  /\ handle \in [Process -> [Object -> BOOLEAN]]
  /\ guard \in [Process -> [Guard -> GuardState \cup {Null}]]
  /\ call \in [Process -> Wait \cup {Null}]
  /\ direct \in [Process -> 0 .. MaxHolds]
  /\ orphaned \in [Process -> 0 .. MaxHolds]
  /\ failed \subseteq Process \X Object /\ crashes \in 0 .. MaxCrashes

Init ==
  /\ owner = Null /\ count = 0 /\ abandoned = FALSE
  /\ leaked = {}
  /\ handle = [p \in Process |-> [m \in Object |-> FALSE]]
  /\ guard = [p \in Process |-> [g \in Guard |-> Null]]
  /\ call = [p \in Process |-> Null]
  /\ direct = [p \in Process |-> 0] /\ orphaned = [p \in Process |-> 0]
  /\ failed = {} /\ crashes = 0

-----------------------------------------------------------------------------
(* The kernel (external). *)

Opened(p) == p \in leaked \/ \E m \in Object : handle[p][m]

\* The last handle is closed.
MutexGone ==
  /\ owner' = Null /\ count' = 0 /\ abandoned' = FALSE
  /\ orphaned' = [p \in Process |-> 0]

\* ReleaseMutex by the owner's thread.
ReleaseMutex(p) ==
  /\ owner = p
  /\ count' = count - 1
  /\ owner' = IF count = 1 THEN Null ELSE p
  /\ UNCHANGED abandoned

\* WaitForSingleObject by a thread that can have the mutex.
TakeMutex(p) ==
  /\ owner \in {Null, p}
  /\ owner' = p /\ count' = count + 1 /\ abandoned' = FALSE

-----------------------------------------------------------------------------
(* Mutants: what the checks of the properties replace MoveConstruct,         *)
(* MoveAssign, TimesOut and unlock by.                                       *)

SetGuard(p, g, mutex, owns) ==
  guard' = [guard EXCEPT ![p][g] = [mutex |-> mutex, owns |-> owns]]

\* The state of the source is copied and not cleared.
CopyConstruct(p, from, to) ==
  /\ call[p] = Null /\ guard[p][from] # Null /\ guard[p][to] = Null
  /\ guard' = [guard EXCEPT ![p][to] = guard[p][from]]
  /\ UNCHANGED <<kernel, objects, call, history>>

\* The lock that the target owns is not released.
AssignOver(p, from, to) ==
  /\ call[p] = Null /\ from # to
  /\ guard[p][from] # Null /\ guard[p][to] # Null
  /\ guard' = [guard EXCEPT ![p][to] = guard[p][from],
                            ![p][from] = [mutex |-> Null, owns |-> FALSE]]
  /\ UNCHANGED <<kernel, objects, call, history>>

\* A timed wait that times out counts as a lock.
TimesOutOwning(p) ==
  /\ call[p] # Null /\ call[p].timed
  /\ owner \notin {Null, p}
  /\ call' = [call EXCEPT ![p] = Null]
  /\ IF call[p].guard = Null THEN UNCHANGED guard
     ELSE SetGuard(p, call[p].guard, call[p].mutex, TRUE)
  /\ UNCHANGED <<kernel, objects, history>>

\* A caller of process_mutex::unlock() gives away the lock of a guard.
UnlockAnyLock(p, m) ==
  /\ call[p] = Null /\ handle[p][m]
  /\ ReleaseMutex(p)
  /\ direct' = [direct EXCEPT ![p] = @ - 1]
  /\ UNCHANGED <<objects, guard, call, orphaned, failed, crashes>>

-----------------------------------------------------------------------------
(* process_mutex. *)

\* The constructor with a name, or create_mutex on an object that exists,
\* which forgets the handle the object had.  initial_owner is ignored by the
\* kernel when the name exists, and nobody looks whether it did.
create_mutex(p, m, initial_owner) ==
  /\ call[p] = Null
  /\ initial_owner => direct[p] < MaxHolds
  /\ handle' = [handle EXCEPT ![p][m] = TRUE]
  /\ leaked' = IF handle[p][m] THEN leaked \cup {p} ELSE leaked
  /\ IF initial_owner /\ ~\E q \in Process : Opened(q)
     THEN /\ owner' = p /\ count' = 1 /\ UNCHANGED abandoned
          /\ direct' = [direct EXCEPT ![p] = @ + 1]
     ELSE UNCHANGED <<kernel, direct>>
  /\ failed' = failed \ {<<p, m>>}
  /\ UNCHANGED <<guard, call, orphaned, crashes>>

\* CreateMutexA fails, and create_mutex throws: an object that had a handle has
\* forgotten it, whatever is locked through it.
CreateFails(p, m) ==
  /\ call[p] = Null /\ handle[p][m]
  /\ handle' = [handle EXCEPT ![p][m] = FALSE]
  /\ leaked' = leaked \cup {p}
  /\ failed' = failed \cup {<<p, m>>}
  /\ UNCHANGED <<kernel, guard, call, direct, orphaned, crashes>>

\* No guard holds a lock through the object.
Released(p, m) == \A g \in Owning(p) : guard[p][g].mutex # m

\* Move construction and move assignment: the handle of the target is
\* forgotten, and an object assigned to itself loses its own.
MoveMutex(p, from, to) ==
  /\ call[p] = Null /\ Released(p, from) /\ Released(p, to)
  /\ handle' = [handle EXCEPT ![p][to] = handle[p][from], ![p][from] = FALSE]
  /\ leaked' = IF handle[p][to] THEN leaked \cup {p} ELSE leaked
  /\ failed' = failed \ {<<p, from>>, <<p, to>>}
  /\ UNCHANGED <<kernel, guard, call, direct, orphaned, crashes>>

\* The destructor closes the handle.
DestroyMutex(p, m) ==
  /\ call[p] = Null /\ handle[p][m] /\ ~Holds(p)
  /\ \A g \in Guard : guard[p][g] # Null => guard[p][g].mutex # m
  /\ handle' = [handle EXCEPT ![p][m] = FALSE]
  /\ UNCHANGED <<leaked, guard, call, direct, failed, crashes>>
  /\ IF \E q \in Process : Opened(q)'
     THEN UNCHANGED <<kernel, orphaned>>
     ELSE MutexGone

\* lock() and try_lock_for() on the object: the call that waits.  On a null
\* handle it throws at once.
lock(p, m, timed) ==
  /\ call[p] = Null /\ handle[p][m] /\ direct[p] < MaxHolds
  /\ call' = [call EXCEPT ![p] = [guard |-> Null, mutex |-> m, timed |-> timed]]
  /\ UNCHANGED <<kernel, objects, guard, history>>

unlock(p, m) ==
  /\ call[p] = Null /\ handle[p][m] /\ direct[p] > 0
  /\ ReleaseMutex(p)
  /\ direct' = [direct EXCEPT ![p] = @ - 1]
  /\ UNCHANGED <<objects, guard, call, orphaned, failed, crashes>>

-----------------------------------------------------------------------------
(* The end of a wait. *)

\* WAIT_OBJECT_0: the call returns, or true, and a guard sets _Owns.
Gets(p) ==
  /\ call[p] # Null /\ ~abandoned
  /\ TakeMutex(p)
  /\ call' = [call EXCEPT ![p] = Null]
  /\ IF call[p].guard = Null
     THEN direct' = [direct EXCEPT ![p] = @ + 1] /\ UNCHANGED guard
     ELSE SetGuard(p, call[p].guard, call[p].mutex, TRUE) /\ UNCHANGED direct
  /\ UNCHANGED <<objects, orphaned, failed, crashes>>

\* WAIT_ABANDONED: the thread has got the mutex, and the call throws.
GetsAbandoned(p) ==
  /\ call[p] # Null /\ abandoned /\ orphaned[p] < MaxHolds
  /\ TakeMutex(p)
  /\ call' = [call EXCEPT ![p] = Null]
  /\ orphaned' = [orphaned EXCEPT ![p] = @ + 1]
  /\ UNCHANGED <<objects, guard, direct, failed, crashes>>

\* WAIT_TIMEOUT: try_lock_for returns false, and so does the guard's.
TimesOut(p) ==
  /\ call[p] # Null /\ call[p].timed
  /\ owner \notin {Null, p}
  /\ call' = [call EXCEPT ![p] = Null]
  /\ UNCHANGED <<kernel, objects, guard, history>>

-----------------------------------------------------------------------------
(* process_lock_guard. *)

\* ReleaseMutex on the handle of the guard's object succeeds.
Releasable(p, g) == owner = p /\ handle[p][guard[p][g].mutex]

ReleaseGuard(p, g) == Releasable(p, g) /\ ReleaseMutex(p)

BuildGuard(p, g, mutex) ==
  /\ call[p] = Null /\ guard[p][g] = Null
  /\ SetGuard(p, g, mutex, FALSE)
  /\ UNCHANGED <<kernel, objects, call, history>>

MoveConstruct(p, from, to) ==
  /\ call[p] = Null /\ guard[p][from] # Null /\ guard[p][to] = Null
  /\ guard' = [guard EXCEPT ![p][to] = guard[p][from],
                            ![p][from] = [mutex |-> Null, owns |-> FALSE]]
  /\ UNCHANGED <<kernel, objects, call, history>>

MoveAssign(p, from, to) ==
  /\ call[p] = Null /\ from # to
  /\ guard[p][from] # Null /\ guard[p][to] # Null
  /\ IF guard[p][to].owns THEN ReleaseGuard(p, to) ELSE UNCHANGED kernel
  /\ guard' = [guard EXCEPT ![p][to] = guard[p][from],
                            ![p][from] = [mutex |-> Null, owns |-> FALSE]]
  /\ UNCHANGED <<objects, call, history>>

DestroyGuard(p, g) ==
  /\ call[p] = Null /\ guard[p][g] # Null
  /\ IF guard[p][g].owns THEN ReleaseGuard(p, g) ELSE UNCHANGED kernel
  /\ guard' = [guard EXCEPT ![p][g] = Null]
  /\ UNCHANGED <<objects, call, history>>

\* lock() and try_lock_for(): _Validate, then the wait.
guard_lock(p, g, timed) ==
  /\ call[p] = Null
  /\ guard[p][g] # Null /\ g \notin Owning(p) /\ guard[p][g].mutex # Null
  /\ handle[p][guard[p][g].mutex]
  /\ call' = [call EXCEPT ![p] =
                [guard |-> g, mutex |-> guard[p][g].mutex, timed |-> timed]]
  /\ UNCHANGED <<kernel, objects, guard, history>>

guard_unlock(p, g) ==
  /\ call[p] = Null /\ g \in Owning(p)
  /\ ReleaseGuard(p, g)
  /\ SetGuard(p, g, guard[p][g].mutex, FALSE)
  /\ UNCHANGED <<objects, call, history>>

-----------------------------------------------------------------------------

\* A process dies, without any destructor, and is started again.
Died(p) ==
  /\ crashes < MaxCrashes /\ crashes' = crashes + 1
  /\ leaked' = leaked \ {p}
  /\ handle' = [handle EXCEPT ![p] = [m \in Object |-> FALSE]]
  /\ guard' = [guard EXCEPT ![p] = [g \in Guard |-> Null]]
  /\ call' = [call EXCEPT ![p] = Null]
  /\ direct' = [direct EXCEPT ![p] = 0]
  /\ failed' = failed \ ({p} \X Object)
  /\ IF \E q \in Process \ {p} : Opened(q)
     THEN /\ orphaned' = [orphaned EXCEPT ![p] = 0]
          /\ IF owner = p THEN owner' = Null /\ count' = 0 /\ abandoned' = TRUE
             ELSE UNCHANGED kernel
     ELSE MutexGone

\* unlock() throws out of the noexcept destructor: std::terminate.
DestroyGuardTerminates(p, g) ==
  /\ call[p] = Null /\ g \in Owning(p) /\ ~Releasable(p, g)
  /\ Died(p)

MutexCalls(p) ==
  \E m \in Object :
    \/ \E initial_owner \in BOOLEAN : create_mutex(p, m, initial_owner)
    \/ CreateFails(p, m)
    \/ \E n \in Object : MoveMutex(p, m, n)
    \/ DestroyMutex(p, m)
    \/ \E timed \in BOOLEAN : lock(p, m, timed)
    \/ unlock(p, m)

GuardCalls(p) ==
  \E g \in Guard :
    \/ \E m \in Object \cup {Null} : BuildGuard(p, g, m)
    \/ \E h \in Guard : MoveConstruct(p, g, h) \/ MoveAssign(p, g, h)
    \/ DestroyGuard(p, g) \/ DestroyGuardTerminates(p, g)
    \/ \E timed \in BOOLEAN : guard_lock(p, g, timed)
    \/ guard_unlock(p, g)

Next ==
  \E p \in Process :
    MutexCalls(p) \/ GuardCalls(p) \/ Gets(p) \/ GetsAbandoned(p) \/ TimesOut(p) \/ Died(p)

Spec == Init /\ [][Next]_vars
-----------------------------------------------------------------------------

\* At no time do two processes both believe they hold the lock.
Exclusive == \A p, q \in Process : Holds(p) /\ Holds(q) => p = q

\* The unlock in a guard's destructor, in its move assignment and in unlock()
\* fails for one reason only, a create_mutex that has failed on the object the
\* guard has locked: the failure would throw, out of a noexcept destructor too,
\* and terminate the process.
ReleaseSucceeds ==
  \A p \in Process : \A g \in Owning(p) :
    \/ Releasable(p, g)
    \/ owner = p /\ <<p, guard[p][g].mutex>> \in failed

\* Every lock on the kernel's mutex has one holder that will release it, a
\* guard or a caller of process_mutex::lock(), except those that a call got
\* from a dead process before it threw WAIT_ABANDONED: nobody knows of these.
LockAccounted ==
  /\ owner = Null => count = 0
  /\ \A p \in Process : owner = p =>
       count = Cardinality(Owning(p)) + direct[p] + orphaned[p]
=============================================================================
