------------------------- MODULE ProcessLockProofs -------------------------
(***************************************************************************)
(* The process lock excludes, releases and accounts for every hold, for any *)
(* number of processes, objects and guards, and any number of crashes.      *)
(***************************************************************************)
EXTENDS ProcessLock, FiniteSetTheorems, TLAPS

\* The locks on the kernel's mutex that p has been given and not released.
Locked(p) == Cardinality(Owning(p)) + direct[p] + orphaned[p]

\* They are those the kernel counts, and nobody but its owner has any.
KernelAgrees ==
  /\ owner = Null => count = 0
  /\ \A p \in Process : Locked(p) = IF owner = p THEN count ELSE 0

\* The last create_mutex on the object has given it a handle, or has failed.
Created(p, m) == handle[p][m] \/ <<p, m>> \in failed

\* A guard that owns a lock has an object with a handle, unless create_mutex has
\* failed on it, and a wait has one, whose guard owns nothing yet.
HandlesUsed ==
  \A p \in Process :
    /\ \A g \in Owning(p) : guard[p][g].mutex # Null /\ Created(p, guard[p][g].mutex)
    /\ call[p] # Null =>
         /\ handle[p][call[p].mutex]
         /\ IF call[p].guard = Null THEN direct[p] < MaxHolds
                                    ELSE call[p].guard \notin Owning(p)

\* Who holds the lock has the mutex open, and one that nobody has open has no
\* owner: closing the last handle takes a lock from nobody.
OpenWhileHeld ==
  /\ \A p \in Process : Holds(p) => Opened(p)
  /\ (\A p \in Process : ~Opened(p)) => owner = Null

IInv == TypeOK /\ KernelAgrees /\ HandlesUsed /\ OpenWhileHeld

-----------------------------------------------------------------------------
(* The sets of owning guards and their sizes. *)

LEMMA OwningFinite ==
  ASSUME NEW p \in Process
  PROVE  /\ IsFiniteSet(Owning(p)) /\ Cardinality(Owning(p)) \in Nat
         /\ Cardinality(Owning(p)) = 0 <=> Owning(p) = {}
<1>1. Owning(p) \subseteq Guard
  BY DEF Owning
<1> QED
  BY <1>1, BoundAssumption, FS_Subset, FS_CardinalityType, FS_EmptySet

LEMMA OneMoreOrLess ==
  ASSUME NEW S, IsFiniteSet(S), NEW x, NEW T
  PROVE  /\ x \notin S /\ T = S \cup {x} => Cardinality(T) = Cardinality(S) + 1
         /\ x \in S /\ T = S \ {x} => Cardinality(T) = Cardinality(S) - 1
BY FS_AddElement, FS_RemoveElement

\* What the counts say, in one place: they are numbers, at least the number of
\* each kind of lock.
LEMMA LockedNat ==
  ASSUME TypeOK, NEW p \in Process
  PROVE  /\ Locked(p) \in Nat
         /\ direct[p] \in 0 .. MaxHolds /\ orphaned[p] \in 0 .. MaxHolds
         /\ Locked(p) = 0 <=> Owning(p) = {} /\ direct[p] = 0 /\ orphaned[p] = 0
<1>1. direct[p] \in 0 .. MaxHolds /\ orphaned[p] \in 0 .. MaxHolds
  BY DEF TypeOK
<1> QED
  BY <1>1, OwningFinite, BoundAssumption DEF Locked

LEMMA HolderOwns ==
  ASSUME IInv, NEW p \in Process, Holds(p)
  PROVE  owner = p
<1>1. Locked(p) # 0
  BY LockedNat DEF IInv, Holds
<1> QED
  BY <1>1 DEF IInv, KernelAgrees

-----------------------------------------------------------------------------
(* What the steps of the kernel do to KernelAgrees. *)

LEMMA KernelStays ==
  ASSUME IInv, owner' = owner, count' = count,
         \A q \in Process : Locked(q)' = Locked(q)
  PROVE  KernelAgrees'
BY DEF IInv, KernelAgrees

LEMMA TakeAgrees ==
  ASSUME IInv, NEW p \in Process, TakeMutex(p), Locked(p)' = Locked(p) + 1,
         \A q \in Process \ {p} : Locked(q)' = Locked(q)
  PROVE  KernelAgrees' /\ count' \in Nat /\ owner' = p
<1>1. Null # p /\ count \in Nat /\ Locked(p) \in Nat
  BY SlotAssumption, LockedNat DEF IInv, TypeOK
<1>2. owner' = p /\ count' = count + 1
  BY DEF TakeMutex
<1>3. Locked(p) = count
  BY <1>1 DEF IInv, KernelAgrees, TakeMutex
<1>4. \A q \in Process \ {p} : Locked(q) = 0
  BY <1>1, SlotAssumption DEF IInv, KernelAgrees, TakeMutex
<1> QED
  BY <1>1, <1>2, <1>3, <1>4 DEF KernelAgrees

LEMMA ReleaseAgrees ==
  ASSUME IInv, NEW p \in Process, ReleaseMutex(p), Locked(p) # 0,
         Locked(p)' = Locked(p) - 1,
         \A q \in Process \ {p} : Locked(q)' = Locked(q)
  PROVE  /\ KernelAgrees' /\ count' \in Nat /\ owner' \in {p, Null}
         /\ abandoned' = abandoned
<1>1. Null # p /\ count \in Nat /\ Locked(p) \in Nat
  BY SlotAssumption, LockedNat DEF IInv, TypeOK
<1>2. owner = p /\ count' = count - 1 /\ owner' = (IF count = 1 THEN Null ELSE p)
  BY DEF ReleaseMutex
<1>3. Locked(p) = count /\ \A q \in Process \ {p} : Locked(q) = 0
  BY <1>2 DEF IInv, KernelAgrees
<1>4. Null \notin Process
  BY SlotAssumption
<1> QED
  BY <1>1, <1>2, <1>3, <1>4 DEF KernelAgrees, ReleaseMutex

LEMMA GoneTypes ==
  ASSUME MutexGone
  PROVE  /\ owner' \in Process \cup {Null} /\ count' \in Nat /\ abandoned' \in BOOLEAN
         /\ orphaned' \in [Process -> 0 .. MaxHolds]
<1>1. 0 \in 0 .. MaxHolds
  BY BoundAssumption
<1> QED
  BY <1>1 DEF MutexGone

LEMMA GoneAgrees ==
  ASSUME TypeOK', MutexGone, \A q \in Process : Owning(q)' = {} /\ direct'[q] = 0
  PROVE  KernelAgrees'
<1>1. \A q \in Process : orphaned'[q] = 0
  BY DEF MutexGone
<1>2. ASSUME NEW q \in Process PROVE Locked(q)' = 0
  BY <1>1, FS_EmptySet DEF Locked
<1> QED
  BY <1>2, SlotAssumption DEF MutexGone, KernelAgrees

-----------------------------------------------------------------------------
(* process_mutex. *)

\* An action that leaves the guards alone leaves the locks they own.
LEMMA GuardsStay ==
  ASSUME guard' = guard
  PROVE  \A q \in Process : Owning(q)' = Owning(q)
BY DEF Owning

LEMMA OwnedObject ==
  ASSUME TypeOK, HandlesUsed, NEW p \in Process, NEW g \in Owning(p)
  PROVE  guard[p][g].mutex \in Object
BY DEF HandlesUsed, TypeOK, Owning, GuardState

LEMMA CreateInv ==
  ASSUME IInv, NEW p \in Process, NEW m \in Object, NEW initial_owner \in BOOLEAN,
         create_mutex(p, m, initial_owner)
  PROVE  IInv'
<1> USE DEF IInv
<1>1. \A q \in Process : Owning(q)' = Owning(q)
  BY GuardsStay DEF create_mutex
<1>2. /\ handle' = [handle EXCEPT ![p][m] = TRUE]
      /\ leaked \subseteq leaked' /\ leaked' \subseteq Process
      /\ UNCHANGED <<guard, call, orphaned, crashes>> /\ call[p] = Null
      /\ failed' = failed \ {<<p, m>>} /\ failed' \subseteq Process \X Object
  BY DEF create_mutex, TypeOK
<1>3. /\ \A q \in Process, n \in Object : handle[q][n] => handle'[q][n]
      /\ handle'[p][m] /\ handle' \in [Process -> [Object -> BOOLEAN]]
  BY <1>2 DEF TypeOK
<1>4. /\ \A q \in Process : Opened(q) => Opened(q)'
      /\ Opened(p)'
  BY <1>2, <1>3 DEF Opened
<1>7. \A q \in Process, n \in Object : Created(q, n) => Created(q, n)'
  BY <1>2, <1>3 DEF Created
<1>8. \A q \in Process : \A g \in Owning(q)' :
        guard'[q][g].mutex # Null /\ Created(q, guard[q][g].mutex)'
  BY <1>1, <1>2, <1>7, OwnedObject DEF HandlesUsed
<1>5. CASE UNCHANGED <<kernel, direct>>
  <2>1. TypeOK'
    BY <1>2, <1>3, <1>5 DEF TypeOK, kernel
  <2>2. \A q \in Process : Locked(q)' = Locked(q)
    BY <1>1, <1>2, <1>5 DEF Locked
  <2>3. KernelAgrees'
    BY <1>5, <2>2, KernelStays DEF kernel
  <2>4. HandlesUsed'
    BY <1>1, <1>2, <1>3, <1>5, <1>8 DEF HandlesUsed, TypeOK, Wait
  <2>5. OpenWhileHeld'
    BY <1>1, <1>4, <1>5 DEF OpenWhileHeld, Holds
  <2> QED
    BY <2>1, <2>3, <2>4, <2>5
<1>6. CASE ~ UNCHANGED <<kernel, direct>>
  <2>1. /\ \A q \in Process : ~Opened(q)
        /\ owner' = p /\ count' = 1 /\ abandoned' = abandoned
        /\ direct' = [direct EXCEPT ![p] = @ + 1] /\ direct[p] < MaxHolds
    BY <1>6 DEF create_mutex
  <2>2. owner = Null /\ \A q \in Process : Locked(q) = 0
    BY <2>1, SlotAssumption DEF OpenWhileHeld, KernelAgrees
  <2>3. TypeOK'
    BY <1>2, <1>3, <2>1, BoundAssumption DEF TypeOK
  <2>4. direct'[p] = direct[p] + 1 /\ \A q \in Process \ {p} : direct'[q] = direct[q]
    BY <2>1 DEF TypeOK
  <2>5. Locked(p)' = Locked(p) + 1 /\ \A q \in Process \ {p} : Locked(q)' = Locked(q)
    BY <1>1, <1>2, <2>4, OwningFinite, LockedNat DEF Locked
  <2>6. KernelAgrees'
    BY <2>1, <2>2, <2>5, SlotAssumption DEF KernelAgrees
  <2>7. HandlesUsed'
    BY <1>1, <1>2, <1>3, <1>8, <2>4 DEF HandlesUsed, TypeOK, Wait
  <2>8. OpenWhileHeld'
    BY <1>1, <1>4, <2>4 DEF OpenWhileHeld, Holds
  <2> QED
    BY <2>3, <2>6, <2>7, <2>8
<1> QED
  BY <1>5, <1>6

LEMMA CreateFailsInv ==
  ASSUME IInv, NEW p \in Process, NEW m \in Object, CreateFails(p, m)
  PROVE  IInv'
<1> USE DEF IInv
<1>1. \A q \in Process : Owning(q)' = Owning(q)
  BY GuardsStay DEF CreateFails
<1>2. /\ handle' = [handle EXCEPT ![p][m] = FALSE] /\ leaked' = leaked \cup {p}
      /\ failed' = failed \cup {<<p, m>>} /\ failed' \subseteq Process \X Object
      /\ UNCHANGED <<kernel, guard, call, direct, orphaned, crashes>> /\ call[p] = Null
      /\ handle[p][m]
  BY DEF CreateFails, TypeOK
<1>3. /\ handle' \in [Process -> [Object -> BOOLEAN]]
      /\ \A q \in Process \ {p} : handle'[q] = handle[q]
      /\ \A n \in Object \ {m} : handle'[p][n] = handle[p][n]
  BY <1>2 DEF TypeOK
<1>4. TypeOK'
  BY <1>2, <1>3 DEF TypeOK, kernel
<1>5. \A q \in Process : Opened(q)' <=> Opened(q)
  BY <1>2, <1>3 DEF Opened
<1>6. KernelAgrees'
  <2>1. \A q \in Process : Locked(q)' = Locked(q)
    BY <1>1, <1>2 DEF Locked
  <2> QED
    BY <1>2, <2>1, KernelStays DEF kernel
<1>7. HandlesUsed'
  <2>1. \A q \in Process, n \in Object : Created(q, n) => Created(q, n)'
    BY <1>2, <1>3 DEF Created
  <2>2. \A q \in Process : \A g \in Owning(q)' :
          guard'[q][g].mutex # Null /\ Created(q, guard[q][g].mutex)'
    BY <1>1, <1>2, <2>1, OwnedObject DEF HandlesUsed
  <2> QED
    BY <1>1, <1>2, <1>3, <2>2 DEF HandlesUsed
<1>8. OpenWhileHeld'
  BY <1>1, <1>2, <1>5 DEF OpenWhileHeld, Holds, kernel
<1> QED
  BY <1>4, <1>6, <1>7, <1>8

LEMMA MoveMutexInv ==
  ASSUME IInv, NEW p \in Process, NEW from \in Object, NEW to \in Object,
         MoveMutex(p, from, to)
  PROVE  IInv'
<1> USE DEF IInv
<1>1. \A q \in Process : Owning(q)' = Owning(q)
  BY GuardsStay DEF MoveMutex
<1>2. /\ handle' = [handle EXCEPT ![p][to] = handle[p][from], ![p][from] = FALSE]
      /\ leaked' = IF handle[p][to] THEN leaked \cup {p} ELSE leaked
      /\ failed' = failed \ {<<p, from>>, <<p, to>>}
      /\ UNCHANGED <<kernel, guard, call, direct, orphaned, crashes>> /\ call[p] = Null
  BY DEF MoveMutex
<1>3. /\ handle' \in [Process -> [Object -> BOOLEAN]]
      /\ \A q \in Process \ {p} : handle'[q] = handle[q]
      /\ \A n \in Object \ {from, to} : handle'[p][n] = handle[p][n]
      /\ from # to => handle'[p][to] = handle[p][from]
      /\ ~handle'[p][from]
  BY <1>2 DEF TypeOK
<1>4. TypeOK'
  BY <1>2, <1>3 DEF TypeOK, kernel
<1>5. \A q \in Process : Opened(q)' <=> Opened(q)
  <2>1. ASSUME NEW q \in Process \ {p} PROVE Opened(q)' <=> Opened(q)
    <3>1. handle'[q] = handle[q] /\ (q \in leaked' <=> q \in leaked)
      BY <1>2, <1>3
    <3> QED
      BY <3>1 DEF Opened
  <2>2. ASSUME Opened(p) PROVE Opened(p)'
    <3>1. CASE p \in leaked \/ handle[p][to]
      BY <1>2, <3>1 DEF Opened
    <3>2. CASE p \notin leaked /\ ~handle[p][to]
      <4>1. PICK m \in Object : handle[p][m]
        BY <2>2, <3>2 DEF Opened
      <4>2. handle'[p][IF m = from THEN to ELSE m]
        BY <1>3, <3>2, <4>1
      <4> QED
        BY <4>2 DEF Opened
    <3> QED
      BY <3>1, <3>2
  <2>3. ASSUME Opened(p)' PROVE Opened(p)
    <3>1. CASE p \in leaked'
      BY <1>2, <3>1 DEF Opened
    <3>2. CASE p \notin leaked'
      <4>1. PICK m \in Object : handle'[p][m]
        BY <2>3, <3>2 DEF Opened
      <4>2. handle[p][IF m = to THEN from ELSE m]
        BY <1>3, <4>1
      <4> QED
        BY <4>2 DEF Opened
    <3> QED
      BY <3>1, <3>2
  <2> QED
    BY <2>1, <2>2, <2>3
<1>6. KernelAgrees'
  <2>1. \A q \in Process : Locked(q)' = Locked(q)
    BY <1>1, <1>2 DEF Locked
  <2> QED
    BY <1>2, <2>1, KernelStays DEF kernel
<1>7. HandlesUsed'
  <2>1. \A q \in Process, n \in Object :
          q # p \/ n \notin {from, to} => (Created(q, n) => Created(q, n)')
    BY <1>2, <1>3 DEF Created
  <2>2. \A g \in Owning(p) : guard[p][g].mutex \notin {from, to}
    BY DEF MoveMutex, Released
  <2>3. \A q \in Process : \A g \in Owning(q)' :
          guard'[q][g].mutex # Null /\ Created(q, guard[q][g].mutex)'
    BY <1>1, <1>2, <2>1, <2>2, OwnedObject DEF HandlesUsed
  <2>4. \A q \in Process : call[q] # Null => q # p
    BY <1>2
  <2> QED
    BY <1>1, <1>2, <1>3, <2>3, <2>4 DEF HandlesUsed
<1>8. OpenWhileHeld'
  BY <1>1, <1>2, <1>5 DEF OpenWhileHeld, Holds, kernel
<1> QED
  BY <1>4, <1>6, <1>7, <1>8

LEMMA DestroyMutexInv ==
  ASSUME IInv, NEW p \in Process, NEW m \in Object, DestroyMutex(p, m)
  PROVE  IInv'
<1> USE DEF IInv
<1>1. \A q \in Process : Owning(q)' = Owning(q)
  BY GuardsStay DEF DestroyMutex
<1>2. /\ handle' = [handle EXCEPT ![p][m] = FALSE]
      /\ UNCHANGED <<leaked, guard, call, direct, failed, crashes>>
      /\ call[p] = Null /\ ~Holds(p)
  BY DEF DestroyMutex
<1>3. /\ handle' \in [Process -> [Object -> BOOLEAN]]
      /\ \A q \in Process \ {p} : handle'[q] = handle[q]
  BY <1>2 DEF TypeOK
<1>4. \A q \in Process : (Holds(q)' <=> Holds(q)) /\ (Holds(q) => q # p)
  BY <1>1, <1>2 DEF Holds
<1>5. \A q \in Process \ {p} : Opened(q)' <=> Opened(q)
  BY <1>2, <1>3 DEF Opened
<1>6. HandlesUsed'
  BY <1>1, <1>2, <1>3, <1>4 DEF HandlesUsed, Holds, Created
<1>7. \A q \in Process : Holds(q)' => Opened(q)'
  BY <1>4, <1>5 DEF OpenWhileHeld
<1>8. CASE UNCHANGED <<kernel, orphaned>> /\ \E q \in Process : Opened(q)'
  <2>1. \A q \in Process : Locked(q)' = Locked(q)
    BY <1>1, <1>2, <1>8 DEF Locked
  <2>2. KernelAgrees'
    BY <1>8, <2>1, KernelStays DEF kernel
  <2>3. TypeOK'
    BY <1>2, <1>3, <1>8 DEF TypeOK, kernel
  <2> QED
    BY <1>6, <1>7, <1>8, <2>2, <2>3 DEF OpenWhileHeld
<1>9. CASE MutexGone /\ ~\E q \in Process : Opened(q)'
  <2>1. TypeOK'
    BY <1>2, <1>3, <1>9, GoneTypes DEF TypeOK
  <2>2. \A q \in Process : Owning(q)' = {} /\ direct'[q] = 0
    BY <1>7, <1>9, <2>1 DEF Holds, TypeOK
  <2>3. KernelAgrees'
    BY <1>9, <2>1, <2>2, GoneAgrees
  <2> QED
    BY <1>6, <1>7, <1>9, <2>1, <2>3 DEF OpenWhileHeld, MutexGone
<1> QED
  BY <1>8, <1>9 DEF DestroyMutex

\* A call begins to wait: nothing else changes.
LEMMA WaitBegins ==
  ASSUME IInv, NEW p \in Process, NEW wait \in Wait,
         call[p] = Null, handle[p][wait.mutex],
         IF wait.guard = Null THEN direct[p] < MaxHolds ELSE wait.guard \notin Owning(p),
         call' = [call EXCEPT ![p] = wait],
         UNCHANGED <<kernel, objects, guard, history>>
  PROVE  IInv'
<1> USE DEF IInv, kernel, objects, history
<1>1. \A q \in Process : Owning(q)' = Owning(q)
  BY GuardsStay
<1>2. TypeOK'
  BY DEF TypeOK
<1>3. \A q \in Process : Locked(q)' = Locked(q)
  BY <1>1 DEF Locked
<1>4. KernelAgrees'
  BY <1>3, KernelStays
<1>5. HandlesUsed'
  BY <1>1 DEF HandlesUsed, TypeOK, Created
<1>6. OpenWhileHeld'
  BY <1>1 DEF OpenWhileHeld, Holds, Opened
<1> QED
  BY <1>2, <1>4, <1>5, <1>6

LEMMA LockInv ==
  ASSUME IInv, NEW p \in Process, NEW m \in Object, NEW timed \in BOOLEAN,
         lock(p, m, timed)
  PROVE  IInv'
<1> DEFINE wait == [guard |-> Null, mutex |-> m, timed |-> timed]
<1>1. wait \in Wait
  BY DEF Wait
<1>2. /\ call[p] = Null /\ handle[p][m] /\ direct[p] < MaxHolds
      /\ call' = [call EXCEPT ![p] = wait] /\ UNCHANGED <<kernel, objects, guard, history>>
  BY DEF lock
<1>3. wait.mutex = m /\ wait.guard = Null
  OBVIOUS
<1> HIDE DEF wait
<1> QED
  BY <1>1, <1>2, <1>3, WaitBegins

LEMMA GuardLockInv ==
  ASSUME IInv, NEW p \in Process, NEW g \in Guard, NEW timed \in BOOLEAN,
         guard_lock(p, g, timed)
  PROVE  IInv'
<1> DEFINE wait == [guard |-> g, mutex |-> guard[p][g].mutex, timed |-> timed]
<1>1. wait \in Wait
  BY DEF Wait, guard_lock, IInv, TypeOK, GuardState
<1>2. /\ call[p] = Null /\ handle[p][guard[p][g].mutex] /\ g \notin Owning(p)
      /\ call' = [call EXCEPT ![p] = wait] /\ UNCHANGED <<kernel, objects, guard, history>>
  BY DEF guard_lock
<1>3. wait.mutex = guard[p][g].mutex /\ wait.guard = g /\ g # Null
  BY SlotAssumption
<1> HIDE DEF wait
<1> QED
  BY <1>1, <1>2, <1>3, WaitBegins

LEMMA UnlockInv ==
  ASSUME IInv, NEW p \in Process, NEW m \in Object, unlock(p, m)
  PROVE  IInv'
<1> USE DEF IInv, objects
<1>1. \A q \in Process : Owning(q)' = Owning(q)
  BY GuardsStay DEF unlock
<1>2. /\ ReleaseMutex(p) /\ direct[p] > 0 /\ direct' = [direct EXCEPT ![p] = @ - 1]
      /\ UNCHANGED <<leaked, handle, guard, call, orphaned, failed, crashes>> /\ call[p] = Null
  BY DEF unlock
<1>3. direct'[p] = direct[p] - 1 /\ \A q \in Process \ {p} : direct'[q] = direct[q]
  BY <1>2 DEF TypeOK
<1>4. /\ Locked(p) # 0 /\ Locked(p)' = Locked(p) - 1
      /\ \A q \in Process \ {p} : Locked(q)' = Locked(q)
  BY <1>1, <1>2, <1>3, OwningFinite, LockedNat DEF Locked
<1>5. KernelAgrees' /\ count' \in Nat /\ owner' \in {p, Null} /\ abandoned' = abandoned
  BY <1>2, <1>4, ReleaseAgrees
<1>6. direct' \in [Process -> 0 .. MaxHolds]
  BY <1>2, BoundAssumption DEF TypeOK
<1>7. TypeOK'
  BY <1>2, <1>5, <1>6 DEF TypeOK
<1>8. HandlesUsed'
  BY <1>1, <1>2, <1>3 DEF HandlesUsed, Created
<1>9. OpenWhileHeld'
  <2>1. \A q \in Process : Opened(q)' <=> Opened(q)
    BY <1>2 DEF Opened
  <2>2. \A q \in Process : Holds(q)' => Holds(q)
    BY <1>1, <1>2, <1>3 DEF Holds
  <2>3. Opened(p)
    BY <1>2 DEF OpenWhileHeld, Holds
  <2> QED
    BY <2>1, <2>2, <2>3 DEF OpenWhileHeld
<1> QED
  BY <1>5, <1>7, <1>8, <1>9

-----------------------------------------------------------------------------
(* The end of a wait. *)

\* A guard that is told it owns a lock owns it, and the others what they did.
LEMMA GuardSet ==
  ASSUME TypeOK, NEW p \in Process, NEW g \in Guard, NEW mutex \in Object \cup {Null},
         NEW owns \in BOOLEAN, SetGuard(p, g, mutex, owns)
  PROVE  /\ guard' \in [Process -> [Guard -> GuardState \cup {Null}]]
         /\ Owning(p)' = IF owns THEN Owning(p) \cup {g} ELSE Owning(p) \ {g}
         /\ \A q \in Process \ {p} : Owning(q)' = Owning(q) /\ guard'[q] = guard[q]
         /\ guard'[p][g] = [mutex |-> mutex, owns |-> owns]
         /\ \A h \in Guard \ {g} : guard'[p][h] = guard[p][h]
<1>1. [mutex |-> mutex, owns |-> owns] \in GuardState
  BY DEF GuardState
<1>2. [mutex |-> mutex, owns |-> owns] # Null
  BY <1>1, NullAssumption
<1>3. /\ guard' \in [Process -> [Guard -> GuardState \cup {Null}]]
      /\ \A q \in Process \ {p} : guard'[q] = guard[q]
      /\ guard'[p][g] = [mutex |-> mutex, owns |-> owns]
      /\ \A h \in Guard \ {g} : guard'[p][h] = guard[p][h]
  BY <1>1 DEF TypeOK, SetGuard
<1>4. Owning(p)' = IF owns THEN Owning(p) \cup {g} ELSE Owning(p) \ {g}
  BY <1>2, <1>3 DEF Owning
<1>5. \A q \in Process \ {p} : Owning(q)' = Owning(q)
  BY <1>3 DEF Owning
<1> QED
  BY <1>3, <1>4, <1>5

LEMMA GetsInv ==
  ASSUME IInv, NEW p \in Process, Gets(p)
  PROVE  IInv'
<1> USE DEF IInv, objects
<1>1. /\ TakeMutex(p) /\ call[p] # Null /\ call' = [call EXCEPT ![p] = Null]
      /\ UNCHANGED <<leaked, handle, orphaned, failed, crashes>>
  BY DEF Gets
<1>2. /\ call[p] \in Wait /\ call' \in [Process -> Wait \cup {Null}]
      /\ call'[p] = Null /\ \A q \in Process \ {p} : call'[q] = call[q]
  BY <1>1 DEF TypeOK
<1>3. Opened(p) /\ \A q \in Process : Opened(q)' <=> Opened(q)
  BY <1>1, <1>2 DEF Opened, HandlesUsed, Wait
<1>4. CASE call[p].guard = Null
  <2>1. direct' = [direct EXCEPT ![p] = @ + 1] /\ guard' = guard /\ direct[p] < MaxHolds
    BY <1>1, <1>4 DEF Gets, HandlesUsed
  <2>2. \A q \in Process : Owning(q)' = Owning(q)
    BY <2>1, GuardsStay
  <2>3. direct'[p] = direct[p] + 1 /\ \A q \in Process \ {p} : direct'[q] = direct[q]
    BY <2>1 DEF TypeOK
  <2>4. Locked(p)' = Locked(p) + 1 /\ \A q \in Process \ {p} : Locked(q)' = Locked(q)
    BY <1>1, <2>2, <2>3, OwningFinite, LockedNat DEF Locked
  <2>5. KernelAgrees' /\ count' \in Nat /\ owner' = p
    BY <1>1, <2>4, TakeAgrees
  <2>6. TypeOK'
    <3>1. direct' \in [Process -> 0 .. MaxHolds]
      BY <2>1, BoundAssumption DEF TypeOK
    <3> QED
      BY <1>1, <1>2, <2>1, <2>5, <3>1 DEF TypeOK, TakeMutex
  <2>7. HandlesUsed'
    BY <1>1, <1>2, <2>1, <2>2, <2>3 DEF HandlesUsed, Created
  <2>8. OpenWhileHeld'
    BY <1>3, <2>2, <2>3 DEF OpenWhileHeld, Holds
  <2> QED
    BY <2>5, <2>6, <2>7, <2>8
<1>5. CASE call[p].guard # Null
  <2>1. PICK g \in Guard, mutex \in Object :
          /\ g = call[p].guard /\ mutex = call[p].mutex
          /\ g \notin Owning(p) /\ handle[p][mutex]
    BY <1>1, <1>2, <1>5 DEF Wait, HandlesUsed
  <2>2. SetGuard(p, g, mutex, TRUE) /\ direct' = direct
    BY <1>5, <2>1 DEF Gets
  <2>3. /\ guard' \in [Process -> [Guard -> GuardState \cup {Null}]]
        /\ Owning(p)' = Owning(p) \cup {g}
        /\ \A q \in Process \ {p} : Owning(q)' = Owning(q) /\ guard'[q] = guard[q]
        /\ guard'[p][g] = [mutex |-> mutex, owns |-> TRUE]
        /\ \A h \in Guard \ {g} : guard'[p][h] = guard[p][h]
    BY <2>2, GuardSet, Zenon
  <2>4. Locked(p)' = Locked(p) + 1 /\ \A q \in Process \ {p} : Locked(q)' = Locked(q)
    <3>1. Cardinality(Owning(p)') = Cardinality(Owning(p)) + 1
      BY <2>1, <2>3, OwningFinite, OneMoreOrLess
    <3> QED
      BY <1>1, <2>2, <2>3, <3>1, OwningFinite, LockedNat DEF Locked
  <2>5. KernelAgrees' /\ count' \in Nat /\ owner' = p
    BY <1>1, <2>4, TakeAgrees
  <2>6. TypeOK'
    BY <1>1, <1>2, <2>2, <2>3, <2>5 DEF TypeOK, TakeMutex
  <2>7. HandlesUsed'
    <3>1. ASSUME NEW h \in Owning(p)'
          PROVE  guard'[p][h].mutex # Null /\ Created(p, guard[p][h].mutex)'
      <4>1. CASE h = g
        BY <1>1, <2>1, <2>3, <4>1, SlotAssumption DEF Created
      <4>2. CASE h # g
        BY <1>1, <2>3, <4>2 DEF HandlesUsed, Owning, Created
      <4> QED
        BY <4>1, <4>2
    <3>2. ASSUME NEW q \in Process \ {p}
          PROVE  /\ \A h \in Owning(q)' : guard'[q][h].mutex # Null
                                          /\ Created(q, guard[q][h].mutex)'
                 /\ call'[q] # Null =>
                      /\ handle'[q][call'[q].mutex]
                      /\ IF call'[q].guard = Null THEN direct'[q] < MaxHolds
                                                  ELSE call'[q].guard \notin Owning(q)'
      BY <1>1, <1>2, <2>2, <2>3 DEF HandlesUsed, Created
    <3> QED
      BY <1>2, <3>1, <3>2 DEF HandlesUsed
  <2>8. OpenWhileHeld'
    BY <1>3, <2>2, <2>3 DEF OpenWhileHeld, Holds
  <2> QED
    BY <2>5, <2>6, <2>7, <2>8
<1> QED
  BY <1>4, <1>5

LEMMA GetsAbandonedInv ==
  ASSUME IInv, NEW p \in Process, GetsAbandoned(p)
  PROVE  IInv'
<1> USE DEF IInv, objects
<1>1. /\ TakeMutex(p) /\ call[p] # Null /\ call' = [call EXCEPT ![p] = Null]
      /\ orphaned[p] < MaxHolds /\ orphaned' = [orphaned EXCEPT ![p] = @ + 1]
      /\ UNCHANGED <<leaked, handle, guard, direct, failed, crashes>>
  BY DEF GetsAbandoned
<1>2. /\ call[p] \in Wait /\ call' \in [Process -> Wait \cup {Null}]
      /\ call'[p] = Null /\ \A q \in Process \ {p} : call'[q] = call[q]
      /\ orphaned'[p] = orphaned[p] + 1
      /\ \A q \in Process \ {p} : orphaned'[q] = orphaned[q]
  BY <1>1 DEF TypeOK
<1>3. Opened(p) /\ \A q \in Process : Opened(q)' <=> Opened(q)
  BY <1>1, <1>2 DEF Opened, HandlesUsed, Wait
<1>4. \A q \in Process : Owning(q)' = Owning(q)
  BY <1>1, GuardsStay
<1>5. Locked(p)' = Locked(p) + 1 /\ \A q \in Process \ {p} : Locked(q)' = Locked(q)
  BY <1>1, <1>2, <1>4, OwningFinite, LockedNat DEF Locked
<1>6. KernelAgrees' /\ count' \in Nat /\ owner' = p
  BY <1>1, <1>5, TakeAgrees
<1>7. TypeOK'
  <2>1. orphaned' \in [Process -> 0 .. MaxHolds]
    BY <1>1, BoundAssumption DEF TypeOK
  <2> QED
    BY <1>1, <1>2, <1>6, <2>1 DEF TypeOK, TakeMutex
<1>8. HandlesUsed'
  BY <1>1, <1>2, <1>4 DEF HandlesUsed, Created
<1>9. OpenWhileHeld'
  BY <1>1, <1>3, <1>4 DEF OpenWhileHeld, Holds
<1> QED
  BY <1>6, <1>7, <1>8, <1>9

LEMMA TimesOutInv ==
  ASSUME IInv, NEW p \in Process, TimesOut(p)
  PROVE  IInv'
<1> USE DEF IInv, kernel, objects, history
<1>1. call' = [call EXCEPT ![p] = Null] /\ UNCHANGED <<kernel, objects, guard, history>>
  BY DEF TimesOut
<1>2. \A q \in Process : Owning(q)' = Owning(q)
  BY <1>1, GuardsStay
<1>3. TypeOK'
  BY <1>1 DEF TypeOK
<1>4. \A q \in Process : Locked(q)' = Locked(q)
  BY <1>1, <1>2 DEF Locked
<1>5. KernelAgrees'
  BY <1>1, <1>4, KernelStays
<1>6. HandlesUsed'
  BY <1>1, <1>2 DEF HandlesUsed, TypeOK, Created
<1>7. OpenWhileHeld'
  BY <1>1, <1>2 DEF OpenWhileHeld, Holds, Opened
<1> QED
  BY <1>3, <1>5, <1>6, <1>7

-----------------------------------------------------------------------------
(* process_lock_guard.  Its operations change guards of one process that is *)
(* not waiting, and release at most one lock.                               *)

LEMMA GuardsChange ==
  ASSUME IInv, NEW p \in Process, call[p] = Null, UNCHANGED <<objects, call, history>>,
         guard' \in [Process -> [Guard -> GuardState \cup {Null}]],
         \A q \in Process \ {p} : Owning(q)' = Owning(q) /\ guard'[q] = guard[q],
         \A h \in Owning(p)' : \E g \in Owning(p) : guard'[p][h].mutex = guard[p][g].mutex,
         \/ UNCHANGED kernel /\ Cardinality(Owning(p)') = Cardinality(Owning(p))
         \/ /\ ReleaseMutex(p) /\ Owning(p) # {}
            /\ Cardinality(Owning(p)') = Cardinality(Owning(p)) - 1
  PROVE  IInv'
<1> USE DEF IInv, kernel, objects, history
<1>1. \A q \in Process \ {p} : Locked(q)' = Locked(q)
  BY DEF Locked
<1>2. HandlesUsed'
  BY DEF HandlesUsed, Created
<1>3. \A q \in Process : Opened(q)' <=> Opened(q)
  BY DEF Opened
<1>4. \A q \in Process : Holds(q)' => Holds(q)
  BY DEF Holds
<1>5. CASE UNCHANGED kernel /\ Cardinality(Owning(p)') = Cardinality(Owning(p))
  <2>1. Locked(p)' = Locked(p)
    BY <1>5 DEF Locked
  <2>2. KernelAgrees'
    BY <1>1, <1>5, <2>1, KernelStays
  <2>3. TypeOK'
    BY <1>5 DEF TypeOK
  <2>4. OpenWhileHeld'
    BY <1>3, <1>4, <1>5 DEF OpenWhileHeld
  <2> QED
    BY <1>2, <2>2, <2>3, <2>4
<1>6. CASE /\ ReleaseMutex(p) /\ Owning(p) # {}
           /\ Cardinality(Owning(p)') = Cardinality(Owning(p)) - 1
  <2>7. Cardinality(Owning(p)) \in Nat /\ direct[p] \in Nat /\ orphaned[p] \in Nat
    BY OwningFinite, LockedNat
  <2>1. Locked(p) # 0
    BY <1>6, LockedNat
  <2>2. /\ Locked(p) = Cardinality(Owning(p)) + direct[p] + orphaned[p]
        /\ Locked(p)' = Cardinality(Owning(p)') + direct[p] + orphaned[p]
    BY DEF Locked
  <2>3. Locked(p)' = Locked(p) - 1
    BY <1>6, <2>2, <2>7
  <2>4. KernelAgrees' /\ count' \in Nat /\ owner' \in {p, Null} /\ abandoned' = abandoned
    BY <1>1, <1>6, <2>1, <2>3, ReleaseAgrees
  <2>5. TypeOK'
    BY <2>4 DEF TypeOK
  <2>6. OpenWhileHeld'
    BY <1>3, <1>4, <1>6, <2>4 DEF OpenWhileHeld, Holds
  <2> QED
    BY <1>2, <2>4, <2>5, <2>6
<1> QED
  BY <1>5, <1>6

LEMMA BuildGuardInv ==
  ASSUME IInv, NEW p \in Process, NEW g \in Guard, NEW mutex \in Object \cup {Null},
         BuildGuard(p, g, mutex)
  PROVE  IInv'
<1>1. /\ call[p] = Null /\ UNCHANGED <<kernel, objects, call, history>>
      /\ SetGuard(p, g, mutex, FALSE) /\ g \notin Owning(p)
  BY DEF BuildGuard, Owning
<1>2. /\ guard' \in [Process -> [Guard -> GuardState \cup {Null}]]
      /\ Owning(p)' = Owning(p) \ {g}
      /\ \A q \in Process \ {p} : Owning(q)' = Owning(q) /\ guard'[q] = guard[q]
      /\ \A h \in Guard \ {g} : guard'[p][h] = guard[p][h]
  BY <1>1, GuardSet, Zenon DEF IInv
<1>3. Owning(p)' = Owning(p)
  BY <1>1, <1>2
<1>4. \A h \in Owning(p)' : guard'[p][h].mutex = guard[p][h].mutex
  BY <1>1, <1>2, <1>3 DEF Owning
<1> QED
  BY <1>1, <1>2, <1>3, <1>4, GuardsChange

LEMMA GuardUnlockInv ==
  ASSUME IInv, NEW p \in Process, NEW g \in Guard, guard_unlock(p, g)
  PROVE  IInv'
<1>1. PICK mutex \in Object \cup {Null} : mutex = guard[p][g].mutex
  BY DEF guard_unlock, Owning, IInv, TypeOK, GuardState
<1>2. /\ call[p] = Null /\ UNCHANGED <<objects, call, history>>
      /\ SetGuard(p, g, mutex, FALSE) /\ g \in Owning(p) /\ ReleaseMutex(p)
  BY <1>1 DEF guard_unlock, ReleaseGuard
<1>3. /\ guard' \in [Process -> [Guard -> GuardState \cup {Null}]]
      /\ Owning(p)' = Owning(p) \ {g}
      /\ \A q \in Process \ {p} : Owning(q)' = Owning(q) /\ guard'[q] = guard[q]
      /\ \A h \in Guard \ {g} : guard'[p][h] = guard[p][h]
  BY <1>2, GuardSet, Zenon DEF IInv
<1>4. Cardinality(Owning(p)') = Cardinality(Owning(p)) - 1
  BY <1>2, <1>3, OwningFinite, OneMoreOrLess
<1>5. \A h \in Owning(p)' : h \in Owning(p) /\ guard'[p][h].mutex = guard[p][h].mutex
  BY <1>3 DEF Owning
<1> QED
  BY <1>2, <1>3, <1>4, <1>5, GuardsChange

LEMMA DestroyGuardInv ==
  ASSUME IInv, NEW p \in Process, NEW g \in Guard, DestroyGuard(p, g)
  PROVE  IInv'
<1>1. /\ call[p] = Null /\ UNCHANGED <<objects, call, history>>
      /\ guard' = [guard EXCEPT ![p][g] = Null] /\ guard[p][g] # Null
  BY DEF DestroyGuard
<1>2. /\ guard' \in [Process -> [Guard -> GuardState \cup {Null}]]
      /\ \A q \in Process \ {p} : guard'[q] = guard[q]
      /\ guard'[p][g] = Null /\ \A h \in Guard \ {g} : guard'[p][h] = guard[p][h]
  BY <1>1 DEF IInv, TypeOK
<1>3. /\ Owning(p)' = Owning(p) \ {g}
      /\ \A q \in Process \ {p} : Owning(q)' = Owning(q)
  BY <1>2 DEF Owning
<1>4. \A h \in Owning(p)' : h \in Owning(p) /\ guard'[p][h].mutex = guard[p][h].mutex
  BY <1>2, <1>3 DEF Owning
<1>5. CASE guard[p][g].owns
  <2>1. g \in Owning(p) /\ ReleaseMutex(p)
    BY <1>1, <1>5 DEF DestroyGuard, Owning, ReleaseGuard
  <2>2. Cardinality(Owning(p)') = Cardinality(Owning(p)) - 1
    BY <1>3, <2>1, OwningFinite, OneMoreOrLess
  <2> QED
    BY <1>1, <1>2, <1>3, <1>4, <2>1, <2>2, GuardsChange
<1>6. CASE ~guard[p][g].owns
  <2>1. g \notin Owning(p) /\ UNCHANGED kernel
    BY <1>6 DEF DestroyGuard, Owning
  <2>2. Owning(p)' = Owning(p)
    BY <1>3, <2>1
  <2> QED
    BY <1>1, <1>2, <1>3, <1>4, <2>1, <2>2, GuardsChange
<1> QED
  BY <1>5, <1>6

\* One guard takes over the state of another, which is cleared.
LEMMA GuardMoves ==
  ASSUME TypeOK, NEW p \in Process, NEW from \in Guard, NEW to \in Guard,
         from # to, guard[p][from] # Null,
         guard' = [guard EXCEPT ![p][to] = guard[p][from],
                                ![p][from] = [mutex |-> Null, owns |-> FALSE]]
  PROVE  /\ guard' \in [Process -> [Guard -> GuardState \cup {Null}]]
         /\ \A q \in Process \ {p} : Owning(q)' = Owning(q) /\ guard'[q] = guard[q]
         /\ \A h \in Owning(p)' : \E g \in Owning(p) : guard'[p][h].mutex = guard[p][g].mutex
         /\ Cardinality(Owning(p)') =
              IF to \in Owning(p) THEN Cardinality(Owning(p)) - 1 ELSE Cardinality(Owning(p))
<1>1. [mutex |-> Null, owns |-> FALSE] \in GuardState
  BY DEF GuardState
<1>2. /\ guard' \in [Process -> [Guard -> GuardState \cup {Null}]]
      /\ \A q \in Process \ {p} : guard'[q] = guard[q]
      /\ guard'[p][to] = guard[p][from]
      /\ guard'[p][from] = [mutex |-> Null, owns |-> FALSE]
      /\ \A h \in Guard \ {from, to} : guard'[p][h] = guard[p][h]
  BY <1>1 DEF TypeOK
<1>3. \A q \in Process \ {p} : Owning(q)' = Owning(q)
  BY <1>2 DEF Owning
<1>4. Owning(p)' = IF from \in Owning(p) THEN (Owning(p) \ {from}) \cup {to}
                                         ELSE Owning(p) \ {to}
  BY <1>2 DEF Owning
<1>5. ASSUME NEW h \in Owning(p)'
      PROVE  \E g \in Owning(p) : guard'[p][h].mutex = guard[p][g].mutex
  <2>1. CASE h = to
    <3>1. from \in Owning(p)
      BY <1>4, <2>1
    <3> QED
      BY <1>2, <2>1, <3>1
  <2>2. CASE h # to
    <3>1. h \in Owning(p) /\ h \in Guard \ {from, to}
      BY <1>2, <1>4, <2>2 DEF Owning
    <3> QED
      BY <1>2, <3>1
  <2> QED
    BY <2>1, <2>2
<1>6. Cardinality(Owning(p)') =
        IF to \in Owning(p) THEN Cardinality(Owning(p)) - 1 ELSE Cardinality(Owning(p))
  <2>1. CASE from \in Owning(p)
    <3> DEFINE rest == Owning(p) \ {from}
    <3>1. IsFiniteSet(rest) /\ Cardinality(rest) = Cardinality(Owning(p)) - 1
      BY <2>1, OwningFinite, FS_RemoveElement
    <3>2. Owning(p)' = rest \cup {to} /\ (to \in rest <=> to \in Owning(p))
      BY <1>4, <2>1
    <3> HIDE DEF rest
    <3>3. Cardinality(rest \cup {to}) = IF to \in rest THEN Cardinality(rest)
                                                       ELSE Cardinality(rest) + 1
      BY <3>1, FS_AddElement
    <3> QED
      BY <3>1, <3>2, <3>3, OwningFinite
  <2>2. CASE from \notin Owning(p)
    BY <1>4, <2>2, OwningFinite, FS_RemoveElement
  <2> QED
    BY <2>1, <2>2
<1> QED
  BY <1>2, <1>3, <1>5, <1>6

LEMMA MoveConstructInv ==
  ASSUME IInv, NEW p \in Process, NEW from \in Guard, NEW to \in Guard,
         MoveConstruct(p, from, to)
  PROVE  IInv'
<1>1. /\ call[p] = Null /\ UNCHANGED <<kernel, objects, call, history>>
      /\ from # to /\ guard[p][from] # Null /\ to \notin Owning(p)
      /\ guard' = [guard EXCEPT ![p][to] = guard[p][from],
                                ![p][from] = [mutex |-> Null, owns |-> FALSE]]
  BY DEF MoveConstruct, Owning
<1>2. /\ guard' \in [Process -> [Guard -> GuardState \cup {Null}]]
      /\ \A q \in Process \ {p} : Owning(q)' = Owning(q) /\ guard'[q] = guard[q]
      /\ \A h \in Owning(p)' : \E g \in Owning(p) : guard'[p][h].mutex = guard[p][g].mutex
      /\ Cardinality(Owning(p)') = Cardinality(Owning(p))
  BY <1>1, GuardMoves DEF IInv
<1> QED
  BY <1>1, <1>2, GuardsChange

LEMMA MoveAssignInv ==
  ASSUME IInv, NEW p \in Process, NEW from \in Guard, NEW to \in Guard,
         MoveAssign(p, from, to)
  PROVE  IInv'
<1>1. /\ call[p] = Null /\ UNCHANGED <<objects, call, history>>
      /\ from # to /\ guard[p][from] # Null
      /\ guard' = [guard EXCEPT ![p][to] = guard[p][from],
                                ![p][from] = [mutex |-> Null, owns |-> FALSE]]
      /\ IF to \in Owning(p) THEN ReleaseMutex(p) ELSE UNCHANGED kernel
  BY DEF MoveAssign, Owning, ReleaseGuard
<1>2. /\ guard' \in [Process -> [Guard -> GuardState \cup {Null}]]
      /\ \A q \in Process \ {p} : Owning(q)' = Owning(q) /\ guard'[q] = guard[q]
      /\ \A h \in Owning(p)' : \E g \in Owning(p) : guard'[p][h].mutex = guard[p][g].mutex
      /\ Cardinality(Owning(p)') =
           IF to \in Owning(p) THEN Cardinality(Owning(p)) - 1 ELSE Cardinality(Owning(p))
  BY <1>1, GuardMoves DEF IInv
<1> QED
  BY <1>1, <1>2, GuardsChange

-----------------------------------------------------------------------------

LEMMA DiedInv ==
  ASSUME IInv, NEW p \in Process, Died(p)
  PROVE  IInv'
<1> USE DEF IInv
<1>1. /\ crashes < MaxCrashes /\ crashes' = crashes + 1
      /\ leaked' = leaked \ {p}
      /\ handle' = [handle EXCEPT ![p] = [m \in Object |-> FALSE]]
      /\ guard' = [guard EXCEPT ![p] = [g \in Guard |-> Null]]
      /\ call' = [call EXCEPT ![p] = Null] /\ direct' = [direct EXCEPT ![p] = 0]
      /\ failed' = failed \ ({p} \X Object)
  BY DEF Died
<1>2. /\ crashes' \in 0 .. MaxCrashes /\ leaked' \subseteq Process
      /\ handle' \in [Process -> [Object -> BOOLEAN]]
      /\ guard' \in [Process -> [Guard -> GuardState \cup {Null}]]
      /\ failed' \subseteq Process \X Object
      /\ call' \in [Process -> Wait \cup {Null}] /\ direct' \in [Process -> 0 .. MaxHolds]
  BY <1>1, BoundAssumption DEF TypeOK
<1>3. /\ \A m \in Object : ~handle'[p][m]
      /\ \A g \in Guard : guard'[p][g] = Null
      /\ call'[p] = Null /\ direct'[p] = 0
      /\ \A q \in Process \ {p} : /\ handle'[q] = handle[q] /\ guard'[q] = guard[q]
                                  /\ call'[q] = call[q] /\ direct'[q] = direct[q]
  BY <1>1 DEF TypeOK
<1>4. Owning(p)' = {} /\ \A q \in Process \ {p} : Owning(q)' = Owning(q)
  BY <1>3 DEF Owning
<1>5. ~Opened(p)' /\ \A q \in Process \ {p} : Opened(q)' <=> Opened(q)
  BY <1>1, <1>3 DEF Opened
<1>6. HandlesUsed'
  <2>1. \A q \in Process \ {p}, m \in Object : Created(q, m) => Created(q, m)'
    BY <1>1, <1>3 DEF Created
  <2>2. \A q \in Process \ {p} : \A g \in Owning(q)' :
          guard'[q][g].mutex # Null /\ Created(q, guard[q][g].mutex)'
    BY <1>3, <1>4, <2>1, OwnedObject DEF HandlesUsed
  <2> QED
    BY <1>3, <1>4, <2>2 DEF HandlesUsed
<1>7. ~Holds(p)' /\ \A q \in Process \ {p} : Holds(q)' <=> Holds(q)
  BY <1>3, <1>4 DEF Holds
<1>8. CASE \E q \in Process \ {p} : Opened(q)
  <2>1. /\ orphaned' = [orphaned EXCEPT ![p] = 0]
        /\ IF owner = p THEN owner' = Null /\ count' = 0 /\ abandoned' = TRUE
                        ELSE UNCHANGED kernel
    BY <1>8 DEF Died
  <2>2. /\ orphaned' \in [Process -> 0 .. MaxHolds] /\ orphaned'[p] = 0
        /\ \A q \in Process \ {p} : orphaned'[q] = orphaned[q]
    BY <2>1, BoundAssumption DEF TypeOK
  <2>3. TypeOK'
    <3>1. owner' \in Process \cup {Null} /\ count' \in Nat /\ abandoned' \in BOOLEAN
      <4>1. CASE owner = p
        BY <2>1, <4>1
      <4>2. CASE owner # p
        BY <2>1, <4>2 DEF TypeOK, kernel
      <4> QED
        BY <4>1, <4>2
    <3> QED
      BY <1>2, <2>2, <3>1 DEF TypeOK
  <2>4. Locked(p)' = 0 /\ \A q \in Process \ {p} : Locked(q)' = Locked(q)
    BY <1>3, <1>4, <2>2, FS_EmptySet DEF Locked
  <2>5. KernelAgrees'
    BY <2>1, <2>4, SlotAssumption DEF KernelAgrees, kernel
  <2>6. OpenWhileHeld'
    BY <1>5, <1>7, <1>8 DEF OpenWhileHeld
  <2> QED
    BY <1>6, <2>3, <2>5, <2>6
<1>9. CASE ~\E q \in Process \ {p} : Opened(q)
  <2>1. MutexGone
    BY <1>9 DEF Died
  <2>2. TypeOK'
    BY <1>2, <2>1, GoneTypes DEF TypeOK
  <2>3. \A q \in Process : ~Holds(q)'
    BY <1>7, <1>9 DEF OpenWhileHeld
  <2>4. \A q \in Process : Owning(q)' = {} /\ direct'[q] = 0
    BY <2>2, <2>3 DEF Holds, TypeOK
  <2>5. KernelAgrees'
    BY <2>1, <2>2, <2>4, GoneAgrees
  <2>6. OpenWhileHeld'
    BY <2>1, <2>3 DEF OpenWhileHeld, MutexGone
  <2> QED
    BY <1>6, <2>2, <2>5, <2>6
<1> QED
  BY <1>8, <1>9

LEMMA InitInv == Init => IInv
<1> SUFFICES ASSUME Init PROVE IInv
  OBVIOUS
<1>1. TypeOK
  <2>1. 0 \in 0 .. MaxHolds /\ 0 \in 0 .. MaxCrashes
    BY BoundAssumption
  <2> QED
    BY <2>1 DEF Init, TypeOK
<1>2. \A p \in Process : Owning(p) = {}
  BY DEF Init, Owning
<1>3. KernelAgrees
  <2>1. ASSUME NEW p \in Process PROVE Locked(p) = 0 /\ owner # p
    <3>1. direct[p] = 0 /\ orphaned[p] = 0 /\ owner # p
      BY SlotAssumption DEF Init
    <3> QED
      BY <1>1, <1>2, <3>1, LockedNat
  <2> QED
    BY <2>1 DEF Init, KernelAgrees
<1>4. HandlesUsed /\ OpenWhileHeld
  BY <1>2 DEF Init, HandlesUsed, OpenWhileHeld, Holds
<1> QED
  BY <1>1, <1>3, <1>4 DEF IInv

LEMMA StutterInv == IInv /\ UNCHANGED vars => IInv'
<1> SUFFICES ASSUME IInv, UNCHANGED vars PROVE IInv'
  OBVIOUS
<1> USE DEF IInv, vars, kernel, objects, history
<1>1. \A q \in Process : Owning(q)' = Owning(q)
  BY GuardsStay
<1>2. TypeOK'
  BY DEF TypeOK
<1>3. \A q \in Process : Locked(q)' = Locked(q)
  BY <1>1 DEF Locked
<1>4. KernelAgrees'
  BY <1>3, KernelStays
<1>5. HandlesUsed' /\ OpenWhileHeld'
  BY <1>1 DEF HandlesUsed, OpenWhileHeld, Holds, Opened, Created
<1> QED
  BY <1>2, <1>4, <1>5

LEMMA StepInv == IInv /\ [Next]_vars => IInv'
<1> SUFFICES ASSUME IInv, [Next]_vars PROVE IInv'
  OBVIOUS
<1>1. ASSUME NEW p \in Process, MutexCalls(p) PROVE IInv'
  BY <1>1, CreateInv, CreateFailsInv, MoveMutexInv, DestroyMutexInv, LockInv, UnlockInv DEF MutexCalls
<1>2. ASSUME NEW p \in Process, GuardCalls(p) PROVE IInv'
  BY <1>2, BuildGuardInv, MoveConstructInv, MoveAssignInv, DestroyGuardInv,
     DiedInv, GuardLockInv, GuardUnlockInv DEF GuardCalls, DestroyGuardTerminates
<1>3. ASSUME NEW p \in Process, Gets(p) \/ GetsAbandoned(p) \/ TimesOut(p) \/ Died(p)
      PROVE  IInv'
  BY <1>3, GetsInv, GetsAbandonedInv, TimesOutInv, DiedInv
<1> QED
  BY <1>1, <1>2, <1>3, StutterInv DEF Next

\* Whatever the processes do and whenever they die, each lock on the kernel's
\* mutex is one that its owner was given, and is held through an open handle.
THEOREM InvHolds == Spec => []IInv
BY InitInv, StepInv, PTL DEF Spec

\* The variables keep their types; recursion and crashes keep their bounds.
THEOREM TypeCorrect == Spec => []TypeOK
BY InvHolds, PTL DEF IInv

\* No two processes hold the lock (process_mutex.hpp, lock() and the guard).
THEOREM AlwaysExclusive == Spec => []Exclusive
<1>1. IInv => Exclusive
  BY HolderOwns DEF Exclusive
<1> QED
  BY <1>1, InvHolds, PTL

\* The release by a guard that owns the lock, in its noexcept destructor too,
\* fails only if create_mutex has failed on the object it has locked
\* (process_mutex.hpp:77, 107, 172).
THEOREM ReleaseAlwaysSucceeds == Spec => []ReleaseSucceeds
<1>1. IInv => ReleaseSucceeds
  BY HolderOwns
     DEF ReleaseSucceeds, Releasable, Holds, IInv, HandlesUsed, Created
<1> QED
  BY <1>1, InvHolds, PTL

\* Every lock is one that a guard, a caller or a wait that threw was given.
THEOREM LockAlwaysAccounted == Spec => []LockAccounted
<1>1. IInv => LockAccounted
  BY DEF LockAccounted, IInv, KernelAgrees, Locked
<1> QED
  BY <1>1, InvHolds, PTL
=============================================================================
