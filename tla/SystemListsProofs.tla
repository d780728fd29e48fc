------------------------- MODULE SystemListsProofs -------------------------
(***************************************************************************)
(* For any services or adapters, filters, pages and number of changes: the  *)
(* service manager is closed, or accounted for; the list is whole; and it   *)
(* holds nothing of an earlier one.                                         *)
(***************************************************************************)
EXTENDS SystemLists, NumberLemmas, SequenceTheorems

\* The manager is open only while pages are read, so the handle is not closed
\* by what ends other phases; and the numbers are numbers.
IInv == HandlesAccounted /\ broken \in Nat

LEMMA InitInv == Init => IInv
BY DEF Init, IInv, HandlesAccounted

\* Outside the pages an action that keeps the handles and does not get there
\* keeps the account.
LEMMA HandlesStay ==
  ASSUME IInv, pc # "page", pc' # "page", UNCHANGED <<handles, broken>>
  PROVE  IInv'
BY DEF IInv, HandlesAccounted

\* Where a call goes when its Init is over: to its end, or to the next Init.
LEMMA AfterInit ==
  ASSUME NEW filled, InitReturns(filled)
  PROVE  pc' # "page"
BY DEF InitReturns, InitEnds, StartInit, Return

\* What an exception leaves open is counted.
LEMMA ThrowsInv ==
  ASSUME IInv, InitThrows
  PROVE  IInv'
BY DEF IInv, InitThrows, HandlesAccounted

LEMMA StepInv == IInv /\ [Next]_vars => IInv'
<1> SUFFICES ASSUME IInv, [Next]_vars PROVE IInv'
  OBVIOUS
<1>1. ASSUME NEW op \in Op, Begin(op) PROVE IInv'
  <2>1. pc # "page" /\ pc' # "page" /\ UNCHANGED <<handles, broken>>
    BY <1>1 DEF Begin, Return, StartInit
  <2> QED
    BY <2>1, HandlesStay
<1>2. CASE Finish
  BY <1>2, HandlesStay DEF Finish
<1>3. CASE OpenManager
  BY <1>3 DEF OpenManager, IInv, HandlesAccounted
<1>4. CASE ManagerDenied \/ AdaptersFail \/ SystemFails
  BY <1>4, ThrowsInv DEF ManagerDenied, AdaptersFail, SystemFails
<1>5. CASE EnumServices
  <2>1. pc = "page" /\ UNCHANGED broken
    BY <1>5 DEF EnumServices
  <2>2. CASE UNCHANGED <<handles, pc>>
    BY <2>1, <2>2 DEF IInv, HandlesAccounted
  <2>3. CASE ~UNCHANGED <<handles, pc>>
    <3>1. CloseManager /\ \E filled : InitReturns(filled)
      BY <1>5, <2>3 DEF EnumServices
    <3>2. pc' # "page"
      BY <3>1, AfterInit
    <3> QED
      BY <2>1, <3>1, <3>2 DEF CloseManager, IInv, HandlesAccounted
  <2> QED
    BY <2>2, <2>3
<1>6. CASE AdaptersOverflow
  BY <1>6, HandlesStay DEF AdaptersOverflow
<1>7. CASE TakeAdapters
  <2>1. pc # "page" /\ UNCHANGED <<handles, broken>> /\ \E filled : InitReturns(filled)
    BY <1>7 DEF TakeAdapters
  <2>2. pc' # "page"
    BY <2>1, AfterInit
  <2> QED
    BY <2>1, <2>2, HandlesStay
<1>8. CASE SourceChanges
  BY <1>8 DEF SourceChanges, IInv, HandlesAccounted
<1>9. CASE UNCHANGED vars
  BY <1>9 DEF vars, IInv, HandlesAccounted
<1> QED
  BY <1>1, <1>2, <1>3, <1>4, <1>5, <1>6, <1>7, <1>8, <1>9 DEF Next, Step

THEOREM InvHolds == Spec => []IInv
BY InitInv, StepInv, PTL DEF Spec

\* ServicesInfo::Init closes the service manager once, however many pages it
\* reads, unless it throws (Services.cpp:85).
THEOREM HandlesAlwaysAccounted == Spec => []HandlesAccounted
BY InvHolds, PTL DEF IInv

-----------------------------------------------------------------------------
(* What a filter selects, and what it takes in a buffer. *)

\* f[i] is what is selected of the first i names.
Selects(f, s, wanted) ==
  /\ f \in [0 .. Len(s) -> Seq(Name)] /\ f[0] = <<>> /\ Filtered(s, wanted) = f[Len(s)]
  /\ \A i \in 1 .. Len(s) :
       f[i] = IF s[i] \in wanted THEN Append(f[i - 1], s[i]) ELSE f[i - 1]

LEMMA SelectsOneByOne ==
  ASSUME NEW s \in Seq(Name), NEW wanted
  PROVE  \E f : Selects(f, s, wanted)
<1> PICK n \in Nat : n = Len(s)
  OBVIOUS
<1>0. \A i \in 1 .. n : s[i] \in Name
  OBVIOUS
<1>1. PICK step : step = [i \in 1 .. n |-> [t \in Seq(Name) |->
                            IF s[i] \in wanted THEN Append(t, s[i]) ELSE t]]
  OBVIOUS
<1>2. Steps(step, n, Seq(Name))
  BY <1>0, <1>1 DEF Steps
<1>3. PICK f : Iterates(f, <<>>, step, n, Seq(Name))
  <2>1. <<>> \in Seq(Name)
    OBVIOUS
  <2> QED
    BY <1>2, <2>1, Recursion
<1>4. f \in [0 .. n -> Seq(Name)] /\ f[0] = <<>>
  BY <1>3 DEF Iterates
<1>5. \A i \in 1 .. n :
        f[i] = IF s[i] \in wanted THEN Append(f[i - 1], s[i]) ELSE f[i - 1]
  <2> SUFFICES ASSUME NEW i \in 1 .. n
               PROVE  f[i] = IF s[i] \in wanted THEN Append(f[i - 1], s[i]) ELSE f[i - 1]
    OBVIOUS
  <2>1. f[i - 1] \in Seq(Name)
    BY <1>4
  <2>2. f[i] = step[i][f[i - 1]]
    BY <1>3 DEF Iterates
  <2> QED
    BY <1>1, <2>1, <2>2
<1> DEFINE Chosen(g) ==
      g = [i \in 0 .. Len(s) |->
             IF i = 0 THEN <<>>
             ELSE IF s[i] \in wanted THEN Append(g[i - 1], s[i]) ELSE g[i - 1]]
<1>6. Chosen(f)
  <2>1. \A i \in 0 .. n : i # 0 => i \in 1 .. n
    OBVIOUS
  <2>2. \A i \in 0 .. n :
          f[i] = IF i = 0 THEN <<>>
                 ELSE IF s[i] \in wanted THEN Append(f[i - 1], s[i]) ELSE f[i - 1]
    BY <1>4, <1>5, <2>1
  <2> QED
    BY <1>4, <2>2
<1>7. Filtered(s, wanted) = (CHOOSE g : Chosen(g))[Len(s)]
  BY DEF Filtered
<1>8. PICK h : Chosen(h) /\ Filtered(s, wanted) = h[n]
  <2> HIDE DEF Chosen
  <2> QED
    BY <1>6, <1>7
<1>9. h[0] = <<>>
  BY <1>8
<1>10. \A i \in 1 .. n :
        h[i] = IF s[i] \in wanted THEN Append(h[i - 1], s[i]) ELSE h[i - 1]
  <2>1. \A i \in 1 .. n : i \in 0 .. Len(s) /\ i # 0
    OBVIOUS
  <2> QED
    BY <1>8, <2>1
<1>11. h[n] = f[n]
  <2>1. PICK T : T = {i \in 0 .. n : h[i] = f[i]}
    OBVIOUS
  <2>2. 0 \in T /\ \A i \in 1 .. n : i - 1 \in T => i \in T
    BY <1>4, <1>5, <1>9, <1>10, <2>1
  <2>3. \A i \in 0 .. n : i \in T
    BY <2>2, Induction
  <2> QED
    BY <2>1, <2>3
<1> QED
  BY <1>4, <1>5, <1>8, <1>11 DEF Selects

\* A selection is of the names of the list, once each if they are there once.
LEMMA FilteredSeq ==
  ASSUME NEW s \in Seq(Name), NEW wanted
  PROVE  /\ Filtered(s, wanted) \in Seq(Name) /\ Len(Filtered(s, wanted)) <= Len(s)
         /\ IsInjective(s) => IsInjective(Filtered(s, wanted))
<1>1. PICK n \in Nat : n = Len(s)
  OBVIOUS
<1>2. PICK f : Selects(f, s, wanted)
  BY SelectsOneByOne
<1>3. /\ f \in [0 .. n -> Seq(Name)] /\ f[0] = <<>> /\ Filtered(s, wanted) = f[n]
      /\ \A i \in 1 .. n :
           f[i] = IF s[i] \in wanted THEN Append(f[i - 1], s[i]) ELSE f[i - 1]
  BY <1>1, <1>2 DEF Selects
<1> DEFINE Part(i) ==
      /\ Len(f[i]) <= i
      /\ \A k \in DOMAIN f[i] : \E j \in 1 .. i : f[i][k] = s[j]
      /\ IsInjective(s) => IsInjective(f[i])
<1>4. Part(0)
  BY <1>3 DEF IsInjective
<1>5. ASSUME NEW i \in 1 .. n, Part(i - 1) PROVE Part(i)
  <2>1. PICK t \in Seq(Name) : t = f[i - 1]
    BY <1>3
  <2>2. /\ Len(t) <= i - 1 /\ s[i] \in Name
        /\ \A k \in DOMAIN t : \E j \in 1 .. i - 1 : t[k] = s[j]
        /\ IsInjective(s) => IsInjective(t)
    BY <1>1, <1>5, <2>1
  <2>3. CASE s[i] \notin wanted
    <3>1. f[i] = t
      BY <1>3, <2>1, <2>3
    <3>2. \A j \in 1 .. i - 1 : j \in 1 .. i
      OBVIOUS
    <3> QED
      BY <2>2, <3>1, <3>2
  <2>4. CASE s[i] \in wanted
    <3>1. f[i] = Append(t, s[i])
      BY <1>3, <2>1, <2>4
    <3>2. PICK u : u = Append(t, s[i])
      OBVIOUS
    <3>3. /\ u \in Seq(Name) /\ Len(u) = Len(t) + 1
          /\ \A k \in 1 .. Len(t) : u[k] = t[k]
          /\ u[Len(u)] = s[i]
      BY <2>2, <3>2
    <3>4. \A k \in DOMAIN u : k \in DOMAIN t \/ k = Len(u)
      BY <3>3
    <3>5. \A k \in DOMAIN u : \E j \in 1 .. i : u[k] = s[j]
      <4>1. i \in 1 .. i /\ \A j \in 1 .. i - 1 : j \in 1 .. i
        OBVIOUS
      <4>2. \A k \in DOMAIN t : \E j \in 1 .. i : t[k] = s[j]
        BY <2>2, <4>1
      <4>3. \A k \in DOMAIN t : u[k] = t[k]
        BY <3>3
      <4> QED
        BY <3>3, <3>4, <4>1, <4>2, <4>3
    <3>6. ASSUME IsInjective(s) PROVE IsInjective(u)
      <4>1. \A j \in 1 .. i - 1 : s[j] # s[i]
        <5>1. \A j \in 1 .. i - 1 : j \in DOMAIN s /\ i \in DOMAIN s /\ j # i
          BY <1>1
        <5> QED
          BY <3>6, <5>1 DEF IsInjective
      <4>2. \A k \in DOMAIN t : u[k] = t[k] /\ u[k] # s[i]
        <5>1. \A k \in DOMAIN t : u[k] = t[k]
          BY <3>3
        <5>2. \A k \in DOMAIN t : t[k] # s[i]
          BY <2>2, <4>1, Zenon
        <5> QED
          BY <5>1, <5>2, Zenon
      <4>3. \A k, l \in DOMAIN t : t[k] = t[l] => k = l
        BY <2>2, <3>6 DEF IsInjective
      <4> QED
        BY <3>3, <3>4, <4>2, <4>3 DEF IsInjective
    <3> QED
      BY <2>2, <3>1, <3>2, <3>3, <3>5, <3>6
  <2> QED
    BY <2>3, <2>4
<1> HIDE DEF Part
<1>6. PICK T : T = {i \in 0 .. n : Part(i)}
  OBVIOUS
<1>7. 0 \in T /\ \A i \in 1 .. n : i - 1 \in T => i \in T
  BY <1>4, <1>5, <1>6
<1>8. \A i \in 0 .. n : i \in T
  BY <1>7, Induction
<1>9. Part(n)
  BY <1>6, <1>8
<1> QED
  BY <1>1, <1>3, <1>9 DEF Part

\* A filter that selects everything gives the list.
LEMMA FilteredAll ==
  ASSUME NEW s \in Seq(Name)
  PROVE  Filtered(s, Name) = s
<1>1. PICK n \in Nat : n = Len(s)
  OBVIOUS
<1>2. PICK f : Selects(f, s, Name)
  BY SelectsOneByOne
<1>3. /\ f \in [0 .. n -> Seq(Name)] /\ f[0] = <<>> /\ Filtered(s, Name) = f[n]
      /\ \A i \in 1 .. n :
           f[i] = IF s[i] \in Name THEN Append(f[i - 1], s[i]) ELSE f[i - 1]
  BY <1>1, <1>2 DEF Selects
<1> DEFINE Part(i) == Len(f[i]) = i /\ \A k \in 1 .. i : f[i][k] = s[k]
<1>4. Part(0)
  BY <1>3
<1>5. ASSUME NEW i \in 1 .. n, Part(i - 1) PROVE Part(i)
  <2>1. PICK t \in Seq(Name) : t = f[i - 1]
    BY <1>3
  <2>2. s[i] \in Name /\ Len(t) = i - 1 /\ \A k \in 1 .. i - 1 : t[k] = s[k]
    BY <1>1, <1>5, <2>1
  <2>3. f[i] = Append(t, s[i])
    BY <1>3, <2>1, <2>2
  <2> QED
    BY <2>2, <2>3
<1> HIDE DEF Part
<1>6. PICK T : T = {i \in 0 .. n : Part(i)}
  OBVIOUS
<1>7. 0 \in T /\ \A i \in 1 .. n : i - 1 \in T => i \in T
  BY <1>4, <1>5, <1>6
<1>8. \A i \in 0 .. n : i \in T
  BY <1>7, Induction
<1>9. Part(n)
  BY <1>6, <1>8
<1>10. f[n] \in Seq(Name) /\ Len(f[n]) = Len(s) /\ \A k \in 1 .. Len(s) : f[n][k] = s[k]
  BY <1>1, <1>3, <1>9 DEF Part
<1>11. f[n] = s
  BY <1>10
<1> QED
  BY <1>3, <1>11

\* Only an empty list takes nothing.
LEMMA TotalPositive ==
  ASSUME NEW s \in Seq(Name)
  PROVE  Total(s) \in Nat /\ (Total(s) = 0 <=> s = <<>>)
<1>1. PICK n \in Nat : n = Len(s)
  OBVIOUS
<1>2. \A i \in 1 .. n : Size[s[i]] \in Nat /\ Size[s[i]] > 0
  <2>1. \A i \in 1 .. n : s[i] \in Name
    BY <1>1
  <2>2. \A name \in Name : Size[name] \in Nat /\ Size[name] > 0
    BY SizeAssumption
  <2> QED
    BY <2>1, <2>2
<1>3. PICK step : step = [i \in 1 .. n |-> [sum \in Nat |-> sum + Size[s[i]]]]
  OBVIOUS
<1>4. Steps(step, n, Nat)
  <2>1. \A i \in 1 .. n : [sum \in Nat |-> sum + Size[s[i]]] \in [Nat -> Nat]
    BY <1>2
  <2> QED
    BY <1>3, <2>1 DEF Steps
<1>5. PICK f : Iterates(f, 0, step, n, Nat)
  BY <1>4, Recursion
<1>6. f \in [0 .. n -> Nat] /\ f[0] = 0
  BY <1>5 DEF Iterates
<1>7. \A i \in 1 .. n : f[i] = f[i - 1] + Size[s[i]]
  <2> SUFFICES ASSUME NEW i \in 1 .. n PROVE f[i] = f[i - 1] + Size[s[i]]
    OBVIOUS
  <2>1. f[i - 1] \in Nat
    BY <1>6
  <2>2. f[i] = step[i][f[i - 1]]
    BY <1>5 DEF Iterates
  <2> QED
    BY <1>3, <2>1, <2>2
<1> DEFINE Sum(g) == g = [i \in 0 .. Len(s) |-> IF i = 0 THEN 0 ELSE g[i - 1] + Size[s[i]]]
<1>8. Sum(f)
  BY <1>1, <1>6, <1>7
<1>9. Total(s) = (CHOOSE g : Sum(g))[Len(s)]
  BY DEF Total
<1>10. PICK h : Sum(h) /\ Total(s) = h[n]
  <2> HIDE DEF Sum
  <2> QED
    BY <1>1, <1>8, <1>9
<1>11. h[0] = 0 /\ \A i \in 1 .. n : h[i] = h[i - 1] + Size[s[i]]
  <2>1. \A i \in 1 .. n : i \in 0 .. Len(s) /\ i # 0
    BY <1>1
  <2> QED
    BY <1>1, <1>10, <2>1
<1> DEFINE Part(i) == h[i] \in Nat /\ (h[i] = 0 <=> i = 0)
<1>12. Part(0)
  BY <1>11
<1>13. ASSUME NEW i \in 1 .. n, Part(i - 1) PROVE Part(i)
  <2>1. h[i - 1] \in Nat
    BY <1>13
  <2>2. h[i] = h[i - 1] + Size[s[i]] /\ Size[s[i]] \in Nat /\ Size[s[i]] > 0
    BY <1>2, <1>11
  <2> QED
    BY <2>1, <2>2
<1> HIDE DEF Part, Sum
<1>14. PICK T : T = {i \in 0 .. n : Part(i)}
  OBVIOUS
<1>15. 0 \in T /\ \A i \in 1 .. n : i - 1 \in T => i \in T
  BY <1>12, <1>13, <1>14
<1>16. \A i \in 0 .. n : i \in T
  BY <1>15, Induction
<1>17. Part(n)
  BY <1>14, <1>16
<1>18. n = 0 <=> s = <<>>
  BY <1>1
<1> QED
  BY <1>10, <1>17, <1>18 DEF Part

-----------------------------------------------------------------------------
(* The invariant of the list. *)

\* Only a reset of the services asks for less than everything.
AllWanted ==
  pc \notin Ended /\ (class = "NetCardInfo" \/ call.op = "DumpInfo") => call.wanted = Name

Phases ==
  /\ pc \in {"open", "page"} => class = "ServicesInfo"
  /\ pc \in {"adapters", "again"} => class = "NetCardInfo"

\* What there is to read is on offer, and nothing has been read before the pages.
Started ==
  pc \notin Ended =>
    /\ whole = Unknown /\ ToSet(Here) \subseteq offered
    /\ pc # "page" => list = <<>> /\ call.next = 0

\* The list is what lies before the resume point, if nothing has changed since
\* the first page; the second call for the adapters has room for them.
ReadSoFar ==
  ~disturbed =>
    /\ pc = "page" => call.next <= Len(Here) /\ list = SubSeq(Here, 1, call.next)
    /\ pc = "again" => call.room = Len(Here)

ListInv ==
  /\ TypeOK /\ AllWanted /\ Phases /\ Started /\ ReadSoFar
  /\ ListIsWhole /\ NothingStale

-----------------------------------------------------------------------------
(* The shapes of steps. *)

LEMMA Typing ==
  ASSUME TypeOK
  PROVE  /\ source \in Lists /\ source \in Seq(Name)
         /\ call \in Locals /\ Here \in Seq(Name)
<1>1. Lists \subseteq Seq(Name)
  BY SizeAssumption DEF Lists, BoundedSeq, SeqOf
<1>2. source \in Lists /\ source \in Seq(Name) /\ call \in Locals
  BY <1>1 DEF TypeOK
<1> QED
  BY <1>2, FilteredSeq DEF Here, Selected

LEMMA IdleLocals ==
  ASSUME NEW result \in Seq(Name)
  PROVE  Idle \in Locals /\ [Idle EXCEPT !.result = result] \in Locals
<1>1. <<>> \in Seq(Name)
  OBVIOUS
<1> QED
  BY <1>1 DEF Idle, Locals, Op

\* What is selected of a list is a list.
LEMMA FilteredLists ==
  ASSUME NEW s \in Lists, NEW wanted
  PROVE  Filtered(s, wanted) \in Lists /\ ToSet(Filtered(s, wanted)) \subseteq Name
<1>1. PICK n \in 0 .. MaxEntries : s \in [1 .. n -> Name]
  BY DEF Lists, BoundedSeq, SeqOf
<1>2. s \in Seq(Name) /\ Len(s) <= MaxEntries /\ IsInjective(s)
  BY <1>1, SizeAssumption DEF Lists
<1>3. PICK t : t = Filtered(s, wanted)
  OBVIOUS
<1>4. t \in Seq(Name) /\ Len(t) <= MaxEntries /\ IsInjective(t)
  BY <1>2, <1>3, FilteredSeq, SizeAssumption
<1>5. Len(t) \in 0 .. MaxEntries /\ t \in [1 .. Len(t) -> Name]
  BY <1>4, SizeAssumption
<1>6. t \in BoundedSeq(Name, MaxEntries)
  BY <1>5 DEF BoundedSeq, SeqOf
<1> QED
  BY <1>3, <1>4, <1>5, <1>6 DEF Lists, ToSet

\* An Init begins, with a list that is empty.
LEMMA StartsInv ==
  ASSUME class' = class, class \in Class, source' \in Lists, NEW locals \in Locals,
         class = "NetCardInfo" \/ locals.op = "DumpInfo" => locals.wanted = Name,
         StartInit(locals, source'), list' = <<>>, built' \in BOOLEAN, denied' \in BOOLEAN,
         writes' \in 0 .. MaxWrites, handles' \in Nat, broken' \in Nat
  PROVE  ListInv'
<1>1. /\ pc' = IF class = "ServicesInfo" THEN "open" ELSE "adapters"
      /\ disturbed' = FALSE /\ whole' = Unknown /\ offered' = ToSet(Selected(source', locals))
  BY DEF StartInit
<1>2. /\ call' \in Locals /\ call'.op = locals.op /\ call'.wanted = locals.wanted
      /\ call'.building = locals.building /\ call'.next = 0
  BY SizeAssumption DEF StartInit, Locals
<1>3. Here' = Selected(source', locals)
  BY <1>2 DEF Here, Selected
<1>4. offered' \subseteq Name
  BY <1>1, FilteredLists DEF Selected
<1>5. list' \in Seq(Name) /\ ToSet(list') = {}
  BY DEF ToSet
<1>6. TypeOK'
  BY <1>1, <1>2, <1>4, <1>5 DEF TypeOK, Ended
<1>7. AllWanted' /\ Phases'
  BY <1>1, <1>2 DEF AllWanted, Phases, Class
<1>8. Started' /\ ReadSoFar'
  BY <1>1, <1>2, <1>3 DEF Started, ReadSoFar
<1>9. ListIsWhole' /\ NothingStale'
  BY <1>1, <1>5 DEF ListIsWhole, NothingStale
<1> QED
  BY <1>6, <1>7, <1>8, <1>9 DEF ListInv

\* Init returns with what it has read: all of what there is, unless something
\* has changed.
LEMMA ReturnsInv ==
  ASSUME ListInv, pc \notin Ended, UNCHANGED system, handles' \in Nat, broken' \in Nat,
         NEW filled \in Seq(Name), ToSet(filled) \subseteq offered,
         ~disturbed => filled = Here, InitReturns(filled)
  PROVE  ListInv'
<1>1. /\ class' = class /\ class \in Class /\ source' = source /\ source \in Lists
      /\ denied' = denied /\ denied \in BOOLEAN /\ writes' \in 0 .. MaxWrites
      /\ call \in Locals /\ offered \subseteq Name /\ disturbed \in BOOLEAN
  BY DEF ListInv, TypeOK, system
<1>2. CASE call.building /\ call.op # "DumpInfo"
  <2>1. PICK locals : locals = [call EXCEPT !.building = FALSE]
    OBVIOUS
  <2>2. locals \in Locals /\ locals.op = call.op /\ locals.wanted = call.wanted
    BY <1>1, <2>1 DEF Locals
  <2>3. StartInit(locals, source') /\ list' = <<>> /\ built' = TRUE
    BY <1>1, <1>2, <2>1 DEF InitReturns, Clear
  <2>4. class = "NetCardInfo" \/ locals.op = "DumpInfo" => locals.wanted = Name
    BY <2>2 DEF ListInv, AllWanted
  <2> QED
    BY <1>1, <2>2, <2>3, <2>4, StartsInv
<1>3. CASE ~(call.building /\ call.op # "DumpInfo")
  <2>1. /\ pc' = "returned" /\ list' = filled /\ built' = TRUE
        /\ disturbed' = disturbed /\ offered' = offered
        /\ whole' = IF disturbed THEN Unknown ELSE Filtered(source, call.wanted)
        /\ call' = [Idle EXCEPT !.result = IF call.op = "Reset" THEN <<>> ELSE filled]
    BY <1>3 DEF InitReturns, InitEnds, Return
  <2>2. call' \in Locals /\ call'.result \in {<<>>, filled}
    <3>1. PICK result : result = IF call.op = "Reset" THEN <<>> ELSE filled
      OBVIOUS
    <3>2. result \in Seq(Name) /\ result \in {<<>>, filled}
      BY <3>1
    <3>3. call' = [Idle EXCEPT !.result = result]
      BY <2>1, <3>1
    <3> QED
      BY <3>2, <3>3, IdleLocals DEF Idle
  <2>3. whole' = Unknown \/ whole' \in Lists
    BY <1>1, <2>1, FilteredLists
  <2>4. TypeOK'
    BY <1>1, <2>1, <2>2, <2>3 DEF TypeOK, Ended
  <2>5. AllWanted' /\ Phases' /\ Started' /\ ReadSoFar'
    BY <2>1 DEF AllWanted, Phases, Started, ReadSoFar, Ended
  <2>6. ~disturbed => whole' = filled
    <3>1. call.building => call.wanted = Name
      BY <1>3 DEF ListInv, AllWanted
    <3> QED
      BY <2>1, <3>1 DEF Here, Selected
  <2>7. ListIsWhole' /\ NothingStale'
    BY <2>1, <2>2, <2>6 DEF ListIsWhole, NothingStale
  <2> QED
    BY <2>4, <2>5, <2>7 DEF ListInv
<1> QED
  BY <1>2, <1>3

\* An exception leaves the list with what has been read, or there is none.
LEMMA ThrowsListInv ==
  ASSUME ListInv, pc \notin Ended, UNCHANGED system, handles' \in Nat, broken' \in Nat,
         InitThrows, disturbed' \in BOOLEAN,
         ~disturbed' => IF class = "ServicesInfo" THEN denied ELSE source = <<>>
  PROVE  ListInv'
<1>1. /\ pc' = "threw" /\ call' = Idle /\ list' = IF built THEN list ELSE <<>>
      /\ UNCHANGED <<built, offered, whole>>
  BY DEF InitThrows
<1>2. /\ UNCHANGED <<class, source, denied, writes>>
      /\ TypeOK /\ whole = Unknown /\ ToSet(list) \subseteq offered
  BY DEF system, ListInv, Started, NothingStale
<1>3. list' \in Seq(Name) /\ ToSet(list') \subseteq offered
  <2>1. <<>> \in Seq(Name) /\ ToSet(<<>>) = {}
    BY DEF ToSet
  <2> QED
    BY <1>1, <1>2, <2>1 DEF TypeOK
<1>4. call' \in Locals
  <2>1. <<>> \in Seq(Name)
    OBVIOUS
  <2> QED
    BY <1>1, <2>1, IdleLocals
<1>5. TypeOK'
  BY <1>1, <1>2, <1>3, <1>4 DEF TypeOK, Ended
<1>6. AllWanted' /\ Phases' /\ Started' /\ ReadSoFar'
  BY <1>1 DEF AllWanted, Phases, Started, ReadSoFar, Ended
<1>7. ListIsWhole' /\ NothingStale'
  BY <1>1, <1>2, <1>3 DEF ListIsWhole, NothingStale
<1> QED
  BY <1>5, <1>6, <1>7 DEF ListInv

-----------------------------------------------------------------------------
(* The pages. *)

\* A page is a part of what is left, from its start.
LEMMA PageFits ==
  ASSUME NEW left \in Seq(Name), call.room \in Nat
  PROVE  \E m \in 0 .. Len(left) : NamesFit(left) = SubSeq(left, 1, m)
<1>1. PICK n \in Nat : n = Len(left)
  OBVIOUS
<1>2. PICK T : T = {k \in 0 .. n : Total(SubSeq(left, 1, k)) <= call.room}
  OBVIOUS
<1>3. 0 \in T
  <2>1. SubSeq(left, 1, 0) = <<>>
    OBVIOUS
  <2>2. <<>> \in Seq(Name)
    OBVIOUS
  <2>3. Total(<<>>) = 0
    BY <2>2, TotalPositive
  <2>4. 0 \in 0 .. n /\ 0 <= call.room
    OBVIOUS
  <2>5. Total(SubSeq(left, 1, 0)) <= call.room
    BY <2>1, <2>3, <2>4
  <2> QED
    BY <1>2, <2>4, <2>5
<1>4. T \in SUBSET (0 .. n) /\ T # {}
  BY <1>2, <1>3
<1>5. Max(T) \in T
  BY <1>4, MaxFound
<1>6. NamesFit(left) = SubSeq(left, 1, Max(T))
  BY <1>1, <1>2 DEF NamesFit
<1> QED
  BY <1>1, <1>4, <1>5, <1>6

LEMMA GrownNat ==
  ASSUME NEW needed \in Nat, call.room \in Nat
  PROVE  Grown(needed) \in Nat
<1>1. PICK T : T = {call.room, needed}
  OBVIOUS
<1>2. PICK n \in Nat : n = call.room + needed
  OBVIOUS
<1>3. T \in SUBSET (0 .. n) /\ T # {}
  BY <1>1, <1>2
<1>4. Max(T) \in T
  BY <1>3, MaxFound
<1> QED
  BY <1>1, <1>3, <1>4 DEF Grown

\* A part of a list holds nothing else.
LEMMA PartOf ==
  ASSUME NEW s \in Seq(Name), NEW i \in Nat \ {0}, NEW j \in 0 .. Len(s)
  PROVE  /\ SubSeq(s, i, j) \in Seq(Name)
         /\ ToSet(SubSeq(s, i, j)) \subseteq ToSet(s)
         /\ Len(SubSeq(s, i, j)) = IF i <= j THEN j - i + 1 ELSE 0
         /\ \A k \in 1 .. j - i + 1 : SubSeq(s, i, j)[k] = s[i + k - 1]
<1>1. CASE i <= j
  <2>1. PICK t : t = SubSeq(s, i, j)
    OBVIOUS
  <2>2. PICK n \in Nat : n = Len(s)
    OBVIOUS
  <2>3. \A k \in i .. j : s[k] \in Name
    BY <2>2
  <2>4. /\ t \in Seq(Name) /\ Len(t) = j - i + 1
        /\ \A k \in 1 .. j - i + 1 : t[k] = s[i + k - 1]
    BY <1>1, <2>1, <2>3, SubSeqProperties
  <2>5. \A k \in DOMAIN t : i + k - 1 \in DOMAIN s
    BY <2>4, <2>2
  <2>6. ToSet(t) \subseteq ToSet(s)
    BY <2>4, <2>5 DEF ToSet
  <2> QED
    BY <1>1, <2>1, <2>4, <2>6
<1>2. CASE ~(i <= j)
  <2>1. SubSeq(s, i, j) = <<>>
    BY <1>2
  <2>2. <<>> \in Seq(Name) /\ Len(<<>>) = 0 /\ ToSet(<<>>) = {}
    BY DEF ToSet
  <2>3. \A k \in 1 .. j - i + 1 : FALSE
    BY <1>2
  <2> QED
    BY <1>2, <2>1, <2>2, <2>3
<1> QED
  BY <1>1, <1>2

\* What has been read and the next page are again what lies before a point.
LEMMA PageJoins ==
  ASSUME NEW s \in Seq(Name), NEW i \in 0 .. Len(s), NEW m \in 0 .. Len(s) - i
  PROVE  SubSeq(s, 1, i) \o SubSeq(SubSeq(s, i + 1, Len(s)), 1, m) = SubSeq(s, 1, i + m)
<1>1. PICK n \in Nat : n = Len(s)
  OBVIOUS
<1>2. PICK head : head = SubSeq(s, 1, i)
  OBVIOUS
<1>3. head \in Seq(Name) /\ Len(head) = i /\ \A k \in 1 .. i : head[k] = s[k]
  BY <1>1, <1>2, PartOf
<1>4. PICK left : left = SubSeq(s, i + 1, Len(s))
  OBVIOUS
<1>5. left \in Seq(Name) /\ Len(left) = n - i /\ \A k \in 1 .. n - i : left[k] = s[i + k]
  BY <1>1, <1>4, PartOf
<1>6. PICK page : page = SubSeq(left, 1, m)
  OBVIOUS
<1>7. page \in Seq(Name) /\ Len(page) = m /\ \A k \in 1 .. m : page[k] = left[k]
  BY <1>1, <1>5, <1>6, PartOf
<1>8. PICK t : t = SubSeq(s, 1, i + m)
  OBVIOUS
<1>9. t \in Seq(Name) /\ Len(t) = i + m /\ \A k \in 1 .. i + m : t[k] = s[k]
  BY <1>1, <1>8, PartOf
<1>10. PICK joined : joined = head \o page
  OBVIOUS
<1>11. /\ joined \in Seq(Name) /\ Len(joined) = i + m
       /\ \A k \in 1 .. i + m : joined[k] = IF k <= i THEN head[k] ELSE page[k - i]
  <2>1. head \in Seq(Name) /\ page \in Seq(Name) /\ Len(head) = i /\ Len(page) = m
    BY <1>3, <1>7
  <2>2. joined \in Seq(Name) /\ Len(joined) = i + m
    BY <1>10, <2>1, ConcatProperties
  <2>3. \A k \in 1 .. i + m : joined[k] = IF k <= i THEN head[k] ELSE page[k - i]
    BY <1>10, <2>1, ConcatProperties
  <2> QED
    BY <2>2, <2>3
<1>12. \A k \in 1 .. i + m : joined[k] = t[k]
  <2> SUFFICES ASSUME NEW k \in 1 .. i + m PROVE joined[k] = s[k]
    BY <1>9
  <2>1. CASE k <= i
    BY <1>3, <1>11, <2>1
  <2>2. CASE ~(k <= i)
    <3>1. k - i \in 1 .. m /\ k - i \in 1 .. n - i /\ i + (k - i) = k
      BY <1>1, <2>2
    <3> QED
      BY <1>5, <1>7, <1>11, <2>2, <3>1
  <2> QED
    BY <2>1, <2>2
<1>13. joined = t
  BY <1>9, <1>11, <1>12
<1> QED
  BY <1>2, <1>4, <1>6, <1>8, <1>10, <1>13

-----------------------------------------------------------------------------
(* The steps keep the invariant of the list. *)

LEMMA HandlesNat ==
  ASSUME IInv'
  PROVE  handles' \in Nat /\ broken' \in Nat
<1>1. broken' \in Nat
  BY DEF IInv
<1>2. handles' = broken' + IF pc' = "page" THEN 1 ELSE 0
  BY DEF IInv, HandlesAccounted
<1>3. PICK n \in Nat : n = broken'
  BY <1>1
<1>4. handles' = n + 0 \/ handles' = n + 1
  BY <1>2, <1>3, Zenon
<1>5. n + 0 \in Nat /\ n + 1 \in Nat
  OBVIOUS
<1>6. handles' \in Nat
  BY <1>4, <1>5, Zenon
<1> QED
  BY <1>1, <1>6

LEMMA BeginListInv ==
  ASSUME ListInv, IInv, IInv', NEW op \in Op, Begin(op)
  PROVE  ListInv'
<1>1. /\ pc = "idle" /\ UNCHANGED <<class, writes, built, handles, broken>>
      /\ source' \in Lists /\ denied' \in BOOLEAN /\ TypeOK
  BY DEF Begin, ListInv
<1>2. handles' \in Nat /\ broken' \in Nat
  BY <1>1 DEF TypeOK
<1>3. PICK wanted \in IF class = "ServicesInfo" /\ op # "DumpInfo" THEN Filters ELSE {Name} :
        IF built /\ op = "DumpInfo"
        THEN Return(op, list) /\ UNCHANGED <<list, history>>
        ELSE /\ StartInit([Idle EXCEPT !.op = op, !.wanted = wanted, !.building = ~built],
                          source')
             /\ Clear
  BY DEF Begin
<1>4. CASE built /\ op = "DumpInfo"
  <2>1. /\ pc' = "returned" /\ call' = [Idle EXCEPT !.result = list]
        /\ UNCHANGED <<list, disturbed, offered, whole>>
    BY <1>3, <1>4 DEF Return, history
  <2>2. list \in Seq(Name) /\ list' \in Seq(Name)
    BY <1>1, <2>1 DEF TypeOK
  <2>3. call' \in Locals
    BY <2>1, <2>2, IdleLocals
  <2>4. call'.result = list
    BY <2>1 DEF Idle
  <2>5. TypeOK'
    BY <1>1, <1>2, <2>1, <2>2, <2>3 DEF TypeOK, Ended
  <2>6. AllWanted' /\ Phases' /\ Started' /\ ReadSoFar'
    BY <2>1 DEF AllWanted, Phases, Started, ReadSoFar, Ended
  <2>7. ListIsWhole' /\ NothingStale'
    BY <1>1, <1>4, <2>1, <2>4 DEF ListInv, ListIsWhole, NothingStale
  <2> QED
    BY <2>5, <2>6, <2>7 DEF ListInv
<1>5. CASE ~(built /\ op = "DumpInfo")
  <2>1. PICK locals :
          locals = [Idle EXCEPT !.op = op, !.wanted = wanted, !.building = ~built]
    OBVIOUS
  <2>2. wanted \in SUBSET Name
    BY <1>3, FilterAssumption
  <2>3. Idle \in Locals
    <3>1. <<>> \in Seq(Name)
      OBVIOUS
    <3> QED
      BY <3>1, IdleLocals
  <2>4. locals \in Locals /\ locals.op = op /\ locals.wanted = wanted
    BY <1>1, <2>1, <2>2, <2>3 DEF Locals, TypeOK, Idle
  <2>5. class = "NetCardInfo" \/ locals.op = "DumpInfo" => locals.wanted = Name
    BY <1>3, <2>4
  <2>6. StartInit(locals, source') /\ list' = <<>>
    BY <1>3, <1>5, <2>1 DEF Clear
  <2>7. class' = class /\ class \in Class /\ built' \in BOOLEAN /\ writes' \in 0 .. MaxWrites
    BY <1>1 DEF TypeOK
  <2> QED
    BY <1>1, <1>2, <2>4, <2>5, <2>6, <2>7, StartsInv
<1> QED
  BY <1>4, <1>5

LEMMA FinishListInv ==
  ASSUME ListInv, Finish
  PROVE  ListInv'
<1>1. /\ pc' = "idle" /\ call' = Idle /\ writes' = 0 /\ TypeOK
      /\ UNCHANGED <<class, source, denied, built, list, handles, broken>>
      /\ UNCHANGED <<disturbed, offered, whole>>
  BY DEF Finish, instance, history, ListInv
<1>2. call' \in Locals
  <2>1. <<>> \in Seq(Name)
    OBVIOUS
  <2> QED
    BY <1>1, <2>1, IdleLocals
<1>3. writes' \in 0 .. MaxWrites
  BY <1>1, SizeAssumption
<1>4. TypeOK'
  BY <1>1, <1>2, <1>3 DEF TypeOK, Ended
<1>5. AllWanted' /\ Phases' /\ Started' /\ ReadSoFar'
  BY <1>1 DEF AllWanted, Phases, Started, ReadSoFar, Ended
<1>6. ListIsWhole' /\ NothingStale'
  BY <1>1 DEF ListInv, ListIsWhole, NothingStale
<1> QED
  BY <1>4, <1>5, <1>6 DEF ListInv

\* Opening the manager reads nothing yet.
LEMMA OpenListInv ==
  ASSUME ListInv, IInv, IInv', OpenManager
  PROVE  ListInv'
<1>1. /\ pc = "open" /\ pc' = "page" /\ pc \notin Ended
      /\ UNCHANGED <<class, source, denied, writes, built, list, call, broken>>
      /\ UNCHANGED <<disturbed, offered, whole>>
  BY DEF OpenManager, system, instance, history, Ended
<1>2. handles' \in Nat /\ TypeOK
  BY HandlesNat DEF ListInv
<1>3. TypeOK'
  BY <1>1, <1>2 DEF TypeOK
<1>4. Here' = Here
  BY <1>1 DEF Here, Selected
<1>5. list = <<>> /\ call.next = 0 /\ whole = Unknown /\ ToSet(Here) \subseteq offered
  BY <1>1 DEF ListInv, Started
<1>6. AllWanted' /\ Phases'
  BY <1>1 DEF ListInv, AllWanted, Phases
<1>7. Started'
  BY <1>1, <1>4, <1>5 DEF Started
<1>8. ReadSoFar'
  <2>1. Here \in Seq(Name) /\ 0 <= Len(Here)
    BY <1>2, Typing
  <2>2. SubSeq(Here, 1, 0) = <<>>
    BY <2>1
  <2> QED
    BY <1>1, <1>4, <1>5, <2>1, <2>2 DEF ReadSoFar
<1>9. ListIsWhole' /\ NothingStale'
  BY <1>1, <1>5 DEF ListInv, ListIsWhole, NothingStale
<1> QED
  BY <1>3, <1>6, <1>7, <1>8, <1>9 DEF ListInv

\* One page more is read.
LEMMA PageListInv ==
  ASSUME ListInv, IInv, IInv', EnumServices
  PROVE  ListInv'
<1>1. /\ pc = "page" /\ pc \notin Ended /\ UNCHANGED system /\ broken' = broken
      /\ TypeOK /\ list \in Seq(Name) /\ ToSet(list) \subseteq offered
      /\ whole = Unknown /\ ToSet(Here) \subseteq offered
  BY DEF EnumServices, ListInv, TypeOK, Started, NothingStale, Ended
<1>2. handles' \in Nat /\ broken' \in Nat
  BY HandlesNat
<1>3. /\ Here \in Seq(Name) /\ call \in Locals
      /\ call.next \in Nat /\ call.room \in Nat
  BY <1>1, Typing DEF Locals
<1>4. PICK n \in Nat : n = Len(Here)
  BY <1>3
<1>5. PICK left : left = SubSeq(Here, call.next + 1, Len(Here))
  OBVIOUS
<1>6. /\ left \in Seq(Name) /\ ToSet(left) \subseteq ToSet(Here)
      /\ call.next <= n => Len(left) = n - call.next
  <2>1. call.next + 1 \in Nat \ {0} /\ Len(Here) \in 0 .. Len(Here)
    BY <1>3, <1>4
  <2>2. /\ left \in Seq(Name) /\ ToSet(left) \subseteq ToSet(Here)
        /\ Len(left) = IF call.next + 1 <= n THEN n - (call.next + 1) + 1 ELSE 0
    BY <1>3, <1>4, <1>5, <2>1, PartOf
  <2> QED
    BY <1>3, <2>2
<1>7. PICK m \in 0 .. Len(left) : NamesFit(left) = SubSeq(left, 1, m)
  BY <1>3, <1>6, PageFits
<1>8. PICK page : page = NamesFit(left)
  OBVIOUS
<1>9. page \in Seq(Name) /\ ToSet(page) \subseteq ToSet(left) /\ Len(page) = m
  <2>1. /\ page \in Seq(Name) /\ ToSet(page) \subseteq ToSet(left)
        /\ Len(page) = IF 1 <= m THEN m - 1 + 1 ELSE 0
    BY <1>6, <1>7, <1>8, PartOf
  <2> QED
    BY <1>6, <1>7, <2>1
<1>10. PICK filled : filled = list \o page
  OBVIOUS
<1>11. filled \in Seq(Name) /\ ToSet(filled) \subseteq offered
  <2>1. /\ filled \in Seq(Name) /\ Len(filled) = Len(list) + Len(page)
        /\ \A i \in 1 .. Len(list) + Len(page) :
             filled[i] = IF i <= Len(list) THEN list[i] ELSE page[i - Len(list)]
    BY <1>1, <1>9, <1>10, ConcatProperties
  <2>2. \A i \in DOMAIN filled :
          \/ i \in DOMAIN list /\ filled[i] = list[i]
          \/ i - Len(list) \in DOMAIN page /\ filled[i] = page[i - Len(list)]
    BY <1>1, <1>9, <2>1
  <2>3. \A i \in DOMAIN list : list[i] \in ToSet(list)
    BY DEF ToSet
  <2>4. \A i \in DOMAIN page : page[i] \in ToSet(page)
    BY DEF ToSet
  <2>5. \A i \in DOMAIN filled : filled[i] \in offered
    BY <1>1, <1>6, <1>9, <2>2, <2>3, <2>4
  <2> QED
    BY <2>1, <2>5 DEF ToSet
<1>12. ~disturbed => /\ call.next + m <= n
                     /\ filled = SubSeq(Here, 1, call.next + m)
  <2> HAVE ~disturbed
  <2>1. call.next <= n /\ list = SubSeq(Here, 1, call.next)
    BY <1>1, <1>4 DEF ListInv, ReadSoFar
  <2>2. call.next \in 0 .. Len(Here) /\ m \in 0 .. Len(Here) - call.next
    BY <1>3, <1>4, <1>6, <1>7, <2>1
  <2>3. call.next + m <= n
    BY <1>3, <1>4, <2>2
  <2>4. filled = SubSeq(Here, 1, call.next + m)
    BY <1>3, <1>5, <1>7, <1>8, <1>10, <2>1, <2>2, PageJoins
  <2> QED
    BY <2>3, <2>4
<1>13. PICK rest : rest = SubSeq(left, Len(page) + 1, Len(left))
  OBVIOUS
<1>14. rest \in Seq(Name) /\ (rest = <<>> => m = Len(left))
  <2>1. m + 1 \in Nat \ {0} /\ Len(left) \in 0 .. Len(left)
    BY <1>6, <1>7
  <2>2. /\ rest \in Seq(Name)
        /\ Len(rest) = IF m + 1 <= Len(left) THEN Len(left) - (m + 1) + 1 ELSE 0
    BY <1>6, <1>9, <1>13, <2>1, PartOf
  <2> QED
    BY <1>6, <1>7, <2>2
<1>15. Total(rest) \in Nat /\ (Total(rest) = 0 <=> rest = <<>>)
  BY <1>14, TotalPositive
<1>16. IF Total(rest) = 0
       THEN InitReturns(filled) /\ CloseManager
       ELSE /\ list' = filled
            /\ call' = [call EXCEPT !.next = @ + Len(page), !.room = Grown(Total(rest))]
            /\ UNCHANGED <<built, handles, pc, history>>
  BY <1>5, <1>8, <1>10, <1>13 DEF EnumServices
<1>17. CASE Total(rest) = 0
  <2>1. ~disturbed => filled = Here
    <3> HAVE ~disturbed
    <3>1. m = Len(left)
      BY <1>14, <1>15, <1>17
    <3>2. call.next + m = Len(Here)
      BY <1>3, <1>4, <1>6, <1>7, <1>12, <3>1
    <3>3. SubSeq(Here, 1, Len(Here)) = Here
      BY <1>3
    <3> QED
      BY <1>12, <3>2, <3>3
  <2> QED
    BY <1>1, <1>2, <1>11, <1>16, <1>17, <2>1, ReturnsInv
<1>18. CASE Total(rest) # 0
  <2>1. /\ list' = filled /\ pc' = pc /\ built' = built /\ handles' = handles
        /\ UNCHANGED <<disturbed, offered, whole>>
        /\ UNCHANGED <<class, source, denied, writes>>
    BY <1>1, <1>16, <1>18 DEF history, system
  <2>2. PICK room \in Nat : room = Grown(Total(rest))
    BY <1>3, <1>15, GrownNat
  <2>3. /\ call' \in Locals /\ call'.next = call.next + m /\ call'.op = call.op
        /\ call'.wanted = call.wanted /\ call'.building = call.building
        /\ call'.result = call.result
    <3>1. call' = [call EXCEPT !.next = @ + m, !.room = room]
      BY <1>9, <1>16, <1>18, <2>2
    <3>2. call.next + m \in Nat
      BY <1>3, <1>6, <1>7
    <3> QED
      BY <1>3, <2>2, <3>1, <3>2 DEF Locals
  <2>4. Here' = Here
    BY <2>1, <2>3 DEF Here, Selected
  <2>5. TypeOK'
    BY <1>1, <1>2, <1>11, <2>1, <2>3 DEF TypeOK
  <2>6. AllWanted' /\ Phases'
    BY <2>1, <2>3 DEF ListInv, AllWanted, Phases
  <2>7. Started'
    BY <1>1, <2>1, <2>4 DEF Started
  <2>8. ReadSoFar'
    BY <1>1, <1>4, <1>12, <2>1, <2>3, <2>4 DEF ReadSoFar
  <2>9. ListIsWhole' /\ NothingStale'
    BY <1>1, <1>11, <2>1, <2>3 DEF ListIsWhole, NothingStale
  <2> QED
    BY <2>5, <2>6, <2>7, <2>8, <2>9 DEF ListInv
<1> QED
  BY <1>17, <1>18

\* The buffer is made as large as the adapters need.
LEMMA OverflowListInv ==
  ASSUME ListInv, AdaptersOverflow
  PROVE  ListInv'
<1>1. /\ pc = "adapters" /\ pc' = "again" /\ pc \notin Ended
      /\ call' = [call EXCEPT !.room = Len(Here)] /\ TypeOK
      /\ UNCHANGED <<class, source, denied, writes, built, list, handles, broken>>
      /\ UNCHANGED <<disturbed, offered, whole>>
  BY DEF AdaptersOverflow, system, instance, history, Ended, ListInv
<1>2. Here \in Seq(Name) /\ call \in Locals /\ Len(Here) \in Nat
  BY <1>1, Typing
<1>3. /\ call' \in Locals /\ call'.next = call.next /\ call'.op = call.op
      /\ call'.wanted = call.wanted /\ call'.building = call.building
      /\ call'.result = call.result /\ call'.room = Len(Here)
  BY <1>1, <1>2 DEF Locals
<1>4. Here' = Here
  BY <1>1, <1>3 DEF Here, Selected
<1>5. TypeOK'
  BY <1>1, <1>3 DEF TypeOK
<1>6. AllWanted' /\ Phases'
  BY <1>1, <1>3 DEF ListInv, AllWanted, Phases
<1>7. Started'
  BY <1>1, <1>3, <1>4 DEF ListInv, Started
<1>8. ReadSoFar'
  BY <1>1, <1>3, <1>4 DEF ReadSoFar
<1>9. ListIsWhole' /\ NothingStale'
  BY <1>1 DEF ListInv, ListIsWhole, NothingStale
<1> QED
  BY <1>5, <1>6, <1>7, <1>8, <1>9 DEF ListInv

\* What there is of adapters is what is asked for.
LEMMA AdaptersHere ==
  ASSUME ListInv, pc \in {"adapters", "again"}
  PROVE  Here = source
<1>1. class = "NetCardInfo" /\ call.wanted = Name
  BY DEF ListInv, Phases, AllWanted, Ended
<1>2. source \in Seq(Name)
  BY Typing DEF ListInv
<1> QED
  BY <1>1, <1>2, FilteredAll DEF Here, Selected

LEMMA FailListInv ==
  ASSUME ListInv, IInv, IInv', ManagerDenied \/ AdaptersFail \/ SystemFails
  PROVE  ListInv'
<1>1. /\ InitThrows /\ UNCHANGED system /\ pc \notin Ended /\ TypeOK
      /\ disturbed' = disturbed \/ disturbed' = TRUE
  BY DEF ManagerDenied, AdaptersFail, SystemFails, Ended, ListInv
<1>2. handles' \in Nat /\ broken' \in Nat /\ disturbed' \in BOOLEAN
  BY <1>1, HandlesNat DEF TypeOK
<1>3. ~disturbed' => IF class = "ServicesInfo" THEN denied ELSE source = <<>>
  <2>1. CASE ManagerDenied
    BY <2>1 DEF ManagerDenied, ListInv, Phases
  <2>2. CASE AdaptersFail
    <3>1. /\ pc \in {"adapters", "again"} /\ disturbed' = disturbed
          /\ Here = <<>> \/ (pc = "again" /\ Len(Here) > call.room)
      BY <2>2 DEF AdaptersFail
    <3>2. class = "NetCardInfo" /\ Here = source
      BY <3>1, AdaptersHere DEF ListInv, Phases
    <3>3. ~disturbed /\ pc = "again" => call.room = Len(Here)
      BY DEF ListInv, ReadSoFar
    <3>4. Here \in Seq(Name) /\ Len(Here) \in Nat
      BY <1>1, Typing
    <3> QED
      BY <3>1, <3>2, <3>3, <3>4
  <2>3. CASE SystemFails
    BY <2>3 DEF SystemFails
  <2> QED
    BY <2>1, <2>2, <2>3
<1> QED
  BY <1>1, <1>2, <1>3, ThrowsListInv

LEMMA TakeListInv ==
  ASSUME ListInv, IInv, IInv', TakeAdapters
  PROVE  ListInv'
<1>1. /\ pc \in {"adapters", "again"} /\ pc \notin Ended /\ pc # "page" /\ TypeOK
      /\ UNCHANGED system /\ InitReturns(list \o Here)
  BY DEF TakeAdapters, Ended, ListInv
<1>2. handles' \in Nat /\ broken' \in Nat
  BY HandlesNat
<1>3. Here \in Seq(Name) /\ list = <<>> /\ ToSet(Here) \subseteq offered
  BY <1>1, Typing DEF ListInv, Started
<1>4. list \o Here = Here
  BY <1>3, ConcatEmptySeq
<1>5. InitReturns(Here)
  BY <1>1, <1>4
<1> QED
  BY <1>1, <1>2, <1>3, <1>5, ReturnsInv

\* What comes or goes is on offer to an Init that it disturbs.
LEMMA ChangeListInv ==
  ASSUME ListInv, SourceChanges
  PROVE  ListInv'
<1>1. /\ pc \notin Ended /\ writes < MaxWrites /\ source' \in Lists /\ TypeOK
      /\ writes' = writes + 1 /\ disturbed' = TRUE
      /\ offered' = offered \cup ToSet(Selected(source', call))
      /\ UNCHANGED <<class, denied, built, list, handles, pc, call, broken, whole>>
  BY DEF SourceChanges, instance, ListInv
<1>2. writes' \in 0 .. MaxWrites
  BY <1>1, SizeAssumption DEF TypeOK
<1>3. Here' = Selected(source', call)
  BY <1>1 DEF Here, Selected
<1>4. offered' \subseteq Name
  <2>1. ToSet(Selected(source', call)) \subseteq Name
    BY <1>1, FilteredLists DEF Selected
  <2> QED
    BY <1>1, <2>1 DEF TypeOK
<1>5. TypeOK'
  BY <1>1, <1>2, <1>4 DEF TypeOK
<1>6. AllWanted' /\ Phases'
  BY <1>1 DEF ListInv, AllWanted, Phases
<1>7. Started' /\ ReadSoFar'
  BY <1>1, <1>3 DEF ListInv, Started, ReadSoFar
<1>8. ListIsWhole' /\ NothingStale'
  BY <1>1 DEF ListInv, Started, ListIsWhole, NothingStale, Ended
<1> QED
  BY <1>5, <1>6, <1>7, <1>8 DEF ListInv

LEMMA StaysListInv ==
  ASSUME ListInv, UNCHANGED vars
  PROVE  ListInv'
<1>1. /\ UNCHANGED <<class, source, denied, writes, built, list, handles, pc, call, broken>>
      /\ UNCHANGED <<disturbed, offered, whole>>
  BY DEF vars, system, instance, history
<1>2. Here' = Here
  BY <1>1 DEF Here, Selected
<1>3. TypeOK'
  BY <1>1 DEF ListInv, TypeOK
<1>4. AllWanted' /\ Phases'
  BY <1>1 DEF ListInv, AllWanted, Phases
<1>5. Started' /\ ReadSoFar'
  BY <1>1, <1>2 DEF ListInv, Started, ReadSoFar
<1>6. ListIsWhole' /\ NothingStale'
  BY <1>1 DEF ListInv, ListIsWhole, NothingStale
<1> QED
  BY <1>3, <1>4, <1>5, <1>6 DEF ListInv

LEMMA InitListInv == Init => ListInv
<1> SUFFICES ASSUME Init PROVE ListInv
  OBVIOUS
<1>1. <<>> \in Seq(Name) /\ <<>> \in Lists /\ ToSet(<<>>) = {}
  <2>1. <<>> \in [1 .. 0 -> Name] /\ 0 \in 0 .. MaxEntries
    BY SizeAssumption
  <2>2. <<>> \in BoundedSeq(Name, MaxEntries)
    BY <2>1 DEF BoundedSeq, SeqOf
  <2> QED
    BY <2>2 DEF Lists, IsInjective, ToSet
<1>2. Idle \in Locals
  BY <1>1, IdleLocals
<1>3. TypeOK
  <2>1. source \in Lists /\ list \in Seq(Name) /\ call \in Locals
    BY <1>1, <1>2 DEF Init
  <2>2. writes \in 0 .. MaxWrites
    BY SizeAssumption DEF Init
  <2> QED
    BY <2>1, <2>2 DEF Init, TypeOK, Ended
<1>4. AllWanted /\ Phases /\ Started /\ ReadSoFar
  BY DEF Init, AllWanted, Phases, Started, ReadSoFar, Ended
<1>5. ListIsWhole /\ NothingStale
  BY <1>1 DEF Init, ListIsWhole, NothingStale
<1> QED
  BY <1>3, <1>4, <1>5 DEF ListInv

LEMMA StepListInv == ListInv /\ IInv /\ IInv' /\ [Next]_vars => ListInv'
<1> SUFFICES ASSUME ListInv, IInv, IInv', [Next]_vars PROVE ListInv'
  OBVIOUS
<1>1. ASSUME NEW op \in Op, Begin(op) PROVE ListInv'
  BY <1>1, BeginListInv
<1>2. CASE Finish
  BY <1>2, FinishListInv
<1>3. CASE OpenManager
  BY <1>3, OpenListInv
<1>4. CASE ManagerDenied \/ AdaptersFail \/ SystemFails
  BY <1>4, FailListInv
<1>5. CASE EnumServices
  BY <1>5, PageListInv
<1>6. CASE AdaptersOverflow
  BY <1>6, OverflowListInv
<1>7. CASE TakeAdapters
  BY <1>7, TakeListInv
<1>8. CASE SourceChanges
  BY <1>8, ChangeListInv
<1>9. CASE UNCHANGED vars
  BY <1>9, StaysListInv
<1> QED
  BY <1>1, <1>2, <1>3, <1>4, <1>5, <1>6, <1>7, <1>8, <1>9 DEF Next, Step

THEOREM ListHolds == Spec => []ListInv
BY InitListInv, StepListInv, InvHolds, PTL DEF Spec

\* The instance, the locals of the call and the history have their types
\* after any calls of ServicesInfo or NetCardInfo (Services.cpp:41).
THEOREM TypeCorrect == Spec => []TypeOK
BY ListHolds, PTL DEF ListInv

\* The list holds all that the filter selects, in order and once, when nothing
\* disturbed the Init that filled it, however many pages it took and whatever
\* calls failed before it (Services.cpp:62, NetCardInfo.cpp:39).
THEOREM ListAlwaysWhole == Spec => []ListIsWhole
BY ListHolds, PTL DEF ListInv

\* A reset leaves nothing of the list before it, neither when it ends nor when
\* it throws in the middle (Services.cpp:62).
THEOREM NeverStale == Spec => []NothingStale
BY ListHolds, PTL DEF ListInv

=============================================================================
