------------------------ MODULE RegistryQueryProofs ------------------------
(***************************************************************************)
(* Every handle of the registry that a query opens is closed or accounted   *)
(* for, every name or string that it gives was there to be read, and a      *)
(* query that nobody disturbs gives all there is, with any keys, values and *)
(* number of writes by others.                                              *)
(***************************************************************************)
EXTENDS RegistryQuery, NumberLemmas, FiniteSetTheorems, SequenceTheorems, TLAPS

Fields == {"query", "todo", "closed", "count", "room", "next", "sub", "names", "result"}

\* The locals are a record, of which only two fields matter here.
IsCall(locals) ==
  /\ DOMAIN locals = Fields /\ locals = [f \in Fields |-> locals[f]]
  /\ locals.query \in Query /\ locals.sub \in BOOLEAN

\* The fallback has a key open only between two of its own calls, and never
\* for RegGetMultiString, which does not use it: no other step ends the query
\* with that key open.
SubInUse ==
  /\ call.sub => Reading /\ ~native
  /\ call.query = "RegGetMultiString" /\ pc \notin Ended => native

\* A query that was given its key opens none: it reads that one key.
GivenOnce ==
  /\ pc = "open" => call.query \in OwnKey
  /\ call.query \in GivenKey /\ pc \notin Ended => Len(call.todo) = 1

IInv == IsCall(call) /\ SubInUse /\ GivenOnce /\ broken \in Nat /\ HandlesAccounted

-----------------------------------------------------------------------------
(* The shapes of steps. *)

LEMMA CallChanges ==
  ASSUME NEW locals, IsCall(locals), NEW f \in Fields \ {"query", "sub"}, NEW v
  PROVE  LET changed == [locals EXCEPT ![f] = v]
         IN  /\ IsCall(changed)
             /\ changed.query = locals.query /\ changed.sub = locals.sub
             /\ f # "todo" => changed.todo = locals.todo
BY DEF IsCall, Fields

\* A step after which the fallback has no key open, and the account is right.
LEMMA Settles ==
  ASSUME IInv, IsCall(call'), call'.query = call.query, ~call'.sub,
         pc \notin Ended, native' = native, broken' \in Nat,
         handles' = broken' + IF HasKey' THEN 1 ELSE 0, GivenOnce'
  PROVE  IInv'
BY DEF IInv, SubInUse, HandlesAccounted

\* One of the fallback, or one that it is not used in.
LEMMA Handles ==
  ASSUME IInv
  PROVE  /\ broken \in Nat /\ handles \in Nat
         /\ ~call.sub => handles = broken + IF HasKey THEN 1 ELSE 0
         /\ call.sub => handles = broken + 1 + IF HasKey THEN 1 ELSE 0
         /\ ~Reading => ~call.sub
         /\ Reading => pc \in Holding /\ pc \notin Ended
BY DEF IInv, HandlesAccounted, SubInUse, Reading, Holding, Ended

\* The exception leaves open what the query has opened, and counts it.
LEMMA Throws ==
  ASSUME IInv, Throw, pc \notin Ended, native' = native,
         IsCall(call'), call'.query = call.query, ~call'.sub,
         handles' = handles - IF call.sub THEN 1 ELSE 0
  PROVE  IInv'
<1>1. pc' \in {"terminated", "threw"} /\ ~HasKey'
  BY DEF Throw, HasKey, Holding
<1>2. broken' = broken + IF HasKey THEN 1 ELSE 0
  BY Handles DEF Throw
<1>3. GivenOnce'
  BY <1>1 DEF GivenOnce, Ended
<1> QED
  BY <1>1, <1>2, <1>3, Handles, Settles

\* A query that is done with a key closes it if it has opened it.
LEMMA Leaves ==
  ASSUME IInv, pc \notin Ended, UNCHANGED <<native, broken>>, ~call.sub,
         NEW locals, IsCall(locals), locals.query = call.query, ~locals.sub,
         locals.todo = call.todo,
         Leave(locals, IF HasKey THEN 1 ELSE 0)
  PROVE  IInv'
<1>1. IsCall(call') /\ call'.query = call.query /\ ~call'.sub
  BY DEF Leave, IsCall, Fields
<1>2. ~HasKey'
  BY DEF Leave, HasKey, Holding
<1>3. handles' = broken
  BY Handles DEF Leave
<1>4. GivenOnce'
  <2>1. pc' = IF Len(call.todo) = 1 THEN "returned" ELSE "open"
    BY DEF Leave
  <2>2. call.query \in GivenKey => Len(call.todo) = 1
    BY DEF IInv, GivenOnce
  <2>3. call.query \in OwnKey \/ call.query \in GivenKey
    BY DEF IInv, IsCall, Query
  <2> QED
    BY <1>1, <2>1, <2>2, <2>3 DEF GivenOnce, Ended, OwnKey, GivenKey
<1> QED
  BY <1>1, <1>2, <1>3, <1>4, Handles, Settles

\* Any other step of a query keeps the key that it has.
LEMMA GoesOn ==
  ASSUME IInv, UNCHANGED <<native, broken>>, pc \in Holding, pc' \in Holding,
         IsCall(call'), call'.query = call.query, call'.todo = call.todo,
         ~call'.sub, CloseSub
  PROVE  IInv'
<1>1. HasKey' <=> HasKey
  BY DEF HasKey
<1>2. pc \notin Ended
  BY DEF Holding, Ended
<1>3. GivenOnce'
  BY <1>2 DEF IInv, GivenOnce, Holding
<1> QED
  BY <1>1, <1>2, <1>3, Handles, Settles DEF CloseSub

-----------------------------------------------------------------------------

\* RegGetMultiString throws, and the other queries go on.
LEMMA ReadFailsInv ==
  ASSUME IInv, Reading, ReadFails, native' = native
  PROVE  IInv'
<1>1. CASE call.query = "RegGetMultiString"
  <2>1. ~call.sub
    BY <1>1, Handles DEF IInv, SubInUse
  <2> QED
    BY <1>1, <2>1, Handles, Throws DEF ReadFails, IInv
<1>2. CASE call.query # "RegGetMultiString"
  <2>1. pc' = "size" /\ CloseSub /\ UNCHANGED broken
    BY <1>2 DEF ReadFails
  <2>2. /\ IsCall(call') /\ call'.query = call.query /\ ~call'.sub
        /\ call'.todo = call.todo
    BY <1>2 DEF ReadFails, IInv, IsCall, Fields
  <2> QED
    BY <2>1, <2>2, Handles, GoesOn DEF Holding
<1> QED
  BY <1>1, <1>2

LEMMA InitInv == Init => IInv
<1> SUFFICES ASSUME Init PROVE IInv
  OBVIOUS
<1>1. call = Fresh("RegEnumValues", {}) /\ pc = "idle" /\ handles = 0 /\ broken = 0
  BY DEF Init
<1>2. IsCall(call) /\ ~call.sub /\ call.query = "RegEnumValues"
  BY <1>1 DEF IsCall, Fresh, Fields, Query, OwnKey, GivenKey
<1> QED
  BY <1>1, <1>2 DEF IInv, SubInUse, GivenOnce, HandlesAccounted, HasKey, Holding, Ended

LEMMA FreshCall ==
  ASSUME NEW q \in Query, NEW closed
  PROVE  /\ IsCall(Fresh(q, closed)) /\ Fresh(q, closed).query = q
         /\ ~Fresh(q, closed).sub
         /\ q \in GivenKey => Len(Fresh(q, closed).todo) = 1
<1>1. q \in GivenKey => Len(Visits(q)) = 1
  BY DEF GivenKey, Visits
<1> QED
  BY <1>1 DEF IsCall, Fresh, Fields

\* A query starts, or its caller takes note of its end: no key is open.
LEMMA CallersInv ==
  ASSUME IInv, (\E q \in Query : Begin(q)) \/ Finish
  PROVE  IInv'
<1>1. CASE \E q \in Query : Begin(q)
  <2>1. PICK q \in Query : Begin(q)
    BY <1>1
  <2>2. /\ pc = "idle" /\ UNCHANGED <<native, handles, broken>>
        /\ \E closed : call' = Fresh(q, closed)
        /\ q = "RegGetMultiString" => native
        /\ pc' = IF q \in OwnKey THEN "open" ELSE IF q \in ByValue THEN "size" ELSE "info"
    BY <2>1 DEF Begin, history
  <2>3. /\ IsCall(call') /\ ~call'.sub /\ call'.query = q
        /\ q \in GivenKey => Len(call'.todo) = 1
    BY <2>2, FreshCall
  <2>4. ~HasKey /\ ~HasKey' /\ ~Reading
    BY <2>2, <2>3 DEF HasKey, Holding, Reading
  <2>5. GivenOnce'
    BY <2>2, <2>3 DEF GivenOnce
  <2> QED
    BY <2>2, <2>3, <2>4, <2>5, Handles DEF IInv, SubInUse, HandlesAccounted
<1>2. CASE Finish
  <2>1. /\ pc \in {"returned", "threw"} /\ pc' = "idle"
        /\ UNCHANGED <<native, handles, broken>> /\ call' = Fresh("RegEnumValues", {})
    BY <1>2 DEF Finish
  <2>2. IsCall(call') /\ ~call'.sub /\ call'.query = "RegEnumValues"
    BY <2>1, FreshCall DEF Query, GivenKey
  <2>3. ~HasKey /\ ~HasKey' /\ ~Reading
    BY <2>1, <2>2 DEF HasKey, Holding, Reading
  <2> QED
    BY <2>1, <2>2, <2>3, Handles DEF IInv, SubInUse, GivenOnce, HandlesAccounted, Ended
<1> QED
  BY <1>1, <1>2

-----------------------------------------------------------------------------
(* The enumerations. *)

LEMMA OpenInv ==
  ASSUME IInv, OpenKey \/ OpenFails
  PROVE  IInv'
<1>1. pc = "open" /\ pc \notin Ended /\ ~Reading /\ ~HasKey /\ UNCHANGED native /\ IsCall(call)
  BY DEF OpenKey, OpenFails, Ended, Reading, HasKey, Holding, IInv
<1>2. ~call.sub /\ handles = broken
  BY <1>1, Handles
<1>3. CASE OpenKey
  <2>1. pc' = "info" /\ handles' = handles + 1 /\ UNCHANGED <<call, broken>>
    BY <1>3 DEF OpenKey, history
  <2>2. call.query \in OwnKey
    BY <1>1 DEF IInv, GivenOnce
  <2>3. GivenOnce' /\ HasKey'
    BY <1>1, <2>1, <2>2 DEF GivenOnce, HasKey, Holding, OwnKey, GivenKey
  <2> QED
    BY <1>1, <1>2, <2>1, <2>3, Handles, Settles
<1>4. CASE OpenFails
  BY <1>1, <1>2, <1>4, Handles, Leaves, Throws DEF OpenFails, history
<1> QED
  BY <1>3, <1>4

LEMMA QueryInfoInv ==
  ASSUME IInv, QueryInfo
  PROVE  IInv'
<1>1. /\ pc = "info" /\ pc' = "enum" /\ ~Reading
      /\ UNCHANGED <<native, handles, broken>>
  BY DEF QueryInfo, history, Reading
<1>2. ~call.sub
  BY <1>1, Handles
<1>3. /\ IsCall(call') /\ call'.query = call.query /\ ~call'.sub
      /\ call'.todo = call.todo
  BY <1>2 DEF QueryInfo, IInv, IsCall, Fields
<1> QED
  BY <1>1, <1>2, <1>3, GoesOn DEF CloseSub, Holding

LEMMA EnumNextInv ==
  ASSUME IInv, EnumNext
  PROVE  IInv'
<1>1. pc = "enum" /\ pc \notin Ended /\ UNCHANGED native /\ ~Reading
  BY DEF EnumNext, Ended, Reading
<1>2. ~call.sub
  BY <1>1, Handles
<1>3. CASE Throw /\ UNCHANGED <<handles, call>>
  BY <1>1, <1>2, <1>3, Handles, Throws DEF IInv
<1>4. CASE UNCHANGED <<handles, pc, history>> /\ ~UNCHANGED call
  <2>1. /\ IsCall(call') /\ call'.query = call.query /\ ~call'.sub
        /\ call'.todo = call.todo
    BY <1>2, <1>4 DEF EnumNext, IInv, IsCall, Fields
  <2> QED
    BY <1>1, <1>2, <1>4, <2>1, GoesOn DEF CloseSub, Holding, history
<1>5. CASE UNCHANGED <<handles, pc, call, history>>
  BY <1>1, <1>2, <1>5, GoesOn DEF CloseSub, Holding, history, IInv
<1> QED
  BY <1>3, <1>4, <1>5 DEF EnumNext

LEMMA EnumEndsInv ==
  ASSUME IInv, EnumEnds
  PROVE  IInv'
<1>1. /\ pc = "enum" /\ pc \notin Ended /\ UNCHANGED <<native, broken>> /\ ~Reading
      /\ pc \in Holding
  BY DEF EnumEnds, Ended, Reading, Holding, history
<1>2. ~call.sub /\ IsCall(call)
  BY <1>1, Handles DEF IInv
<1>3. CASE call.query = "RegEnumValues"
  <2>1. Leave([call EXCEPT !.result = call.names], 0) /\ ~HasKey
    BY <1>3 DEF EnumEnds, HasKey, OwnKey
  <2> QED
    BY <1>1, <1>2, <2>1, CallChanges, Leaves DEF Fields
<1>4. CASE call.query = "DumpInfo"
  <2>1. HasKey /\ \E result : Leave([call EXCEPT !.result = result], 1)
    BY <1>1, <1>4 DEF EnumEnds, HasKey, OwnKey
  <2>2. PICK result : Leave([call EXCEPT !.result = result], 1)
    BY <2>1
  <2> QED
    BY <1>1, <1>2, <2>1, <2>2, CallChanges, Leaves DEF Fields
<1>5. CASE call.query \notin {"RegEnumValues", "DumpInfo"}
  <2>1. pc' = "size" /\ call' = [call EXCEPT !.next = 0] /\ UNCHANGED handles
    BY <1>5 DEF EnumEnds
  <2>2. /\ IsCall(call') /\ call'.query = call.query /\ ~call'.sub
        /\ call'.todo = call.todo
    BY <1>2, <2>1 DEF IsCall, Fields
  <2> QED
    BY <1>1, <1>2, <2>1, <2>2, GoesOn DEF CloseSub, Holding
<1> QED
  BY <1>3, <1>4, <1>5

-----------------------------------------------------------------------------
(* The values. *)

LEMMA OpenSubInv ==
  ASSUME IInv, OpenSub
  PROVE  IInv'
<1>1. /\ Reading /\ ~native /\ ~call.sub
      /\ call' = [call EXCEPT !.sub = TRUE] /\ handles' = handles + 1
      /\ UNCHANGED <<native, pc, broken>>
  BY DEF OpenSub, history
<1>2. /\ IsCall(call') /\ call'.query = call.query /\ call'.sub
      /\ call'.todo = call.todo /\ call'.next = call.next /\ call'.names = call.names
  BY <1>1 DEF IInv, IsCall, Fields
<1>3. Reading' /\ (HasKey' <=> HasKey)
  BY <1>1, <1>2 DEF Reading, HasKey
<1>4. SubInUse' /\ GivenOnce'
  BY <1>1, <1>2, <1>3 DEF IInv, SubInUse, GivenOnce
<1> QED
  BY <1>1, <1>2, <1>3, <1>4, Handles DEF IInv, HandlesAccounted

LEMMA AskSizeInv ==
  ASSUME IInv, AskSize \/ SubGone
  PROVE  IInv'
<1>1. Reading /\ native' = native
  BY DEF AskSize, SubGone
<1>2. CASE ReadFails
  BY <1>1, <1>2, ReadFailsInv
<1>3. CASE ~ReadFails
  <2>1. /\ \E room : call' = [call EXCEPT !.room = room, !.sub = FALSE]
        /\ pc' = "read" /\ CloseSub /\ UNCHANGED broken
    BY <1>3 DEF AskSize, SubGone
  <2>2. /\ IsCall(call') /\ call'.query = call.query /\ ~call'.sub
        /\ call'.todo = call.todo
    BY <2>1 DEF IInv, IsCall, Fields
  <2> QED
    BY <1>1, <2>1, <2>2, Handles, GoesOn DEF Holding
<1> QED
  BY <1>2, <1>3

LEMMA ReadStringInv ==
  ASSUME IInv, ReadString
  PROVE  IInv'
<1>1. Reading /\ native' = native
  BY DEF ReadString
<1>2. CASE ReadFails
  BY <1>1, <1>2, ReadFailsInv
<1>3. CASE Throw /\ CloseSub /\ call' = [call EXCEPT !.sub = FALSE]
  <2>1. IsCall(call') /\ call'.query = call.query /\ ~call'.sub
    BY <1>3 DEF IInv, IsCall, Fields
  <2>2. handles' = handles - IF call.sub THEN 1 ELSE 0
    BY <1>3, Handles DEF CloseSub
  <2> QED
    BY <1>1, <1>3, <2>1, <2>2, Handles, Throws
<1>4. CASE ~ReadFails /\ ~(Throw /\ CloseSub /\ call' = [call EXCEPT !.sub = FALSE])
  <2>1. /\ \E text : call' = [call EXCEPT !.result = Append(@, text),
                                         !.next = @ + 1, !.sub = FALSE]
        /\ pc' = "size" /\ CloseSub /\ UNCHANGED broken
    BY <1>4 DEF ReadString
  <2>2. /\ IsCall(call') /\ call'.query = call.query /\ ~call'.sub
        /\ call'.todo = call.todo
    BY <2>1 DEF IInv, IsCall, Fields
  <2> QED
    BY <1>1, <2>1, <2>2, Handles, GoesOn DEF Holding
<1> QED
  BY <1>2, <1>3, <1>4

LEMMA ReadMultiStringInv ==
  ASSUME IInv, ReadMultiString
  PROVE  IInv'
<1>1. Reading /\ native' = native /\ call.query = "RegGetMultiString"
  BY DEF ReadMultiString
<1>2. CASE ReadFails
  BY <1>1, <1>2, ReadFailsInv
<1>3. CASE ~ReadFails
  <2>1. /\ \E result : Leave([call EXCEPT !.result = result], 0)
        /\ UNCHANGED broken
    BY <1>3 DEF ReadMultiString
  <2>2. ~call.sub /\ ~HasKey
    BY <1>1, Handles DEF IInv, SubInUse, HasKey, OwnKey
  <2>3. PICK result : Leave([call EXCEPT !.result = result], 0)
    BY <2>1
  <2> QED
    BY <1>1, <2>1, <2>2, <2>3, Handles, CallChanges, Leaves DEF Fields, IInv
<1> QED
  BY <1>2, <1>3

LEMMA CloseKeyInv ==
  ASSUME IInv, CloseKey
  PROVE  IInv'
<1>1. /\ pc = "size" /\ pc \notin Ended /\ UNCHANGED <<native, broken>> /\ HasKey
      /\ ~Reading \/ ~call.sub
      /\ Leave(call, 1)
  BY DEF CloseKey, history, HasKey, Holding, OwnKey, Ended, Reading
<1>2. ~call.sub
  BY <1>1, Handles
<1> QED
  BY <1>1, <1>2, Leaves DEF IInv

LEMMA GetWendousInfoInv ==
  ASSUME IInv, GetWendousInfo
  PROVE  IInv'
<1>1. /\ pc = "size" /\ pc \notin Ended /\ UNCHANGED <<native, broken>> /\ ~HasKey
      /\ pc \in Holding
  BY DEF GetWendousInfo, history, HasKey, Holding, OwnKey, Ended
<1>2. ~Reading
  BY DEF GetWendousInfo, Reading
<1>3. ~call.sub /\ IsCall(call)
  BY <1>2, Handles DEF IInv
<1>4. CASE \E result : Leave([call EXCEPT !.result = result], 0)
  <2>1. PICK result : Leave([call EXCEPT !.result = result], 0)
    BY <1>4
  <2> DEFINE locals == [call EXCEPT !.result = result]
  <2>2. /\ IsCall(locals)
        /\ locals.query = call.query /\ ~locals.sub
        /\ locals.todo = call.todo
    BY <1>3 DEF IsCall, Fields
  <2>3. Leave(locals, IF HasKey THEN 1 ELSE 0)
    BY <1>1, <2>1
  <2> HIDE DEF locals
  <2> QED
    BY <1>1, <1>3, <2>2, <2>3, Leaves
<1>5. CASE (\E names : call' = [call EXCEPT !.names = names]) /\ UNCHANGED <<handles, pc>>
  <2>1. /\ IsCall(call') /\ call'.query = call.query /\ ~call'.sub
        /\ call'.todo = call.todo
    BY <1>3, <1>5 DEF IInv, IsCall, Fields
  <2> QED
    BY <1>1, <1>3, <1>5, <2>1, GoesOn DEF CloseSub
<1> QED
  BY <1>4, <1>5 DEF GetWendousInfo

-----------------------------------------------------------------------------

LEMMA SystemFailsInv ==
  ASSUME IInv, SystemFails
  PROVE  IInv'
<1>1. native' = native
  BY DEF SystemFails
<1>2. CASE Reading /\ ReadFails
  BY <1>1, <1>2, ReadFailsInv
<1>3. CASE /\ pc = "info" \/ (pc = "enum" /\ call.next < call.count)
           /\ Throw /\ UNCHANGED <<handles, call>>
  <2>1. ~Reading /\ pc \notin Ended
    BY <1>3 DEF Reading, Ended
  <2> QED
    BY <1>1, <1>3, <2>1, Handles, Throws DEF IInv
<1> QED
  BY <1>2, <1>3 DEF SystemFails

\* What others write, and a step that does nothing, leave the query alone.
LEMMA OthersInv ==
  ASSUME IInv, UNCHANGED <<native, handles, pc, call, broken>>
  PROVE  IInv'
<1>1. (Reading' <=> Reading) /\ (HasKey' <=> HasKey)
  BY DEF Reading, HasKey
<1> QED
  BY <1>1 DEF IInv, SubInUse, GivenOnce, HandlesAccounted

LEMMA StepInv == IInv /\ [Next]_vars => IInv'
<1> SUFFICES ASSUME IInv, [Next]_vars PROVE IInv'
  OBVIOUS
<1>1. CASE OtherWrites \/ UNCHANGED vars
  BY <1>1, OthersInv DEF OtherWrites, vars, history
<1> QED
  BY <1>1, CallersInv, OpenInv, QueryInfoInv, EnumNextInv, EnumEndsInv, OpenSubInv,
     AskSizeInv, ReadStringInv, ReadMultiStringInv, CloseKeyInv, GetWendousInfoInv,
     SystemFailsInv DEF Next

THEOREM InvHolds == Spec => []IInv
BY InitInv, StepInv, PTL DEF Spec

\* However a query ends, each handle it has opened is closed, or is the one of
\* the key it was reading when it threw (RegistryActions.hpp:26).
THEOREM HandlesAlwaysAccounted == Spec => []HandlesAccounted
BY InvHolds, PTL DEF IInv

-----------------------------------------------------------------------------
(* What the results are made of. *)

\* What is made of what was held, and of all that has been held; a value of
\* the version may be missing.
Makes(q, held) ==
  CASE q \in {"GetInstalledAppList", "GetWendousInfo"} -> {Front(Given(q, held))}
    [] q = "RegGetMultiString" -> ToSet(MultiStrings(Given(q, held)))
    [] OTHER -> {held}
Missing(q) == IF q = "GetWendousInfo" THEN {<<>>} ELSE {}
Gives(q, all) == (UNION {Makes(q, held) : held \in all}) \cup Missing(q)
Gave == Gives(call.query, past)

\* The data that was held is that of entries.
PastRead ==
  call.query \in ByValue =>
    \A data \in past : \E e \in Entries(call.query) : e.data # Null /\ data = e.data

\* What the keys of the call hold is on record, and it has one left to read.
SourceFound ==
  pc \notin Ended =>
    /\ call.todo \in Seq(DOMAIN source) /\ call.todo # <<>>
    /\ \A p \in DOMAIN source : source[p] \in Seq(Entries(call.query))
    /\ Held(call.query, source) \subseteq past

\* The names that are themselves the result were held when they were read.
NamesFound ==
  pc = "enum" /\ call.query \in {"DumpInfo", "RegEnumValues"} => call.names \in Seq(Gave)

ResultFound ==
  /\ ToSet(call.result) \subseteq Gave
  /\ call.query # "RegGetMultiString" => call.result \in Seq(Gave)
  /\ PastRead

\* Who reads values; each value of the version that was asked for has given a string, or an
\* empty one: there is a first, which decides whether more are asked for.
ValuesRead ==
  pc \notin Ended =>
    /\ pc \in {"size", "read"} => call.query \in ByValue
    /\ call.query \in {"GetWendousInfo", "RegGetMultiString"} => pc \in {"size", "read"}
    /\ call.query = "GetWendousInfo" =>
         /\ call.names \in Seq(ValueName) /\ call.names # <<>>
         /\ Len(call.result) = call.next

FoundInv ==
  /\ SourceFound /\ NamesFound /\ ResultFound /\ ValuesRead
  /\ call.next \in Nat

-----------------------------------------------------------------------------
(* What the registry answers, and what a query makes of it. *)

\* An entry is held for what is read of it.
LEMMA EntryHeld ==
  ASSUME NEW q, NEW s, NEW p \in DOMAIN s, NEW i \in DOMAIN s[p]
  PROVE  /\ q = "DumpInfo" => s[p][i].name \in Held(q, s)
         /\ q = "RegEnumValues" => s[p][i] \in Held(q, s)
         /\ q \in ByValue /\ s[p][i].data # Null => s[p][i].data \in Held(q, s)
<1> DEFINE entries == UNION {ToSet(s[k]) : k \in DOMAIN s}
<1>1. s[p][i] \in entries
  BY DEF ToSet
<1>2. /\ q = "DumpInfo" => Held(q, s) = {e.name : e \in entries}
      /\ q = "RegEnumValues" => Held(q, s) = entries
      /\ q \in ByValue => Held(q, s) = {e.data : e \in entries} \ {Null}
  BY DEF Held, ByValue
<1> HIDE DEF entries
<1> QED
  BY <1>1, <1>2

\* What is held for its data is the data of an entry.
LEMMA HeldRead ==
  ASSUME NEW q \in ByValue, NEW s, \A p \in DOMAIN s : s[p] \in Seq(Entries(q)),
         NEW data \in Held(q, s)
  PROVE  \E e \in Entries(q) : e.data # Null /\ data = e.data
<1> DEFINE entries == UNION {ToSet(s[k]) : k \in DOMAIN s}
<1>1. Held(q, s) = {e.data : e \in entries} \ {Null}
  BY DEF Held, ByValue
<1>2. entries \subseteq Entries(q)
  BY DEF ToSet
<1> HIDE DEF entries
<1> QED
  BY <1>1, <1>2

\* What is made of what was held has been given.
LEMMA MadeGiven ==
  ASSUME NEW held \in past
  PROVE  Makes(call.query, held) \subseteq Gave
BY DEF Gave, Gives

\* A value of the version may be missing.
LEMMA EmptyGiven == ASSUME call.query = "GetWendousInfo" PROVE <<>> \in Gave
<1>1. <<>> \in Missing(call.query)
  BY DEF Missing
<1>2. Missing(call.query) \subseteq Gave
  BY DEF Gave, Gives
<1> QED
  BY <1>1, <1>2

\* What is on record stays, and so does what is made of it.
LEMMA MadeStays == ASSUME UNCHANGED native PROVE \A q, held : Makes(q, held)' = Makes(q, held)
<1> SUFFICES ASSUME NEW q, NEW held PROVE Makes(q, held)' = Makes(q, held)
  OBVIOUS
<1>1. Given(q, held)' = Given(q, held)
  BY DEF Given
<1> QED
  BY <1>1 DEF Makes

LEMMA GaveStays ==
  ASSUME UNCHANGED native, past \subseteq past', call'.query = call.query
  PROVE  Gave \subseteq Gave' /\ (past' = past => Gave' = Gave /\ (PastRead => PastRead'))
<1>1. \A q, held : Makes(q, held)' = Makes(q, held)
  BY MadeStays
<1>2. Gave' = (UNION {Makes(call.query, held) : held \in past'})
                \cup Missing(call.query)
  BY <1>1 DEF Gave, Gives, Missing
<1> QED
  BY <1>2 DEF Gave, Gives, PastRead

\* What is read is what an entry of the key holds, terminated.
LEMMA ReadsEntry ==
  ASSUME NEW name, RegGetValueA_sp(name) # Null
  PROVE  \E i \in DOMAIN Here : /\ Here[i].data # Null
                                /\ RegGetValueA_sp(name) = Given(call.query, Here[i].data)
<1> DEFINE values == {Here[i].data : i \in {j \in DOMAIN Here : Here[j].name = name}} \ {Null}
<1>1. values # {} /\ RegGetValueA_sp(name) = Given(call.query, CHOOSE data \in values : TRUE)
  BY DEF RegGetValueA_sp
<1>2. (CHOOSE data \in values : TRUE) \in values
  BY <1>1
<1> QED
  BY <1>1, <1>2

\* The data of an entry, where it has any.
LEMMA EntryData ==
  ASSUME NEW q \in ByValue, NEW e \in Entries(q), e.data # Null
  PROVE  /\ e.data \in Data \cup VersionData \cup MultiData
         /\ e.data \in Seq(ToSet(e.data)) /\ Len(e.data) \in Nat
         /\ Len(e.data) < MaxString
<1>1. e.data \in Data \cup VersionData \cup MultiData
  BY DEF ByValue, Entries, Pairs, Entry
<1> QED
  BY <1>1, DataAssumption, SizeAssumption

\* A string that fits std::string is the value without its last character: the
\* length does not wrap around for what has one.
LEMMA TakesFront ==
  ASSUME NEW q \in {"GetInstalledAppList", "GetWendousInfo"}, NEW e \in Entries(q),
         e.data # Null, NEW data, data = Given(q, e.data), ~(StringLength(data) > MaxString)
  PROVE  data # <<>> /\ TakeString(data) = Front(data)
<1>1. e.data \in Seq(ToSet(e.data)) /\ Len(e.data) \in Nat /\ Len(e.data) < MaxString
  BY EntryData DEF ByValue
<1>2. data = e.data \/ data = Append(e.data, Nul)
  BY DEF Given
<1>3. Len(data) \in Nat /\ Len(data) <= MaxString /\ (data = <<>> => Len(data) = 0)
  <2>1. CASE data = e.data
    BY <1>1, <2>1, SizeAssumption
  <2>2. CASE data = Append(e.data, Nul)
    <3>1. e.data \in Seq(ToSet(e.data) \cup {Nul})
      BY <1>1
    <3>2. Len(data) = Len(e.data) + 1
      BY <2>2, <3>1
    <3> QED
      BY <1>1, <3>2, SizeAssumption
  <2> QED
    BY <1>2, <2>1, <2>2
<1>4. MaxString \in Nat /\ Dword \in Nat /\ MaxString < Dword - 1
  BY SizeAssumption
<1>5. Len(data) # 0
  <2>1. Len(data) = 0 => StringLength(data) = Dword - 1
    BY <1>4 DEF StringLength
  <2> QED
    BY <1>4, <2>1
<1>6. StringLength(data) = Len(data) - 1
  BY <1>3, <1>4, <1>5 DEF StringLength
<1> QED
  BY <1>3, <1>5, <1>6 DEF TakeString, Front

\* The elements of a sequence are those of its part, in whatever order.
LEMMA SetToSeqFound ==
  ASSUME NEW S, NEW s \in Seq(S)
  PROVE  SetToSeq(ToSet(s)) \in Seq(S)
<1>1. s \in [1 .. Len(s) -> ToSet(s)] /\ Len(s) \in Nat /\ ToSet(s) \subseteq S
  BY DEF ToSet
<1>2. s \in Surjection(1 .. Len(s), ToSet(s))
  BY <1>1 DEF Surjection, ToSet
<1>3. IsFiniteSet(ToSet(s))
  BY <1>1, <1>2, FS_NatSurjection DEF ExistsSurjection
<1>4. /\ Cardinality(ToSet(s)) \in Nat
      /\ \E f \in [1 .. Cardinality(ToSet(s)) -> ToSet(s)] : IsInjective(f)
  BY <1>3, FS_CardinalityType DEF ExistsBijection, Bijection, Injection
<1>5. SetToSeq(ToSet(s)) \in [1 .. Cardinality(ToSet(s)) -> ToSet(s)]
  BY <1>4 DEF SetToSeq
<1> QED
  BY <1>1, <1>4, <1>5

\* A key holds a sequence of entries, and does so after a write.
LEMMA ContentsSeq ==
  ASSUME NEW q \in Query, NEW s \in Contents(q)
  PROVE  s \in Seq(Entries(q))
<1>1. CASE q = "GetWendousInfo"
  <2>1. PICK data \in [DOMAIN VersionValues -> VersionData \cup {Null}] :
          s = [i \in DOMAIN VersionValues |-> Entry(VersionValues[i], data[i])]
    BY <1>1 DEF Contents
  <2>2. DOMAIN VersionValues = 1 .. 4
    BY DEF VersionValues
  <2>3. \A i \in 1 .. 4 : Entry(VersionValues[i], data[i]) \in Entries(q)
    <3>1. \A i \in 1 .. 4 : VersionValues[i] \in ToSet(VersionValues)
      BY <2>2 DEF ToSet
    <3>2. Entries(q) = Pairs(ToSet(VersionValues), VersionData)
      BY <1>1 DEF Entries
    <3>3. \A i \in 1 .. 4 : data[i] \in VersionData \cup {Null}
      BY <2>2
    <3>4. \A n \in ToSet(VersionValues), d \in VersionData \cup {Null} :
            Entry(n, d) \in Entries(q)
      BY <3>2 DEF Pairs, Entry
    <3> QED
      BY <3>1, <3>3, <3>4
  <2>4. s \in [1 .. 4 -> Entries(q)]
    BY <2>1, <2>2, <2>3
  <2>5. \A n \in Nat : [1 .. n -> Entries(q)] \subseteq Seq(Entries(q))
    OBVIOUS
  <2> QED
    BY <2>4, <2>5
<1>2. CASE q = "RegGetMultiString"
  <2>1. PICK e \in Entries(q) : s = <<e>>
    BY <1>2 DEF Contents
  <2> QED
    BY <2>1
<1>3. CASE q \notin {"GetWendousInfo", "RegGetMultiString"}
  <2>1. s \in BoundedSeq(Entries(q), MaxEntries)
    BY <1>3 DEF Contents
  <2> QED
    BY <2>1, SizeAssumption DEF BoundedSeq, SeqOf
<1> QED
  BY <1>1, <1>2, <1>3

LEMMA WrittenSeq ==
  ASSUME NEW S, NEW s \in Seq(S), NEW t \in Written(s, S)
  PROVE  t \in Seq(S)
<1>1. CASE \E i \in 1 .. Len(s) + 1, e \in S : t = InsertAt(s, i, e)
  <2>1. PICK i \in 1 .. Len(s) + 1, e \in S : t = InsertAt(s, i, e)
    BY <1>1
  <2>2. SubSeq(s, 1, i - 1) \in Seq(S) /\ SubSeq(s, i, Len(s)) \in Seq(S) /\ <<e>> \in Seq(S)
    OBVIOUS
  <2> QED
    BY <2>1, <2>2 DEF InsertAt
<1>2. CASE \E i \in DOMAIN s, e \in S : t = ReplaceAt(s, i, e)
  BY <1>2 DEF ReplaceAt
<1>3. CASE \E i \in DOMAIN s : t = RemoveAt(s, i)
  <2>1. PICK i \in DOMAIN s : t = RemoveAt(s, i)
    BY <1>3
  <2>2. SubSeq(s, 1, i - 1) \in Seq(S) /\ SubSeq(s, i + 1, Len(s)) \in Seq(S)
    OBVIOUS
  <2> QED
    BY <2>1, <2>2 DEF RemoveAt
<1> QED
  BY <1>1, <1>2, <1>3 DEF Written

\* The keys that a query reads are those it will visit.
LEMMA VisitsSeq ==
  ASSUME NEW q
  PROVE  Visits(q) \in Seq(ToSet(Visits(q))) /\ Visits(q) # <<>>
<1>1. \A key : <<key>> \in Seq(ToSet(<<key>>)) /\ <<key>> # <<>>
  BY DEF ToSet
<1> QED
  BY <1>1, KeyAssumption DEF Visits

\* The key being read is one of the source.
LEMMA HereFound ==
  ASSUME SourceFound, pc \notin Ended
  PROVE  /\ Head(call.todo) \in DOMAIN source
         /\ Here \in Seq(Entries(call.query))
<1>1. call.todo \in Seq(DOMAIN source) /\ call.todo # <<>>
  BY DEF SourceFound
<1>2. Head(call.todo) \in DOMAIN source
  BY <1>1
<1> QED
  BY <1>2 DEF SourceFound, Here

-----------------------------------------------------------------------------
(* The shapes of steps. *)

\* A step that stays with the key it is at.
LEMMA SourceStays ==
  ASSUME SourceFound, UNCHANGED <<native, source, past>>, pc \notin Ended,
         call'.query = call.query, call'.todo = call.todo
  PROVE  SourceFound'
<1>1. Held(call.query, source)' = Held(call.query, source)
  BY DEF Held
<1> QED
  BY <1>1 DEF SourceFound

\* A query that has ended has only its result.
LEMMA EndsFound ==
  ASSUME pc' \in Ended, ResultFound', call'.next \in Nat
  PROVE  FoundInv'
BY DEF FoundInv, SourceFound, NamesFound, ValuesRead, Ended

LEMMA ResultStays ==
  ASSUME ResultFound, UNCHANGED native, past' = past \/ (past \subseteq past' /\ PastRead'),
         call'.query = call.query, call'.result = call.result
  PROVE  ResultFound'
<1>1. Gave \subseteq Gave' /\ PastRead'
  BY GaveStays DEF ResultFound
<1>2. call.result \in Seq(Gave) => call.result \in Seq(Gave')
  BY <1>1
<1> QED
  BY <1>1, <1>2 DEF ResultFound

LEMMA ThrowsFound ==
  ASSUME FoundInv, Throw, UNCHANGED <<native, past>>, call'.query = call.query,
         call'.result = call.result, call'.next \in Nat
  PROVE  FoundInv'
<1>1. pc' \in Ended
  BY DEF Throw, Ended
<1> QED
  BY <1>1, ResultStays, EndsFound DEF FoundInv

\* On to the next key, if there is one.
LEMMA LeavesFound ==
  ASSUME IInv, FoundInv, pc \notin Ended, UNCHANGED <<native, source, past>>,
         NEW locals, IsCall(locals), locals.query = call.query, locals.todo = call.todo,
         locals.next \in Nat, ToSet(locals.result) \subseteq Gave,
         locals.query # "RegGetMultiString" => locals.result \in Seq(Gave),
         NEW opened, Leave(locals, opened)
  PROVE  FoundInv'
<1>1. /\ call'.query = call.query /\ call'.todo = Tail(call.todo)
      /\ call'.next = locals.next /\ call'.result = locals.result
  BY DEF Leave, IsCall, Fields
<1>2. ResultFound'
  <2>1. Gave' = Gave /\ PastRead'
    BY <1>1, GaveStays DEF FoundInv, ResultFound
  <2> QED
    BY <1>1, <2>1 DEF ResultFound
<1>3. CASE Len(call.todo) = 1
  <2>1. pc' \in Ended
    BY <1>3 DEF Leave, Ended
  <2> QED
    BY <1>1, <1>2, <2>1, EndsFound
<1>4. CASE Len(call.todo) # 1
  <2>1. pc' = "open"
    BY <1>4 DEF Leave
  <2>2. call.query \notin GivenKey
    BY <1>4 DEF IInv, GivenOnce
  <2>3. ValuesRead' /\ NamesFound'
    BY <1>1, <2>1, <2>2 DEF ValuesRead, NamesFound, GivenKey
  <2>4. call.todo \in Seq(DOMAIN source) /\ call.todo # <<>>
    BY DEF FoundInv, SourceFound
  <2>5. call'.todo \in Seq(DOMAIN source) /\ call'.todo # <<>>
    <3>1. /\ Tail(call.todo) \in Seq(DOMAIN source)
          /\ Len(Tail(call.todo)) = Len(call.todo) - 1
      BY <2>4, HeadTailProperties
    <3>2. Len(call.todo) - 1 # 0 /\ Len(<<>>) = 0
      BY <1>4, <2>4
    <3> QED
      BY <1>1, <3>1, <3>2
  <2>6. Held(call.query, source)' = Held(call.query, source)
    BY <1>1 DEF Held
  <2>7. SourceFound'
    BY <1>1, <2>5, <2>6 DEF FoundInv, SourceFound
  <2> QED
    BY <1>1, <1>2, <2>3, <2>7 DEF FoundInv
<1> QED
  BY <1>3, <1>4

\* Another value.
LEMMA ReadsOnFound ==
  ASSUME FoundInv, UNCHANGED <<native, source, past>>, pc \notin Ended,
         pc' \in {"size", "read"}, call.query \in ByValue,
         call'.query = call.query, call'.todo = call.todo, ResultFound',
         call'.next \in Nat,
         call.query = "GetWendousInfo" =>
           /\ call'.names \in Seq(ValueName) /\ call'.names # <<>>
           /\ Len(call'.result) = call'.next
  PROVE  FoundInv'
<1>1. SourceFound'
  BY SourceStays DEF FoundInv
<1>2. NamesFound' /\ ValuesRead'
  BY DEF NamesFound, ValuesRead
<1> QED
  BY <1>1, <1>2 DEF FoundInv

\* Another string, which was made of what was held.
LEMMA AppendsFound ==
  ASSUME IInv, FoundInv, UNCHANGED <<native, source, past>>, pc \notin Ended,
         pc' = "size", call.query \in ByValue \ {"RegGetMultiString"}, NEW text \in Gave,
         call' = [call EXCEPT !.result = Append(@, text), !.next = @ + 1, !.sub = FALSE]
  PROVE  FoundInv'
<1>1. /\ call'.query = call.query /\ call'.todo = call.todo /\ call'.names = call.names
      /\ call'.next = call.next + 1 /\ call'.result = Append(call.result, text)
  BY DEF IInv, IsCall, Fields
<1>2. call.result \in Seq(Gave) /\ call.next \in Nat
  BY DEF FoundInv, ResultFound
<1>3. /\ call'.result \in Seq(Gave)
      /\ Len(call'.result) = Len(call.result) + 1 /\ call'.next \in Nat
  BY <1>1, <1>2
<1>4. ToSet(call'.result) \subseteq Gave
  BY <1>3 DEF ToSet
<1>5. ResultFound'
  <2>1. Gave' = Gave /\ PastRead'
    BY <1>1, GaveStays DEF FoundInv, ResultFound
  <2> QED
    BY <1>1, <1>3, <1>4, <2>1 DEF ResultFound
<1>6. call.query = "GetWendousInfo" =>
        /\ call.names \in Seq(ValueName) /\ call.names # <<>>
        /\ Len(call.result) = call.next
  BY DEF FoundInv, ValuesRead
<1> QED
  BY <1>1, <1>3, <1>5, <1>6, ReadsOnFound

-----------------------------------------------------------------------------

LEMMA ReadFailsFound ==
  ASSUME IInv, FoundInv, Reading, ReadFails, UNCHANGED <<native, source, past>>
  PROVE  FoundInv'
<1>1. pc \notin Ended /\ call.next \in Nat /\ call.query \in ByValue
  BY DEF Reading, Ended, FoundInv, ValuesRead
<1>2. CASE call.query = "RegGetMultiString"
  BY <1>1, <1>2, ThrowsFound DEF ReadFails
<1>3. CASE call.query = "GetWendousInfo"
  <2>1. <<>> \in Gave
    BY <1>3, EmptyGiven
  <2>2. pc' = "size"
    BY <1>3 DEF ReadFails
  <2>3. call' = [call EXCEPT !.result = Append(@, <<>>), !.next = @ + 1, !.sub = FALSE]
    BY <1>3 DEF ReadFails, IInv, IsCall, Fields
  <2> QED
    BY <1>1, <1>3, <2>1, <2>2, <2>3, AppendsFound
<1>4. CASE call.query \notin {"RegGetMultiString", "GetWendousInfo"}
  <2>1. /\ pc' = "size" /\ call'.query = call.query /\ call'.todo = call.todo
        /\ call'.next = call.next + 1 /\ call'.result = call.result
    BY <1>4 DEF ReadFails, IInv, IsCall, Fields
  <2>2. ResultFound'
    BY <2>1, ResultStays DEF FoundInv
  <2> QED
    BY <1>1, <1>4, <2>1, <2>2, ReadsOnFound
<1> QED
  BY <1>2, <1>3, <1>4

LEMMA InitFound == Init => FoundInv
<1> SUFFICES ASSUME Init PROVE FoundInv
  OBVIOUS
<1>1. call = Fresh("RegEnumValues", {}) /\ pc = "idle" /\ past = {}
  BY DEF Init
<1>2. call.result = <<>> /\ call.next = 0
  BY <1>1 DEF Fresh
<1>3. ToSet(<<>>) = {} /\ <<>> \in Seq(Gave)
  BY DEF ToSet
<1>4. ResultFound
  BY <1>1, <1>2, <1>3 DEF ResultFound, PastRead
<1>5. SourceFound /\ NamesFound /\ ValuesRead
  BY <1>1 DEF SourceFound, NamesFound, ValuesRead, Ended
<1> QED
  BY <1>2, <1>4, <1>5 DEF FoundInv

\* What the keys hold when the query starts is on record.
LEMMA CallersFound ==
  ASSUME FoundInv, (\E q \in Query : Begin(q)) \/ Finish
  PROVE  FoundInv'
<1>1. ToSet(<<>>) = {}
  BY DEF ToSet
<1>2. CASE \E q \in Query : Begin(q)
  <2>1. PICK q \in Query : Begin(q)
    BY <1>2
  <2>2. PICK closed \in SUBSET ToSet(Visits(q)) : call' = Fresh(q, closed)
    BY <2>1 DEF Begin
  <2>3. /\ call'.query = q /\ call'.todo = Visits(q) /\ call'.result = <<>>
        /\ call'.next = 0
        /\ q = "GetWendousInfo" => call'.names = <<"CSDVersion">>
    BY <2>2 DEF Fresh
  <2>4. PICK s \in [ToSet(Visits(q)) -> Contents(q)] : source' = s /\ past' = Held(q, s)
    BY <2>1 DEF Begin
  <2>5. \A p \in DOMAIN source' : source'[p] \in Seq(Entries(q))
    BY <2>4, ContentsSeq
  <2>6. native' = native
    BY <2>1 DEF Begin
  <2>7. Held(call.query, source)' = past'
    BY <2>3, <2>4, <2>6 DEF Held
  <2>8. SourceFound'
    BY <2>3, <2>4, <2>5, <2>7, VisitsSeq DEF SourceFound
  <2>9. ResultFound'
    <3>1. PastRead'
      BY <2>3, <2>4, <2>5, HeldRead DEF PastRead
    <3>2. <<>> \in Seq(Gave')
      OBVIOUS
    <3> QED
      BY <1>1, <2>3, <3>1, <3>2 DEF ResultFound
  <2>10. pc' = IF q \in OwnKey THEN "open" ELSE IF q \in ByValue THEN "size" ELSE "info"
    BY <2>1 DEF Begin
  <2>11. <<"CSDVersion">> \in Seq(ValueName)
    <3>1. VersionValues[1] = "CSDVersion" /\ 1 \in DOMAIN VersionValues
      BY DEF VersionValues
    <3>2. "CSDVersion" \in ValueName
      BY <3>1 DEF ValueName, ToSet
    <3> QED
      BY <3>2
  <2>12. ValuesRead'
    <3>1. /\ q \in {"GetWendousInfo", "RegGetMultiString"} => pc' = "size"
          /\ pc' \in {"size", "read"} => q \in ByValue
      BY <2>10 DEF OwnKey, ByValue
    <3>2. <<"CSDVersion">> # <<>> /\ Len(<<>>) = 0
      OBVIOUS
    <3> QED
      BY <2>3, <2>11, <3>1, <3>2 DEF ValuesRead
  <2>13. NamesFound'
    BY <2>10 DEF NamesFound
  <2> QED
    BY <2>3, <2>8, <2>9, <2>12, <2>13 DEF FoundInv
<1>3. CASE Finish
  <2>1. pc' = "idle" /\ call' = Fresh("RegEnumValues", {})
    BY <1>3 DEF Finish
  <2>2. call'.result = <<>> /\ call'.next = 0
    BY <2>1 DEF Fresh
  <2>3. ResultFound'
    <3>1. PastRead'
      BY <1>3 DEF Finish, PastRead
    <3>2. <<>> \in Seq(Gave')
      OBVIOUS
    <3> QED
      BY <1>1, <2>2, <3>1, <3>2 DEF ResultFound
  <2> QED
    BY <2>1, <2>2, <2>3, EndsFound DEF Ended
<1> QED
  BY <1>2, <1>3

LEMMA OpenFound ==
  ASSUME IInv, FoundInv, OpenKey \/ OpenFails
  PROVE  FoundInv'
<1>1. /\ pc = "open" /\ pc \notin Ended /\ UNCHANGED <<native, source, past>>
      /\ IsCall(call) /\ call.next \in Nat
  BY DEF OpenKey, OpenFails, others, Ended, IInv, FoundInv
<1>2. call.query \in {"GetInstalledAppList", "DumpInfo"}
  BY <1>1 DEF IInv, GivenOnce, OwnKey
<1>3. CASE OpenKey
  <2>1. pc' = "info" /\ UNCHANGED call
    BY <1>3 DEF OpenKey
  <2>2. SourceFound' /\ ResultFound'
    BY <1>1, <2>1, SourceStays, ResultStays DEF FoundInv
  <2>3. NamesFound' /\ ValuesRead'
    BY <1>2, <2>1 DEF NamesFound, ValuesRead
  <2> QED
    BY <1>1, <2>1, <2>2, <2>3 DEF FoundInv
<1>4. CASE OpenFails
  <2>1. CASE Throw /\ UNCHANGED call
    BY <1>1, <2>1, ThrowsFound
  <2>2. CASE Leave(call, 0)
    BY <1>1, <1>2, <2>2, LeavesFound DEF FoundInv, ResultFound
  <2> QED
    BY <1>4, <2>1, <2>2 DEF OpenFails
<1> QED
  BY <1>3, <1>4

LEMMA QueryInfoFound ==
  ASSUME IInv, FoundInv, QueryInfo
  PROVE  FoundInv'
<1>1. /\ pc = "info" /\ pc \notin Ended /\ pc' = "enum"
      /\ UNCHANGED <<native, source, past>>
  BY DEF QueryInfo, others, Ended
<1>2. /\ call'.query = call.query /\ call'.todo = call.todo
      /\ call'.result = call.result /\ call'.next = 0 /\ call'.names = <<>>
  BY DEF QueryInfo, IInv, IsCall, Fields
<1>3. SourceFound' /\ ResultFound'
  BY <1>1, <1>2, SourceStays, ResultStays DEF FoundInv
<1>4. call.query \notin {"GetWendousInfo", "RegGetMultiString"}
  BY <1>1 DEF FoundInv, ValuesRead
<1>5. NamesFound' /\ ValuesRead'
  BY <1>1, <1>2, <1>4 DEF NamesFound, ValuesRead
<1> QED
  BY <1>2, <1>3, <1>5 DEF FoundInv

\* The name is read where an entry is now, whatever was counted.
LEMMA EnumNextFound ==
  ASSUME IInv, FoundInv, EnumNext
  PROVE  FoundInv'
<1>1. /\ pc = "enum" /\ pc \notin Ended /\ UNCHANGED <<native, source, past>>
      /\ call.next \in Nat
  BY DEF EnumNext, others, Ended, FoundInv
<1>2. CASE Throw /\ UNCHANGED call
  BY <1>1, <1>2, ThrowsFound
<1>3. CASE /\ call.next < Len(Here) /\ UNCHANGED pc
           /\ call' = [call EXCEPT !.next = @ + 1,
                                   !.names = Append(@, Kept(Here[call.next + 1]))]
  <2>1. /\ call'.query = call.query /\ call'.todo = call.todo
        /\ call'.result = call.result /\ call'.next = call.next + 1
        /\ call'.names = Append(call.names, Kept(Here[call.next + 1]))
    BY <1>3 DEF IInv, IsCall, Fields
  <2>2. SourceFound' /\ ResultFound'
    BY <1>1, <2>1, SourceStays, ResultStays DEF FoundInv
  <2>3. call.query \notin {"GetWendousInfo", "RegGetMultiString"}
    BY <1>1 DEF FoundInv, ValuesRead
  <2>4. /\ Head(call.todo) \in DOMAIN source
        /\ Here \in Seq(Entries(call.query))
        /\ Held(call.query, source) \subseteq past
    BY <1>1, HereFound DEF FoundInv, SourceFound
  <2>5. call.next + 1 \in DOMAIN Here
    BY <1>1, <1>3, <2>4
  <2>6. call.query \in {"DumpInfo", "RegEnumValues"} => Kept(Here[call.next + 1]) \in Gave
    <3>1. PICK kept : kept = Kept(Here[call.next + 1])
      OBVIOUS
    <3>2. call.query \in {"DumpInfo", "RegEnumValues"} => kept \in past
      BY <2>4, <2>5, <3>1, EntryHeld DEF Kept, Here
    <3>3. call.query \in {"DumpInfo", "RegEnumValues"} => Makes(call.query, kept) = {kept}
      BY DEF Makes
    <3> QED
      BY <3>1, <3>2, <3>3, MadeGiven
  <2>7. NamesFound'
    <3>1. SUFFICES ASSUME call.query \in {"DumpInfo", "RegEnumValues"}
                   PROVE  call'.names \in Seq(Gave)
      <4>1. Gave' = Gave
        BY <1>1, <2>1, GaveStays
      <4> QED
        BY <1>1, <2>1, <4>1 DEF NamesFound
    <3>2. call.names \in Seq(Gave)
      BY <1>1, <3>1 DEF FoundInv, NamesFound
    <3> QED
      BY <2>1, <2>6, <3>1, <3>2
  <2>8. ValuesRead'
    BY <1>1, <1>3, <2>1, <2>3 DEF ValuesRead
  <2> QED
    BY <1>1, <2>1, <2>2, <2>7, <2>8 DEF FoundInv
<1> QED
  BY <1>2, <1>3 DEF EnumNext

\* The names that were read are the result, or join it.
LEMMA EnumEndsFound ==
  ASSUME IInv, FoundInv, EnumEnds
  PROVE  FoundInv'
<1>1. /\ pc = "enum" /\ pc \notin Ended /\ UNCHANGED <<native, source, past>>
      /\ IsCall(call) /\ call.next \in Nat
  BY DEF EnumEnds, others, Ended, IInv, FoundInv
<1>2. CASE call.query = "RegEnumValues"
  <2>1. PICK locals : locals = [call EXCEPT !.result = call.names]
    OBVIOUS
  <2>2. /\ IsCall(locals) /\ locals.query = call.query /\ locals.todo = call.todo
        /\ locals.next = call.next /\ locals.result = call.names
    BY <1>1, <2>1 DEF IsCall, Fields
  <2>3. Leave(locals, 0)
    BY <1>2, <2>1 DEF EnumEnds
  <2>4. call.names \in Seq(Gave)
    BY <1>1, <1>2 DEF FoundInv, NamesFound
  <2>5. ToSet(call.names) \subseteq Gave
    BY <2>4 DEF ToSet
  <2> QED
    BY <1>1, <2>2, <2>3, <2>4, <2>5, LeavesFound
<1>3. CASE call.query = "DumpInfo"
  <2>1. PICK result : result = SetToSeq(ToSet(call.result \o call.names))
    OBVIOUS
  <2>2. PICK locals : locals = [call EXCEPT !.result = result]
    OBVIOUS
  <2>3. /\ IsCall(locals) /\ locals.query = call.query /\ locals.todo = call.todo
        /\ locals.next = call.next /\ locals.result = result
    BY <1>1, <2>2 DEF IsCall, Fields
  <2>4. Leave(locals, 1)
    BY <1>1, <1>3, <2>1, <2>2 DEF EnumEnds, IsCall, Fields
  <2>5. call.names \in Seq(Gave) /\ call.result \in Seq(Gave)
    BY <1>1, <1>3 DEF FoundInv, NamesFound, ResultFound
  <2>6. result \in Seq(Gave)
    <3>1. call.result \o call.names \in Seq(Gave)
      BY <2>5
    <3> QED
      BY <2>1, <3>1, SetToSeqFound
  <2>7. ToSet(result) \subseteq Gave
    BY <2>6 DEF ToSet
  <2> QED
    BY <1>1, <2>3, <2>4, <2>6, <2>7, LeavesFound
<1>4. CASE call.query \notin {"RegEnumValues", "DumpInfo"}
  <2>1. pc' = "size" /\ call' = [call EXCEPT !.next = 0]
    BY <1>4 DEF EnumEnds
  <2>2. /\ call'.query = call.query /\ call'.todo = call.todo
        /\ call'.result = call.result /\ call'.next = 0
    BY <1>1, <2>1 DEF IsCall, Fields
  <2>3. ResultFound'
    BY <1>1, <2>2, ResultStays DEF FoundInv
  <2>4. call.query # "GetWendousInfo" /\ call.query \in ByValue
    BY <1>1, <1>4 DEF FoundInv, ValuesRead, IsCall, Query, OwnKey, GivenKey, ByValue
  <2> QED
    BY <1>1, <2>1, <2>2, <2>3, <2>4, ReadsOnFound
<1> QED
  BY <1>2, <1>3, <1>4

\* The key of the fallback, and the size that is allocated.
LEMMA AskSizeFound ==
  ASSUME IInv, FoundInv, OpenSub \/ SubGone \/ AskSize
  PROVE  FoundInv'
<1>1. /\ Reading /\ pc \notin Ended /\ pc \in {"size", "read"}
      /\ UNCHANGED <<native, source, past>> /\ IsCall(call) /\ call.next \in Nat
      /\ call.query \in ByValue
  BY DEF OpenSub, SubGone, AskSize, Reading, others, Ended, IInv, FoundInv, ValuesRead
<1>2. CASE ReadFails
  BY <1>1, <1>2, ReadFailsFound
<1>3. CASE ~ReadFails
  <2>1. /\ pc' \in {"size", "read"}
        /\ \/ call' = [call EXCEPT !.sub = TRUE]
           \/ \E room : call' = [call EXCEPT !.room = room, !.sub = FALSE]
    BY <1>1, <1>3 DEF OpenSub, SubGone, AskSize
  <2>2. /\ call'.query = call.query /\ call'.todo = call.todo /\ call'.names = call.names
        /\ call'.result = call.result /\ call'.next = call.next
    BY <1>1, <2>1 DEF IsCall, Fields
  <2>3. ResultFound'
    BY <1>1, <2>2, ResultStays DEF FoundInv
  <2>4. call.query = "GetWendousInfo" =>
          /\ call.names \in Seq(ValueName) /\ call.names # <<>>
          /\ Len(call.result) = call.next
    BY <1>1 DEF FoundInv, ValuesRead
  <2> QED
    BY <1>1, <2>1, <2>2, <2>3, <2>4, ReadsOnFound
<1> QED
  BY <1>2, <1>3

\* What is read now, whatever size was asked for, is taken whole or not at all.
LEMMA ReadStringFound ==
  ASSUME IInv, FoundInv, ReadString
  PROVE  FoundInv'
<1>1. /\ Reading /\ pc \notin Ended /\ pc = "read" /\ call.query # "RegGetMultiString"
      /\ UNCHANGED <<native, source, past>> /\ IsCall(call) /\ call.next \in Nat
      /\ call.query \in ByValue
  BY DEF ReadString, Reading, others, Ended, IInv, FoundInv, ValuesRead
<1>2. CASE ReadFails
  BY <1>1, <1>2, ReadFailsFound
<1>3. CASE Throw /\ call' = [call EXCEPT !.sub = FALSE]
  <2>1. call'.query = call.query /\ call'.result = call.result /\ call'.next = call.next
    BY <1>1, <1>3 DEF IsCall, Fields
  <2> QED
    BY <1>1, <1>3, <2>1, ThrowsFound
<1>4. CASE ~ReadFails /\ ~(Throw /\ call' = [call EXCEPT !.sub = FALSE])
  <2>1. PICK data : data = RegGetValueA_sp(Value)
    OBVIOUS
  <2>2. /\ data # Null /\ ~(StringLength(data) > MaxString) /\ pc' = "size"
        /\ call' = [call EXCEPT !.result = Append(@, TakeString(data)),
                                !.next = @ + 1, !.sub = FALSE]
    BY <1>4, <2>1 DEF ReadString
  <2>3. PICK i \in DOMAIN Here : Here[i].data # Null /\ data = Given(call.query, Here[i].data)
    BY <2>1, <2>2, ReadsEntry
  <2>4. /\ Head(call.todo) \in DOMAIN source
        /\ Here \in Seq(Entries(call.query))
        /\ Held(call.query, source) \subseteq past
    BY <1>1, HereFound DEF FoundInv, SourceFound
  <2>5. Here[i] \in Entries(call.query)
    BY <2>4
  <2>6. call.query \in {"GetInstalledAppList", "GetWendousInfo"}
    BY <1>1 DEF ByValue
  <2>7. TakeString(data) \in Gave
    <3>1. PICK held : held = Here[i].data
      OBVIOUS
    <3>2. TakeString(data) = Front(data)
      BY <2>2, <2>3, <2>5, <2>6, TakesFront
    <3>3. held \in past
      BY <1>1, <2>3, <2>4, <3>1, EntryHeld DEF Here
    <3>4. Front(data) \in Makes(call.query, held)
      BY <2>3, <2>6, <3>1 DEF Makes
    <3> QED
      BY <3>2, <3>3, <3>4, MadeGiven
  <2> QED
    BY <1>1, <2>2, <2>7, AppendsFound
<1> QED
  BY <1>2, <1>3, <1>4

\* Each string of a multi-string that is read was held with it.
LEMMA ReadMultiStringFound ==
  ASSUME IInv, FoundInv, ReadMultiString
  PROVE  FoundInv'
<1>1. /\ Reading /\ pc \notin Ended /\ call.query = "RegGetMultiString"
      /\ UNCHANGED <<native, source, past>> /\ IsCall(call) /\ call.next \in Nat
  BY DEF ReadMultiString, Reading, others, Ended, IInv, FoundInv
<1>2. CASE ReadFails
  BY <1>1, <1>2, ReadFailsFound
<1>3. CASE ~ReadFails
  <2>1. PICK data : data = RegGetValueA_sp(Value)
    OBVIOUS
  <2>2. PICK locals : locals = [call EXCEPT !.result = MultiStrings(data)]
    OBVIOUS
  <2>3. /\ IsCall(locals) /\ locals.query = call.query /\ locals.todo = call.todo
        /\ locals.next = call.next /\ locals.result = MultiStrings(data)
    BY <1>1, <2>2 DEF IsCall, Fields
  <2>4. data # Null /\ Leave(locals, 0)
    BY <1>3, <2>1, <2>2 DEF ReadMultiString
  <2>5. PICK i \in DOMAIN Here : Here[i].data # Null /\ data = Given(call.query, Here[i].data)
    BY <2>1, <2>4, ReadsEntry
  <2>6. Head(call.todo) \in DOMAIN source /\ Held(call.query, source) \subseteq past
    BY <1>1, HereFound DEF FoundInv, SourceFound
  <2>7. ToSet(MultiStrings(data)) \subseteq Gave
    <3>1. PICK held : held = Here[i].data
      OBVIOUS
    <3>2. held \in past
      BY <1>1, <2>5, <2>6, <3>1, EntryHeld DEF Here, ByValue
    <3>3. Makes(call.query, held) = ToSet(MultiStrings(data))
      BY <1>1, <2>5, <3>1 DEF Makes
    <3> QED
      BY <3>2, <3>3, MadeGiven
  <2> QED
    BY <1>1, <2>3, <2>4, <2>7, LeavesFound
<1> QED
  BY <1>2, <1>3

LEMMA CloseKeyFound ==
  ASSUME IInv, FoundInv, CloseKey
  PROVE  FoundInv'
<1>1. /\ pc \notin Ended /\ call.query = "GetInstalledAppList" /\ Leave(call, 1)
      /\ UNCHANGED <<native, source, past>>
  BY DEF CloseKey, others, Ended
<1>2. call.next \in Nat /\ call.result \in Seq(Gave) /\ ToSet(call.result) \subseteq Gave
  BY <1>1 DEF FoundInv, ResultFound
<1> QED
  BY <1>1, <1>2, LeavesFound DEF IInv

\* The strings of the version are the ones read, with the first one last.
LEMMA GetWendousInfoFound ==
  ASSUME IInv, FoundInv, GetWendousInfo
  PROVE  FoundInv'
<1>1. /\ pc = "size" /\ pc \notin Ended /\ call.query = "GetWendousInfo"
      /\ UNCHANGED <<native, source, past>> /\ IsCall(call) /\ call.next \in Nat
      /\ call.query \in ByValue /\ call.next = Len(call.names)
  BY DEF GetWendousInfo, others, Ended, IInv, FoundInv, ByValue
<1>2. /\ call.names \in Seq(ValueName) /\ call.names # <<>>
      /\ Len(call.result) = call.next /\ call.result \in Seq(Gave)
  BY <1>1 DEF FoundInv, ValuesRead, ResultFound
<1>3. call.result # <<>>
  BY <1>1, <1>2
<1>4. Head(call.result) \in Gave /\ Tail(call.result) \in Seq(Gave)
  BY <1>2, <1>3, HeadTailProperties
<1>5. CASE call.next = 1
  <2>1. PICK names : names = IF Head(call.result) = <<>> THEN VersionValues
                                                        ELSE SubSeq(VersionValues, 1, 2)
    OBVIOUS
  <2>2. call' = [call EXCEPT !.names = names] /\ pc' = pc
    BY <1>5, <2>1 DEF GetWendousInfo
  <2>3. /\ call'.query = call.query /\ call'.todo = call.todo /\ call'.names = names
        /\ call'.result = call.result /\ call'.next = call.next
    BY <1>1, <2>2 DEF IsCall, Fields
  <2>4. names \in Seq(ValueName) /\ names # <<>>
    <3>1. \A i \in 1 .. 4 : VersionValues[i] \in ValueName
      <4>1. DOMAIN VersionValues = 1 .. 4
        BY DEF VersionValues
      <4> QED
        BY <4>1 DEF ValueName, ToSet
    <3>2. VersionValues \in Seq(ValueName) /\ Len(VersionValues) = 4
      <4>1. /\ VersionValues[1] \in ValueName /\ VersionValues[2] \in ValueName
            /\ VersionValues[3] \in ValueName /\ VersionValues[4] \in ValueName
        BY <3>1
      <4> QED
        BY <4>1 DEF VersionValues
    <3>3. SubSeq(VersionValues, 1, 2) \in Seq(ValueName) /\ Len(SubSeq(VersionValues, 1, 2)) = 2
      BY <3>1, <3>2, SubSeqProperties
    <3>4. \A some \in Seq(ValueName) : Len(some) # 0 => some # <<>>
      OBVIOUS
    <3> QED
      BY <2>1, <3>2, <3>3, <3>4
  <2>5. ResultFound'
    BY <1>1, <2>3, ResultStays DEF FoundInv
  <2> QED
    BY <1>1, <1>2, <2>2, <2>3, <2>4, <2>5, ReadsOnFound
<1>6. CASE call.next # 1
  <2>1. PICK result : result = IF Head(call.result) = <<>> THEN Tail(call.result)
                               ELSE Append(Tail(call.result), Head(call.result))
    OBVIOUS
  <2>2. PICK locals : locals = [call EXCEPT !.result = result]
    OBVIOUS
  <2>3. /\ IsCall(locals) /\ locals.query = call.query /\ locals.todo = call.todo
        /\ locals.next = call.next /\ locals.result = result
    BY <1>1, <2>2 DEF IsCall, Fields
  <2>4. Leave(locals, 0)
    BY <1>6, <2>1, <2>2 DEF GetWendousInfo
  <2>5. result \in Seq(Gave)
    BY <1>4, <2>1
  <2>6. ToSet(result) \subseteq Gave
    BY <2>5 DEF ToSet
  <2> QED
    BY <1>1, <2>3, <2>4, <2>5, <2>6, LeavesFound
<1> QED
  BY <1>5, <1>6

-----------------------------------------------------------------------------

LEMMA SystemFailsFound ==
  ASSUME IInv, FoundInv, SystemFails
  PROVE  FoundInv'
<1>1. UNCHANGED <<native, source, past>> /\ call.next \in Nat
  BY DEF SystemFails, others, FoundInv
<1>2. CASE Reading /\ ReadFails
  BY <1>1, <1>2, ReadFailsFound
<1>3. CASE Throw /\ UNCHANGED call
  BY <1>1, <1>3, ThrowsFound
<1> QED
  BY <1>2, <1>3 DEF SystemFails

\* What is written is on record from then on, and what was there remains so.
LEMMA OtherWritesFound ==
  ASSUME IInv, FoundInv, OtherWrites
  PROVE  FoundInv'
<1>1. pc \notin Ended /\ UNCHANGED <<native, pc, call>>
  BY DEF OtherWrites
<1>0. PICK p \in DOMAIN source : \E s \in Written(source[p], Entries(call.query)) :
                                   source' = [source EXCEPT ![p] = s]
  BY DEF OtherWrites
<1>2. PICK s \in Written(source[p], Entries(call.query)) : source' = [source EXCEPT ![p] = s]
  BY <1>0
<1>3. past' = past \cup Held(call.query, source')
  BY DEF OtherWrites
<1>4. \A k \in DOMAIN source' : source'[k] \in Seq(Entries(call.query))
  <2>1. \A k \in DOMAIN source : source[k] \in Seq(Entries(call.query))
    BY <1>1 DEF FoundInv, SourceFound
  <2>2. s \in Seq(Entries(call.query))
    BY <1>2, <2>1, WrittenSeq
  <2> QED
    BY <1>2, <2>1, <2>2
<1>5. Held(call.query, source)' = Held(call.query, source')
  BY <1>1 DEF Held
<1>6. SourceFound'
  <2>1. DOMAIN source' = DOMAIN source
    BY <1>2
  <2> QED
    BY <1>1, <1>3, <1>4, <1>5, <2>1 DEF FoundInv, SourceFound
<1>7. \A result : result \in Seq(Gave) => result \in Seq(Gave')
  <2>1. Gave \subseteq Gave'
    BY <1>1, <1>3, GaveStays
  <2> QED
    BY <2>1
<1>8. NamesFound' /\ ValuesRead'
  BY <1>1, <1>7 DEF FoundInv, NamesFound, ValuesRead
<1>9. ResultFound'
  <2>1. PastRead'
    BY <1>1, <1>3, <1>4, HeldRead DEF FoundInv, ResultFound, PastRead
  <2> QED
    BY <1>1, <1>3, <2>1, ResultStays DEF FoundInv
<1> QED
  BY <1>1, <1>6, <1>8, <1>9 DEF FoundInv

LEMMA StepFound == IInv /\ FoundInv /\ [Next]_vars => FoundInv'
<1> SUFFICES ASSUME IInv, FoundInv, [Next]_vars PROVE FoundInv'
  OBVIOUS
<1>1. CASE UNCHANGED vars
  <2>1. UNCHANGED <<native, source, past, pc, call>>
    BY <1>1 DEF vars, others
  <2>2. Held(call.query, source)' = Held(call.query, source)
    BY <2>1 DEF Held
  <2>3. ResultFound'
    BY <2>1, ResultStays DEF FoundInv
  <2>4. Gave' = Gave
    BY <2>1, GaveStays
  <2> QED
    BY <2>1, <2>2, <2>3, <2>4 DEF FoundInv, SourceFound, NamesFound, ValuesRead
<1> QED
  BY <1>1, CallersFound, OpenFound, QueryInfoFound, EnumNextFound, EnumEndsFound, AskSizeFound,
     ReadStringFound, ReadMultiStringFound, CloseKeyFound, GetWendousInfoFound,
     SystemFailsFound, OtherWritesFound DEF Next

THEOREM FoundHolds == Spec => []FoundInv
BY InvHolds, InitFound, StepFound, PTL DEF Spec

-----------------------------------------------------------------------------
(* The characters of a value, one by one. *)

\* A prefix, character by character.
LEMMA PrefixByElement ==
  ASSUME NEW S, NEW T, NEW a \in Seq(S), NEW b \in Seq(T)
  PROVE  IsPrefix(a, b) <=> Len(a) <= Len(b) /\ \A i \in 1 .. Len(a) : a[i] = b[i]
<1> PICK n \in Nat : n = Len(a)
  OBVIOUS
<1>1. CASE ~(n <= Len(b))
  BY <1>1 DEF IsPrefix
<1>2. CASE n <= Len(b)
  <2>1. PICK c : c = SubSeq(a, 1, n)
    OBVIOUS
  <2>2. PICK d : d = SubSeq(b, 1, n)
    OBVIOUS
  <2>3. /\ c = [i \in 1 .. n |-> a[i]] /\ d = [i \in 1 .. n |-> b[i]]
    BY <1>2, <2>1, <2>2
  <2>4. c = d <=> \A i \in 1 .. n : a[i] = b[i]
    BY <2>3
  <2> QED
    BY <1>2, <2>1, <2>2, <2>4 DEF IsPrefix
<1> QED
  BY <1>1, <1>2

\* What it is to end in a NUL, or two.
LEMMA EndsInNul ==
  ASSUME NEW S, NEW data \in Seq(S)
  PROVE  /\ EndsIn(data, <<Nul>>) <=> Len(data) >= 1 /\ data[Len(data)] = Nul
         /\ EndsIn(data, <<Nul, Nul>>) <=>
              Len(data) >= 2 /\ data[Len(data)] = Nul /\ data[Len(data) - 1] = Nul
<1> PICK n \in Nat : n = Len(data)
  OBVIOUS
<1>1. PICK r : r = Reverse(data)
  OBVIOUS
<1>2. /\ r \in Seq(S) /\ Len(r) = n
      /\ \A i \in 1 .. n : r[i] = data[n - i + 1]
  BY <1>1 DEF Reverse
<1>3. Reverse(<<Nul>>) = <<Nul>> /\ Reverse(<<Nul, Nul>>) = <<Nul, Nul>>
  BY DEF Reverse
<1>4. /\ EndsIn(data, <<Nul>>) <=> IsPrefix(<<Nul>>, r)
      /\ EndsIn(data, <<Nul, Nul>>) <=> IsPrefix(<<Nul, Nul>>, r)
  BY <1>1, <1>3 DEF EndsIn, IsSuffix
<1>5. IsPrefix(<<Nul>>, r) <=> n >= 1 /\ r[1] = Nul
  <2>1. PICK one : one = <<Nul>>
    OBVIOUS
  <2>2. one \in Seq(S \cup {Nul}) /\ Len(one) = 1 /\ one[1] = Nul
    BY <2>1
  <2>3. IsPrefix(one, r) <=> Len(one) <= Len(r) /\ \A i \in 1 .. Len(one) : one[i] = r[i]
    <3>1. PICK U : U = S \cup {Nul}
      OBVIOUS
    <3>2. one \in Seq(U) /\ r \in Seq(S)
      BY <1>2, <2>2, <3>1
    <3> QED
      BY <3>2, PrefixByElement
  <2> QED
    BY <1>2, <2>1, <2>2, <2>3
<1>6. IsPrefix(<<Nul, Nul>>, r) <=> n >= 2 /\ r[1] = Nul /\ r[2] = Nul
  <2>1. PICK two : two = <<Nul, Nul>>
    OBVIOUS
  <2>2. two \in Seq(S \cup {Nul}) /\ Len(two) = 2 /\ two[1] = Nul /\ two[2] = Nul
    BY <2>1
  <2>3. IsPrefix(two, r) <=> Len(two) <= Len(r) /\ \A i \in 1 .. Len(two) : two[i] = r[i]
    <3>1. PICK U : U = S \cup {Nul}
      OBVIOUS
    <3>2. two \in Seq(U) /\ r \in Seq(S)
      BY <1>2, <2>2, <3>1
    <3> QED
      BY <3>2, PrefixByElement
  <2>4. \A i \in 1 .. 2 : i = 1 \/ i = 2
    OBVIOUS
  <2> QED
    BY <1>2, <2>1, <2>2, <2>3, <2>4
<1>7. n >= 1 => r[1] = data[n]
  <2>1. n - 1 + 1 = n
    OBVIOUS
  <2> QED
    BY <1>2, <2>1
<1>8. n >= 2 => r[2] = data[n - 1]
  <2>1. n - 2 + 1 = n - 1
    OBVIOUS
  <2> QED
    BY <1>2, <2>1
<1> QED
  BY <1>4, <1>5, <1>6, <1>7, <1>8

\* The end of a sequence that two characters were added to.
LEMMA AfterTwo ==
  ASSUME NEW S, NEW s \in Seq(S), NEW two \in Seq(S), Len(two) = 2,
         NEW both, both = s \o two
  PROVE  /\ both \in Seq(S) /\ Len(both) >= 2
         /\ both[Len(both)] = two[2] /\ both[Len(both) - 1] = two[1]
<1>1. PICK n \in Nat : n = Len(s)
  OBVIOUS
<1>3. /\ both \in Seq(S) /\ Len(both) = Len(s) + Len(two)
      /\ \A i \in 1 .. Len(s) + Len(two) : both[i] = IF i <= Len(s) THEN s[i] ELSE two[i - Len(s)]
  BY ConcatProperties
<1>4. Len(both) = n + 2 /\ n + 2 - n = 2 /\ n + 1 - n = 1 /\ n + 2 - 1 = n + 1
  BY <1>1, <1>3
<1>5. both[n + 2] = two[n + 2 - n] /\ both[n + 1] = two[n + 1 - n]
  BY <1>1, <1>3
<1> QED
  BY <1>3, <1>4, <1>5

\* What a multi-string is given as ends in two NULs.
LEMMA GivenEnds ==
  ASSUME NEW S, Nul \in S, NEW data \in Seq(S), NEW given, given = Given("RegGetMultiString", data)
  PROVE  /\ given \in Seq(S) /\ Len(given) >= 2
         /\ given[Len(given)] = Nul /\ given[Len(given) - 1] = Nul
<1>1. CASE EndsIn(data, <<Nul, Nul>>)
  BY <1>1, EndsInNul DEF Given
<1>2. CASE ~EndsIn(data, <<Nul, Nul>>) /\ EndsIn(data, <<Nul>>)
  <2>1. given = Append(data, Nul)
    BY <1>2 DEF Given
  <2>2. Len(data) >= 1 /\ data[Len(data)] = Nul
    BY <1>2, EndsInNul
  <2> QED
    BY <2>1, <2>2
<1>3. CASE ~EndsIn(data, <<Nul, Nul>>) /\ ~EndsIn(data, <<Nul>>)
  <2>1. given = data \o <<Nul, Nul>>
    BY <1>3 DEF Given
  <2>6. PICK two : two = <<Nul, Nul>>
    OBVIOUS
  <2>2. two \in Seq(S) /\ two = <<Nul, Nul>> /\ Len(two) = 2 /\ two[1] = Nul /\ two[2] = Nul
    BY <2>6
  <2>3. given = data \o two
    BY <2>1, <2>6
  <2>4. two \in Seq(S) /\ Len(two) = 2 /\ two[1] = Nul /\ two[2] = Nul
    BY <2>2
  <2>5. /\ given \in Seq(S) /\ Len(given) >= 2
        /\ given[Len(given)] = two[2] /\ given[Len(given) - 1] = two[1]
    <3>1. two \in Seq(S) /\ Len(two) = 2
      BY <2>4
    <3> QED
      BY <2>3, <3>1, AfterTwo, Zenon
  <2> QED
    BY <2>4, <2>5
<1> QED
  BY <1>1, <1>2, <1>3

\* The strings that have ended before the i-th character, and the one that has
\* begun.
OneMore(r, char) ==
  IF char = Nul THEN [ended |-> Append(r.ended, r.begun), begun |-> <<>>]
                ELSE [r EXCEPT !.begun = Append(@, char)]
Cuts(h, S, data, n) ==
  /\ h \in [0 .. n -> [ended : Seq(Seq(S)), begun : Seq(S)]]
  /\ h[0] = [ended |-> <<>>, begun |-> <<>>]
  /\ \A i \in 1 .. n : h[i] = OneMore(h[i - 1], data[i])

\* The place of the first empty string.
EndAt(data, i) == i \in DOMAIN data /\ data[i] = Nul /\ (i = 1 \/ data[i - 1] = Nul)

\* There is a first empty string where there is any.
LEMMA EndFound ==
  ASSUME NEW S, NEW data \in Seq(S), NEW k, EndAt(data, k)
  PROVE  \E n \in 0 .. Len(data) - 1 :
           /\ Min({i \in DOMAIN data : data[i] = Nul /\ (i = 1 \/ data[i - 1] = Nul)}) = n + 1
           /\ EndAt(data, n + 1) /\ \A i \in 1 .. n : ~EndAt(data, i)
<1>1. PICK T : T = {i \in DOMAIN data : data[i] = Nul /\ (i = 1 \/ data[i - 1] = Nul)}
  OBVIOUS
<1>2. \A i : i \in T <=> EndAt(data, i)
  BY <1>1 DEF EndAt
<1>3. T \in SUBSET Nat /\ T # {} /\ T \subseteq 1 .. Len(data)
  BY <1>1, <1>2
<1>4. \E x \in T : \A y \in T : x <= y
  BY <1>3, LeastNumber
<1>5. Min(T) \in T /\ \A y \in T : Min(T) <= y
  BY <1>4 DEF Min
<1>6. PICK m : m = Min(T)
  OBVIOUS
<1>7. m \in 1 .. Len(data) /\ EndAt(data, m) /\ \A y \in T : m <= y
  BY <1>2, <1>3, <1>5, <1>6
<1>8. m - 1 \in 0 .. Len(data) - 1 /\ (m - 1) + 1 = m
  BY <1>7
<1>9. \A i \in 1 .. m - 1 : ~EndAt(data, i)
  BY <1>2, <1>7
<1> QED
  BY <1>1, <1>6, <1>7, <1>8, <1>9

\* The strings are cut off one after the other.
LEMMA StringsOneByOne ==
  ASSUME NEW S, NEW data \in Seq(S), NEW n \in 0 .. Len(data) - 1,
         Min({i \in DOMAIN data : data[i] = Nul /\ (i = 1 \/ data[i - 1] = Nul)}) = n + 1
  PROVE  \E h : Cuts(h, S, data, n) /\ MultiStrings(data) = h[n].ended
<1>1. PICK A : A = [ended : Seq(Seq(S)), begun : Seq(S)]
  OBVIOUS
<1>2. PICK a : a = [ended |-> <<>>, begun |-> <<>>]
  OBVIOUS
<1>3. a \in A
  <2>1. <<>> \in Seq(S) /\ <<>> \in Seq(Seq(S))
    OBVIOUS
  <2> QED
    BY <1>1, <1>2, <2>1
<1>4. \A r \in A : \A c \in S : OneMore(r, c) \in A
  <2> SUFFICES ASSUME NEW r \in A, NEW c \in S PROVE OneMore(r, c) \in A
    OBVIOUS
  <2>1. r.ended \in Seq(Seq(S)) /\ r.begun \in Seq(S) /\ <<>> \in Seq(S)
    BY <1>1
  <2>2. PICK W : W = Seq(S)
    OBVIOUS
  <2>3. Append(r.ended, r.begun) \in Seq(W)
    BY <2>1, <2>2, AppendProperties
  <2>4. Append(r.begun, c) \in Seq(S)
    BY <2>1, AppendProperties
  <2> QED
    BY <1>1, <2>1, <2>2, <2>3, <2>4 DEF OneMore
<1>5. \A i \in 1 .. n : data[i] \in S
  OBVIOUS
<1>6. PICK step : step = [i \in 1 .. n |-> [r \in A |-> OneMore(r, data[i])]]
  OBVIOUS
<1>7. Steps(step, n, A)
  BY <1>4, <1>5, <1>6 DEF Steps
<1>8. PICK f : Iterates(f, a, step, n, A)
  BY <1>3, <1>7, Recursion
<1>9. f \in [0 .. n -> A] /\ f[0] = a
  BY <1>8 DEF Iterates
<1>10. \A i \in 1 .. n : f[i] = OneMore(f[i - 1], data[i])
  <2> SUFFICES ASSUME NEW i \in 1 .. n PROVE f[i] = OneMore(f[i - 1], data[i])
    OBVIOUS
  <2>1. i - 1 \in 0 .. n
    OBVIOUS
  <2>2. f[i - 1] \in A
    BY <1>9, <2>1
  <2>3. f[i] = step[i][f[i - 1]]
    BY <1>8 DEF Iterates
  <2> QED
    BY <1>6, <2>2, <2>3
<1> DEFINE Read(g) ==
      g = [i \in 0 .. (n + 1) - 1 |-> IF i = 0 THEN a ELSE OneMore(g[i - 1], data[i])]
<1>11. Read(f)
  <2>1. \A i \in 0 .. n : i # 0 => i \in 1 .. n
    OBVIOUS
  <2>2. 0 .. n = 0 .. (n + 1) - 1
    OBVIOUS
  <2> QED
    BY <1>9, <1>10, <2>1, <2>2
<1>12. MultiStrings(data) = (CHOOSE g : Read(g))[(n + 1) - 1].ended
  BY <1>2, Zenon DEF MultiStrings, OneMore
<1>13. PICK h : Read(h) /\ MultiStrings(data) = h[n].ended
  <2>1. (n + 1) - 1 = n
    OBVIOUS
  <2> HIDE DEF Read
  <2> QED
    BY <1>11, <1>12, <2>1
<1>14. h[0] = a /\ \A i \in 1 .. n : h[i] = OneMore(h[i - 1], data[i])
  <2>1. 0 \in 0 .. (n + 1) - 1 /\ \A i \in 1 .. n : i \in 0 .. (n + 1) - 1 /\ i # 0
    OBVIOUS
  <2>2. h[0] = a
    BY <1>13, <2>1, Zenon
  <2>3. ASSUME NEW i \in 1 .. n PROVE h[i] = OneMore(h[i - 1], data[i])
    <3>1. i \in 0 .. (n + 1) - 1 /\ i # 0
      BY <2>1
    <3> QED
      BY <1>13, <3>1, Zenon
  <2> QED
    BY <2>2, <2>3
<1>15. h[n] = f[n]
  <2>1. PICK T : T = {i \in 0 .. n : h[i] = f[i]}
    OBVIOUS
  <2>2. 0 \in T /\ \A i \in 1 .. n : i - 1 \in T => i \in T
    BY <1>9, <1>10, <1>14, <2>1
  <2>3. \A i \in 0 .. n : i \in T
    BY <2>2, Induction
  <2> QED
    BY <2>1, <2>3
<1>16. Cuts(f, S, data, n)
  BY <1>1, <1>2, <1>9, <1>10 DEF Cuts
<1> QED
  BY <1>13, <1>15, <1>16

\* The strings are made of the characters of the value.
LEMMA StringsTyped ==
  ASSUME NEW S, Nul \in S, NEW data \in Seq(S), NEW given, given = Given("RegGetMultiString", data)
  PROVE  MultiStrings(given) \in Seq(Seq(S))
<1>1. /\ given \in Seq(S) /\ Len(given) >= 2
      /\ given[Len(given)] = Nul /\ given[Len(given) - 1] = Nul
  BY GivenEnds
<1>2. EndAt(given, Len(given))
  BY <1>1 DEF EndAt
<1>3. PICK n \in 0 .. Len(given) - 1 :
         Min({i \in DOMAIN given : given[i] = Nul /\ (i = 1 \/ given[i - 1] = Nul)}) = n + 1
  BY <1>1, <1>2, EndFound
<1>4. PICK h : Cuts(h, S, given, n) /\ MultiStrings(given) = h[n].ended
  BY <1>1, <1>3, StringsOneByOne
<1>5. n \in 0 .. n
  OBVIOUS
<1>6. h[n] \in [ended : Seq(Seq(S)), begun : Seq(S)]
  BY <1>4, <1>5 DEF Cuts
<1> QED
  BY <1>4, <1>6

\* The longest name has a length.
LEMMA LongestNat ==
  ASSUME NEW S, \A e \in S : e.name \in Name, NEW entries \in Seq(S)
  PROVE  /\ LongestName(entries) \in Nat
         /\ \A i \in DOMAIN entries : NameLen[entries[i].name] <= LongestName(entries)
<1> PICK n \in Nat : n = Len(entries)
  OBVIOUS
<1>1. PICK length : length = [i \in 1 .. n |-> NameLen[entries[i].name]]
  OBVIOUS
<1>2. length \in [1 .. n -> Nat]
  BY <1>1, NameAssumption
<1> DEFINE Bounded(i) == \E bound \in Nat : \A k \in 1 .. i : length[k] <= bound
<1>3. PICK T : T = {i \in 0 .. n : Bounded(i)}
  OBVIOUS
<1>4. Bounded(0)
  OBVIOUS
<1>5. ASSUME NEW i \in 1 .. n, Bounded(i - 1) PROVE Bounded(i)
  <2>1. PICK bound \in Nat : \A k \in 1 .. i - 1 : length[k] <= bound
    BY <1>5
  <2>2. length[i] \in Nat /\ bound + length[i] \in Nat
    BY <1>2
  <2>3. \A k \in 1 .. i : k = i \/ k \in 1 .. i - 1
    OBVIOUS
  <2>4. \A k \in 1 .. i : length[k] \in Nat
    BY <1>2
  <2>5. \A k \in 1 .. i : length[k] <= bound + length[i]
    BY <2>1, <2>2, <2>3, <2>4
  <2> QED
    BY <2>2, <2>5
<1>6. Bounded(n)
  <2> HIDE DEF Bounded
  <2>1. 0 \in T /\ \A i \in 1 .. n : i - 1 \in T => i \in T
    BY <1>3, <1>4, <1>5
  <2>2. \A i \in 0 .. n : i \in T
    BY <2>1, Induction
  <2> QED
    BY <1>3, <2>2
<1>7. PICK bound \in Nat : \A k \in 1 .. n : length[k] <= bound
  BY <1>6
<1>8. PICK lengths : lengths = {NameLen[entries[i].name] : i \in DOMAIN entries} \cup {0}
  OBVIOUS
<1>9. \A i \in DOMAIN entries : NameLen[entries[i].name] \in lengths
  BY <1>8
<1>10. lengths \in SUBSET (0 .. bound) /\ lengths # {}
  BY <1>1, <1>2, <1>7, <1>8
<1>11. Max(lengths) \in lengths /\ \A y \in lengths : y <= Max(lengths)
  BY <1>10, MaxFound
<1>12. LongestName(entries) = Max(lengths)
  BY <1>8 DEF LongestName
<1>13. \A y \in lengths : y \in Nat
  BY <1>10
<1> QED
  BY <1>9, <1>11, <1>12, <1>13

-----------------------------------------------------------------------------
(* The types of the locals. *)

NameOf(q) == CASE q = "RegEnumValues" -> Item(q)
               [] q \in OwnKey        -> Name
               [] OTHER               -> ValueName
Typed(locals) ==
  /\ locals.todo \in Seq(Key) /\ locals.closed \in SUBSET Key
  /\ locals.count \in Nat /\ locals.room \in Nat
  /\ locals.names \in Seq(NameOf(locals.query))
  /\ locals.result \in Seq(Item(locals.query))

FlagsTyped ==
  /\ native \in BOOLEAN /\ disturbed \in BOOLEAN /\ writes \in 0 .. MaxWrites
  /\ pc \in Ended \cup Holding \cup {"open"}
SourceTyped ==
  /\ DOMAIN source \subseteq Key
  /\ \A p \in DOMAIN source : ToSet(source[p]) \subseteq Entries(call.query)

TypeInv == FlagsTyped /\ SourceTyped /\ Typed(call)

\* The steps that change a flag or a counter.
LEMMA FlagsStep == FlagsTyped /\ [Next]_vars => FlagsTyped'
<1> SUFFICES ASSUME FlagsTyped, [Next]_vars PROVE FlagsTyped'
  OBVIOUS
<1>1. native' = native
  BY DEF Next, vars, Begin, OpenKey, OpenFails, QueryInfo, EnumNext, EnumEnds, OpenSub, SubGone,
     AskSize, ReadString, ReadMultiString, CloseKey, GetWendousInfo, Finish, SystemFails, OtherWrites
<1>2. disturbed' = disturbed \/ disturbed' = TRUE \/ disturbed' = FALSE
  BY Zenon DEF Next, vars, history, Begin, OpenKey, OpenFails, QueryInfo, EnumNext, EnumEnds,
     OpenSub, SubGone,
     AskSize, ReadString, ReadMultiString, CloseKey, GetWendousInfo, Finish, SystemFails, OtherWrites
<1>3. writes' \in 0 .. MaxWrites
  <2>1. MaxWrites \in Nat /\ writes \in 0 .. MaxWrites
    BY SizeAssumption DEF FlagsTyped
  <2>2. writes' = writes \/ writes' = 0 \/ (writes < MaxWrites /\ writes' = writes + 1)
    BY Zenon DEF Next, vars, others, Begin, OpenKey, OpenFails, QueryInfo, EnumNext, EnumEnds,
     OpenSub, SubGone,
     AskSize, ReadString, ReadMultiString, CloseKey, GetWendousInfo, Finish, SystemFails, OtherWrites
  <2> QED
    BY <2>1, <2>2
<1>4. pc' \in Ended \cup Holding \cup {"open"}
  <2>1. Throw => pc' \in Ended
    BY DEF Throw, Ended
  <2>2. \A locals, opened : Leave(locals, opened) => pc' \in {"returned", "open"}
    BY DEF Leave
  <2>3. ReadFails => pc' \in Ended \cup {"size"}
    BY <2>1 DEF ReadFails
  <2>4. \/ pc' = pc \/ Throw \/ ReadFails \/ (\E locals, opened : Leave(locals, opened))
        \/ pc' \in {"open", "size", "info", "enum", "read", "idle"}
    BY DEF Next, vars, Begin, OpenKey, OpenFails, QueryInfo, EnumNext, EnumEnds, OpenSub, SubGone,
     AskSize, ReadString, ReadMultiString, CloseKey, GetWendousInfo, Finish, SystemFails, OtherWrites
  <2> QED
    BY <2>1, <2>2, <2>3, <2>4 DEF FlagsTyped, Ended, Holding
<1> QED
  <2>1. native' \in BOOLEAN
    BY <1>1 DEF FlagsTyped
  <2>2. disturbed' \in BOOLEAN
    BY <1>2, Zenon DEF FlagsTyped
  <2> QED
    BY <2>1, <2>2, <1>3, <1>4, Zenon DEF FlagsTyped

\* The parts make up the type.
LEMMA TypeHolds ==
  ASSUME IInv, FoundInv, TypeInv
  PROVE  TypeOK
<1>1. handles \in Nat /\ broken \in Nat
  BY Handles
<1>2. /\ IsCall(call) /\ call.next \in Nat /\ Typed(call)
  BY DEF IInv, FoundInv, TypeInv
<1>3. call.names \in Seq(IF call.query = "RegEnumValues" THEN Item(call.query)
                                                        ELSE Name \cup ValueName)
  <2>1. call.names \in Seq(NameOf(call.query))
    BY <1>2 DEF Typed
  <2>2. CASE call.query = "RegEnumValues"
    BY <2>1, <2>2 DEF NameOf, OwnKey
  <2>3. CASE call.query # "RegEnumValues"
    <3>1. NameOf(call.query) \subseteq Name \cup ValueName
      BY <2>3 DEF NameOf
    <3>2. call.names \in Seq(Name \cup ValueName)
      BY <2>1, <3>1
    <3> QED
      BY <2>3, <3>2
  <2> QED
    BY <2>2, <2>3
<1>4. call \in Locals
  BY <1>2, <1>3 DEF Locals, IsCall, Fields, Typed
<1> QED
  BY <1>1, <1>4, Zenon DEF TypeOK, TypeInv, FlagsTyped, SourceTyped

LEMMA FreshTyped ==
  ASSUME NEW q \in Query, NEW closed \in SUBSET ToSet(Visits(q))
  PROVE  Typed(Fresh(q, closed)) /\ ToSet(Visits(q)) \subseteq Key
<1>1. ToSet(Visits(q)) \subseteq Key
  BY DEF Key
<1>2. Visits(q) \in Seq(Key)
  <2>1. Visits(q) \in Seq(ToSet(Visits(q)))
    BY VisitsSeq
  <2> QED
    BY <1>1, <2>1
<1>3. PICK f : f = Fresh(q, closed)
  OBVIOUS
<1>4. /\ f.query = q /\ f.todo = Visits(q) /\ f.closed = closed /\ f.count = 0 /\ f.room = 0
      /\ f.result = <<>>
      /\ f.names = CASE q = "GetWendousInfo"    -> <<"CSDVersion">>
                     [] q = "RegGetMultiString" -> <<"value">>
                     [] OTHER                   -> <<>>
  BY <1>3 DEF Fresh
<1>5. \A T : <<>> \in Seq(T)
  OBVIOUS
<1>6. f.names \in Seq(NameOf(q))
  <2>1. CASE q = "GetWendousInfo"
    <3>1. NameOf(q) = ValueName
      BY <2>1 DEF NameOf, OwnKey
    <3>2. VersionValues[1] = "CSDVersion" /\ 1 \in DOMAIN VersionValues
      BY DEF VersionValues
    <3>3. "CSDVersion" \in ValueName
      BY <3>2 DEF ValueName, ToSet
    <3> QED
      BY <1>4, <2>1, <3>1, <3>3
  <2>2. CASE q = "RegGetMultiString"
    <3>1. NameOf(q) = ValueName
      BY <2>2 DEF NameOf, OwnKey
    <3>2. "value" \in ValueName
      BY DEF ValueName
    <3> QED
      BY <1>4, <2>2, <3>1, <3>2
  <2>3. CASE q \notin {"GetWendousInfo", "RegGetMultiString"}
    BY <1>4, <1>5, <2>3
  <2> QED
    BY <2>1, <2>2, <2>3
<1>7. f.result \in Seq(Item(q))
  BY <1>4, <1>5
<1>8. Typed(f)
  BY <1>1, <1>2, <1>4, <1>6, <1>7 DEF Typed
<1> QED
  BY <1>1, <1>3, <1>8

\* A call that has left a key, or goes on.
LEMMA LeavesTyped ==
  ASSUME IInv, FoundInv, pc \notin Ended, TypeInv,
         NEW locals, IsCall(locals), locals.todo = call.todo, Typed(locals),
         NEW opened, Leave(locals, opened)
  PROVE  Typed(call') /\ call'.query = locals.query
<1>1. /\ call'.query = locals.query /\ call'.todo = Tail(locals.todo)
      /\ call'.closed = locals.closed /\ call'.count = locals.count /\ call'.room = locals.room
      /\ call'.names = locals.names /\ call'.result = locals.result
  BY DEF Leave, IsCall, Fields
<1>2. locals.todo # <<>> /\ locals.todo \in Seq(Key)
  BY DEF FoundInv, SourceFound, Typed
<1>3. Tail(locals.todo) \in Seq(Key)
  BY <1>2, HeadTailProperties
<1> QED
  BY <1>1, <1>3 DEF Typed

\* A change of one local that has a type.
LEMMA ResultTyped ==
  ASSUME NEW locals, IsCall(locals), Typed(locals), NEW result \in Seq(Item(locals.query))
  PROVE  LET changed == [locals EXCEPT !.result = result]
         IN  IsCall(changed) /\ Typed(changed) /\ changed.query = locals.query
             /\ changed.todo = locals.todo
<1>1. PICK changed : changed = [locals EXCEPT !.result = result]
  OBVIOUS
<1>2. /\ changed.query = locals.query /\ changed.todo = locals.todo
      /\ changed.closed = locals.closed /\ changed.count = locals.count
      /\ changed.room = locals.room /\ changed.names = locals.names /\ changed.result = result
  BY <1>1 DEF IsCall, Fields
<1>3. Typed(changed)
  BY <1>2 DEF Typed
<1>4. IsCall(changed)
  BY <1>1 DEF IsCall, Fields
<1> QED
  BY <1>1, <1>2, <1>3, <1>4

LEMMA ReadFailsTyped ==
  ASSUME IInv, FoundInv, TypeInv, Reading, ReadFails
  PROVE  Typed(call') /\ call'.query = call.query
<1>1. Typed(call) /\ IsCall(call)
  BY DEF TypeInv, IInv
<1>2. CASE call.query = "RegGetMultiString"
  BY <1>1, <1>2 DEF ReadFails
<1>3. CASE call.query # "RegGetMultiString"
  <2>1. /\ call'.query = call.query /\ call'.todo = call.todo /\ call'.closed = call.closed
        /\ call'.count = call.count /\ call'.room = call.room /\ call'.names = call.names
        /\ call'.result = IF call.query = "GetWendousInfo" THEN Append(call.result, <<>>)
                                                          ELSE call.result
    BY <1>1, <1>3 DEF ReadFails, IsCall, Fields
  <2>2. call'.result \in Seq(Item(call.query))
    <3>1. CASE call.query = "GetWendousInfo"
      <4>1. <<>> \in Item(call.query)
        BY <3>1 DEF Item
      <4>2. call.result \in Seq(Item(call.query))
        BY <1>1 DEF Typed
      <4> QED
        BY <2>1, <3>1, <4>1, <4>2, AppendProperties
    <3> QED
      BY <1>1, <2>1, <3>1 DEF Typed
  <2> QED
    BY <1>1, <2>1, <2>2 DEF Typed
<1> QED
  BY <1>2, <1>3

LEMMA CharsOf ==
  ASSUME NEW d \in Data \cup VersionData \cup MultiData
  PROVE  ToSet(d) \subseteq Char /\ Nul \in Char
<1> DEFINE all == {ToSet(x) : x \in Data \cup VersionData \cup MultiData}
<1>1. ToSet(d) \in all
  OBVIOUS
<1>2. Char = {Nul} \cup UNION all
  BY DEF Char
<1> HIDE DEF all
<1> QED
  BY <1>1, <1>2

\* The characters of what the registry answers.
LEMMA GivenTyped ==
  ASSUME NEW q \in ByValue, NEW e \in Entries(q), e.data # Null
  PROVE  Given(q, e.data) \in Seq(Char)
<1>1. /\ e.data \in Data \cup VersionData \cup MultiData
      /\ e.data \in Seq(ToSet(e.data))
  BY EntryData
<1>2. ToSet(e.data) \subseteq Char /\ Nul \in Char
  BY <1>1, CharsOf
<1>3. e.data \in Seq(Char)
  BY <1>1, <1>2
<1>4. CASE q = "RegGetMultiString"
  BY <1>2, <1>3, <1>4, GivenEnds
<1>5. CASE q # "RegGetMultiString"
  <2>1. Append(e.data, Nul) \in Seq(Char)
    BY <1>2, <1>3, AppendProperties
  <2> QED
    BY <1>3, <1>5, <2>1 DEF Given
<1> QED
  BY <1>4, <1>5

LEMMA OpenTyped ==
  ASSUME IInv, FoundInv, TypeInv, OpenKey \/ OpenFails
  PROVE  Typed(call') /\ call'.query = call.query
<1>1. Typed(call) /\ IsCall(call)
  BY DEF TypeInv, IInv
<1>2. pc \notin Ended
  BY DEF OpenKey, OpenFails, Ended
<1>3. CASE UNCHANGED call
  BY <1>1, <1>3
<1>4. CASE Leave(call, 0)
  BY <1>1, <1>2, <1>4, LeavesTyped
<1> QED
  BY <1>3, <1>4 DEF OpenKey, OpenFails

\* The entries here are those of the query.
LEMMA HereTyped ==
  ASSUME FoundInv, call.query \in Query, pc \in {"info", "enum"}
  PROVE  /\ call.query \in {"RegEnumValues", "GetInstalledAppList", "DumpInfo"}
         /\ Here \in Seq(Entries(call.query))
         /\ \A e \in Entries(call.query) : e.name \in Name /\ Kept(e) \in NameOf(call.query)
<1>1. pc \notin Ended /\ call.query \notin {"GetWendousInfo", "RegGetMultiString"}
  BY DEF FoundInv, ValuesRead, Ended
<1>2. Here \in Seq(Entries(call.query))
  BY <1>1, HereFound DEF FoundInv
<1>3. ASSUME call.query = "RegEnumValues", NEW e \in Entries(call.query)
      PROVE  e.name \in Name /\ Kept(e) \in NameOf(call.query)
  BY <1>3 DEF Entries, Entry, Kept, NameOf, Item, OwnKey
<1>4. ASSUME call.query \in OwnKey, NEW e \in Entries(call.query)
      PROVE  e.name \in Name /\ Kept(e) \in NameOf(call.query)
  BY <1>4 DEF Entries, Pairs, Entry, Kept, NameOf, OwnKey
<1>5. call.query = "RegEnumValues" \/ call.query \in OwnKey
  BY <1>1 DEF Query, GivenKey
<1> QED
  BY <1>1, <1>2, <1>3, <1>4, <1>5 DEF Query, GivenKey, OwnKey

LEMMA QueryInfoTyped ==
  ASSUME IInv, FoundInv, TypeInv, QueryInfo
  PROVE  Typed(call') /\ call'.query = call.query
<1>1. Typed(call) /\ IsCall(call) /\ pc = "info"
  BY DEF TypeInv, IInv, QueryInfo
<1>2. /\ call'.query = call.query /\ call'.todo = call.todo /\ call'.closed = call.closed
      /\ call'.count = Len(Here) /\ call'.room = LongestName(Here) + 1 /\ call'.names = <<>>
      /\ call'.result = call.result
  BY <1>1 DEF QueryInfo, IsCall, Fields
<1>3. Here \in Seq(Entries(call.query)) /\ \A e \in Entries(call.query) : e.name \in Name
  BY <1>1, HereTyped DEF IsCall
<1>4. Len(Here) \in Nat /\ LongestName(Here) \in Nat
  BY <1>3, LongestNat
<1>5. <<>> \in Seq(NameOf(call.query))
  OBVIOUS
<1> QED
  BY <1>1, <1>2, <1>4, <1>5 DEF Typed

LEMMA EnumNextTyped ==
  ASSUME IInv, FoundInv, TypeInv, EnumNext
  PROVE  Typed(call') /\ call'.query = call.query
<1>1. Typed(call) /\ IsCall(call) /\ pc = "enum" /\ call.next \in Nat
  BY DEF TypeInv, IInv, EnumNext, FoundInv
<1>2. CASE UNCHANGED call
  BY <1>1, <1>2
<1>3. CASE ~UNCHANGED call
  <2>1. call.next < Len(Here)
    BY <1>3 DEF EnumNext
  <2>2. /\ call'.query = call.query /\ call'.todo = call.todo /\ call'.closed = call.closed
        /\ call'.count = call.count /\ call'.room = call.room
        /\ call'.names = Append(call.names, Kept(Here[call.next + 1]))
        /\ call'.result = call.result
    BY <1>1, <1>3 DEF EnumNext, IsCall, Fields
  <2>3. /\ Here \in Seq(Entries(call.query))
        /\ \A e \in Entries(call.query) : Kept(e) \in NameOf(call.query)
    BY <1>1, HereTyped DEF IsCall
  <2>4. Here[call.next + 1] \in Entries(call.query)
    BY <1>1, <2>1, <2>3
  <2>5. call'.names \in Seq(NameOf(call.query))
    BY <1>1, <2>2, <2>3, <2>4, AppendProperties DEF Typed
  <2> QED
    BY <1>1, <2>2, <2>5 DEF Typed
<1> QED
  BY <1>2, <1>3

LEMMA EnumEndsTyped ==
  ASSUME IInv, FoundInv, TypeInv, EnumEnds
  PROVE  Typed(call') /\ call'.query = call.query
<1>1. Typed(call) /\ IsCall(call) /\ pc = "enum" /\ pc \notin Ended
  BY DEF TypeInv, IInv, EnumEnds, Ended
<1>2. call.names \in Seq(NameOf(call.query)) /\ call.result \in Seq(Item(call.query))
  BY <1>1 DEF Typed
<1>3. CASE call.query = "RegEnumValues"
  <2>1. NameOf(call.query) = Item(call.query)
    BY <1>3 DEF NameOf, OwnKey
  <2>2. PICK locals : locals = [call EXCEPT !.result = call.names]
    OBVIOUS
  <2>3. IsCall(locals) /\ Typed(locals) /\ locals.query = call.query /\ locals.todo = call.todo
    BY <1>1, <1>2, <2>1, <2>2, ResultTyped
  <2>4. Leave(locals, 0)
    BY <1>3, <2>2 DEF EnumEnds
  <2> QED
    BY <1>1, <2>3, <2>4, LeavesTyped
<1>4. CASE call.query = "DumpInfo"
  <2>1. NameOf(call.query) = Name /\ Item(call.query) = Name
    BY <1>4 DEF NameOf, Item, OwnKey
  <2>2. PICK result : result = SetToSeq(ToSet(call.result \o call.names))
    OBVIOUS
  <2>3. result \in Seq(Item(call.query))
    <3>1. call.result \o call.names \in Seq(Name)
      BY <1>2, <2>1, ConcatProperties
    <3> QED
      BY <2>1, <2>2, <3>1, SetToSeqFound
  <2>4. PICK locals : locals = [call EXCEPT !.result = result]
    OBVIOUS
  <2>5. IsCall(locals) /\ Typed(locals) /\ locals.query = call.query /\ locals.todo = call.todo
    BY <1>1, <2>3, <2>4, ResultTyped
  <2>6. Leave(locals, 1)
    BY <1>1, <1>4, <2>2, <2>4 DEF EnumEnds, IsCall, Fields
  <2> QED
    BY <1>1, <2>5, <2>6, LeavesTyped
<1>5. CASE call.query \notin {"RegEnumValues", "DumpInfo"}
  <2>1. call' = [call EXCEPT !.next = 0]
    BY <1>5 DEF EnumEnds
  <2>2. /\ call'.query = call.query /\ call'.todo = call.todo /\ call'.closed = call.closed
        /\ call'.count = call.count /\ call'.room = call.room
        /\ call'.names = call.names /\ call'.result = call.result
    BY <1>1, <2>1 DEF IsCall, Fields
  <2> QED
    BY <1>1, <2>2 DEF Typed
<1> QED
  BY <1>3, <1>4, <1>5

\* The value that is read has characters.
LEMMA ValueTyped ==
  ASSUME FoundInv, Reading, NEW name, NEW data, data = RegGetValueA_sp(name), data # Null
  PROVE  /\ data \in Seq(Char)
         /\ \E e \in Entries(call.query) : e.data # Null /\ data = Given(call.query, e.data)
<1>1. pc \notin Ended /\ call.query \in ByValue
  BY DEF Reading, Ended, FoundInv, ValuesRead
<1>2. PICK i \in DOMAIN Here : Here[i].data # Null /\ data = Given(call.query, Here[i].data)
  BY ReadsEntry
<1>3. Here \in Seq(Entries(call.query))
  BY <1>1, HereFound DEF FoundInv
<1>4. Here[i] \in Entries(call.query)
  BY <1>3
<1> QED
  BY <1>1, <1>2, <1>4, GivenTyped

LEMMA AskSizeTyped ==
  ASSUME IInv, FoundInv, TypeInv, OpenSub \/ SubGone \/ AskSize
  PROVE  Typed(call') /\ call'.query = call.query
<1>1. Typed(call) /\ IsCall(call) /\ Reading
  BY DEF TypeInv, IInv, OpenSub, SubGone, AskSize
<1>2. CASE ReadFails
  BY <1>1, <1>2, ReadFailsTyped
<1>3. CASE OpenSub
  BY <1>1, <1>3 DEF OpenSub, IsCall, Fields, Typed
<1>4. CASE ~ReadFails /\ AskSize
  <2>1. PICK data : data = RegGetValueA_sp(Value)
    OBVIOUS
  <2>2. data # Null /\ call' = [call EXCEPT !.room = Len(data), !.sub = FALSE]
    BY <1>4, <2>1 DEF AskSize
  <2>3. data \in Seq(Char)
    BY <1>1, <2>1, <2>2, ValueTyped
  <2>4. Len(data) \in Nat
    BY <2>3
  <2>5. /\ call'.query = call.query /\ call'.todo = call.todo /\ call'.closed = call.closed
        /\ call'.count = call.count /\ call'.room = Len(data)
        /\ call'.names = call.names /\ call'.result = call.result
    BY <1>1, <2>2 DEF IsCall, Fields
  <2> QED
    BY <1>1, <2>4, <2>5 DEF Typed
<1> QED
  BY <1>2, <1>3, <1>4 DEF SubGone

LEMMA ReadStringTyped ==
  ASSUME IInv, FoundInv, TypeInv, ReadString
  PROVE  Typed(call') /\ call'.query = call.query
<1>1. Typed(call) /\ IsCall(call) /\ Reading /\ call.query # "RegGetMultiString" /\ pc \notin Ended
  BY DEF TypeInv, IInv, ReadString, Reading, Ended
<1>2. CASE ReadFails
  BY <1>1, <1>2, ReadFailsTyped
<1>3. CASE call' = [call EXCEPT !.sub = FALSE]
  BY <1>1, <1>3 DEF IsCall, Fields, Typed
<1>4. CASE ~ReadFails /\ ~(call' = [call EXCEPT !.sub = FALSE])
  <2>1. PICK data : data = RegGetValueA_sp(Value)
    OBVIOUS
  <2>2. /\ data # Null /\ ~(StringLength(data) > MaxString)
        /\ call' = [call EXCEPT !.result = Append(@, TakeString(data)),
                                !.next = @ + 1, !.sub = FALSE]
    BY <1>4, <2>1 DEF ReadString
  <2>3. data \in Seq(Char)
    BY <1>1, <2>1, <2>2, ValueTyped
  <2>4. PICK e \in Entries(call.query) : e.data # Null /\ data = Given(call.query, e.data)
    BY <1>1, <2>1, <2>2, ValueTyped
  <2>5. call.query \in {"GetInstalledAppList", "GetWendousInfo"}
    BY <1>1 DEF FoundInv, ValuesRead, ByValue, Reading
  <2>6. data # <<>> /\ TakeString(data) = Front(data)
    BY <2>2, <2>4, <2>5, TakesFront
  <2>7. Front(data) \in Seq(Char)
    BY <2>3, <2>6 DEF Front
  <2>8. TakeString(data) \in Item(call.query)
    BY <2>5, <2>6, <2>7 DEF Item
  <2>9. /\ call'.query = call.query /\ call'.todo = call.todo /\ call'.closed = call.closed
        /\ call'.count = call.count /\ call'.room = call.room
        /\ call'.names = call.names /\ call'.result = Append(call.result, TakeString(data))
    BY <1>1, <2>2 DEF IsCall, Fields
  <2>10. call'.result \in Seq(Item(call.query))
    BY <1>1, <2>8, <2>9, AppendProperties DEF Typed
  <2> QED
    BY <1>1, <2>9, <2>10 DEF Typed
<1> QED
  BY <1>2, <1>3, <1>4

LEMMA ReadMultiStringTyped ==
  ASSUME IInv, FoundInv, TypeInv, ReadMultiString
  PROVE  Typed(call') /\ call'.query = call.query
<1>1. Typed(call) /\ IsCall(call) /\ Reading /\ call.query = "RegGetMultiString" /\ pc \notin Ended
  BY DEF TypeInv, IInv, ReadMultiString, Reading, Ended
<1>2. CASE ReadFails
  BY <1>1, <1>2, ReadFailsTyped
<1>3. CASE ~ReadFails
  <2>1. PICK data : data = RegGetValueA_sp(Value)
    OBVIOUS
  <2>2. PICK locals : locals = [call EXCEPT !.result = MultiStrings(data)]
    OBVIOUS
  <2>3. data # Null /\ Leave(locals, 0)
    BY <1>3, <2>1, <2>2 DEF ReadMultiString
  <2>4. PICK e \in Entries(call.query) : e.data # Null /\ data = Given(call.query, e.data)
    BY <1>1, <2>1, <2>3, ValueTyped
  <2>5. e.data \in Seq(Char) /\ Nul \in Char
    <3>1. /\ e.data \in Data \cup VersionData \cup MultiData
          /\ e.data \in Seq(ToSet(e.data))
      BY <1>1, <2>4, EntryData DEF ByValue
    <3>2. ToSet(e.data) \subseteq Char /\ Nul \in Char
      BY <3>1, CharsOf
    <3> QED
      BY <3>1, <3>2
  <2>6. MultiStrings(data) \in Seq(Seq(Char))
    BY <1>1, <2>4, <2>5, StringsTyped
  <2>7. MultiStrings(data) \in Seq(Item(call.query))
    BY <1>1, <2>6 DEF Item
  <2>8. IsCall(locals) /\ Typed(locals) /\ locals.query = call.query /\ locals.todo = call.todo
    BY <1>1, <2>2, <2>7, ResultTyped
  <2> QED
    BY <1>1, <2>3, <2>8, LeavesTyped
<1> QED
  BY <1>2, <1>3

LEMMA VersionNames ==
  /\ VersionValues \in Seq(ValueName) /\ Len(VersionValues) = 4
  /\ SubSeq(VersionValues, 1, 2) \in Seq(ValueName) /\ Len(SubSeq(VersionValues, 1, 2)) = 2
<1>1. \A i \in 1 .. 4 : VersionValues[i] \in ValueName
  <2>1. DOMAIN VersionValues = 1 .. 4
    BY DEF VersionValues
  <2> QED
    BY <2>1 DEF ValueName, ToSet
<1>2. VersionValues \in Seq(ValueName) /\ Len(VersionValues) = 4
  <2>1. /\ VersionValues[1] \in ValueName /\ VersionValues[2] \in ValueName
        /\ VersionValues[3] \in ValueName /\ VersionValues[4] \in ValueName
    BY <1>1
  <2> QED
    BY <2>1 DEF VersionValues
<1> QED
  BY <1>1, <1>2, SubSeqProperties

LEMMA GetWendousInfoTyped ==
  ASSUME IInv, FoundInv, TypeInv, GetWendousInfo \/ CloseKey
  PROVE  Typed(call') /\ call'.query = call.query
<1>1. Typed(call) /\ IsCall(call) /\ pc = "size" /\ pc \notin Ended
  BY DEF TypeInv, IInv, GetWendousInfo, CloseKey, Ended
<1>2. CASE CloseKey
  BY <1>1, <1>2, LeavesTyped DEF CloseKey
<1>3. CASE GetWendousInfo /\ call.next = 1
  <2>1. PICK names : names = IF Head(call.result) = <<>> THEN VersionValues
                                                        ELSE SubSeq(VersionValues, 1, 2)
    OBVIOUS
  <2>2. call' = [call EXCEPT !.names = names] /\ call.query = "GetWendousInfo"
    BY <1>3, <2>1 DEF GetWendousInfo
  <2>3. /\ call'.query = call.query /\ call'.todo = call.todo /\ call'.closed = call.closed
        /\ call'.count = call.count /\ call'.room = call.room
        /\ call'.names = names /\ call'.result = call.result
    BY <1>1, <2>2 DEF IsCall, Fields
  <2>4. names \in Seq(ValueName)
    BY <2>1, VersionNames
  <2>5. NameOf(call.query) = ValueName
    BY <2>2 DEF NameOf, OwnKey
  <2> QED
    BY <1>1, <2>3, <2>4, <2>5 DEF Typed
<1>4. CASE GetWendousInfo /\ call.next # 1
  <2>1. PICK result : result = IF Head(call.result) = <<>> THEN Tail(call.result)
                               ELSE Append(Tail(call.result), Head(call.result))
    OBVIOUS
  <2>2. PICK locals : locals = [call EXCEPT !.result = result]
    OBVIOUS
  <2>3. Leave(locals, 0) /\ call.query = "GetWendousInfo" /\ call.next = Len(call.names)
    BY <1>4, <2>1, <2>2 DEF GetWendousInfo
  <2>4. call.result \in Seq(Item(call.query)) /\ call.result # <<>>
    BY <1>1, <2>3 DEF Typed, FoundInv, ValuesRead
  <2>5. result \in Seq(Item(call.query))
    <3>1. Head(call.result) \in Item(call.query) /\ Tail(call.result) \in Seq(Item(call.query))
      BY <2>4, HeadTailProperties
    <3> QED
      BY <2>1, <3>1, AppendProperties
  <2>6. IsCall(locals) /\ Typed(locals) /\ locals.query = call.query /\ locals.todo = call.todo
    BY <1>1, <2>2, <2>5, ResultTyped
  <2> QED
    BY <1>1, <2>3, <2>6, LeavesTyped
<1> QED
  BY <1>2, <1>3, <1>4

LEMMA InitTyped == Init => TypeInv
<1> SUFFICES ASSUME Init PROVE TypeInv
  OBVIOUS
<1>1. /\ native \in BOOLEAN /\ disturbed = FALSE /\ writes = 0 /\ pc = "idle"
      /\ source = NoSource /\ call = Fresh("RegEnumValues", {})
  BY DEF Init
<1>2. FlagsTyped
  <2>1. native \in BOOLEAN
    BY <1>1
  <2>2. disturbed \in BOOLEAN
    BY <1>1, Zenon
  <2>3. writes \in 0 .. MaxWrites /\ pc \in Ended \cup Holding \cup {"open"}
    BY <1>1, SizeAssumption DEF Ended
  <2> QED
    BY <2>1, <2>2, <2>3, Zenon DEF FlagsTyped
<1>3. Typed(call)
  BY <1>1, FreshTyped DEF Query, GivenKey
<1>4. SourceTyped
  BY <1>1 DEF SourceTyped, NoSource
<1> QED
  BY <1>2, <1>3, <1>4 DEF TypeInv

LEMMA CallersTyped ==
  ASSUME IInv, TypeInv, (\E q \in Query : Begin(q)) \/ Finish
  PROVE  SourceTyped' /\ Typed(call')
<1>1. CASE \E q \in Query : Begin(q)
  <2>1. PICK q \in Query : Begin(q)
    BY <1>1
  <2>2. PICK closed \in SUBSET ToSet(Visits(q)) : call' = Fresh(q, closed)
    BY <2>1 DEF Begin
  <2>3. Typed(call') /\ ToSet(Visits(q)) \subseteq Key
    BY <2>2, FreshTyped
  <2>4. PICK s \in [ToSet(Visits(q)) -> Contents(q)] : source' = s
    BY <2>1 DEF Begin
  <2>5. \A p \in DOMAIN source' : source'[p] \in Seq(Entries(q))
    BY <2>4, ContentsSeq
  <2>6. call'.query = q
    BY <2>2 DEF Fresh
  <2>7. SourceTyped'
    BY <2>3, <2>4, <2>5, <2>6 DEF SourceTyped, ToSet
  <2> QED
    BY <2>3, <2>7
<1>2. CASE Finish
  <2>1. source' = NoSource /\ call' = Fresh("RegEnumValues", {})
    BY <1>2 DEF Finish
  <2>2. Typed(call')
    BY <2>1, FreshTyped DEF Query, GivenKey
  <2> QED
    BY <2>1, <2>2 DEF SourceTyped, NoSource
<1> QED
  BY <1>1, <1>2

LEMMA OtherWritesTyped ==
  ASSUME IInv, FoundInv, TypeInv, OtherWrites
  PROVE  SourceTyped' /\ Typed(call')
<1>1. pc \notin Ended /\ UNCHANGED call
  BY DEF OtherWrites
<1>2. PICK p \in DOMAIN source : \E s \in Written(source[p], Entries(call.query)) :
                                   source' = [source EXCEPT ![p] = s]
  BY DEF OtherWrites
<1>3. PICK s \in Written(source[p], Entries(call.query)) : source' = [source EXCEPT ![p] = s]
  BY <1>2
<1>4. s \in Seq(Entries(call.query))
  BY <1>1, <1>3, WrittenSeq DEF FoundInv, SourceFound
<1>5. ToSet(s) \subseteq Entries(call.query)
  BY <1>4 DEF ToSet
<1>6. \A k \in DOMAIN source' : source'[k] = s \/ source'[k] = source[k]
  BY <1>3
<1>7. DOMAIN source' = DOMAIN source
  BY <1>3
<1> QED
  BY <1>1, <1>5, <1>6, <1>7 DEF TypeInv, SourceTyped

LEMMA StepTyped == IInv /\ FoundInv /\ TypeInv /\ [Next]_vars => TypeInv'
<1> SUFFICES ASSUME IInv, FoundInv, TypeInv, [Next]_vars PROVE TypeInv'
  OBVIOUS
<1>1. FlagsTyped'
  BY FlagsStep DEF TypeInv
<1>2. SourceTyped' /\ Typed(call')
  <2>1. CASE UNCHANGED vars
    BY <2>1 DEF TypeInv, SourceTyped, vars, others
  <2>2. CASE OpenKey \/ OpenFails \/ QueryInfo \/ EnumNext \/ EnumEnds
             \/ OpenSub \/ SubGone \/ AskSize \/ ReadString \/ ReadMultiString
             \/ CloseKey \/ GetWendousInfo
    <3>1. Typed(call') /\ call'.query = call.query
      BY <2>2, OpenTyped, QueryInfoTyped, EnumNextTyped, EnumEndsTyped, AskSizeTyped,
         ReadStringTyped, ReadMultiStringTyped, GetWendousInfoTyped
    <3>2. UNCHANGED source
      BY <2>2 DEF others, OpenKey, OpenFails, QueryInfo, EnumNext, EnumEnds, OpenSub, SubGone,
         AskSize, ReadString, ReadMultiString, CloseKey, GetWendousInfo
    <3> QED
      BY <3>1, <3>2 DEF TypeInv, SourceTyped
  <2>3. CASE SystemFails
    <3>1. UNCHANGED source /\ (UNCHANGED call \/ (Reading /\ ReadFails))
      BY <2>3 DEF SystemFails, others
    <3>2. Typed(call') /\ call'.query = call.query
      BY <3>1, ReadFailsTyped DEF TypeInv
    <3> QED
      BY <3>1, <3>2 DEF TypeInv, SourceTyped
  <2> QED
    BY <2>1, <2>2, <2>3, CallersTyped, OtherWritesTyped DEF Next
<1> QED
  BY <1>1, <1>2 DEF TypeInv

\* The locals of a call keep their types: what is read of the registry is text
\* and names, and no count or size is below zero (RegistryAccessor.hpp:189-296).
THEOREM TypeCorrect == Spec => []TypeOK
<1>1. Spec => []TypeInv
  BY InvHolds, FoundHolds, InitTyped, StepTyped, PTL DEF Spec
<1> QED
  BY <1>1, InvHolds, FoundHolds, TypeHolds, PTL

-----------------------------------------------------------------------------
(* What the functions that are defined by recursion give, one by one. *)

\* A text more, if the entry has a value.
TextAfter(texts, entry) == IF entry.data = Null THEN texts ELSE Append(texts, Text(entry.data))

\* The texts of the first entries, for each number of them.
LEMMA TextsOneByOne ==
  ASSUME NEW E, NEW entries \in Seq(E)
  PROVE  /\ Texts(entries)[0] = <<>>
         /\ \A i \in 1 .. Len(entries) :
              Texts(entries)[i] = TextAfter(Texts(entries)[i - 1], entries[i])
<1> PICK n \in Nat : n = Len(entries)
  OBVIOUS
<1>1. PICK V : V = {Text(entries[i].data) : i \in 1 .. n}
  OBVIOUS
<1>2. PICK A : A = Seq(V)
  OBVIOUS
<1>3. PICK a : a = <<>>
  OBVIOUS
<1>4. a \in A
  BY <1>2, <1>3
<1>5. \A r \in A : \A i \in 1 .. n : TextAfter(r, entries[i]) \in A
  <2> SUFFICES ASSUME NEW r \in A, NEW i \in 1 .. n PROVE TextAfter(r, entries[i]) \in A
    OBVIOUS
  <2>1. Text(entries[i].data) \in V
    BY <1>1
  <2>2. Append(r, Text(entries[i].data)) \in Seq(V)
    BY <1>2, <2>1, AppendProperties
  <2> QED
    BY <1>2, <2>2 DEF TextAfter
<1>6. PICK step : step = [i \in 1 .. n |-> [r \in A |-> TextAfter(r, entries[i])]]
  OBVIOUS
<1>7. Steps(step, n, A)
  BY <1>5, <1>6 DEF Steps
<1>8. PICK f : Iterates(f, a, step, n, A)
  BY <1>4, <1>7, Recursion
<1>9. f \in [0 .. n -> A] /\ f[0] = a
  BY <1>8 DEF Iterates
<1>10. \A i \in 1 .. n : f[i] = TextAfter(f[i - 1], entries[i])
  <2> SUFFICES ASSUME NEW i \in 1 .. n PROVE f[i] = TextAfter(f[i - 1], entries[i])
    OBVIOUS
  <2>1. i - 1 \in 0 .. n
    OBVIOUS
  <2>2. f[i - 1] \in A
    BY <1>9, <2>1
  <2>3. f[i] = step[i][f[i - 1]]
    BY <1>8 DEF Iterates
  <2> QED
    BY <1>6, <2>2, <2>3
<1> DEFINE Read(g) ==
      g = [i \in 0 .. Len(entries) |->
             IF i = 0 THEN <<>>
             ELSE IF entries[i].data = Null THEN g[i - 1]
             ELSE Append(g[i - 1], Text(entries[i].data))]
<1>11. Read(f)
  <2>1. \A i \in 0 .. n : i # 0 => i \in 1 .. n
    OBVIOUS
  <2> QED
    BY <1>3, <1>9, <1>10, <2>1 DEF TextAfter
<1>12. Texts(entries) = (CHOOSE g : Read(g))
  BY DEF Texts
<1>13. Read(Texts(entries))
  <2> HIDE DEF Read
  <2> QED
    BY <1>11, <1>12
<1>14. PICK h : h = Texts(entries)
  OBVIOUS
<1>15. h = [i \in 0 .. n |-> IF i = 0 THEN <<>>
                             ELSE IF entries[i].data = Null THEN h[i - 1]
                             ELSE Append(h[i - 1], Text(entries[i].data))]
  BY <1>13, <1>14
<1>16. 0 \in 0 .. n /\ \A i \in 1 .. n : i \in 0 .. n /\ i # 0
  OBVIOUS
<1>17. h[0] = <<>>
  BY <1>15, <1>16, Zenon
<1>18. ASSUME NEW i \in 1 .. n PROVE h[i] = TextAfter(h[i - 1], entries[i])
  <2>1. i \in 0 .. n /\ i # 0
    OBVIOUS
  <2> QED
    BY <1>15, <2>1, Zenon DEF TextAfter
<1> QED
  BY <1>14, <1>17, <1>18

\* A string more, and its NUL.
StringAfter(text, string) == text \o string \o <<Nul>>
Terminates(g, S, strings) ==
  /\ g \in [0 .. Len(strings) -> Seq(S)] /\ g[0] = <<>>
  /\ \A i \in 1 .. Len(strings) : g[i] = StringAfter(g[i - 1], strings[i])

\* The strings joined so far, for each number of them.
LEMMA TerminatedOneByOne ==
  ASSUME NEW S, Nul \in S, NEW strings \in Seq(Seq(S))
  PROVE  \E g : Terminates(g, S, strings) /\ Terminated(strings) = g[Len(strings)]
<1> PICK n \in Nat : n = Len(strings)
  OBVIOUS
<1>1. PICK A : A = Seq(S)
  OBVIOUS
<1>2. <<>> \in A /\ <<Nul>> \in Seq(S)
  BY <1>1
<1>3. \A t \in A : \A string \in A : StringAfter(t, string) \in A
  <2> SUFFICES ASSUME NEW t \in Seq(S), NEW string \in Seq(S) PROVE StringAfter(t, string) \in Seq(S)
    BY <1>1
  <2>1. t \o string \in Seq(S)
    BY ConcatProperties
  <2>2. (t \o string) \o <<Nul>> \in Seq(S)
    BY <1>2, <2>1, ConcatProperties
  <2> QED
    BY <2>2 DEF StringAfter
<1>4. \A i \in 1 .. n : strings[i] \in A
  BY <1>1
<1>5. PICK step : step = [i \in 1 .. n |-> [t \in A |-> StringAfter(t, strings[i])]]
  OBVIOUS
<1>6. Steps(step, n, A)
  BY <1>3, <1>4, <1>5 DEF Steps
<1>7. PICK a : a = <<>>
  OBVIOUS
<1>8. PICK f : Iterates(f, a, step, n, A)
  BY <1>2, <1>6, <1>7, Recursion
<1>9. f \in [0 .. n -> A] /\ f[0] = a
  BY <1>8 DEF Iterates
<1>10. \A i \in 1 .. n : f[i] = StringAfter(f[i - 1], strings[i])
  <2> SUFFICES ASSUME NEW i \in 1 .. n PROVE f[i] = StringAfter(f[i - 1], strings[i])
    OBVIOUS
  <2>0. i - 1 \in 0 .. n
    OBVIOUS
  <2>1. f[i - 1] \in A
    BY <1>9, <2>0
  <2>2. f[i] = step[i][f[i - 1]]
    BY <1>8 DEF Iterates
  <2> QED
    BY <1>5, <2>1, <2>2
<1> DEFINE Read(g) ==
      g = [i \in 0 .. Len(strings) |-> IF i = 0 THEN a ELSE StringAfter(g[i - 1], strings[i])]
<1>11. Read(f)
  <2>1. \A i \in 0 .. n : i # 0 => i \in 1 .. n
    OBVIOUS
  <2> QED
    BY <1>9, <1>10, <2>1
<1>12. Terminated(strings) = (CHOOSE g : Read(g))[Len(strings)]
  BY <1>7 DEF Terminated, StringAfter
<1>13. PICK h : Read(h) /\ Terminated(strings) = h[n]
  <2> HIDE DEF Read
  <2> QED
    BY <1>11, <1>12
<1>14. h[0] = a /\ \A i \in 1 .. n : h[i] = StringAfter(h[i - 1], strings[i])
  <2>1. h = [i \in 0 .. n |-> IF i = 0 THEN a ELSE StringAfter(h[i - 1], strings[i])]
    BY <1>13
  <2>2. 0 \in 0 .. n /\ \A i \in 1 .. n : i \in 0 .. n /\ i # 0
    OBVIOUS
  <2>3. h[0] = a
    BY <2>1, <2>2, Zenon
  <2>4. ASSUME NEW i \in 1 .. n PROVE h[i] = StringAfter(h[i - 1], strings[i])
    <3>1. i \in 0 .. n /\ i # 0
      OBVIOUS
    <3> QED
      BY <2>1, <3>1, Zenon
  <2> QED
    BY <2>3, <2>4
<1>15. h[n] = f[n]
  <2>1. PICK T : T = {i \in 0 .. n : h[i] = f[i]}
    OBVIOUS
  <2>2. 0 \in T /\ \A i \in 1 .. n : i - 1 \in T => i \in T
    BY <1>9, <1>10, <1>14, <2>1
  <2>3. \A i \in 0 .. n : i \in T
    BY <2>2, Induction
  <2> QED
    BY <2>1, <2>3
<1>16. Terminates(f, S, strings)
  BY <1>1, <1>7, <1>9, <1>10 DEF Terminates
<1> QED
  BY <1>13, <1>15, <1>16

\* One string more is joined at the end.
LEMMA TerminatedAppend ==
  ASSUME NEW S, Nul \in S, NEW strings \in Seq(Seq(S)), NEW string \in Seq(S)
  PROVE  /\ Terminated(strings) \in Seq(S)
         /\ Terminated(Append(strings, string)) = StringAfter(Terminated(strings), string)
<1>1. PICK n \in Nat : n = Len(strings)
  OBVIOUS
<1>2. PICK longer : longer = Append(strings, string)
  OBVIOUS
<1>3. /\ longer \in Seq(Seq(S)) /\ Len(longer) = n + 1 /\ longer[n + 1] = string
      /\ \A k \in 1 .. n : longer[k] = strings[k]
  BY <1>1, <1>2, AppendProperties
<1>4. PICK g : Terminates(g, S, strings) /\ Terminated(strings) = g[Len(strings)]
  BY TerminatedOneByOne
<1>5. PICK h : Terminates(h, S, longer) /\ Terminated(longer) = h[Len(longer)]
  BY <1>3, TerminatedOneByOne
<1>6. /\ g \in [0 .. n -> Seq(S)] /\ g[0] = <<>>
      /\ \A i \in 1 .. n : g[i] = StringAfter(g[i - 1], strings[i])
  BY <1>1, <1>4, Zenon DEF Terminates
<1>7. h[0] = <<>> /\ \A i \in 1 .. n + 1 : h[i] = StringAfter(h[i - 1], longer[i])
  BY <1>3, <1>5, Zenon DEF Terminates
<1>8. \A i \in 1 .. n : i \in 1 .. n + 1 /\ i - 1 \in 0 .. n
  OBVIOUS
<1>9. \A i \in 1 .. n : h[i] = StringAfter(h[i - 1], strings[i])
  BY <1>3, <1>7, <1>8, Zenon
<1>10. h[n] = g[n]
  <2>1. PICK T : T = {i \in 0 .. n : h[i] = g[i]}
    OBVIOUS
  <2>2. 0 \in T
    BY <1>6, <1>7, <2>1
  <2>3. ASSUME NEW i \in 1 .. n, i - 1 \in T PROVE i \in T
    <3>1. h[i - 1] = g[i - 1]
      BY <2>1, <2>3
    <3>2. h[i] = g[i]
      BY <1>6, <1>9, <3>1, Zenon
    <3> QED
      BY <2>1, <3>2
  <2>4. \A i \in 0 .. n : i \in T
    BY <2>2, <2>3, Induction
  <2> QED
    BY <2>1, <2>4
<1>11. h[n + 1] = StringAfter(h[n], string)
  <2>1. n + 1 \in 1 .. n + 1 /\ n + 1 - 1 = n
    OBVIOUS
  <2>2. PICK last : last = n + 1
    OBVIOUS
  <2>3. last \in 1 .. n + 1 /\ last - 1 = n
    BY <2>1, <2>2
  <2>4. h[last] = StringAfter(h[last - 1], longer[last])
    BY <1>7, <2>3, Zenon
  <2> QED
    BY <1>3, <2>2, <2>3, <2>4, Zenon
<1>12. n \in 0 .. n
  OBVIOUS
<1>13. g[n] \in Seq(S)
  BY <1>6, <1>12
<1>14. Terminated(strings) = g[n]
  BY <1>1, <1>4, Zenon
<1>15. Terminated(longer) = h[n + 1]
  BY <1>3, <1>5, Zenon
<1> QED
  BY <1>2, <1>10, <1>11, <1>13, <1>14, <1>15, Zenon

\* No strings, no characters.
LEMMA TerminatedNone == Terminated(<<>>) = <<>>
<1>1. PICK S : S = {Nul}
  OBVIOUS
<1>2. <<>> \in Seq(Seq(S)) /\ Nul \in S /\ Len(<<>>) = 0
  BY <1>1
<1>3. PICK g : Terminates(g, S, <<>>) /\ Terminated(<<>>) = g[Len(<<>>)]
  BY <1>2, TerminatedOneByOne
<1> QED
  BY <1>2, <1>3, Zenon DEF Terminates

\* A value up to one more character.
LEMMA UptoMore ==
  ASSUME NEW S, NEW data \in Seq(S), NEW i \in 1 .. Len(data)
  PROVE  /\ SubSeq(data, 1, i - 1) \in Seq(S)
         /\ SubSeq(data, 1, i) = Append(SubSeq(data, 1, i - 1), data[i])
<1>1. PICK before : before = SubSeq(data, 1, i - 1)
  OBVIOUS
<1>2. before \in Seq(S) /\ Len(before) = i - 1 /\ \A k \in 1 .. i - 1 : before[k] = data[k]
  BY <1>1, SubSeqProperties
<1>3. PICK more : more = Append(before, data[i])
  OBVIOUS
<1>4. more = [k \in 1 .. i |-> IF k = i THEN data[i] ELSE before[k]]
  BY <1>2, <1>3
<1>5. \A k \in 1 .. i : k = i \/ k \in 1 .. i - 1
  OBVIOUS
<1>6. more = [k \in 1 .. i |-> data[k]]
  BY <1>2, <1>4, <1>5
<1>7. SubSeq(data, 1, i) = [k \in 1 .. i |-> data[k]]
  OBVIOUS
<1> QED
  BY <1>1, <1>2, <1>3, <1>6, <1>7

\* A character at the end belongs to the last part.
LEMMA AppendJoins ==
  ASSUME NEW S, NEW s \in Seq(S), NEW t \in Seq(S), NEW c \in S
  PROVE  (s \o t) \o <<c>> = s \o Append(t, c)
<1>1. PICK one : one = <<c>>
  OBVIOUS
<1>2. one \in Seq(S) /\ Append(t, c) = t \o one
  BY <1>1, AppendIsConcat
<1>3. (s \o t) \o one = s \o (t \o one)
  BY <1>2, ConcatAssociative
<1> QED
  BY <1>1, <1>2, <1>3

\* The strings that have ended, each with its NUL, and the one that has begun
\* are what has been read.
CutsUpto(h, data, i) == Terminated(h[i].ended) \o h[i].begun = SubSeq(data, 1, i)

\* That holds of every part that has been read.
LEMMA CutsJoin ==
  ASSUME NEW S, Nul \in S, NEW data \in Seq(S), NEW n \in 0 .. Len(data), NEW h, Cuts(h, S, data, n)
  PROVE  \A i \in 0 .. n : CutsUpto(h, data, i)
<1> DEFINE Part(i) == Terminated(h[i].ended) \o h[i].begun = SubSeq(data, 1, i)
<1>1. Part(0)
  <2>1. h[0].ended = <<>> /\ h[0].begun = <<>>
    BY DEF Cuts
  <2>2. SubSeq(data, 1, 0) = <<>> /\ <<>> \o <<>> = <<>>
    OBVIOUS
  <2> QED
    BY <2>1, <2>2, TerminatedNone, Zenon
<1>2. ASSUME NEW i \in 1 .. n, Part(i - 1) PROVE Part(i)
  <2>1. i - 1 \in 0 .. n /\ i \in 1 .. Len(data) /\ data[i] \in S
    OBVIOUS
  <2>2. /\ h[i - 1] \in [ended : Seq(Seq(S)), begun : Seq(S)]
        /\ h[i] = OneMore(h[i - 1], data[i])
    BY <2>1 DEF Cuts
  <2>3. PICK r : r = h[i - 1]
    OBVIOUS
  <2>4. r.ended \in Seq(Seq(S)) /\ r.begun \in Seq(S)
    BY <2>2, <2>3
  <2>5. PICK strings \in Seq(Seq(S)) : strings = r.ended
    BY <2>4, Zenon
  <2>6. PICK string \in Seq(S) : string = r.begun
    BY <2>4, Zenon
  <2>7. PICK c \in S : c = data[i]
    BY <2>1
  <2>8. PICK text \in Seq(S) : text = SubSeq(data, 1, i - 1)
    BY <2>1, UptoMore
  <2>9. SubSeq(data, 1, i) = text \o <<c>>
    BY <2>1, <2>7, <2>8, UptoMore, AppendIsConcat
  <2>10. PICK joined \in Seq(S) : joined = Terminated(strings)
    BY TerminatedAppend
  <2>11. joined \o string = text
    BY <1>2, <2>3, <2>5, <2>6, <2>8, <2>10, Zenon
  <2>12. CASE c = Nul
    <3>1. h[i].ended = Append(strings, string) /\ h[i].begun = <<>>
      BY <2>2, <2>3, <2>5, <2>6, <2>7, <2>12 DEF OneMore
    <3>2. Terminated(Append(strings, string)) = (joined \o string) \o <<c>>
      BY <2>10, <2>12, TerminatedAppend DEF StringAfter
    <3>3. PICK more : more = text \o <<c>>
      OBVIOUS
    <3>4. more \in Seq(S)
      BY <2>1, <2>7, <2>8, <2>9, <3>3, UptoMore, AppendProperties
    <3>5. more \o <<>> = more
      BY <3>4, ConcatEmptySeq
    <3> QED
      BY <2>9, <2>11, <3>1, <3>2, <3>3, <3>5, Zenon
  <2>13. CASE c # Nul
    <3>1. h[i].ended = strings /\ h[i].begun = Append(string, c)
      BY <2>2, <2>3, <2>4, <2>5, <2>6, <2>7, <2>13 DEF OneMore
    <3>4. (joined \o string) \o <<c>> = joined \o Append(string, c)
      BY AppendJoins
    <3> QED
      BY <2>9, <2>10, <2>11, <3>1, <3>4, Zenon
  <2> QED
    BY <2>12, <2>13
<1> HIDE DEF Part
<1>3. PICK T : T = {i \in 0 .. n : Part(i)}
  OBVIOUS
<1>4. 0 \in T /\ \A i \in 1 .. n : i - 1 \in T => i \in T
  BY <1>1, <1>2, <1>3
<1>5. \A i \in 0 .. n : i \in T
  BY <1>4, Induction
<1>6. \A i \in 0 .. n : Part(i)
  BY <1>3, <1>5
<1> QED
  BY <1>6, Zenon DEF Part, CutsUpto

\* The strings of a multi-string that is stored as the API asks are all of it.
LEMMA WholeMultiString ==
  ASSUME NEW S, Nul \in S, NEW data \in Seq(S), WellFormed("RegGetMultiString", data)
  PROVE  /\ Terminated(MultiStrings(data)) = Front(data)
         /\ Given("RegGetMultiString", data) = data
<1> PICK m \in Nat : m = Len(data)
  OBVIOUS
<1>1. /\ EndsIn(data, <<Nul, Nul>>) /\ data[1] # Nul
      /\ \A i \in 1 .. m - 2 : data[i] # Nul \/ data[i + 1] # Nul
  BY DEF WellFormed
<1>2. m >= 2 /\ data[m] = Nul /\ data[m - 1] = Nul
  BY <1>1, EndsInNul
<1>3. EndAt(data, m)
  BY <1>2 DEF EndAt
<1>4. PICK n \in 0 .. m - 1 :
         /\ Min({i \in DOMAIN data : data[i] = Nul /\ (i = 1 \/ data[i - 1] = Nul)}) = n + 1
         /\ EndAt(data, n + 1)
  BY <1>3, EndFound
<1>5. data[n + 1] = Nul /\ (n + 1 = 1 \/ data[n] = Nul)
  <2>1. n + 1 - 1 = n
    OBVIOUS
  <2> QED
    BY <1>4, <2>1 DEF EndAt
<1>6. n # 0
  BY <1>1, <1>5
<1>7. data[n] = Nul
  BY <1>5, <1>6
<1>8. n = m - 1
  BY <1>1, <1>5, <1>6, <1>7
<1>9. PICK h : Cuts(h, S, data, n) /\ MultiStrings(data) = h[n].ended
  BY <1>4, StringsOneByOne
<1>10. h[n].begun = <<>>
  <2>1. n \in 1 .. n
    BY <1>6
  <2>2. h[n] = OneMore(h[n - 1], data[n])
    BY <1>9, <2>1 DEF Cuts
  <2> QED
    BY <1>7, <2>2 DEF OneMore
<1>11. Terminated(h[n].ended) \o h[n].begun = SubSeq(data, 1, n)
  <2>1. n \in 0 .. Len(data) /\ n \in 0 .. n
    OBVIOUS
  <2>3. Cuts(h, S, data, n)
    BY <1>9
  <2>2. CutsUpto(h, data, n)
    BY <2>1, <2>3, CutsJoin
  <2> QED
    BY <2>2, Zenon DEF CutsUpto
<1>12. h[n].ended \in Seq(Seq(S))
  <2>1. n \in 0 .. n
    OBVIOUS
  <2>2. h[n] \in [ended : Seq(Seq(S)), begun : Seq(S)]
    BY <1>9, <2>1 DEF Cuts
  <2> QED
    BY <2>2
<1>13. PICK all \in Seq(S) : all = Terminated(h[n].ended)
  <2>1. <<>> \in Seq(S)
    OBVIOUS
  <2> QED
    BY <1>12, <2>1, TerminatedAppend
<1>14. all \o <<>> = all
  BY ConcatEmptySeq
<1>15. Front(data) = SubSeq(data, 1, n)
  BY <1>8 DEF Front
<1>16. Given("RegGetMultiString", data) = data
  BY <1>1 DEF Given
<1> QED
  BY <1>9, <1>10, <1>11, <1>13, <1>14, <1>15, <1>16, Zenon

-----------------------------------------------------------------------------
(* Sets and contents. *)

\* A set as a sequence has the same elements.
LEMMA SetToSeqAll ==
  ASSUME NEW S, NEW s \in Seq(S)
  PROVE  ToSet(SetToSeq(ToSet(s))) = ToSet(s)
<1>1. PICK T : T = ToSet(s)
  OBVIOUS
<1>2. s \in [1 .. Len(s) -> T] /\ Len(s) \in Nat
  BY <1>1 DEF ToSet
<1>3. s \in Surjection(1 .. Len(s), T)
  BY <1>1, <1>2 DEF Surjection, ToSet
<1>4. IsFiniteSet(T)
  BY <1>2, <1>3, FS_NatSurjection DEF ExistsSurjection
<1>5. PICK c \in Nat : c = Cardinality(T)
  BY <1>4, FS_CardinalityType
<1>6. \E f \in [1 .. c -> T] : IsInjective(f)
  BY <1>4, <1>5, FS_CardinalityType DEF ExistsBijection, Bijection, Injection
<1>7. PICK t : t = SetToSeq(T)
  OBVIOUS
<1>8. t \in [1 .. c -> T] /\ IsInjective(t)
  BY <1>5, <1>6, <1>7 DEF SetToSeq
<1>9. t \in Injection(1 .. c, T)
  BY <1>8 DEF Injection
<1>10. Cardinality(1 .. c) = c
  BY FS_Interval
<1>11. t \in Surjection(1 .. c, T)
  BY <1>4, <1>5, <1>9, <1>10, FS_Injection
<1>12. \A x \in T : \E i \in 1 .. c : t[i] = x
  BY <1>11 DEF Surjection
<1> QED
  BY <1>1, <1>7, <1>8, <1>12 DEF ToSet

-----------------------------------------------------------------------------
(* What a key holds, while nobody writes. *)

\* The names are those of the entries.
LEMMA NamesAre ==
  ASSUME NEW s
  PROVE  /\ DOMAIN NamesOf(s) = DOMAIN s
         /\ \A i \in DOMAIN s : NamesOf(s)[i] = s[i].name
BY DEF NamesOf

\* The four values of the version have different names.
LEMMA VersionsDiffer ==
  /\ DOMAIN VersionValues = 1 .. 4
  /\ \A i, j \in 1 .. 4 : VersionValues[i] = VersionValues[j] => i = j
<1>1. DOMAIN VersionValues = 1 .. 4
  BY DEF VersionValues
<1>2. /\ VersionValues[1] = "CSDVersion" /\ VersionValues[2] = "ProductName"
      /\ VersionValues[3] = "EditionID" /\ VersionValues[4] = "DisplayVersion"
  BY DEF VersionValues
<1>3. \A i \in 1 .. 4 : i = 1 \/ i = 2 \/ i = 3 \/ i = 4
  OBVIOUS
<1> QED
  BY <1>1, <1>2, <1>3

\* Two entries of a key never have the same name.
LEMMA NamesDiffer ==
  ASSUME NEW q, NEW s, Possible(q, s)
  PROVE  \A i, j \in DOMAIN s : s[i].name = s[j].name => i = j
<1>1. CASE q = "GetWendousInfo"
  <2>1. NamesOf(s) = VersionValues
    BY <1>1 DEF Possible
  <2>2. DOMAIN s = 1 .. 4 /\ \A i \in DOMAIN s : VersionValues[i] = s[i].name
    BY <2>1, NamesAre, VersionsDiffer
  <2> QED
    BY <2>2, VersionsDiffer
<1>2. CASE q = "RegGetMultiString"
  <2>1. NamesOf(s) = <<"value">>
    BY <1>2 DEF Possible
  <2>2. DOMAIN NamesOf(s) = {1}
    BY <2>1
  <2> QED
    BY <2>2, NamesAre
<1>3. CASE q \notin {"GetWendousInfo", "RegGetMultiString"}
  <2>1. IsInjective(NamesOf(s))
    BY <1>3 DEF Possible
  <2> QED
    BY <2>1, NamesAre DEF IsInjective
<1> QED
  BY <1>1, <1>2, <1>3

\* What a key holds when the call begins is possible.
LEMMA ContentsPossible ==
  ASSUME NEW q \in Query, NEW s \in Contents(q)
  PROVE  Possible(q, s)
<1>1. CASE q = "GetWendousInfo"
  <2>1. PICK data \in [DOMAIN VersionValues -> VersionData \cup {Null}] :
          s = [i \in DOMAIN VersionValues |-> Entry(VersionValues[i], data[i])]
    BY <1>1 DEF Contents
  <2>2. DOMAIN s = 1 .. 4 /\ \A i \in 1 .. 4 : s[i].name = VersionValues[i]
    BY <2>1, VersionsDiffer DEF Entry
  <2>3. PICK v : v = VersionValues
    OBVIOUS
  <2>4. v = [i \in 1 .. 4 |-> v[i]]
    BY <2>3 DEF VersionValues
  <2>5. NamesOf(s) = [i \in 1 .. 4 |-> v[i]]
    BY <2>2, <2>3 DEF NamesOf
  <2> QED
    BY <1>1, <2>3, <2>4, <2>5 DEF Possible
<1>2. CASE q = "RegGetMultiString"
  <2>1. PICK e \in Entries(q) : s = <<e>>
    BY <1>2 DEF Contents
  <2>2. e.name = "value"
    BY <1>2, <2>1 DEF Entries, Pairs, Entry
  <2>3. NamesOf(s) = <<"value">>
    BY <2>1, <2>2 DEF NamesOf
  <2> QED
    BY <1>2, <2>3 DEF Possible
<1>3. CASE q \notin {"GetWendousInfo", "RegGetMultiString"}
  BY <1>3 DEF Contents
<1> QED
  BY <1>1, <1>2, <1>3

\* The registry answers with what the entry of that name holds.
LEMMA AnswersEntry ==
  ASSUME Possible(call.query, Here), NEW i \in DOMAIN Here
  PROVE  RegGetValueA_sp(Here[i].name)
           = IF Here[i].data = Null \/ ~InSubkey(Here[i].name) THEN Null
             ELSE Given(call.query, Here[i].data)
<1>1. PICK s : s = Here
  OBVIOUS
<1>2. PICK name : name = s[i].name
  OBVIOUS
<1>3. {j \in DOMAIN s : s[j].name = name} = {i}
  BY <1>1, <1>2, NamesDiffer
<1>4. {s[j].data : j \in {k \in DOMAIN s : s[k].name = name}} = {s[i].data}
  BY <1>3
<1>5. CASE s[i].data = Null
  <2>1. {s[i].data} \ {Null} = {}
    BY <1>5
  <2> QED
    BY <1>1, <1>2, <1>4, <1>5, <2>1 DEF RegGetValueA_sp
<1>6. CASE s[i].data # Null
  <2>1. {s[i].data} \ {Null} = {s[i].data} /\ {s[i].data} # {}
    BY <1>6
  <2>2. (CHOOSE data \in {s[i].data} : TRUE) = s[i].data
    OBVIOUS
  <2> QED
    BY <1>1, <1>2, <1>4, <1>6, <2>1, <2>2 DEF RegGetValueA_sp
<1> QED
  BY <1>5, <1>6

\* What is stored, terminated or not, is not mistaken for nothing.
LEMMA GivenSomething ==
  ASSUME NEW q \in ByValue, NEW e \in Entries(q), e.data # Null
  PROVE  Given(q, e.data) # Null
<1>1. e.data \in Data \cup VersionData \cup MultiData
  BY EntryData
<1>2. IsData(e.data)
  BY <1>1, DataAssumption
<1> QED
  BY <1>2 DEF IsData, Given

\* A string that is stored as the API asks fits, and is read without its NUL.
LEMMA TakesText ==
  ASSUME NEW q \in {"GetInstalledAppList", "GetWendousInfo"}, NEW e \in Entries(q),
         e.data # Null, WellFormed(q, e.data), NEW data, data = Given(q, e.data)
  PROVE  ~(StringLength(data) > MaxString) /\ TakeString(data) = Text(e.data)
<1>1. e.data \in Seq(ToSet(e.data)) /\ Len(e.data) \in Nat /\ Len(e.data) < MaxString
  BY EntryData DEF ByValue
<1>2. native \/ EndsIn(e.data, <<Nul>>)
  BY DEF WellFormed
<1>3. MaxString \in Nat /\ Dword \in Nat /\ MaxString < Dword - 1
  BY SizeAssumption
<1>4. PICK S : S = ToSet(e.data) \cup {Nul}
  OBVIOUS
<1>5. PICK d \in Seq(S) : d = e.data
  BY <1>1, <1>4
<1>6. Len(data) \in 1 .. MaxString /\ Front(data) = Text(e.data)
  <2>1. CASE EndsIn(d, <<Nul>>)
    <3>1. data = d /\ Text(e.data) = Front(d)
      BY <1>5, <2>1 DEF Given, Text
    <3>2. Len(d) >= 1
      BY <2>1, EndsInNul
    <3> QED
      BY <1>1, <1>3, <1>5, <3>1, <3>2
  <2>2. CASE ~EndsIn(d, <<Nul>>)
    <3>1. data = Append(d, Nul) /\ Text(e.data) = d
      BY <1>2, <1>5, <2>2 DEF Given, Text
    <3>2. Nul \in S
      BY <1>4
    <3>3. Len(data) = Len(d) + 1 /\ data \in Seq(S) /\ \A i \in 1 .. Len(d) : data[i] = d[i]
      BY <3>1, <3>2, AppendProperties
    <3>4. Front(data) = [i \in 1 .. Len(d) |-> data[i]]
      BY <3>3 DEF Front
    <3>5. d = [i \in 1 .. Len(d) |-> d[i]]
      OBVIOUS
    <3>6. Front(data) = d
      BY <3>3, <3>4, <3>5
    <3> QED
      BY <1>1, <1>3, <1>5, <3>1, <3>3, <3>6
  <2> QED
    BY <2>1, <2>2
<1>7. StringLength(data) = Len(data) - 1
  BY <1>3, <1>6 DEF StringLength
<1>8. ~(StringLength(data) > MaxString)
  BY <1>3, <1>6, <1>7
<1>9. TakeString(data) = Front(data)
  BY <1>8, TakesFront
<1> QED
  BY <1>6, <1>8, <1>9

-----------------------------------------------------------------------------
(* What a query has collected so far, of keys that nobody writes. *)

\* The keys are as they were, and at least one is left.
SourceStill ==
  /\ DOMAIN source = ToSet(Visits(call.query))
  /\ \A p \in DOMAIN source : Possible(call.query, source[p])
  /\ call.query # "DumpInfo" => call.todo = Visits(call.query)
  /\ call.query \in {"RegEnumValues", "RegGetMultiString"} => call.closed = {}

\* The names read so far are those of the first entries.
NamesSoFar ==
  /\ pc \in {"info", "enum"} => Head(call.todo) \notin call.closed
  /\ pc = "enum" =>
       /\ call.count = Len(Here) /\ call.room = LongestName(Here) + 1
       /\ call.next <= Len(Here)
       /\ call.names = [i \in 1 .. call.next |-> Kept(Here[i])]

\* What has been collected of the keys that have been read.
StartupsSoFar ==
  call.query = "DumpInfo" =>
    /\ ToSet(call.result) \subseteq
         UNION {ToSet(NamesOf(source[p])) : p \in DOMAIN source \ call.closed}
    /\ \A p \in DOMAIN source \ call.closed :
         p \in ToSet(call.todo) \/ ToSet(NamesOf(source[p])) \subseteq ToSet(call.result)

\* The texts of the first values.
AppsSoFar ==
  call.query = "GetInstalledAppList" =>
    /\ pc \notin {"size", "read"} => call.result = <<>>
    /\ pc \in {"size", "read"} =>
         /\ call.names = NamesOf(Here) /\ call.next <= Len(Here)
         /\ call.result = Texts(Here)[call.next]

VersionSoFar ==
  call.query = "GetWendousInfo" =>
    /\ call.closed # {} => Head(call.todo) \in call.closed
    /\ \E n \in {1, 2, 4} :
         /\ call.names = SubSeq(VersionValues, 1, n) /\ call.next <= n
         /\ n = 2 => Stored(Here[1]) # <<>>
         /\ n = 4 => Stored(Here[1]) = <<>>
    /\ call.result = [i \in 1 .. call.next |-> Stored(Here[i])]

MultiStringSoFar ==
  call.query = "RegGetMultiString" => call.names = <<"value">> /\ call.next = 0

\* The size that is allocated is that of the value.
SizeAsked ==
  pc = "read" =>
    /\ call.next < Len(call.names) /\ Here[call.next + 1].data # Null
    /\ call.room = Len(Given(call.query, Here[call.next + 1].data))

SoFar == SourceStill /\ NamesSoFar /\ StartupsSoFar /\ AppsSoFar /\ VersionSoFar
           /\ MultiStringSoFar /\ SizeAsked

\* While it runs, nobody has disturbed it and all that it has is right; when it
\* ends, that is all there is.
CompleteInv == UndisturbedComplete /\ (Undisturbed /\ pc \notin Ended => SoFar)

-----------------------------------------------------------------------------
(* The shapes of steps. *)

\* Nobody else has taken a step.
Still ==
  /\ UNCHANGED <<native, source, disturbed>>
  /\ call'.query = call.query /\ call'.closed = call.closed

\* What the API asks of a value does not change with the call.
LEMMA WellFormedStays ==
  ASSUME Still
  PROVE  \A data : WellFormed(call.query, data)' <=> WellFormed(call.query, data)
<1> SUFFICES ASSUME NEW data PROVE WellFormed(call.query, data)' <=> WellFormed(call.query, data)
  OBVIOUS
<1>1. native' = native /\ call'.query = call.query
  BY DEF Still
<1> QED
  BY <1>1, Zenon DEF WellFormed

\* A call that has not been disturbed was not before the step.
LEMMA UndisturbedBefore == Still /\ Undisturbed' => Undisturbed
<1> SUFFICES ASSUME Still, Undisturbed' PROVE Undisturbed
  OBVIOUS
<1>1. ~disturbed
  BY Zenon DEF Still, Undisturbed
<1>2. \A p \in DOMAIN source' : \A e \in ToSet(source'[p]) :
        e.data = Null \/ WellFormed(call.query, e.data)'
  BY Zenon DEF Undisturbed
<1>3. \A p \in DOMAIN source' : \A e \in ToSet(source'[p]) :
        e.data = Null \/ WellFormed(call.query, e.data)
  BY <1>2, WellFormedStays, Zenon
<1>4. source' = source
  BY Zenon DEF Still
<1>5. \A p \in DOMAIN source : \A e \in ToSet(source[p]) :
        e.data = Null \/ WellFormed(call.query, e.data)
  BY <1>3, <1>4, Zenon
<1> QED
  BY <1>1, <1>5, Zenon DEF Undisturbed

\* A step after which the call runs.
LEMMA NotEnded ==
  ASSUME pc' \notin Ended, Undisturbed' => SoFar'
  PROVE  CompleteInv'
BY DEF CompleteInv, UndisturbedComplete, Ended

\* A step that returns.
LEMMA Returns ==
  ASSUME pc' = "returned", Undisturbed' => Complete'
  PROVE  CompleteInv'
BY DEF CompleteInv, UndisturbedComplete, Ended

\* What the invariant says while the call runs.
LEMMA SoFarBefore ==
  ASSUME CompleteInv, Still, Undisturbed', pc \notin Ended
  PROVE  Undisturbed /\ SoFar
BY UndisturbedBefore DEF CompleteInv

\* The key that is read is still the same.
LEMMA HereStays ==
  ASSUME Still, call'.todo = call.todo
  PROVE  Here' = Here /\ (SourceStill => SourceStill')
BY DEF Still, Here, SourceStill, Possible

\* Nor does what is stored.
LEMMA StoredStays ==
  ASSUME Still, NEW entry
  PROVE  Stored(entry)' = Stored(entry)
BY DEF Still, Stored

\* The key is there, and what it holds is possible.
LEMMA HerePossible ==
  ASSUME FoundInv, SourceStill, pc \notin Ended
  PROVE  /\ Possible(call.query, Here) /\ Here \in Seq(Entries(call.query))
         /\ Head(call.todo) \in DOMAIN source
BY HereFound DEF FoundInv, SourceStill, Here

\* Only one key is read, unless it is those of the startups.
LEMMA OnlyIsHere ==
  ASSUME SourceStill, call.query \in Query, call.query # "DumpInfo"
  PROVE  Only = Here /\ Len(call.todo) = 1
<1>1. call.todo = Visits(call.query)
  BY DEF SourceStill
<1>2. \E key : Visits(call.query) = <<key>>
  BY DEF Visits, Query, OwnKey, GivenKey
<1>3. PICK key : Visits(call.query) = <<key>>
  BY <1>2
<1> QED
  BY <1>1, <1>3 DEF Only, Here

\* Nothing more of the startups.
LEMMA StartupsStay ==
  ASSUME Still, StartupsSoFar, call'.todo = call.todo, call'.result = call.result
  PROVE  StartupsSoFar'
BY DEF Still, StartupsSoFar, NamesOf

\* Of a sequence, all but the first are in the rest.
LEMMA HeadOrTail ==
  ASSUME NEW S, NEW s \in Seq(S), s # <<>>
  PROVE  Head(s) \in S /\ \A x \in ToSet(s) : x = Head(s) \/ x \in ToSet(Tail(s))
<1>1. PICK n \in Nat : n = Len(s)
  OBVIOUS
<1>2. PICK tail : tail = Tail(s)
  OBVIOUS
<1>3. /\ n >= 1 /\ Head(s) = s[1] /\ tail \in Seq(S) /\ Len(tail) = n - 1
      /\ \A i \in 1 .. n - 1 : tail[i] = s[i + 1]
  BY <1>1, <1>2, HeadTailProperties
<1>4. ASSUME NEW i \in 1 .. n, i # 1 PROVE s[i] \in ToSet(tail)
  <2>1. i - 1 \in 1 .. n - 1 /\ i - 1 + 1 = i
    BY <1>4
  <2>2. tail[i - 1] = s[i] /\ i - 1 \in DOMAIN tail
    BY <1>3, <2>1
  <2> QED
    BY <2>2 DEF ToSet
<1>5. \A x \in ToSet(s) : \E i \in 1 .. n : x = s[i]
  BY <1>1 DEF ToSet
<1> QED
  BY <1>2, <1>3, <1>4, <1>5

\* On to the next key of the startups, with the names of the one that was open.
LEMMA LeavesStartups ==
  ASSUME IInv, FoundInv, CompleteInv, pc \notin Ended, UNCHANGED <<native, source, disturbed>>,
         NEW locals, IsCall(locals), locals.query = "DumpInfo", call.query = "DumpInfo",
         locals.todo = call.todo, locals.closed = call.closed,
         ToSet(call.result) \subseteq ToSet(locals.result),
         Undisturbed /\ SoFar =>
           IF Head(call.todo) \in call.closed THEN locals.result = call.result
           ELSE ToSet(locals.result) = ToSet(call.result) \cup ToSet(NamesOf(Here)),
         NEW opened, Leave(locals, opened)
  PROVE  CompleteInv'
<1>1. /\ call'.query = "DumpInfo" /\ call'.todo = Tail(call.todo) /\ call'.closed = call.closed
      /\ call'.result = locals.result
      /\ pc' = IF Len(call.todo) = 1 THEN "returned" ELSE "open"
  BY DEF Leave, IsCall, Fields
<1>2. Still
  BY <1>1, Zenon DEF Still
<1>3. call.todo \in Seq(DOMAIN source) /\ call.todo # <<>>
  BY DEF FoundInv, SourceFound
<1>4. ASSUME Undisturbed' PROVE StartupsSoFar' /\ SourceStill'
  <2>1. Undisturbed /\ SoFar
    BY <1>2, <1>4, SoFarBefore
  <2>2. SourceStill'
    BY <1>1, <2>1 DEF SoFar, SourceStill, Possible
  <2>3. PICK some : some = DOMAIN source \ call.closed
    OBVIOUS
  <2>4. PICK names : names = [p \in DOMAIN source |-> ToSet(NamesOf(source[p]))]
    OBVIOUS
  <2>5. \A p \in DOMAIN source : names[p] = ToSet(NamesOf(source[p]))
    BY <2>4
  <2>6. /\ ToSet(call.result) \subseteq UNION {names[p] : p \in some}
        /\ \A p \in some : p \in ToSet(call.todo) \/ names[p] \subseteq ToSet(call.result)
    BY <2>1, <2>3, <2>5 DEF SoFar, StartupsSoFar
  <2>7. PICK key : key = Head(call.todo)
    OBVIOUS
  <2>8. key \in DOMAIN source /\ \A p \in ToSet(call.todo) : p = key \/ p \in ToSet(Tail(call.todo))
    BY <1>3, <2>7, HeadOrTail
  <2>9. /\ ToSet(call'.result) \subseteq UNION {names[p] : p \in some}
        /\ \A p \in some : p \in ToSet(call'.todo) \/ names[p] \subseteq ToSet(call'.result)
    <3>1. CASE key \in call.closed
      <4>1. call'.result = call.result
        BY <1>1, <2>1, <2>7, <3>1
      <4>2. key \notin some
        BY <2>3, <3>1
      <4> QED
        BY <1>1, <2>6, <2>8, <4>1, <4>2
    <3>2. CASE key \notin call.closed
      <4>1. key \in some
        BY <2>3, <2>8, <3>2
      <4>2. ToSet(call'.result) = ToSet(call.result) \cup names[key]
        BY <1>1, <2>1, <2>5, <2>7, <2>8, <3>2 DEF Here
      <4>3. names[key] \subseteq UNION {names[p] : p \in some}
        BY <4>1
      <4> QED
        BY <1>1, <2>6, <2>8, <4>2, <4>3
    <3> QED
      BY <3>1, <3>2
  <2>10. UNION {names[p] : p \in some} = UNION {ToSet(NamesOf(source[p])) : p \in some}
    BY <2>3, <2>5
  <2>11. StartupsSoFar'
    <3>1. source' = source /\ DOMAIN source' \ call'.closed = some
      BY <1>1, <1>2, <2>3 DEF Still
    <3>2. ToSet(call'.result) \subseteq UNION {ToSet(NamesOf(source[p])) : p \in some}
      BY <2>9, <2>10
    <3>3. ToSet(call'.result) \subseteq
            UNION {ToSet(NamesOf(source'[p])) : p \in DOMAIN source' \ call'.closed}
      BY <3>1, <3>2, Zenon
    <3>4. \A p \in DOMAIN source' \ call'.closed :
            p \in ToSet(call'.todo) \/ ToSet(NamesOf(source'[p])) \subseteq ToSet(call'.result)
      BY <2>3, <2>5, <2>9, <3>1
    <3> QED
      BY <3>3, <3>4, Zenon DEF StartupsSoFar
  <2> QED
    BY <2>2, <2>11
<1>5. CASE Len(call.todo) = 1
  <2>1. ToSet(call'.todo) = {}
    <3>1. PICK tail : tail = Tail(call.todo)
      OBVIOUS
    <3>2. PICK S, todo : todo \in Seq(S) /\ todo = call.todo
      BY <1>3
    <3>3. todo # <<>> /\ Len(todo) = 1
      BY <1>3, <1>5, <3>2
    <3>4. Tail(todo) \in Seq(S) /\ Len(Tail(todo)) = Len(todo) - 1
      BY <3>2, <3>3, HeadTailProperties
    <3>5. DOMAIN tail = {}
      BY <3>1, <3>2, <3>3, <3>4
    <3> QED
      BY <1>1, <3>1, <3>5 DEF ToSet
  <2>2. ASSUME Undisturbed' PROVE Complete'
    <3>1. StartupsSoFar'
      BY <1>4, <2>2
    <3>2. /\ ToSet(call'.result) \subseteq
               UNION {ToSet(NamesOf(source'[p])) : p \in DOMAIN source' \ call'.closed}
          /\ \A p \in DOMAIN source' \ call'.closed :
               ToSet(NamesOf(source'[p])) \subseteq ToSet(call'.result)
      BY <1>1, <2>1, <3>1 DEF StartupsSoFar, NamesOf
    <3>3. ToSet(call'.result) =
            UNION {ToSet(NamesOf(source'[p])) : p \in DOMAIN source' \ call'.closed}
      BY <3>2
    <3> QED
      BY <1>1, <3>3 DEF Complete, NamesOf
  <2> QED
    BY <1>1, <1>5, <2>2, Returns
<1>6. CASE Len(call.todo) # 1
  <2>1. pc' = "open" /\ pc' \notin Ended
    BY <1>1, <1>6 DEF Ended
  <2>2. ASSUME Undisturbed' PROVE SoFar'
    <3>1. NamesSoFar' /\ SizeAsked' /\ AppsSoFar' /\ VersionSoFar' /\ MultiStringSoFar'
      BY <1>1, <2>1 DEF NamesSoFar, SizeAsked, AppsSoFar, VersionSoFar, MultiStringSoFar
    <3> QED
      BY <1>4, <2>2, <3>1 DEF SoFar
  <2> QED
    BY <2>1, <2>2, NotEnded
<1> QED
  BY <1>5, <1>6

-----------------------------------------------------------------------------
(* The enumerations. *)

\* A key that cannot be opened is passed over or thrown for.
LEMMA OpenComplete ==
  ASSUME IInv, FoundInv, CompleteInv, OpenKey \/ OpenFails
  PROVE  CompleteInv'
<1>1. pc = "open" /\ pc \notin Ended /\ IsCall(call) /\ UNCHANGED <<native, source>>
  BY DEF OpenKey, OpenFails, Ended, IInv, others
<1>2. call.query \in {"GetInstalledAppList", "DumpInfo"}
  BY <1>1 DEF IInv, GivenOnce, OwnKey
<1>3. CASE OpenKey
  <2>1. pc' = "info" /\ pc' \notin Ended /\ UNCHANGED call
        /\ Head(call.todo) \notin call.closed /\ UNCHANGED disturbed
    BY <1>3 DEF OpenKey, history, Ended
  <2>2. Still
    BY <1>1, <2>1, Zenon DEF Still
  <2>3. ASSUME Undisturbed' PROVE SoFar'
    <3>1. SoFar
      BY <1>1, <2>2, <2>3, SoFarBefore
    <3>2. SourceStill' /\ StartupsSoFar'
      BY <2>1, <2>2, <3>1, HereStays, StartupsStay DEF SoFar
    <3>3. NamesSoFar' /\ SizeAsked'
      BY <2>1 DEF NamesSoFar, SizeAsked
    <3>4. AppsSoFar'
      BY <1>1, <2>1, <3>1 DEF SoFar, AppsSoFar
    <3>5. VersionSoFar' /\ MultiStringSoFar'
      BY <1>2, <2>1 DEF VersionSoFar, MultiStringSoFar
    <3> QED
      BY <3>2, <3>3, <3>4, <3>5 DEF SoFar
  <2> QED
    BY <2>1, <2>3, NotEnded
<1>4. CASE OpenFails /\ call.query = "GetInstalledAppList"
  <2>1. pc' = "threw" /\ UNCHANGED call /\ Head(call.todo) \in call.closed
    BY <1>4 DEF OpenFails, Throw
  <2> QED
    BY <1>4, <2>1 DEF CompleteInv, UndisturbedComplete, Ended
<1>5. CASE OpenFails /\ call.query = "DumpInfo"
  <2>1. Leave(call, 0) /\ UNCHANGED disturbed /\ Head(call.todo) \in call.closed
    BY <1>5 DEF OpenFails, history
  <2> QED
    BY <1>1, <1>5, <2>1, LeavesStartups
<1> QED
  BY <1>2, <1>3, <1>4, <1>5

\* The first elements, and one more.
LEMMA FirstMore ==
  ASSUME NEW f, NEW m \in Nat, DOMAIN f = 1 .. m, NEW n \in Nat, n < m,
         NEW s, s = [i \in 1 .. n |-> f[i]]
  PROVE  Append(s, f[n + 1]) = [i \in 1 .. n + 1 |-> f[i]]
<1>1. PICK S : S = {f[i] : i \in 1 .. m}
  OBVIOUS
<1>2. /\ s \in [1 .. n -> S] /\ f[n + 1] \in S
  BY <1>1
<1>3. s \in Seq(S) /\ Len(s) = n
  BY <1>2
<1>4. PICK t : t = Append(s, f[n + 1])
  OBVIOUS
<1>5. /\ t \in Seq(S) /\ Len(t) = n + 1 /\ \A i \in 1 .. n : t[i] = s[i]
      /\ t[n + 1] = f[n + 1]
  BY <1>2, <1>3, <1>4, AppendProperties
<1>6. \A i \in 1 .. n + 1 : t[i] = f[i]
  <2>1. \A i \in 1 .. n + 1 : i \in 1 .. n \/ i = n + 1
    OBVIOUS
  <2> QED
    BY <1>5, <2>1
<1>7. t = [i \in 1 .. n + 1 |-> t[i]]
  BY <1>5
<1> QED
  BY <1>4, <1>6, <1>7

\* What enumerates reads no values.
LEMMA Enumerating ==
  ASSUME FoundInv, IsCall(call), pc \in {"info", "enum"}
  PROVE  /\ call.query \in {"RegEnumValues", "GetInstalledAppList", "DumpInfo"}
         /\ Here \in Seq(Entries(call.query)) /\ pc \notin Ended
         /\ \A e \in Entries(call.query) : e.name \in Name
<1>1. call.query \in Query
  BY DEF IsCall
<1>2. pc \notin Ended
  BY DEF Ended
<1> QED
  BY <1>1, <1>2, HereTyped

\* As many as there are, and room for the longest.
LEMMA QueryInfoComplete ==
  ASSUME IInv, FoundInv, CompleteInv, QueryInfo
  PROVE  CompleteInv'
<1>1. IsCall(call) /\ pc = "info" /\ pc' = "enum" /\ UNCHANGED <<native, source, disturbed>>
  BY DEF QueryInfo, IInv, others, history
<1>2. /\ call'.query = call.query /\ call'.todo = call.todo /\ call'.closed = call.closed
      /\ call'.count = Len(Here) /\ call'.room = LongestName(Here) + 1
      /\ call'.next = 0 /\ call'.names = <<>> /\ call'.result = call.result
  BY <1>1 DEF QueryInfo, IsCall, Fields
<1>3. Still
  BY <1>1, <1>2, Zenon DEF Still
<1>4. /\ call.query \in {"RegEnumValues", "GetInstalledAppList", "DumpInfo"}
      /\ Here \in Seq(Entries(call.query)) /\ pc \notin Ended
  BY <1>1, Enumerating
<1>5. ASSUME Undisturbed' PROVE SoFar'
  <2>1. SoFar
    BY <1>3, <1>4, <1>5, SoFarBefore
  <2>2. Here' = Here /\ SourceStill' /\ StartupsSoFar'
    BY <1>2, <1>3, <2>1, HereStays, StartupsStay DEF SoFar
  <2>3. NamesSoFar'
    <3>1. Head(call'.todo) \notin call'.closed
      BY <1>1, <1>2, <2>1 DEF SoFar, NamesSoFar
    <3>2. Len(Here) \in Nat
      BY <1>4
    <3>3. call'.names = [i \in 1 .. call'.next |-> Kept(Here[i])']
      BY <1>2
    <3> QED
      BY <1>2, <2>2, <3>1, <3>2, <3>3 DEF NamesSoFar
  <2>4. AppsSoFar'
    BY <1>1, <1>2, <2>1 DEF SoFar, AppsSoFar
  <2>5. VersionSoFar' /\ MultiStringSoFar' /\ SizeAsked'
    BY <1>1, <1>2, <1>4 DEF VersionSoFar, MultiStringSoFar, SizeAsked
  <2> QED
    BY <2>2, <2>3, <2>4, <2>5 DEF SoFar
<1> QED
  BY <1>1, <1>5, NotEnded DEF Ended

\* Nothing has changed since the entries were counted: there is a next one, and
\* there is room for its name.
LEMMA EnumNextComplete ==
  ASSUME IInv, FoundInv, CompleteInv, EnumNext
  PROVE  CompleteInv'
<1>1. IsCall(call) /\ pc = "enum" /\ call.next < call.count /\ call.next \in Nat
      /\ UNCHANGED <<native, source>>
  BY DEF EnumNext, IInv, others, FoundInv
<1>2. /\ call.query \in {"RegEnumValues", "GetInstalledAppList", "DumpInfo"}
      /\ Here \in Seq(Entries(call.query)) /\ pc \notin Ended
      /\ \A e \in Entries(call.query) : e.name \in Name
  BY <1>1, Enumerating
<1>3. UNCHANGED disturbed /\ (UNCHANGED pc \/ pc' \in {"threw", "terminated"})
  BY DEF EnumNext, history, Throw
<1>4. ASSUME Still, Undisturbed' PROVE call.next < Len(Here) /\ NameLen[Here[call.next + 1].name] < call.room
  <2>1. NamesSoFar
    BY <1>2, <1>4, SoFarBefore DEF SoFar
  <2>2. call.count = Len(Here) /\ call.room = LongestName(Here) + 1
    BY <1>1, <2>1 DEF NamesSoFar
  <2>3. call.next + 1 \in DOMAIN Here
    BY <1>1, <1>2, <2>2
  <2>4. /\ LongestName(Here) \in Nat
        /\ NameLen[Here[call.next + 1].name] <= LongestName(Here)
    BY <1>2, <2>3, LongestNat
  <2>5. Here[call.next + 1].name \in Name
    BY <1>2, <2>3
  <2>6. NameLen[Here[call.next + 1].name] \in Nat
    BY <2>5, NameAssumption
  <2> QED
    BY <1>1, <2>2, <2>4, <2>6
<1>5. Still
  <2>1. call'.query = call.query /\ call'.closed = call.closed
    BY <1>1 DEF EnumNext, IsCall, Fields
  <2> QED
    BY <1>1, <1>3, <2>1, Zenon DEF Still
<1>6. ASSUME Undisturbed' PROVE pc' \notin Ended /\ SoFar'
  <2>1. SoFar
    BY <1>2, <1>5, <1>6, SoFarBefore
  <2>2. call.next < Len(Here) /\ NameLen[Here[call.next + 1].name] < call.room
    BY <1>4, <1>5, <1>6
  <2>3. /\ call' = [call EXCEPT !.next = @ + 1, !.names = Append(@, Kept(Here[call.next + 1]))]
        /\ UNCHANGED pc
    BY <2>2 DEF EnumNext
  <2>4. /\ call'.query = call.query /\ call'.todo = call.todo /\ call'.closed = call.closed
        /\ call'.count = call.count /\ call'.room = call.room /\ call'.next = call.next + 1
        /\ call'.names = Append(call.names, Kept(Here[call.next + 1]))
        /\ call'.result = call.result
    BY <1>1, <2>3 DEF IsCall, Fields
  <2>5. Here' = Here /\ SourceStill' /\ StartupsSoFar'
    BY <1>5, <2>1, <2>4, HereStays, StartupsStay DEF SoFar
  <2>6. call'.names = [i \in 1 .. call'.next |-> Kept(Here[i])']
    <3>1. PICK n \in Nat : n = call.next
      BY <1>1
    <3>2. PICK m \in Nat : m = Len(Here)
      BY <1>2
    <3>3. PICK kept : kept = [i \in 1 .. m |-> Kept(Here[i])]
      OBVIOUS
    <3>4. n < m
      BY <2>2, <3>1, <3>2
    <3>5. call.names = [i \in 1 .. n |-> kept[i]]
      <4>1. call.names = [i \in 1 .. n |-> Kept(Here[i])]
        BY <1>1, <2>1, <3>1 DEF SoFar, NamesSoFar
      <4> QED
        BY <3>3, <3>4, <4>1
    <3>6. DOMAIN kept = 1 .. m
      BY <3>3
    <3>7. Append(call.names, kept[n + 1]) = [i \in 1 .. n + 1 |-> kept[i]]
      BY <3>4, <3>5, <3>6, FirstMore
    <3>8. \A i \in 1 .. n + 1 : kept[i] = Kept(Here[i])'
      BY <2>4, <2>5, <3>3, <3>4 DEF Kept
    <3>9. kept[n + 1] = Kept(Here[call.next + 1])
      BY <3>1, <3>3, <3>4
    <3> QED
      BY <2>4, <3>1, <3>7, <3>8, <3>9
  <2>7. NamesSoFar'
    <3>1. /\ Head(call'.todo) \notin call'.closed
          /\ call'.count = Len(Here') /\ call'.room = LongestName(Here') + 1
      BY <1>1, <2>1, <2>4, <2>5 DEF SoFar, NamesSoFar
    <3>2. call'.next <= Len(Here')
      BY <1>1, <1>2, <2>2, <2>4, <2>5
    <3> QED
      BY <2>6, <3>1, <3>2 DEF NamesSoFar
  <2>8. AppsSoFar'
    BY <1>1, <2>1, <2>3, <2>4 DEF SoFar, AppsSoFar
  <2>9. VersionSoFar' /\ MultiStringSoFar' /\ SizeAsked'
    BY <1>1, <1>2, <2>3, <2>4 DEF VersionSoFar, MultiStringSoFar, SizeAsked
  <2>10. SoFar'
    BY <2>5, <2>7, <2>8, <2>9 DEF SoFar
  <2> QED
    BY <1>2, <2>3, <2>10
<1> QED
  BY <1>6 DEF CompleteInv, UndisturbedComplete, Ended

\* All names of the key have been read.
LEMMA EnumEndsComplete ==
  ASSUME IInv, FoundInv, TypeInv, CompleteInv, EnumEnds
  PROVE  CompleteInv'
<1>1. IsCall(call) /\ pc = "enum" /\ call.next = call.count /\ UNCHANGED <<native, source, disturbed>>
  BY DEF EnumEnds, IInv, others, history
<1>2. /\ call.query \in {"RegEnumValues", "GetInstalledAppList", "DumpInfo"}
      /\ Here \in Seq(Entries(call.query)) /\ pc \notin Ended
  BY <1>1, Enumerating
<1>3. call.next \in Nat /\ Len(Here) \in Nat
  BY <1>2 DEF FoundInv
\* All names of the key have been read.
<1>4. ASSUME SoFar PROVE call.names = [i \in 1 .. Len(Here) |-> Kept(Here[i])]
  BY <1>1, <1>4 DEF SoFar, NamesSoFar
<1>5. Here = [i \in 1 .. Len(Here) |-> Here[i]] /\ DOMAIN Here = 1 .. Len(Here)
  BY <1>2
<1>6. call.query # "RegEnumValues" => NamesOf(Here) = [i \in 1 .. Len(Here) |-> Kept(Here[i])]
  BY <1>5 DEF NamesOf, Kept
<1>7. CASE call.query = "RegEnumValues"
  <2>1. Leave([call EXCEPT !.result = call.names], 0)
    BY <1>7 DEF EnumEnds
  <2>2. /\ call'.query = call.query /\ call'.closed = call.closed /\ call'.result = call.names
        /\ pc' = IF Len(call.todo) = 1 THEN "returned" ELSE "open"
    BY <1>1, <2>1 DEF Leave, IsCall, Fields
  <2>3. Len(call.todo) = 1
    BY <1>2, <1>7 DEF IInv, GivenOnce, GivenKey
  <2>4. Still
    BY <1>1, <2>2, Zenon DEF Still
  <2>5. ASSUME Undisturbed' PROVE Complete'
    <3>1. SoFar
      BY <1>2, <2>4, <2>5, SoFarBefore
    <3>2. call.names = Here
      BY <1>4, <1>5, <1>7, <3>1 DEF Kept
    <3>3. Only = Here
      BY <1>7, <3>1, OnlyIsHere DEF SoFar, Query, GivenKey
    <3>4. Only' = Only
      BY <1>1, <2>2 DEF Only
    <3> QED
      BY <1>7, <2>2, <3>2, <3>3, <3>4 DEF Complete
  <2> QED
    BY <2>2, <2>3, <2>5, Returns
<1>8. CASE call.query = "DumpInfo"
  <2>1. PICK both : both = call.result \o call.names
    OBVIOUS
  <2>2. PICK locals : locals = [call EXCEPT !.result = SetToSeq(ToSet(both))]
    OBVIOUS
  <2>3. Leave(locals, 1)
    BY <1>1, <1>8, <2>1, <2>2 DEF EnumEnds, IsCall, Fields
  <2>4. /\ IsCall(locals) /\ locals.query = "DumpInfo" /\ locals.todo = call.todo
        /\ locals.closed = call.closed /\ locals.result = SetToSeq(ToSet(both))
    BY <1>1, <1>8, <2>2 DEF IsCall, Fields
  <2>5. call.result \in Seq(Name) /\ call.names \in Seq(Name)
    BY <1>8 DEF TypeInv, Typed, NameOf, Item, OwnKey
  <2>6. both \in Seq(Name) /\ ToSet(both) = ToSet(call.result) \cup ToSet(call.names)
    <3>1. PICK r \in Seq(Name) : r = call.result
      BY <2>5
    <3>2. PICK n \in Seq(Name) : n = call.names
      BY <2>5
    <3>0. both = r \o n /\ Len(r) \in Nat /\ Len(n) \in Nat
      BY <2>1, <3>1, <3>2
    <3>3. /\ both \in Seq(Name) /\ Len(both) = Len(r) + Len(n)
          /\ \A i \in 1 .. Len(r) : both[i] = r[i]
          /\ \A i \in 1 .. Len(n) : both[Len(r) + i] = n[i]
      <4>1. both \in Seq(Name) /\ Len(both) = Len(r) + Len(n)
        BY <3>0, ConcatProperties
      <4>2. \A i \in 1 .. Len(r) + Len(n) : both[i] = IF i <= Len(r) THEN r[i] ELSE n[i - Len(r)]
        BY <3>0, ConcatProperties
      <4>3. \A i \in 1 .. Len(n) : Len(r) + i \in 1 .. Len(r) + Len(n) /\ ~(Len(r) + i <= Len(r))
                                  /\ Len(r) + i - Len(r) = i
        BY <3>0
      <4> QED
        BY <3>0, <4>1, <4>2, <4>3
    <3>4. ASSUME NEW x \in ToSet(both) PROVE x \in ToSet(r) \cup ToSet(n)
      <4>1. PICK i \in 1 .. Len(r) + Len(n) : x = both[i]
        BY <3>3, <3>4 DEF ToSet
      <4>2. i \in 1 .. Len(r) \/ (i - Len(r) \in 1 .. Len(n) /\ Len(r) + (i - Len(r)) = i)
        OBVIOUS
      <4>3. x \in {r[j] : j \in 1 .. Len(r)} \/ x \in {n[j] : j \in 1 .. Len(n)}
        BY <3>3, <4>1, <4>2
      <4> QED
        BY <4>3 DEF ToSet
    <3>5. \A i \in 1 .. Len(r) : i \in 1 .. Len(both)
      BY <3>3
    <3>6. \A i \in 1 .. Len(n) : Len(r) + i \in 1 .. Len(both)
      BY <3>3
    <3>7. ToSet(r) \subseteq ToSet(both)
      BY <3>3, <3>5 DEF ToSet
    <3>8. ToSet(n) \subseteq ToSet(both)
      <4>1. \A i \in 1 .. Len(n) : n[i] \in {both[j] : j \in 1 .. Len(both)}
        BY <3>3, <3>6
      <4>2. ToSet(both) = {both[j] : j \in 1 .. Len(both)}
        BY <3>3 DEF ToSet
      <4>3. \A x \in ToSet(n) : \E i \in 1 .. Len(n) : x = n[i]
        BY DEF ToSet
      <4> QED
        BY <4>1, <4>2, <4>3
    <3> QED
      BY <3>1, <3>2, <3>3, <3>4, <3>7, <3>8
  <2>7. ToSet(locals.result) = ToSet(call.result) \cup ToSet(call.names)
    BY <2>4, <2>6, SetToSeqAll
  <2>8. ASSUME SoFar PROVE call.names = NamesOf(Here) /\ Head(call.todo) \notin call.closed
    BY <1>1, <1>4, <1>6, <1>8, <2>8 DEF SoFar, NamesSoFar
  <2> QED
    BY <1>1, <1>2, <1>8, <2>3, <2>4, <2>7, <2>8, LeavesStartups
<1>9. CASE call.query = "GetInstalledAppList"
  <2>1. pc' = "size" /\ call' = [call EXCEPT !.next = 0] /\ pc' \notin Ended
    BY <1>9 DEF EnumEnds, Ended
  <2>2. /\ call'.query = call.query /\ call'.todo = call.todo /\ call'.closed = call.closed
        /\ call'.next = 0 /\ call'.names = call.names /\ call'.result = call.result
    BY <1>1, <2>1 DEF IsCall, Fields
  <2>3. Still
    BY <1>1, <2>2, Zenon DEF Still
  <2>4. ASSUME Undisturbed' PROVE SoFar'
    <3>1. SoFar
      BY <1>2, <2>3, <2>4, SoFarBefore
    <3>2. Here' = Here /\ SourceStill' /\ StartupsSoFar'
      BY <2>2, <2>3, <3>1, HereStays, StartupsStay DEF SoFar
    <3>3. NamesSoFar' /\ SizeAsked'
      BY <2>1 DEF NamesSoFar, SizeAsked
    <3>4. call.names = NamesOf(Here) /\ call.result = <<>>
      BY <1>1, <1>4, <1>6, <1>9, <3>1 DEF SoFar, AppsSoFar
    <3>5. Texts(Here)[0] = <<>>
      BY <1>2, TextsOneByOne
    <3>6. AppsSoFar'
      BY <1>3, <2>1, <2>2, <3>2, <3>4, <3>5 DEF AppsSoFar
    <3>7. VersionSoFar' /\ MultiStringSoFar'
      BY <1>9, <2>2 DEF VersionSoFar, MultiStringSoFar
    <3> QED
      BY <3>2, <3>3, <3>6, <3>7 DEF SoFar
  <2> QED
    BY <2>1, <2>4, NotEnded
<1> QED
  BY <1>2, <1>7, <1>8, <1>9

-----------------------------------------------------------------------------
(* The reading of values. *)

\* Nor does the answer change with the call.
LEMMA GivenStays ==
  ASSUME Still, NEW q, NEW data
  PROVE  Given(q, data)' = Given(q, data)
<1>1. native' = native
  BY DEF Still
<1> QED
  BY <1>1, Zenon DEF Given

\* Of a version, the names to read are the first of them.
LEMMA VersionHere ==
  ASSUME VersionSoFar, Possible(call.query, Here), Here \in Seq(Entries(call.query)),
         call.query = "GetWendousInfo", call.next \in Nat, call.next < Len(call.names)
  PROVE  /\ call.next + 1 \in DOMAIN Here /\ Value = Here[call.next + 1].name
<1>1. PICK n \in {1, 2, 4} : call.names = SubSeq(VersionValues, 1, n)
  BY DEF VersionSoFar
<1>2. PICK v \in Seq(ValueName) : v = VersionValues /\ Len(v) = 4
  BY VersionNames
<1>3. n \in 1 .. 4
  OBVIOUS
<1>4. /\ Len(SubSeq(v, 1, n)) = n
      /\ \A i \in 1 .. n : SubSeq(v, 1, n)[i] = v[i]
  BY <1>2, <1>3, SubSeqProperties
<1>5. PICK k \in Nat : k = call.next + 1
  OBVIOUS
<1>6. k \in 1 .. n
  BY <1>1, <1>2, <1>4, <1>5
<1>7. Value = v[k]
  BY <1>1, <1>2, <1>4, <1>5, <1>6 DEF Value
<1>8. NamesOf(Here) = v
  BY <1>2 DEF Possible
<1>9. k \in DOMAIN v
  BY <1>2, <1>3, <1>6
<1>10. k \in DOMAIN Here /\ Here[k].name = v[k]
  BY <1>8, <1>9, NamesAre
<1> QED
  BY <1>5, <1>7, <1>10

\* The value that is read next is that of the next entry, and the registry
\* gives what it holds, unless the key is not there.
LEMMA ReadsHere ==
  ASSUME IInv, FoundInv, SoFar, Reading
  PROVE  /\ call.query \in ByValue /\ pc \notin Ended /\ call.next \in Nat
         /\ Here \in Seq(Entries(call.query)) /\ call.next + 1 \in DOMAIN Here
         /\ Here[call.next + 1] \in Entries(call.query)
         /\ InSubkey(Value) <=> ~(call.query = "GetWendousInfo" /\ call.closed # {})
         /\ RegGetValueA_sp(Value) = IF Here[call.next + 1].data = Null \/ ~InSubkey(Value) THEN Null
                                     ELSE Given(call.query, Here[call.next + 1].data)
<1>1. call.query \in ByValue /\ pc \notin Ended /\ call.next \in Nat /\ call.next < Len(call.names)
      /\ pc \in {"size", "read"}
  BY DEF Reading, Ended, FoundInv, ValuesRead
<1>2. Possible(call.query, Here) /\ Here \in Seq(Entries(call.query))
  BY <1>1, HerePossible DEF SoFar
<1>3. call.next + 1 \in DOMAIN Here /\ Value = Here[call.next + 1].name
  <2>1. CASE call.query = "GetWendousInfo"
    BY <1>1, <1>2, <2>1, VersionHere DEF SoFar
  <2>2. CASE call.query = "RegGetMultiString"
    <3>1. call.names = <<"value">> /\ call.next = 0
      BY <2>2 DEF SoFar, MultiStringSoFar
    <3>2. NamesOf(Here) = <<"value">>
      BY <1>2, <2>2 DEF Possible
    <3>3. DOMAIN NamesOf(Here) = {1} /\ NamesOf(Here)[1] = "value"
      BY <3>2
    <3>4. 1 \in DOMAIN Here /\ Here[1].name = "value"
      BY <3>3, NamesAre
    <3> QED
      BY <3>1, <3>4 DEF Value
  <2>3. CASE call.query = "GetInstalledAppList"
    <3>1. call.names = NamesOf(Here)
      BY <1>1, <2>3 DEF SoFar, AppsSoFar
    <3>2. DOMAIN call.names = DOMAIN Here /\ \A i \in DOMAIN Here : call.names[i] = Here[i].name
      BY <3>1, NamesAre
    <3>3. Len(call.names) = Len(Here)
      BY <1>2, <3>2
    <3>4. call.next + 1 \in DOMAIN Here
      BY <1>1, <1>2, <3>3
    <3> QED
      BY <3>2, <3>4 DEF Value
  <2> QED
    BY <1>1, <2>1, <2>2, <2>3 DEF ByValue
<1>4. Here[call.next + 1] \in Entries(call.query)
  BY <1>2, <1>3
<1>5. InSubkey(Value) <=> ~(call.query = "GetWendousInfo" /\ call.closed # {})
  <2>1. CASE call.query = "GetInstalledAppList"
    <3>1. Value \in ToSet(NamesOf(Here))
      <4>1. call.next + 1 \in DOMAIN NamesOf(Here) /\ NamesOf(Here)[call.next + 1] = Value
        BY <1>3, NamesAre
      <4> QED
        BY <4>1 DEF ToSet
    <3> QED
      BY <2>1, <3>1 DEF InSubkey
  <2>2. CASE call.query = "RegGetMultiString"
    BY <2>2 DEF SoFar, SourceStill, InSubkey
  <2>3. CASE call.query = "GetWendousInfo"
    BY <2>3 DEF SoFar, VersionSoFar, InSubkey
  <2> QED
    BY <1>1, <2>1, <2>2, <2>3 DEF ByValue
<1>6. RegGetValueA_sp(Here[call.next + 1].name)
        = IF Here[call.next + 1].data = Null \/ ~InSubkey(Here[call.next + 1].name) THEN Null
          ELSE Given(call.query, Here[call.next + 1].data)
  BY <1>2, <1>3, AnswersEntry
<1> QED
  BY <1>1, <1>2, <1>3, <1>4, <1>5, <1>6

\* Nothing has been collected in between.
LEMMA ProgressStays ==
  ASSUME SoFar, Still, pc \in {"size", "read"}, pc' \in {"size", "read"},
         call'.todo = call.todo, call'.names = call.names, call'.next = call.next,
         call'.result = call.result
  PROVE  /\ SourceStill' /\ NamesSoFar' /\ StartupsSoFar' /\ AppsSoFar'
         /\ VersionSoFar' /\ MultiStringSoFar' /\ Here' = Here
<1>1. Here' = Here /\ SourceStill' /\ StartupsSoFar'
  BY HereStays, StartupsStay DEF SoFar
<1>2. NamesSoFar'
  BY DEF NamesSoFar
<1>3. AppsSoFar'
  BY <1>1 DEF SoFar, AppsSoFar, Still
<1>4. VersionSoFar'
  <2>1. \A i : Stored(Here[i])' = Stored(Here[i])
    BY <1>1, StoredStays
  <2> QED
    BY <1>1, <2>1 DEF SoFar, VersionSoFar, Still
<1>5. MultiStringSoFar'
  BY DEF SoFar, MultiStringSoFar, Still
<1> QED
  BY <1>1, <1>2, <1>3, <1>4, <1>5

\* One value more.
LEMMA ReadsOnComplete ==
  ASSUME IInv, FoundInv, CompleteInv, Reading, Still, pc' = "size",
         call.query \in {"GetInstalledAppList", "GetWendousInfo"},
         call'.todo = call.todo, call'.names = call.names, call'.next = call.next + 1,
         Undisturbed /\ SoFar =>
           call'.result = IF call.query = "GetWendousInfo"
                          THEN Append(call.result, Stored(Here[call.next + 1]))
                          ELSE TextAfter(call.result, Here[call.next + 1])
  PROVE  CompleteInv'
<1>1. pc \notin Ended /\ pc' \notin Ended /\ pc \in {"size", "read"}
      /\ call.next \in Nat /\ call.next < Len(call.names)
  BY DEF Reading, Ended, FoundInv
<1>2. ASSUME Undisturbed' PROVE SoFar'
  <2>1. Undisturbed /\ SoFar
    BY <1>1, <1>2, SoFarBefore
  <2>2. Here' = Here /\ SourceStill'
    BY <2>1, HereStays DEF SoFar
  <2>3. NamesSoFar' /\ SizeAsked'
    BY DEF NamesSoFar, SizeAsked
  <2>4. StartupsSoFar' /\ MultiStringSoFar'
    BY DEF Still, StartupsSoFar, MultiStringSoFar
  <2>5. Here \in Seq(Entries(call.query)) /\ call.next + 1 \in DOMAIN Here
    BY <2>1, ReadsHere
  <2>6. AppsSoFar'
    <3>1. CASE call.query = "GetInstalledAppList"
      <4>1. call.names = NamesOf(Here) /\ call.result = Texts(Here)[call.next]
        BY <1>1, <2>1, <3>1 DEF SoFar, AppsSoFar
      <4>2. call.next + 1 \in 1 .. Len(Here) /\ call.next + 1 - 1 = call.next
        BY <1>1, <2>5
      <4>3. Texts(Here)[call.next + 1] = TextAfter(Texts(Here)[call.next], Here[call.next + 1])
        <5>0. PICK k \in Nat : k = call.next + 1
          BY <1>1
        <5>1. k \in 1 .. Len(Here) /\ k - 1 = call.next
          BY <1>1, <2>5, <4>2, <5>0
        <5>2. PICK texts : texts = Texts(Here)
          OBVIOUS
        <5>3. \A i \in 1 .. Len(Here) : texts[i] = TextAfter(texts[i - 1], Here[i])
          BY <2>5, <5>2, TextsOneByOne
        <5>4. texts[k] = TextAfter(texts[k - 1], Here[k])
          BY <5>1, <5>3, Zenon
        <5> QED
          BY <5>0, <5>1, <5>2, <5>4
      <4>4. call'.result = Texts(Here)[call.next + 1]
        BY <2>1, <3>1, <4>1, <4>2, <4>3
      <4>5. call'.next <= Len(Here)
        BY <4>2
      <4> QED
        BY <2>2, <3>1, <4>1, <4>4, <4>5 DEF AppsSoFar, Still
    <3> QED
      BY <3>1 DEF AppsSoFar, Still
  <2>7. VersionSoFar'
    <3>1. CASE call.query = "GetWendousInfo"
      <4>1. PICK m \in Nat : m = Len(Here)
        BY <2>5
      <4>2. PICK n \in Nat : n = call.next
        BY <1>1
      <4>3. PICK f : f = [i \in 1 .. m |-> Stored(Here[i])]
        OBVIOUS
      <4>4. n < m /\ DOMAIN f = 1 .. m /\ n + 1 \in 1 .. m
        BY <2>5, <4>1, <4>2, <4>3
      <4>5. call.result = [i \in 1 .. n |-> f[i]]
        <5>1. call.result = [i \in 1 .. n |-> Stored(Here[i])]
          BY <2>1, <3>1, <4>2 DEF SoFar, VersionSoFar
        <5> QED
          BY <4>3, <4>4, <5>1
      <4>6. call'.result = [i \in 1 .. n + 1 |-> f[i]]
        <5>1. f[n + 1] = Stored(Here[call.next + 1])
          BY <4>2, <4>3, <4>4
        <5>2. Append(call.result, f[n + 1]) = [i \in 1 .. n + 1 |-> f[i]]
          BY <4>4, <4>5, FirstMore
        <5> QED
          BY <2>1, <3>1, <5>1, <5>2
      <4>7. \A i : Stored(Here[i])' = Stored(Here[i])
        BY <2>2, StoredStays
      <4>8. \A i \in 1 .. n + 1 : f[i] = Stored(Here[i])'
        BY <4>3, <4>4, <4>7
      <4>9. call'.result = [i \in 1 .. call'.next |-> Stored(Here[i])']
        BY <4>2, <4>6, <4>8
      <4>10. PICK k \in {1, 2, 4} :
               /\ call.names = SubSeq(VersionValues, 1, k) /\ call.next <= k
               /\ k = 2 => Stored(Here[1]) # <<>>
               /\ k = 4 => Stored(Here[1]) = <<>>
        BY <2>1, <3>1 DEF SoFar, VersionSoFar
      <4>11. Len(call.names) = k
        <5>1. PICK v \in Seq(ValueName) : v = VersionValues /\ Len(v) = 4
          BY VersionNames
        <5>2. Len(SubSeq(v, 1, k)) = k
          BY <5>1, SubSeqProperties
        <5> QED
          BY <4>10, <5>1, <5>2
      <4>12. call'.next <= k
        BY <1>1, <4>11
      <4>13. call'.closed # {} => Head(call'.todo) \in call'.closed
        BY <2>1, <3>1 DEF SoFar, VersionSoFar, Still
      <4>14. Stored(Here[1])' = Stored(Here[1])
        BY <4>7
      <4>15. \E j \in {1, 2, 4} :
               /\ call'.names = SubSeq(VersionValues, 1, j) /\ call'.next <= j
               /\ j = 2 => Stored(Here[1])' # <<>>
               /\ j = 4 => Stored(Here[1])' = <<>>
        BY <4>10, <4>12, <4>14
      <4> QED
        BY <4>9, <4>13, <4>15, Zenon DEF VersionSoFar
    <3> QED
      BY <3>1 DEF VersionSoFar, Still
  <2> QED
    BY <2>2, <2>3, <2>4, <2>6, <2>7 DEF SoFar
<1> QED
  BY <1>1, <1>2, NotEnded

\* What is left out, empty or thrown for is not there.
LEMMA ReadFailsComplete ==
  ASSUME IInv, FoundInv, CompleteInv, Reading, ReadFails, UNCHANGED <<native, source, disturbed>>,
         Undisturbed /\ SoFar => RegGetValueA_sp(Value) = Null \/ ~InSubkey(Value)
  PROVE  CompleteInv'
<1>1. IsCall(call) /\ pc \notin Ended /\ call.query \in ByValue
  BY DEF IInv, Reading, Ended, FoundInv, ValuesRead
<1>2. ASSUME Undisturbed, SoFar
      PROVE  Here[call.next + 1].data = Null \/ (call.query = "GetWendousInfo" /\ call.closed # {})
  <2>1. PICK e \in Entries(call.query) : e = Here[call.next + 1]
    BY <1>2, ReadsHere
  <2>2. e.data # Null => Given(call.query, e.data) # Null
    BY <1>1, GivenSomething
  <2> QED
    BY <1>2, <2>1, <2>2, ReadsHere
<1>3. CASE call.query = "RegGetMultiString"
  <2>1. pc' \in {"threw", "terminated"} /\ UNCHANGED call /\ pc' = "threw"
    BY <1>3 DEF ReadFails, Throw
  <2>2. Still
    BY <2>1, Zenon DEF Still
  <2>3. ASSUME Undisturbed' PROVE Here'[1].data = Null
    <3>1. Undisturbed /\ SoFar
      BY <1>1, <2>2, <2>3, SoFarBefore
    <3>2. call.next = 0
      BY <1>3, <3>1 DEF SoFar, MultiStringSoFar
    <3>3. Here[1].data = Null
      BY <1>2, <1>3, <3>1, <3>2
    <3> QED
      BY <2>1, <2>2, <3>3, HereStays
  <2> QED
    BY <1>3, <2>1, <2>3 DEF CompleteInv, UndisturbedComplete, Ended
<1>4. CASE call.query \in {"GetInstalledAppList", "GetWendousInfo"}
  <2>1. pc' = "size"
        /\ call' = [call EXCEPT !.next = @ + 1, !.sub = FALSE,
                      !.result = IF call.query = "GetWendousInfo" THEN Append(@, <<>>) ELSE @]
    BY <1>4 DEF ReadFails
  <2>2. /\ call'.query = call.query /\ call'.todo = call.todo /\ call'.closed = call.closed
        /\ call'.names = call.names /\ call'.next = call.next + 1
        /\ call'.result = IF call.query = "GetWendousInfo" THEN Append(call.result, <<>>) ELSE call.result
    BY <1>1, <2>1 DEF IsCall, Fields
  <2>3. Still
    BY <2>2, Zenon DEF Still
  <2>4. ASSUME Undisturbed, SoFar
        PROVE  call'.result = IF call.query = "GetWendousInfo"
                              THEN Append(call.result, Stored(Here[call.next + 1]))
                              ELSE TextAfter(call.result, Here[call.next + 1])
    <3>1. CASE call.query = "GetWendousInfo"
      BY <1>2, <2>2, <2>4, <3>1 DEF Stored
    <3>2. CASE call.query # "GetWendousInfo"
      BY <1>2, <2>2, <2>4, <3>2 DEF TextAfter
    <3> QED
      BY <3>1, <3>2
  <2> QED
    BY <1>4, <2>1, <2>2, <2>3, <2>4, ReadsOnComplete
<1> QED
  BY <1>1, <1>3, <1>4 DEF ByValue

\* The size that is asked for is that of the value.
LEMMA AskSizeComplete ==
  ASSUME IInv, FoundInv, CompleteInv, OpenSub \/ SubGone \/ AskSize
  PROVE  CompleteInv'
<1>1. IsCall(call) /\ Reading /\ pc \notin Ended /\ pc \in {"size", "read"}
      /\ UNCHANGED <<native, source, disturbed>>
  BY DEF IInv, Reading, Ended, OpenSub, SubGone, AskSize, others, history
<1>2. CASE OpenSub
  <2>1. UNCHANGED pc /\ call' = [call EXCEPT !.sub = TRUE]
    BY <1>2 DEF OpenSub
  <2>2. /\ call'.query = call.query /\ call'.todo = call.todo /\ call'.closed = call.closed
        /\ call'.names = call.names /\ call'.next = call.next /\ call'.room = call.room
        /\ call'.result = call.result
    BY <1>1, <2>1 DEF IsCall, Fields
  <2>3. Still
    BY <1>1, <2>2, Zenon DEF Still
  <2>4. ASSUME Undisturbed' PROVE SoFar'
    <3>1. SoFar
      BY <1>1, <2>3, <2>4, SoFarBefore
    <3>2. /\ SourceStill' /\ NamesSoFar' /\ StartupsSoFar' /\ AppsSoFar'
          /\ VersionSoFar' /\ MultiStringSoFar' /\ Here' = Here
      BY <1>1, <2>1, <2>2, <2>3, <3>1, ProgressStays
    <3>3. Given(call.query, Here[call.next + 1].data)' = Given(call.query, Here[call.next + 1].data)
      BY <2>2, <2>3, <3>2, GivenStays
    <3>4. SizeAsked'
      BY <2>1, <2>2, <3>1, <3>2, <3>3 DEF SoFar, SizeAsked
    <3> QED
      BY <3>2, <3>4 DEF SoFar
  <2> QED
    BY <1>1, <2>1, <2>4, NotEnded
<1>3. CASE SubGone
  BY <1>1, <1>3, ReadFailsComplete DEF SubGone
<1>4. CASE AskSize
  <2>1. PICK data : data = RegGetValueA_sp(Value)
    OBVIOUS
  <2>2. CASE data = Null
    BY <1>1, <1>4, <2>1, <2>2, ReadFailsComplete DEF AskSize
  <2>3. CASE data # Null
    <3>1. call' = [call EXCEPT !.room = Len(data), !.sub = FALSE] /\ pc' = "read"
      BY <1>4, <2>1, <2>3 DEF AskSize
    <3>2. /\ call'.query = call.query /\ call'.todo = call.todo /\ call'.closed = call.closed
          /\ call'.names = call.names /\ call'.next = call.next /\ call'.room = Len(data)
          /\ call'.result = call.result
      BY <1>1, <3>1 DEF IsCall, Fields
    <3>3. Still
      BY <1>1, <3>2, Zenon DEF Still
    <3>4. ASSUME Undisturbed' PROVE SoFar'
      <4>1. SoFar
        BY <1>1, <3>3, <3>4, SoFarBefore
      <4>2. /\ SourceStill' /\ NamesSoFar' /\ StartupsSoFar' /\ AppsSoFar'
            /\ VersionSoFar' /\ MultiStringSoFar' /\ Here' = Here
        BY <1>1, <3>1, <3>2, <3>3, <4>1, ProgressStays
      <4>3. Given(call.query, Here[call.next + 1].data)' = Given(call.query, Here[call.next + 1].data)
        BY <3>2, <3>3, <4>2, GivenStays
      <4>4. Here[call.next + 1].data # Null /\ data = Given(call.query, Here[call.next + 1].data)
        BY <1>1, <2>1, <2>3, <4>1, ReadsHere
      <4>5. call.next < Len(call.names)
        BY <1>1 DEF Reading
      <4>6. SizeAsked'
        BY <3>2, <4>2, <4>3, <4>4, <4>5 DEF SizeAsked
      <4> QED
        BY <4>2, <4>6 DEF SoFar
    <3> QED
      BY <3>1, <3>4, NotEnded DEF Ended
  <2> QED
    BY <2>2, <2>3
<1> QED
  BY <1>2, <1>3, <1>4

\* What is asked for again is as long as it was.
LEMMA SameAnswer ==
  ASSUME IInv, FoundInv, SoFar, Reading, pc = "read", RegGetValueA_sp(Value) # Null
  PROVE  /\ Here[call.next + 1] \in Entries(call.query) /\ Here[call.next + 1].data # Null
         /\ RegGetValueA_sp(Value) = Given(call.query, Here[call.next + 1].data)
         /\ ~(Len(RegGetValueA_sp(Value)) > call.room)
         /\ call.query = "GetWendousInfo" => call.closed = {}
<1>1. call.room = Len(Given(call.query, Here[call.next + 1].data))
  BY DEF SoFar, SizeAsked
<1>2. PICK e : e = Here[call.next + 1]
  OBVIOUS
<1>3. /\ e \in Entries(call.query) /\ e.data # Null /\ RegGetValueA_sp(Value) = Given(call.query, e.data)
      /\ call.query = "GetWendousInfo" => call.closed = {}
  BY <1>2, ReadsHere
<1>4. PICK data : data = Given(call.query, e.data)
  OBVIOUS
<1>5. data \in Seq(Char)
  BY <1>3, <1>4, ReadsHere, GivenTyped
<1>6. Len(data) \in Nat
  BY <1>5
<1>7. ~(Len(data) > Len(data))
  BY <1>6
<1> QED
  BY <1>1, <1>2, <1>3, <1>4, <1>7

\* What is read is stored as the API asks.
LEMMA HereWellFormed ==
  ASSUME FoundInv, Undisturbed, SoFar, pc \notin Ended, NEW i \in DOMAIN Here, Here[i].data # Null
  PROVE  WellFormed(call.query, Here[i].data)
<1>1. Head(call.todo) \in DOMAIN source
  BY HerePossible DEF SoFar
<1>2. \A e \in ToSet(Here) : e.data = Null \/ WellFormed(call.query, e.data)
  BY <1>1, Zenon DEF Undisturbed, Here
<1>3. Here[i] \in ToSet(Here)
  BY DEF ToSet
<1> QED
  BY <1>2, <1>3

\* A string is read whole.
LEMMA ReadStringComplete ==
  ASSUME IInv, FoundInv, CompleteInv, ReadString
  PROVE  CompleteInv'
<1>1. /\ IsCall(call) /\ Reading /\ pc \notin Ended /\ pc = "read"
      /\ UNCHANGED <<native, source, disturbed>>
      /\ call.query \in {"GetInstalledAppList", "GetWendousInfo"}
  BY DEF IInv, Reading, Ended, ReadString, others, history, FoundInv, ValuesRead, ByValue
<1>2. PICK data : data = RegGetValueA_sp(Value)
  OBVIOUS
<1>3. PICK e : e = Here[call.next + 1]
  OBVIOUS
<1>4. ASSUME Undisturbed, SoFar, data # Null
      PROVE  /\ ~(Len(data) > call.room) /\ ~(StringLength(data) > MaxString)
             /\ e.data # Null /\ TakeString(data) = Text(e.data)
             /\ call.query = "GetWendousInfo" => call.closed = {}
  <2>1. /\ e \in Entries(call.query) /\ e.data # Null /\ data = Given(call.query, e.data)
        /\ ~(Len(data) > call.room) /\ (call.query = "GetWendousInfo" => call.closed = {})
    BY <1>1, <1>2, <1>3, <1>4, SameAnswer
  <2>2. call.next + 1 \in DOMAIN Here
    BY <1>1, <1>4, ReadsHere
  <2>3. WellFormed(call.query, e.data)
    BY <1>1, <1>3, <1>4, <2>1, <2>2, HereWellFormed
  <2>4. ~(StringLength(data) > MaxString) /\ TakeString(data) = Text(e.data)
    BY <1>1, <2>1, <2>3, TakesText
  <2> QED
    BY <2>1, <2>4
<1>5. CASE data = Null \/ Len(data) > call.room
  <2>1. ReadFails
    BY <1>2, <1>5 DEF ReadString
  <2>2. ASSUME Undisturbed, SoFar PROVE RegGetValueA_sp(Value) = Null
    BY <1>2, <1>4, <1>5, <2>2
  <2> QED
    BY <1>1, <2>1, <2>2, ReadFailsComplete
<1>6. CASE ~(data = Null \/ Len(data) > call.room) /\ StringLength(data) > MaxString
  <2>1. call' = [call EXCEPT !.sub = FALSE]
    BY <1>2, <1>6 DEF ReadString
  <2>2. call'.query = call.query /\ call'.closed = call.closed
    BY <1>1, <2>1 DEF IsCall, Fields
  <2>3. Still
    BY <1>1, <2>2, Zenon DEF Still
  <2>4. ~Undisturbed'
    BY <1>1, <1>4, <1>6, <2>3, SoFarBefore
  <2> QED
    BY <2>4 DEF CompleteInv, UndisturbedComplete
<1>7. CASE ~(data = Null \/ Len(data) > call.room) /\ ~(StringLength(data) > MaxString)
  <2>1. pc' = "size" /\ call' = [call EXCEPT !.result = Append(@, TakeString(data)),
                                          !.next = @ + 1, !.sub = FALSE]
    BY <1>2, <1>7 DEF ReadString
  <2>2. /\ call'.query = call.query /\ call'.todo = call.todo /\ call'.closed = call.closed
        /\ call'.names = call.names /\ call'.next = call.next + 1
        /\ call'.result = Append(call.result, TakeString(data))
    BY <1>1, <2>1 DEF IsCall, Fields
  <2>3. Still
    BY <1>1, <2>2, Zenon DEF Still
  <2>4. ASSUME Undisturbed, SoFar
        PROVE  call'.result = IF call.query = "GetWendousInfo"
                              THEN Append(call.result, Stored(Here[call.next + 1]))
                              ELSE TextAfter(call.result, Here[call.next + 1])
    BY <1>3, <1>4, <1>7, <2>2, <2>4 DEF Stored, TextAfter
  <2> QED
    BY <1>1, <2>1, <2>2, <2>3, <2>4, ReadsOnComplete
<1> QED
  BY <1>5, <1>6, <1>7

\* So is a multi-string, cut at the end of each string.
LEMMA ReadMultiStringComplete ==
  ASSUME IInv, FoundInv, CompleteInv, ReadMultiString
  PROVE  CompleteInv'
<1>1. /\ IsCall(call) /\ Reading /\ pc \notin Ended /\ pc = "read"
      /\ UNCHANGED <<native, source, disturbed>> /\ call.query = "RegGetMultiString"
  BY DEF IInv, Reading, Ended, ReadMultiString, others, history
<1>2. PICK data : data = RegGetValueA_sp(Value)
  OBVIOUS
<1>3. PICK e : e = Here[call.next + 1]
  OBVIOUS
<1>4. ASSUME SoFar, data # Null
      PROVE  /\ e \in Entries(call.query) /\ e.data # Null /\ data = Given(call.query, e.data)
             /\ ~(Len(data) > call.room)
  BY <1>1, <1>2, <1>3, <1>4, SameAnswer
<1>5. CASE data = Null \/ Len(data) > call.room
  <2>1. ReadFails
    BY <1>2, <1>5 DEF ReadMultiString
  <2>2. ASSUME Undisturbed, SoFar PROVE RegGetValueA_sp(Value) = Null
    BY <1>2, <1>4, <1>5, <2>2
  <2> QED
    BY <1>1, <2>1, <2>2, ReadFailsComplete
<1>6. CASE ~(data = Null \/ Len(data) > call.room)
  <2>1. Leave([call EXCEPT !.result = MultiStrings(data)], 0)
    BY <1>2, <1>6 DEF ReadMultiString
  <2>2. /\ call'.query = call.query /\ call'.closed = call.closed
        /\ call'.result = MultiStrings(data)
        /\ pc' = IF Len(call.todo) = 1 THEN "returned" ELSE "open"
    BY <1>1, <2>1 DEF Leave, IsCall, Fields
  <2>3. Len(call.todo) = 1
    BY <1>1 DEF IInv, GivenOnce, GivenKey
  <2>4. Still
    BY <1>1, <2>2, Zenon DEF Still
  <2>5. ASSUME Undisturbed' PROVE Complete'
    <3>1. Undisturbed /\ SoFar
      BY <1>1, <2>4, <2>5, SoFarBefore
    <3>2. /\ e \in Entries(call.query) /\ e.data # Null /\ data = Given(call.query, e.data)
      BY <1>4, <1>6, <3>1
    <3>3. call.next = 0
      BY <1>1, <3>1 DEF SoFar, MultiStringSoFar
    <3>4. e = Here[1] /\ 1 \in DOMAIN Here
      BY <1>1, <1>3, <3>1, <3>3, ReadsHere
    <3>5. WellFormed("RegGetMultiString", e.data)
      BY <1>1, <3>1, <3>2, <3>4, HereWellFormed
    <3>6. e.data \in Seq(Char) /\ Nul \in Char
      <4>1. e.data \in Data \cup VersionData \cup MultiData /\ e.data \in Seq(ToSet(e.data))
        BY <1>1, <3>2, EntryData DEF ByValue
      <4>2. ToSet(e.data) \subseteq Char /\ Nul \in Char
        BY <4>1, CharsOf
      <4> QED
        BY <4>1, <4>2
    <3>7. data = e.data /\ Terminated(MultiStrings(data)) = Front(e.data)
      BY <1>1, <3>2, <3>5, <3>6, WholeMultiString
    <3>8. Only = Here
      BY <1>1, <3>1, OnlyIsHere DEF SoFar, Query, GivenKey
    <3>9. Only' = Only
      BY <1>1, <2>2 DEF Only
    <3> QED
      BY <1>1, <2>2, <3>4, <3>7, <3>8, <3>9 DEF Complete
  <2> QED
    BY <2>2, <2>3, <2>5, Returns
<1> QED
  BY <1>5, <1>6

\* The programs are those whose values have been read.
LEMMA CloseKeyComplete ==
  ASSUME IInv, FoundInv, CompleteInv, CloseKey
  PROVE  CompleteInv'
<1>1. /\ IsCall(call) /\ pc = "size" /\ pc \notin Ended /\ call.next = Len(call.names)
      /\ UNCHANGED <<native, source, disturbed>> /\ call.query = "GetInstalledAppList"
      /\ Leave(call, 1)
  BY DEF IInv, Ended, CloseKey, others, history
<1>2. /\ call'.query = call.query /\ call'.closed = call.closed /\ call'.result = call.result
      /\ pc' = IF Len(call.todo) = 1 THEN "returned" ELSE "open"
      /\ call'.todo = Tail(call.todo) /\ call'.names = call.names /\ call'.next = call.next
  BY <1>1 DEF Leave, IsCall, Fields
<1>3. Still
  BY <1>1, <1>2, Zenon DEF Still
<1>4. ASSUME Undisturbed' PROVE Len(call.todo) = 1 /\ Complete'
  <2>1. SoFar
    BY <1>1, <1>3, <1>4, SoFarBefore
  <2>2. Here \in Seq(Entries(call.query))
    BY <1>1, <2>1, HerePossible DEF SoFar
  <2>3. call.names = NamesOf(Here) /\ call.result = Texts(Here)[call.next]
    BY <1>1, <2>1 DEF SoFar, AppsSoFar
  <2>4. Len(call.names) = Len(Here)
    <3>1. DOMAIN call.names = 1 .. Len(Here)
      BY <2>2, <2>3, NamesAre
    <3>2. call.names = [i \in 1 .. Len(Here) |-> call.names[i]]
      BY <2>3, <3>1 DEF NamesOf
    <3> QED
      BY <2>2, <3>2
  <2>5. Only = Here /\ Len(call.todo) = 1
    BY <1>1, <2>1, OnlyIsHere DEF SoFar, Query, OwnKey
  <2>6. Only' = Only
    BY <1>1, <1>2 DEF Only
  <2> QED
    BY <1>1, <1>2, <2>3, <2>4, <2>5, <2>6 DEF Complete
<1> QED
  BY <1>2, <1>4 DEF CompleteInv, UndisturbedComplete, Ended

\* The names of the values that are read, and how many have been.
LEMMA VersionRead ==
  ASSUME SoFar, call.query = "GetWendousInfo", call.next = Len(call.names)
  PROVE  /\ call.next \in {1, 2, 4}
         /\ call.result = [i \in 1 .. call.next |-> Stored(Here[i])]
         /\ call.next = 2 => Stored(Here[1]) # <<>>
         /\ call.next = 4 => Stored(Here[1]) = <<>>
<1>1. PICK n \in {1, 2, 4} :
        /\ call.names = SubSeq(VersionValues, 1, n) /\ call.next <= n
        /\ n = 2 => Stored(Here[1]) # <<>>
        /\ n = 4 => Stored(Here[1]) = <<>>
  BY DEF SoFar, VersionSoFar
<1>2. PICK v \in Seq(ValueName) : v = VersionValues /\ Len(v) = 4
  BY VersionNames
<1>3. Len(SubSeq(v, 1, n)) = n
  BY <1>2, SubSeqProperties
<1>4. call.next = n
  BY <1>1, <1>2, <1>3
<1> QED
  BY <1>1, <1>4 DEF SoFar, VersionSoFar

\* The first of them, and the others.
LEMMA FirstAndOthers ==
  ASSUME NEW f, NEW n \in {1, 2, 4}, NEW S, NEW s \in Seq(S), Len(s) = n,
         \A i \in 1 .. n : s[i] = f[i]
  PROVE  /\ Head(s) = f[1]
         /\ n = 2 => Append(Tail(s), Head(s)) = <<f[2], f[1]>>
         /\ n = 4 => Tail(s) = <<f[2], f[3], f[4]>>
<1>1. s # <<>> /\ f[1] \in S
  <2>1. 1 \in 1 .. n /\ s[1] \in S
    OBVIOUS
  <2> QED
    BY <2>1
<1>2. PICK t : t = Tail(s)
  OBVIOUS
<1>3. /\ Head(s) = s[1] /\ t \in Seq(S) /\ Len(t) = n - 1
      /\ \A i \in 1 .. n - 1 : t[i] = s[i + 1]
  <2>1. /\ Head(s) = s[1] /\ t \in Seq(S) /\ Len(t) = Len(s) - 1
        /\ \A i \in 1 .. Len(t) : t[i] = s[i + 1]
    BY <1>1, <1>2, HeadTailProperties
  <2> QED
    BY <2>1
<1>4. Head(s) = f[1]
  BY <1>3
<1>5. ASSUME n = 2 PROVE Append(t, Head(s)) = <<f[2], f[1]>>
  <2>1. Len(t) = 1 /\ t[1] = f[2]
    BY <1>3, <1>5
  <2>2. t = <<f[2]>>
    BY <1>3, <2>1
  <2>3. PICK one \in Seq(S) : one = t /\ Len(one) = 1 /\ one[1] = f[2]
    BY <1>3, <2>1
  <2>4. PICK both : both = Append(one, f[1])
    OBVIOUS
  <2>5. f[1] \in S
    BY <1>1
  <2>6. both \in Seq(S) /\ Len(both) = 2 /\ both[1] = f[2] /\ both[2] = f[1]
    <3>1. /\ both \in Seq(S) /\ Len(both) = Len(one) + 1 /\ both[Len(one) + 1] = f[1]
          /\ \A i \in 1 .. Len(one) : both[i] = one[i]
      BY <2>4, <2>5, AppendProperties
    <3> QED
      BY <2>3, <3>1
  <2>7. both = <<f[2], f[1]>>
    BY <2>6
  <2> QED
    BY <1>4, <2>3, <2>4, <2>7
<1>6. ASSUME n = 4 PROVE t = <<f[2], f[3], f[4]>>
  <2>1. Len(t) = 3 /\ t[1] = f[2] /\ t[2] = f[3] /\ t[3] = f[4]
    BY <1>3, <1>6
  <2> QED
    BY <1>3, <2>1
<1> QED
  BY <1>2, <1>4, <1>5, <1>6

\* That holds of the first values of any function.
LEMMA FirstAndRest ==
  ASSUME NEW f, NEW n \in {1, 2, 4}, NEW s, s = [i \in 1 .. n |-> f[i]]
  PROVE  /\ Head(s) = f[1]
         /\ n = 2 => Append(Tail(s), Head(s)) = <<f[2], f[1]>>
         /\ n = 4 => Tail(s) = <<f[2], f[3], f[4]>>
<1>1. PICK S : S = {f[i] : i \in 1 .. 4}
  OBVIOUS
<1>2. \A i \in 1 .. n : i \in 1 .. 4
  OBVIOUS
<1>3. s \in [1 .. n -> S]
  BY <1>1, <1>2
<1>4. PICK r : r = s
  OBVIOUS
<1>5. r \in Seq(S) /\ Len(r) = n /\ \A i \in 1 .. n : r[i] = f[i]
  BY <1>3, <1>4
<1>6. /\ Head(r) = f[1]
      /\ n = 2 => Append(Tail(r), Head(r)) = <<f[2], f[1]>>
      /\ n = 4 => Tail(r) = <<f[2], f[3], f[4]>>
  BY <1>5, FirstAndOthers, ZenonT(120)
<1> QED
  BY <1>4, <1>6

\* The version is put together of what was stored.
LEMMA GetWendousInfoComplete ==
  ASSUME IInv, FoundInv, CompleteInv, GetWendousInfo
  PROVE  CompleteInv'
<1>1. /\ IsCall(call) /\ pc = "size" /\ pc \notin Ended /\ call.next = Len(call.names)
      /\ UNCHANGED <<native, source, disturbed>> /\ call.query = "GetWendousInfo"
  BY DEF IInv, Ended, GetWendousInfo, others, history
<1>2. PICK stored : stored = [i \in 1 .. 4 |-> Stored(Here[i])]
  OBVIOUS
<1>3. PICK CSDVersion : CSDVersion = Head(call.result)
  OBVIOUS
<1>4. ASSUME SoFar
      PROVE  /\ call.next \in {1, 2, 4} /\ call.result = [i \in 1 .. call.next |-> stored[i]]
             /\ CSDVersion = Stored(Here[1])
  <2>1. call.next \in {1, 2, 4} /\ call.result = [i \in 1 .. call.next |-> Stored(Here[i])]
    BY <1>1, <1>4, VersionRead
  <2>2. call.result = [i \in 1 .. call.next |-> stored[i]]
    BY <1>2, <2>1
  <2>3. Head(call.result) = stored[1]
    BY <2>1, <2>2, FirstAndRest
  <2> QED
    BY <1>2, <1>3, <2>1, <2>2, <2>3
<1>5. CASE call.next = 1
  <2>1. PICK names : names = IF CSDVersion = <<>> THEN VersionValues ELSE SubSeq(VersionValues, 1, 2)
    OBVIOUS
  <2>2. call' = [call EXCEPT !.names = names] /\ UNCHANGED pc
    BY <1>3, <1>5, <2>1 DEF GetWendousInfo
  <2>3. /\ call'.query = call.query /\ call'.todo = call.todo /\ call'.closed = call.closed
        /\ call'.names = names /\ call'.next = call.next /\ call'.result = call.result
    BY <1>1, <2>2 DEF IsCall, Fields
  <2>4. Still
    BY <1>1, <2>3, Zenon DEF Still
  <2>5. ASSUME Undisturbed' PROVE SoFar'
    <3>1. SoFar
      BY <1>1, <2>4, <2>5, SoFarBefore
    <3>2. Here' = Here /\ SourceStill' /\ StartupsSoFar'
      BY <2>3, <2>4, <3>1, HereStays, StartupsStay DEF SoFar
    <3>3. NamesSoFar' /\ SizeAsked'
      BY <1>1, <2>2 DEF NamesSoFar, SizeAsked
    <3>4. AppsSoFar' /\ MultiStringSoFar'
      BY <1>1, <2>3 DEF AppsSoFar, MultiStringSoFar
    <3>5. \A i : Stored(Here[i])' = Stored(Here[i])
      BY <2>4, <3>2, StoredStays
    <3>6. call'.result = [i \in 1 .. call'.next |-> Stored(Here[i])']
      BY <1>1, <2>3, <3>1, <3>5 DEF SoFar, VersionSoFar
    <3>7. \E n \in {1, 2, 4} :
            /\ call'.names = SubSeq(VersionValues, 1, n) /\ call'.next <= n
            /\ n = 2 => Stored(Here[1])' # <<>>
            /\ n = 4 => Stored(Here[1])' = <<>>
      <4>1. VersionValues = SubSeq(VersionValues, 1, 4)
        <5>1. PICK v \in Seq(ValueName) : v = VersionValues /\ Len(v) = 4
          BY VersionNames
        <5>2. SubSeq(v, 1, 4) = [i \in 1 .. 4 |-> v[i]] /\ v = [i \in 1 .. 4 |-> v[i]]
          BY <5>1
        <5> QED
          BY <5>1, <5>2
      <4>2. CSDVersion = Stored(Here[1])'
        BY <1>4, <3>1, <3>5
      <4>3. CASE CSDVersion = <<>>
        BY <1>5, <2>1, <2>3, <4>1, <4>2, <4>3
      <4>4. CASE CSDVersion # <<>>
        BY <1>5, <2>1, <2>3, <4>2, <4>4
      <4> QED
        BY <4>3, <4>4
    <3>8. call'.closed # {} => Head(call'.todo) \in call'.closed
      BY <1>1, <2>3, <3>1 DEF SoFar, VersionSoFar
    <3>9. VersionSoFar'
      BY <3>6, <3>7, <3>8, Zenon DEF VersionSoFar
    <3> QED
      BY <3>2, <3>3, <3>4, <3>9 DEF SoFar
  <2> QED
    BY <1>1, <2>2, <2>5, NotEnded
<1>6. CASE call.next # 1
  <2>1. PICK result : result = IF CSDVersion = <<>> THEN Tail(call.result)
                               ELSE Append(Tail(call.result), CSDVersion)
    OBVIOUS
  <2>2. Leave([call EXCEPT !.result = result], 0)
    BY <1>3, <1>6, <2>1 DEF GetWendousInfo
  <2>3. /\ call'.query = call.query /\ call'.closed = call.closed /\ call'.result = result
        /\ pc' = IF Len(call.todo) = 1 THEN "returned" ELSE "open"
    BY <1>1, <2>2 DEF Leave, IsCall, Fields
  <2>4. Len(call.todo) = 1
    BY <1>1 DEF IInv, GivenOnce, GivenKey
  <2>5. Still
    BY <1>1, <2>3, Zenon DEF Still
  <2>6. ASSUME Undisturbed' PROVE Complete'
    <3>1. SoFar
      BY <1>1, <2>5, <2>6, SoFarBefore
    <3>2. /\ call.next \in {2, 4} /\ call.result = [i \in 1 .. call.next |-> stored[i]]
          /\ CSDVersion = stored[1]
          /\ stored[1] = <<>> <=> call.next = 4
      <4>1. stored[1] = Stored(Here[1])
        BY <1>2
      <4> QED
        BY <1>1, <1>4, <1>6, <3>1, <4>1, VersionRead
    <3>3. result = IF stored[1] = <<>> THEN <<stored[2], stored[3], stored[4]>>
                                       ELSE <<stored[2], stored[1]>>
      <4>1. CASE call.next = 2
        <5>1. Append(Tail(call.result), Head(call.result)) = <<stored[2], stored[1]>>
          BY <3>2, <4>1, FirstAndRest
        <5>2. stored[1] # <<>>
          BY <3>2, <4>1
        <5> QED
          BY <1>3, <2>1, <3>2, <5>1, <5>2
      <4>2. CASE call.next = 4
        <5>1. Tail(call.result) = <<stored[2], stored[3], stored[4]>>
          BY <3>2, <4>2, FirstAndRest
        <5>2. stored[1] = <<>>
          BY <3>2, <4>2
        <5> QED
          BY <2>1, <3>2, <5>1, <5>2
      <4> QED
        BY <3>2, <4>1, <4>2
    <3>4. Only = Here
      BY <1>1, <3>1, OnlyIsHere DEF SoFar, Query, GivenKey
    <3>5. Only' = Only
      BY <1>1, <2>3 DEF Only
    <3>6. \A i : Stored(Only[i])' = Stored(Here[i])
      BY <2>5, <3>4, <3>5, StoredStays
    <3>7. /\ stored[1] = Stored(Only[1])' /\ stored[2] = Stored(Only[2])'
          /\ stored[3] = Stored(Only[3])' /\ stored[4] = Stored(Only[4])'
      BY <1>2, <3>6
    <3>8. call'.result = IF Stored(Only[1])' = <<>>
                         THEN <<Stored(Only[2])', Stored(Only[3])', Stored(Only[4])'>>
                         ELSE <<Stored(Only[2])', Stored(Only[1])'>>
      BY <2>3, <3>3, <3>7
    <3> QED
      BY <1>1, <2>3, <3>8 DEF Complete
  <2> QED
    BY <2>3, <2>4, <2>6, Returns
<1> QED
  BY <1>5, <1>6

-----------------------------------------------------------------------------
(* The callers and the others. *)

\* A call begins with nothing, and owes nothing when it has ended.
LEMMA CallersComplete ==
  ASSUME (\E q \in Query : Begin(q)) \/ Finish
  PROVE  CompleteInv'
<1>1. CASE Finish
  BY <1>1 DEF Finish, CompleteInv, UndisturbedComplete, Ended
<1>2. CASE \E q \in Query : Begin(q)
  <2>1. PICK q \in Query : Begin(q)
    BY <1>2
  <2>2. PICK s \in [ToSet(Visits(q)) -> Contents(q)] : source' = s
    BY <2>1 DEF Begin
  <2>3. PICK closed \in SUBSET ToSet(Visits(q)) :
          /\ q \in {"RegEnumValues", "RegGetMultiString"} => closed = {}
          /\ call' = Fresh(q, closed)
    BY <2>1 DEF Begin
  <2>4. pc' = (IF q \in OwnKey THEN "open" ELSE IF q \in ByValue THEN "size" ELSE "info")
    BY <2>1 DEF Begin
  <2>5. /\ call'.query = q /\ call'.todo = Visits(q) /\ call'.closed = closed
        /\ call'.next = 0 /\ call'.result = <<>>
        /\ call'.names = CASE q = "GetWendousInfo"    -> <<"CSDVersion">>
                           [] q = "RegGetMultiString" -> <<"value">>
                           [] OTHER                   -> <<>>
    BY <2>3 DEF Fresh
  <2>6. DOMAIN source' = ToSet(Visits(q)) /\ \A p \in DOMAIN source' : Possible(q, source'[p])
    BY <2>2, ContentsPossible
  <2>7. SourceStill'
    BY <2>3, <2>5, <2>6, VisitsSeq DEF SourceStill, Possible
  <2>8. NamesSoFar'
    <3>1. pc' # "enum" /\ (pc' = "info" => q = "RegEnumValues")
      BY <2>1, <2>4 DEF Query, OwnKey, GivenKey, ByValue
    <3> QED
      BY <2>3, <2>5, <3>1 DEF NamesSoFar
  <2>9. StartupsSoFar'
    <3>1. ToSet(<<>>) = {}
      BY DEF ToSet
    <3> QED
      BY <2>5, <2>6, <3>1 DEF StartupsSoFar
  <2>10. AppsSoFar'
    BY <2>4, <2>5 DEF AppsSoFar, OwnKey
  <2>11. VersionSoFar'
    <3>1. CASE q = "GetWendousInfo"
      <4>1. closed # {} => Head(Visits(q)) \in closed
        <5>1. Visits(q) = <<"CurrentVersion">>
          BY <3>1 DEF Visits, OwnKey
        <5>2. ToSet(Visits(q)) = {"CurrentVersion"} /\ Head(Visits(q)) = "CurrentVersion"
          BY <5>1 DEF ToSet
        <5> QED
          BY <2>3, <5>2
      <4>2. <<"CSDVersion">> = SubSeq(VersionValues, 1, 1)
        BY DEF VersionValues
      <4>3. call'.result = [i \in 1 .. call'.next |-> Stored(Here[i])']
        BY <2>5
      <4>4. \E n \in {1, 2, 4} :
              /\ call'.names = SubSeq(VersionValues, 1, n) /\ call'.next <= n
              /\ n = 2 => Stored(Here[1])' # <<>>
              /\ n = 4 => Stored(Here[1])' = <<>>
        <5>1. call'.names = SubSeq(VersionValues, 1, 1) /\ call'.next <= 1
          BY <2>5, <3>1, <4>2
        <5> QED
          BY <5>1
      <4>5. call'.closed # {} => Head(call'.todo) \in call'.closed
        BY <2>5, <4>1
      <4> QED
        BY <4>3, <4>4, <4>5, Zenon DEF VersionSoFar
    <3> QED
      BY <2>5, <3>1 DEF VersionSoFar
  <2>12. MultiStringSoFar'
    BY <2>5 DEF MultiStringSoFar
  <2>13. SizeAsked' /\ pc' \notin Ended
    BY <2>4 DEF SizeAsked, Ended
  <2> QED
    BY <2>7, <2>8, <2>9, <2>10, <2>11, <2>12, <2>13, NotEnded DEF SoFar
<1> QED
  BY <1>1, <1>2

\* A query that is disturbed owes nothing.
LEMMA DisturbedComplete ==
  ASSUME SystemFails \/ OtherWrites
  PROVE  CompleteInv'
<1>1. disturbed' = TRUE
  BY Zenon DEF SystemFails, OtherWrites
<1>2. ~Undisturbed'
  BY <1>1, Zenon DEF Undisturbed
<1> QED
  BY <1>2 DEF CompleteInv, UndisturbedComplete

\* Nothing happens.
LEMMA StutterComplete == ASSUME IInv, CompleteInv, UNCHANGED vars PROVE CompleteInv'
<1>1. UNCHANGED <<native, source, disturbed, call, pc>>
  BY DEF vars, others, history
<1>2. Still
  BY <1>1, Zenon DEF Still
<1>3. ASSUME Undisturbed' PROVE Undisturbed
  BY <1>2, <1>3, UndisturbedBefore
<1>4. Here' = Here /\ (SourceStill => SourceStill') /\ (StartupsSoFar => StartupsSoFar')
  BY <1>1, <1>2, HereStays, StartupsStay
<1>5. \A i : Stored(Here[i])' = Stored(Here[i])
  BY <1>2, <1>4, StoredStays
<1>6. Complete => Complete'
  <2>1. Only' = Only
    BY <1>1 DEF Only
  <2>2. \A i : Stored(Only[i])' = Stored(Only[i])
    BY <1>2, <2>1, StoredStays
  <2>3. CASE call.query = "DumpInfo"
    BY <1>1, <2>3 DEF Complete
  <2>4. CASE call.query = "GetWendousInfo"
    BY <1>1, <2>1, <2>2, <2>4 DEF Complete
  <2>5. CASE call.query = "GetInstalledAppList"
    BY <1>1, <2>1, <2>5 DEF Complete
  <2>6. CASE call.query = "RegGetMultiString"
    BY <1>1, <2>1, <2>6 DEF Complete
  <2>7. CASE call.query = "RegEnumValues"
    BY <1>1, <2>1, <2>7 DEF Complete
  <2>8. call.query \in Query
    BY DEF IInv, IsCall
  <2> QED
    BY <2>3, <2>4, <2>5, <2>6, <2>7, <2>8 DEF Query, OwnKey, GivenKey
<1>7. NamesSoFar => NamesSoFar'
  <2>1. \A i : Kept(Here[i])' = Kept(Here[i])
    BY <1>1, <1>4 DEF Kept
  <2> QED
    BY <1>1, <1>4, <2>1 DEF NamesSoFar
<1>8. (AppsSoFar => AppsSoFar') /\ (MultiStringSoFar => MultiStringSoFar')
  BY <1>1, <1>4 DEF AppsSoFar, MultiStringSoFar
<1>9. VersionSoFar => VersionSoFar'
  BY <1>1, <1>4, <1>5 DEF VersionSoFar
<1>10. SizeAsked => SizeAsked'
  <2>1. Given(call.query, Here[call.next + 1].data)' = Given(call.query, Here[call.next + 1].data)
    BY <1>1, <1>2, <1>4, GivenStays
  <2> QED
    BY <1>1, <1>4, <2>1 DEF SizeAsked
<1>11. SoFar => SoFar'
  BY <1>4, <1>7, <1>8, <1>9, <1>10 DEF SoFar
<1> QED
  BY <1>1, <1>3, <1>4, <1>6, <1>11 DEF CompleteInv, UndisturbedComplete

\* Every step keeps what has been collected.
LEMMA StepComplete ==
  IInv /\ FoundInv /\ TypeInv /\ CompleteInv /\ [Next]_vars => CompleteInv'
<1> SUFFICES ASSUME IInv, FoundInv, TypeInv, CompleteInv, [Next]_vars PROVE CompleteInv'
  OBVIOUS
<1> QED
  BY OpenComplete, QueryInfoComplete, EnumNextComplete, EnumEndsComplete, AskSizeComplete,
     ReadStringComplete, ReadMultiStringComplete, CloseKeyComplete, GetWendousInfoComplete,
     CallersComplete, DisturbedComplete, StutterComplete DEF Next

\* No call, nothing owed.
LEMMA InitComplete == Init => CompleteInv
BY DEF Init, CompleteInv, UndisturbedComplete, Ended

\* With any keys, values and lengths, a query that nobody disturbs gives all
\* there is, in order and whole (RegistryAccessor.hpp:189-514,
\* RegistryActions.hpp:28-103, Startups.hpp:36-53, WinNT.hpp:87-104).
THEOREM AlwaysComplete == Spec => []UndisturbedComplete
<1>1. Spec => []TypeInv
  BY InvHolds, FoundHolds, InitTyped, StepTyped, PTL DEF Spec
<1>2. Spec => []CompleteInv
  BY <1>1, InvHolds, FoundHolds, InitComplete, StepComplete, PTL DEF Spec
<1>3. CompleteInv => UndisturbedComplete
  BY DEF CompleteInv
<1> QED
  BY <1>2, <1>3, PTL
-----------------------------------------------------------------------------
(* What is made of a value is what was stored. *)

\* Nothing but NULs is added to a multi-string.
LEMMA GivenAdds ==
  ASSUME NEW S, Nul \in S, NEW data \in Seq(S), NEW given, given = Given("RegGetMultiString", data)
  PROVE  /\ given \in Seq(S) /\ Len(data) <= Len(given)
         /\ \A i \in 1 .. Len(given) : given[i] = IF i <= Len(data) THEN data[i] ELSE Nul
<1>1. CASE given = data
  BY <1>1
<1>2. CASE given = Append(data, Nul)
  BY <1>2
<1>3. CASE given = data \o <<Nul, Nul>>
  <2>1. PICK two : two = <<Nul, Nul>>
    OBVIOUS
  <2>2. two \in Seq(S) /\ Len(two) = 2 /\ \A i \in 1 .. 2 : two[i] = Nul
    <3>1. \A i \in 1 .. 2 : i = 1 \/ i = 2
      OBVIOUS
    <3>2. two \in Seq(S) /\ Len(two) = 2 /\ two[1] = Nul /\ two[2] = Nul
      BY <2>1
    <3> QED
      BY <3>1, <3>2
  <2>3. /\ given \in Seq(S) /\ Len(given) = Len(data) + 2
        /\ \A i \in 1 .. Len(data) + 2 :
             given[i] = IF i <= Len(data) THEN data[i] ELSE two[i - Len(data)]
    <3>1. given = data \o two
      BY <1>3, <2>1
    <3>2. two \in Seq(S) /\ Len(two) = 2
      BY <2>2
    <3>3. /\ data \o two \in Seq(S) /\ Len(data \o two) = Len(data) + Len(two)
          /\ \A i \in 1 .. Len(data) + Len(two) :
               (data \o two)[i] = IF i <= Len(data) THEN data[i] ELSE two[i - Len(data)]
      BY <3>2, ConcatProperties
    <3> QED
      BY <3>1, <3>2, <3>3
  <2>4. \A i \in 1 .. Len(data) + 2 : ~(i <= Len(data)) => i - Len(data) \in 1 .. 2
    OBVIOUS
  <2>5. \A i \in 1 .. Len(data) + 2 : given[i] = IF i <= Len(data) THEN data[i] ELSE Nul
    BY <2>2, <2>3, <2>4
  <2> QED
    BY <2>3, <2>5
<1> QED
  BY <1>1, <1>2, <1>3 DEF Given

\* Characters a to b, without a NUL, begin where data or a string of it does;
\* a piece of the first n ends there too.
Begins(data, a, b) ==
  /\ a = 1 \/ data[a - 1] = Nul
  /\ \A i \in a .. b : data[i] # Nul
PieceUpto(data, n, text) ==
  \E a \in 1 .. n, b \in 1 .. n :
    a <= b /\ Begins(data, a, b) /\ b + 1 <= n /\ data[b + 1] = Nul /\ text = SubSeq(data, a, b)

\* The strings cut off up to a character are pieces, and so is what has begun.
PiecesAt(h, data, i) ==
  /\ \A text \in ToSet(h[i].ended) : PieceUpto(data, i, text)
  /\ \E a \in 1 .. i + 1 : Begins(data, a, i) /\ h[i].begun = SubSeq(data, a, i)

LEMMA CutsArePieces ==
  ASSUME NEW S, NEW data \in Seq(S), NEW n \in 0 .. Len(data) - 1,
         \A i \in 1 .. n : ~EndAt(data, i), NEW h, Cuts(h, S, data, n)
  PROVE  \A i \in 0 .. n : PiecesAt(h, data, i)
<1>1. PiecesAt(h, data, 0)
  <2>1. h[0].ended = <<>> /\ h[0].begun = <<>>
    BY DEF Cuts
  <2>2. ToSet(<<>>) = {} /\ SubSeq(data, 1, 0) = <<>>
    BY DEF ToSet
  <2>3. Begins(data, 1, 0) /\ 1 \in 1 .. 0 + 1
    BY DEF Begins
  <2> QED
    BY <2>1, <2>2, <2>3 DEF PiecesAt
<1>2. ASSUME NEW i \in 1 .. n, PiecesAt(h, data, i - 1) PROVE PiecesAt(h, data, i)
  <2>1. PICK k \in 0 .. n : k = i - 1
    OBVIOUS
  <2>2. /\ \A text \in ToSet(h[k].ended) : PieceUpto(data, k, text)
        /\ i = k + 1 /\ k \in Nat /\ i \in Nat /\ i \in 1 .. Len(data) /\ k <= Len(data)
    BY <1>2, <2>1 DEF PiecesAt
  <2>3. PICK a \in 1 .. k + 1 : Begins(data, a, k) /\ h[k].begun = SubSeq(data, a, k)
    BY <1>2, <2>1 DEF PiecesAt
  <2>4. h[i] = OneMore(h[k], data[i])
    BY <2>1 DEF Cuts
  <2>5. /\ h[k].ended \in Seq(Seq(S)) /\ h[k].begun \in Seq(S)
        /\ h[k] = [ended |-> h[k].ended, begun |-> h[k].begun]
    BY DEF Cuts
  <2>6. \A text : PieceUpto(data, k, text) => PieceUpto(data, i, text)
    <3> SUFFICES ASSUME NEW text, PieceUpto(data, k, text) PROVE PieceUpto(data, i, text)
      OBVIOUS
    <3>1. PICK b \in 1 .. k, c \in 1 .. k :
            b <= c /\ Begins(data, b, c) /\ c + 1 <= k /\ data[c + 1] = Nul
              /\ text = SubSeq(data, b, c)
      BY DEF PieceUpto
    <3>2. b \in 1 .. i /\ c \in 1 .. i /\ c + 1 <= i
      BY <2>2, <3>1
    <3> QED
      BY <3>1, <3>2 DEF PieceUpto
  <2>7. CASE data[i] = Nul
    <3>1. h[i].ended = Append(h[k].ended, h[k].begun) /\ h[i].begun = <<>>
      BY <2>4, <2>7 DEF OneMore
    <3>2. a # i
      <4>1. ASSUME a = i PROVE FALSE
        <5>1. i = 1 \/ data[i - 1] = Nul
          BY <2>3, <4>1 DEF Begins
        <5> QED
          BY <2>2, <2>7, <5>1 DEF EndAt
      <4> QED
        BY <4>1
    <3>3. a \in 1 .. i /\ k \in 1 .. i /\ a <= k /\ k + 1 <= i /\ data[k + 1] = Nul
      BY <2>2, <2>3, <2>7, <3>2
    <3>4. PieceUpto(data, i, h[k].begun)
      BY <2>3, <3>3 DEF PieceUpto
    <3>5. ToSet(h[i].ended) \subseteq ToSet(h[k].ended) \cup {h[k].begun}
      <4>1. PICK W : W = Seq(S)
        OBVIOUS
      <4>2. PICK s \in Seq(W) : s = h[k].ended
        BY <2>5, <4>1
      <4>3. PICK begun \in W : begun = h[k].begun
        BY <2>5, <4>1
      <4>4. ToSet(Append(s, begun)) \subseteq ToSet(s) \cup {begun}
        BY DEF ToSet
      <4> QED
        BY <3>1, <4>2, <4>3, <4>4
    <3>6. \A text \in ToSet(h[i].ended) : PieceUpto(data, i, text)
      BY <2>2, <2>6, <3>4, <3>5
    <3>7. Begins(data, i + 1, i) /\ i + 1 \in 1 .. i + 1
      BY <2>2, <2>7 DEF Begins
    <3>8. SubSeq(data, i + 1, i) = <<>>
      BY <2>2
    <3> QED
      BY <3>1, <3>6, <3>7, <3>8 DEF PiecesAt
  <2>8. CASE data[i] # Nul
    <3>1. h[i].ended = h[k].ended /\ h[i].begun = Append(h[k].begun, data[i])
      BY <2>4, <2>5, <2>8 DEF OneMore
    <3>2. \A text \in ToSet(h[i].ended) : PieceUpto(data, i, text)
      BY <2>2, <2>6, <3>1
    <3>3. Begins(data, a, i)
      <4>1. \A j \in a .. i : j \in a .. k \/ j = i
        BY <2>2, <2>3
      <4> QED
        BY <2>3, <2>8, <4>1 DEF Begins
    <3>4. Append(SubSeq(data, a, k), data[i]) = SubSeq(data, a, i)
      BY <2>2, <2>3
    <3>5. a \in 1 .. i + 1
      BY <2>2, <2>3
    <3> QED
      BY <2>3, <3>1, <3>2, <3>3, <3>4, <3>5 DEF PiecesAt
  <2> QED
    BY <2>7, <2>8
<1>3. PICK T : T = {i \in 0 .. n : PiecesAt(h, data, i)}
  OBVIOUS
<1>4. 0 \in T /\ \A i \in 1 .. n : i - 1 \in T => i \in T
  BY <1>1, <1>2, <1>3
<1>5. \A i \in 0 .. n : i \in T
  <2>1. n \in Nat
    OBVIOUS
  <2> QED
    BY <1>4, <2>1, Induction
<1> QED
  BY <1>3, <1>5

\* The strings of a multi-string stand between the NULs of what was stored.
LEMMA StringsArePieces ==
  ASSUME NEW S, Nul \in S, NEW data \in Seq(S), NEW given, given = Given("RegGetMultiString", data)
  PROVE  ToSet(MultiStrings(given)) \subseteq Pieces(data)
<1>1. /\ given \in Seq(S) /\ Len(given) >= 2
      /\ given[Len(given)] = Nul /\ given[Len(given) - 1] = Nul
  BY GivenEnds
<1>2. EndAt(given, Len(given))
  BY <1>1 DEF EndAt
<1>3. PICK n \in 0 .. Len(given) - 1 :
        /\ Min({i \in DOMAIN given : given[i] = Nul /\ (i = 1 \/ given[i - 1] = Nul)}) = n + 1
        /\ \A i \in 1 .. n : ~EndAt(given, i)
  BY <1>1, <1>2, EndFound
<1>4. PICK h : Cuts(h, S, given, n) /\ MultiStrings(given) = h[n].ended
  BY <1>1, <1>3, StringsOneByOne
<1>5. PiecesAt(h, given, n)
  <2>1. \A i \in 0 .. n : PiecesAt(h, given, i)
    BY <1>1, <1>3, <1>4, CutsArePieces
  <2> QED
    BY <2>1
<1>6. /\ Len(data) <= Len(given)
      /\ \A i \in 1 .. Len(given) : given[i] = IF i <= Len(data) THEN data[i] ELSE Nul
  BY GivenAdds
<1> SUFFICES ASSUME NEW text \in ToSet(MultiStrings(given)) PROVE text \in Pieces(data)
  OBVIOUS
<1>7. PICK a \in 1 .. n, b \in 1 .. n :
        a <= b /\ Begins(given, a, b) /\ b + 1 <= n /\ given[b + 1] = Nul
          /\ text = SubSeq(given, a, b)
  BY <1>4, <1>5 DEF PiecesAt, PieceUpto
<1>8. a \in Nat /\ b \in Nat /\ 1 <= a /\ a <= b /\ b + 1 <= Len(given)
  BY <1>1, <1>3, <1>7
<1>9. b <= Len(data)
  <2>1. b \in a .. b /\ b \in 1 .. Len(given)
    BY <1>1, <1>8
  <2> QED
    BY <1>6, <1>7, <2>1 DEF Begins
<1>10. \A i \in 1 .. b : data[i] = given[i]
  BY <1>1, <1>6, <1>8, <1>9
<1>11. \A i \in a .. b : data[i] # Nul
  BY <1>7, <1>8, <1>10 DEF Begins
<1>12. a = 1 \/ data[a - 1] = Nul
  <2>1. a # 1 => a - 1 \in 1 .. b
    BY <1>8
  <2> QED
    BY <1>7, <1>10, <2>1 DEF Begins
<1>13. b = Len(data) \/ data[b + 1] = Nul
  <2>1. b # Len(data) => b + 1 <= Len(data) /\ b + 1 \in 1 .. Len(given)
    BY <1>1, <1>8, <1>9
  <2> QED
    BY <1>6, <1>7, <2>1
<1>14. text = SubSeq(data, a, b)
  BY <1>1, <1>7, <1>8, <1>9, <1>10
<1>15. PICK r : r = <<a, b>>
  OBVIOUS
<1>16. r \in (DOMAIN data) \X (DOMAIN data) /\ r[1] = a /\ r[2] = b
  BY <1>8, <1>9, <1>15
<1> QED
  BY <1>8, <1>11, <1>12, <1>13, <1>14, <1>16 DEF Pieces

\* What is made of a value that is whole is what the value offers.
LEMMA MadeOffered ==
  ASSUME NEW q \in Query, NEW all, NEW held \in all, Whole(q, held),
         q \in ByValue => \E e \in Entries(q) : e.data # Null /\ held = e.data
  PROVE  Makes(q, held) \subseteq Offers(q, all)
<1>1. CASE q \in {"GetInstalledAppList", "GetWendousInfo"}
  <2>1. PICK e \in Entries(q) : e.data # Null /\ held = e.data
    BY <1>1 DEF ByValue
  <2>2. WellFormed(q, e.data)
    BY <1>1, <2>1 DEF Whole, WellFormed
  <2>3. PICK data : data = Given(q, held)
    OBVIOUS
  <2>4. ~(StringLength(data) > MaxString) /\ TakeString(data) = Text(held)
    BY <1>1, <2>1, <2>2, <2>3, TakesText
  <2>5. TakeString(data) = Front(data)
    BY <1>1, <2>1, <2>3, <2>4, TakesFront
  <2>6. Makes(q, held) = {Text(held)}
    BY <1>1, <2>3, <2>4, <2>5 DEF Makes
  <2>7. Text(held) \in Offers(q, all)
    BY <1>1 DEF Offers
  <2> QED
    BY <2>6, <2>7
<1>2. CASE q = "RegGetMultiString"
  <2>1. PICK e \in Entries(q) : e.data # Null /\ held = e.data
    BY <1>2 DEF ByValue
  <2>2. held \in Seq(ToSet(held) \cup {Nul})
    BY <1>2, <2>1, EntryData DEF ByValue
  <2>3. ToSet(MultiStrings(Given(q, held))) \subseteq Pieces(held)
    <3>1. PICK S : S = ToSet(held) \cup {Nul}
      OBVIOUS
    <3> QED
      BY <1>2, <2>2, <3>1, StringsArePieces
  <2>4. Makes(q, held) = ToSet(MultiStrings(Given(q, held)))
    BY <1>2 DEF Makes
  <2>5. Pieces(held) \subseteq Offers(q, all)
    BY <1>2 DEF Offers
  <2> QED
    BY <2>3, <2>4, <2>5
<1>3. CASE q \notin {"GetInstalledAppList", "GetWendousInfo", "RegGetMultiString"}
  BY <1>3 DEF Makes, Offers
<1> QED
  BY <1>1, <1>2, <1>3

LEMMA FoundIsOffered == IInv /\ FoundInv => NothingInvented
<1> SUFFICES ASSUME IInv, FoundInv, \A data \in past : Whole(call.query, data)
             PROVE  Gave \subseteq Offers(call.query, past)
  BY DEF FoundInv, ResultFound, NothingInvented
<1>1. call.query \in Query
  BY DEF IInv, IsCall
<1>2. \A held \in past : Makes(call.query, held) \subseteq Offers(call.query, past)
  BY <1>1, MadeOffered DEF FoundInv, ResultFound, PastRead
<1>3. Missing(call.query) \subseteq Offers(call.query, past)
  BY DEF Missing, Offers
<1> QED
  BY <1>2, <1>3 DEF Gave, Gives

\* Whatever others write while a query asks for a size, allocates and reads,
\* what it gives was stored during the call: no string is cut off, padded or
\* mixed, and no name has the type of another (RegistryAccessor.hpp:206-217).
\* Excluded are calls whose source had, for the XP fallback, a string without
\* the NUL that ends it.
THEOREM NothingEverInvented == Spec => []NothingInvented
BY InvHolds, FoundHolds, FoundIsOffered, PTL
=============================================================================
