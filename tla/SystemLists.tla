---------------------------- MODULE SystemLists ----------------------------
(***************************************************************************)
(* ServicesInfo and NetCardInfo: singletons that keep the list of services  *)
(* or of network adapters that they have asked the system for.  The first   *)
(* call builds the instance; a reset replaces the list.  Meanwhile services *)
(* and adapters come and go.  The two classes share nothing: a behaviour is *)
(* about one of them, and one call at a time.                               *)
(***************************************************************************)
EXTENDS Integers, SequencesExt

CONSTANTS
  Name, Size, \* services or adapters, and what each takes in a buffer
  Filters,    \* the sets of services that a filter may select
  Page,       \* the buffer that ServicesInfo::Init starts with
  Unknown,    \* no list
  MaxEntries, \* bound: the services or adapters at one time
  MaxWrites,  \* bound: changes during a call
  MaxLost     \* bound: handles left open when a call begins

ASSUME SizeAssumption ==
  /\ Size \in [Name -> Nat \ {0}]
  /\ {Page, MaxEntries, MaxWrites, MaxLost} \subseteq Nat
ASSUME FilterAssumption == Filters \subseteq SUBSET Name

VARIABLES
  class,      \* which of the two
  source,     \* the services or adapters there are, in the system's order
  denied,     \* may the service manager not be opened?
  built, list,  \* has the instance been constructed; servs_ or netCards_
  handles,    \* open handles of the service manager
  pc, call,   \* where the call is, and its locals
  broken,     \* history: calls that threw with the handle open
  disturbed,  \* history: during the latest Init, has the source changed or
              \* the system failed
  offered,    \* history: all that the latest Init could have been given
  whole,      \* history: what it has left in list, if nothing disturbed it
  writes

system == <<class, source, denied, writes>>
instance == <<built, list>>
history == <<disturbed, offered, whole>>
vars == <<system, instance, handles, pc, call, broken, history>>

Class == {"ServicesInfo", "NetCardInfo"}
Op    == {"DumpInfo", "Reset", "ResetAndDump"}  \* NetCardInfo says Reflush
Ended == {"idle", "returned", "threw"}

Locals == [op : Op, wanted : SUBSET Name, building : BOOLEAN, room : Nat, next : Nat,
           result : Seq(Name)]

Idle == [op |-> "Reset", wanted |-> {}, building |-> FALSE, room |-> 0, next |-> 0,
         result |-> <<>>]

Lists == {s \in BoundedSeq(Name, MaxEntries) : IsInjective(s)}
Total(s) ==
  LET sum[i \in 0 .. Len(s)] == IF i = 0 THEN 0 ELSE sum[i - 1] + Size[s[i]]
  IN  sum[Len(s)]

\* What a filter selects (external); the constructor asks for everything.
Filtered(s, wanted) ==
  LET chosen[i \in 0 .. Len(s)] ==
        IF i = 0 THEN <<>>
        ELSE IF s[i] \in wanted THEN Append(chosen[i - 1], s[i]) ELSE chosen[i - 1]
  IN  chosen[Len(s)]
Selected(s, locals) == Filtered(s, IF locals.building THEN Name ELSE locals.wanted)
Here == Selected(source, call)

-----------------------------------------------------------------------------
(* The parts of a call. *)

\* Init begins, while there is s.
StartInit(locals, s) ==
  /\ pc' = IF class = "ServicesInfo" THEN "open" ELSE "adapters"
  /\ call' = [locals EXCEPT !.room = IF class = "ServicesInfo" THEN Page ELSE 1, !.next = 0]
  /\ disturbed' = FALSE /\ whole' = Unknown /\ offered' = ToSet(Selected(s, locals))

\* The caller gets a copy of the list.
Return(op, copy) ==
  /\ pc' = "returned"
  /\ call' = [Idle EXCEPT !.result = IF op = "Reset" THEN <<>> ELSE copy]

\* The call is done with a list that is filled.
InitEnds(filled) ==
  /\ Return(call.op, filled) /\ list' = filled /\ built' = TRUE
  /\ whole' = IF disturbed THEN Unknown ELSE Filtered(source, call.wanted)
  /\ UNCHANGED <<disturbed, offered>>

-----------------------------------------------------------------------------
(* Mutants: what the checks of the properties replace CloseManager, Clear,  *)
(* InitReturns and Grown by.                                                *)

\* The manager is closed in the loop and after it.
CloseTwice == handles' = handles - 2

\* It is closed only if the first page was the last.
CloseFirstPage == handles' = IF call.next = 0 THEN handles - 1 ELSE handles

\* A reset adds to what there is.
ClearNothing == UNCHANGED list

\* The buffer is kept as it is.
NotGrown(needed) == call.room

\* A reset that has to build the instance leaves it as it was built.
InitReturnsOnce(filled) == InitEnds(filled)

-----------------------------------------------------------------------------

Clear == list' = <<>>

\* Either Instance() has only built the instance for a reset, which clears it
\* and asks again, or the call is done.
InitReturns(filled) ==
  IF call.building /\ call.op # "DumpInfo"
  THEN StartInit([call EXCEPT !.building = FALSE], source) /\ Clear /\ built' = TRUE
  ELSE InitEnds(filled)

\* The constructor clears the list and there is no instance; a reset leaves
\* the instance with what has been read so far.  The manager stays open.
InitThrows ==
  /\ pc' = "threw" /\ call' = Idle
  /\ list' = IF built THEN list ELSE <<>>
  /\ broken' = IF pc = "page" THEN broken + 1 ELSE broken
  /\ UNCHANGED <<built, handles, offered, whole>>

-----------------------------------------------------------------------------
(* ServicesInfo::Init. *)

OpenManager ==
  /\ pc = "open" /\ ~denied
  /\ handles' = handles + 1 /\ pc' = "page"
  /\ UNCHANGED <<system, instance, call, broken, history>>

ManagerDenied ==
  /\ pc = "open" /\ denied
  /\ InitThrows
  /\ UNCHANGED <<system, disturbed>>

CloseManager == handles' = handles - 1

\* A page holds as many services as fit; call.next is the resume point.
NamesFit(left) ==
  SubSeq(left, 1, Max({k \in 0 .. Len(left) : Total(SubSeq(left, 1, k)) <= call.room}))

Grown(needed) == Max({call.room, needed})

\* One turn of the loop: the services are taken over and, if some remain, the
\* buffer is made large enough for them.
EnumServices ==
  /\ pc = "page"
  /\ LET left == SubSeq(Here, call.next + 1, Len(Here))
         page == NamesFit(left)
         remaining == Total(SubSeq(left, Len(page) + 1, Len(left)))
     IN  IF remaining = 0
         THEN InitReturns(list \o page) /\ CloseManager
         ELSE /\ list' = list \o page
              /\ call' = [call EXCEPT !.next = @ + Len(page), !.room = Grown(remaining)]
              /\ UNCHANGED <<built, handles, pc, history>>
  /\ UNCHANGED <<system, broken>>

-----------------------------------------------------------------------------
(* NetCardInfo::Init. *)

\* Only the first call is repeated, with the size it asked for.
AdaptersOverflow ==
  /\ pc = "adapters" /\ Len(Here) > call.room
  /\ call' = [call EXCEPT !.room = Len(Here)] /\ pc' = "again"
  /\ UNCHANGED <<system, instance, handles, broken, history>>

AdaptersFail ==
  /\ pc \in {"adapters", "again"}
  /\ Here = <<>> \/ (pc = "again" /\ Len(Here) > call.room)
  /\ InitThrows
  /\ UNCHANGED <<system, disturbed>>

\* The list is walked to its end, and with it the pointer that is deleted.
TakeAdapters ==
  /\ pc \in {"adapters", "again"} /\ Len(Here) \in 1 .. call.room
  /\ InitReturns(list \o Here)
  /\ UNCHANGED <<system, handles, broken>>

-----------------------------------------------------------------------------
(* The callers, and the system (external). *)

\* DumpInfo, ResetFilter and ResetAndDump, or Reflush and ReflushAndDumpInfo.
\* Anything may have happened to the source since the last call.
Begin(op) ==
  /\ pc = "idle" /\ handles <= MaxLost
  /\ source' \in Lists /\ denied' \in BOOLEAN
  /\ \E wanted \in IF class = "ServicesInfo" /\ op # "DumpInfo" THEN Filters ELSE {Name} :
       IF built /\ op = "DumpInfo"
       THEN Return(op, list) /\ UNCHANGED <<list, history>>
       ELSE StartInit([Idle EXCEPT !.op = op, !.wanted = wanted, !.building = ~built], source')
              /\ Clear
  /\ UNCHANGED <<class, writes, built, handles, broken>>

\* The caller has the result, or has caught the exception.
Finish ==
  /\ pc \in {"returned", "threw"} /\ pc' = "idle"
  /\ call' = Idle /\ writes' = 0
  /\ UNCHANGED <<class, source, denied, instance, handles, broken, history>>

\* A call of the system fails for a reason of its own.
SystemFails ==
  /\ pc \in {"page", "adapters", "again"}
  /\ InitThrows /\ disturbed' = TRUE
  /\ UNCHANGED system

\* A service or an adapter comes or goes.
SourceChanges ==
  /\ pc \notin Ended /\ writes < MaxWrites
  /\ source' \in {InsertAt(source, i, name) : i \in 1 .. Len(source) + 1, name \in Name}
                   \cup {RemoveAt(source, i) : i \in DOMAIN source}
  /\ source' \in Lists
  /\ writes' = writes + 1 /\ disturbed' = TRUE
  /\ offered' = offered \cup ToSet(Selected(source', call))
  /\ UNCHANGED <<class, denied, instance, handles, pc, call, broken, whole>>

Init ==
  /\ class \in Class
  /\ source = <<>> /\ denied = FALSE /\ writes = 0
  /\ built = FALSE /\ list = <<>>
  /\ handles = 0 /\ pc = "idle" /\ call = Idle
  /\ broken = 0 /\ disturbed = FALSE /\ offered = {} /\ whole = Unknown

Step ==
  \/ OpenManager \/ ManagerDenied \/ EnumServices
  \/ AdaptersOverflow \/ AdaptersFail \/ TakeAdapters

Next == (\E op \in Op : Begin(op)) \/ Finish \/ Step \/ SystemFails \/ SourceChanges

Spec == Init /\ [][Next]_vars

\* A call goes on; nobody needs to call, and nothing to happen elsewhere.
FairSpec == Spec /\ WF_vars(Step)

-----------------------------------------------------------------------------
(* Properties. *)

TypeOK ==
  /\ class \in Class /\ source \in Lists
  /\ {denied, built, disturbed} \subseteq BOOLEAN
  /\ list \in Seq(Name) /\ offered \subseteq Name
  /\ whole = Unknown \/ whole \in Lists
  /\ handles \in Nat /\ broken \in Nat /\ writes \in 0 .. MaxWrites
  /\ pc \in Ended \cup {"open", "page", "adapters", "again"}
  /\ call \in Locals

\* The list is what there was when it was last asked for: whatever calls and
\* failures came before, it holds everything that the filter of the call
\* selected, in order and once, if nothing disturbed the last Init.  One that
\* nothing disturbs fails only when the manager cannot be opened or there is
\* no adapter.
ListIsWhole ==
  /\ whole # Unknown => built /\ list = whole
  /\ pc = "returned" => built /\ call.result \in {<<>>, list}
  /\ pc = "threw" /\ ~disturbed =>
       IF class = "ServicesInfo" THEN denied ELSE source = <<>>

\* The manager is closed when a call returns, and stays open when one throws
\* while it reads.
HandlesAccounted == handles = broken + IF pc = "page" THEN 1 ELSE 0

\* A reset leaves nothing of the list before it, and a failure in the middle
\* no mixture of the two: at any time the list holds only what its latest
\* Init could have been given.
NothingStale == ToSet(list) \subseteq offered

\* A call ends: in particular the services are read to the end, with a buffer
\* that grows, although some come and go while it runs.
LoadEnds == pc \notin Ended ~> pc \in Ended
=============================================================================
