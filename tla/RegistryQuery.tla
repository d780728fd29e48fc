--------------------------- MODULE RegistryQuery ---------------------------
(***************************************************************************)
(* The registry queries: the installed programs, the startups, the version  *)
(* of Windows, and what the wrapper offers for a key of the caller's.  Each *)
(* asks for a count or a size, allocates, and reads while other processes   *)
(* may write what it reads.  One call at a time; between two of its calls   *)
(* of the system anything may be written.                                   *)
(***************************************************************************)
EXTENDS Integers, SequencesExt

CONSTANTS
  Uninstall,  \* the key whose subkeys are the installed programs
  RunKeys,    \* the keys of the startups in order, one for each registry view
  Name, NameLen,  \* names of subkeys and values, and their lengths
  Data,       \* what a DisplayName may hold, as a sequence of characters
  VersionData, MultiData,  \* and a value of the version, a multi-string
  Nul, Null,  \* the character NUL; no value
  Dword,      \* a DWORD counts modulo this
  MaxString,  \* the longest std::string
  MaxEntries, \* bound: the entries in one key
  MaxWrites,  \* bound: writes by others during a call
  MaxLost     \* bound: handles left open when a call begins

\* No value, terminated or not, is mistaken for none.
IsData(d) == Null \notin {d, Append(d, Nul), d \o <<Nul, Nul>>}

ASSUME NameAssumption == NameLen \in [Name -> Nat \ {0}]
ASSUME SizeAssumption ==
  /\ {Dword, MaxString, MaxEntries, MaxWrites, MaxLost} \subseteq Nat
  /\ MaxString < Dword - 1
  /\ \A d \in Data \cup VersionData \cup MultiData : Len(d) < MaxString
ASSUME DataAssumption ==
  \A d \in Data \cup VersionData \cup MultiData :
    d \in Seq(ToSet(d)) /\ IsData(d)
ASSUME KeyAssumption == RunKeys # <<>> /\ RunKeys \in Seq(ToSet(RunKeys))

VARIABLES
  native,     \* does advapi32.dll export RegGetValueA (not on 32-bit XP)
  source,     \* the entries of each key the call reads
  handles,    \* open handles
  pc, call,   \* where the call is, and its locals
  broken,     \* history: calls that threw with a handle open
  disturbed,  \* history: has another process written, or the system failed
  past,       \* history: what the source has held during the call
  writes

history == <<broken, disturbed>>
others == <<source, past, writes>>
vars == <<native, others, handles, pc, call, history>>

-----------------------------------------------------------------------------
(* The queries and the keys they read.                                      *)

\* Those that open keys themselves, and those that are given one.
OwnKey    == {"GetInstalledAppList", "DumpInfo"}
GivenKey  == {"GetWendousInfo", "RegGetMultiString", "RegEnumValues"}
Query     == OwnKey \cup GivenKey
ByValue   == {"GetInstalledAppList", "GetWendousInfo", "RegGetMultiString"}

Visits(q) ==
  CASE q = "GetInstalledAppList" -> <<Uninstall>>
    [] q = "DumpInfo"            -> RunKeys
    [] q = "GetWendousInfo"      -> <<"CurrentVersion">>
    [] OTHER                     -> <<"key">>

VersionValues == <<"CSDVersion", "ProductName", "EditionID", "DisplayVersion">>
ValueName == ToSet(VersionValues) \cup {"value"}

Char == {Nul} \cup UNION {ToSet(d) : d \in Data \cup VersionData \cup MultiData}

\* The entries of a key as pairs: a subkey with its DisplayName, a value with
\* its data or its type where the query reads that.
Entry(name, data) == [name |-> name, data |-> data]
Pairs(names, data) == {Entry(n, d) : n \in names, d \in data \cup {Null}}
Entries(q) ==
  CASE q = "GetInstalledAppList" -> Pairs(Name, Data)
    [] q = "GetWendousInfo"      -> Pairs(ToSet(VersionValues), VersionData)
    [] q = "RegGetMultiString"   -> Pairs({"value"}, MultiData)
    [] q = "RegEnumValues"       -> {Entry(n, type) : n \in Name, type \in {"REG_SZ", "REG_DWORD"}}
    [] q = "DumpInfo"            -> Pairs(Name, {})

\* What a query gives of an entry: its name and type, its name, or text.
Item(q) ==
  CASE q = "RegEnumValues" -> Entries(q)
    [] q = "DumpInfo"      -> Name
    [] OTHER               -> Seq(Char)

NamesOf(entries) == [i \in DOMAIN entries |-> entries[i].name]

\* What a query can read in a source: data, names, or names with their types.
Held(q, s) ==
  LET entries == UNION {ToSet(s[p]) : p \in DOMAIN s}
  IN  CASE q \in ByValue   -> {e.data : e \in entries} \ {Null}
        [] q = "DumpInfo" -> {e.name : e \in entries}
        [] OTHER          -> entries

\* What a key may hold.  That a value is missing is written as its data being
\* Null: those of the version are always in the same order.
Possible(q, s) ==
  CASE q = "GetWendousInfo"    -> NamesOf(s) = VersionValues
    [] q = "RegGetMultiString" -> NamesOf(s) = <<"value">>
    [] OTHER -> Len(s) <= MaxEntries /\ IsInjective(NamesOf(s))

Contents(q) ==
  CASE q = "GetWendousInfo" ->
         {[i \in DOMAIN VersionValues |-> Entry(VersionValues[i], data[i])] :
            data \in [DOMAIN VersionValues -> VersionData \cup {Null}]}
    [] q = "RegGetMultiString" -> {<<e>> : e \in Entries(q)}
    [] OTHER -> {s \in BoundedSeq(Entries(q), MaxEntries) : Possible(q, s)}

-----------------------------------------------------------------------------
(* The locals of a call and the steps that all queries share. *)

Ended   == {"idle", "returned", "threw", "terminated"}
Holding == {"info", "enum", "size", "read"}

\* The key that the call has open, or has been given, and whether it exists.
Here == source[Head(call.todo)]
Key  == UNION {ToSet(Visits(q)) : q \in Query}
Locals == [query : Query, todo : Seq(Key), closed : SUBSET Key,
           count : Nat, room : Nat, next : Nat, sub : BOOLEAN,
           names : Seq(IF call.query = "RegEnumValues" THEN Item(call.query)
                                                       ELSE Name \cup ValueName),
           result : Seq(Item(call.query))]

NoSource == [p \in {} |-> <<>>]

\* closed: the keys this call cannot open.
Fresh(q, closed) ==
  [query |-> q, todo |-> Visits(q), closed |-> closed,
   count |-> 0, room |-> 0, next |-> 0, sub |-> FALSE,
   names |-> CASE q = "GetWendousInfo"    -> <<"CSDVersion">>
               [] q = "RegGetMultiString" -> <<"value">>
               [] OTHER                   -> <<>>,
   result |-> <<>>]

\* Does the call hold a key it has opened and has to close?
HasKey == pc \in Holding /\ call.query \in OwnKey

\* No handle has an owner that would close it; DumpInfo is noexcept.
Throw ==
  /\ pc' = IF call.query = "DumpInfo" THEN "terminated" ELSE "threw"
  /\ broken' = IF HasKey THEN broken + 1 ELSE broken

\* Done with a key: the next one, if any.
Leave(locals, opened) ==
  /\ call' = [locals EXCEPT !.todo = Tail(@)]
  /\ pc' = IF Len(locals.todo) = 1 THEN "returned" ELSE "open"
  /\ handles' = handles - opened

-----------------------------------------------------------------------------
(* The registry's answers (external, but for the fallback). *)

EndsIn(data, end) == IsSuffix(end, data)

\* RegQueryValueEx gives what is stored; RegGetValue terminates it, a
\* multi-string with a second NUL.
Given(q, data) ==
  IF q = "RegGetMultiString"
  THEN IF EndsIn(data, <<Nul, Nul>>) THEN data
       ELSE IF EndsIn(data, <<Nul>>) THEN Append(data, Nul) ELSE data \o <<Nul, Nul>>
  ELSE IF ~native \/ EndsIn(data, <<Nul>>) THEN data ELSE Append(data, Nul)

\* Is there the key below the open or given one that the value is in?
InSubkey(name) ==
  IF call.query = "GetInstalledAppList" THEN name \in ToSet(NamesOf(Here))
  ELSE Head(call.todo) \notin call.closed

RegGetValueA_sp(name) ==
  LET values == {Here[i].data : i \in {j \in DOMAIN Here : Here[j].name = name}} \ {Null}
  IN  IF values = {} \/ ~InSubkey(name) THEN Null
      ELSE Given(call.query, CHOOSE data \in values : TRUE)

\* The strings of a multi-string, up to the first empty one.
MultiStrings(data) ==
  LET end == Min({i \in DOMAIN data : data[i] = Nul /\ (i = 1 \/ data[i - 1] = Nul)})
      read[i \in 0 .. end - 1] ==
        IF i = 0 THEN [ended |-> <<>>, begun |-> <<>>]
        ELSE IF data[i] = Nul
        THEN [ended |-> Append(read[i - 1].ended, read[i - 1].begun), begun |-> <<>>]
        ELSE [read[i - 1] EXCEPT !.begun = Append(@, data[i])]
  IN  read[end - 1].ended

LongestName(entries) == Max({NameLen[entries[i].name] : i \in DOMAIN entries} \cup {0})

-----------------------------------------------------------------------------
(* Mutants: what the checks of the properties replace QueryInfo, CloseSub   *)
(* and TakeString by.                                                       *)

\* No room for the NUL.
QueryInfoTight ==
  /\ pc = "info" /\ pc' = "enum"
  /\ call' = [call EXCEPT !.count = Len(Here), !.room = LongestName(Here),
                         !.next = 0, !.names = <<>>]
  /\ UNCHANGED <<native, others, handles, history>>

\* The key is closed whether or not the function has opened one.
CloseAnyKey == handles' = handles - 1

\* The key that the fallback has opened is left open.
CloseNoKey == UNCHANGED handles

\* The string gets the length that was asked for first.
TakeRoom(data) == SubSeq(data \o [i \in 1 .. call.room |-> Nul], 1, call.room - 1)

-----------------------------------------------------------------------------
(* The enumerations: RegEnumKeys, RegEnumValues and RegEnumValueNames, whose *)
(* bodies differ in what of an entry they keep, on the key that is open.    *)

OpenKey ==
  /\ pc = "open" /\ Head(call.todo) \notin call.closed
  /\ handles' = handles + 1 /\ pc' = "info"
  /\ UNCHANGED <<native, others, call, history>>

\* DumpInfo goes on with the next key.
OpenFails ==
  /\ pc = "open" /\ Head(call.todo) \in call.closed
  /\ IF call.query = "DumpInfo" THEN Leave(call, 0) /\ UNCHANGED history
                               ELSE Throw /\ UNCHANGED <<handles, call, disturbed>>
  /\ UNCHANGED <<native, others>>

QueryInfo ==
  /\ pc = "info" /\ pc' = "enum"
  /\ call' = [call EXCEPT !.count = Len(Here), !.room = LongestName(Here) + 1,
                         !.next = 0, !.names = <<>>]
  /\ UNCHANGED <<native, others, handles, history>>

\* RegEnumValues keeps the type as well.
Kept(entry) == IF call.query = "RegEnumValues" THEN entry ELSE entry.name

\* By index, in a registry that may have changed since it was counted.
EnumNext ==
  /\ pc = "enum" /\ call.next < call.count
  /\ IF call.next < Len(Here) /\ NameLen[Here[call.next + 1].name] < call.room
     THEN /\ call' = [call EXCEPT !.next = @ + 1,
                                 !.names = Append(@, Kept(Here[call.next + 1]))]
          /\ UNCHANGED <<handles, pc, history>>
     ELSE Throw /\ UNCHANGED <<handles, call, disturbed>>
  /\ UNCHANGED <<native, others>>

\* The caller of RegEnumValues keeps its key; DumpInfo moves the names into its
\* set and closes the key; the programs are read one by one.
EnumEnds ==
  /\ pc = "enum" /\ call.next = call.count
  /\ CASE call.query = "RegEnumValues" -> Leave([call EXCEPT !.result = call.names], 0)
       [] call.query = "DumpInfo" ->
            Leave([call EXCEPT !.result = SetToSeq(ToSet(@ \o call.names))], 1)
       [] OTHER -> pc' = "size" /\ call' = [call EXCEPT !.next = 0] /\ UNCHANGED handles
  /\ UNCHANGED <<native, others, history>>

-----------------------------------------------------------------------------
(* RegGetString and RegGetMultiString: the size, and then the value.        *)

Reading == pc \in {"size", "read"} /\ call.next < Len(call.names)
Value   == call.names[call.next + 1]

\* The fallback for XP: a key is opened for each of the two reads.
OpenSub ==
  /\ Reading /\ ~native /\ ~call.sub /\ InSubkey(Value)
  /\ call' = [call EXCEPT !.sub = TRUE] /\ handles' = handles + 1
  /\ UNCHANGED <<native, others, pc, history>>

CloseSub == handles' = IF call.sub THEN handles - 1 ELSE handles

\* Whatever fails: a program is left out, a value of the version is empty, the
\* caller of RegGetMultiString gets the exception.
ReadFails ==
  IF call.query = "RegGetMultiString" THEN Throw /\ UNCHANGED <<handles, call>>
  ELSE /\ call' = [call EXCEPT !.next = @ + 1, !.sub = FALSE,
                      !.result = IF call.query = "GetWendousInfo" THEN Append(@, <<>>) ELSE @]
       /\ pc' = "size" /\ CloseSub /\ UNCHANGED broken

SubGone ==
  /\ Reading /\ ~native /\ ~call.sub /\ ~InSubkey(Value)
  /\ ReadFails
  /\ UNCHANGED <<native, others, disturbed>>

AskSize ==
  /\ Reading /\ pc = "size" /\ (native \/ call.sub)
  /\ LET data == RegGetValueA_sp(Value)
     IN  IF data = Null THEN ReadFails
         ELSE /\ call' = [call EXCEPT !.room = Len(data), !.sub = FALSE]
              /\ pc' = "read" /\ CloseSub /\ UNCHANGED broken
  /\ UNCHANGED <<native, others, disturbed>>

\* Without its last character; the length of what has none wraps around.
StringLength(data) == (Len(data) + Dword - 1) % Dword
TakeString(data) == SubSeq(data, 1, StringLength(data))

\* std::string::resize throws what neither caller catches.
ReadString ==
  /\ Reading /\ pc = "read" /\ (native \/ call.sub) /\ call.query # "RegGetMultiString"
  /\ LET data == RegGetValueA_sp(Value)
     IN  IF data = Null \/ Len(data) > call.room
         THEN ReadFails
         ELSE IF StringLength(data) > MaxString
         THEN Throw /\ CloseSub /\ call' = [call EXCEPT !.sub = FALSE]
         ELSE /\ call' = [call EXCEPT !.result = Append(@, TakeString(data)),
                                     !.next = @ + 1, !.sub = FALSE]
              /\ pc' = "size" /\ CloseSub /\ UNCHANGED broken
  /\ UNCHANGED <<native, others, disturbed>>

\* RegGetMultiString calls RegGetValueW itself: it is not for XP.
ReadMultiString ==
  /\ Reading /\ pc = "read" /\ call.query = "RegGetMultiString"
  /\ LET data == RegGetValueA_sp(Value)
     IN  IF data = Null \/ Len(data) > call.room
         THEN ReadFails
         ELSE Leave([call EXCEPT !.result = MultiStrings(data)], 0) /\ UNCHANGED broken
  /\ UNCHANGED <<native, others, disturbed>>

\* GetInstalledAppList has read all programs.
CloseKey ==
  /\ pc = "size" /\ call.next = Len(call.names) /\ call.query = "GetInstalledAppList"
  /\ Leave(call, 1)
  /\ UNCHANGED <<native, others, history>>

\* GetWendousInfo: Windows 10 has no CSDVersion, and other values instead.  The
\* operands of + are read in the order of the text, one a compiler may choose.
GetWendousInfo ==
  /\ pc = "size" /\ call.next = Len(call.names) /\ call.query = "GetWendousInfo"
  /\ LET CSDVersion == Head(call.result)
         text == Tail(call.result)
     IN  IF call.next = 1
         THEN /\ call' = [call EXCEPT !.names =
                           IF CSDVersion = <<>> THEN VersionValues ELSE SubSeq(VersionValues, 1, 2)]
              /\ UNCHANGED <<handles, pc>>
         ELSE Leave([call EXCEPT !.result =
                      IF CSDVersion = <<>> THEN text ELSE Append(text, CSDVersion)], 0)
  /\ UNCHANGED <<native, others, history>>

-----------------------------------------------------------------------------
(* The callers, the system and the other processes (the last two external). *)

Begin(q) ==
  /\ pc = "idle" /\ handles <= MaxLost /\ (q = "RegGetMultiString" => native)
  /\ \E s \in [ToSet(Visits(q)) -> Contents(q)] :
       source' = s /\ past' = Held(q, s)
  /\ \E closed \in SUBSET ToSet(Visits(q)) :
       /\ q \in {"RegEnumValues", "RegGetMultiString"} => closed = {}
       /\ call' = Fresh(q, closed)
  /\ pc' = IF q \in OwnKey THEN "open" ELSE IF q \in ByValue THEN "size" ELSE "info"
  /\ UNCHANGED <<native, handles, writes, history>>

\* The caller has the result, or has caught the exception.
Finish ==
  /\ pc \in {"returned", "threw"} /\ pc' = "idle"
  /\ source' = NoSource /\ past' = {} /\ writes' = 0 /\ disturbed' = FALSE
  /\ call' = Fresh("RegEnumValues", {})
  /\ UNCHANGED <<native, handles, broken>>

\* A call of the system fails for a reason of its own.
SystemFails ==
  /\ \/ /\ pc = "info" \/ (pc = "enum" /\ call.next < call.count)
        /\ Throw /\ UNCHANGED <<handles, call>>
     \/ Reading /\ ReadFails
  /\ disturbed' = TRUE
  /\ UNCHANGED <<native, others>>

\* An entry is added, changed or removed.
Written(s, entries) ==
  {InsertAt(s, i, e) : i \in 1 .. Len(s) + 1, e \in entries}
    \cup {ReplaceAt(s, i, e) : i \in DOMAIN s, e \in entries}
    \cup {RemoveAt(s, i) : i \in DOMAIN s}

OtherWrites ==
  /\ pc \notin Ended /\ writes < MaxWrites
  /\ \E p \in DOMAIN source : \E s \in Written(source[p], Entries(call.query)) :
       Possible(call.query, s) /\ source' = [source EXCEPT ![p] = s]
  /\ past' = past \cup Held(call.query, source')
  /\ disturbed' = TRUE /\ writes' = writes + 1
  /\ UNCHANGED <<native, handles, pc, call, broken>>

Init ==
  /\ native \in BOOLEAN
  /\ source = NoSource /\ past = {} /\ writes = 0
  /\ handles = 0 /\ pc = "idle" /\ call = Fresh("RegEnumValues", {})
  /\ broken = 0 /\ disturbed = FALSE

Next ==
  \/ \E q \in Query : Begin(q)
  \/ OpenKey \/ OpenFails \/ QueryInfo \/ EnumNext \/ EnumEnds
  \/ OpenSub \/ SubGone \/ AskSize \/ ReadString \/ ReadMultiString
  \/ CloseKey \/ GetWendousInfo
  \/ Finish \/ SystemFails \/ OtherWrites

Spec == Init /\ [][Next]_vars

-----------------------------------------------------------------------------
(* Properties. *)

TypeOK ==
  /\ native \in BOOLEAN /\ disturbed \in BOOLEAN
  /\ DOMAIN source \subseteq Key
  /\ \A p \in DOMAIN source : ToSet(source[p]) \subseteq Entries(call.query)
  /\ handles \in Nat /\ broken \in Nat /\ writes \in 0 .. MaxWrites
  /\ pc \in Ended \cup Holding \cup {"open"}
  /\ call \in Locals

\* Every handle that a query opens, in whichever of its functions, is closed
\* by the time it returns; a query that throws leaves open one, that of the
\* key it was reading, and none of the fallback's.
HandlesAccounted ==
  handles = broken + (IF HasKey THEN 1 ELSE 0) + (IF call.sub THEN 1 ELSE 0)

\* A value without the NUL that terminates it, and those of entries that have
\* one, in order: of the first i entries, for each i.
Text(data) == IF EndsIn(data, <<Nul>>) THEN Front(data) ELSE data
Texts(entries) ==
  LET texts[i \in 0 .. Len(entries)] ==
        IF i = 0 THEN <<>>
        ELSE IF entries[i].data = Null THEN texts[i - 1]
        ELSE Append(texts[i - 1], Text(entries[i].data))
  IN  texts

\* Strings, each with the NUL that terminates it.
Terminated(strings) ==
  LET terminated[i \in 0 .. Len(strings)] ==
        IF i = 0 THEN <<>> ELSE terminated[i - 1] \o strings[i] \o <<Nul>>
  IN  terminated[Len(strings)]

\* What each query should give of a source that stays as it is.
Only == source[Visits(call.query)[1]]
Stored(entry) ==
  IF entry.data = Null \/ call.closed # {} THEN <<>> ELSE Text(entry.data)
Complete ==
  CASE call.query = "DumpInfo" ->
         ToSet(call.result) =
           UNION {ToSet(NamesOf(source[p])) : p \in DOMAIN source \ call.closed}
    [] call.query = "GetInstalledAppList" -> call.result = Texts(Only)[Len(Only)]
    [] call.query = "GetWendousInfo" ->
         call.result = IF Stored(Only[1]) = <<>>
                       THEN <<Stored(Only[2]), Stored(Only[3]), Stored(Only[4])>>
                       ELSE <<Stored(Only[2]), Stored(Only[1])>>
    [] call.query = "RegGetMultiString" -> Terminated(call.result) = Front(Only[1].data)
    [] call.query = "RegEnumValues" -> call.result = Only

\* The stored value is as the API asks it to be: a string ends in a NUL, a
\* multi-string in two, and holds no empty string.
WellFormed(q, data) ==
  CASE q \in {"GetInstalledAppList", "GetWendousInfo"} -> native \/ EndsIn(data, <<Nul>>)
    [] q = "RegGetMultiString" ->
         /\ EndsIn(data, <<Nul, Nul>>) /\ data[1] # Nul
         /\ \A i \in 1 .. Len(data) - 2 : data[i] # Nul \/ data[i + 1] # Nul
    [] OTHER -> TRUE

\* Nobody disturbs the query, and it reads values that are stored as the API
\* asks, which matters to the XP fallback and to multi-strings.
Undisturbed ==
  /\ ~disturbed
  /\ \A p \in DOMAIN source : \A e \in ToSet(source[p]) :
       e.data = Null \/ WellFormed(call.query, e.data)

\* A query that nobody disturbs gives all there is, in order and once, with
\* every string whole, or throws because its key cannot be opened or the value
\* is missing, and never terminates the program.
UndisturbedComplete ==
  Undisturbed =>
    /\ pc # "terminated"
    /\ pc = "returned" => Complete
    /\ pc = "threw" => \/ call.query = "GetInstalledAppList" /\ Head(call.todo) \in call.closed
                       \/ call.query = "RegGetMultiString" /\ Here[1].data = Null

\* What stands between the NULs of a stored multi-string.
Pieces(data) ==
  LET between == {r \in (DOMAIN data) \X (DOMAIN data) :
                    /\ \A i \in r[1] .. r[2] : data[i] # Nul
                    /\ r[1] <= r[2]
                    /\ r[1] = 1 \/ data[r[1] - 1] = Nul
                    /\ r[2] = Len(data) \/ data[r[2] + 1] = Nul}
  IN  {SubSeq(data, r[1], r[2]) : r \in between}

\* What was held has this to offer: the strings as they are stored, where a
\* value of the version that is missing is an empty one.
Offers(q, held) ==
  CASE q = "GetInstalledAppList" -> {Text(data) : data \in held}
    [] q = "GetWendousInfo"      -> {Text(data) : data \in held} \cup {<<>>}
    [] q = "RegGetMultiString"   -> UNION {Pieces(data) : data \in held}
    [] OTHER                     -> held

\* The fallback gives a string that is stored without its NUL as it is.
Whole(q, data) ==
  q \in {"GetInstalledAppList", "GetWendousInfo"} /\ ~native => EndsIn(data, <<Nul>>)

\* Whatever others write between the question for a size and the reading,
\* every name or string of the result is one that was stored during the call,
\* of the length it has there: nothing is cut off at the size asked for, padded
\* to it, or put together from two values, nor a name with the type of another.
\* It says nothing of a call whose source had, on XP, a string without its NUL:
\* the code cuts off its last character.
NothingInvented ==
  (\A data \in past : Whole(call.query, data)) =>
    ToSet(call.result) \subseteq Offers(call.query, past)
=============================================================================
