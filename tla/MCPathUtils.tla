---------------------------- MODULE MCPathUtils ----------------------------
(***************************************************************************)
(* The functions of PathUtils and NumberText against reference definitions, *)
(* on every string over a small alphabet, or every number: a state is one   *)
(* input, and a step makes one of the inputs larger.                        *)
(***************************************************************************)
EXTENDS Integers, PathUtils, NumberText

CONSTANTS
  Char,         \* the characters
  MaxString,    \* bound: the length of str
  MaxOther,     \* bound: the length of other, and the size
  MaxPrefix,    \* bound: the length of the prefix of a number
  MaxNumber, MaxAlign  \* bound: the numbers and the widths they are written in

ASSUME NumberAssumption == MaxNumber \in 0 .. MaxUInt /\ {MaxPrefix, MaxAlign} \subseteq Nat

VARIABLES
  str,    \* a path, a text, or the prefix of a number
  other,  \* a token or the target of a link
  size,   \* the size lstat gave
  number  \* a number: 0 while an input that is not its prefix is in use

vars == <<str, other, size, number>>

Init == str = <<>> /\ other = <<>> /\ size = 0 /\ number = 0

GrowString ==
  /\ Len(str) < MaxString /\ number = 0
  /\ \E c \in Char : str' = Append(str, c)
  /\ UNCHANGED <<other, size, number>>

GrowOther ==
  /\ Len(other) < MaxOther /\ number = 0
  /\ \E c \in Char : other' = Append(other, c)
  /\ UNCHANGED <<str, size, number>>

GrowSize ==
  /\ size < MaxOther /\ number = 0
  /\ size' = size + 1
  /\ UNCHANGED <<str, other, number>>

GrowNumber ==
  /\ number < MaxNumber
  /\ Len(str) <= MaxPrefix /\ other = <<>> /\ size = 0
  /\ number' = number + 1
  /\ UNCHANGED <<str, other, size>>

Next == GrowString \/ GrowOther \/ GrowSize \/ GrowNumber

Spec == Init /\ [][Next]_vars

-----------------------------------------------------------------------------

IsSlashes(s) == \A i \in DOMAIN s : s[i] = Slash

\* The tokens, each after a separator.
Joined(tokens) ==
  LET joined[k \in 0 .. Len(tokens)] ==
        IF k = 0 THEN <<>> ELSE joined[k - 1] \o <<Slash>> \o tokens[k]
  IN  joined[Len(tokens)]

\* Of a string with a delimiter tokenizeString loses nothing: the tokens joined
\* by the delimiter are the string, whatever stands at its ends, and no token
\* holds a delimiter.  (The comment at utils.hpp:59 promises no token at all for
\* a string without one; the code gives one.)
TokensJoin ==
  Slash \in ToSet(str) =>
    LET tokens == tokenizeString(str, {Slash}, FALSE)
    IN  /\ <<Slash>> \o str = Joined(tokens)
        /\ \A t \in ToSet(tokens) : Slash \notin ToSet(t)

\* hasToken finds the non-empty stretches that delimiters or the ends of the
\* string enclose, and no others.
TokenIsEnclosed ==
  LET padded == <<Slash>> \o str \o <<Slash>>
  IN  hasToken(str, {Slash, Dot}, other) <=>
        /\ other # <<>> /\ ToSet(other) \cap {Slash, Dot} = {}
        /\ \E i \in 1 .. Len(padded) - Len(other) - 1 :
             /\ padded[i] \in {Slash, Dot}
             /\ SubSeq(padded, i + 1, i + Len(other)) = other
             /\ padded[i + Len(other) + 1] \in {Slash, Dot}

\* parentPath and filenameFromPath take a path apart: without its trailing
\* separators it is the parent, separators and the name, and the parent does
\* not end in one.  The extension that filenameFromPath removes from the name
\* is the last dot and what follows it.
ParentAndName ==
  LET path == Upto(str, LastNotIn(str, Len(str), {Slash}))
      parent == parentPath(str)
      name == filenameFromPath(path, TRUE)
      stem == filenameFromPath(path, FALSE)
      between == SubSeq(path, Len(parent) + 1, Len(path) - Len(name))
      extension == SubSeq(name, Len(stem) + 1, Len(name))
  IN  /\ parent = parentPath(path)
      /\ path = parent \o between \o name
      /\ IsSlashes(between)
      /\ parent # <<>> => between # <<>> /\ Last(parent) # Slash
      /\ name = stem \o extension
      /\ IF Dot \in ToSet(name)
         THEN Head(extension) = Dot /\ Dot \notin ToSet(Tail(extension))
         ELSE extension = <<>>

\* A link whose size lstat knows, or does not know (0), resolves to its target,
\* seen from the directory the link is in, if it is not too large; that it has
\* grown since then is noticed if the buffer can hold more than was asked for.
\* For a link path with a directory, no separators at its end, and no double
\* ones before its name.
LinkResolves ==
  LET slash == LastIn(str, Len(str), {Slash})
      answer == symLnkPath(str, size, other)
  IN  slash > 0 /\ slash < Len(str) /\ (slash > 1 => str[slash - 1] # Slash) /\ other # <<>> =>
        /\ (size = Len(other) /\ size <= MaxSize) \/ (size = 0 /\ Len(other) <= DefaultSize) =>
             answer = IF Head(other) = Slash THEN other ELSE Upto(str, slash) \o other
        /\ size > MaxSize \/ (size \in 1 .. SmallString - 1 /\ size < Len(other)) =>
             answer = <<>>

\* A number that is written after a prefix (str) is read back from what follows
\* the prefix, in every base and width, and with spaces or zeros before it; a
\* uint8_t is what is left of it modulo 256.  In a base that setbase does not
\* know, zeros would make the number octal.
RoundTrip ==
  \A base \in {2, 8, 10, 16}, align \in -1 .. MaxAlign, fill \in {Space, "0"} :
    other = <<>> /\ size = 0 /\ (base # 2 \/ fill = Space \/ align < 1) =>
      LET whole == numberToString(number, str, base, align, fill)
          text  == From(whole, Len(str) + 1)
          text8 == numberToString8(number, <<>>, base, align, fill)
      IN  /\ IsPrefix(str, whole) /\ (align > 0 => Len(text) >= align)
          /\ stringToNumber(text, base) = {number}
          /\ stringToNumber8(text, base) = {number % Bytes}
          /\ stringToNumber8(text8, base) = {number % Bytes}
=============================================================================
