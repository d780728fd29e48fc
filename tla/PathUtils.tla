----------------------------- MODULE PathUtils -----------------------------
(***************************************************************************)
(* The path and token functions of src/Linux/utils/utils.cpp and utils.hpp. *)
(* A string is a sequence of characters; std::string::npos is index 0.      *)
(***************************************************************************)
EXTENDS Naturals, SequencesExt

CONSTANTS
  SmallString,  \* capacity a std::string has at least (15 in libstdc++)
  DefaultSize,  \* the st_size symLnkPath takes for one below 1 (4096)
  MaxSize       \* the largest st_size it accepts (1 MiB)

ASSUME SizeAssumption ==
  {SmallString, DefaultSize, MaxSize} \subseteq Nat /\ DefaultSize \in 1 .. MaxSize

-----------------------------------------------------------------------------

Slash == "/"
Dot   == "."

\* find_last_of and find_last_not_of over the first n characters.
LastIn(s, n, chars) == Max({i \in 1 .. n : s[i] \in chars} \cup {0})
LastNotIn(s, n, chars) == Max({i \in 1 .. n : s[i] \notin chars} \cup {0})

Upto(s, n)   == SubSeq(s, 1, n)
From(s, n)   == SubSeq(s, n, Len(s))

\* The loop of tokenizeString at the end of str: the tokens that a delimiter
\* has ended, and the one that has begun.
Add(tokens, token, ignore_empty) ==
  IF token = <<>> /\ ignore_empty THEN tokens ELSE Append(tokens, token)

TokensIn(str, delimiters, ignore_empty) ==
  LET read[i \in 0 .. Len(str)] ==
        IF i = 0 THEN [ended |-> <<>>, begun |-> <<>>]
        ELSE IF str[i] \in delimiters
        THEN [ended |-> Add(read[i - 1].ended, read[i - 1].begun, ignore_empty),
              begun |-> <<>>]
        ELSE [read[i - 1] EXCEPT !.begun = Append(@, str[i])]
  IN  read[Len(str)]

-----------------------------------------------------------------------------
(* Mutants: what the checks of the properties replace parentPath,           *)
(* tokenizeString, hasToken and symLnkPath by.                              *)

\* The separators before the name are left in the parent.
parentKeepsSlash(path) ==
  Upto(path, LastIn(path, LastNotIn(path, Len(path), {Slash}), {Slash}))

\* The empty token after a delimiter at the end of the string is forgotten.
tokenizeEnded(str, delimiters, ignore_empty) ==
  LET tokens == TokensIn(str, delimiters, ignore_empty)
  IN  Add(tokens.ended, tokens.begun, TRUE)

\* Any stretch of the string is found.
hasStretch(str, delimiters, pattern) ==
  \E i \in 1 .. Len(str) : IsPrefix(pattern, From(str, i))

\* What readlink has written is taken whatever its length.
symLnkPathUnchecked(linkpath, lstat_size, target) ==
  LET st_size == IF lstat_size < 1 THEN DefaultSize ELSE lstat_size
      buffer  == Upto(target, Min({Len(target), Max({st_size, SmallString})}))
  IN  IF st_size > MaxSize \/ buffer = <<>> THEN <<>>
      ELSE IF Head(buffer) = Slash THEN buffer
      ELSE Upto(linkpath, LastIn(linkpath, Len(linkpath), {Slash}) - 1) \o <<Slash>> \o buffer

-----------------------------------------------------------------------------

\* Trailing separators, the name, and the separators before it are cut off;
\* once one search has found nothing, so do the following.
parentPath(path) ==
  LET name_end   == LastNotIn(path, Len(path), {Slash})
      separator  == LastIn(path, name_end, {Slash})
      parent_end == LastNotIn(path, separator, {Slash})
  IN  Upto(path, parent_end)

\* The stretches between delimiters, the last one ending with the string.
tokenizeString(str, delimiters, ignore_empty) ==
  LET tokens == TokensIn(str, delimiters, ignore_empty)
  IN  Add(tokens.ended, tokens.begun, ignore_empty)

filenameFromPath(filepath, include_extension) ==
  LET filename == Last(tokenizeString(filepath, {Slash}, FALSE))
      dot      == LastIn(filename, Len(filename), {Dot})
  IN  IF include_extension \/ dot = 0 THEN filename ELSE Upto(filename, dot - 1)

hasToken(str, delimiters, pattern) ==
  pattern \in ToSet(tokenizeString(str, delimiters, TRUE))

\* lstat_size is what lstat, or the caller, said of a link whose target is
\* target when readlink is called: readlink cuts it off at the capacity of the
\* buffer.  The empty string is the answer for every error.
symLnkPath(linkpath, lstat_size, target) ==
  LET st_size   == IF lstat_size < 1 THEN DefaultSize ELSE lstat_size
      capacity  == Max({st_size, SmallString})
      link_size == Min({Len(target), capacity})
      buffer    == Upto(target, link_size)
  IN  IF st_size > MaxSize \/ link_size = 0 \/ link_size > st_size THEN <<>>
      ELSE IF Head(buffer) = Slash THEN buffer
      ELSE parentPath(linkpath) \o <<Slash>> \o buffer
=============================================================================
