-------------------------- MODULE PathUtilsProofs --------------------------
(***************************************************************************)
(* The path and token functions agree with their reference definitions, for *)
(* texts of any length over any characters, and a number of any size is read *)
(* back as it was written.                                                 *)
(***************************************************************************)
EXTENDS MCPathUtils, NumberLemmas, SequenceTheorems

-----------------------------------------------------------------------------
(* The inputs. *)

Inputs == str \in Seq(Char) /\ other \in Seq(Char) /\ size \in Nat /\ number \in 0 .. MaxNumber

THEOREM InputsHold == Spec => []Inputs
<1>1. Init => Inputs
  BY NumberAssumption DEF Init, Inputs
<1>2. Inputs /\ [Next]_vars => Inputs'
  <2> SUFFICES ASSUME Inputs, [Next]_vars PROVE Inputs'
    OBVIOUS
  <2>1. CASE GrowString
    BY <2>1 DEF Inputs, GrowString
  <2>2. CASE GrowOther
    BY <2>2 DEF Inputs, GrowOther
  <2>3. CASE GrowSize
    BY <2>3 DEF Inputs, GrowSize
  <2>4. CASE GrowNumber
    <3>1. number + 1 \in 0 .. MaxNumber
      BY <2>4, NumberAssumption DEF Inputs, GrowNumber
    <3> QED
      BY <2>4, <3>1 DEF Inputs, GrowNumber
  <2>5. CASE UNCHANGED vars
    BY <2>5 DEF Inputs, vars
  <2> QED
    BY <2>1, <2>2, <2>3, <2>4, <2>5 DEF Next
<1> QED
  BY <1>1, <1>2, PTL DEF Spec

-----------------------------------------------------------------------------
(* Parts of a text, and searches in it. *)

LEMMA PartOf ==
  ASSUME NEW S, NEW s \in Seq(S), NEW i \in Nat \ {0}, NEW j \in 0 .. Len(s), i <= j + 1
  PROVE  /\ SubSeq(s, i, j) \in Seq(S) /\ Len(SubSeq(s, i, j)) = j - i + 1
         /\ \A k \in 1 .. j - i + 1 : SubSeq(s, i, j)[k] = s[i + k - 1]
<1>1. CASE i <= j
  <2>1. PICK n \in Nat : n = Len(s)
    OBVIOUS
  <2>2. \A k \in i .. j : s[k] \in S
    BY <2>1
  <2> QED
    BY <1>1, <2>2, SubSeqProperties
<1>2. CASE i = j + 1
  <2>1. SubSeq(s, i, j) = <<>>
    BY <1>2
  <2>2. <<>> \in Seq(S) /\ Len(<<>>) = 0 /\ j - i + 1 = 0
    BY <1>2
  <2> QED
    BY <2>1, <2>2
<1> QED
  BY <1>1, <1>2

LEMMA FirstOf ==
  ASSUME NEW S, NEW s \in Seq(S)
  PROVE  (s = <<>> <=> Len(s) = 0) /\ (s # <<>> => Head(s) = s[1])
OBVIOUS

\* What follows the first h characters, up to the i-th.
LEMMA StretchText ==
  ASSUME NEW S, NEW s \in Seq(S), NEW i \in 0 .. Len(s), NEW h \in 0 .. i
  PROVE  /\ SubSeq(s, h + 1, i) \in Seq(S) /\ Len(SubSeq(s, h + 1, i)) = i - h
         /\ \A k \in 1 .. i - h : SubSeq(s, h + 1, i)[k] = s[h + k]
<1>1. h + 1 \in Nat \ {0} /\ h + 1 <= i + 1
  OBVIOUS
<1>2. PICK u : u = SubSeq(s, h + 1, i)
  OBVIOUS
<1>3. /\ u \in Seq(S) /\ Len(u) = i - (h + 1) + 1
      /\ \A k \in 1 .. i - (h + 1) + 1 : u[k] = s[h + 1 + k - 1]
  BY <1>1, <1>2, PartOf
<1>4. i - (h + 1) + 1 = i - h /\ \A k \in 1 .. i - h : h + 1 + k - 1 = h + k
  OBVIOUS
<1>5. \A k \in 1 .. i - h : u[k] = s[h + k]
  BY <1>3, <1>4
<1> QED
  BY <1>2, <1>3, <1>4, <1>5

\* Two texts of one length with the same characters are the same.
LEMMA SameText ==
  ASSUME NEW S, NEW s \in Seq(S), NEW t \in Seq(S), NEW n, Len(s) = n, Len(t) = n,
         \A k \in 1 .. n : s[k] = t[k]
  PROVE  s = t
OBVIOUS

LEMMA UptoText ==
  ASSUME NEW S, NEW s \in Seq(S), NEW n \in 0 .. Len(s)
  PROVE  /\ Upto(s, n) \in Seq(S) /\ Len(Upto(s, n)) = n
         /\ \A k \in 1 .. n : Upto(s, n)[k] = s[k]
<1>1. n \in Nat /\ 1 \in Nat \ {0} /\ 1 <= n + 1 /\ n - 1 + 1 = n
  OBVIOUS
<1>2. /\ SubSeq(s, 1, n) \in Seq(S) /\ Len(SubSeq(s, 1, n)) = n - 1 + 1
      /\ \A k \in 1 .. n - 1 + 1 : SubSeq(s, 1, n)[k] = s[1 + k - 1]
  BY <1>1, PartOf
<1> QED
  BY <1>1, <1>2 DEF Upto

\* find_last_of finds the last, or 0.
IsLast(m, n, T) == m \in 0 .. n /\ (m > 0 => m \in T) /\ \A i \in m + 1 .. n : i \notin T

LEMMA LastFound ==
  ASSUME NEW n \in Nat, NEW T \in SUBSET (1 .. n)
  PROVE  IsLast(Max(T \cup {0}), n, T)
<1>1. PICK U : U = T \cup {0}
  OBVIOUS
<1>2. U \in SUBSET (0 .. n) /\ U # {}
  BY <1>1
<1>3. Max(U) \in U /\ \A y \in U : y <= Max(U)
  BY <1>2, MaxFound
<1>4. PICK m \in 0 .. n : m = Max(U)
  BY <1>2, <1>3
<1>5. m > 0 => m \in T
  BY <1>1, <1>3, <1>4
<1>6. \A i \in m + 1 .. n : ~(i <= m)
  OBVIOUS
<1>7. \A i \in m + 1 .. n : i \notin T
  BY <1>1, <1>3, <1>4, <1>6
<1> QED
  BY <1>1, <1>4, <1>5, <1>7 DEF IsLast

LEMMA LastInFound ==
  ASSUME NEW s, NEW n \in Nat, NEW chars
  PROVE  /\ LastIn(s, n, chars) \in 0 .. n
         /\ LastIn(s, n, chars) > 0 => s[LastIn(s, n, chars)] \in chars
         /\ \A i \in LastIn(s, n, chars) + 1 .. n : s[i] \notin chars
<1>1. PICK T : T = {i \in 1 .. n : s[i] \in chars}
  OBVIOUS
<1>2. PICK m : m = LastIn(s, n, chars)
  OBVIOUS
<1>3. IsLast(m, n, T)
  BY <1>1, <1>2, LastFound DEF LastIn
<1> QED
  BY <1>1, <1>2, <1>3 DEF IsLast

LEMMA LastNotInFound ==
  ASSUME NEW s, NEW n \in Nat, NEW chars
  PROVE  /\ LastNotIn(s, n, chars) \in 0 .. n
         /\ LastNotIn(s, n, chars) > 0 => s[LastNotIn(s, n, chars)] \notin chars
         /\ \A i \in LastNotIn(s, n, chars) + 1 .. n : s[i] \in chars
<1>1. PICK T : T = {i \in 1 .. n : s[i] \notin chars}
  OBVIOUS
<1>2. PICK m : m = LastNotIn(s, n, chars)
  OBVIOUS
<1>3. IsLast(m, n, T)
  BY <1>1, <1>2, LastFound DEF LastNotIn
<1> QED
  BY <1>1, <1>2, <1>3 DEF IsLast

\* There is one last.
LEMMA LastInIs ==
  ASSUME NEW s, NEW n \in Nat, NEW chars, NEW m \in 0 .. n, m > 0 => s[m] \in chars,
         \A i \in m + 1 .. n : s[i] \notin chars
  PROVE  LastIn(s, n, chars) = m
<1>1. PICK l \in 0 .. n : /\ l = LastIn(s, n, chars) /\ (l > 0 => s[l] \in chars)
                          /\ \A i \in l + 1 .. n : s[i] \notin chars
  BY LastInFound
<1>2. l < m => m \in l + 1 .. n /\ m > 0
  OBVIOUS
<1>3. m < l => l \in m + 1 .. n /\ l > 0
  OBVIOUS
<1> QED
  BY <1>1, <1>2, <1>3

LEMMA LastNotInIs ==
  ASSUME NEW s, NEW n \in Nat, NEW chars, NEW m \in 0 .. n, m > 0 => s[m] \notin chars,
         \A i \in m + 1 .. n : s[i] \in chars
  PROVE  LastNotIn(s, n, chars) = m
<1>1. PICK l \in 0 .. n : /\ l = LastNotIn(s, n, chars) /\ (l > 0 => s[l] \notin chars)
                          /\ \A i \in l + 1 .. n : s[i] \in chars
  BY LastNotInFound
<1>2. l < m => m \in l + 1 .. n /\ m > 0
  OBVIOUS
<1>3. m < l => l \in m + 1 .. n /\ l > 0
  OBVIOUS
<1> QED
  BY <1>1, <1>2, <1>3

-----------------------------------------------------------------------------
(* Links. *)

\* The parent of a path that ends in a name, with one separator before it.
LEMMA ParentOfName ==
  ASSUME NEW S, NEW path \in Seq(S), NEW slash, slash = LastIn(path, Len(path), {Slash}),
         slash > 0, slash < Len(path), slash > 1 => path[slash - 1] # Slash
  PROVE  parentPath(path) = Upto(path, slash - 1) /\ slash \in 1 .. Len(path) /\ path[slash] = Slash
<1>1. PICK n \in Nat : n = Len(path)
  OBVIOUS
<1>2. slash \in 1 .. n /\ path[slash] \in {Slash} /\ \A i \in slash + 1 .. n : path[i] \notin {Slash}
  <2>1. /\ slash \in 0 .. n /\ (slash > 0 => path[slash] \in {Slash})
        /\ \A i \in slash + 1 .. n : path[i] \notin {Slash}
    BY <1>1, LastInFound
  <2>2. slash \in 1 .. n
    BY <2>1
  <2> QED
    BY <2>1, <2>2, Zenon
<1>3. path[slash] = Slash
  BY <1>2
<1>4. LastNotIn(path, n, {Slash}) = n
  <2>1. n \in slash + 1 .. n /\ n \in 0 .. n /\ \A i \in n + 1 .. n : FALSE
    BY <1>1, <1>2
  <2>2. path[n] \notin {Slash}
    BY <1>2, <2>1
  <2> QED
    BY <2>1, <2>2, LastNotInIs
<1>5. LastNotIn(path, slash, {Slash}) = slash - 1
  <2>1. slash \in Nat /\ slash - 1 \in 0 .. slash
    BY <1>2
  <2>2. \A i \in (slash - 1) + 1 .. slash : i = slash
    BY <2>1
  <2>3. \A i \in (slash - 1) + 1 .. slash : path[i] \in {Slash}
    BY <1>2, <2>2
  <2>4. slash - 1 > 0 => path[slash - 1] \notin {Slash}
    BY <2>1
  <2> QED
    BY <2>1, <2>3, <2>4, LastNotInIs
<1>6. parentPath(path) = Upto(path, slash - 1)
  <2>1. LastIn(path, n, {Slash}) = slash
    BY <1>1
  <2> QED
    BY <1>1, <1>4, <1>5, <2>1 DEF parentPath
<1> QED
  BY <1>1, <1>2, <1>3, <1>6

\* A prefix is what is before its last character, and that.
LEMMA UptoGrows ==
  ASSUME NEW S, NEW s \in Seq(S), NEW n \in 1 .. Len(s)
  PROVE  Upto(s, n) = Append(Upto(s, n - 1), s[n]) /\ Upto(s, n) = Upto(s, n - 1) \o <<s[n]>>
<1>1. n \in 0 .. Len(s) /\ n - 1 \in 0 .. Len(s) /\ s[n] \in S
  OBVIOUS
<1>2. PICK t \in Seq(S) : t = Upto(s, n - 1)
  BY <1>1, UptoText
<1>3. Len(t) = n - 1 /\ \A k \in 1 .. n - 1 : t[k] = s[k]
  BY <1>1, <1>2, UptoText
<1>4. PICK u : u = Append(t, s[n])
  OBVIOUS
<1>5. u \in Seq(S) /\ Len(u) = n /\ \A k \in 1 .. n : u[k] = s[k]
  <2>1. /\ u \in Seq(S) /\ Len(u) = Len(t) + 1 /\ u[Len(t) + 1] = s[n]
        /\ \A k \in 1 .. Len(t) : u[k] = t[k]
    BY <1>1, <1>4, AppendProperties
  <2>2. \A k \in 1 .. n : k \in 1 .. n - 1 \/ k = n
    OBVIOUS
  <2> QED
    BY <1>3, <2>1, <2>2
<1>6. PICK v \in Seq(S) : v = Upto(s, n)
  BY <1>1, UptoText
<1>7. Len(v) = n /\ \A k \in 1 .. n : v[k] = s[k]
  BY <1>1, <1>6, UptoText
<1>8. u = v
  BY <1>5, <1>7, SameText
<1>9. t \o <<s[n]>> = Append(t, s[n])
  BY <1>1
<1> QED
  BY <1>2, <1>4, <1>6, <1>8, <1>9

LEMMA LargerSmaller ==
  ASSUME NEW i \in Nat, NEW j \in Nat
  PROVE  /\ Max({i, j}) = IF i < j THEN j ELSE i
         /\ Min({i, j}) = IF i < j THEN i ELSE j
<1>1. PICK T : T = {i, j}
  OBVIOUS
<1>2. \A x \in T : \A y \in T : (\A z \in T : x >= z) /\ (\A z \in T : y >= z) => x = y
  BY <1>1
<1>3. \A x \in T : \A y \in T : (\A z \in T : x <= z) /\ (\A z \in T : y <= z) => x = y
  BY <1>1
<1>4. PICK m : m = IF i < j THEN j ELSE i
  OBVIOUS
<1>5. m \in T /\ \A z \in T : m >= z
  BY <1>1, <1>4
<1>6. PICK l : l = IF i < j THEN i ELSE j
  OBVIOUS
<1>7. l \in T /\ \A z \in T : l <= z
  BY <1>1, <1>6
<1>8. Max(T) \in T /\ \A z \in T : Max(T) >= z
  BY <1>5 DEF Max
<1>9. Min(T) \in T /\ \A z \in T : Min(T) <= z
  BY <1>7 DEF Min
<1> QED
  BY <1>1, <1>2, <1>3, <1>4, <1>5, <1>6, <1>7, <1>8, <1>9

\* What symLnkPath makes of what readlink has written.
LEMMA LinkRead ==
  ASSUME NEW S, NEW target \in Seq(S), NEW lstat_size \in Nat, NEW linkpath, target # <<>>
  PROVE  /\ (lstat_size = Len(target) /\ lstat_size <= MaxSize)
              \/ (lstat_size = 0 /\ Len(target) <= DefaultSize) =>
              symLnkPath(linkpath, lstat_size, target)
                = IF Head(target) = Slash THEN target
                  ELSE parentPath(linkpath) \o <<Slash>> \o target
         /\ lstat_size > MaxSize
              \/ (lstat_size \in 1 .. SmallString - 1 /\ lstat_size < Len(target)) =>
              symLnkPath(linkpath, lstat_size, target) = <<>>
<1>1. PICK n \in Nat : n = Len(target)
  OBVIOUS
<1>2. n > 0
  BY <1>1
<1>3. /\ SmallString \in Nat /\ DefaultSize \in Nat /\ MaxSize \in Nat
      /\ 0 < DefaultSize /\ DefaultSize <= MaxSize
  BY SizeAssumption
<1>4. PICK st_size \in Nat : st_size = IF lstat_size < 1 THEN DefaultSize ELSE lstat_size
  BY <1>3
<1>5. PICK capacity \in Nat : /\ capacity = Max({st_size, SmallString})
                              /\ capacity = IF st_size < SmallString THEN SmallString ELSE st_size
  BY <1>3, LargerSmaller
<1>6. PICK link_size \in Nat : /\ link_size = Min({n, capacity})
                               /\ link_size = IF n < capacity THEN n ELSE capacity
  BY LargerSmaller
<1>7. PICK buffer : buffer = Upto(target, link_size)
  OBVIOUS
<1>8. symLnkPath(linkpath, lstat_size, target)
        = IF st_size > MaxSize \/ link_size = 0 \/ link_size > st_size THEN <<>>
          ELSE IF Head(buffer) = Slash THEN buffer
          ELSE parentPath(linkpath) \o <<Slash>> \o buffer
  BY <1>1, <1>4, <1>5, <1>6, <1>7 DEF symLnkPath
<1>9. ASSUME \/ lstat_size = n /\ lstat_size <= MaxSize
             \/ lstat_size = 0 /\ n <= DefaultSize
      PROVE  /\ ~(st_size > MaxSize \/ link_size = 0 \/ link_size > st_size)
             /\ buffer = target
  <2>1. st_size <= MaxSize /\ n <= st_size
    BY <1>2, <1>3, <1>4, <1>9
  <2>2. n <= capacity
    BY <1>3, <1>5, <2>1
  <2>3. link_size = n
    BY <1>6, <2>2
  <2>4. buffer = target
    BY <1>1, <1>7, <2>3 DEF Upto
  <2>5. ~(st_size > MaxSize) /\ link_size # 0 /\ ~(link_size > st_size)
    BY <1>2, <1>3, <2>1, <2>3
  <2> QED
    BY <2>4, <2>5, Zenon
<1>10. ASSUME \/ lstat_size > MaxSize
              \/ lstat_size \in 1 .. SmallString - 1 /\ lstat_size < n
       PROVE  st_size > MaxSize \/ link_size > st_size
  <2>1. CASE lstat_size > MaxSize
    BY <1>3, <1>4, <2>1
  <2>2. CASE lstat_size \in 1 .. SmallString - 1 /\ lstat_size < n
    <3>1. st_size = lstat_size /\ st_size < SmallString
      BY <1>3, <1>4, <2>2
    <3>2. capacity > st_size
      BY <1>3, <1>5, <3>1
    <3> QED
      BY <1>6, <2>2, <3>1, <3>2
  <2> QED
    BY <1>10, <2>1, <2>2
<1> QED
  BY <1>1, <1>8, <1>9, <1>10

LEMMA LinksHold == Inputs => LinkResolves
<1> SUFFICES ASSUME Inputs PROVE LinkResolves
  OBVIOUS
<1>1. PICK slash : slash = LastIn(str, Len(str), {Slash})
  OBVIOUS
<1>2. PICK answer : answer = symLnkPath(str, size, other)
  OBVIOUS
<1> SUFFICES ASSUME slash > 0, slash < Len(str), slash > 1 => str[slash - 1] # Slash,
                    other # <<>>
             PROVE  /\ (size = Len(other) /\ size <= MaxSize)
                         \/ (size = 0 /\ Len(other) <= DefaultSize) =>
                         answer = IF Head(other) = Slash THEN other ELSE Upto(str, slash) \o other
                    /\ size > MaxSize \/ (size \in 1 .. SmallString - 1 /\ size < Len(other)) =>
                         answer = <<>>
  BY <1>1, <1>2 DEF LinkResolves
<1>3. str \in Seq(Char) /\ other \in Seq(Char) /\ size \in Nat
  BY DEF Inputs
<1>4. /\ parentPath(str) = Upto(str, slash - 1)
      /\ slash \in 1 .. Len(str) /\ str[slash] = Slash
  BY <1>1, <1>3, ParentOfName
<1>5. Upto(str, slash) = parentPath(str) \o <<Slash>>
  BY <1>3, <1>4, UptoGrows
<1> QED
  BY <1>2, <1>3, <1>5, LinkRead

\* A link resolves to its target seen from the directory it is in, however
\* long its path and its target are, and a target that has grown into the spare
\* room of the buffer is not cut off (utils.cpp:241).
THEOREM LinkAlwaysResolves == Spec => []LinkResolves
BY InputsHold, LinksHold, PTL

-----------------------------------------------------------------------------
(* The loop of tokenizeString. *)

\* ended[i] and begun[i] are what it has after the first i characters.
Reads(ended, begun, S, s, delimiters, ignore_empty) ==
  /\ ended \in [0 .. Len(s) -> Seq(Seq(S))] /\ begun \in [0 .. Len(s) -> Seq(S)]
  /\ ended[0] = <<>> /\ begun[0] = <<>>
  /\ TokensIn(s, delimiters, ignore_empty).ended = ended[Len(s)]
  /\ TokensIn(s, delimiters, ignore_empty).begun = begun[Len(s)]
  /\ \A i \in 1 .. Len(s) :
       IF s[i] \in delimiters
       THEN ended[i] = Add(ended[i - 1], begun[i - 1], ignore_empty) /\ begun[i] = <<>>
       ELSE ended[i] = ended[i - 1] /\ begun[i] = Append(begun[i - 1], s[i])

LEMMA AddTokens ==
  ASSUME NEW S, NEW tokens \in Seq(Seq(S)), NEW token \in Seq(S), NEW ignore_empty
  PROVE  Add(tokens, token, ignore_empty) \in Seq(Seq(S))
BY AppendProperties DEF Add

LEMMA ReadsOneByOne ==
  ASSUME NEW S, NEW s \in Seq(S), NEW delimiters, NEW ignore_empty
  PROVE  \E ended, begun : Reads(ended, begun, S, s, delimiters, ignore_empty)
<1> PICK n \in Nat : n = Len(s)
  OBVIOUS
<1> DEFINE Next1(r, c) ==
      IF c \in delimiters
      THEN [ended |-> Add(r.ended, r.begun, ignore_empty), begun |-> <<>>]
      ELSE [r EXCEPT !.begun = Append(@, c)]
<1>1. PICK A : A = [ended : Seq(Seq(S)), begun : Seq(S)]
  OBVIOUS
<1>2. PICK a : a = [ended |-> <<>>, begun |-> <<>>]
  OBVIOUS
<1>3. a \in A
  <2>1. <<>> \in Seq(S) /\ <<>> \in Seq(Seq(S))
    OBVIOUS
  <2> QED
    BY <1>1, <1>2, <2>1
<1>4. \A r \in A : \A c \in S : Next1(r, c) \in A
  <2> SUFFICES ASSUME NEW r \in A, NEW c \in S PROVE Next1(r, c) \in A
    OBVIOUS
  <2>1. r.ended \in Seq(Seq(S)) /\ r.begun \in Seq(S) /\ <<>> \in Seq(S)
    BY <1>1
  <2>2. Add(r.ended, r.begun, ignore_empty) \in Seq(Seq(S))
    BY <2>1, AddTokens
  <2>3. Append(r.begun, c) \in Seq(S)
    BY <2>1, AppendProperties
  <2> QED
    BY <1>1, <2>1, <2>2, <2>3
<1> HIDE DEF Next1
<1>5. \A i \in 1 .. n : s[i] \in S
  OBVIOUS
<1>6. PICK step : step = [i \in 1 .. n |-> [r \in A |-> Next1(r, s[i])]]
  OBVIOUS
<1>7. Steps(step, n, A)
  BY <1>4, <1>5, <1>6 DEF Steps
<1>8. PICK f : Iterates(f, a, step, n, A)
  BY <1>3, <1>7, Recursion
<1>9. f \in [0 .. n -> A] /\ f[0] = a
  BY <1>8 DEF Iterates
<1>10. \A i \in 1 .. n : f[i] = Next1(f[i - 1], s[i])
  <2> SUFFICES ASSUME NEW i \in 1 .. n PROVE f[i] = Next1(f[i - 1], s[i])
    OBVIOUS
  <2>1. f[i - 1] \in A
    BY <1>9
  <2>2. f[i] = step[i][f[i - 1]]
    BY <1>8 DEF Iterates
  <2> QED
    BY <1>6, <2>1, <2>2
<1> DEFINE Read(g) ==
      g = [i \in 0 .. Len(s) |-> IF i = 0 THEN a ELSE Next1(g[i - 1], s[i])]
<1>11. Read(f)
  <2>1. \A i \in 0 .. n : i # 0 => i \in 1 .. n
    OBVIOUS
  <2> QED
    BY <1>9, <1>10, <2>1
<1>12. TokensIn(s, delimiters, ignore_empty) = (CHOOSE g : Read(g))[Len(s)]
  BY <1>2 DEF TokensIn, Next1
<1>13. PICK h : Read(h) /\ TokensIn(s, delimiters, ignore_empty) = h[n]
  <2> HIDE DEF Read
  <2> QED
    BY <1>11, <1>12
<1>14. h[0] = a /\ \A i \in 1 .. n : h[i] = Next1(h[i - 1], s[i])
  <2>1. \A i \in 1 .. n : i \in 0 .. Len(s) /\ i # 0
    OBVIOUS
  <2> QED
    BY <1>13, <2>1
<1>15. h[n] = f[n]
  <2>1. PICK T : T = {i \in 0 .. n : h[i] = f[i]}
    OBVIOUS
  <2>2. 0 \in T /\ \A i \in 1 .. n : i - 1 \in T => i \in T
    BY <1>9, <1>10, <1>14, <2>1
  <2>3. \A i \in 0 .. n : i \in T
    BY <2>2, Induction
  <2> QED
    BY <2>1, <2>3
<1>16. PICK ended : ended = [i \in 0 .. n |-> f[i].ended]
  OBVIOUS
<1>17. PICK begun : begun = [i \in 0 .. n |-> f[i].begun]
  OBVIOUS
<1>18. /\ ended \in [0 .. n -> Seq(Seq(S))] /\ begun \in [0 .. n -> Seq(S)]
       /\ ended[0] = <<>> /\ begun[0] = <<>>
  <2>1. \A i \in 0 .. n : f[i].ended \in Seq(Seq(S)) /\ f[i].begun \in Seq(S)
    BY <1>1, <1>9
  <2> QED
    BY <1>2, <1>9, <1>16, <1>17, <2>1
<1>19. /\ TokensIn(s, delimiters, ignore_empty).ended = ended[n]
       /\ TokensIn(s, delimiters, ignore_empty).begun = begun[n]
  BY <1>13, <1>15, <1>16, <1>17
<1>20. ASSUME NEW i \in 1 .. n
       PROVE  IF s[i] \in delimiters
              THEN ended[i] = Add(ended[i - 1], begun[i - 1], ignore_empty) /\ begun[i] = <<>>
              ELSE ended[i] = ended[i - 1] /\ begun[i] = Append(begun[i - 1], s[i])
  <2>1. PICK r \in A : r = f[i - 1]
    BY <1>9
  <2>2. /\ ended[i - 1] = r.ended /\ begun[i - 1] = r.begun
        /\ ended[i] = f[i].ended /\ begun[i] = f[i].begun
    BY <1>16, <1>17, <2>1
  <2>3. f[i] = Next1(r, s[i])
    BY <1>10, <2>1
  <2>4. CASE s[i] \in delimiters
    BY <2>2, <2>3, <2>4 DEF Next1
  <2>5. CASE s[i] \notin delimiters
    <3>1. f[i].ended = r.ended /\ f[i].begun = Append(r.begun, s[i])
      BY <1>1, <2>3, <2>5 DEF Next1
    <3> QED
      BY <2>2, <2>5, <3>1
  <2> QED
    BY <2>4, <2>5
<1>21. /\ ended \in [0 .. Len(s) -> Seq(Seq(S))] /\ begun \in [0 .. Len(s) -> Seq(S)]
       /\ ended[0] = <<>> /\ begun[0] = <<>>
  BY <1>18
<1>22. /\ TokensIn(s, delimiters, ignore_empty).ended = ended[Len(s)]
       /\ TokensIn(s, delimiters, ignore_empty).begun = begun[Len(s)]
  BY <1>19
<1>23. \A i \in 1 .. Len(s) :
         IF s[i] \in delimiters
         THEN ended[i] = Add(ended[i - 1], begun[i - 1], ignore_empty) /\ begun[i] = <<>>
         ELSE ended[i] = ended[i - 1] /\ begun[i] = Append(begun[i - 1], s[i])
  BY <1>20
<1>24. Reads(ended, begun, S, s, delimiters, ignore_empty)
  BY <1>21, <1>22, <1>23 DEF Reads
<1> QED
  BY <1>24

\* The token that has begun is what follows the last delimiter.
LEMMA BegunIs ==
  ASSUME NEW S, NEW s \in Seq(S), NEW delimiters, NEW ignore_empty, NEW ended, NEW begun,
         Reads(ended, begun, S, s, delimiters, ignore_empty)
  PROVE  \A i \in 0 .. Len(s) : begun[i] = SubSeq(s, LastIn(s, i, delimiters) + 1, i)
<1> PICK n \in Nat : n = Len(s)
  OBVIOUS
<1>1. /\ begun \in [0 .. n -> Seq(S)] /\ begun[0] = <<>>
      /\ \A i \in 1 .. n : begun[i] = IF s[i] \in delimiters THEN <<>>
                                      ELSE Append(begun[i - 1], s[i])
  BY DEF Reads
<1> DEFINE Part(i) == begun[i] = SubSeq(s, LastIn(s, i, delimiters) + 1, i)
<1>2. Part(0)
  <2>1. LastIn(s, 0, delimiters) = 0
    BY LastInFound
  <2>2. SubSeq(s, 0 + 1, 0) = <<>>
    OBVIOUS
  <2> QED
    BY <1>1, <2>1, <2>2
<1>3. ASSUME NEW i \in 1 .. n, Part(i - 1) PROVE Part(i)
  <2>1. CASE s[i] \in delimiters
    <3>1. i \in Nat /\ i \in 0 .. i /\ \A j \in i + 1 .. i : FALSE
      OBVIOUS
    <3>2. LastIn(s, i, delimiters) = i
      BY <2>1, <3>1, LastInIs
    <3>3. SubSeq(s, i + 1, i) = <<>>
      OBVIOUS
    <3> QED
      BY <1>1, <2>1, <3>2, <3>3
  <2>2. CASE s[i] \notin delimiters
    <3>1. PICK l : l = LastIn(s, i - 1, delimiters)
      OBVIOUS
    <3>2. i - 1 \in Nat /\ i \in Nat
      OBVIOUS
    <3>3. /\ l \in 0 .. i - 1 /\ (l > 0 => s[l] \in delimiters)
          /\ \A j \in l + 1 .. i - 1 : s[j] \notin delimiters
      BY <3>1, <3>2, LastInFound
    <3>4. l \in 0 .. i /\ \A j \in l + 1 .. i : j \in l + 1 .. i - 1 \/ j = i
      BY <3>3
    <3>5. \A j \in l + 1 .. i : s[j] \notin delimiters
      BY <2>2, <3>3, <3>4
    <3>6. LastIn(s, i, delimiters) = l
      BY <3>2, <3>3, <3>4, <3>5, LastInIs
    <3>7. PICK t : t = SubSeq(s, l + 1, i - 1)
      OBVIOUS
    <3>8. t \in Seq(S) /\ Len(t) = i - 1 - l /\ \A k \in 1 .. i - 1 - l : t[k] = s[l + k]
      <4>1. i - 1 \in 0 .. Len(s) /\ l \in 0 .. i - 1
        BY <3>3
      <4> QED
        BY <3>7, <4>1, StretchText
    <3>9. PICK u : u = Append(t, s[i])
      OBVIOUS
    <3>10. u \in Seq(S) /\ Len(u) = i - l /\ \A k \in 1 .. i - l : u[k] = s[l + k]
      <4>1. s[i] \in S
        OBVIOUS
      <4>2. /\ u \in Seq(S) /\ Len(u) = Len(t) + 1 /\ u[Len(t) + 1] = s[i]
            /\ \A k \in 1 .. Len(t) : u[k] = t[k]
        BY <3>8, <3>9, <4>1, AppendProperties
      <4>3. \A k \in 1 .. i - l : k \in 1 .. i - 1 - l \/ k = i - l
        BY <3>3
      <4>4. i - l = Len(t) + 1 /\ l + (i - l) = i
        BY <3>3, <3>8
      <4> QED
        BY <3>3, <3>8, <4>2, <4>3, <4>4
    <3>11. PICK v : v = SubSeq(s, l + 1, i)
      OBVIOUS
    <3>12. v \in Seq(S) /\ Len(v) = i - l /\ \A k \in 1 .. i - l : v[k] = s[l + k]
      <4>1. i \in 0 .. Len(s) /\ l \in 0 .. i
        BY <3>3
      <4> QED
        BY <3>11, <4>1, StretchText
    <3>13. u = v
      BY <3>10, <3>12, SameText
    <3> QED
      BY <1>1, <1>3, <2>2, <3>1, <3>6, <3>7, <3>9, <3>11, <3>13
  <2> QED
    BY <2>1, <2>2
<1> HIDE DEF Part
<1>4. PICK T : T = {i \in 0 .. n : Part(i)}
  OBVIOUS
<1>5. 0 \in T /\ \A i \in 1 .. n : i - 1 \in T => i \in T
  BY <1>2, <1>3, <1>4
<1>6. \A i \in 0 .. n : i \in T
  BY <1>5, Induction
<1>7. \A i \in 0 .. n : Part(i)
  BY <1>4, <1>6
<1> QED
  BY <1>7 DEF Part

-----------------------------------------------------------------------------
(* The parent and the name. *)

\* A search looks at nothing else.
LEMMA SameSearch ==
  ASSUME NEW s, NEW t, NEW n \in Nat, NEW chars, \A k \in 1 .. n : s[k] = t[k]
  PROVE  LastIn(s, n, chars) = LastIn(t, n, chars) /\ LastNotIn(s, n, chars) = LastNotIn(t, n, chars)
<1>1. \A m \in 0 .. n : m > 0 => m \in 1 .. n
  OBVIOUS
<1>2. \A m \in 0 .. n : \A k \in m + 1 .. n : k \in 1 .. n
  OBVIOUS
<1>3. LastIn(s, n, chars) = LastIn(t, n, chars)
  <2>1. PICK m \in 0 .. n : /\ m = LastIn(t, n, chars) /\ (m > 0 => t[m] \in chars)
                           /\ \A k \in m + 1 .. n : t[k] \notin chars
    BY LastInFound
  <2>2. (m > 0 => s[m] \in chars) /\ \A k \in m + 1 .. n : s[k] \notin chars
    BY <1>1, <1>2, <2>1
  <2> QED
    BY <2>1, <2>2, LastInIs
<1>4. LastNotIn(s, n, chars) = LastNotIn(t, n, chars)
  <2>1. PICK m \in 0 .. n : /\ m = LastNotIn(t, n, chars) /\ (m > 0 => t[m] \notin chars)
                           /\ \A k \in m + 1 .. n : t[k] \in chars
    BY LastNotInFound
  <2>2. (m > 0 => s[m] \notin chars) /\ \A k \in m + 1 .. n : s[k] \in chars
    BY <1>1, <1>2, <2>1
  <2> QED
    BY <2>1, <2>2, LastNotInIs
<1> QED
  BY <1>3, <1>4

\* A stretch and what follows it are a longer stretch.
LEMMA PartsJoin ==
  ASSUME NEW S, NEW s \in Seq(S), NEW i \in 0 .. Len(s), NEW h \in 0 .. i
  PROVE  Upto(s, h) \o SubSeq(s, h + 1, i) = Upto(s, i)
<1>1. PICK t \in Seq(S) : t = Upto(s, h) /\ Len(t) = h /\ \A k \in 1 .. h : t[k] = s[k]
  <2>1. h \in 0 .. Len(s)
    OBVIOUS
  <2> QED
    BY <2>1, UptoText
<1>2. PICK u : u = SubSeq(s, h + 1, i)
  OBVIOUS
<1>3. u \in Seq(S) /\ Len(u) = i - h /\ \A k \in 1 .. i - h : u[k] = s[h + k]
  BY <1>2, StretchText
<1>4. PICK v : v = t \o u
  OBVIOUS
<1>5. v \in Seq(S) /\ Len(v) = i /\ \A k \in 1 .. i : v[k] = s[k]
  <2>1. /\ v \in Seq(S) /\ Len(v) = Len(t) + Len(u)
        /\ \A k \in 1 .. Len(t) + Len(u) : v[k] = IF k <= Len(t) THEN t[k] ELSE u[k - Len(t)]
    BY <1>1, <1>3, <1>4, ConcatProperties
  <2>2. Len(t) + Len(u) = i
    BY <1>1, <1>3
  <2>3. ASSUME NEW k \in 1 .. i, k <= h PROVE v[k] = s[k]
    BY <1>1, <2>1, <2>2, <2>3
  <2>4. ASSUME NEW k \in 1 .. i, ~(k <= h) PROVE v[k] = s[k]
    <3>1. k - h \in 1 .. i - h /\ h + (k - h) = k
      BY <2>4
    <3> QED
      BY <1>1, <1>3, <2>1, <2>2, <2>4, <3>1
  <2> QED
    BY <2>1, <2>2, <2>3, <2>4
<1>6. Upto(s, i) \in Seq(S) /\ Len(Upto(s, i)) = i /\ \A k \in 1 .. i : Upto(s, i)[k] = s[k]
  BY UptoText
<1>7. v = Upto(s, i)
  BY <1>5, <1>6, SameText
<1> QED
  BY <1>1, <1>2, <1>4, <1>7

\* The name is what follows the last separator.
LEMMA NameIs ==
  ASSUME NEW S, NEW path \in Seq(S), NEW name, name = filenameFromPath(path, TRUE)
  PROVE  /\ name = SubSeq(path, LastIn(path, Len(path), {Slash}) + 1, Len(path))
         /\ filenameFromPath(path, FALSE)
              = IF LastIn(name, Len(name), {Dot}) = 0 THEN name
                ELSE Upto(name, LastIn(name, Len(name), {Dot}) - 1)
<1>15. PICK ignore_empty : ignore_empty = FALSE
  OBVIOUS
<1>16. PICK delimiters : delimiters = {Slash}
  OBVIOUS
<1>1. PICK ended, begun : Reads(ended, begun, S, path, delimiters, ignore_empty)
  BY ReadsOneByOne
<1>2. PICK n \in Nat : n = Len(path)
  OBVIOUS
<1>3. PICK token : token = begun[n]
  OBVIOUS
<1>10. PICK tokens : tokens = ended[n]
  OBVIOUS
<1>11. n \in 0 .. n
  OBVIOUS
<1>12. ended \in [0 .. Len(path) -> Seq(Seq(S))] /\ begun \in [0 .. Len(path) -> Seq(S)]
  BY <1>1, Zenon DEF Reads
<1>13. /\ TokensIn(path, delimiters, ignore_empty).ended = ended[Len(path)]
       /\ TokensIn(path, delimiters, ignore_empty).begun = begun[Len(path)]
  BY <1>1, Zenon DEF Reads
<1>14. tokens \in Seq(Seq(S)) /\ token \in Seq(S)
  BY <1>2, <1>3, <1>10, <1>11, <1>12
<1>4. token = SubSeq(path, LastIn(path, Len(path), {Slash}) + 1, Len(path))
  <2>1. \A i \in 0 .. Len(path) : begun[i] = SubSeq(path, LastIn(path, i, delimiters) + 1, i)
    BY <1>1, BegunIs
  <2> QED
    BY <1>2, <1>3, <1>11, <1>16, <2>1
<1>5. tokenizeString(path, {Slash}, FALSE) = Append(tokens, token)
  BY <1>2, <1>3, <1>10, <1>13, <1>15, <1>16 DEF tokenizeString, Add
<1>6. Last(Append(tokens, token)) = token
  <2>1. PICK all : all = Append(tokens, token)
    OBVIOUS
  <2>2. Len(all) = Len(tokens) + 1 /\ all[Len(tokens) + 1] = token
    BY <1>14, <2>1, AppendProperties
  <2> QED
    BY <2>1, <2>2 DEF Last
<1>7. name = token
  BY <1>5, <1>6 DEF filenameFromPath
<1>8. filenameFromPath(path, FALSE)
        = IF LastIn(name, Len(name), {Dot}) = 0 THEN name
          ELSE Upto(name, LastIn(name, Len(name), {Dot}) - 1)
  BY <1>5, <1>6, <1>7 DEF filenameFromPath
<1> QED
  BY <1>4, <1>7, <1>8

\* The extension is the last dot and what follows it.
LEMMA ExtensionIs ==
  ASSUME NEW S, NEW name \in Seq(S), NEW stem, NEW extension,
         stem = IF LastIn(name, Len(name), {Dot}) = 0 THEN name
                ELSE Upto(name, LastIn(name, Len(name), {Dot}) - 1),
         extension = SubSeq(name, Len(stem) + 1, Len(name))
  PROVE  /\ name = stem \o extension
         /\ IF Dot \in ToSet(name)
            THEN Head(extension) = Dot /\ Dot \notin ToSet(Tail(extension))
            ELSE extension = <<>>
<1>1. PICK n \in Nat : n = Len(name)
  OBVIOUS
<1>2. PICK dot : dot = LastIn(name, n, {Dot})
  OBVIOUS
<1>3. dot \in 0 .. n
  BY <1>2, LastInFound
<1>4. dot > 0 => name[dot] \in {Dot}
  BY <1>2, LastInFound
<1>5. \A k \in dot + 1 .. n : name[k] \notin {Dot}
  BY <1>2, LastInFound
<1>6. PICK m : m = IF dot = 0 THEN n ELSE dot - 1
  OBVIOUS
<1>7. m \in 0 .. n /\ m \in 0 .. Len(name) /\ n \in 0 .. Len(name)
  BY <1>1, <1>3, <1>6
<1>8. Upto(name, n) = name
  BY <1>1 DEF Upto
<1>9. stem = Upto(name, m)
  BY <1>1, <1>2, <1>6, <1>8
<1>10. Len(stem) = m
  BY <1>7, <1>9, UptoText
<1>11. extension = SubSeq(name, m + 1, n)
  BY <1>1, <1>10
<1>12. name = stem \o extension
  BY <1>7, <1>8, <1>9, <1>11, PartsJoin
<1>13. /\ extension \in Seq(S) /\ Len(extension) = n - m
       /\ \A k \in 1 .. n - m : extension[k] = name[m + k]
  <2>1. /\ SubSeq(name, m + 1, n) \in Seq(S) /\ Len(SubSeq(name, m + 1, n)) = n - m
        /\ \A k \in 1 .. n - m : SubSeq(name, m + 1, n)[k] = name[m + k]
    BY <1>7, StretchText
  <2> QED
    BY <1>11, <2>1, Zenon
<1>14. ASSUME dot = 0 PROVE Dot \notin ToSet(name) /\ extension = <<>>
  <2>1. n - m = 0
    BY <1>6, <1>14
  <2>2. extension = <<>>
    <3>1. extension \in Seq(S) /\ Len(extension) = 0
      BY <1>13, <2>1
    <3> QED
      BY <3>1, FirstOf
  <2>3. \A k \in 1 .. n : name[k] \notin {Dot}
    BY <1>5, <1>14
  <2>4. DOMAIN name = 1 .. n
    BY <1>1
  <2>5. Dot \notin ToSet(name)
    BY <2>3, <2>4 DEF ToSet
  <2> QED
    BY <2>2, <2>5
<1>15. ASSUME dot # 0
       PROVE  Dot \in ToSet(name) /\ Head(extension) = Dot /\ Dot \notin ToSet(Tail(extension))
  <2>1. dot \in 1 .. n /\ m = dot - 1 /\ n - m = n - dot + 1
    BY <1>3, <1>6, <1>15
  <2>2. name[dot] = Dot
    BY <1>4, <2>1
  <2>3. Dot \in ToSet(name)
    <3>1. dot \in DOMAIN name
      BY <1>1, <2>1
    <3> QED
      BY <2>2, <3>1 DEF ToSet
  <2>4. Len(extension) = n - dot + 1
    BY <1>13, <2>1
  <2>5. \A k \in 1 .. n - dot + 1 : extension[k] = name[dot - 1 + k]
    BY <1>13, <2>1
  <2>6. 1 \in 1 .. n - dot + 1 /\ dot - 1 + 1 = dot /\ n - dot + 1 # 0
    BY <2>1
  <2>7. extension # <<>>
    BY <2>4, <2>6
  <2>8. extension[1] = Dot
    BY <2>2, <2>5, <2>6
  <2>9. Head(extension) = Dot
    <3>1. extension \in Seq(S)
      BY <1>13
    <3> QED
      BY <2>7, <2>8, <3>1, FirstOf
  <2>10. PICK tail : tail = Tail(extension)
    OBVIOUS
  <2>11. /\ tail \in Seq(S) /\ Len(tail) = Len(extension) - 1
         /\ \A k \in 1 .. Len(tail) : tail[k] = extension[k + 1]
    BY <1>13, <2>7, <2>10, HeadTailProperties
  <2>12. Len(tail) = n - dot
    BY <2>1, <2>4, <2>11
  <2>13. ASSUME NEW k \in 1 .. n - dot PROVE tail[k] # Dot
    <3>1. /\ k + 1 \in 1 .. n - dot + 1 /\ dot - 1 + (k + 1) = dot + k
          /\ dot + k \in dot + 1 .. n
      BY <2>1
    <3>2. tail[k] = extension[k + 1]
      BY <2>11, <2>12
    <3>3. extension[k + 1] = name[dot + k]
      BY <2>5, <3>1
    <3> QED
      BY <1>5, <3>1, <3>2, <3>3
  <2>14. DOMAIN tail = 1 .. n - dot
    BY <2>11, <2>12
  <2>15. Dot \notin ToSet(tail)
    BY <2>13, <2>14 DEF ToSet
  <2> QED
    BY <2>3, <2>9, <2>10, <2>15
<1> QED
  BY <1>12, <1>14, <1>15

\* The last separator and those before it, and the name after it.
LEMMA ParentAndNameHold == Inputs => ParentAndName
<1> SUFFICES ASSUME Inputs PROVE ParentAndName
  OBVIOUS
<1>1. PICK n \in Nat : n = Len(str)
  BY DEF Inputs
<1>2. str \in Seq(Char)
  BY DEF Inputs
<1>3. PICK end : end = LastNotIn(str, n, {Slash})
  OBVIOUS
<1>4. end \in 0 .. n /\ (end > 0 => str[end] \notin {Slash})
  BY <1>3, LastNotInFound
<1>5. PICK path : path = Upto(str, end)
  OBVIOUS
<1>6. end \in 0 .. Len(str)
  BY <1>1, <1>4
<1>7. path \in Seq(Char) /\ Len(path) = end /\ \A k \in 1 .. end : path[k] = str[k]
  BY <1>2, <1>5, <1>6, UptoText
<1>8. end \in Nat
  BY <1>4
<1>9. PICK separator : separator = LastIn(path, end, {Slash})
  OBVIOUS
<1>10. /\ separator \in 0 .. end
       /\ (separator > 0 => path[separator] \in {Slash})
       /\ \A k \in separator + 1 .. end : path[k] \notin {Slash}
  BY <1>8, <1>9, LastInFound
<1>11. separator \in Nat
  BY <1>10
<1>12. PICK parent_end : parent_end = LastNotIn(path, separator, {Slash})
  OBVIOUS
<1>13. /\ parent_end \in 0 .. separator
       /\ (parent_end > 0 => path[parent_end] \notin {Slash})
       /\ \A k \in parent_end + 1 .. separator : path[k] \in {Slash}
  BY <1>11, <1>12, LastNotInFound
<1>14. parent_end \in 0 .. end /\ parent_end \in 0 .. Len(str) /\ separator \in 0 .. Len(path)
  BY <1>1, <1>4, <1>7, <1>10, <1>13
<1>15. PICK parent : parent = Upto(path, parent_end)
  OBVIOUS
<1>16. /\ parent \in Seq(Char) /\ Len(parent) = parent_end
       /\ \A k \in 1 .. parent_end : parent[k] = path[k]
  BY <1>7, <1>14, <1>15, UptoText
<1>17. parentPath(path) = parent
  <2>1. end \in 0 .. end /\ \A k \in end + 1 .. end : FALSE
    BY <1>8
  <2>2. end > 0 => path[end] \notin {Slash}
    <3>1. end > 0 => end \in 1 .. end
      BY <1>8
    <3> QED
      BY <1>4, <1>7, <3>1
  <2>3. LastNotIn(path, end, {Slash}) = end
    BY <1>8, <2>1, <2>2, LastNotInIs
  <2> QED
    BY <1>7, <1>9, <1>12, <1>15, <2>3 DEF parentPath
<1>18. parentPath(str) = parent
  <2>1. LastIn(str, end, {Slash}) = separator
    <3>1. LastIn(path, end, {Slash}) = LastIn(str, end, {Slash})
      <4>1. PICK text : text = str
        OBVIOUS
      <4>2. \A k \in 1 .. end : path[k] = text[k]
        BY <1>7, <4>1
      <4>3. LastIn(path, end, {Slash}) = LastIn(text, end, {Slash})
        BY <1>8, <4>2, SameSearch
      <4> QED
        BY <4>1, <4>3, Zenon
    <3> QED
      BY <1>9, <3>1, Zenon
  <2>2. \A k \in 1 .. separator : k \in 1 .. end
    BY <1>8, <1>10
  <2>3. \A k \in 1 .. separator : path[k] = str[k]
    BY <1>7, <2>2
  <2>4. LastNotIn(str, separator, {Slash}) = parent_end
    BY <1>11, <1>12, <2>3, SameSearch
  <2>5. PICK t : t = Upto(str, parent_end)
    OBVIOUS
  <2>6. t \in Seq(Char) /\ Len(t) = parent_end /\ \A k \in 1 .. parent_end : t[k] = str[k]
    BY <1>2, <1>14, <2>5, UptoText
  <2>7. \A k \in 1 .. parent_end : k \in 1 .. end
    BY <1>8, <1>14
  <2>8. \A k \in 1 .. parent_end : t[k] = parent[k]
    BY <1>7, <1>16, <2>6, <2>7
  <2>9. t = parent
    BY <1>16, <2>6, <2>8, SameText
  <2> QED
    BY <1>1, <1>3, <2>1, <2>4, <2>5, <2>9 DEF parentPath
<1>19. PICK name : name = filenameFromPath(path, TRUE)
  OBVIOUS
<1>20. PICK stem : stem = filenameFromPath(path, FALSE)
  OBVIOUS
<1>21. name = SubSeq(path, separator + 1, end)
  BY <1>7, <1>9, <1>19, NameIs
<1>22. stem = IF LastIn(name, Len(name), {Dot}) = 0 THEN name
              ELSE Upto(name, LastIn(name, Len(name), {Dot}) - 1)
  BY <1>7, <1>19, <1>20, NameIs
<1>23. end \in 0 .. Len(path)
  BY <1>7, <1>8
<1>24. name \in Seq(Char) /\ Len(name) = end - separator
  BY <1>7, <1>10, <1>21, <1>23, StretchText
<1>25. PICK between : between = SubSeq(path, parent_end + 1, separator)
  OBVIOUS
<1>26. /\ between \in Seq(Char) /\ Len(between) = separator - parent_end
       /\ \A k \in 1 .. separator - parent_end : between[k] = path[parent_end + k]
  BY <1>7, <1>13, <1>14, <1>25, StretchText
<1>27. path = parent \o between \o name
  <2>1. parent \o between = Upto(path, separator)
    BY <1>7, <1>13, <1>14, <1>15, <1>25, PartsJoin
  <2>2. Upto(path, separator) \o name = Upto(path, end)
    BY <1>7, <1>10, <1>21, <1>23, PartsJoin
  <2>3. Upto(path, end) = path
    BY <1>7 DEF Upto
  <2> QED
    BY <2>1, <2>2, <2>3
<1>28. IsSlashes(between)
  <2>1. ASSUME NEW k \in 1 .. separator - parent_end PROVE between[k] = Slash
    <3>1. parent_end + k \in parent_end + 1 .. separator
      BY <1>10, <1>13
    <3> QED
      BY <1>13, <1>26, <3>1
  <2>2. DOMAIN between = 1 .. separator - parent_end
    BY <1>26
  <2> QED
    BY <2>1, <2>2 DEF IsSlashes
<1>29. ASSUME parent # <<>> PROVE between # <<>> /\ Last(parent) # Slash
  <2>1. parent_end > 0 /\ parent_end \in 1 .. parent_end
    <3>1. parent_end # 0
      BY <1>16, <1>29
    <3> QED
      BY <1>14, <3>1
  <2>2. path[parent_end] \notin {Slash}
    BY <1>13, <2>1
  <2>3. Last(parent) = path[parent_end]
    BY <1>16, <2>1 DEF Last
  <2>4. separator # parent_end
    <3>1. separator > 0
      BY <1>10, <1>13, <2>1
    <3> QED
      BY <1>10, <2>2, <3>1
  <2>5. separator - parent_end # 0
    BY <1>10, <1>13, <2>4
  <2> QED
    BY <1>26, <2>2, <2>3, <2>5
<1>30. PICK extension : extension = SubSeq(name, Len(stem) + 1, Len(name))
  OBVIOUS
<1>31. /\ name = stem \o extension
       /\ IF Dot \in ToSet(name)
          THEN Head(extension) = Dot /\ Dot \notin ToSet(Tail(extension))
          ELSE extension = <<>>
  BY <1>22, <1>24, <1>30, ExtensionIs
<1>32. between = SubSeq(path, Len(parent) + 1, Len(path) - Len(name))
  <2>1. end - (end - separator) = separator
    BY <1>8, <1>11
  <2> QED
    BY <1>7, <1>16, <1>24, <1>25, <2>1
<1> DEFINE Apart(full, up, gap, last, first, rest) ==
      /\ up = parentPath(full)
      /\ full = up \o gap \o last
      /\ IsSlashes(gap)
      /\ up # <<>> => gap # <<>> /\ Last(up) # Slash
      /\ last = first \o rest
      /\ IF Dot \in ToSet(last)
         THEN Head(rest) = Dot /\ Dot \notin ToSet(Tail(rest))
         ELSE rest = <<>>
<1>33. Apart(path, parent, between, name, stem, extension)
  BY <1>17, <1>27, <1>28, <1>29, <1>31
<1>34. ParentAndName <=>
         LET full == Upto(str, LastNotIn(str, Len(str), {Slash}))
             up == parentPath(str)
             last == filenameFromPath(full, TRUE)
             first == filenameFromPath(full, FALSE)
         IN  Apart(full, up, SubSeq(full, Len(up) + 1, Len(full) - Len(last)), last, first,
                   SubSeq(last, Len(first) + 1, Len(last)))
  BY DEF ParentAndName
<1> HIDE DEF Apart
<1> QED
  BY <1>1, <1>3, <1>5, <1>18, <1>19, <1>20, <1>30, <1>32, <1>33, <1>34

\* Of any path, parentPath and filenameFromPath give the parts: nothing between
\* them but separators, and nothing lost (utils.cpp:31 and 83).
THEOREM PathIsParentAndName == Spec => []ParentAndName
BY InputsHold, ParentAndNameHold, PTL

-----------------------------------------------------------------------------
(* The tokens joined are the text. *)

After(t, token) == t \o <<Slash>> \o token

\* g[i] is what the first i tokens make.
Joins(g, C, tokens) ==
  /\ g \in [0 .. Len(tokens) -> Seq(C)] /\ g[0] = <<>>
  /\ \A i \in 1 .. Len(tokens) : g[i] = After(g[i - 1], tokens[i])

\* They are joined one by one.
LEMMA JoinedOneByOne ==
  ASSUME NEW C, Slash \in C, NEW tokens \in Seq(Seq(C))
  PROVE  \E g : Joins(g, C, tokens) /\ Joined(tokens) = g[Len(tokens)]
<1> PICK n \in Nat : n = Len(tokens)
  OBVIOUS
<1>1. PICK A : A = Seq(C)
  OBVIOUS
<1>2. <<>> \in A /\ <<Slash>> \in Seq(C)
  BY <1>1
<1>3. \A t \in A : \A token \in A : After(t, token) \in A
  <2> SUFFICES ASSUME NEW t \in Seq(C), NEW token \in Seq(C) PROVE After(t, token) \in Seq(C)
    BY <1>1
  <2>1. t \o <<Slash>> \in Seq(C)
    BY <1>2, ConcatProperties
  <2>2. (t \o <<Slash>>) \o token \in Seq(C)
    BY <2>1, ConcatProperties
  <2> QED
    BY <2>2 DEF After
<1>4. \A i \in 1 .. n : tokens[i] \in A
  BY <1>1
<1>5. PICK step : step = [i \in 1 .. n |-> [t \in A |-> After(t, tokens[i])]]
  OBVIOUS
<1>6. Steps(step, n, A)
  BY <1>3, <1>4, <1>5 DEF Steps
<1>7. PICK a : a = <<>>
  OBVIOUS
<1>8. PICK f : Iterates(f, a, step, n, A)
  BY <1>2, <1>6, <1>7, Recursion
<1>9. f \in [0 .. n -> A] /\ f[0] = a
  BY <1>8 DEF Iterates
<1>10. \A i \in 1 .. n : f[i] = After(f[i - 1], tokens[i])
  <2> SUFFICES ASSUME NEW i \in 1 .. n PROVE f[i] = After(f[i - 1], tokens[i])
    OBVIOUS
  <2>0. i - 1 \in 0 .. n
    OBVIOUS
  <2>1. f[i - 1] \in A
    BY <1>9, <2>0
  <2>2. f[i] = step[i][f[i - 1]]
    BY <1>8 DEF Iterates
  <2> QED
    BY <1>5, <2>1, <2>2
<1> DEFINE Read(g) ==
      g = [i \in 0 .. Len(tokens) |-> IF i = 0 THEN a ELSE After(g[i - 1], tokens[i])]
<1>11. Read(f)
  <2>1. \A i \in 0 .. n : i # 0 => i \in 1 .. n
    OBVIOUS
  <2> QED
    BY <1>9, <1>10, <2>1
<1>12. Joined(tokens) = (CHOOSE g : Read(g))[Len(tokens)]
  BY <1>7 DEF Joined, After
<1>13. PICK h : Read(h) /\ Joined(tokens) = h[n]
  <2> HIDE DEF Read
  <2> QED
    BY <1>11, <1>12
<1>14. h[0] = a /\ \A i \in 1 .. n : h[i] = After(h[i - 1], tokens[i])
  <2>1. h = [i \in 0 .. n |-> IF i = 0 THEN a ELSE After(h[i - 1], tokens[i])]
    BY <1>13
  <2>2. 0 \in 0 .. n /\ \A i \in 1 .. n : i \in 0 .. n /\ i # 0
    OBVIOUS
  <2>3. h[0] = a
    BY <2>1, <2>2, Zenon
  <2>4. ASSUME NEW i \in 1 .. n PROVE h[i] = After(h[i - 1], tokens[i])
    <3>1. i \in 0 .. n /\ i # 0
      OBVIOUS
    <3> QED
      BY <2>1, <3>1, Zenon
  <2> QED
    BY <2>3, <2>4
<1>15. h[n] = f[n]
  <2>1. PICK T : T = {i \in 0 .. n : h[i] = f[i]}
    OBVIOUS
  <2>2. 0 \in T /\ \A i \in 1 .. n : i - 1 \in T => i \in T
    BY <1>9, <1>10, <1>14, <2>1
  <2>3. \A i \in 0 .. n : i \in T
    BY <2>2, Induction
  <2> QED
    BY <2>1, <2>3
<1>16. Joins(f, C, tokens)
  <2>1. f \in [0 .. Len(tokens) -> Seq(C)] /\ f[0] = <<>>
    BY <1>1, <1>7, <1>9
  <2>2. \A i \in 1 .. Len(tokens) : f[i] = After(f[i - 1], tokens[i])
    BY <1>10
  <2> QED
    BY <2>1, <2>2 DEF Joins
<1>17. Joined(tokens) = f[Len(tokens)]
  BY <1>13, <1>15
<1> QED
  BY <1>16, <1>17

\* What one more token adds.
LEMMA JoinedAppend ==
  ASSUME NEW C, Slash \in C, NEW tokens \in Seq(Seq(C)), NEW token \in Seq(C)
  PROVE  /\ Joined(tokens) \in Seq(C)
         /\ Joined(Append(tokens, token)) = Joined(tokens) \o <<Slash>> \o token
<1>1. PICK n \in Nat : n = Len(tokens)
  OBVIOUS
<1>2. PICK longer : longer = Append(tokens, token)
  OBVIOUS
<1>3. /\ longer \in Seq(Seq(C)) /\ Len(longer) = n + 1 /\ longer[n + 1] = token
      /\ \A k \in 1 .. n : longer[k] = tokens[k]
  BY <1>1, <1>2, AppendProperties
<1>4. PICK g : Joins(g, C, tokens) /\ Joined(tokens) = g[Len(tokens)]
  BY JoinedOneByOne
<1>5. PICK h : Joins(h, C, longer) /\ Joined(longer) = h[Len(longer)]
  BY <1>3, JoinedOneByOne
<1>6. /\ g \in [0 .. n -> Seq(C)] /\ g[0] = <<>>
      /\ \A i \in 1 .. n : g[i] = After(g[i - 1], tokens[i])
  BY <1>1, <1>4, Zenon DEF Joins
<1>7. h[0] = <<>> /\ \A i \in 1 .. n + 1 : h[i] = After(h[i - 1], longer[i])
  BY <1>3, <1>5, Zenon DEF Joins
<1>8. \A i \in 1 .. n : i \in 1 .. n + 1 /\ i - 1 \in 0 .. n
  OBVIOUS
<1>9. \A i \in 1 .. n : h[i] = After(h[i - 1], tokens[i])
  BY <1>3, <1>7, <1>8, Zenon
<1>10. h[n] = g[n]
  <2>1. PICK T : T = {i \in 0 .. n : h[i] = g[i]}
    OBVIOUS
  <2>2. 0 \in T
    BY <1>6, <1>7, <2>1
  <2>3. ASSUME NEW i \in 1 .. n, i - 1 \in T PROVE i \in T
    <3>1. h[i - 1] = g[i - 1]
      BY <2>1, <2>3
    <3>2. h[i] = g[i]
      BY <1>6, <1>9, <3>1, Zenon
    <3> QED
      BY <2>1, <3>2
  <2>4. \A i \in 0 .. n : i \in T
    BY <2>2, <2>3, Induction
  <2> QED
    BY <2>1, <2>4
<1>11. h[n + 1] = After(h[n], token)
  <2>1. n + 1 \in 1 .. n + 1 /\ n + 1 - 1 = n
    OBVIOUS
  <2>2. PICK last : last = n + 1
    OBVIOUS
  <2>3. last \in 1 .. n + 1 /\ last - 1 = n
    BY <2>1, <2>2
  <2>4. h[last] = After(h[last - 1], longer[last])
    BY <1>7, <2>3, Zenon
  <2> QED
    BY <1>3, <2>2, <2>3, <2>4, Zenon
<1>12. n \in 0 .. n
  OBVIOUS
<1>13. g[n] \in Seq(C)
  BY <1>6, <1>12
<1>14. Joined(tokens) = g[n]
  BY <1>1, <1>4, Zenon
<1>15. Joined(longer) = h[n + 1]
  BY <1>3, <1>5, Zenon
<1> QED
  BY <1>2, <1>10, <1>11, <1>13, <1>14, <1>15, Zenon DEF After

LEMMA JoinedNone == Joined(<<>>) = <<>>
<1>1. PICK C : C = {Slash}
  OBVIOUS
<1>2. PICK none : none = <<>>
  OBVIOUS
<1>3. none \in Seq(Seq(C)) /\ Len(none) = 0
  BY <1>2
<1>4. PICK g : Joins(g, C, none) /\ Joined(none) = g[Len(none)]
  BY <1>1, <1>3, JoinedOneByOne
<1> QED
  BY <1>2, <1>3, <1>4 DEF Joins

\* Not one of the characters is a delimiter.
Free(t, delimiters) == \A k \in 1 .. Len(t) : t[k] \notin delimiters

LEMMA FreeText ==
  ASSUME NEW S, NEW t \in Seq(S), NEW delimiters
  PROVE  Free(t, delimiters) <=> ToSet(t) \cap delimiters = {}
BY DEF Free, ToSet

AllFree(tokens, delimiters) == \A k \in 1 .. Len(tokens) : Free(tokens[k], delimiters)

LEMMA AddFree ==
  ASSUME NEW S, NEW tokens \in Seq(Seq(S)), NEW token \in Seq(S), NEW ignore_empty, NEW delimiters,
         AllFree(tokens, delimiters), Free(token, delimiters)
  PROVE  AllFree(Add(tokens, token, ignore_empty), delimiters)
<1>1. PICK W : W = Seq(S)
  OBVIOUS
<1>2. PICK n \in Nat : n = Len(tokens)
  OBVIOUS
<1>3. PICK longer : longer = Append(tokens, token)
  OBVIOUS
<1>4. /\ Len(longer) = n + 1 /\ longer[n + 1] = token
      /\ \A k \in 1 .. n : longer[k] = tokens[k]
  BY <1>1, <1>2, <1>3, AppendProperties
<1>5. \A k \in 1 .. n : Free(tokens[k], delimiters)
  BY <1>2, Zenon DEF AllFree
<1>6. ASSUME NEW k \in 1 .. n + 1 PROVE Free(longer[k], delimiters)
  <2>1. k \in 1 .. n \/ k = n + 1
    OBVIOUS
  <2> QED
    BY <1>4, <1>5, <2>1, Zenon
<1>7. AllFree(longer, delimiters)
  BY <1>4, <1>6, Zenon DEF AllFree
<1> QED
  BY <1>3, <1>7, Zenon DEF Add

\* What the loop has at each place is of the types it should be.
LEMMA ReadsTyped ==
  ASSUME NEW S, NEW s \in Seq(S), NEW delimiters, NEW ignore_empty, NEW ended, NEW begun,
         Reads(ended, begun, S, s, delimiters, ignore_empty)
  PROVE  \A i \in 0 .. Len(s) : ended[i] \in Seq(Seq(S)) /\ begun[i] \in Seq(S)
<1>1. PICK W : W = Seq(Seq(S))
  OBVIOUS
<1>2. ended \in [0 .. Len(s) -> W] /\ begun \in [0 .. Len(s) -> Seq(S)]
  BY <1>1, Zenon DEF Reads
<1>3. \A i \in 0 .. Len(s) : ended[i] \in W /\ begun[i] \in Seq(S)
  BY <1>2
<1> QED
  BY <1>1, <1>3, Zenon

\* No token holds a delimiter.
LEMMA ReadsFree ==
  ASSUME NEW S, NEW s \in Seq(S), NEW delimiters, NEW ignore_empty, NEW ended, NEW begun,
         Reads(ended, begun, S, s, delimiters, ignore_empty)
  PROVE  \A i \in 0 .. Len(s) : AllFree(ended[i], delimiters) /\ Free(begun[i], delimiters)
<1>1. PICK n \in Nat : n = Len(s)
  OBVIOUS
<1> DEFINE Part(i) == AllFree(ended[i], delimiters) /\ Free(begun[i], delimiters)
<1>2. /\ ended[0] = <<>> /\ begun[0] = <<>>
      /\ \A i \in 1 .. n :
           IF s[i] \in delimiters
           THEN ended[i] = Add(ended[i - 1], begun[i - 1], ignore_empty) /\ begun[i] = <<>>
           ELSE ended[i] = ended[i - 1] /\ begun[i] = Append(begun[i - 1], s[i])
  BY <1>1, Zenon DEF Reads
<1>3. Free(<<>>, delimiters) /\ AllFree(<<>>, delimiters)
  BY DEF Free, AllFree
<1>4. Part(0)
  BY <1>2, <1>3, Zenon
<1>5. ASSUME NEW i \in 1 .. n, Part(i - 1) PROVE Part(i)
  <2>1. i - 1 \in 0 .. Len(s) /\ s[i] \in S
    BY <1>1
  <2>2. ended[i - 1] \in Seq(Seq(S)) /\ begun[i - 1] \in Seq(S)
    BY <2>1, ReadsTyped
  <2>3. CASE s[i] \in delimiters
    <3>1. ended[i] = Add(ended[i - 1], begun[i - 1], ignore_empty) /\ begun[i] = <<>>
      BY <1>2, <2>3, Zenon
    <3>2. AllFree(Add(ended[i - 1], begun[i - 1], ignore_empty), delimiters)
      BY <1>5, <2>2, AddFree
    <3> QED
      BY <1>3, <3>1, <3>2, Zenon
  <2>4. CASE s[i] \notin delimiters
    <3>1. ended[i] = ended[i - 1] /\ begun[i] = Append(begun[i - 1], s[i])
      BY <1>2, <2>4, Zenon
    <3>2. PICK t \in Seq(S) : t = begun[i - 1]
      BY <2>2
    <3>3. Free(t, delimiters)
      BY <1>5, <3>2, Zenon
    <3>4. PICK c \in S : c = s[i]
      BY <2>1
    <3>5. PICK u : u = Append(t, c)
      OBVIOUS
    <3>6. Free(u, delimiters)
      <4>1. PICK m \in Nat : m = Len(t)
        OBVIOUS
      <4>2. Len(u) = m + 1 /\ u[m + 1] = c /\ \A k \in 1 .. m : u[k] = t[k]
        BY <3>5, <4>1, AppendProperties
      <4>3. \A k \in 1 .. m : t[k] \notin delimiters
        BY <3>3, <4>1 DEF Free
      <4>4. \A k \in 1 .. m + 1 : k \in 1 .. m \/ k = m + 1
        OBVIOUS
      <4>5. \A k \in 1 .. m + 1 : u[k] \notin delimiters
        BY <2>4, <3>4, <4>2, <4>3, <4>4
      <4> QED
        BY <4>2, <4>5 DEF Free
    <3> QED
      BY <1>5, <3>1, <3>2, <3>4, <3>5, <3>6, Zenon
  <2> QED
    BY <2>3, <2>4
<1> HIDE DEF Part
<1>6. PICK T : T = {i \in 0 .. n : Part(i)}
  OBVIOUS
<1>7. 0 \in T /\ \A i \in 1 .. n : i - 1 \in T => i \in T
  BY <1>4, <1>5, <1>6
<1>8. \A i \in 0 .. n : i \in T
  BY <1>7, Induction
<1>9. \A i \in 0 .. n : Part(i)
  BY <1>6, <1>8
<1> QED
  BY <1>1, <1>9, Zenon DEF Part

\* The two values of tokenizeString's last parameter.
Keeps(ignore_empty) == ignore_empty = FALSE
Drops(ignore_empty) == ignore_empty = TRUE

JoinUpto(s, i, tokens, token) == After(Joined(tokens), token) = <<Slash>> \o Upto(s, i)

\* At each place the tokens joined, with the one that has begun, are the text
\* so far after a separator.
LEMMA ReadsJoin ==
  ASSUME NEW C, Slash \in C, NEW s \in Seq(C), NEW delimiters, delimiters = {Slash},
         NEW ignore_empty, Keeps(ignore_empty), NEW ended, NEW begun,
         Reads(ended, begun, C, s, delimiters, ignore_empty)
  PROVE  \A i \in 0 .. Len(s) : JoinUpto(s, i, ended[i], begun[i])
<1>1. PICK n \in Nat : n = Len(s)
  OBVIOUS
<1> DEFINE Part(i) == After(Joined(ended[i]), begun[i]) = <<Slash>> \o Upto(s, i)
<1>2. /\ ended[0] = <<>> /\ begun[0] = <<>>
      /\ \A i \in 1 .. n :
           IF s[i] \in delimiters
           THEN ended[i] = Add(ended[i - 1], begun[i - 1], ignore_empty) /\ begun[i] = <<>>
           ELSE ended[i] = ended[i - 1] /\ begun[i] = Append(begun[i - 1], s[i])
  BY <1>1, Zenon DEF Reads
<1>3. <<Slash>> \in Seq(C) /\ <<>> \in Seq(C)
  OBVIOUS
<1>4. \A a \in Seq(C) : a \o <<>> = a /\ <<>> \o a = a
  BY ConcatEmptySeq
<1>5. Part(0)
  <2>1. Upto(s, 0) = <<>>
    BY DEF Upto
  <2>2. After(<<>>, <<>>) = <<Slash>> \o <<>>
    BY <1>3, <1>4, Zenon DEF After
  <2> QED
    BY <1>2, <2>1, <2>2, JoinedNone, Zenon
<1>6. ASSUME NEW i \in 1 .. n, Part(i - 1) PROVE Part(i)
  <2>1. i - 1 \in 0 .. Len(s) /\ i \in 1 .. Len(s) /\ s[i] \in C
    BY <1>1
  <2>2. ended[i - 1] \in Seq(Seq(C)) /\ begun[i - 1] \in Seq(C)
    BY <2>1, ReadsTyped
  <2>3. PICK tokens \in Seq(Seq(C)) : tokens = ended[i - 1]
    BY <2>2, Zenon
  <2>4. PICK token \in Seq(C) : token = begun[i - 1]
    BY <2>2, Zenon
  <2>5. PICK c \in C : c = s[i]
    BY <2>1
  <2>6. PICK text \in Seq(C) : text = Upto(s, i - 1)
    BY <2>1, UptoText
  <2>7. Upto(s, i) = text \o <<c>>
    BY <2>1, <2>5, <2>6, UptoGrows
  <2>8. PICK joined \in Seq(C) : joined = Joined(tokens)
    BY JoinedAppend, <1>3
  <2>9. After(joined, token) = <<Slash>> \o text
    BY <1>6, <2>3, <2>4, <2>6, <2>8, Zenon
  <2>10. <<c>> \in Seq(C)
    OBVIOUS
  <2>11. <<Slash>> \o Upto(s, i) = After(joined, token) \o <<c>>
    BY <1>3, <2>7, <2>9, <2>10, ConcatAssociative
  <2>12. CASE s[i] \in delimiters
    <3>1. ended[i] = Append(tokens, token) /\ begun[i] = <<>>
      BY <1>2, <2>3, <2>4, <2>12, Zenon DEF Add, Keeps
    <3>2. Joined(Append(tokens, token)) = After(joined, token)
      BY <2>8, JoinedAppend DEF After
    <3>3. c = Slash
      BY <2>5, <2>12
    <3>4. PICK text1 \in Seq(C) : text1 = After(joined, token)
      <4>1. After(joined, token) \in Seq(C)
        BY <1>3, <2>9, ConcatProperties
      <4> QED
        BY <4>1
    <3>5. After(text1, <<>>) = text1 \o <<Slash>>
      <4>1. text1 \o <<Slash>> \in Seq(C)
        BY <1>3, ConcatProperties
      <4> QED
        BY <1>4, <4>1, Zenon DEF After
    <3> QED
      BY <2>11, <3>1, <3>2, <3>3, <3>4, <3>5, Zenon
  <2>13. CASE s[i] \notin delimiters
    <3>1. ended[i] = tokens /\ begun[i] = Append(token, c)
      BY <1>2, <2>3, <2>4, <2>5, <2>13, Zenon
    <3>2. Append(token, c) = token \o <<c>>
      BY AppendIsConcat
    <3>3. PICK head \in Seq(C) : head = joined \o <<Slash>>
      <4>1. joined \o <<Slash>> \in Seq(C)
        BY <1>3, ConcatProperties
      <4> QED
        BY <4>1
    <3>4. (head \o token) \o <<c>> = head \o (token \o <<c>>)
      <4>1. PICK last \in Seq(C) : last = <<c>>
        BY <2>10
      <4>2. (head \o token) \o last = head \o (token \o last)
        OBVIOUS
      <4> QED
        BY <4>1, <4>2, Zenon
    <3>5. After(joined, token \o <<c>>) = After(joined, token) \o <<c>>
      BY <3>3, <3>4, Zenon DEF After
    <3> QED
      BY <2>8, <2>11, <3>1, <3>2, <3>5, Zenon
  <2> QED
    BY <2>12, <2>13
<1> HIDE DEF Part
<1>7. PICK T : T = {i \in 0 .. n : Part(i)}
  OBVIOUS
<1>8. 0 \in T /\ \A i \in 1 .. n : i - 1 \in T => i \in T
  BY <1>5, <1>6, <1>7
<1>9. \A i \in 0 .. n : i \in T
  BY <1>8, Induction
<1>10. \A i \in 0 .. n : Part(i)
  BY <1>7, <1>9
<1> QED
  BY <1>1, <1>10, Zenon DEF Part, JoinUpto

LEMMA TokensJoinHold == Inputs => TokensJoin
<1> SUFFICES ASSUME Inputs PROVE TokensJoin
  OBVIOUS
<1>1. PICK C : C = Char \cup {Slash}
  OBVIOUS
<1>2. Slash \in C /\ str \in Seq(C)
  BY <1>1 DEF Inputs
<1>3. PICK delimiters : delimiters = {Slash}
  OBVIOUS
<1>4. PICK ignore_empty : Keeps(ignore_empty)
  BY DEF Keeps
<1>5. PICK ended, begun : Reads(ended, begun, C, str, delimiters, ignore_empty)
  BY <1>2, ReadsOneByOne
<1>6. PICK n \in Nat : n = Len(str)
  BY <1>2
<1>7. n \in 0 .. Len(str)
  BY <1>6
<1>8. ended[n] \in Seq(Seq(C)) /\ begun[n] \in Seq(C)
  BY <1>2, <1>5, <1>7, ReadsTyped
<1>9. AllFree(ended[n], delimiters) /\ Free(begun[n], delimiters)
  BY <1>2, <1>5, <1>7, ReadsFree
<1>10. After(Joined(ended[n]), begun[n]) = <<Slash>> \o Upto(str, n)
  <2>1. JoinUpto(str, n, ended[n], begun[n])
    BY <1>2, <1>3, <1>4, <1>5, <1>7, ReadsJoin
  <2> QED
    BY <2>1, Zenon DEF JoinUpto
<1>11. Upto(str, n) = str
  BY <1>2, <1>6 DEF Upto
<1>12. PICK tokens : tokens = tokenizeString(str, {Slash}, FALSE)
  OBVIOUS
<1>13. /\ TokensIn(str, delimiters, ignore_empty).ended = ended[n]
       /\ TokensIn(str, delimiters, ignore_empty).begun = begun[n]
  BY <1>5, <1>6, Zenon DEF Reads
<1>14. tokens = Add(ended[n], begun[n], ignore_empty)
  BY <1>3, <1>4, <1>12, <1>13, Zenon DEF tokenizeString, Keeps
<1>15. tokens = Append(ended[n], begun[n])
  BY <1>4, <1>14, Zenon DEF Add, Keeps
<1>16. PICK W : W = Seq(C)
  OBVIOUS
<1>17. tokens \in Seq(W) /\ tokens # <<>>
  BY <1>8, <1>15, <1>16, AppendProperties
<1>18. Joined(tokens) = <<Slash>> \o str
  BY <1>2, <1>8, <1>10, <1>11, <1>15, JoinedAppend DEF After
<1>19. AllFree(tokens, delimiters)
  BY <1>8, <1>9, <1>14, AddFree
<1>20. ASSUME NEW t \in ToSet(tokens) PROVE Slash \notin ToSet(t)
  <2>1. PICK k \in 1 .. Len(tokens) : t = tokens[k]
    BY <1>17 DEF ToSet
  <2>2. t \in Seq(C)
    BY <1>16, <1>17, <2>1
  <2>3. Free(t, delimiters)
    BY <1>19, <2>1, Zenon DEF AllFree
  <2> QED
    BY <1>3, <2>2, <2>3, FreeText
<1> QED
  BY <1>12, <1>17, <1>18, <1>20, Zenon DEF TokensJoin

\* Of any text with a delimiter, tokenizeString loses nothing and leaves no
\* delimiter in a token (utils.hpp:62).
THEOREM TokensAlwaysJoin == Spec => []TokensJoin
BY InputsHold, TokensJoinHold, PTL

-----------------------------------------------------------------------------
(* The tokens that are found. *)

\* p is what stands between the delimiter at e, or the end of the text, and the
\* last delimiter before it.
Ends(p, s, e, delimiters) ==
  p # <<>> /\ p = SubSeq(s, LastIn(s, e - 1, delimiters) + 1, e - 1)

LEMMA AddSet ==
  ASSUME NEW S, NEW tokens \in Seq(Seq(S)), NEW token \in Seq(S), NEW ignore_empty, Drops(ignore_empty)
  PROVE  ToSet(Add(tokens, token, ignore_empty))
           = IF token = <<>> THEN ToSet(tokens) ELSE ToSet(tokens) \cup {token}
<1>1. PICK W : W = Seq(S)
  OBVIOUS
<1>2. PICK n \in Nat : n = Len(tokens)
  OBVIOUS
<1>3. PICK longer : longer = Append(tokens, token)
  OBVIOUS
<1>4. /\ longer \in Seq(W) /\ Len(longer) = n + 1 /\ longer[n + 1] = token
      /\ \A k \in 1 .. n : longer[k] = tokens[k]
  BY <1>1, <1>2, <1>3, AppendProperties
<1>5. DOMAIN longer = 1 .. n + 1 /\ DOMAIN tokens = 1 .. n
  BY <1>2, <1>4
<1>6. \A k \in 1 .. n + 1 : k \in 1 .. n \/ k = n + 1
  OBVIOUS
<1>7. n + 1 \in 1 .. n + 1 /\ \A k \in 1 .. n : k \in 1 .. n + 1
  OBVIOUS
<1>8. ToSet(longer) = ToSet(tokens) \cup {token}
  <2>1. \A x \in ToSet(longer) : x \in ToSet(tokens) \cup {token}
    BY <1>4, <1>5, <1>6, Zenon DEF ToSet
  <2>2. \A x \in ToSet(tokens) : x \in ToSet(longer)
    BY <1>4, <1>5, <1>7, Zenon DEF ToSet
  <2>3. token \in ToSet(longer)
    BY <1>4, <1>5, <1>7, Zenon DEF ToSet
  <2> QED
    BY <2>1, <2>2, <2>3, Zenon
<1> QED
  BY <1>3, <1>8, Zenon DEF Add, Drops

\* The tokens ended by the first i characters, without the empty ones.
LEMMA EndedIs ==
  ASSUME NEW S, NEW s \in Seq(S), NEW delimiters, NEW ignore_empty, Drops(ignore_empty),
         NEW ended, NEW begun, Reads(ended, begun, S, s, delimiters, ignore_empty)
  PROVE  \A i \in 0 .. Len(s) : \A p :
           p \in ToSet(ended[i]) <=> \E e \in 1 .. i : s[e] \in delimiters /\ Ends(p, s, e, delimiters)
<1>1. PICK n \in Nat : n = Len(s)
  OBVIOUS
<1> DEFINE Part(i) ==
      \A p : p \in ToSet(ended[i]) <=>
               \E e \in 1 .. i : s[e] \in delimiters /\ Ends(p, s, e, delimiters)
<1>2. /\ ended[0] = <<>>
      /\ \A i \in 1 .. n :
           IF s[i] \in delimiters
           THEN ended[i] = Add(ended[i - 1], begun[i - 1], ignore_empty) /\ begun[i] = <<>>
           ELSE ended[i] = ended[i - 1] /\ begun[i] = Append(begun[i - 1], s[i])
  BY <1>1, Zenon DEF Reads
<1>3. Part(0)
  <2>1. ToSet(<<>>) = {}
    BY DEF ToSet
  <2>2. 1 .. 0 = {}
    OBVIOUS
  <2> QED
    BY <1>2, <2>1, <2>2, Zenon
<1>4. ASSUME NEW i \in 1 .. n, Part(i - 1) PROVE Part(i)
  <2>1. i - 1 \in 0 .. Len(s)
    BY <1>1
  <2>2. ended[i - 1] \in Seq(Seq(S)) /\ begun[i - 1] \in Seq(S)
    BY <2>1, ReadsTyped
  <2>3. begun[i - 1] = SubSeq(s, LastIn(s, i - 1, delimiters) + 1, i - 1)
    <3>1. \A j \in 0 .. Len(s) : begun[j] = SubSeq(s, LastIn(s, j, delimiters) + 1, j)
      BY BegunIs
    <3> QED
      BY <2>1, <3>1, Zenon
  <2>4. \A p : p = begun[i - 1] /\ p # <<>> <=> Ends(p, s, i, delimiters)
    BY <2>3, Zenon DEF Ends
  <2>5. i \in 1 .. i /\ \A e \in 1 .. i : e \in 1 .. i - 1 \/ e = i
    OBVIOUS
  <2>6. \A e \in 1 .. i - 1 : e \in 1 .. i
    OBVIOUS
  <2>7. CASE s[i] \in delimiters
    <3>1. ended[i] = Add(ended[i - 1], begun[i - 1], ignore_empty)
      BY <1>2, <2>7, Zenon
    <3>2. ToSet(ended[i]) = IF begun[i - 1] = <<>> THEN ToSet(ended[i - 1])
                            ELSE ToSet(ended[i - 1]) \cup {begun[i - 1]}
      <4>1. PICK tokens : tokens = ended[i - 1]
        OBVIOUS
      <4>2. PICK token : token = begun[i - 1]
        OBVIOUS
      <4>3. tokens \in Seq(Seq(S)) /\ token \in Seq(S)
        BY <2>2, <4>1, <4>2, Zenon
      <4>4. ToSet(Add(tokens, token, ignore_empty))
              = IF token = <<>> THEN ToSet(tokens) ELSE ToSet(tokens) \cup {token}
        BY <4>3, AddSet
      <4> QED
        BY <3>1, <4>1, <4>2, <4>4, Zenon
    <3>3. \A p : p \in ToSet(ended[i]) <=> p \in ToSet(ended[i - 1]) \/ Ends(p, s, i, delimiters)
      BY <2>4, <3>2, Zenon
    <3> QED
      BY <1>4, <2>5, <2>6, <2>7, <3>3, Zenon
  <2>8. CASE s[i] \notin delimiters
    <3>1. ended[i] = ended[i - 1]
      BY <1>2, <2>8, Zenon
    <3> QED
      BY <1>4, <2>5, <2>6, <2>8, <3>1, Zenon
  <2> QED
    BY <2>7, <2>8
<1> HIDE DEF Part
<1>5. PICK T : T = {i \in 0 .. n : Part(i)}
  OBVIOUS
<1>6. 0 \in T /\ \A i \in 1 .. n : i - 1 \in T => i \in T
  BY <1>3, <1>4, <1>5
<1>7. \A i \in 0 .. n : i \in T
  BY <1>6, Induction
<1>8. \A i \in 0 .. n : Part(i)
  BY <1>5, <1>7
<1> QED
  BY <1>1, <1>8, Zenon DEF Part

\* What hasToken finds.
LEMMA HasTokenIs ==
  ASSUME NEW S, NEW s \in Seq(S), NEW delimiters, NEW p
  PROVE  hasToken(s, delimiters, p) <=>
           \E e \in 1 .. Len(s) + 1 :
             (e = Len(s) + 1 \/ s[e] \in delimiters) /\ Ends(p, s, e, delimiters)
<1>1. PICK n \in Nat : n = Len(s)
  OBVIOUS
<1>2. PICK ignore_empty : Drops(ignore_empty)
  BY DEF Drops
<1>3. PICK ended, begun : Reads(ended, begun, S, s, delimiters, ignore_empty)
  BY ReadsOneByOne
<1>4. n \in 0 .. Len(s)
  BY <1>1
<1>5. ended[n] \in Seq(Seq(S)) /\ begun[n] \in Seq(S)
  BY <1>3, <1>4, ReadsTyped
<1>6. begun[n] = SubSeq(s, LastIn(s, n, delimiters) + 1, n)
  BY <1>3, <1>4, BegunIs
<1>7. p \in ToSet(ended[n]) <=> \E e \in 1 .. n : s[e] \in delimiters /\ Ends(p, s, e, delimiters)
  BY <1>2, <1>3, <1>4, EndedIs
<1>8. /\ TokensIn(s, delimiters, ignore_empty).ended = ended[n]
      /\ TokensIn(s, delimiters, ignore_empty).begun = begun[n]
  BY <1>1, <1>3, Zenon DEF Reads
<1>9. hasToken(s, delimiters, p) <=> p \in ToSet(Add(ended[n], begun[n], ignore_empty))
  BY <1>2, <1>8, Zenon DEF hasToken, tokenizeString, Drops
<1>10. hasToken(s, delimiters, p) <=> p \in ToSet(ended[n]) \/ (p # <<>> /\ p = begun[n])
  <2>1. ToSet(Add(ended[n], begun[n], ignore_empty))
          = IF begun[n] = <<>> THEN ToSet(ended[n]) ELSE ToSet(ended[n]) \cup {begun[n]}
    BY <1>2, <1>5, AddSet
  <2> QED
    BY <1>9, <2>1, Zenon
<1>11. PICK last \in Nat : last = n + 1
  OBVIOUS
<1>12. Ends(p, s, last, delimiters) <=> p # <<>> /\ p = begun[n]
  <2>1. last - 1 = n
    BY <1>11
  <2> QED
    BY <1>6, <2>1, Zenon DEF Ends
<1>13. last \in 1 .. last /\ \A e \in 1 .. last : e \in 1 .. n \/ e = last
  BY <1>11
<1>14. \A e \in 1 .. n : e \in 1 .. last
  BY <1>11
<1>15. hasToken(s, delimiters, p) <=>
         \E e \in 1 .. last : (e = last \/ s[e] \in delimiters) /\ Ends(p, s, e, delimiters)
  BY <1>7, <1>10, <1>12, <1>13, <1>14, Zenon
<1> QED
  BY <1>1, <1>11, <1>15

\* A token is enclosed by delimiters in the text with one put at each end.
Encloses(padded, p, delimiters) ==
  /\ p # <<>> /\ ToSet(p) \cap delimiters = {}
  /\ \E i \in 1 .. Len(padded) - Len(p) - 1 :
       /\ padded[i] \in delimiters
       /\ SubSeq(padded, i + 1, i + Len(p)) = p
       /\ padded[i + Len(p) + 1] \in delimiters

\* The text with a delimiter at each end.
Pads(padded, C, s, delimiters) ==
  /\ padded \in Seq(C) /\ Len(padded) = Len(s) + 2
  /\ padded[1] \in delimiters /\ padded[Len(s) + 2] \in delimiters
  /\ \A k \in 1 .. Len(s) : padded[k + 1] = s[k]

LEMMA EndsEnclosed ==
  ASSUME NEW C, NEW s \in Seq(C), NEW p \in Seq(C), NEW delimiters, NEW padded,
         Pads(padded, C, s, delimiters), NEW e \in 1 .. Len(s) + 1,
         e = Len(s) + 1 \/ s[e] \in delimiters, Ends(p, s, e, delimiters)
  PROVE  Encloses(padded, p, delimiters)
<1>1. PICK n \in Nat : n = Len(s)
  OBVIOUS
<1>2. /\ padded \in Seq(C) /\ Len(padded) = n + 2
      /\ padded[1] \in delimiters /\ padded[n + 2] \in delimiters
      /\ \A k \in 1 .. n : padded[k + 1] = s[k]
  BY <1>1 DEF Pads
<1>3. e \in 1 .. n + 1 /\ e - 1 \in Nat /\ e - 1 \in 0 .. n /\ e - 1 \in 0 .. Len(s)
  BY <1>1
<1>4. PICK l : l = LastIn(s, e - 1, delimiters)
  OBVIOUS
<1>5. /\ l \in 0 .. e - 1 /\ (l > 0 => s[l] \in delimiters)
      /\ \A k \in l + 1 .. e - 1 : s[k] \notin delimiters
  BY <1>3, <1>4, LastInFound
<1>6. p # <<>> /\ p = SubSeq(s, l + 1, e - 1)
  BY <1>4 DEF Ends
<1>7. PICK m \in Nat : m = Len(p)
  OBVIOUS
<1>8. m = e - 1 - l /\ \A k \in 1 .. m : p[k] = s[l + k]
  BY <1>3, <1>5, <1>6, <1>7, StretchText
<1>9. l + m = e - 1 /\ m # 0 /\ l \in Nat /\ l + 1 + m = e
  BY <1>3, <1>5, <1>6, <1>7, <1>8, FirstOf
<1>10. ToSet(p) \cap delimiters = {}
  <2>1. \A k \in 1 .. m : l + k \in l + 1 .. e - 1
    BY <1>9
  <2>2. \A k \in 1 .. Len(p) : p[k] \notin delimiters
    BY <1>5, <1>7, <1>8, <2>1
  <2> QED
    BY <2>2, FreeText DEF Free
<1>11. PICK i \in Nat : i = l + 1
  BY <1>9
<1>12. padded[i] \in delimiters
  <2>1. CASE l = 0
    BY <1>2, <1>11, <2>1
  <2>2. CASE l # 0
    <3>1. l \in 1 .. n /\ l > 0
      BY <1>3, <1>5, <2>2
    <3> QED
      BY <1>2, <1>5, <1>11, <3>1
  <2> QED
    BY <2>1, <2>2
<1>13. i + m = e /\ i + m + 1 = e + 1
  BY <1>9, <1>11
<1>14. padded[i + m + 1] \in delimiters
  <2>1. CASE e = n + 1
    <3>1. i + m + 1 = n + 2
      BY <1>13, <2>1
    <3> QED
      BY <1>2, <3>1
  <2>2. CASE e # n + 1
    <3>1. e \in 1 .. n
      BY <1>3, <2>2
    <3>2. s[e] \in delimiters
      BY <1>1, <2>2
    <3> QED
      BY <1>2, <1>13, <3>1, <3>2
  <2> QED
    BY <2>1, <2>2
<1>15. PICK u : u = SubSeq(padded, i + 1, i + m)
  OBVIOUS
<1>16. u = p
  <2>1. i \in 0 .. i + m /\ i + m \in 0 .. Len(padded)
    BY <1>2, <1>3, <1>13
  <2>2. i + m - i = m
    OBVIOUS
  <2>3. u \in Seq(C) /\ Len(u) = m /\ \A k \in 1 .. m : u[k] = padded[i + k]
    BY <1>2, <1>15, <2>1, <2>2, StretchText
  <2>4. \A k \in 1 .. m : l + k \in 1 .. n /\ i + k = (l + k) + 1
    BY <1>3, <1>9, <1>11
  <2>5. \A k \in 1 .. m : padded[i + k] = s[l + k]
    BY <1>2, <2>4
  <2>6. \A k \in 1 .. m : u[k] = p[k]
    BY <1>8, <2>3, <2>5
  <2> QED
    BY <1>7, <2>3, <2>6, SameText
<1>17. i \in 1 .. Len(padded) - m - 1
  <2>1. e \in Nat /\ e <= n + 1
    BY <1>3
  <2>2. i <= n + 1 - m /\ 1 <= i
    BY <1>9, <1>11, <1>13, <2>1
  <2>3. i \in 1 .. n + 2 - m - 1
    BY <2>2
  <2> QED
    BY <1>2, <2>3
<1> QED
  BY <1>6, <1>7, <1>10, <1>12, <1>14, <1>15, <1>16, <1>17 DEF Encloses

LEMMA EnclosedEnds ==
  ASSUME NEW C, NEW s \in Seq(C), NEW p \in Seq(C), NEW delimiters, NEW padded,
         Pads(padded, C, s, delimiters), Encloses(padded, p, delimiters)
  PROVE  \E e \in 1 .. Len(s) + 1 :
           (e = Len(s) + 1 \/ s[e] \in delimiters) /\ Ends(p, s, e, delimiters)
<1>1. PICK n \in Nat : n = Len(s)
  OBVIOUS
<1>2. /\ padded \in Seq(C) /\ Len(padded) = n + 2
      /\ \A k \in 1 .. n : padded[k + 1] = s[k]
  BY <1>1 DEF Pads
<1>3. PICK m \in Nat : m = Len(p)
  OBVIOUS
<1>4. p # <<>> /\ ToSet(p) \cap delimiters = {}
  BY DEF Encloses
<1>5. \A k \in 1 .. m : p[k] \notin delimiters
  BY <1>3, <1>4, FreeText DEF Free
<1>6. m # 0
  BY <1>3, <1>4, FirstOf
<1>7. PICK i \in 1 .. Len(padded) - Len(p) - 1 :
         /\ padded[i] \in delimiters
         /\ SubSeq(padded, i + 1, i + Len(p)) = p
         /\ padded[i + Len(p) + 1] \in delimiters
  BY DEF Encloses
<1>8. i \in Nat /\ 1 <= i /\ i + m <= n + 1
  <2>1. i \in 1 .. n + 2 - m - 1
    BY <1>2, <1>3, <1>7
  <2> QED
    BY <2>1
<1>9. padded[i] \in delimiters /\ padded[i + m + 1] \in delimiters
  BY <1>3, <1>7
<1>10. \A k \in 1 .. m : p[k] = padded[i + k]
  <2>1. PICK u : u = SubSeq(padded, i + 1, i + m)
    OBVIOUS
  <2>2. u = p
    BY <1>3, <1>7, <2>1
  <2>3. i \in 0 .. i + m /\ i + m \in 0 .. Len(padded) /\ i + m - i = m
    BY <1>2, <1>8
  <2>4. \A k \in 1 .. m : u[k] = padded[i + k]
    BY <1>2, <2>1, <2>3, StretchText
  <2> QED
    BY <2>2, <2>4
<1>11. PICK l \in Nat : l = i - 1
  BY <1>8
<1>12. PICK e \in Nat : e = i + m
  BY <1>8
<1>13. /\ e - 1 \in Nat /\ l \in 0 .. e - 1 /\ e - 1 = l + m /\ e \in 1 .. n + 1
       /\ e - 1 \in 0 .. Len(s)
  BY <1>1, <1>6, <1>8, <1>11, <1>12
<1>14. \A k \in 1 .. m : p[k] = s[l + k]
  <2>1. \A k \in 1 .. m : l + k \in 1 .. n /\ i + k = (l + k) + 1
    BY <1>8, <1>11
  <2> QED
    BY <1>2, <1>10, <2>1
<1>15. LastIn(s, e - 1, delimiters) = l
  <2>1. l > 0 => s[l] \in delimiters
    <3>1. l > 0 => l \in 1 .. n /\ l + 1 = i
      BY <1>6, <1>8, <1>11
    <3> QED
      BY <1>2, <1>9, <3>1
  <2>2. ASSUME NEW k \in l + 1 .. e - 1 PROVE s[k] \notin delimiters
    <3>1. k - l \in 1 .. m /\ l + (k - l) = k
      BY <1>13
    <3> QED
      BY <1>5, <1>14, <3>1
  <2> QED
    BY <1>13, <2>1, <2>2, LastInIs
<1>16. PICK v : v = SubSeq(s, l + 1, e - 1)
  OBVIOUS
<1>17. v = p
  <2>1. e - 1 - l = m
    BY <1>13
  <2>2. v \in Seq(C) /\ Len(v) = m /\ \A k \in 1 .. m : v[k] = s[l + k]
    BY <1>13, <1>16, <2>1, StretchText
  <2>3. \A k \in 1 .. m : v[k] = p[k]
    BY <1>14, <2>2
  <2> QED
    BY <1>3, <2>2, <2>3, SameText
<1>18. Ends(p, s, e, delimiters)
  BY <1>4, <1>15, <1>16, <1>17 DEF Ends
<1>19. e = n + 1 \/ s[e] \in delimiters
  <2>1. CASE e # n + 1
    <3>1. e \in 1 .. n /\ i + m + 1 = e + 1
      BY <1>12, <1>13, <2>1
    <3> QED
      BY <1>2, <1>9, <3>1
  <2> QED
    BY <2>1
<1> QED
  BY <1>1, <1>13, <1>18, <1>19

LEMMA TokenIsEnclosedHolds == Inputs => TokenIsEnclosed
<1> SUFFICES ASSUME Inputs PROVE TokenIsEnclosed
  OBVIOUS
<1>1. PICK C : C = Char \cup {Slash}
  OBVIOUS
<1>2. str \in Seq(C) /\ other \in Seq(C) /\ Slash \in C
  BY <1>1 DEF Inputs
<1>3. PICK delimiters : delimiters = {Slash, Dot}
  OBVIOUS
<1>4. PICK n \in Nat : n = Len(str)
  BY <1>2
<1>5. PICK padded : padded = <<Slash>> \o str \o <<Slash>>
  OBVIOUS
<1>6. Pads(padded, C, str, delimiters)
  <2>1. PICK slash : slash = Slash
    OBVIOUS
  <2>15. slash \in C
    BY <1>2, <2>1, Zenon
  <2>16. PICK one : one = <<slash>>
    OBVIOUS
  <2>2. one \in Seq(C) /\ Len(one) = 1 /\ one[1] = slash
    BY <2>15, <2>16
  <2>3. PICK head : head = one \o str
    OBVIOUS
  <2>4. /\ head \in Seq(C) /\ Len(head) = Len(one) + Len(str)
        /\ \A k \in 1 .. Len(one) + Len(str) :
             head[k] = IF k <= Len(one) THEN one[k] ELSE str[k - Len(one)]
    BY <1>2, <2>2, <2>3, ConcatProperties
  <2>5. 1 + n = n + 1
    OBVIOUS
  <2>6. Len(head) = n + 1 /\ \A k \in 1 .. n + 1 : head[k] = IF k <= 1 THEN one[k] ELSE str[k - 1]
    BY <1>4, <2>2, <2>4, <2>5
  <2>7. padded = head \o one
    BY <1>5, <2>1, <2>3, <2>16, Zenon
  <2>8. /\ padded \in Seq(C) /\ Len(padded) = Len(head) + Len(one)
        /\ \A k \in 1 .. Len(head) + Len(one) :
             padded[k] = IF k <= Len(head) THEN head[k] ELSE one[k - Len(head)]
    <3>1. head \in Seq(C) /\ one \in Seq(C)
      BY <2>2, <2>4
    <3> QED
      BY <2>7, <3>1, ConcatProperties
  <2>9. n + 1 + 1 = n + 2
    OBVIOUS
  <2>10. /\ padded \in Seq(C) /\ Len(padded) = n + 2
         /\ \A k \in 1 .. n + 2 : padded[k] = IF k <= n + 1 THEN head[k] ELSE one[k - (n + 1)]
    BY <2>2, <2>6, <2>8, <2>9
  <2>11. padded[1] = slash
    <3>1. 1 \in 1 .. n + 2 /\ 1 <= n + 1 /\ 1 \in 1 .. n + 1 /\ 1 <= 1
      OBVIOUS
    <3> QED
      BY <2>2, <2>6, <2>10, <3>1
  <2>12. padded[n + 2] = slash
    <3>1. n + 2 \in 1 .. n + 2 /\ ~(n + 2 <= n + 1) /\ n + 2 - (n + 1) = 1
      OBVIOUS
    <3> QED
      BY <2>2, <2>10, <3>1
  <2>13. ASSUME NEW k \in 1 .. n PROVE padded[k + 1] = str[k]
    <3>1. k + 1 \in 1 .. n + 2 /\ k + 1 <= n + 1 /\ k + 1 \in 1 .. n + 1 /\ ~(k + 1 <= 1) /\ k + 1 - 1 = k
      OBVIOUS
    <3>2. padded[k + 1] = head[k + 1]
      BY <2>10, <3>1
    <3>3. head[k + 1] = str[k + 1 - 1]
      BY <2>6, <3>1
    <3> QED
      BY <3>1, <3>2, <3>3
  <2>14. slash \in delimiters
    BY <1>3, <2>1
  <2> QED
    BY <1>4, <2>10, <2>11, <2>12, <2>13, <2>14 DEF Pads
<1>7. hasToken(str, delimiters, other) <=>
        \E e \in 1 .. Len(str) + 1 :
          (e = Len(str) + 1 \/ str[e] \in delimiters) /\ Ends(other, str, e, delimiters)
  BY <1>2, HasTokenIs
<1>8. hasToken(str, delimiters, other) => Encloses(padded, other, delimiters)
  BY <1>2, <1>6, <1>7, EndsEnclosed
<1>9. Encloses(padded, other, delimiters) => hasToken(str, delimiters, other)
  BY <1>2, <1>6, <1>7, EnclosedEnds
<1> QED
  BY <1>3, <1>5, <1>8, <1>9, Zenon DEF TokenIsEnclosed, Encloses

\* Of any text and any token, hasToken answers that it is there if and only if
\* it is enclosed by delimiters or the ends of the text (utils.cpp:106).
THEOREM TokenFoundIsEnclosed == Spec => []TokenIsEnclosed
BY InputsHold, TokenIsEnclosedHolds, PTL

-----------------------------------------------------------------------------
(* Digits and what they stand for. *)

Sixteen == 1 .. 16

LEMMA TextFrom == ASSUME NEW S, NEW n \in Nat, NEW d \in [1 .. n -> S] PROVE d \in Seq(S) /\ Len(d) = n
OBVIOUS

LEMMA DigitsDiffer ==
  /\ Digits \in Seq(ToSet(Digits)) /\ Len(Digits) = 16 /\ DOMAIN Digits = Sixteen
  /\ Digits[1] = "0"
  /\ \A i \in Sixteen : Digits[i] # Space
  /\ \A i, j \in Sixteen : Digits[i] = Digits[j] => i = j
<1>1. Len(Digits) = 16 /\ DOMAIN Digits = Sixteen /\ Digits[1] = "0"
  BY DEF Digits, Sixteen
<1>2. Digits \in Seq(ToSet(Digits))
  <2>1. PICK S : S = ToSet(Digits)
    OBVIOUS
  <2>2. \A i \in 1 .. 16 : Digits[i] \in S
    BY <1>1, <2>1 DEF ToSet, Sixteen
  <2>3. Digits = [i \in 1 .. 16 |-> Digits[i]]
    BY DEF Digits
  <2>4. ASSUME NEW d, \A i \in 1 .. 16 : d[i] \in S, d = [i \in 1 .. 16 |-> d[i]]
        PROVE  d \in Seq(S)
    <3>1. d \in [1 .. 16 -> S]
      BY <2>4
    <3> QED
      BY <3>1, TextFrom
  <2>5. Digits \in Seq(S)
    BY <2>2, <2>3, <2>4, Zenon
  <2> QED
    BY <2>1, <2>5
<1>3. /\ Digits[1] = "0" /\ Digits[2] = "1" /\ Digits[3] = "2" /\ Digits[4] = "3"
      /\ Digits[5] = "4" /\ Digits[6] = "5" /\ Digits[7] = "6" /\ Digits[8] = "7"
      /\ Digits[9] = "8" /\ Digits[10] = "9" /\ Digits[11] = "a" /\ Digits[12] = "b"
      /\ Digits[13] = "c" /\ Digits[14] = "d" /\ Digits[15] = "e" /\ Digits[16] = "f"
  BY DEF Digits
<1>4. \A i \in Sixteen : \/ i = 1 \/ i = 2 \/ i = 3 \/ i = 4 \/ i = 5 \/ i = 6 \/ i = 7 \/ i = 8
                         \/ i = 9 \/ i = 10 \/ i = 11 \/ i = 12 \/ i = 13 \/ i = 14 \/ i = 15 \/ i = 16
  BY DEF Sixteen
<1>5. PICK place : place =
        [d \in ToSet(Digits) |->
           CASE d = "0" -> 1 [] d = "1" -> 2 [] d = "2" -> 3 [] d = "3" -> 4
             [] d = "4" -> 5 [] d = "5" -> 6 [] d = "6" -> 7 [] d = "7" -> 8
             [] d = "8" -> 9 [] d = "9" -> 10 [] d = "a" -> 11 [] d = "b" -> 12
             [] d = "c" -> 13 [] d = "d" -> 14 [] d = "e" -> 15 [] d = "f" -> 16]
  OBVIOUS
<1>6. \A i \in Sixteen : Digits[i] \in ToSet(Digits)
  BY <1>1 DEF ToSet
<1>7. \A i \in Sixteen : place[Digits[i]] = i
  BY <1>3, <1>4, <1>5, <1>6
<1>8. \A i \in Sixteen : Digits[i] # Space
  BY <1>3, <1>4 DEF Space
<1> QED
  BY <1>1, <1>2, <1>7, <1>8

LEMMA DigitsAre ==
  ASSUME NEW base \in Sixteen
  PROVE  DigitsOf(base) = {Digits[i] : i \in 1 .. base}
<1>1. PICK d : d = Digits
  OBVIOUS
<1>2. d \in Seq(ToSet(Digits)) /\ Len(d) = 16
  BY <1>1, DigitsDiffer
<1>3. PICK s : s = SubSeq(d, 1, base)
  OBVIOUS
<1>4. Len(s) = base /\ s \in Seq(ToSet(Digits)) /\ \A k \in 1 .. base : s[k] = d[k]
  <2>1. base \in 0 .. Len(d)
    BY <1>2 DEF Sixteen
  <2> QED
    BY <1>2, <1>3, <2>1, UptoText DEF Upto
<1>5. DOMAIN s = 1 .. base
  BY <1>4
<1> QED
  BY <1>1, <1>3, <1>4, <1>5 DEF DigitsOf, ToSet

\* What a digit stands for.
LEMMA PlaceIs ==
  ASSUME NEW base \in Sixteen, NEW i \in 1 .. base
  PROVE  Place(Digits[i], base) = i - 1
<1>1. \A n \in 1 .. base : n \in Sixteen
  BY DEF Sixteen
<1>2. \A n \in 1 .. base : Digits[n] = Digits[i] => n = i
  BY <1>1, DigitsDiffer
<1>3. (CHOOSE n \in 1 .. base : Digits[n] = Digits[i]) = i
  BY <1>2
<1> QED
  BY <1>3 DEF Place

LEMMA PlaceNat ==
  ASSUME NEW base \in Sixteen, NEW d \in DigitsOf(base)
  PROVE  Place(d, base) \in Nat
<1>1. PICK i \in 1 .. base : d = Digits[i]
  BY DigitsAre
<1>2. Place(d, base) = i - 1
  BY <1>1, PlaceIs
<1> QED
  BY <1>2

-----------------------------------------------------------------------------
(* The value of digits. *)

\* One digit more.
ValueAfter(v, d, base) == v * base + Place(d, base)
Values(g, digits, base) ==
  /\ g \in [0 .. Len(digits) -> Nat] /\ g[0] = 0
  /\ \A i \in 1 .. Len(digits) : g[i] = ValueAfter(g[i - 1], digits[i], base)

LEMMA ValuesOneByOne ==
  ASSUME NEW base \in Sixteen, NEW digits \in Seq(DigitsOf(base))
  PROVE  \E g : Values(g, digits, base) /\ ValueOf(digits, base) = g[Len(digits)]
<1> PICK n \in Nat : n = Len(digits)
  OBVIOUS
<1>1. base \in Nat
  BY DEF Sixteen
<1>2. \A i \in 1 .. n : digits[i] \in DigitsOf(base)
  OBVIOUS
<1>3. \A i \in 1 .. n : Place(digits[i], base) \in Nat
  BY <1>2, PlaceNat
<1>4. \A i \in 1 .. n : \A v \in Nat : ValueAfter(v, digits[i], base) \in Nat
  BY <1>1, <1>3 DEF ValueAfter
<1>5. PICK step : step = [i \in 1 .. n |-> [v \in Nat |-> ValueAfter(v, digits[i], base)]]
  OBVIOUS
<1>6. Steps(step, n, Nat)
  BY <1>4, <1>5 DEF Steps
<1>7. PICK f : Iterates(f, 0, step, n, Nat)
  BY <1>6, Recursion
<1>8. f \in [0 .. n -> Nat] /\ f[0] = 0
  BY <1>7 DEF Iterates
<1>9. \A i \in 1 .. n : f[i] = ValueAfter(f[i - 1], digits[i], base)
  <2> SUFFICES ASSUME NEW i \in 1 .. n PROVE f[i] = ValueAfter(f[i - 1], digits[i], base)
    OBVIOUS
  <2>0. i - 1 \in 0 .. n
    OBVIOUS
  <2>1. f[i - 1] \in Nat
    BY <1>8, <2>0
  <2>2. f[i] = step[i][f[i - 1]]
    BY <1>7 DEF Iterates
  <2> QED
    BY <1>5, <2>1, <2>2
<1> DEFINE Read(g) ==
      g = [i \in 0 .. Len(digits) |-> IF i = 0 THEN 0 ELSE ValueAfter(g[i - 1], digits[i], base)]
<1>10. Read(f)
  <2>1. \A i \in 0 .. n : i # 0 => i \in 1 .. n
    OBVIOUS
  <2> QED
    BY <1>8, <1>9, <2>1
<1>11. ValueOf(digits, base) = (CHOOSE g : Read(g))[Len(digits)]
  BY DEF ValueOf, ValueAfter
<1>12. PICK h : Read(h) /\ ValueOf(digits, base) = h[n]
  <2> HIDE DEF Read
  <2> QED
    BY <1>10, <1>11
<1>13. h[0] = 0 /\ \A i \in 1 .. n : h[i] = ValueAfter(h[i - 1], digits[i], base)
  <2>1. h = [i \in 0 .. n |-> IF i = 0 THEN 0 ELSE ValueAfter(h[i - 1], digits[i], base)]
    BY <1>12
  <2>2. 0 \in 0 .. n /\ \A i \in 1 .. n : i \in 0 .. n /\ i # 0
    OBVIOUS
  <2>3. h[0] = 0
    BY <2>1, <2>2, Zenon
  <2>4. ASSUME NEW i \in 1 .. n PROVE h[i] = ValueAfter(h[i - 1], digits[i], base)
    <3>1. i \in 0 .. n /\ i # 0
      OBVIOUS
    <3> QED
      BY <2>1, <3>1, Zenon
  <2> QED
    BY <2>3, <2>4
<1>14. h[n] = f[n]
  <2>1. PICK T : T = {i \in 0 .. n : h[i] = f[i]}
    OBVIOUS
  <2>2. 0 \in T /\ \A i \in 1 .. n : i - 1 \in T => i \in T
    BY <1>8, <1>9, <1>13, <2>1
  <2>3. \A i \in 0 .. n : i \in T
    BY <2>2, Induction
  <2> QED
    BY <2>1, <2>3
<1>15. Values(f, digits, base)
  BY <1>8, <1>9 DEF Values
<1> QED
  BY <1>12, <1>14, <1>15

LEMMA ValueAppend ==
  ASSUME NEW base \in Sixteen, NEW digits \in Seq(DigitsOf(base)), NEW d \in DigitsOf(base)
  PROVE  /\ ValueOf(digits, base) \in Nat
         /\ ValueOf(Append(digits, d), base) = ValueAfter(ValueOf(digits, base), d, base)
<1>1. PICK n \in Nat : n = Len(digits)
  OBVIOUS
<1>2. PICK longer : longer = Append(digits, d)
  OBVIOUS
<1>3. /\ longer \in Seq(DigitsOf(base)) /\ Len(longer) = n + 1 /\ longer[n + 1] = d
      /\ \A k \in 1 .. n : longer[k] = digits[k]
  BY <1>1, <1>2, AppendProperties
<1>4. PICK g : Values(g, digits, base) /\ ValueOf(digits, base) = g[Len(digits)]
  BY ValuesOneByOne
<1>5. PICK h : Values(h, longer, base) /\ ValueOf(longer, base) = h[Len(longer)]
  BY <1>3, ValuesOneByOne
<1>6. /\ g \in [0 .. n -> Nat] /\ g[0] = 0
      /\ \A i \in 1 .. n : g[i] = ValueAfter(g[i - 1], digits[i], base)
  BY <1>1, <1>4, Zenon DEF Values
<1>7. h[0] = 0 /\ \A i \in 1 .. n + 1 : h[i] = ValueAfter(h[i - 1], longer[i], base)
  BY <1>3, <1>5, Zenon DEF Values
<1>8. \A i \in 1 .. n : i \in 1 .. n + 1 /\ i - 1 \in 0 .. n
  OBVIOUS
<1>9. \A i \in 1 .. n : h[i] = ValueAfter(h[i - 1], digits[i], base)
  BY <1>3, <1>7, <1>8, Zenon
<1>10. h[n] = g[n]
  <2>1. PICK T : T = {i \in 0 .. n : h[i] = g[i]}
    OBVIOUS
  <2>2. 0 \in T
    BY <1>6, <1>7, <2>1
  <2>3. ASSUME NEW i \in 1 .. n, i - 1 \in T PROVE i \in T
    <3>1. h[i - 1] = g[i - 1]
      BY <2>1, <2>3
    <3>2. h[i] = g[i]
      BY <1>6, <1>9, <3>1, Zenon
    <3> QED
      BY <2>1, <3>2
  <2>4. \A i \in 0 .. n : i \in T
    BY <2>2, <2>3, Induction
  <2> QED
    BY <2>1, <2>4
<1>11. h[n + 1] = ValueAfter(h[n], d, base)
  <2>1. PICK last : last = n + 1
    OBVIOUS
  <2>2. last \in 1 .. n + 1 /\ last - 1 = n
    BY <2>1
  <2>3. h[last] = ValueAfter(h[last - 1], longer[last], base)
    BY <1>7, <2>2, Zenon
  <2> QED
    BY <1>3, <2>1, <2>2, <2>3, Zenon
<1>12. n \in 0 .. n
  OBVIOUS
<1>13. g[n] \in Nat
  BY <1>6, <1>12
<1>14. ValueOf(digits, base) = g[n]
  BY <1>1, <1>4, Zenon
<1>15. ValueOf(longer, base) = h[n + 1]
  BY <1>3, <1>5, Zenon
<1> QED
  BY <1>2, <1>10, <1>11, <1>13, <1>14, <1>15, Zenon

LEMMA ValueOfNone == ASSUME NEW base \in Sixteen PROVE ValueOf(<<>>, base) = 0
<1>1. <<>> \in Seq(DigitsOf(base)) /\ Len(<<>>) = 0
  OBVIOUS
<1>2. PICK g : Values(g, <<>>, base) /\ ValueOf(<<>>, base) = g[Len(<<>>)]
  BY <1>1, ValuesOneByOne
<1> QED
  BY <1>1, <1>2, Zenon DEF Values

\* Zeros before a number are worth nothing.
Fill(c, k) == [i \in 1 .. k |-> c]

LEMMA FillText ==
  ASSUME NEW S, NEW c \in S, NEW k \in Nat
  PROVE  Fill(c, k) \in Seq(S) /\ Len(Fill(c, k)) = k /\ \A i \in 1 .. k : Fill(c, k)[i] = c
<1>1. PICK f : f = Fill(c, k)
  OBVIOUS
<1>2. f \in [1 .. k -> S] /\ \A i \in 1 .. k : f[i] = c
  BY <1>1 DEF Fill
<1>3. f \in Seq(S) /\ Len(f) = k
  BY <1>2, TextFrom
<1> QED
  BY <1>1, <1>2, <1>3

LEMMA FillMore ==
  ASSUME NEW S, NEW c \in S, NEW k \in Nat \ {0}
  PROVE  Fill(c, k) = Append(Fill(c, k - 1), c)
<1>1. PICK f : f = Fill(c, k)
  OBVIOUS
<1>2. PICK g : g = Fill(c, k - 1)
  OBVIOUS
<1>3. f \in Seq(S) /\ Len(f) = k /\ \A i \in 1 .. k : f[i] = c
  BY <1>1, FillText
<1>4. k - 1 \in Nat
  OBVIOUS
<1>5. g \in Seq(S) /\ Len(g) = k - 1 /\ \A i \in 1 .. k - 1 : g[i] = c
  BY <1>2, <1>4, FillText
<1>6. PICK h : h = Append(g, c)
  OBVIOUS
<1>7. h \in Seq(S) /\ Len(h) = Len(g) + 1 /\ h[Len(g) + 1] = c /\ \A i \in 1 .. Len(g) : h[i] = g[i]
  BY <1>5, <1>6, AppendProperties
<1>8. Len(g) + 1 = k /\ \A i \in 1 .. k : i \in 1 .. k - 1 \/ i = k
  BY <1>5
<1>9. \A i \in 1 .. k : f[i] = h[i]
  BY <1>3, <1>5, <1>7, <1>8
<1>10. Len(h) = k
  BY <1>7, <1>8
<1>11. f = h
  BY <1>3, <1>7, <1>9, <1>10, SameText
<1> QED
  BY <1>1, <1>2, <1>6, <1>11

LEMMA ZerosAreNothing ==
  ASSUME NEW base \in Sixteen, NEW k \in Nat
  PROVE  "0" \in DigitsOf(base) /\ ValueOf(Fill("0", k), base) = 0
<1>1. "0" \in DigitsOf(base) /\ Place("0", base) = 0 /\ base \in Nat
  <2>1. 1 \in 1 .. base /\ Digits[1] = "0" /\ base \in Nat
    BY DigitsDiffer DEF Sixteen
  <2>2. Digits[1] \in DigitsOf(base)
    BY <2>1, DigitsAre
  <2>3. Place(Digits[1], base) = 0
    BY <2>1, PlaceIs
  <2> QED
    BY <2>1, <2>2, <2>3
<1>2. PICK T : T = {i \in 0 .. k : ValueOf(Fill("0", i), base) = 0}
  OBVIOUS
<1>3. 0 \in T
  <2>1. Fill("0", 0) = <<>>
    BY DEF Fill
  <2> QED
    BY <1>2, <2>1, ValueOfNone
<1>4. ASSUME NEW i \in 1 .. k, i - 1 \in T PROVE i \in T
  <2>1. i - 1 \in Nat /\ i \in Nat \ {0} /\ i \in 0 .. k
    OBVIOUS
  <2>2. Fill("0", i - 1) \in Seq(DigitsOf(base))
    BY <1>1, <2>1, FillText
  <2>3. Fill("0", i) = Append(Fill("0", i - 1), "0")
    BY <1>1, <2>1, FillMore
  <2>4. ValueOf(Fill("0", i), base) = ValueAfter(ValueOf(Fill("0", i - 1), base), "0", base)
    BY <1>1, <2>2, <2>3, ValueAppend
  <2>5. ValueOf(Fill("0", i - 1), base) = 0
    BY <1>2, <1>4
  <2>6. ValueAfter(0, "0", base) = 0
    BY <1>1 DEF ValueAfter
  <2> QED
    BY <1>2, <2>1, <2>4, <2>5, <2>6
<1>5. \A i \in 0 .. k : i \in T
  BY <1>3, <1>4, Induction
<1>6. k \in T
  BY <1>5
<1> QED
  BY <1>1, <1>2, <1>6

-----------------------------------------------------------------------------
(* The digits of a number. *)

\* What holds of a number up to m if of all that are smaller holds of them all.
LEMMA StrongInduction ==
  ASSUME NEW m \in Nat, NEW T, \A i \in 0 .. m : (\A j \in 0 .. i - 1 : j \in T) => i \in T
  PROVE  \A i \in 0 .. m : i \in T
<1> SUFFICES ASSUME NEW k \in 0 .. m, k \notin T PROVE FALSE
  OBVIOUS
<1>1. PICK Others : Others = (0 .. m) \ T
  OBVIOUS
<1>2. Others \in SUBSET Nat /\ Others # {}
  BY <1>1
<1>3. PICK i \in Others : \A j \in Others : i <= j
  BY <1>2, LeastNumber
<1>4. \A j \in 0 .. i - 1 : j \in 0 .. m /\ ~(i <= j)
  BY <1>1
<1>5. i \in 0 .. m /\ i \notin T /\ \A j \in 0 .. i - 1 : j \in T
  BY <1>1, <1>3, <1>4
<1> QED
  BY <1>5

Bases == {8, 10, 16}

LEMMA LastDigit ==
  ASSUME NEW base \in Bases, NEW n \in Nat
  PROVE  /\ n % base \in 0 .. base - 1 /\ n \div base \in Nat
         /\ (n \div base) * base + (n % base) = n
         /\ n < base => n % base = n
         /\ n >= base => n \div base \in 1 .. n - 1
<1>1. n % base \in 0 .. base - 1
  BY DEF Bases
<1>2. n \div base \in Nat
  BY DEF Bases
<1>3. (n \div base) * base + (n % base) = n
  <2>1. (n \div 8) * 8 + (n % 8) = n
    OBVIOUS
  <2>2. (n \div 10) * 10 + (n % 10) = n
    OBVIOUS
  <2>3. (n \div 16) * 16 + (n % 16) = n
    OBVIOUS
  <2> QED
    BY <2>1, <2>2, <2>3, Zenon DEF Bases
<1>4. n < base => n % base = n
  BY DEF Bases
<1>5. n >= base => n \div base \in 1 .. n - 1
  BY DEF Bases
<1> QED
  BY <1>1, <1>2, <1>3, <1>4, <1>5

DigitText(n, base) == <<Digits[(n % base) + 1]>>
WrittenAfter(f, n, base) ==
  IF n < base THEN DigitText(n, base) ELSE f[n \div base] \o DigitText(n, base)
Writes(g, m, base) ==
  /\ g \in [0 .. m -> Seq(DigitsOf(base))]
  /\ \A n \in 0 .. m : g[n] = WrittenAfter(g, n, base)

LEMMA DigitTextIs ==
  ASSUME NEW base \in Bases, NEW n \in Nat
  PROVE  /\ Digits[(n % base) + 1] \in DigitsOf(base)
         /\ Place(Digits[(n % base) + 1], base) = n % base
         /\ DigitText(n, base) \in Seq(DigitsOf(base))
<1>1. base \in Sixteen /\ base \in Nat
  BY DEF Bases, Sixteen
<1>2. PICK r \in 0 .. base - 1 : r = n % base
  BY LastDigit
<1>6. PICK k \in 1 .. base : k = r + 1 /\ k - 1 = r
  BY <1>1
<1>3. Digits[k] \in DigitsOf(base) /\ Place(Digits[k], base) = k - 1
  BY <1>1, <1>6, DigitsAre, PlaceIs
<1>4. PICK d \in DigitsOf(base) : d = Digits[k]
  BY <1>3
<1>5. <<d>> \in Seq(DigitsOf(base))
  OBVIOUS
<1> QED
  BY <1>2, <1>3, <1>4, <1>5, <1>6 DEF DigitText

LEMMA WritesExists ==
  ASSUME NEW base \in Bases, NEW m \in Nat
  PROVE  \E g : Writes(g, m, base)
<1>1. PICK S : S = Seq(DigitsOf(base))
  OBVIOUS
<1>2. \A n \in Nat : DigitText(n, base) \in S
  BY <1>1, DigitTextIs
<1>3. \A s \in S, t \in S : s \o t \in S
  BY <1>1, ConcatProperties
<1> DEFINE Until(n) == \E g : Writes(g, n, base)
<1>4. Until(0)
  <2>1. PICK g : g = [n \in 0 .. 0 |-> DigitText(n, base)]
    OBVIOUS
  <2>2. g \in [0 .. 0 -> S]
    BY <1>2, <2>1
  <2>3. \A n \in 0 .. 0 : n < base
    BY DEF Bases
  <2>4. \A n \in 0 .. 0 : g[n] = WrittenAfter(g, n, base)
    BY <2>1, <2>3 DEF WrittenAfter
  <2> QED
    BY <1>1, <2>2, <2>4 DEF Writes
<1>5. ASSUME NEW k \in 1 .. m, Until(k - 1) PROVE Until(k)
  <2>1. PICK f : Writes(f, k - 1, base)
    BY <1>5
  <2>2. f \in [0 .. k - 1 -> S] /\ \A n \in 0 .. k - 1 : f[n] = WrittenAfter(f, n, base)
    BY <1>1, <2>1 DEF Writes
  <2>3. PICK g : g = [n \in 0 .. k |-> IF n = k THEN WrittenAfter(f, k, base) ELSE f[n]]
    OBVIOUS
  <2>4. \A n \in 0 .. k : n >= base => n \div base \in 0 .. k - 1 /\ n \div base # k
    <3> SUFFICES ASSUME NEW n \in 0 .. k, n >= base
                 PROVE  n \div base \in 0 .. k - 1 /\ n \div base # k
      OBVIOUS
    <3>1. n \div base \in 1 .. n - 1
      BY LastDigit
    <3> QED
      BY <3>1
  <2>5. \A n \in 0 .. k - 1 : g[n] = f[n]
    BY <2>3
  <2>6. \A n \in 0 .. k : WrittenAfter(g, n, base) = WrittenAfter(f, n, base)
    <3> SUFFICES ASSUME NEW n \in 0 .. k PROVE WrittenAfter(g, n, base) = WrittenAfter(f, n, base)
      OBVIOUS
    <3>1. CASE n < base
      BY <3>1 DEF WrittenAfter
    <3>2. CASE ~(n < base)
      <4>1. n >= base
        BY <3>2 DEF Bases
      <4>2. g[n \div base] = f[n \div base]
        BY <2>4, <2>5, <4>1
      <4> QED
        BY <4>2 DEF WrittenAfter
    <3> QED
      BY <3>1, <3>2
  <2>7. \A n \in 0 .. k : g[n] = WrittenAfter(f, n, base)
    <3>1. \A n \in 0 .. k : n = k \/ n \in 0 .. k - 1
      OBVIOUS
    <3>2. g[k] = WrittenAfter(f, k, base)
      BY <2>3
    <3> QED
      BY <2>2, <2>5, <3>1, <3>2
  <2>8. WrittenAfter(f, k, base) \in S
    <3>1. CASE k < base
      BY <1>2, <3>1 DEF WrittenAfter
    <3>2. CASE ~(k < base)
      <4>1. k >= base /\ k \in 0 .. k
        BY <3>2 DEF Bases
      <4>2. f[k \div base] \in S
        BY <2>2, <2>4, <4>1
      <4>3. f[k \div base] \o DigitText(k, base) \in S
        BY <1>2, <1>3, <4>2
      <4> QED
        BY <3>2, <4>3 DEF WrittenAfter
    <3> QED
      BY <3>1, <3>2
  <2>9. g \in [0 .. k -> S]
    BY <2>2, <2>3, <2>8
  <2> QED
    BY <1>1, <2>6, <2>7, <2>9 DEF Writes
<1> HIDE DEF Until
<1>6. PICK T : T = {n \in 0 .. m : Until(n)}
  OBVIOUS
<1>7. 0 \in T /\ \A n \in 1 .. m : n - 1 \in T => n \in T
  BY <1>4, <1>5, <1>6
<1>8. m \in T
  BY <1>7, Induction
<1>9. Until(m)
  BY <1>6, <1>8
<1> QED
  BY <1>9 DEF Until

LEMMA WrittenOneByOne ==
  ASSUME NEW base \in Bases, NEW m \in Nat
  PROVE  \E g : Writes(g, m, base) /\ Written(m, base) = g[m]
<1>1. PICK f : Writes(f, m, base)
  BY WritesExists
<1>2. f \in [0 .. m -> Seq(DigitsOf(base))] /\ \A n \in 0 .. m : f[n] = WrittenAfter(f, n, base)
  BY <1>1 DEF Writes
<1> DEFINE Read(g) == g = [n \in 0 .. m |-> WrittenAfter(g, n, base)]
<1>3. Read(f)
  BY <1>2, Zenon
<1>4. Written(m, base) = (CHOOSE g : Read(g))[m]
  BY DEF Written, WrittenAfter, DigitText
<1>5. PICK h : Read(h) /\ Written(m, base) = h[m]
  <2> HIDE DEF Read
  <2> QED
    BY <1>3, <1>4
<1>6. \A n \in 0 .. m : h[n] = WrittenAfter(h, n, base)
  <2>1. h = [n \in 0 .. m |-> WrittenAfter(h, n, base)]
    BY <1>5
  <2> QED
    BY <2>1, Zenon
<1>7. PICK T : T = {n \in 0 .. m : h[n] = f[n]}
  OBVIOUS
<1>8. ASSUME NEW n \in 0 .. m, \A j \in 0 .. n - 1 : j \in T PROVE n \in T
  <2>1. WrittenAfter(h, n, base) = WrittenAfter(f, n, base)
    <3>1. CASE n < base
      BY <3>1 DEF WrittenAfter
    <3>2. CASE ~(n < base)
      <4>1. n \div base \in 0 .. n - 1
        <5>1. n >= base
          BY <3>2 DEF Bases
        <5>2. n \div base \in 1 .. n - 1
          BY <5>1, LastDigit
        <5> QED
          BY <5>2
      <4>2. h[n \div base] = f[n \div base]
        BY <1>7, <1>8, <4>1
      <4> QED
        BY <4>2 DEF WrittenAfter
    <3> QED
      BY <3>1, <3>2
  <2> QED
    BY <1>2, <1>6, <1>7, <2>1
<1>9. \A n \in 0 .. m : n \in T
  BY <1>8, StrongInduction
<1>10. m \in 0 .. m
  OBVIOUS
<1>11. h[m] = f[m]
  BY <1>7, <1>9, <1>10
<1> QED
  BY <1>1, <1>5, <1>11

\* What is written is a text of digits, the first of which is not 0 unless it is
\* the only one, and its value is the number, whatever zeros stand before it.
ReadsAs(text, n, base) ==
  /\ text \in Seq(DigitsOf(base)) /\ text # <<>> /\ Len(text) \in Nat \ {0}
  /\ IF n = 0 THEN text = <<"0">> ELSE text[1] # "0"
  /\ \A k \in Nat : ValueOf(Fill("0", k) \o text, base) = n

LEMMA FillAppend ==
  ASSUME NEW S, NEW c \in S, NEW k \in Nat, NEW text \in Seq(S), NEW d \in S
  PROVE  /\ Fill(c, k) \o <<d>> = Append(Fill(c, k), d)
         /\ Fill(c, k) \o (text \o <<d>>) = Append(Fill(c, k) \o text, d)
         /\ Fill(c, k) \o text \in Seq(S)
<1>1. PICK f \in Seq(S) : f = Fill(c, k)
  BY FillText
<1>2. f \o <<d>> = Append(f, d)
  OBVIOUS
<1>3. f \o (text \o <<d>>) = Append(f \o text, d)
  OBVIOUS
<1>4. f \o text \in Seq(S)
  OBVIOUS
<1> QED
  BY <1>1, <1>2, <1>3, <1>4, Zenon

\* The digit for 0 is "0", and no other.
LEMMA ZeroDigit ==
  ASSUME NEW base \in Bases, NEW n \in Nat, n < base
  PROVE  IF n = 0 THEN Digits[(n % base) + 1] = "0" ELSE Digits[(n % base) + 1] # "0"
<1>1. n % base = n
  BY LastDigit
<1>2. PICK k : k = n + 1
  OBVIOUS
<1>3. k \in Sixteen /\ 1 \in Sixteen /\ (n = 0 <=> k = 1)
  BY <1>2 DEF Bases, Sixteen
<1>4. n = 0 <=> Digits[k] = "0"
  BY <1>3, DigitsDiffer
<1> QED
  BY <1>1, <1>2, <1>4

LEMMA OneDigit ==
  ASSUME NEW base \in Bases, NEW n \in Nat, n < base
  PROVE  ReadsAs(DigitText(n, base), n, base)
<1>1. PICK d \in DigitsOf(base) : d = Digits[(n % base) + 1]
  BY DigitTextIs
<1>2. base \in Sixteen /\ base \in Nat /\ Place(d, base) = n
  <2>1. base \in Sixteen /\ base \in Nat
    BY DEF Bases, Sixteen
  <2>2. n % base = n
    BY LastDigit
  <2>3. Place(d, base) = n % base
    BY <1>1, DigitTextIs
  <2> QED
    BY <2>1, <2>2, <2>3
<1>3. DigitText(n, base) = <<d>>
  BY <1>1 DEF DigitText
<1>4. <<d>> \in Seq(DigitsOf(base)) /\ <<d>> # <<>> /\ Len(<<d>>) = 1 /\ <<d>>[1] = d
  OBVIOUS
<1>5. IF n = 0 THEN d = "0" ELSE d # "0"
  BY <1>1, ZeroDigit
<1>6. ASSUME NEW k \in Nat PROVE ValueOf(Fill("0", k) \o <<d>>, base) = n
  <2>1. PICK f : f = Fill("0", k)
    OBVIOUS
  <2>2. "0" \in DigitsOf(base) /\ ValueOf(f, base) = 0
    BY <1>2, <2>1, ZerosAreNothing
  <2>3. f \in Seq(DigitsOf(base))
    BY <2>1, <2>2, FillText
  <2>4. f \o <<d>> = Append(f, d)
    BY <2>3
  <2>5. ValueOf(Append(f, d), base) = ValueAfter(0, d, base)
    BY <1>2, <2>2, <2>3, ValueAppend
  <2>6. ValueAfter(0, d, base) = n
    BY <1>2 DEF ValueAfter
  <2> QED
    BY <2>1, <2>4, <2>5, <2>6
<1>7. 1 \in Nat \ {0}
  OBVIOUS
<1> QED
  BY <1>3, <1>4, <1>5, <1>6, <1>7, Zenon DEF ReadsAs

LEMMA OneDigitMore ==
  ASSUME NEW base \in Bases, NEW n \in Nat, n >= base, NEW text, ReadsAs(text, n \div base, base)
  PROVE  ReadsAs(text \o DigitText(n, base), n, base)
<1>1. PICK d \in DigitsOf(base) : d = Digits[(n % base) + 1]
  BY DigitTextIs
<1>2. PICK q \in Nat : q = n \div base
  BY LastDigit
<1>3. base \in Sixteen /\ base \in Nat /\ base # 0 /\ q # 0 /\ q * base + Place(d, base) = n
  <2>1. base \in Sixteen /\ base \in Nat /\ base # 0
    BY DEF Bases, Sixteen
  <2>2. Place(d, base) = n % base
    BY <1>1, DigitTextIs
  <2>3. q * base + (n % base) = n
    BY <1>2, LastDigit
  <2>4. q \in 1 .. n - 1
    BY <1>2, LastDigit
  <2> QED
    BY <2>1, <2>2, <2>3, <2>4
<1>4. n # 0
  BY <1>3
<1>5. /\ text \in Seq(DigitsOf(base)) /\ text # <<>> /\ Len(text) \in Nat \ {0}
      /\ text[1] # "0"
      /\ \A k \in Nat : ValueOf(Fill("0", k) \o text, base) = q
  BY <1>2, <1>3, Zenon DEF ReadsAs
<1>6. PICK longer : longer = text \o <<d>>
  OBVIOUS
<1>7. longer \in Seq(DigitsOf(base)) /\ longer # <<>> /\ Len(longer) \in Nat \ {0} /\ longer[1] # "0"
  BY <1>5, <1>6
<1>8. ASSUME NEW k \in Nat PROVE ValueOf(Fill("0", k) \o longer, base) = n
  <2>1. "0" \in DigitsOf(base)
    BY <1>3, ZerosAreNothing
  <2>2. PICK before \in Seq(DigitsOf(base)) : before = Fill("0", k) \o text
    BY <1>5, <2>1, FillAppend
  <2>3. Fill("0", k) \o longer = Append(before, d)
    <3>1. PICK f \in Seq(DigitsOf(base)) : f = Fill("0", k)
      BY <2>1, FillText
    <3>2. f \o (text \o <<d>>) = Append(f \o text, d)
      BY <1>5
    <3> QED
      BY <1>6, <2>2, <3>1, <3>2, Zenon
  <2>4. ValueOf(before, base) = q
    BY <1>5, <2>2
  <2>5. ValueOf(Append(before, d), base) = ValueAfter(q, d, base)
    BY <1>3, <2>4, ValueAppend
  <2> QED
    BY <1>3, <2>3, <2>5 DEF ValueAfter
<1>9. text \o DigitText(n, base) = longer
  BY <1>1, <1>6 DEF DigitText
<1> QED
  BY <1>4, <1>7, <1>8, <1>9, Zenon DEF ReadsAs

LEMMA WrittenReadsAs ==
  ASSUME NEW base \in Bases, NEW m \in Nat
  PROVE  ReadsAs(Written(m, base), m, base)
<1>1. PICK g : Writes(g, m, base) /\ Written(m, base) = g[m]
  BY WrittenOneByOne
<1>2. PICK T : T = {n \in 0 .. m : ReadsAs(g[n], n, base)}
  OBVIOUS
<1>3. ASSUME NEW n \in 0 .. m, \A j \in 0 .. n - 1 : j \in T PROVE n \in T
  <2>1. g[n] = WrittenAfter(g, n, base)
    BY <1>1 DEF Writes
  <2>2. CASE n < base
    <3>1. g[n] = DigitText(n, base)
      BY <2>1, <2>2 DEF WrittenAfter
    <3> QED
      BY <1>2, <2>2, <3>1, OneDigit
  <2>3. CASE ~(n < base)
    <3>1. n >= base
      BY <2>3 DEF Bases
    <3>2. n \div base \in 0 .. n - 1
      <4>1. n \div base \in 1 .. n - 1
        BY <3>1, LastDigit
      <4> QED
        BY <4>1
    <3>3. ReadsAs(g[n \div base], n \div base, base)
      BY <1>2, <1>3, <3>2
    <3>4. g[n] = g[n \div base] \o DigitText(n, base)
      BY <2>1, <2>3 DEF WrittenAfter
    <3>5. n \in Nat
      OBVIOUS
    <3>6. ReadsAs(g[n \div base] \o DigitText(n, base), n, base)
      BY <3>1, <3>3, <3>5, OneDigitMore
    <3> QED
      BY <1>2, <3>4, <3>6
  <2> QED
    BY <2>2, <2>3
<1>4. \A n \in 0 .. m : n \in T
  BY <1>3, StrongInduction
<1>5. m \in T
  BY <1>4
<1> QED
  BY <1>1, <1>2, <1>5

-----------------------------------------------------------------------------
(* Reading a number. *)

LEMMA DigitNoSpace ==
  ASSUME NEW base \in Sixteen, NEW d \in DigitsOf(base)
  PROVE  d # Space
<1>1. PICK i \in 1 .. base : d = Digits[i]
  BY DigitsAre
<1>2. i \in Sixteen
  BY DEF Sixteen
<1> QED
  BY <1>1, <1>2, DigitsDiffer

\* The number that the digits after the spaces are, if it fits.
LEMMA SpacesThenNumber ==
  ASSUME NEW b \in Bases, NEW base, NEW text \in Seq(DigitsOf(b)), text # <<>>,
         ReadBase(text, base) = b, ValueOf(text, b) \in 0 .. MaxUInt, NEW k \in Nat
  PROVE  stringToNumber(Fill(Space, k) \o text, base) = {ValueOf(text, b)}
<1>1. b \in Sixteen
  BY DEF Bases, Sixteen
<1>2. PICK n \in Nat : n = Len(text) /\ n > 0
  OBVIOUS
<1>3. PICK S : S = DigitsOf(b) \cup {Space}
  OBVIOUS
<1>4. PICK spaces \in Seq(S) : spaces = Fill(Space, k) /\ Len(spaces) = k /\ \A i \in 1 .. k : spaces[i] = Space
  <2>1. Space \in S
    BY <1>3
  <2>2. /\ Fill(Space, k) \in Seq(S) /\ Len(Fill(Space, k)) = k
        /\ \A i \in 1 .. k : Fill(Space, k)[i] = Space
    BY <2>1, FillText
  <2> QED
    BY <2>2, Zenon
<1>5. text \in Seq(S)
  BY <1>3
<1>6. PICK s \in Seq(S) : /\ s = spaces \o text /\ Len(s) = k + n
                          /\ \A i \in 1 .. k : s[i] = Space
                          /\ \A i \in 1 .. n : s[k + i] = text[i]
  <2>1. PICK s : s = spaces \o text
    OBVIOUS
  <2>2. s \in Seq(S) /\ Len(s) = k + n
    <3>1. spaces \o text \in Seq(S) /\ Len(spaces \o text) = Len(spaces) + Len(text)
      BY <1>5
    <3> QED
      BY <1>2, <1>4, <2>1, <3>1, Zenon
  <2>3. ASSUME NEW i \in 1 .. k PROVE s[i] = Space
    <3>1. s[i] = spaces[i]
      BY <1>2, <1>4, <1>5, <2>1
    <3> QED
      BY <1>4, <3>1
  <2>4. ASSUME NEW i \in 1 .. n PROVE s[k + i] = text[i]
    BY <1>2, <1>4, <1>5, <2>1
  <2> QED
    BY <2>1, <2>2, <2>3, <2>4
<1>7. \A i \in 1 .. n : text[i] \in DigitsOf(b)
  BY <1>2
<1>8. s[k + 1] # Space
  <2>1. 1 \in 1 .. n
    BY <1>2
  <2> QED
    BY <1>1, <1>6, <1>7, <2>1, DigitNoSpace
<1>9. Max({i \in 0 .. Len(s) : \A j \in 1 .. i : s[j] = Space}) = k
  <2>1. PICK T : T = {i \in 0 .. k + n : \A j \in 1 .. i : s[j] = Space}
    OBVIOUS
  <2>2. k \in T
    <3>1. k \in 0 .. k + n
      OBVIOUS
    <3> QED
      BY <1>6, <2>1, <3>1, Zenon
  <2>3. T \in SUBSET (0 .. k + n) /\ T # {} /\ k + n \in Nat
    <3>1. T \in SUBSET (0 .. k + n)
      BY <2>1, Zenon
    <3>2. k + n \in Nat
      OBVIOUS
    <3> QED
      BY <2>2, <3>1, <3>2, Zenon
  <2>4. Max(T) \in T /\ \A y \in T : y <= Max(T)
    BY <2>3, MaxFound
  <2>5. \A y \in T : y <= k
    <3> SUFFICES ASSUME NEW y \in T, k + 1 <= y PROVE FALSE
      BY <2>3
    <3>1. k + 1 \in 1 .. y
      BY <2>3
    <3> QED
      BY <1>8, <2>1, <3>1
  <2>6. Max(T) = k
    <3>1. PICK m \in 0 .. k + n : m = Max(T)
      BY <2>3, <2>4, Zenon
    <3>2. m <= k /\ k <= m
      BY <2>2, <2>4, <2>5, <3>1, Zenon
    <3> QED
      BY <3>1, <3>2
  <2> QED
    BY <1>6, <2>1, <2>6
<1>10. SubSeq(s, k + 1, Len(s)) = text
  <2>1. PICK rest : rest = SubSeq(s, k + 1, k + n)
    OBVIOUS
  <2>2. k + n \in 0 .. Len(s) /\ k \in 0 .. k + n /\ k + n - k = n
    BY <1>6
  <2>3. rest \in Seq(S) /\ Len(rest) = n /\ \A i \in 1 .. n : rest[i] = s[k + i]
    BY <2>1, <2>2, StretchText
  <2>4. \A i \in 1 .. n : rest[i] = text[i]
    BY <1>6, <2>3
  <2>5. rest = text
    BY <1>2, <1>5, <2>3, <2>4, SameText
  <2> QED
    BY <1>6, <2>1, <2>5
<1>11. Max({i \in 0 .. Len(text) : \A j \in 1 .. i : text[j] \in DigitsOf(b)}) = n
  <2>1. PICK T : T = {i \in 0 .. n : \A j \in 1 .. i : text[j] \in DigitsOf(b)}
    OBVIOUS
  <2>2. n \in T
    BY <1>7, <2>1
  <2>3. T \in SUBSET (0 .. n) /\ T # {}
    BY <2>1, <2>2
  <2>4. Max(T) \in T /\ \A y \in T : y <= Max(T)
    BY <2>3, MaxFound
  <2>5. Max(T) = n
    <3>1. PICK m \in 0 .. n : m = Max(T)
      BY <2>3, <2>4, Zenon
    <3>2. n <= m
      BY <2>2, <2>4, <3>1, Zenon
    <3> QED
      BY <3>1, <3>2
  <2> QED
    BY <1>2, <2>1, <2>5
<1>12. SubSeq(text, 1, n) = text
  <2>1. PICK all : all = SubSeq(text, 1, n)
    OBVIOUS
  <2>2. n \in 0 .. Len(text)
    BY <1>2
  <2>3. all \in Seq(S) /\ Len(all) = n /\ \A i \in 1 .. n : all[i] = text[i]
    BY <1>5, <2>1, <2>2, UptoText DEF Upto
  <2>4. all = text
    BY <1>2, <1>5, <2>3, SameText
  <2> QED
    BY <2>1, <2>4
<1>13. Min({ValueOf(text, b), MaxUInt}) = ValueOf(text, b)
  <2>1. PICK v \in 0 .. MaxUInt : v = ValueOf(text, b)
    OBVIOUS
  <2>2. v \in Nat /\ MaxUInt \in Nat /\ v <= MaxUInt
    BY WidthAssumption
  <2>3. Min({v, MaxUInt}) = IF v < MaxUInt THEN v ELSE MaxUInt
    BY <2>2, LargerSmaller
  <2>4. v < MaxUInt \/ v = MaxUInt
    BY <2>2
  <2> QED
    BY <2>1, <2>3, <2>4, Zenon
<1>14. stringToNumber(s, base) = {ValueOf(text, b)}
  BY <1>9, <1>10, <1>11, <1>12, <1>13, Zenon DEF stringToNumber
<1> QED
  BY <1>4, <1>6, <1>14

-----------------------------------------------------------------------------
(* A number that was written. *)

LEMMA FillNone == ASSUME NEW c PROVE Fill(c, 0) = <<>>
BY DEF Fill

LEMMA NoneBefore == ASSUME NEW S, NEW t \in Seq(S) PROVE <<>> \o t = t
OBVIOUS

\* What reading in a base that setbase does not know looks at.
LEMMA LeadingZero ==
  ASSUME NEW S, NEW text \in Seq(S), Len(text) \in Nat \ {0}
  PROVE  IsPrefix(<<"0">>, text) <=> text[1] = "0"
<1>1. PICK one : one = SubSeq(text, 1, 1)
  OBVIOUS
<1>2. 1 \in 0 .. Len(text) /\ 1 \in 1 .. 1
  OBVIOUS
<1>3. one \in Seq(S) /\ Len(one) = 1 /\ one[1] = text[1]
  BY <1>1, <1>2, UptoText DEF Upto
<1>4. PICK zero : zero = <<"0">>
  OBVIOUS
<1>5. zero \in Seq({"0"}) /\ Len(zero) = 1 /\ zero[1] = "0"
  BY <1>4
<1>6. SubSeq(zero, 1, 1) = zero
  <2>1. PICK z : z = SubSeq(zero, 1, 1)
    OBVIOUS
  <2>2. z \in Seq({"0"}) /\ Len(z) = 1 /\ \A i \in 1 .. 1 : z[i] = zero[i]
    <3>1. 1 \in 0 .. Len(zero)
      BY <1>5
    <3> QED
      BY <1>5, <2>1, <3>1, UptoText DEF Upto
  <2>3. z = zero
    BY <1>5, <2>2, SameText
  <2> QED
    BY <2>1, <2>3
<1>7. zero = one <=> text[1] = "0"
  <2>1. ASSUME zero = one PROVE text[1] = "0"
    BY <1>3, <1>5, <2>1
  <2>2. ASSUME text[1] = "0" PROVE zero = one
    <3>1. one = <<one[1]>> /\ zero = <<zero[1]>>
      BY <1>3, <1>5
    <3> QED
      BY <1>3, <1>5, <2>2, <3>1, Zenon
  <2> QED
    BY <2>1, <2>2
<1>8. Len(zero) <= Len(text)
  BY <1>5
<1> QED
  BY <1>1, <1>4, <1>5, <1>6, <1>7, <1>8, Zenon DEF IsPrefix

LEMMA OneZero ==
  ValueOf(<<"0">>, 8) = 0 /\ <<"0">> \in Seq(DigitsOf(8)) /\ <<"0">> # <<>>
<1>1. 8 \in Sixteen
  BY DEF Sixteen
<1>2. "0" \in DigitsOf(8) /\ ValueOf(Fill("0", 1), 8) = 0
  BY <1>1, ZerosAreNothing
<1>3. Fill("0", 1) = <<"0">>
  <2>1. 1 \in Nat \ {0} /\ 1 - 1 = 0
    OBVIOUS
  <2>2. Fill("0", 1) = Append(Fill("0", 1 - 1), "0")
    BY <1>2, <2>1, FillMore
  <2>3. Fill("0", 1) = Append(<<>>, "0")
    BY <2>1, <2>2, FillNone, Zenon
  <2> QED
    BY <2>3
<1>4. <<"0">> \in Seq(DigitsOf(8)) /\ <<"0">> # <<>>
  BY <1>2
<1> QED
  BY <1>2, <1>3, <1>4, Zenon

LEMMA ReadBack ==
  ASSUME NEW base \in {2, 8, 10, 16}, NEW n \in 0 .. MaxUInt, NEW k \in Nat, NEW fill \in {Space, "0"},
         base # 2 \/ fill = Space \/ k = 0
  PROVE  stringToNumber(Fill(fill, k) \o Written(n, WriteBase(base)), base) = {n}
<1>1. PICK b \in Bases : b = WriteBase(base) /\ (base \in Bases => b = base) /\ (base \notin Bases => base = 2)
  BY DEF WriteBase, Bases
<1>2. n \in Nat
  BY WidthAssumption
<1>3. PICK text : text = Written(n, b) /\ ReadsAs(text, n, b)
  BY <1>2, WrittenReadsAs
<1>4. /\ text \in Seq(DigitsOf(b)) /\ text # <<>> /\ Len(text) \in Nat \ {0}
      /\ n # 0 => text[1] # "0"
      /\ n = 0 => text = <<"0">>
      /\ \A j \in Nat : ValueOf(Fill("0", j) \o text, b) = n
  BY <1>3, Zenon DEF ReadsAs
<1>5. ValueOf(text, b) = n
  <2>1. 0 \in Nat
    OBVIOUS
  <2>2. ValueOf(Fill("0", 0) \o text, b) = n
    BY <1>4, <2>1
  <2>3. <<>> \o text = text
    BY <1>4, NoneBefore
  <2> QED
    BY <2>2, <2>3, FillNone, Zenon
<1>6. \A t : base \in Bases => ReadBase(t, base) = b
  BY <1>1 DEF ReadBase, Bases
<1>7. ASSUME fill = Space \/ k = 0 PROVE stringToNumber(Fill(Space, k) \o text, base) = {n}
  <2>1. CASE base \in Bases
    <3>1. ReadBase(text, base) = b
      BY <1>6, <2>1
    <3> QED
      BY <1>4, <1>5, <3>1, SpacesThenNumber
  <2>2. CASE base \notin Bases /\ n # 0
    <3>1. b = 10
      BY <1>1, <2>2 DEF WriteBase
    <3>2. ~IsPrefix(<<"0">>, text)
      BY <1>4, <2>2, LeadingZero
    <3>3. ReadBase(text, base) = 10
      BY <2>2, <3>2 DEF ReadBase, Bases
    <3>4. ReadBase(text, base) = b
      BY <3>1, <3>3
    <3> QED
      BY <1>4, <1>5, <3>4, SpacesThenNumber
  <2>3. CASE base \notin Bases /\ n = 0
    <3>1. text = <<"0">>
      BY <1>4, <2>3
    <3>2. 1 \in Nat \ {0} /\ text[1] = "0"
      BY <3>1
    <3>3. IsPrefix(<<"0">>, text)
      BY <1>4, <3>2, LeadingZero
    <3>4. ReadBase(text, base) = 8
      BY <2>3, <3>3 DEF ReadBase, Bases
    <3>5. 8 \in Bases
      BY DEF Bases
    <3>6. ValueOf(text, 8) = 0 /\ text \in Seq(DigitsOf(8))
      BY <3>1, OneZero
    <3>7. ValueOf(text, 8) \in 0 .. MaxUInt
      BY <2>3, <3>6
    <3>8. stringToNumber(Fill(Space, k) \o text, base) = {ValueOf(text, 8)}
      BY <1>4, <3>4, <3>5, <3>6, <3>7, SpacesThenNumber
    <3> QED
      BY <2>3, <3>6, <3>8
  <2> QED
    BY <2>1, <2>2, <2>3
<1>8. CASE fill = Space
  BY <1>1, <1>3, <1>7, <1>8
<1>9. CASE k = 0
  <2>1. Fill(fill, k) = Fill(Space, k)
    BY <1>9, FillNone
  <2> QED
    BY <1>1, <1>3, <1>7, <1>9, <2>1
<1>10. CASE fill = "0" /\ base \in Bases
  <2>1. PICK f : f = Fill("0", k)
    OBVIOUS
  <2>2. f \in Seq(DigitsOf(b))
    <3>1. b \in Sixteen
      BY DEF Bases, Sixteen
    <3>2. "0" \in DigitsOf(b)
      BY <3>1, ZerosAreNothing
    <3> QED
      BY <2>1, <3>2, FillText
  <2>3. PICK t \in Seq(DigitsOf(b)) : t = f \o text /\ t # <<>>
    <3>1. f \o text \in Seq(DigitsOf(b)) /\ Len(f \o text) = Len(f) + Len(text)
      BY <1>4, <2>2
    <3>2. Len(f) \in Nat
      BY <2>2
    <3>3. Len(f \o text) # 0
      BY <1>4, <3>1, <3>2
    <3>4. f \o text # <<>>
      BY <3>3
    <3> QED
      BY <3>1, <3>4
  <2>4. ValueOf(t, b) = n /\ ReadBase(t, base) = b
    BY <1>4, <1>6, <1>10, <2>1, <2>3, Zenon
  <2>5. PICK none \in Nat : none = 0
    OBVIOUS
  <2>6. stringToNumber(Fill(Space, 0) \o t, base) = {n}
    <3>1. ValueOf(t, b) \in 0 .. MaxUInt
      BY <2>4
    <3>2. stringToNumber(Fill(Space, none) \o t, base) = {ValueOf(t, b)}
      <4>1. t # <<>> /\ ReadBase(t, base) = b
        BY <2>3, <2>4
      <4> QED
        BY <3>1, <4>1, SpacesThenNumber
    <3> QED
      BY <2>4, <2>5, <3>2, Zenon
  <2>7. <<>> \o t = t
    BY NoneBefore
  <2> QED
    BY <1>1, <1>3, <1>10, <2>1, <2>3, <2>6, <2>7, FillNone, Zenon
<1> QED
  BY <1>1, <1>8, <1>9, <1>10

\* The padding is as many characters as are missing, if any are.
LEMMA PaddingIs ==
  ASSUME NEW c, NEW align \in Int, NEW len \in Nat
  PROVE  \E k \in Nat : /\ Fill(c, align - len) = Fill(c, k) /\ k + len >= align
                        /\ align < 1 => k = 0
<1>1. CASE align - len \in Nat
  BY <1>1
<1>2. CASE align - len < 0
  <2>1. 1 .. align - len = {} /\ 1 .. 0 = {}
    BY <1>2
  <2>2. Fill(c, align - len) = Fill(c, 0)
    BY <2>1, Zenon DEF Fill
  <2>3. 0 \in Nat /\ 0 + len >= align
    BY <1>2
  <2> QED
    BY <2>2, <2>3
<1> QED
  BY <1>1, <1>2

LEMMA AfterPrefix ==
  ASSUME NEW S, NEW p \in Seq(S), NEW f \in Seq(S), NEW d \in Seq(S)
  PROVE  From((p \o f) \o d, Len(p) + 1) = f \o d /\ IsPrefix(p, (p \o f) \o d)
<1>1. PICK rest \in Seq(S) : rest = f \o d
  <2>1. f \o d \in Seq(S)
    OBVIOUS
  <2> QED
    BY <2>1
<1>2. (p \o f) \o d = p \o rest
  BY <1>1
<1>3. PICK n \in Nat, m \in Nat : n = Len(p) /\ m = Len(rest)
  OBVIOUS
<1>4. PICK whole \in Seq(S) : /\ whole = p \o rest /\ Len(whole) = n + m
                              /\ \A i \in 1 .. n : whole[i] = p[i]
                              /\ \A i \in 1 .. m : whole[n + i] = rest[i]
  <2>1. PICK whole : whole = p \o rest
    OBVIOUS
  <2>2. whole \in Seq(S) /\ Len(whole) = Len(p) + Len(rest)
    BY <2>1
  <2>3. Len(whole) = n + m
    BY <1>3, <2>2
  <2>4. \A i \in 1 .. n : whole[i] = p[i]
    BY <1>3, <2>1
  <2>5. \A i \in 1 .. m : whole[n + i] = rest[i]
    BY <1>3, <2>1
  <2> QED
    BY <2>1, <2>2, <2>3, <2>4, <2>5
<1>5. From(whole, n + 1) = rest
  <2>1. PICK t : t = SubSeq(whole, n + 1, n + m)
    OBVIOUS
  <2>2. n + m \in 0 .. Len(whole) /\ n \in 0 .. n + m /\ n + m - n = m
    BY <1>4
  <2>3. t \in Seq(S) /\ Len(t) = m /\ \A i \in 1 .. m : t[i] = whole[n + i]
    BY <2>1, <2>2, StretchText
  <2>4. \A i \in 1 .. m : t[i] = rest[i]
    BY <1>4, <2>3
  <2>5. t = rest
    BY <1>3, <2>3, <2>4, SameText
  <2> QED
    BY <1>4, <2>1, <2>5 DEF From
<1>6. IsPrefix(p, whole)
  <2>1. n \in 0 .. Len(whole) /\ n \in 0 .. Len(p) /\ n <= Len(whole)
    BY <1>3, <1>4
  <2>2. PICK u : u = SubSeq(whole, 1, n)
    OBVIOUS
  <2>3. u \in Seq(S) /\ Len(u) = n /\ \A i \in 1 .. n : u[i] = whole[i]
    BY <2>1, <2>2, UptoText DEF Upto
  <2>4. PICK v : v = SubSeq(p, 1, n)
    OBVIOUS
  <2>5. v \in Seq(S) /\ Len(v) = n /\ \A i \in 1 .. n : v[i] = p[i]
    BY <2>1, <2>4, UptoText DEF Upto
  <2>6. \A i \in 1 .. n : u[i] = v[i]
    BY <1>4, <2>3, <2>5
  <2>7. u = v
    BY <2>3, <2>5, <2>6, SameText
  <2> QED
    BY <1>3, <2>1, <2>2, <2>4, <2>7, Zenon DEF IsPrefix
<1> QED
  BY <1>1, <1>2, <1>3, <1>4, <1>5, <1>6, Zenon

\* What numberToString writes after the prefix is at least as wide as was asked
\* for, and is read back as the number.
Rereads(n, prefix, base, align, fill) ==
  \E whole, text :
    /\ whole = numberToString(n, prefix, base, align, fill)
    /\ text = From(whole, Len(prefix) + 1)
    /\ IsPrefix(prefix, whole) /\ Len(text) >= align
    /\ stringToNumber(text, base) = {n}
    /\ prefix = <<>> => text = whole

LEMMA WrittenAndRead ==
  ASSUME NEW n \in 0 .. MaxUInt, NEW P, NEW prefix \in Seq(P), NEW base \in {2, 8, 10, 16},
         NEW align \in Int, NEW fill \in {Space, "0"}, base # 2 \/ fill = Space \/ align < 1
  PROVE  Rereads(n, prefix, base, align, fill)
<1>1. PICK b \in Bases : b = WriteBase(base)
  BY DEF WriteBase, Bases
<1>2. n \in Nat
  BY WidthAssumption
<1>3. PICK digits : digits = Written(n, b)
  OBVIOUS
<1>4. digits \in Seq(DigitsOf(b))
  BY <1>2, <1>3, WrittenReadsAs DEF ReadsAs
<1>5. PICK len \in Nat : len = Len(digits)
  BY <1>4
<1>6. PICK k \in Nat : /\ Fill(fill, align - len) = Fill(fill, k) /\ k + len >= align
                       /\ align < 1 => k = 0
  BY PaddingIs
<1>7. PICK S : S = P \cup DigitsOf(b) \cup {fill}
  OBVIOUS
<1>8. prefix \in Seq(S) /\ digits \in Seq(S)
  BY <1>4, <1>7
<1>9. PICK f \in Seq(S) : f = Fill(fill, k) /\ Len(f) = k
  <2>1. fill \in S
    BY <1>7
  <2>2. Fill(fill, k) \in Seq(S) /\ Len(Fill(fill, k)) = k
    BY <2>1, FillText
  <2> QED
    BY <2>2, Zenon
<1>10. PICK whole : whole = numberToString(n, prefix, base, align, fill)
  OBVIOUS
<1>11. whole = (prefix \o f) \o digits
  <2>1. whole = (prefix \o Fill(fill, align - len)) \o digits
    BY <1>1, <1>3, <1>5, <1>10, Zenon DEF numberToString, Fill
  <2> QED
    BY <1>6, <1>9, <2>1, Zenon
<1>12. PICK text : /\ text = f \o digits /\ text = From(whole, Len(prefix) + 1)
                   /\ IsPrefix(prefix, whole)
  <2>1. From((prefix \o f) \o digits, Len(prefix) + 1) = f \o digits /\ IsPrefix(prefix, (prefix \o f) \o digits)
    BY <1>8, AfterPrefix
  <2> QED
    BY <1>11, <2>1, Zenon
<1>13. Len(text) >= align
  <2>1. Len(f \o digits) = Len(f) + Len(digits)
    BY <1>8
  <2> QED
    BY <1>5, <1>6, <1>9, <1>12, <2>1
<1>14. stringToNumber(text, base) = {n}
  <2>1. base # 2 \/ fill = Space \/ k = 0
    BY <1>6
  <2>2. stringToNumber(Fill(fill, k) \o Written(n, WriteBase(base)), base) = {n}
    BY <2>1, ReadBack
  <2> QED
    BY <1>1, <1>3, <1>9, <1>12, <2>2, Zenon
<1>15. ASSUME prefix = <<>> PROVE text = whole
  <2>1. <<>> \o f = f
    BY NoneBefore
  <2> QED
    BY <1>11, <1>12, <1>15, <2>1, Zenon
<1> QED
  BY <1>10, <1>12, <1>13, <1>14, <1>15, Zenon DEF Rereads

\* What RoundTrip says of one base and width.
ReadsBack(base, align, fill) ==
  LET whole == numberToString(number, str, base, align, fill)
      text  == From(whole, Len(str) + 1)
      text8 == numberToString8(number, <<>>, base, align, fill)
  IN  /\ IsPrefix(str, whole) /\ (align > 0 => Len(text) >= align)
      /\ stringToNumber(text, base) = {number}
      /\ stringToNumber8(text, base) = {number % Bytes}
      /\ stringToNumber8(text8, base) = {number % Bytes}
ReadsBackAlways ==
  \A base \in {2, 8, 10, 16}, align \in -1 .. MaxAlign, fill \in {Space, "0"} :
    other = <<>> /\ size = 0 /\ (base # 2 \/ fill = Space \/ align < 1) => ReadsBack(base, align, fill)

LEMMA RoundTripHolds == Inputs => RoundTrip
<1> SUFFICES ASSUME Inputs PROVE RoundTrip
  OBVIOUS
<1>1. PICK n \in 0 .. MaxUInt : n = number
  BY WidthAssumption, NumberAssumption DEF Inputs
<1>2. PICK n8 \in 0 .. MaxUInt : n8 = n % Bytes /\ n8 % Bytes = n8
  <2>1. n \in Nat /\ Bytes \in Nat /\ Bytes > 0 /\ Bytes <= MaxUInt /\ MaxUInt \in Nat
    BY WidthAssumption
  <2>2. n % Bytes \in 0 .. Bytes - 1
    BY <2>1
  <2>3. PICK m \in 0 .. Bytes - 1 : m = n % Bytes
    BY <2>2
  <2>4. m % Bytes = m
    BY <2>1
  <2>5. m \in 0 .. MaxUInt
    BY <2>1
  <2> QED
    BY <2>3, <2>4, <2>5
<1>3. PICK prefix \in Seq(Char) : prefix = str
  BY DEF Inputs
<1>4. ASSUME NEW base \in {2, 8, 10, 16}, NEW align \in -1 .. MaxAlign, NEW fill \in {Space, "0"},
             base # 2 \/ fill = Space \/ align < 1
      PROVE  ReadsBack(base, align, fill)
  <2>1. align \in Int
    BY NumberAssumption
  <2>2. PICK whole, text :
          /\ whole = numberToString(n, prefix, base, align, fill)
          /\ text = From(whole, Len(prefix) + 1)
          /\ IsPrefix(prefix, whole) /\ Len(text) >= align
          /\ stringToNumber(text, base) = {n}
    <3>1. Rereads(n, prefix, base, align, fill)
      BY <1>4, <2>1, WrittenAndRead
    <3> QED
      BY <3>1, Zenon DEF Rereads
  <2>3. stringToNumber8(text, base) = {n % Bytes}
    BY <2>2 DEF stringToNumber8
  <2>4. PICK empty \in Seq(Char) : empty = <<>>
    <3>1. <<>> \in Seq(Char)
      OBVIOUS
    <3> QED
      BY <3>1
  <2>5. PICK text8 :
          /\ text8 = numberToString(n8, empty, base, align, fill)
          /\ stringToNumber(text8, base) = {n8}
    <3>1. PICK whole8, after8 :
            /\ whole8 = numberToString(n8, empty, base, align, fill)
            /\ stringToNumber(after8, base) = {n8}
            /\ empty = <<>> => after8 = whole8
      <4>1. Rereads(n8, empty, base, align, fill)
        BY <1>4, <2>1, WrittenAndRead
      <4> QED
        BY <4>1, Zenon DEF Rereads
    <3> QED
      BY <2>4, <3>1, Zenon
  <2>6. text8 = numberToString8(number, <<>>, base, align, fill)
    BY <1>1, <1>2, <2>4, <2>5, Zenon DEF numberToString8
  <2>7. stringToNumber8(text8, base) = {n8 % Bytes}
    BY <2>5 DEF stringToNumber8
  <2>8. stringToNumber8(text8, base) = {number % Bytes}
    BY <1>1, <1>2, <2>7, Zenon
  <2> QED
    BY <1>1, <1>3, <2>2, <2>3, <2>6, <2>8, Zenon DEF ReadsBack
<1>5. ReadsBackAlways
  BY <1>4, Zenon DEF ReadsBackAlways
<1> QED
  BY <1>5, Zenon DEF RoundTrip, ReadsBack, ReadsBackAlways

\* Of any number that fits an unsigned int, in any base and width and after any
\* prefix, of 0 to MaxPrefix characters, what numberToString writes is what
\* stringToNumber reads (utils.hpp:121, 147), and so for the low byte of it and
\* uint8_t.
THEOREM NumberRoundTrips == Spec => []RoundTrip
BY InputsHold, RoundTripHolds, PTL

=============================================================================
