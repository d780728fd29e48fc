----------------------------- MODULE NumberText -----------------------------
(***************************************************************************)
(* numberToString and stringToNumber of src/Linux/utils/utils.hpp for       *)
(* unsigned numbers, with their uint8_t specialisations in utils.cpp.  A    *)
(* text is a sequence of characters.                                       *)
(***************************************************************************)
EXTENDS Integers, SequencesExt

CONSTANTS
  MaxUInt,  \* the largest unsigned int
  Bytes     \* how many values a uint8_t has (256)

ASSUME WidthAssumption == MaxUInt \in Nat /\ Bytes \in 1 .. MaxUInt

Digits == <<"0", "1", "2", "3", "4", "5", "6", "7", "8", "9", "a", "b", "c", "d", "e", "f">>
DigitsOf(base) == ToSet(SubSeq(Digits, 1, base))
Space == " "

\* std::setbase(base) knows three bases.  Any other stands for decimal when a
\* number is written, and for what a leading 0 says when one is read.
WriteBase(base) == IF base \in {8, 10, 16} THEN base ELSE 10
ReadBase(text, base) ==
  IF base \in {8, 10, 16} THEN base ELSE IF IsPrefix(<<"0">>, text) THEN 8 ELSE 10

\* What operator<< writes, what a digit stands for, and the value of digits.
Written(number, base) ==
  LET digits[n \in 0 .. number] ==
        LET digit == <<Digits[(n % base) + 1]>>
        IN  IF n < base THEN digit ELSE digits[n \div base] \o digit
  IN  digits[number]

Place(digit, base) == (CHOOSE n \in 1 .. base : Digits[n] = digit) - 1
ValueOf(digits, base) ==
  LET value[i \in 0 .. Len(digits)] ==
        IF i = 0 THEN 0 ELSE value[i - 1] * base + Place(digits[i], base)
  IN  value[Len(digits)]

-----------------------------------------------------------------------------
(* Mutant: what the check of RoundTrip replaces numberToString by. *)

\* The padding follows the number.
numberThenPadding(number, prefix, base, align, align_char) ==
  LET number_string == Written(number, WriteBase(base))
  IN  prefix \o number_string \o [i \in 1 .. align - Len(number_string) |-> align_char]

-----------------------------------------------------------------------------

\* align is -1 or a width; the padding stands between prefix and number.
numberToString(number, prefix, base, align, align_char) ==
  LET number_string == Written(number, WriteBase(base))
  IN  prefix \o [i \in 1 .. align - Len(number_string) |-> align_char] \o number_string

\* uint8_t is not written as a character.
numberToString8(number, prefix, base, align, align_char) ==
  numberToString(number % Bytes, prefix, base, align, align_char)

\* The values that the function may give for s: the number that s begins with,
\* after spaces; 0 if it begins with something else, the largest if that does
\* not fit, and what the uninitialised num holds if s is blank.
stringToNumber(s, base) ==
  LET isDigit(text, i) == \A k \in 1 .. i : text[k] \in DigitsOf(ReadBase(text, base))
      begin == Max({i \in 0 .. Len(s) : \A k \in 1 .. i : s[k] = Space})
      text  == SubSeq(s, begin + 1, Len(s))
      value == ValueOf(SubSeq(text, 1, Max({i \in 0 .. Len(text) : isDigit(text, i)})),
                       ReadBase(text, base))
  IN  IF text = <<>> THEN 0 .. MaxUInt ELSE {Min({value, MaxUInt})}

\* Read as an unsigned int, so as not to read a character, and cut off.
stringToNumber8(s, base) == {num % Bytes : num \in stringToNumber(s, base)}
=============================================================================
