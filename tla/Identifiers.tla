---------------------------- MODULE Identifiers ----------------------------
(***************************************************************************)
(* Industry identifiers: the structural rules the chain applies            *)
(* (midds-traits/src/identifier.rs), the tolerant parsers that produce the *)
(* canonical form (midds-validate/src/parse.rs) and the advisory check     *)
(* digits (midds-validate/src/checksum.rs).                                *)
(*                                                                         *)
(* A text is a sequence of characters and a character is a number: 0..9    *)
(* the ASCII digits (their own values), 10..35 the upper-case letters,     *)
(* 36..61 the lower-case ones, then a few of the others.  Bytes matter     *)
(* only through `Bytes`: WideDigit stands for any digit outside ASCII that *)
(* UTF-8 writes in two bytes.  An option is a sequence of at most one      *)
(* value, so that "absent" and "empty list" are both <<>>.                 *)
(***************************************************************************)
EXTENDS Integers, Sequences, FiniteSetsExt, SequencesExt

Digits == 0..9
Upper == 10..35
Lower == 36..61
Dash == 62
Dot == 63
Space == 64
WideDigit == 65
Other == 66
Characters == 0..66

LetterI == 18
LetterT == 29
LetterX == 33

None == <<>>
Some(v) == <<v>>

Ok == "Ok"
OutOfBounds == "OutOfBounds"
InvalidCharset == "InvalidCharset"
InvalidStructure == "InvalidIdentifierStructure"
EmptyMandatoryField == "EmptyMandatoryField"
CrossFieldInconsistency == "CrossFieldInconsistency"

\* The size of a text in UTF-8.
Bytes(s) == Len(s) + Cardinality({i \in DOMAIN s : s[i] = WideDigit})

AllIn(s, first, last, chars) == \A i \in DOMAIN s \cap first..last : s[i] \in chars

-----------------------------------------------------------------------------
(* validate_*_format: what the chain accepts.  s is a stored identifier.   *)

ValidateIswc(s) ==
  IF Bytes(s) # 11 THEN OutOfBounds
  ELSE IF s[1] # LetterT THEN InvalidStructure
  ELSE IF AllIn(s, 2, 11, Digits) THEN Ok ELSE InvalidCharset

ValidateIsni(s) ==
  IF Bytes(s) # 16 THEN OutOfBounds
  ELSE IF AllIn(s, 1, 15, Digits) /\ AllIn(s, 16, 16, Digits \cup {LetterX})
       THEN Ok ELSE InvalidCharset

ValidateDigits(s, sizes) ==
  IF Bytes(s) \notin sizes THEN OutOfBounds
  ELSE IF AllIn(s, 1, Len(s), Digits) THEN Ok ELSE InvalidCharset

ValidateIpi(s) == ValidateDigits(s, 9..11)
ValidateIpn(s) == ValidateDigits(s, {11})
ValidateUpc(s) == ValidateDigits(s, {12, 13})

ValidateIsrc(s) ==
  IF Bytes(s) # 12 THEN OutOfBounds
  ELSE IF /\ AllIn(s, 1, 2, Upper)
          /\ AllIn(s, 3, 5, Upper \cup Digits)
          /\ AllIn(s, 6, 12, Digits)
       THEN Ok ELSE InvalidCharset

-----------------------------------------------------------------------------
(* parse_*: Some(canonical form) or None.                                  *)

Trim(s) ==
  LET inked == {i \in DOMAIN s : s[i] # Space}
  IN  IF inked = {} THEN <<>> ELSE SubSeq(s, Min(inked), Max(inked))

Uppercase(s) == [i \in DOMAIN s |-> IF s[i] \in Lower THEN s[i] - 26 ELSE s[i]]

\* The regex class \d: any Unicode decimal digit.
AnyDigit == Digits \cup {WideDigit}

\* What is left of a text without some of its characters.
Without(s, chars) == FlattenSeq([i \in DOMAIN s |-> IF s[i] \in chars THEN <<>> ELSE << s[i] >>])

\* A pattern is the class of each character it captures, and the separators it
\* lets pass, one at most, after so many of them: gaps[n] for n.  No class of
\* characters holds a separator, so there is one way to match at most.
Separators == {Space, Dash, Dot}
Pattern(classes, gaps) == [classes |-> classes, gaps |-> gaps]
Times(n, chars) == [i \in 1..n |-> chars]

Match(pattern, s) ==
  LET kept == Without(s, Separators)
      inked == {i \in DOMAIN s : s[i] \notin Separators}
      passes(i) == LET n == Cardinality(inked \cap 1..i)
                   IN  i - 1 \in inked /\ n \in DOMAIN pattern.gaps /\ s[i] \in pattern.gaps[n]
  IN  IF /\ Len(kept) = Len(pattern.classes)
         /\ \A i \in DOMAIN kept : kept[i] \in pattern.classes[i]
         /\ \A i \in DOMAIN s \ inked : passes(i)
      THEN Some(kept) ELSE None

IswcPattern ==
  Pattern(<< {LetterT} >> \o Times(10, AnyDigit),
          [n \in {1, 4, 7, 10} |-> IF n \in {1, 10} THEN {Dash} ELSE {Dot}])

IsniPattern ==
  Pattern(Times(15, AnyDigit) \o << AnyDigit \cup {LetterX} >>, [n \in {4, 8, 12} |-> {Space, Dash}])

IsrcPattern ==
  Pattern(Times(2, Upper) \o Times(3, Upper \cup Digits) \o Times(7, AnyDigit),
          [n \in {2, 5, 7} |-> {Dash}])

\* BoundedVec::try_from: the capacity counts bytes.
Bounded(s, capacity) == IF Bytes(s) <= capacity THEN Some(s) ELSE None

ParsePattern(pattern, s, capacity) ==
  LET found == Match(pattern, Uppercase(Trim(s)))
  IN  IF found = None THEN None ELSE Bounded(found[1], capacity)

ParseIswc(s) == ParsePattern(IswcPattern, s, 11)
ParseIsni(s) == ParsePattern(IsniPattern, s, 16)
ParseIsrc(s) == ParsePattern(IsrcPattern, s, 12)

\* Mutant of PadDigits: a short number is not padded.
KeepDigits(s, shortest) ==
  IF Len(s) \in 1..11 /\ AllIn(s, 1, Len(s), AnyDigit) THEN Bounded(s, 11) ELSE None

\* \d{1,11} counts characters, the padding counts bytes.
PadDigits(s, shortest) ==
  IF Len(s) \notin 1..11 \/ ~AllIn(s, 1, Len(s), AnyDigit) THEN None
  ELSE IF Bytes(s) < shortest THEN Bounded([i \in 1..(11 - Bytes(s)) |-> 0] \o s, 11)
  ELSE Bounded(s, 11)

ParseIpi(s) ==
  LET upper == Uppercase(Trim(s))
  IN  PadDigits(IF IsPrefix(<<LetterI, Dash>>, upper) THEN SubSeq(upper, 3, Len(upper)) ELSE upper, 9)

ParseIpn(s) == PadDigits(Trim(s), 11)

ParseUpc(s) ==
  LET cleaned == Without(s, {Space, Dash})
  IN  IF ValidateUpc(cleaned) = Ok THEN Some(cleaned) ELSE None

-----------------------------------------------------------------------------
(* verify_*_checksum: "Pass", "Fail" or "NotApplicable".                   *)

Checked(digit, expected) == IF digit = expected THEN "Pass" ELSE "Fail"

\* The check digit that completes a weighted sum to a multiple of ten.
Complement10(sum) == (10 - (sum % 10)) % 10

VerifyIswc(s) ==
  IF ValidateIswc(s) # Ok THEN "NotApplicable"
  ELSE Checked(s[11], Complement10(SumFunction([i \in 1..9 |-> s[i + 1] * i])))

\* ISO 7064 MOD 11,2 over the first fifteen digits.
IsniCheck(s) ==
  LET r[i \in 0..15] == IF i = 0 THEN 0 ELSE ((r[i - 1] + s[i]) * 2) % 11
  IN  (12 - r[15]) % 11

VerifyIsni(s) ==
  IF ValidateIsni(s) # Ok THEN "NotApplicable"
  ELSE Checked(IF s[16] = LetterX THEN 10 ELSE s[16], IsniCheck(s))

VerifyIsrc(s) == IF ValidateIsrc(s) = Ok THEN "Pass" ELSE "NotApplicable"

VerifyIpi(s) ==
  IF ValidateIpi(s) # Ok THEN "NotApplicable"
  ELSE Checked(Last(s), Complement10(SumFunction([i \in 1..(Len(s) - 1) |-> s[i] * i])))

\* Mutant of VerifyUpc: the sum misses the first digit.
VerifyUpcButFirst(s) ==
  IF ValidateUpc(s) # Ok THEN "NotApplicable"
  ELSE LET weight(i) == IF (Len(s) - 1 - i) % 2 = 0 THEN 3 ELSE 1
       IN  Checked(Last(s), Complement10(SumFunction([i \in 2..(Len(s) - 1) |-> s[i] * weight(i)])))

\* Weights 3, 1, 3, ... from the rightmost data digit.
VerifyUpc(s) ==
  IF ValidateUpc(s) # Ok THEN "NotApplicable"
  ELSE LET weight(i) == IF (Len(s) - 1 - i) % 2 = 0 THEN 3 ELSE 1
       IN  Checked(Last(s), Complement10(SumFunction([i \in 1..(Len(s) - 1) |-> s[i] * weight(i)])))

-----------------------------------------------------------------------------
IdKinds == {"iswc", "isni", "ipi", "ipn", "isrc", "upc"}

Parse(kind, s) ==
  CASE kind = "iswc" -> ParseIswc(s)  [] kind = "isni" -> ParseIsni(s)
    [] kind = "ipi" -> ParseIpi(s)    [] kind = "ipn" -> ParseIpn(s)
    [] kind = "isrc" -> ParseIsrc(s)  [] kind = "upc" -> ParseUpc(s)

Validate(kind, s) ==
  CASE kind = "iswc" -> ValidateIswc(s)  [] kind = "isni" -> ValidateIsni(s)
    [] kind = "ipi" -> ValidateIpi(s)    [] kind = "ipn" -> ValidateIpn(s)
    [] kind = "isrc" -> ValidateIsrc(s)  [] kind = "upc" -> ValidateUpc(s)

\* There is no verifier for IPN.
Verify(kind, s) ==
  CASE kind = "iswc" -> VerifyIswc(s)  [] kind = "isni" -> VerifyIsni(s)
    [] kind = "ipi" -> VerifyIpi(s)    [] kind = "isrc" -> VerifyIsrc(s)
    [] kind = "upc" -> VerifyUpc(s)    [] OTHER -> "NotApplicable"
=============================================================================
