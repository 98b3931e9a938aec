------------------------------ MODULE Strings ------------------------------
(***************************************************************************)
(* String: the text of a field, its comparison with another one, and its   *)
(* conversion to integers.  The widths of the integer types are constants; *)
(* a type is [bits, signed], and each is converted by way of long or       *)
(* unsigned long.                                                          *)
(***************************************************************************)
EXTENDS Sequences, FiniteSetsExt, TemplateGrammar, MachineIntegers

CONSTANT LongBits  \* the width of long

ASSUME LongBitsAssumption == LongBits \in Nat \ {0}

(* A String: without a buffer, with one that it_is_null() made, or with    *)
(* one that holds a text.                                                  *)
NoString == [buffer |-> "none", text |-> <<>>, null |-> FALSE]
NullString == [buffer |-> "empty", text |-> <<>>, null |-> TRUE]
StringOf(text, null) == [buffer |-> "full", text |-> text, null |-> null]

(* it_is_null(): a buffer is kept.                                         *)
ItIsNull(s) == IF s.buffer = "none" THEN NullString ELSE [s EXCEPT !.null = TRUE]

StripLeadingBlanks(text) == SubSeq(text, RunEnd(text, 1, {" "}), Len(text))

-----------------------------------------------------------------------------
(* Comparison                                                              *)

(* strncmp(a, b, n): the characters up to the first that differs, the end  *)
(* of a string, or n.  Code(c) orders the characters.                      *)
Code == [c \in {"NUL", "'", "a", "b"} |->
           CASE c = "NUL" -> 0 [] c = "'" -> 39 [] c = "a" -> 97 [] c = "b" -> 98]
CharAt(s, i) == IF i \in 1..Len(s) THEN s[i] ELSE "NUL"
Compared(a, b, n) ==
  LET differ == {i \in 1..n : CharAt(a, i) # CharAt(b, i)}
      ends == {i \in 1..n : CharAt(a, i) = "NUL"}
      first == Min(differ)
  IN IF differ = {} \/ \E i \in ends : i < first THEN 0
     ELSE IF Code[CharAt(a, first)] < Code[CharAt(b, first)] THEN -1 ELSE 1

(* compare(0, n, text).  A buffer that it_is_null() made has no data, and  *)
(* reading it is undefined: such a String is compared with, never asked.   *)
CompareText(s, text, n) ==
  IF s.buffer # "none" THEN Compared(s.text, text, n)
  ELSE IF CharAt(text, 1) = "NUL" THEN 0 ELSE -1

(* Seeded fault: as many characters as this one has.                       *)
BugCompare(s, other) ==
  IF other.buffer = "full" THEN CompareText(s, other.text, Len(s.text))
  ELSE IF Len(s.text) > 0 THEN 1 ELSE 0
(* compare(const String&)                                                  *)
Compare(s, other) ==
  IF other.buffer = "full"
  THEN CompareText(s, other.text, Max({Len(s.text), Len(other.text)}))
  ELSE IF Len(s.text) > 0 THEN 1 ELSE 0

-----------------------------------------------------------------------------
(* Conversion                                                              *)

Long(signed) == [bits |-> LongBits, signed |-> signed]

(* stream >> num: blanks, a sign and digits are consumed.  Without digits  *)
(* it fails with 0; a number out of range fails with the nearest one, and  *)
(* a negative one is taken modulo the width of an unsigned type.           *)
Extracted(text, type) ==
  LET start == RunEnd(text, 1, {" "})
      signed == At(text, start) \in {"-", "+"}
      first == IF signed THEN start + 1 ELSE start
      next == RunEnd(text, first, Digits)
      size == Number(SubSeq(text, first, next - 1))
      value == IF At(text, start) = "-" THEN -size ELSE size
      fits == IF type.signed THEN value \in Lowest(type)..Highest(type)
              ELSE size <= Highest(type)
  IN [ok |-> next > first /\ fits,
      num |-> CASE next = first -> 0
                [] next > first /\ fits -> Wrapped(type, value)
                [] OTHER -> IF type.signed /\ value < 0 THEN Lowest(type) ELSE Highest(type),
      next |-> next,
      eof |-> next > Len(text)]

Converted(num) == [ok |-> TRUE, num |-> num]
BadConversion == [ok |-> FALSE, num |-> 0]

(* Seeded fault: what stands behind a decimal point is not looked at.      *)
BugDoConv(text, type) ==
  LET r == Extracted(text, type)
      after == RunEnd(text, r.next, {" "})
  IN CASE r.ok /\ (after > Len(text) \/ text[after] = ".") -> Converted(r.num)
       [] ~r.ok /\ r.eof -> Converted(r.num)
       [] OTHER -> BadConversion
(* do_conv(): nothing may be left behind the number but a decimal point    *)
(* and zeros.  A failure at the end of the text is taken for an empty one. *)
DoConv(text, type) ==
  LET r == Extracted(text, type)
      after == RunEnd(text, r.next, {" "})
      zeros == RunEnd(text, after + 1, {"0", " "})
  IN CASE r.ok /\ after > Len(text) -> Converted(r.num)
       [] r.ok /\ after <= Len(text) /\ text[after] = "." /\ zeros > Len(text) -> Converted(r.num)
       [] ~r.ok /\ r.eof -> Converted(r.num)
       [] OTHER -> BadConversion

(* conv(Type): the result is cut to the type's width.                      *)
Conv(s, type) ==
  IF s.buffer = "none" THEN Converted(0)
  ELSE LET c == DoConv(s.text, Long(type.signed))
       IN [c EXCEPT !.num = Wrapped(type, @)]

(* conv(Null<T>)                                                           *)
ConvNull(s, type) == [null |-> s.null, value |-> IF s.null THEN Converted(0) ELSE Conv(s, type)]

-----------------------------------------------------------------------------
(* What a text says, read on its own: blanks, an integer, and a fraction   *)
(* of zeros.                                                               *)

IsInteger(text) ==
  \E i, j, k \in 1..Len(text) + 1 :
    /\ i < j /\ j <= k
    /\ \A b \in 1..i - 1 : text[b] = " "
    /\ \A d \in i..j - 1 : text[d] \in Digits \/ (d = i /\ d < j - 1 /\ text[d] \in {"-", "+"})
    /\ At(text, j) \notin Digits
    /\ \A b \in j..k - 1 : text[b] = " "
    /\ \/ k > Len(text)
       \/ text[k] = "." /\ \A z \in k + 1..Len(text) : text[z] \in {"0", " "}
ValueOf(text) ==
  LET digits == {i \in 1..Len(text) : text[i] \in Digits
                                      /\ ~\E p \in 1..i : text[p] = "."}
      size == Number(SubSeq(text, Min(digits), Max(digits)))
  IN IF \E i \in 1..Len(text) : text[i] = "-" THEN -size ELSE size
=============================================================================
