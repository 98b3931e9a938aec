----------------------------- MODULE ValueTypes -----------------------------
(***************************************************************************)
(* Date, Time and DateTime with the texts SQL has for them, their order    *)
(* (Comparable), Null<>, and tiny_int.  A date is [y, m, d], a time is     *)
(* [h, min, s], and a DateTime has all of them and the flag now.           *)
(***************************************************************************)
EXTENDS Sequences, TemplateGrammar, MachineIntegers

-----------------------------------------------------------------------------
(* Texts                                                                   *)

(* os << setw(width) << n, with '0' to fill.                               *)
Figures(n) ==
  LET figures[k \in 0..n] ==
        IF k < 10 THEN <<DigitOf(k)>> ELSE Append(figures[k \div 10], DigitOf(k % 10))
  IN figures[n]
Printed(n, width) == [i \in 1..width - Len(Figures(n)) |-> "0"] \o Figures(n)

DateText(d) == Printed(d.y, 4) \o <<"-">> \o Printed(d.m, 2) \o <<"-">> \o Printed(d.d, 2)
TimeText(t) == Printed(t.h, 2) \o <<":">> \o Printed(t.min, 2) \o <<":">> \o Printed(t.s, 2)
DateTimeText(dt) ==
  IF dt.now THEN <<"N", "O", "W", "(", ")">> ELSE DateText(dt) \o <<" ">> \o TimeText(dt)

(* strtol() of count characters from i on: blanks and signs aside, the     *)
(* digits it begins with.                                                  *)
Field(text, i, count) ==
  LET end == RunEnd(text, i, Digits)
      stop == IF end < i + count THEN end ELSE i + count
  IN Number(SubSeq(text, i, stop - 1))

(* One separator is skipped if it is there.                                *)
Past(text, i, separator) == IF At(text, i) = separator THEN i + 1 ELSE i

(* Date::convert() and Time::convert(): fields of a fixed size.  next is   *)
(* where they stopped.                                                     *)
DateAt(text, i) ==
  LET month == Past(text, i + 4, "-")
      day == Past(text, month + 2, "-")
  IN [value |-> [y |-> Field(text, i, 4) % 65536, m |-> Field(text, month, 2),
                 d |-> Field(text, day, 2)],
      next |-> day + 2]
(* Seeded fault: the second colon is not skipped.                          *)
BugTimeAt(text, i) ==
  [value |-> [h |-> Field(text, i, 2), min |-> Field(text, i + 3, 2),
              s |-> Field(text, i + 5, 2)],
   next |-> i + 8]
TimeAt(text, i) ==
  LET minute == Past(text, i + 2, ":")
      second == Past(text, minute + 2, ":")
  IN [value |-> [h |-> Field(text, i, 2), min |-> Field(text, minute, 2),
                 s |-> Field(text, second, 2)],
      next |-> second + 2]
DateTimeAt(text, i) ==
  LET date == DateAt(text, i)
      time == TimeAt(text, Past(text, date.next, " "))
  IN [value |-> date.value @@ time.value @@ [now |-> FALSE], next |-> time.next]

-----------------------------------------------------------------------------
(* Values                                                                  *)

Bytes == 0..255
Shorts == 0..65535
DateType == [y : Shorts, m : Bytes, d : Bytes]
TimeType == [h : Bytes, min : Bytes, s : Bytes]
DateTimeType ==
  [y : Shorts, m : Bytes, d : Bytes, h : Bytes, min : Bytes, s : Bytes, now : BOOLEAN]

(* DateTime(): "now" until a field is given a value.                       *)
Now == [y |-> 0, m |-> 0, d |-> 0, h |-> 0, min |-> 0, s |-> 0, now |-> TRUE]
(* year(y), month(m), ...: the DateTime is not "now" any more.             *)
WithField(dt, field, n) == [dt EXCEPT ![field] = n, !.now = FALSE]

DatePart(dt) == [y |-> dt.y, m |-> dt.m, d |-> dt.d]
TimePart(dt) == [h |-> dt.h, min |-> dt.min, s |-> dt.s]

-----------------------------------------------------------------------------
(* Order                                                                   *)

(* compare(): the difference of the first fields that differ.              *)
DateCompare(a, b) ==
  IF a.y # b.y THEN a.y - b.y ELSE IF a.m # b.m THEN a.m - b.m ELSE a.d - b.d
TimeCompare(a, b) ==
  IF a.h # b.h THEN a.h - b.h ELSE IF a.min # b.min THEN a.min - b.min ELSE a.s - b.s
(* Seeded fault: the dates are forgotten when the times differ.            *)
BugDateTimeCompare(a, b) ==
  IF a.now /\ b.now THEN 0
  ELSE IF TimeCompare(a, b) # 0 THEN TimeCompare(a, b) ELSE DateCompare(a, b)
(* A DateTime that is "now" counts as a date of zeros with another one.    *)
DateTimeCompare(a, b) ==
  IF a.now /\ b.now THEN 0
  ELSE IF DateCompare(a, b) # 0 THEN DateCompare(a, b) ELSE TimeCompare(a, b)

(* Null<>, of a DateTime: a null equals a null, and is less than a value.   *)
NullOf(type) == [null |-> TRUE, data |-> type]
NotNull(x) == [null |-> FALSE, data |-> x]
NullEqual(a, b) ==
  IF a.null \/ b.null THEN a.null = b.null ELSE DateTimeCompare(a.data, b.data) = 0
NullLess(a, b) ==
  CASE a.null -> ~b.null
    [] ~a.null /\ b.null -> FALSE
    [] OTHER -> DateTimeCompare(a.data, b.data) < 0

-----------------------------------------------------------------------------
(* tiny_int                                                                *)

(* Seeded fault: a value that does not fit is the nearest one.             *)
BugTiny(signed, v) == IF signed /\ v > 127 THEN 127 ELSE IF ~signed /\ v > 255 THEN 255 ELSE v
(* value_type(v), for signed and unsigned char.                            *)
Tiny(signed, v) == IF signed THEN ((v + 128) % 256) - 128 ELSE v % 256

Arithmetic(op, a, b) ==
  CASE op = "+" -> a + b
    [] op = "-" -> a - b
    [] op = "*" -> a * b
    [] op = "/" -> Quotient(a, b)
    [] op = "%" -> a - b * Quotient(a, b)
    [] op \in {"&", "|", "^"} -> OnBits(op, a, b)
    [] op = "<<" -> a * TwoTo(b)
    [] op = ">>" -> a \div TwoTo(b)
(* The C++ operation has a meaning.                                        *)
Defined(op, a, b) ==
  /\ op \in {"/", "%"} => b # 0
  /\ op \in {"<<", ">>"} => b \in 0..7
  /\ op = "<<" => a >= 0
(* a op= v, and a op tiny_int(v)                                           *)
TinyAssign(signed, op, a, v) == Tiny(signed, Arithmetic(op, a, Tiny(signed, v)))
TinyBinary(signed, op, a, b) == Tiny(signed, Arithmetic(op, a, b))
(* ++a and a++: what becomes of a, and what the expression is.             *)
TinyStep(signed, op, a, before) ==
  LET after == TinyAssign(signed, op, a, 1)
  IN [value |-> after, result |-> IF before THEN after ELSE a]
=============================================================================
