----------------------------- MODULE SqlValues -----------------------------
(***************************************************************************)
(* SQLTypeAdapter's constructors: what becomes of a C++ value of each type *)
(* on its way into a query.  A C++ value is [cpp, text, wrapped, null]:    *)
(* its type, the text an output stream makes of it, whether it is in a     *)
(* Null<>, and whether that is null.                                       *)
(***************************************************************************)
EXTENDS FieldTypes, QueryValues, Strings

PlainType(name) == [name |-> name, nullable |-> FALSE]
StringNames == {"string", "String", "cstring"}
RealNames == {"float", "double"}
IntegerNames == {"tiny_int", "tiny_uint", "short", "ushort", "int", "uint", "long", "ulong",
                 "longlong", "ulonglong"}
DateNames == {"Date", "Time", "DateTime"}
AdaptedNames == StringNames \cup RealNames \cup IntegerNames \cup DateNames \cup {"char"}

StringType == [base |-> "text", flags |-> {"null"}]

(* A string, or one character that is not in a Null<>.                     *)
IsString(v) == v.cpp \in StringNames \/ (v.cpp = "char" /\ ~v.wrapped)

(* f == infinity(): not for the negative one, and nothing equals a NaN.    *)
Infinite(v) == v.cpp \in RealNames /\ v.text = <<"i", "n", "f">>
IsNull(v) == v.null \/ (v.wrapped /\ Infinite(v))

(* The type of the adapter's SQLBuffer.                                    *)
TypeOfBuffer(v) ==
  IF IsString(v) THEN StringType
  ELSE FieldTypeOf(PlainType(IF IsNull(v) THEN "void" ELSE v.cpp))
(* ...which is looked up unless the value is a string, or throws           *)
(* TypeLookupFailed.                                                       *)
Adaptable(v) == IsString(v) \/ IsNull(v) \/ HasFieldType(PlainType(v.cpp))

(* NOW() is not quoted if it comes from a DateTime.                        *)
IsNow(type, text) ==
  /\ Annotate(type).cpp = PlainType("DateTime")
  /\ Len(text) >= 5 /\ SubSeq(text, 1, 5) = <<"N", "O", "W", "(", ")">>

(* Infinity that is not in a Null<> becomes 0, and is marked null.         *)
Adapted(v) ==
  LET type == TypeOfBuffer(v)
      null == v.null \/ Infinite(v)
      text == IF IsNull(v) THEN NullSQL ELSE IF Infinite(v) THEN <<"0">> ELSE v.text
  IN [text |-> text,
      quote |-> NeedsQuotes(type) /\ ~null /\ ~IsNow(type, text),
      escape |-> NeedsEscape(type),
      null |-> null]

-----------------------------------------------------------------------------
(* The adapter as a string: a default-constructed one has no buffer.       *)

NoBuffer == [initted |-> FALSE, text |-> <<>>]
Buffer(text) == [initted |-> TRUE, text |-> text]

(* compare(): as many characters as this one has.                          *)
AdapterCompare(a, b) ==
  IF ~b.initted THEN (IF a.initted THEN 1 ELSE 0)
  ELSE IF ~a.initted THEN -1
  ELSE Compared(a.text, b.text, Len(a.text))
=============================================================================
