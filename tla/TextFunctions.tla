---------------------------- MODULE TextFunctions ----------------------------
(***************************************************************************)
(* The pure parts of the library over bounded inputs: each state is one    *)
(* case, a family of inputs and one member of it, and each property says   *)
(* what the functions make of the cases of its family.                     *)
(***************************************************************************)
EXTENDS SqlValues, ValueTypes, Sets, Ssqls, ServerAddress, CommandLines

CONSTANTS
  TextChars,     \* the characters of the texts that are quoted...
  TextSize,      \* ...and how many there are
  StringTexts,   \* what the strings are that are given as values
  TemplateChars, \* the characters of the templates that are parsed...
  TemplateSize,  \* ...and how many there are
  NumberChars,   \* the characters of the texts that are converted...
  NumberSize,    \* ...and how many there are
  IntegerTypes,  \* the integer types they are converted to, [bits, signed]
  Years, Days, Hours, Minutes,  \* what dates and times are made of
  TinyValues,    \* operands of tiny_int
  FieldNames,    \* names of the fields of a row
  SortTexts,     \* the strings that are compared
  KeySize,       \* the number of fields of a structure that is compared,
  CmpTypes,      \* the ways they are compared...
  CmpValues,     \* ...and what is in them
  AddressTexts,  \* the texts that are given as addresses
  Arguments      \* the arguments of a command line

VARIABLE case    \* [family, ...]

Texts(chars, size) == UNION {[1..n -> chars] : n \in 0..size}

(* The values a program can give: any strings, and an SQL text of its own  *)
(* for each other type.                                                    *)
TextsOf(cpp) ==
  CASE cpp \in StringNames -> StringTexts
    [] cpp = "char" -> {t \in StringTexts : Len(t) = 1}
    [] cpp \in IntegerNames -> {<<"-", "1">>}
    [] cpp \in RealNames -> {<<"1", ".", "5">>, <<"i", "n", "f">>, <<"n", "a", "n">>}
    [] cpp = "DateTime" -> {DateTimeText(Now), <<"2", "0">>}
    [] OTHER -> {<<"2", "0">>}
CppValues ==
  UNION {{v \in [cpp : {cpp}, text : TextsOf(cpp), wrapped : BOOLEAN, null : BOOLEAN] :
            /\ v.null => v.wrapped
            /\ Adaptable(v)} : cpp \in AdaptedNames}

Dates == [y : Years, m : Days, d : Days]
Times == [h : Hours, min : Minutes, s : Minutes]
DateTimes == {d @@ t @@ [now |-> FALSE] : d \in Dates, t \in Times} \cup {Now}
(* Four digits for a year and two for the rest are all that is read: more  *)
(* fit into a field, but are not read back.                                *)
ASSUME TimesFit ==
  /\ Dates \subseteq DateType /\ Times \subseteq TimeType /\ DateTimes \subseteq DateTimeType
  /\ \A dt \in DateTimes : dt.y < 10000 /\ \A f \in {"m", "d", "h", "min", "s"} : dt[f] < 100

ASSUME AddressesAreTexts == AddressTexts \subseteq Seq(STRING)
ASSUME SortTextsAreTexts == SortTexts \subseteq Seq(DOMAIN Code \ {"NUL"})
ASSUME KeysAreIntegers ==
  /\ KeySize \in Nat /\ CmpValues \subseteq Int
  /\ CmpTypes \subseteq [cmp : {"difference", "exact", "tolerance"}, bits : Nat]
  /\ \A type \in CmpTypes : type.cmp = "difference" => type.bits # 0

Init == case = [family |-> "none"]
Pick(c) == case' = c

PickText == \E t \in Texts(TextChars, TextSize) : Pick([family |-> "text", text |-> t])
PickTemplate ==
  \E t \in Texts(TemplateChars, TemplateSize) : Pick([family |-> "template", text |-> t])
PickValue ==
  \E v \in CppValues, m \in Manipulators : Pick([family |-> "value", value |-> v, manip |-> m])
PickNumber ==
  \E t \in Texts(NumberChars, NumberSize), type \in IntegerTypes :
    Pick([family |-> "number", text |-> t, type |-> type])
PickStrings ==
  \E a, b \in SortTexts : Pick([family |-> "strings", a |-> a, b |-> b])
PickSet ==
  \E set \in SUBSET (Texts({"'", "a", "b"}, 2) \ {<<>>}) :
    Cardinality(set) <= 3 /\ Pick([family |-> "set", set |-> set])
PickTimes == \E a, b \in DateTimes : Pick([family |-> "times", a |-> a, b |-> b])
PickColumn == \E c \in Columns : Pick([family |-> "column", column |-> c])
PickType ==
  \E t \in DOMAIN SqlTypes, null \in BOOLEAN : Pick([family |-> "type", type |-> t, null |-> null])
PickRow ==
  \E n \in 1..3 : \E names \in [1..n -> FieldNames], wanted \in Texts(FieldNames, 2) :
    /\ wanted # <<>>
    /\ Pick([family |-> "row", names |-> names, wanted |-> wanted])
PickTiny ==
  \E a, b \in TinyValues, signed \in BOOLEAN,
     op \in {"+", "-", "*", "/", "%", "&", "|", "^", "<<", ">>"} :
    /\ Defined(op, Tiny(signed, a), Tiny(signed, b))
    /\ Pick([family |-> "tiny", a |-> Tiny(signed, a), b |-> b, signed |-> signed, op |-> op])
PickStruct ==
  \E n \in 1..3 : \E include \in [1..n -> BOOLEAN], cmp \in 1..n, names \in Texts(FieldNames, 2) :
    Pick([family |-> "struct", n |-> n, include |-> include, cmp |-> cmp, names |-> names])
PickKeys ==
  \E types \in [1..KeySize -> CmpTypes], cmp \in 1..KeySize, a, b \in [1..KeySize -> CmpValues] :
    Pick([family |-> "keys", types |-> types, cmp |-> cmp, a |-> a, b |-> b])
PickAddress ==
  \E t \in AddressTexts, port \in {0, 7}, windows, socket \in BOOLEAN :
    Pick([family |-> "address", text |-> t, port |-> port, windows |-> windows,
          sockets |-> IF socket THEN {t} ELSE {}])
PickCommand ==
  \E n \in 0..3 : \E args \in [1..n -> Arguments] : Pick([family |-> "command", args |-> args])
Back == case.family # "none" /\ case' = [family |-> "none"]

Next ==
  \/ /\ case.family = "none"
     /\ \/ PickText \/ PickTemplate \/ PickValue \/ PickNumber \/ PickStrings \/ PickSet
        \/ PickTimes \/ PickColumn \/ PickType \/ PickRow \/ PickTiny \/ PickStruct \/ PickKeys
        \/ PickAddress \/ PickCommand
  \/ Back
Spec == Init /\ [][Next]_case

-----------------------------------------------------------------------------
(* Properties                                                              *)

(* A list of items with a delimiter between two.                           *)
Between(items, delim) ==
  FoldLeft(LAMBDA text, item : IF text = <<>> THEN item ELSE text \o delim \o item, <<>>, items)

(* The server reads back what the program gave: a string quoted by `quote` *)
(* or by a template's q, a Set<> without characters that need escaping,    *)
(* and a date and a time the library wrote.  A Set<> reads back its own    *)
(* members if a blank comes behind each comma.  And Query::parse() reads a *)
(* template that is written in full as the one it had read, whatever       *)
(* liberties that one takes with its parameters; and                       *)
(* TCPConnection::parse_address() does with an address, and getopt() with  *)
(* a command line whose options are written one by one, each argument      *)
(* attached to its option or apart from it.                                *)
CommandText(c, attached) ==
  LET Option(letter, arg) ==
        CASE arg = NotGiven -> <<>>
          [] arg # NotGiven /\ attached /\ arg # <<>> -> <<<<"-", letter>> \o arg>>
          [] OTHER -> <<<<"-", letter>>, arg>>
      mode == IF c.m < 0 THEN <<"-">> \o Printed(-c.m, 1) ELSE Printed(c.m, 1)
  IN Option("u", c.u) \o Option("s", c.s) \o Option("p", c.p) \o Option("m", mode)
     \o (IF c.D THEN <<<<"-", "D">>>> ELSE <<>>) \o c.extra
AddressText(a) ==
  (IF Colons(a.addr) = {} THEN a.addr ELSE <<"[">> \o a.addr \o <<"]">>)
  \o <<":">> \o (IF a.port = 0 THEN <<>> ELSE Printed(a.port, 1))
ReadsBack ==
  /\ case.family = "text" =>
       /\ Read(Streamed("quote", Text(case.text))) = case.text
       /\ Read(Shown("q", Fresh(Text(case.text)))) = case.text
  /\ case.family = "set" =>
       /\ (\A m \in case.set : Range(m) \cap DOMAIN Escapes = {}) =>
            Read(StreamedSet("quote", case.set)) = SetText(case.set)
       /\ SetOf(Between(Members(case.set), <<",", " ">>)) = case.set
       /\ Cardinality(case.set) <= 1 => SetOf(SetText(case.set)) = case.set
  /\ case.family = "template" => Parse(Template(Parse(case.text))) = Parse(case.text)
  /\ case.family = "times" /\ ~case.a.now =>
       /\ DateTimeAt(DateTimeText(case.a), 1).value = case.a
       /\ DateAt(DateText(case.a), 1).value = DatePart(case.a)
       /\ TimeAt(TimeText(case.a), 1).value = TimePart(case.a)
  /\ case.family = "times" =>
       \A field \in {"y", "m", "d", "h", "min", "s"} :
         LET changed == WithField(case.a, field, 7)
         IN DateTimeAt(DateTimeText(changed), 1).value = changed
  /\ case.family = "address" =>
       LET a == ParseAddress(case.text, case.port)
       IN a.ok => ParseAddress(AddressText(a), 0) = a
  /\ case.family = "command" =>
       LET c == ParsedLine(case.args, <<"u">>, NotGiven)
       IN c.ok => \A attached \in BOOLEAN :
                    ParsedLine(CommandText(c, attached), <<>>, NotGiven) = c

(* A value means the same to the server whether it is streamed with a      *)
(* manipulator or put into a template with the option of the same meaning, *)
(* but for an infinity that is not in a Null<>: that one is 0 in a stream. *)
(* An address means the same to a TCPConnection as to a Connection, unless *)
(* it names a socket, or what is left of it without the port is not an     *)
(* address to the latter; and the same goes for a path, and for pipes.     *)
FormsAgree ==
  /\ case.family = "value" /\ ~(Infinite(case.value) /\ ~IsNull(case.value)) =>
       \A v \in {Adapted(case.value)} :
         /\ case.manip = "quote" => Streamed("quote", v) = Shown("q", Fresh(v))
         /\ case.manip = "quote_only" => Streamed("quote_only", v) = Shown("Q", Fresh(v))
         /\ case.manip \in Manipulators \ {"quote_double_only"} =>
              Shown(" ", Fresh(Pushed(case.manip, v)))
                = (IF case.manip = "ignore" THEN v.text ELSE Streamed(case.manip, v))
  /\ case.family = "address" /\ case.text # NullPointer =>
       LET direct == ParseIpcMethod(case.text, 0, case.sockets, case.windows)
           uds == UdsConnect(case.text, case.sockets, case.sockets, case.windows)
       IN /\ direct.how = "tcp" /\ Colons(direct.host) = {} /\ direct.host # <<".">>
               => TcpConnect(case.text, case.sockets, case.windows) = direct
          /\ uds = IF direct.how = "socket" THEN direct ELSE Refused
          /\ direct.how = "pipe" => WnpConnect(case.sockets, case.windows) = direct

(* A C++ variable of the type the library names for a column holds what    *)
(* the column holds: it is nullable if the column is, and an integer type  *)
(* has a sign if the column has one.  And there is an entry for each sql_  *)
(* type, which leads back to a type that is nullable if this one is, and   *)
(* can be put into a query (a Set<> can only be streamed).                 *)
ColumnFits ==
  /\ case.family = "column" =>
       LET c == case.column
           type == Annotate(ColumnType(c.mysql, c.unsigned, c.notNull))
       IN /\ type.cpp.nullable = ~c.notNull
          /\ MySQLBase[c.mysql] = "integer" =>
               (type.cpp.name \in {"tiny_uint", "ushort", "uint", "ulong"}) = c.unsigned
  /\ case.family = "type" =>
       LET cpp == CppType(case.type, case.null)
       IN /\ HasFieldType(cpp) /\ Annotate(FieldTypeOf(cpp)).cpp.nullable = cpp.nullable
          /\ cpp.name = "Set" \/ cpp.name \in AdaptedNames

(* String::conv() gives the number a text says, as long as the type holds  *)
(* it, and throws for a text that says none, unless there is nothing in it *)
(* but blanks and one sign.  A tiny_int computes like an int that is cut   *)
(* to eight bits at the end, unless a divisor or the width of a shift does *)
(* not fit into eight bits itself; and stepping it back and forth leaves it *)
(* as it was, at the ends of its range too.  And the columns of the server *)
(* fit into the types that are named for them.                             *)
ConversionExact ==
  /\ ColumnFits
  /\ case.family = "number" =>
       LET c == ConvNull(StringOf(case.text, FALSE), case.type).value
           marks == {i \in 1..Len(case.text) : case.text[i] # " "}
       IN /\ IsInteger(case.text) /\ ValueOf(case.text) \in Lowest(case.type)..Highest(case.type)
               => c = Converted(ValueOf(case.text))
          /\ ~IsInteger(case.text) /\ (\E i \in marks : case.text[i] # "-" \/ marks # {i})
               => c = BadConversion
          /\ c = Conv(StringOf(StripLeadingBlanks(case.text), FALSE), case.type)
  /\ case.family = "tiny"
     /\ (case.op \in {"/", "%", "<<", ">>"} => Tiny(case.signed, case.b) = case.b) =>
       TinyAssign(case.signed, case.op, case.a, case.b)
         = Tiny(case.signed, Arithmetic(case.op, case.a, case.b))
  /\ case.family = "tiny" =>
       TinyBinary(case.signed, case.op, case.a, Tiny(case.signed, case.b))
         = TinyAssign(case.signed, case.op, case.a, case.b)
  /\ case.family = "tiny" =>
       LET up == TinyStep(case.signed, "+", case.a, FALSE)
           down == TinyStep(case.signed, "-", up.value, TRUE)
       IN down.value = case.a /\ down.result = up.result

(* A text that sorts before another one, as the server sorts them.         *)
Before(a, b) ==
  \E i \in DOMAIN a \cap DOMAIN b :
    /\ \A j \in 1..i - 1 : a[j] = b[j]
    /\ a[i] \in Digits /\ b[i] \in Digits /\ DigitValue[a[i]] < DigitValue[b[i]]

(* The comparisons are orders: Strings compare equal only if they are, and *)
(* the other way round with the sign reversed; times sort like the texts   *)
(* the server has of them; and of two Null<>s exactly one is less, or they *)
(* are equal.  Only a SQLTypeAdapter equals every string it is the         *)
(* beginning of.  The structures of ssqls.h are ordered by their key, field *)
(* by field, as long as the difference of two integers fits.               *)
OrdersAgree ==
  /\ case.family = "strings" =>
       LET a == StringOf(case.a, FALSE)
           b == StringOf(case.b, FALSE)
       IN /\ (Compare(a, b) = 0) <=> (case.a = case.b)
          /\ Compare(a, b) = -Compare(b, a)
          /\ Compare(a, ItIsNull(NoString)) = Compare(a, StringOf(<<>>, FALSE))
          /\ (AdapterCompare(Buffer(case.a), Buffer(case.b)) = 0) <=> IsPrefix(case.a, case.b)
          /\ AdapterCompare(NoBuffer, Buffer(case.b)) = -AdapterCompare(Buffer(case.b), NoBuffer)
  /\ case.family = "times" /\ ~case.a.now /\ ~case.b.now =>
       (DateTimeCompare(case.a, case.b) < 0) <=> Before(DateTimeText(case.a), DateTimeText(case.b))
  /\ case.family = "times" =>
       \A a \in {NullOf(case.a), NotNull(case.a)}, b \in {NullOf(case.b), NotNull(case.b)} :
         /\ NullEqual(a, b) <=> ~NullLess(a, b) /\ ~NullLess(b, a)
         /\ ~(NullLess(a, b) /\ NullLess(b, a))
  /\ case.family = "keys" =>
       LET class == Class("s", <<>>, case.types, case.cmp)
           n == case.cmp
           Fits(i) == /\ class.types[i].cmp # "tolerance"
                      /\ class.types[i].cmp = "difference" =>
                           case.a[i] - case.b[i] \in Lowest(Difference(class.types[i]))
                                                    ..Highest(Difference(class.types[i]))
           Less(x, y) == \E i \in 1..n : x[i] < y[i] /\ \A j \in 1..i - 1 : x[j] = y[j]
       IN (\A i \in 1..n : Fits(i)) =>
            /\ Related("<", class, case.a, case.b) = Less(case.a, case.b)
            /\ Related(">=", class, case.a, case.b) = ~Less(case.a, case.b)
            /\ Related(">", class, case.a, case.b) = Less(case.b, case.a)
            /\ Related("<=", class, case.a, case.b) = ~Less(case.b, case.a)
            /\ \A op \in {"==", "!="} :
                 Related(op, class, case.a, case.b) = Related(op, class, case.b, case.a)

(* A list of the fields with these names has each field once, the first of *)
(* its name, in the row's order and with one delimiter between two, and it *)
(* holds what the row's operator [] gives; the same with flags instead of  *)
(* names.  But only if the first field is among them: the next one would   *)
(* have a delimiter in front of it.                                        *)
RowListsSelect ==
  case.family = "row" /\ NamesFit(case.names, case.wanted) =>
    LET size == Len(case.names)
        values == [i \in 1..size |-> Text(<<case.names[i], DigitOf(i)>>)]
        row == Row(case.names, values)
        flags == NameFlags(case.names, case.wanted)
        chosen == SelectSeq([i \in 1..size |-> i], LAMBDA i : flags[i])
        items == Items("quote", values)
        name == [i \in 1..size |-> <<case.names[i]>>]
    IN /\ \A w \in Given(case.wanted) :
            Cardinality({i \in 1..size : flags[i] /\ values[i] = RowNamed(row, w, TRUE)}) = 1
       /\ \A w \in Given(case.wanted), throw \in BOOLEAN :
            RowNamed(NoRow, w, throw) = (IF throw THEN "BadFieldName" ELSE "empty")
       /\ Cardinality({RowNamed(row, w, TRUE) : w \in Given(case.wanted)}) = Len(chosen)
       /\ flags[1] =>
            /\ ValueList("quote", values, flags, <<",">>)
                 = Between([k \in 1..Len(chosen) |-> items[chosen[k]]], <<",">>)
            /\ EqualList("quote", name, values, flags, <<",">>, <<"=">>)
                 = Between([k \in 1..Len(chosen) |-> name[chosen[k]] \o <<"=">> \o items[chosen[k]]],
                           <<",">>)
            /\ RowValuesNamed(row, case.wanted, <<",">>)
                 = RowValueList(row, [k \in 1..MaxFlags |-> k <= size /\ flags[k]], <<",">>)
            /\ Len(chosen) = size =>
                 /\ FieldList(row, <<",">>) = Between(name, <<",">>)
                 /\ FieldListOf(row, flags, <<",">>)
                      = Between([i \in 1..size |-> Quoted(name[i])], <<",">>)
                 /\ RowEqualList(row, <<",">>, <<"=">>)
                      = EqualList("quote", name, values, flags, <<",">>, <<"=">>)

(* The lists of a structure have no such exception, whether flags, the     *)
(* positions in any order or the comparison choose the fields; a list of   *)
(* all fields is the one in which all are chosen; an UPDATE asks for the   *)
(* old key and nothing else; a container of one object makes the statement *)
(* of that object; and what a row has of the fields, in any order and in   *)
(* either case, gets into them.                                            *)
StructListsSelect ==
  case.family = "struct" =>
    LET names == SubSeq(<<"a", "b", "c">>, 1, case.n)
        class == Class("s", names, <<>>, case.cmp)
        obj == Object(class, [i \in 1..case.n |-> Text(<<names[i], "'">>)])
        row == Row(case.names, [i \in 1..Len(case.names) |-> Text(<<"a", DigitOf(i)>>)])
        chosen == SelectSeq([i \in 1..case.n |-> i], LAMBDA i : case.include[i])
        filled == Populated(class, row)
        Picked(items) == [k \in 1..Len(chosen) |-> items[chosen[k]]]
        values == ValueItems(obj, "quote")
        fields == FieldItems(obj, "do_nothing")
        equals == EqualItems(obj, "quote")
        all == CreateBool(class, [i \in 1..case.n |-> TRUE])
    IN /\ LET include == CreateBool(class, case.include)
          IN /\ Chosen("value", obj, include, <<",">>) = Between(Picked(values), <<",">>)
             /\ Chosen("field", obj, include, <<",">>) = Between(Picked(fields), <<",">>)
             /\ Chosen("equal", obj, include, <<",">>) = Between(Picked(equals), <<",">>)
             /\ CreateList(class, Reverse(chosen) \o <<0, 1>>) = include
       /\ \A kind \in {"value", "field", "equal"}, manip \in Manipulators \ {"ignore"} :
            Written(FullList(kind, obj, <<",">>, manip))
              = Written(CusList(kind, obj, <<",">>, manip, all))
       /\ UpdateRow(obj, obj) = <<"UPDATE ", "s", " SET ">> \o Between(equals, <<",">>)
            \o <<" WHERE ">> \o Between(SubSeq(equals, 1, case.cmp), <<" AND ">>)
       /\ InsertRange(<<[obj EXCEPT !.table = "t"]>>) = InsertOne([obj EXCEPT !.table = "t"])
       /\ \A k \in {case.cmp, case.n} :
            InsertOne(SetObject([obj EXCEPT !.table = "t"], SubSeq(obj.values, 1, k)))
              = InsertOne(obj)
       /\ \A i \in 1..case.n, k \in 1..Len(case.names) :
            /\ \A j \in 1..Len(case.names) :
                 ToLower(case.names[j]) = names[i] => j >= k
            /\ ToLower(case.names[k]) = names[i]
            => filled[i] = row.values[k]

(* A list of fields has the fields that were asked for.                    *)
ListsSelect == RowListsSelect /\ StructListsSelect

(* What the documentation says of Set<>: its text is a list of the members *)
(* with commas between them, and it can be made from such a list.          *)
SetReadsBack == case.family = "set" => SetOf(SetText(case.set)) = case.set
=============================================================================
