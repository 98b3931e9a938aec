------------------------------- MODULE Ssqls -------------------------------
(***************************************************************************)
(* The structures that the macros of ssqls.h make (ssqls.pl generates it): *)
(* comparison, filling from a row, lists of all or some of the fields, and *)
(* the statements Query builds from them.  An object is [class, values,    *)
(* table]: one value for each field, and the table name of its own, or "". *)
(* A list is [kind, obj, delim, manip, all, include]: it has no text until *)
(* it is put into a stream.                                                *)
(***************************************************************************)
EXTENDS ValueLists, Strings

(* sql_create_N(name, cmp, ...): a structure with a member for each name,  *)
(* compared by the first cmp of them.                                      *)
Class(name, names, types, cmp) == [name |-> name, names |-> names, types |-> types, cmp |-> cmp]

-----------------------------------------------------------------------------
(* Comparison                                                              *)

(* sql_cmp(): integers are subtracted, and the difference is cut to an     *)
(* int, or to eight bits for a tiny_int; long long and floating point      *)
(* numbers are compared, the latter within a tolerance.  A type is [cmp,   *)
(* bits], with the width of the difference or the tolerance for bits.      *)
Difference(type) == [bits |-> type.bits, signed |-> TRUE]
SqlCmp(type, a, b) ==
  CASE type.cmp = "difference" -> Wrapped(Difference(type), a - b)
    [] type.cmp = "tolerance" /\ a - b \in -(type.bits - 1)..type.bits - 1 -> 0
    [] OTHER -> IF a = b THEN 0 ELSE IF a < b THEN -1 ELSE 1

(* Seeded fault: the result of the last field that differs.                *)
BugSqlCompare(class, x, y) ==
  LET cmp(i) == SqlCmp(class.types[i], x[i], y[i])
      differ == {i \in 1..class.cmp : cmp(i) # 0}
  IN IF differ = {} THEN 0 ELSE cmp(Max(differ))
(* sql_compare_NAME()                                                      *)
SqlCompare(class, x, y) ==
  LET cmp(i) == SqlCmp(class.types[i], x[i], y[i])
      differ == {i \in 1..class.cmp : cmp(i) # 0}
  IN IF differ = {} THEN 0 ELSE cmp(Min(differ))
(* x == y, x != y and so on.                                               *)
Related(op, class, x, y) ==
  LET cmp == SqlCompare(class, x, y)
  IN CASE op = "==" -> cmp = 0
       [] op = "!=" -> cmp # 0
       [] op = "<" -> cmp < 0
       [] op = "<=" -> cmp <= 0
       [] op = ">" -> cmp > 0
       [] op = ">=" -> cmp >= 0

-----------------------------------------------------------------------------
(* Objects                                                                 *)

Object(class, values) == [class |-> class, values |-> values, table |-> ""]
TableOf(obj) == IF obj.table = "" THEN obj.class.name ELSE obj.table

(* populate_NAME() under NoExceptions: a field the row has not is empty.   *)
Populated(class, row) ==
  [i \in 1..Len(class.names) |-> RowNamed(row, class.names[i], FALSE)]
(* set(row), and set() of all the fields or of those it is compared by:    *)
(* the object's own table name is forgotten.                               *)
SetObject(obj, values) ==
  [obj EXCEPT !.values = values \o SubSeq(@, Len(values) + 1, Len(@)), !.table = ""]

-----------------------------------------------------------------------------
(* Which fields                                                            *)

(* From flags; from positions up to the first that is NAME_NULL, here 0;   *)
(* and the fields the class is compared by.                                *)
CreateBool(class, flags) == [i \in 1..Len(class.names) |-> i <= Len(flags) /\ flags[i]]
CreateList(class, positions) ==
  [i \in 1..Len(class.names) |->
     \E k \in 1..Len(positions) : positions[k] = i /\ \A j \in 1..k : positions[j] # 0]
UseCompare(class) == CreateBool(class, [i \in 1..class.cmp |-> TRUE])

-----------------------------------------------------------------------------
(* Lists                                                                   *)

(* Seeded fault: before is set by the first field, included or not.        *)
BugCustom(items, include, delim) ==
  FlattenSeq([i \in 1..Len(items) |->
                IF ~include[i] THEN <<>>
                ELSE IF i > 1 THEN delim \o items[i] ELSE items[i]])
(* The custom lists: a field writes a delimiter if one before it did not.  *)
Custom(items, include, delim) ==
  FoldLeft(LAMBDA out, i :
             IF ~include[i] THEN out
             ELSE [text |-> out.text \o (IF out.before THEN delim ELSE <<>>) \o items[i],
                   before |-> TRUE],
           [text |-> <<>>, before |-> FALSE], [i \in 1..Len(items) |-> i]).text
(* The full lists: a delimiter behind every field but the last.            *)
Full(items, delim) ==
  FlattenSeq([i \in 1..Len(items) |-> items[i] \o (IF i = Len(items) THEN <<>> ELSE delim)])

(* A list of all fields, and one of those that are chosen.                 *)
FullList(kind, obj, delim, manip) ==
  [kind |-> kind, obj |-> obj, delim |-> delim, manip |-> manip, all |-> TRUE]
CusList(kind, obj, delim, manip, include) ==
  [kind |-> kind, obj |-> obj, delim |-> delim, manip |-> manip, all |-> FALSE,
   include |-> include]
(* The manipulator that is used when none is given.                        *)
DefaultManip(kind) == IF kind = "field" THEN "do_nothing" ELSE "quote"

(* tick is the backquote: a manipulator takes the first one for the value. *)
FieldItems(obj, manip) ==
  [i \in 1..Len(obj.class.names) |->
     Streamed(manip, Text(<<"tick">>)) \o <<obj.class.names[i], "tick">>]
ValueItems(obj, manip) == Items(manip, obj.values)
EqualItems(obj, manip) ==
  Pairs(FieldItems(obj, "do_nothing"), ValueItems(obj, manip), <<" = ">>)
ItemsOf(list) ==
  CASE list.kind = "value" -> ValueItems(list.obj, list.manip)
    [] list.kind = "field" -> FieldItems(list.obj, list.manip)
    [] list.kind = "equal" -> EqualItems(list.obj, list.manip)

(* query << list                                                           *)
Written(list) ==
  IF list.all THEN Full(ItemsOf(list), list.delim)
  ELSE Custom(ItemsOf(list), list.include, list.delim)

(* value_list(), field_list() and equal_list(); and with flags.            *)
Defaults(kind, obj) == Written(FullList(kind, obj, <<",">>, DefaultManip(kind)))
Chosen(kind, obj, include, delim) ==
  Written(CusList(kind, obj, delim, DefaultManip(kind), include))

-----------------------------------------------------------------------------
(* The statements of Query::insert(v), insert(first, last), update(o, n);  *)
(* replace() has the form of insert().                                     *)

InsertRange(objs) ==
  IF objs = <<>> THEN <<>>
  ELSE <<"INSERT INTO ", TableOf(objs[1]), "(">> \o Defaults("field", objs[1]) \o <<") VALUES (">>
       \o FlattenSeq([k \in 1..Len(objs) |->
            (IF k = 1 THEN <<>> ELSE <<",(">>) \o Defaults("value", objs[k]) \o <<")">>])
InsertOne(obj) ==
  <<"INSERT INTO ", TableOf(obj), "(">> \o Defaults("field", obj)
  \o <<") VALUES (">> \o Defaults("value", obj) \o <<")">>

UpdateRow(o, n) ==
  <<"UPDATE ", TableOf(o), " SET ">> \o Defaults("equal", n)
  \o <<" WHERE ">> \o Chosen("equal", o, UseCompare(o.class), <<" AND ">>)
=============================================================================
