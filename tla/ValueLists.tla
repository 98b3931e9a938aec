----------------------------- MODULE ValueLists -----------------------------
(***************************************************************************)
(* Rows and the lists a program inserts into a statement: value lists,     *)
(* equal lists, and the sparse lists that leave some of the items out.  A  *)
(* row is [initialized, names, values]; names is <<>> for a row without a  *)
(* list of field names.  fields is a vector of bool.  Reading a vector     *)
(* behind its end, or the first item of an empty list, is undefined, and   *)
(* is left to the caller.                                                  *)
(***************************************************************************)
EXTENDS QueryValues

MaxFlags == 13

-----------------------------------------------------------------------------
(* Rows                                                                    *)

Row(names, values) == [initialized |-> TRUE, names |-> names, values |-> values]
NoRow == [initialized |-> FALSE, names |-> <<>>, values |-> <<>>]
Size(row) == IF row.initialized THEN Len(row.values) ELSE 0

(* Positions count from 0.                                                 *)
RowAt(row, i) == IF i < Size(row) THEN row.values[i + 1] ELSE "BadIndex"

(* str_to_lwr(), of the names the models use.                              *)
ToLower(name) == IF name = "A" THEN "a" ELSE name

(* FieldNames::operator []: the first field of that name in either case,   *)
(* or the number of fields.                                                *)
FieldNum(names, name) ==
  LET same == {i \in 1..Len(names) : ToLower(names[i]) = ToLower(name)}
  IN IF same = {} THEN Len(names) ELSE Min(same) - 1

RowNamed(row, name, throw) ==
  LET si == IF row.initialized THEN FieldNum(row.names, name) ELSE 0
  IN IF ~row.initialized /\ throw THEN "BadFieldName"
     ELSE IF si < Size(row) THEN RowAt(row, si)
     ELSE IF throw THEN "BadFieldName" ELSE "empty"

-----------------------------------------------------------------------------
(* Which items                                                             *)

(* create_vector(size, ...): as many flags as there are items, at most 13. *)
Flags(size, flags) ==
  SubSeq(flags, 1, IF size \in 1..MaxFlags THEN size ELSE MaxFlags)

(* create_vector(container, ...): the fields of these names, up to the     *)
(* first name that is empty.  A name no field has is written to behind the *)
(* vector: NamesFit says there is none.                                    *)
Given(wanted) ==
  {wanted[i] : i \in {j \in 1..Len(wanted) : \A k \in 2..j : wanted[k] # ""}}
NamesFit(names, wanted) ==
  \A w \in Given(wanted) : FieldNum(names, w) < Len(names)
NameFlags(names, wanted) ==
  [i \in 1..Len(names) |-> \E w \in Given(wanted) : FieldNum(names, w) = i - 1]

-----------------------------------------------------------------------------
(* The text of a list                                                      *)

Items(manip, values) == [i \in 1..Len(values) |-> Streamed(manip, values[i])]

(* Seeded fault: the delimiter belongs to the item before it.              *)
BugListed(items, fields, delim) ==
  FlattenSeq([i \in 1..Len(items) |->
                IF fields[i] THEN items[i] \o (IF i < Len(items) THEN delim ELSE <<>>)
                ELSE <<>>])
(* operator << of value_list_b: a delimiter is written before every item   *)
(* that is not left out, but the first.                                    *)
Listed(items, fields, delim) ==
  FlattenSeq([i \in 1..Len(items) |->
                IF ~fields[i] THEN <<>>
                ELSE IF i = 1 THEN items[i] ELSE delim \o items[i]])

(* ...and of equal_list_b, up to the end of the shorter list.              *)
Pairs(left, right, equl) ==
  [i \in 1..Min({Len(left), Len(right)}) |-> left[i] \o equl \o right[i]]

ValueList(manip, values, fields, delim) == Listed(Items(manip, values), fields, delim)
EqualList(manip, left, values, fields, delim, equl) ==
  Listed(Pairs(left, Items(manip, values), equl), fields, delim)

(* Row::field_list() and equal_list(): the names are not quoted, unless    *)
(* flags or the names of fields select some of them: then they are, like   *)
(* values, unless a manipulator is given.                                  *)
Names(row) == [i \in 1..Len(row.names) |-> Text(<<row.names[i]>>)]
FieldList(row, delim) ==
  ValueList("do_nothing", Names(row), [i \in 1..Len(row.names) |-> TRUE], delim)
FieldListOf(row, fields, delim) == ValueList("quote", Names(row), fields, delim)
RowEqualList(row, delim, equl) ==
  EqualList("quote", Items("do_nothing", Names(row)), row.values,
            [i \in 1..Len(row.names) |-> TRUE], delim, equl)

(* Row::value_list() of the fields that flags or names select.             *)
RowValueList(row, flags, delim) ==
  ValueList("quote", row.values, Flags(Size(row), flags), delim)
RowValuesNamed(row, wanted, delim) ==
  ValueList("quote", row.values, NameFlags(row.names, wanted), delim)
=============================================================================
