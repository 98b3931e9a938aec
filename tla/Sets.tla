-------------------------------- MODULE Sets --------------------------------
(***************************************************************************)
(* Set<>: the C++ side of a SET column, a std::set of texts with a text    *)
(* of its own, and how the manipulators put it into a statement.           *)
(***************************************************************************)
EXTENDS Strings, QueryValues

(* std::set<std::string> keeps its members in their order.                 *)
Precedes(a, b) == Compared(a, b, Max({Len(a), Len(b)})) < 0
Members(set) == SetToSortSeq(set, Precedes)

(* operator <<: the members, with commas between them.                     *)
SetText(set) ==
  LET members == Members(set)
  IN FlattenSeq([i \in 1..Len(members) |->
                   (IF i = 1 THEN <<>> ELSE <<",">>) \o members[i]])

(* Seeded fault: nothing is left out behind a comma.                       *)
BugBehindComma(text, comma) == comma + 1
(* Where set2container() goes on behind a comma: one character is left     *)
(* out, unless there is none.                                              *)
BehindComma(text, comma) == IF comma = Len(text) THEN comma + 1 ELSE comma + 2

(* Set(text)                                                               *)
SetOf(text) ==
  LET from[i \in 1..Len(text) + 2] ==
        LET commas == {k \in i..Len(text) : text[k] = ","}
            rest == SubSeq(text, i, Len(text))
        IN IF commas = {} THEN IF rest = <<>> THEN {} ELSE {rest}
           ELSE {SubSeq(text, i, Min(commas) - 1)} \cup from[BehindComma(text, Min(commas))]
  IN from[1]

(* query << manipulator << set: it is not escaped.                         *)
StreamedSet(manip, set) ==
  IF manip = "quote_double_only" THEN Enclosed("\"", SetText(set)) ELSE Quoted(SetText(set))
=============================================================================
