--------------------------- MODULE MCTextFunctions ---------------------------
(* An instance of TextFunctions: the characters that are escaped and one   *)
(* that is not, numbers about the width of a long of eight bits, and dates *)
(* and hours at their ends.                                                *)
EXTENDS TextFunctions

MCTextChars == {"NUL", "\\", "'", "\"", "n", "a"}
MCStringTexts == {<<>>, <<"'">>, <<"a">>, <<"a", "\\">>, NullSQL, <<"N", "O", "W", "(", ")">>}
MCTemplateChars == {"%", ":", "1", "q", "a"}
MCNumberChars == {" ", "-", "1", "2", "8", ".", "0"}
MCIntegerTypes == [bits : {4, 8}, signed : BOOLEAN]
MCYears == {0, 1999, 2024}
MCDays == {1, 12}
MCHours == {0, 9, 23}
MCMinutes == {0, 59}
MCTinyValues == {-300, -129, -128, -127, -1, 0, 1, 2, 7, 127, 128, 255, 256, 300}
MCFieldNames == {"a", "A", "b"}
MCSortTexts == Texts({"a", "b"}, 2) \cup {<<"'">>, <<"b", "'", "b">>, <<"b", "'", "a">>}
MCCmpTypes == {[cmp |-> "difference", bits |-> 4], [cmp |-> "difference", bits |-> 8],
               [cmp |-> "exact", bits |-> 0], [cmp |-> "tolerance", bits |-> 2]}
MCCmpValues == {-8, -1, 0, 7}
MCArguments == { <<>>, <<"-">>, <<"-", "-">>, <<"-", "D">>, <<"-", "p">>, <<"-", "D", "p">>,
                 <<"-", "u", "D", "u">>, <<"-", "m", "-", "1">>, <<"-", "D", "m", "a">>,
                 <<"-", "a">>, <<"-", "s", " ">>, <<"-", "D", "D">>, <<"1", "a">> }
MCServices == [s \in {<<"a">>} |-> 23]
MCAddressTexts ==
  Texts({"[", "]", ":", "a", "1", "0", "/", "."}, 3)
  \cup {<<"[">> \o x \o <<"]">> \o y : x \in Texts({":", "a", "[", "1"}, 3), y \in Texts({":", "a", "1"}, 2)}
  \cup {x \o <<":">> \o y : x \in Texts({"a", "1"}, 2), y \in Texts({"a", "1", "0", ":"}, 3)}
  \cup {NullPointer}
=============================================================================
