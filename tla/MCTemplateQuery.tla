--------------------------- MODULE MCTemplateQuery ---------------------------
(* Instances of TemplateQuery: a template with one named parameter, one    *)
(* with the same name for its second, one that uses a parameter twice, one *)
(* with a number that does not fit, and a statement without any; a string, *)
(* a number and NULL.                                                      *)
EXTENDS TemplateQuery

MCCharacters == {"%", ":", "=", "0", "1", "2", "a", "q", "Q", "x", "o", "n", "r", "N", "U", "L",
                 "'", "\"", "\\", " ", " ERROR"}
MCNames == {<<"a">>, <<"b">>}
MCTemplates == { <<"%", "0", "q", ":", "a">>,
                 <<"%", "1", "Q", ":", "a", ":", "=", "%", "0">>,
                 <<"%", "0", "q", "%", "0", "q">>,
                 <<"%", "2", "0", "0">>,
                 <<"x">> }
MCValues == { Text(<<"o", "'">>),
              [text |-> <<"1">>, quote |-> FALSE, escape |-> FALSE, null |-> FALSE],
              [text |-> NullSQL, quote |-> FALSE, escape |-> FALSE, null |-> TRUE] }
=============================================================================
