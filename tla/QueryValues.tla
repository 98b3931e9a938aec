---------------------------- MODULE QueryValues ----------------------------
(***************************************************************************)
(* The values a program puts into a template query, and how pprepare() and *)
(* the manipulators turn one into SQL.  A value is a SQLTypeAdapter: its   *)
(* text, whether its type is quoted and escaped, and whether it is NULL;   *)
(* in a list of parameters it also has the flag is_processed_, and orig,   *)
(* which remembers the value the program gave.  A text is a sequence of    *)
(* characters; "NUL", "nl" and "cr" are the ones without a sign.           *)
(***************************************************************************)
EXTENDS Sequences, SequencesExt

Options == {"q", "Q"}
(* The manipulators: those that put marks around a value and those that do *)
(* not.  Each is the only value of an enum: inserting it into a stream or  *)
(* into a list of parameters gives a structure that remembers which, and   *)
(* what is inserted there is treated accordingly; ignore is for lists only. *)
QuoteManipulators == {"quote", "quote_only", "quote_double_only"}
PlainManipulators == {"escape", "do_nothing", "ignore"}
Manipulators == QuoteManipulators \cup PlainManipulators

NullSQL == <<"N", "U", "L", "L">>

(* A string value: it is quoted and escaped.                               *)
Text(text) == [text |-> text, quote |-> TRUE, escape |-> TRUE, null |-> FALSE]

-----------------------------------------------------------------------------
(* Escaping                                                                *)

(* The characters escape_string_generic() puts a backslash before, and     *)
(* what stands behind it.                                                  *)
Escapes == [c \in {"NUL", "\\", "'", "\"", "nl", "cr"} |->
              CASE c = "NUL" -> "0" [] c = "nl" -> "n" [] c = "cr" -> "r" [] OTHER -> c]

(* Seeded fault: the backslash itself is left alone.                       *)
BugEscaped(text) ==
  FlattenSeq([i \in 1..Len(text) |->
                IF text[i] \in DOMAIN Escapes \ {"\\"} THEN <<"\\", Escapes[text[i]]>>
                ELSE <<text[i]>>])
Escaped(text) ==
  FlattenSeq([i \in 1..Len(text) |->
                IF text[i] \in DOMAIN Escapes THEN <<"\\", Escapes[text[i]]>>
                ELSE <<text[i]>>])

Enclosed(mark, text) == <<mark>> \o text \o <<mark>>
Quoted(text) == Enclosed("'", text)

-----------------------------------------------------------------------------
(* Values in a list of parameters                                          *)

Fresh(v) == [text |-> v.text, quote |-> v.quote, escape |-> v.escape, null |-> v.null,
             processed |-> FALSE, orig |-> v]

(* The copy constructor and operator= of SQLTypeAdapter forget the flag.   *)
Copied(values) == [i \in 1..Len(values) |-> [values[i] EXCEPT !.processed = FALSE]]
AnyProcessed(values) == \E i \in 1..Len(values) : values[i].processed

(* What pprepare() makes of a value that is not processed yet.             *)
Rendering(option, v) ==
  LET text == IF option = "q" /\ v.escape THEN Escaped(v.text) ELSE v.text
  IN IF option \in Options /\ v.quote THEN Quoted(text) ELSE text

(* Seeded fault: a default is changed in place, and not marked.            *)
BugPrepared(option, v) ==
  IF v.processed \/ v.null THEN v ELSE [v EXCEPT !.text = Rendering(option, v)]

(* ...and what it leaves in place of the value, if it is told to: the      *)
(* text, as a string from now on.                                          *)
Prepared(option, v) ==
  IF v.processed \/ v.null THEN v
  ELSE LET replaced == option = "q" \/ (option = "Q" /\ v.quote)
       IN [v EXCEPT !.text = Rendering(option, v),
                    !.quote = @ \/ replaced, !.escape = @ \/ replaced,
                    !.processed = TRUE]

Shown(option, v) ==
  IF v.null THEN NullSQL
  ELSE IF v.processed THEN v.text ELSE Rendering(option, v)

-----------------------------------------------------------------------------
(* The manipulators                                                        *)

(* Seeded fault: quote encloses whatever it gets.                          *)
BugPushed(manip, v) ==
  CASE manip \in {"quote", "quote_only"} -> Text(Quoted(v.text))
    [] OTHER -> v
(* parms << manipulator << v: what is appended to the list.  A processed   *)
(* string is made of the value, or the value is marked; push_back() copies *)
(* either one, and the copy is not processed.                              *)
Pushed(manip, v) ==
  CASE manip = "quote" /\ v.quote -> Text(Quoted(Escaped(v.text)))
    [] manip = "quote_only" /\ v.quote -> Text(Quoted(v.text))
    [] manip = "quote_double_only" /\ v.quote -> Text(Enclosed("\"", v.text))
    [] manip = "escape" /\ v.escape -> Text(Escaped(v.text))
    [] OTHER -> v

(* query << manipulator << v, or the same with a SQLStream.                *)
Streamed(manip, v) ==
  LET text == IF manip \in {"quote", "escape"} /\ v.escape THEN Escaped(v.text)
              ELSE v.text
  IN CASE manip \in {"quote", "quote_only"} /\ v.quote -> Quoted(text)
       [] manip = "quote_double_only" /\ v.quote -> Enclosed("\"", text)
       [] OTHER -> text

-----------------------------------------------------------------------------
(* The server's reading of a string literal: the text between the quotes,  *)
(* or "broken" if it is not one literal from end to end.                   *)

Unescaped(c) == IF \E e \in DOMAIN Escapes : Escapes[e] = c
                THEN CHOOSE e \in DOMAIN Escapes : Escapes[e] = c ELSE c
Read(sql) ==
  LET from[i \in 2..Len(sql) + 1] ==
        CASE i > Len(sql) -> <<"broken">>
          [] i = Len(sql) -> IF sql[i] = "'" THEN <<>> ELSE <<"broken">>
          [] i < Len(sql) /\ sql[i] = "'" -> <<"broken">>
          [] i < Len(sql) /\ sql[i] = "\\" -> <<Unescaped(sql[i + 1])>> \o from[i + 2]
          [] OTHER -> <<sql[i]>> \o from[i + 1]
  IN IF Len(sql) >= 2 /\ sql[1] = "'" THEN from[2] ELSE <<"broken">>
=============================================================================
