-------------------------- MODULE TemplateGrammar --------------------------
(***************************************************************************)
(* Query::parse(): how the text of a template query becomes a sequence of  *)
(* SQLParseElements.  A text is a sequence of characters; an element is    *)
(* the text before a parameter, the parameter's option and its number, and *)
(* the name the template gives it.  The last element has the text after    *)
(* all parameters and the number -1.                                       *)
(***************************************************************************)
EXTENDS Integers, Sequences, SequencesExt, QueryValues

DigitValue == [c \in {"0", "1", "2", "3", "4", "5", "6", "7", "8", "9"} |->
  CASE c = "0" -> 0 [] c = "1" -> 1 [] c = "2" -> 2 [] c = "3" -> 3 [] c = "4" -> 4
    [] c = "5" -> 5 [] c = "6" -> 6 [] c = "7" -> 7 [] c = "8" -> 8 [] c = "9" -> 9]
Digits == DOMAIN DigitValue
(* isalnum() or '_', of the characters the models use.                     *)
NameChars == Digits \cup {"a", "b", "q", "Q", "_"}

(* Seeded fault: the number keeps its width.                               *)
BugSigned(n) == n
(* signed char n = atoi(num).                                              *)
Signed(n) == ((n + 128) % 256) - 128

(* The character at i, and the terminating NUL behind the last.            *)
At(s, i) == IF i \in DOMAIN s THEN s[i] ELSE "NUL"

(* The end (exclusive) of the longest run of characters of set from i on.  *)
RunEnd(s, i, set) ==
  CHOOSE j \in i..Len(s) + 1 :
    /\ \A k \in i..j - 1 : s[k] \in set
    /\ At(s, j) \notin set

Number(digits) ==
  LET value[k \in 0..Len(digits)] ==
        IF k = 0 THEN 0 ELSE 10 * value[k - 1] + DigitValue[digits[k]]
  IN value[Len(digits)]

(* The parameter whose '%' is at i, and where the text goes on.            *)
Parameter(s, i) ==
  LET run == RunEnd(s, i + 1, Digits)
      digitsEnd == IF run > i + 4 THEN i + 4 ELSE run
      hasOption == At(s, digitsEnd) \in Options
      optionEnd == IF hasOption THEN digitsEnd + 1 ELSE digitsEnd
      named == At(s, optionEnd) = ":"
      nameEnd == IF named THEN RunEnd(s, optionEnd + 1, NameChars) ELSE optionEnd
  IN [element |-> [before |-> <<>>,
                   option |-> IF hasOption THEN s[digitsEnd] ELSE " ",
                   num |-> Signed(Number(SubSeq(s, i + 1, digitsEnd - 1))),
                   name |-> IF named THEN SubSeq(s, optionEnd + 1, nameEnd - 1)
                            ELSE <<>>,
                   named |-> named],
      next |-> IF named /\ At(s, nameEnd) = ":" THEN nameEnd + 1 ELSE nameEnd]

LastElement == [before |-> <<>>, option |-> " ", num |-> -1, name |-> <<>>,
                named |-> FALSE]

(* One character more in front of what is already taken apart.             *)
Preceded(c, elements) == [elements EXCEPT ![1].before = <<c>> \o @]

(* The elements one call of parse() adds.  A '%' that is not followed by a *)
(* '%' or a digit is itself.                                               *)
Parse(s) ==
  LET from[i \in 1..Len(s) + 1] ==
        IF i > Len(s) THEN <<LastElement>>
        ELSE IF s[i] # "%" THEN Preceded(s[i], from[i + 1])
        ELSE IF At(s, i + 1) = "%" THEN Preceded("%", from[i + 2])
        ELSE IF At(s, i + 1) \in Digits
        THEN LET p == Parameter(s, i) IN <<p.element>> \o from[p.next]
        ELSE Preceded("%", from[i + 1])
  IN from[1]

-----------------------------------------------------------------------------
(* The template that says what an element says, without liberties: every   *)
(* '%' of the text doubled, three digits, the name between two colons.     *)

DigitOf(n) == CHOOSE c \in Digits : DigitValue[c] = n
Literal(text) ==
  FlattenSeq([k \in 1..Len(text) |-> IF text[k] = "%" THEN <<"%", "%">> ELSE <<text[k]>>])
WrittenParameter(e) ==
  LET n == e.num % 256 IN
  <<"%", DigitOf(n \div 100), DigitOf((n \div 10) % 10), DigitOf(n % 10)>>
  \o (IF e.option = " " THEN <<>> ELSE <<e.option>>)
  \o (IF e.named THEN <<":">> \o e.name \o <<":">> ELSE <<>>)
Template(elements) ==
  FlattenSeq([k \in 1..Len(elements) |->
                Literal(elements[k].before)
                \o (IF k = Len(elements) THEN <<>> ELSE WrittenParameter(elements[k]))])
=============================================================================
