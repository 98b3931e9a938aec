--------------------------- MODULE TemplateQuery ---------------------------
(***************************************************************************)
(* A Query as a template query: its text is parsed into elements, values   *)
(* come from the arguments of a call or from template_defaults, and every  *)
(* call that sends a statement fills the template first.  The Query may be *)
(* replaced by a copy of it, as when it is returned from a function.       *)
(*                                                                         *)
(* Values are those of QueryValues.  Ghost fields of the query remember    *)
(* the template text (tmpl), how often it was parsed, and whether a        *)
(* processed value has been copied.                                        *)
(***************************************************************************)
EXTENDS Integers, Sequences, TemplateGrammar

CONSTANTS
  Characters,  \* what texts are made of
  Templates,   \* texts the program writes into a Query
  Values,      \* values, as [text, quote, escape, null]
  Names,       \* names the program asks template_defaults for
  MaxElems,    \* bound on the elements a template is parsed into
  MaxArgs      \* bound on the arguments of a call and the defaults it sets

(* The characters include those the code itself puts into a text; " ERROR" *)
(* stands for the characters of that word.                                 *)
ASSUME TemplateAssumption ==
  /\ {"%", "N", "U", "L", "'", "\\", " ", " ERROR"} \subseteq Characters
  /\ Options \subseteq Characters
  /\ \A c \in DOMAIN Escapes : Escapes[c] \in Characters
  /\ Templates \subseteq Seq(Characters)
  /\ Values \subseteq
       [text : Seq(Characters), quote : BOOLEAN, escape : BOOLEAN, null : BOOLEAN]
  /\ MaxElems \in Nat /\ MaxArgs \in Nat

VARIABLES
  query,  \* for each object
  last    \* the statement sent by the last step, and the call that sent it

vars == <<query, last>>

NoCall == [call |-> "none", sent |-> <<>>, expected |-> <<>>, regular |-> FALSE,
           lone |-> FALSE]
Calls == {"default", "params", "one", "text", "storein", "storein_params"}

(* parentNums: the names of the Query template_defaults was made for, once *)
(* that is another one; they stay what they were at the time of the copy.  *)
EmptyQuery ==
  [buf |-> <<>>, elems |-> <<>>, nums |-> <<>>, defaults |-> <<>>,
   own |-> TRUE, parentNums |-> <<>>, tmpl |-> <<>>, parses |-> 0, copied |-> FALSE]

EmptyText == Text(<<>>)

Element == [before : Seq(Characters), option : Characters, num : -128..127,
            name : Seq(Characters), named : BOOLEAN]
Value == [text : Seq(Characters), quote : BOOLEAN, escape : BOOLEAN, null : BOOLEAN,
          processed : BOOLEAN, orig : Values \cup {EmptyText}]

Numbering(nums) ==
  DOMAIN nums \subseteq Seq(Characters) /\ \A n \in DOMAIN nums : nums[n] \in 0..127

TypeOK ==
  /\ query.buf \in Seq(Characters) /\ query.tmpl \in Seq(Characters)
  /\ query.elems \in Seq(Element) /\ Len(query.elems) <= MaxElems
  /\ Numbering(query.nums) /\ Numbering(query.parentNums)
  /\ query.defaults \in Seq(Value)
  /\ query.own \in BOOLEAN /\ query.copied \in BOOLEAN /\ query.parses \in 0..2
  /\ last.call \in Calls \cup {"none"}

Init == query = EmptyQuery /\ last = NoCall

-----------------------------------------------------------------------------
(* Query::proc(): the template is filled from the arguments, and where     *)
(* they are too few from the defaults, which are prepared in place.  An    *)
(* element for which there is neither throws BadParamCount.                *)

(* What an element adds to the state s of the filling.                     *)
WithElement(s, e, args) ==
  LET n == e.num + 1
      text == s.text \o e.before
  IN CASE ~s.ok -> s
       [] s.ok /\ n <= 0 -> [s EXCEPT !.text = text]
       [] s.ok /\ n \in 1..Len(args) ->
            [s EXCEPT !.text = text \o Shown(e.option, args[n])]
       [] s.ok /\ n \in Len(args) + 1..Len(s.defaults) ->
            [s EXCEPT !.text = text \o Shown(e.option, s.defaults[n]),
                      !.defaults[n] = Prepared(e.option, @)]
       [] OTHER -> [s EXCEPT !.text = text \o <<" ERROR">>, !.ok = FALSE]

Proc(elems, args, defaults) ==
  LET after[k \in 0..Len(elems)] ==
        IF k = 0 THEN [text |-> <<>>, defaults |-> defaults, ok |-> TRUE]
        ELSE WithElement(after[k - 1], elems[k], args)
  IN after[Len(elems)]

(* Query::str(p): the text of a Query that is no template is what was      *)
(* written into it.                                                        *)
Str(r, args) ==
  IF r.elems = <<>> THEN [text |-> r.buf, defaults |-> r.defaults, ok |-> TRUE]
  ELSE Proc(r.elems, args, r.defaults)

LoneParameter(r) == Len(r.elems) = 2

(* The statement as execute(str, length), store() and use() get it: they   *)
(* take it for the lone parameter of a template, unless AutoFlag has set   *)
(* processing_ before the template was filled.                             *)
Taken(r, s, processing) ==
  IF LoneParameter(r) /\ ~processing /\ s.ok
  THEN Proc(r.elems, <<Fresh(Text(s.text))>>, s.defaults)
  ELSE s

(* Seeded fault: store() and the others without AutoFlag.                  *)
BugFilled(r, args) == Taken(r, Str(r, args), FALSE)

(* execute(), store() and use(), without arguments or with parameters...   *)
Filled(r, args) == Taken(r, Str(r, args), TRUE)
(* ...and storein(), which calls use() on the filled template.             *)
FilledStorein(r, args) == Taken(r, Str(r, args), FALSE)

(* One argument is the lone parameter of a template, or the statement.     *)
(* execute(a) passes it on as it is...                                     *)
Statement(r, v) == [text |-> v.text, defaults |-> r.defaults, ok |-> TRUE]
FilledOne(r, v) ==
  IF LoneParameter(r) THEN Taken(r, Str(r, <<Fresh(v)>>), TRUE) ELSE Statement(r, v)
(* ...while store(a), use(a) and storein(c, a) pass on data() and          *)
(* length(), as if that were the statement: what becomes the parameter is  *)
(* the string of these characters, for a number and for NULL, too.         *)
FilledText(r, v) == Taken(r, Statement(r, v), FALSE)

-----------------------------------------------------------------------------
(* What the program means: its template, each parameter rendered once, in  *)
(* the way of its option, from the argument or else the default.           *)

Given(args, defaults, n) ==
  IF n <= Len(args) THEN args[n] ELSE Fresh(defaults[n].orig)
Meant(r, args) ==
  LET elems == Parse(r.tmpl) IN
  FlattenSeq([k \in 1..Len(elems) |->
                elems[k].before
                \o (IF elems[k].num < 0 THEN <<>>
                    ELSE Shown(elems[k].option, Given(args, r.defaults, elems[k].num + 1)))])

(* What store(a), use(a) and storein(c, a) mean by a value: the string of  *)
(* its characters.  (What execute(a) means is Fresh(a).)                   *)
AsString(v) == Fresh(Text(v.text))

(* The code does otherwise for a template that uses a default with two     *)
(* options (the first one is kept), that was parsed twice, or whose        *)
(* processed defaults were copied; see the README.                         *)
OneOption(r) == \A i, j \in 1..Len(r.elems) :
                  r.elems[i].num = r.elems[j].num /\ r.elems[i].num >= 0
                  => r.elems[i].option = r.elems[j].option
Regular(r) == r.parses = 1 /\ ~r.copied /\ OneOption(r)

-----------------------------------------------------------------------------
(* The operations                                                          *)

Put(r) == query' = r

(* q << text                                                               *)
Write(t) ==
  /\ query.buf = <<>> /\ query.elems = <<>>
  /\ Put([query EXCEPT !.buf = t])
  /\ last' = NoCall

(* The number of each name: a later element of the same name wins.         *)
Named(elems, name) == {k \in 1..Len(elems) : elems[k].named /\ elems[k].name = name}
LastNum(elems, name) ==
  elems[CHOOSE k \in Named(elems, name) : \A j \in Named(elems, name) : j <= k].num
NamesOf(elems) == {elems[k].name : k \in {j \in 1..Len(elems) : elems[j].named}}

(* Seeded fault: a name that is known already keeps its number.            *)
BugNumbers(nums, elems) ==
  [name \in DOMAIN nums \cup NamesOf(elems) |->
     IF name \in DOMAIN nums THEN nums[name] ELSE LastNum(elems, name)]
Numbers(nums, elems) ==
  [name \in DOMAIN nums \cup NamesOf(elems) |->
     IF name \in NamesOf(elems) THEN LastNum(elems, name) ELSE nums[name]]

(* parse(): adds the elements of the present text to those it has.  The    *)
(* program names no parameter whose number is negative as a signed char:   *)
(* parsed_names_ is indexed with it, and what happens then is undefined.   *)
ParseText ==
  LET r == query
      elems == Parse(r.buf)
  IN /\ r.buf # <<>> /\ Len(r.elems) + Len(elems) <= MaxElems
     /\ \A k \in DOMAIN elems : elems[k].named => elems[k].num >= 0
     /\ Put([r EXCEPT !.elems = @ \o elems,
                         !.nums = Numbers(@, elems),
                         !.tmpl = IF r.parses = 0 THEN r.buf ELSE @,
                         !.parses = IF @ < 2 THEN @ + 1 ELSE @])
     /\ last' = NoCall

(* Bound: processed defaults are copied once, or their text would grow     *)
(* with each copy.                                                         *)
MayCopy(r) == r.copied => ~AnyProcessed(r.defaults)

(* template_defaults[n] = v.  A vector that grows fills up with empty      *)
(* strings, and may have to copy what it has.                              *)
WithDefault(r, n, v) ==
  LET size == IF n > Len(r.defaults) THEN n ELSE Len(r.defaults)
      set(old) == [i \in 1..size |-> IF i = n THEN Fresh(v)
                                     ELSE IF i <= Len(old) THEN old[i]
                                     ELSE Fresh(EmptyText)]
  IN {[r EXCEPT !.defaults = set(@)]}
     \cup (IF size = Len(r.defaults) \/ ~MayCopy(r) THEN {}
           ELSE {[r EXCEPT !.defaults = set(Copied(@)),
                           !.copied = @ \/ AnyProcessed(r.defaults)]})

SetDefault(n, v) ==
  /\ \E r \in WithDefault(query, n, v) : Put(r)
  /\ last' = NoCall

(* template_defaults["name"] = v: the number is looked up in the Query     *)
(* the list was made for.  An unknown name is taken for number 0 (and      *)
(* entered with it, which makes no difference to what is found later).     *)
SetNamed(name, v) ==
  LET known == IF query.own THEN query.nums ELSE query.parentNums
      n == IF name \in DOMAIN known THEN known[name] ELSE 0
  IN /\ \E r \in WithDefault(query, n + 1, v) : Put(r)
     /\ last' = NoCall

(* reset(): the names are not forgotten.                                   *)
WithoutTemplate(r) ==
  [r EXCEPT !.buf = <<>>, !.elems = <<>>, !.defaults = <<>>, !.tmpl = <<>>,
            !.parses = 0, !.copied = FALSE]
Reset ==
  /\ Put(WithoutTemplate(query))
  /\ last' = NoCall

(* A filled template is in the buffer afterwards; a call that throws       *)
(* BadParamCount leaves it there with the error, and sends nothing.  A     *)
(* statement that works resets a Query that is no template.                *)
Sent(call, s, expected, regular) ==
  LET r == [query EXCEPT !.defaults = s.defaults,
                            !.buf = IF query.elems = <<>> THEN @ ELSE s.text]
  IN IF ~s.ok THEN Put(r) /\ last' = NoCall
     ELSE /\ \E accepted \in BOOLEAN :
               Put(IF accepted /\ r.elems = <<>> THEN WithoutTemplate(r) ELSE r)
          /\ last' = [call |-> call, sent |-> s.text, expected |-> expected,
                      regular |-> regular, lone |-> LoneParameter(r)]

MeantNow(args, s) ==
  IF s.ok /\ Regular(query) THEN Meant(query, args) ELSE <<>>

(* execute(), store(), use(), exec()                                       *)
CallDefault ==
  LET s == Filled(query, <<>>)
  IN Sent("default", s, MeantNow(<<>>, s), Regular(query))

(* execute(a, b, ...), execute(SQLQueryParms&) and the like                *)
CallParams(args) ==
  LET s == Filled(query, args)
  IN Sent("params", s, MeantNow(args, s), Regular(query))

(* One argument: what is sent leaves the buffer alone if there is no lone  *)
(* parameter.                                                              *)
CallArgument(call, v, s, arg) ==
  IF LoneParameter(query)
  THEN Sent(call, s, MeantNow(<<arg>>, s), Regular(query))
  ELSE /\ \E accepted \in BOOLEAN :
            Put(IF accepted /\ query.elems = <<>> THEN WithoutTemplate(query)
                   ELSE query)
       /\ last' = [call |-> call, sent |-> s.text, expected |-> v.text, regular |-> TRUE,
                   lone |-> FALSE]

(* execute(a) *)
CallOne(v) == CallArgument("one", v, FilledOne(query, v), Fresh(v))
(* store(a), use(a), storein(container, a), execute(str, length)           *)
CallText(v) == CallArgument("text", v, FilledText(query, v), AsString(v))

(* storein(container), storein(container, a, b, ...): but one argument is  *)
(* the one of use(a).                                                      *)
CallStorein ==
  LET s == FilledStorein(query, <<>>)
  IN Sent("storein", s, MeantNow(<<>>, s), Regular(query))
CallStoreinParams(args) ==
  LET s == FilledStorein(query, args)
  IN Sent("storein_params", s, MeantNow(args, s), Regular(query))

(* str(): the template is filled, nothing is sent.                         *)
Build ==
  LET s == Str(query, <<>>) IN
  /\ Put([query EXCEPT !.defaults = s.defaults,
                             !.buf = IF query.elems = <<>> THEN @ ELSE s.text])
  /\ last' = NoCall

(* The copy constructor, and operator=, which adds to the text of the      *)
(* Query it assigns to.  The list of defaults goes on asking the Query it  *)
(* was made for.                                                           *)
CopyTo(text) ==
  /\ MayCopy(query)
  /\ Put([query EXCEPT !.buf = text \o @,
                       !.defaults = Copied(@),
                       !.copied = @ \/ AnyProcessed(query.defaults),
                       !.own = FALSE,
                       !.parentNums = IF query.own THEN query.nums ELSE @])
  /\ last' = NoCall
CopyQuery == CopyTo(<<>>)
AssignQuery(text) == query.buf = <<>> /\ CopyTo(text)

Args == UNION {[1..n -> {Fresh(v) : v \in Values}] : n \in 1..MaxArgs}

Next ==
  \/ \E t \in Templates : Write(t) \/ AssignQuery(t)
  \/ ParseText \/ Reset \/ Build \/ CopyQuery
  \/ \E v \in Values : \/ \E n \in 1..MaxArgs : SetDefault(n, v)
                       \/ \E name \in Names : SetNamed(name, v)
                       \/ CallOne(v) \/ CallText(v)
  \/ CallDefault \/ CallStorein
  \/ \E args \in Args : CallParams(args) \/ CallStoreinParams(args)

Spec == Init /\ [][Next]_vars

-----------------------------------------------------------------------------
(* Properties                                                              *)

(* However often a template is filled, with defaults, with arguments or    *)
(* with both, the statement sent is the template with each value quoted    *)
(* and escaped exactly once (pprepare(), is_processed_, AutoFlag).  That   *)
(* is each value in the way of its type, except the lone argument of       *)
(* store(a), use(a) and storein(c, a): those make a string of it, so that  *)
(* a number is quoted and NULL is sent as 'NULL' (AsString).  Nothing is   *)
(* said of storein() without such an argument on a template with one       *)
(* parameter, and of the cases that are not Regular.                       *)
FilledOnce ==
  last.regular /\ ~(last.call \in {"storein", "storein_params"} /\ last.lone)
  => last.sent = last.expected

(* A name of the template leads to its parameter, whatever templates the   *)
(* Query had before (reset() keeps their names).                           *)
NamesLead ==
  \A name \in NamesOf(query.elems) :
    name \in DOMAIN query.nums /\ query.nums[name] = LastNum(query.elems, name)

(* What a comment says, and the code does not do.                          *)

(* "We will come back in here with a completed query, but the processing_  *)
(* flag will be set" (query.cpp, Query::use()): no call fills a template   *)
(* with a template that is filled already.                                 *)
CompletedOnce == last.regular => last.sent = last.expected
=============================================================================
