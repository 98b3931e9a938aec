---------------------------- MODULE CommandLines ----------------------------
(***************************************************************************)
(* The command lines of the examples and tests, read by the getopt() that  *)
(* the library brings along for systems without one.  args are the         *)
(* arguments behind the program's name, each a sequence of characters; the *)
(* reader's place is [ind, sp], the argument and how many characters of it *)
(* are read (optind and sp).                                               *)
(***************************************************************************)
EXTENDS Strings

EOF == "end of the options"
Illegal == "?"
NotGiven == <<"(null)">>

(* "hm:p:s:u:D?": the options that take an argument, and the others.       *)
WithArgument == {"m", "p", "s", "u"}
Known == WithArgument \cup {"h", "D", "?"}

(* Seeded fault: the argument of an option is looked for in the next one   *)
(* only.                                                                   *)
BugNextOption(args, at) ==
  LET arg == args[at.ind]
      c == arg[at.sp + 1]
      next == [ind |-> at.ind + 1, sp |-> 1]
  IN CASE at.sp = 1 /\ (at.ind > Len(args) \/ At(arg, 1) # "-" \/ Len(arg) = 1) ->
            [opt |-> EOF, arg |-> NotGiven, at |-> at]
       [] c \in WithArgument /\ at.ind < Len(args) ->
            [opt |-> c, arg |-> args[at.ind + 1], at |-> [next EXCEPT !.ind = @ + 1]]
       [] c \in WithArgument /\ at.ind = Len(args) ->
            [opt |-> Illegal, arg |-> NotGiven, at |-> next]
       [] OTHER -> [opt |-> IF c \in Known THEN c ELSE Illegal, arg |-> NotGiven,
                    at |-> IF at.sp + 1 = Len(arg) THEN next ELSE [at EXCEPT !.sp = @ + 1]]
(* getopt(): one option, with what is left of its argument, or with the    *)
(* next one.  The code looks for -- only inside of a bunch of options,     *)
(* where there can be none: it is an illegal option like any other.        *)
NextOption(args, at) ==
  LET arg == args[at.ind]
      c == arg[at.sp + 1]
      next == [ind |-> at.ind + 1, sp |-> 1]
      last == at.sp + 1 = Len(arg)
  IN CASE at.sp = 1 /\ (at.ind > Len(args) \/ At(arg, 1) # "-" \/ Len(arg) = 1) ->
            [opt |-> EOF, arg |-> NotGiven, at |-> at]
       [] c \in WithArgument /\ ~last ->
            [opt |-> c, arg |-> SubSeq(arg, at.sp + 2, Len(arg)), at |-> next]
       [] c \in WithArgument /\ last /\ at.ind < Len(args) ->
            [opt |-> c, arg |-> args[at.ind + 1], at |-> [next EXCEPT !.ind = @ + 1]]
       [] c \in WithArgument /\ last /\ at.ind = Len(args) ->
            [opt |-> Illegal, arg |-> NotGiven, at |-> next]
       [] OTHER -> [opt |-> IF c \in Known THEN c ELSE Illegal, arg |-> NotGiven,
                    at |-> IF last THEN next ELSE [at EXCEPT !.sp = @ + 1]]

(* The names of the parts are those of their options: -m is run_mode_, -D  *)
(* is dtest_mode_.  A user or a password that is empty is none.            *)
NoOptions(user, pass) ==
  [ok |-> TRUE, m |-> 0, p |-> IF pass = NotGiven THEN <<>> ELSE pass, s |-> NotGiven,
   u |-> IF user = <<>> THEN NotGiven ELSE user, D |-> FALSE, extra |-> <<>>]
WithParsed(c, o) ==
  CASE o.opt = "m" -> [c EXCEPT !.m = Extracted(o.arg, Long(TRUE)).num]
    [] o.opt = "p" -> [c EXCEPT !.p = o.arg]
    [] o.opt = "s" -> [c EXCEPT !.s = o.arg]
    [] o.opt = "u" -> [c EXCEPT !.u = o.arg]
    [] o.opt = "D" -> [c EXCEPT !.D = TRUE]

(* The options up to one that ends the loop: the end of all options, one   *)
(* that is illegal, or one that asks for help.                             *)
OptionsOf(args) ==
  LET from[at \in [ind : Nat, sp : Nat]] ==
        LET o == NextOption(args, at)
        IN IF o.opt \in WithArgument \cup {"D"} THEN <<o>> \o from[o.at] ELSE <<o>>
  IN from[[ind |-> 1, sp |-> 1]]
(* The constructor, and behind the last option finish_parse().             *)
ParsedLine(args, user, pass) ==
  LET options == OptionsOf(args)
      c == FoldLeft(WithParsed, NoOptions(user, pass), Front(options))
      end == Last(options)
  IN IF end.opt = EOF THEN [c EXCEPT !.extra = SubSeq(args, end.at.ind, Len(args))]
     ELSE [c EXCEPT !.ok = FALSE]
=============================================================================
