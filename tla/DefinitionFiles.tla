-------------------------- MODULE DefinitionFiles --------------------------
(***************************************************************************)
(* ssqlsxlat: its command line, the parser of SSQLS v2 definition files    *)
(* with the files they include, and the writing of what was parsed as      *)
(* another definition file.  A file is named by the sequence of its        *)
(* directories and its name; a line is [words, sub], sub for one that      *)
(* begins with a blank.  Words are in lower case, and a comment line has   *)
(* none.  What the program says on its error output is left out.           *)
(***************************************************************************)
EXTENDS Integers, Sequences, SequencesExt

CONSTANTS
  Words,      \* what files, names and command lines are made of
  Trees,      \* file systems: functions from file names to lines
  Commands,   \* command lines: sequences of options, [opt, arg]
  FileNamed,  \* the file name that a word is
  LongWords, LongSize, ShortSize,  \* the words of one size and of the other
  MaxOpen,    \* the number of files a process may have open
  MaxRuns     \* bound: how often the program runs

ASSUME SizeAssumption == {LongSize, ShortSize, MaxRuns} \subseteq Nat /\ MaxOpen \in Nat \ {0}

VARIABLES
  tree,       \* the files
  cmd,        \* the command line of the running program
  stack,      \* the files it is reading, each with what it has of them
  lastTable,  \* last_tld_was_table
  path,       \* search_path_
  lines,      \* the parse result
  exit,       \* "running", or the exit status
  dumped,     \* what the output files were written from
  runs        \* how often the program has run

vars == <<tree, cmd, stack, lastTable, path, lines, exit, dumped, runs>>

-----------------------------------------------------------------------------
(* The command line                                                        *)

(* The last option of a kind is the one that counts.                       *)
NoOption == [opt |-> "", arg |-> <<>>]
LastOption(options, opts) ==
  LET ks == {k \in 1..Len(options) : options[k].opt \in opts}
  IN IF ks = {} THEN NoOption ELSE options[CHOOSE k \in ks : \A j \in ks : j <= k]

Sources == [opt \in {"", "1", "i", "t"} |->
              CASE opt = "1" -> "ssqls1" [] opt = "i" -> "ssqls2" [] opt = "t" -> "table"
                [] OTHER -> "unknown"]
NoCommand == [ok |-> FALSE, input |-> <<>>, source |-> "unknown", output |-> <<>>,
              sink |-> "unknown"]
CommandLine(options) ==
  LET from == LastOption(options, {"1", "i", "t"})
      to == LastOption(options, {"o"})
      source == Sources[from.opt]
      sink == IF to.opt = "o" THEN "ssqls2" ELSE "unknown"
  IN [ok |-> /\ \A k \in 1..Len(options) :
                  options[k].opt \in {"1", "i", "t", "o", "p", "s", "u"}
             /\ source # "unknown"
             /\ source = "ssqls2" \/ sink # "unknown",
      input |-> from.arg, source |-> source, output |-> to.arg, sink |-> sink]

-----------------------------------------------------------------------------
(* Lines                                                                   *)

(* What getline() has room for: a longer line fails, and ends the file.    *)
LineSize == 99
SizeOf(word) == IF word \in LongWords THEN LongSize ELSE ShortSize
Fits(line) ==
  FoldLeft(LAMBDA n, word : n + 1 + SizeOf(word), IF line.sub THEN 0 ELSE -1, line.words)
    <= LineSize

(* Lines that were parsed; all the others are refused.                     *)
IsAttributes == {"autoinc", "key", "null", "unsigned"}
Types == {"tinyint", "smallint", "mediumint", "bigint", "float", "double", "string", "blob",
          "date", "datetime", "time", "set"}
TableLine == [kind : {"table"}, name : Words, alias : Words, filebase : Words]
FieldLine == [kind : {"field"}, name : Words, type : Types, is : SUBSET IsAttributes,
              alias : Words]
OptionLine == [kind : {"option"}, name : Words, value : Words]
BadLine == [kind |-> "error"]

(* The pairs of an attribute and its value behind the name; a word that is *)
(* left over is ignored.                                                   *)
Attributes(words) ==
  [k \in 1..(Len(words) - 2) \div 2 |-> [attr |-> words[2 * k + 1], value |-> words[2 * k + 2]]]
ValuesOf(attributes, attr) == {k \in DOMAIN attributes : attributes[k].attr = attr}
LastOf(attributes, attr, default) ==
  LET ks == ValuesOf(attributes, attr)
  IN IF ks = {} THEN default
     ELSE attributes[CHOOSE k \in ks : \A j \in ks : j <= k].value

(* Table::parse(); an alias that is not given is the name.                 *)
Table(line) ==
  LET attributes == Attributes(line.words)
      name == line.words[2]
  IN IF Len(line.words) < 2 \/ line.sub
        \/ \E k \in DOMAIN attributes : attributes[k].attr \notin {"alias", "filebase"}
     THEN BadLine
     ELSE [kind |-> "table", name |-> name, alias |-> LastOf(attributes, "alias", name),
           filebase |-> LastOf(attributes, "filebase", name)]

(* Field::Type: what is looked for in the name of a type, and in which     *)
(* order, for some of the names SQL has.                                   *)
FieldType ==
  [s \in {"", "tinyint", "int1", "bool", "smallint", "int2", "bigint", "int8", "int", "int4",
          "mediumint", "point", "float", "double", "decimal", "tinyblob", "varbinary", "blob",
          "date", "datetime", "time", "timestamp", "set", "string", "varchar", "enum"} |->
    CASE s \in {"tinyblob", "varbinary", "blob"} -> "blob"
      [] s \in {"bool", "tinyint", "int1"} -> "tinyint"
      [] s \in {"smallint", "int2"} -> "smallint"
      [] s \in {"bigint", "int8"} -> "bigint"
      [] s \in {"int", "int4", "mediumint", "point"} -> "mediumint"
      [] s \in {"double", "decimal"} -> "double"
      [] s \in {"datetime", "timestamp"} -> "datetime"
      [] s \in {"float", "date", "time", "set"} -> s
      [] OTHER -> "string"]

(* Field::parse(), of a subdirective.                                      *)
Field(line) ==
  LET attributes == Attributes(line.words)
      is == {attributes[k].value : k \in ValuesOf(attributes, "is")}
  IN IF Len(line.words) < 2 \/ ~is \subseteq IsAttributes
        \/ \E k \in DOMAIN attributes : attributes[k].attr \notin {"alias", "is", "type"}
     THEN BadLine
     ELSE [kind |-> "field", name |-> line.words[2],
           type |-> FieldType[LastOf(attributes, "type", "")], is |-> is,
           alias |-> LastOf(attributes, "alias", "")]

ParseBool(value) == IF value \in {"0", "false", "no", "off"} THEN "false" ELSE "true"
AccessorStyles == {"getX", "GetX", "get_x", "x"}
Extensions == {"header_extension", "implementation_extension"}
(* Option::parse()                                                         *)
Option(line) ==
  LET name == line.words[2]
      value == line.words[3]
      option(v) == [kind |-> "option", name |-> name, value |-> v]
  IN IF Len(line.words) # 3 \/ line.sub THEN BadLine
     ELSE CASE name = "accessor_style" /\ value \in AccessorStyles -> option(value)
            [] name = "exception_on_schema_mismatch" -> option(ParseBool(value))
            [] name \in Extensions -> option(value)
            [] OTHER -> BadLine

(* Whether a top-level directive leaves last_tld_was_table set.  Seeded    *)
(* fault: only a directive that is understood resets it.                   *)
BugTableAfter(line, last) ==
  IF line.sub THEN last ELSE line.words[1] = "table" \/ (last /\ line.words[1] = "option")
TableAfter(line, last) == IF line.sub THEN last ELSE line.words[1] = "table"

(* Line::parse(), but for `include`.                                       *)
Parsed(line, last) ==
  CASE line.words[1] = "table" -> Table(line)
    [] line.words[1] = "field" -> IF last THEN Field(line) ELSE BadLine
    [] line.words[1] = "option" -> Option(line)
    [] OTHER -> BadLine

(* print().  Seeded fault: the type is left out.                           *)
BugWrittenField(l) ==
  <<"field", l.name>> \o (IF l.alias = "" THEN <<>> ELSE <<"alias", l.alias>>)
WrittenField(l) ==
  LET Is(attr) == IF attr \in l.is THEN <<"is", attr>> ELSE <<>>
  IN <<"field", l.name, "type", l.type>>
     \o Is("autoinc") \o Is("key") \o Is("null") \o Is("unsigned")
     \o (IF l.alias = "" THEN <<>> ELSE <<"alias", l.alias>>)
WrittenOption(l) == <<"option", l.name, l.value>>
WrittenTable(l) == <<"table", l.name, "alias", l.alias, "filebase", l.filebase>>
Written(l) ==
  CASE l.kind = "table" -> WrittenTable(l)
    [] l.kind = "field" -> WrittenField(l)
    [] l.kind = "option" -> WrittenOption(l)
(* generate_ssqls2(): a field is indented.                                 *)
WrittenLine(l) == [words |-> Written(l), sub |-> l.kind = "field"]

-----------------------------------------------------------------------------
(* Files                                                                   *)

(* File(): the name as it is, and then in each directory of the search     *)
(* path, to which the directory of the name is added, not that of the file.*)
NoFile == <<>>
Candidates(name, dirs) == <<name>> \o [k \in 1..Len(dirs) |-> dirs[k] \o name]
Opened(files, name, dirs) ==
  LET names == Candidates(name, dirs)
      ks == {k \in 1..Len(names) : names[k] \in DOMAIN files}
  IN IF ks = {} THEN NoFile ELSE names[CHOOSE k \in ks : \A j \in ks : k <= j]
PathWith(name, dirs) ==
  IF Len(name) = 1 \/ Front(name) = <<".">> \/ Front(name) \in Range(dirs) THEN dirs
  ELSE Append(dirs, Front(name))

Frame(file) == [file |-> file, next |-> 1, lines |-> <<>>]
Top == Last(stack)
Line == tree[Top.file][Top.next]
HasLine == Top.next <= Len(tree[Top.file]) /\ Fits(Line)

(* Seeded fault: the line with the `include` is read again.                *)
BugPopped(files) == Front(files)
(* The including file takes the included one's lines, and goes on behind   *)
(* the line with the `include`.                                            *)
Popped(files) ==
  LET n == Len(files)
  IN [Front(files) EXCEPT ![n - 1].next = @ + 1, ![n - 1].lines = @ \o files[n].lines]

(* What the files and the command lines are: an `include` names a file, a  *)
(* type is one of those FieldType knows of, file names are not empty, and  *)
(* the words of the language are among the words.                          *)
Keywords == {"", "table", "field", "option", "alias", "filebase", "type", "is", "true", "false"}
            \cup IsAttributes \cup Types
FileNames == Seq(Words) \ {<<>>}
TextLine ==
  {line \in [words : Seq(Words), sub : BOOLEAN] :
     /\ Len(line.words) = 2 /\ line.words[1] = "include" => line.words[2] \in DOMAIN FileNamed
     /\ \A k \in ValuesOf(Attributes(line.words), "type") :
          Attributes(line.words)[k].value \in DOMAIN FieldType}
ASSUME FilesAssumption ==
  /\ Keywords \subseteq Words
  /\ FileNamed \in [DOMAIN FileNamed -> FileNames] /\ DOMAIN FileNamed \subseteq Words
  /\ \A t \in Trees : DOMAIN t \subseteq FileNames /\ t \in [DOMAIN t -> Seq(TextLine)]
  /\ \A options \in Commands :
       /\ options \in Seq([opt : Words, arg : Seq(Words)])
       /\ \A k \in 1..Len(options) :
            options[k].opt \in {"1", "i", "t", "o"} => options[k].arg # <<>>

-----------------------------------------------------------------------------
Running == -1
Reading == exit = Running /\ stack # <<>>
AtDirective(directives) ==
  Reading /\ HasLine /\ Line.words # <<>> /\ Line.words[1] \in directives

Init ==
  /\ tree \in Trees
  /\ cmd = NoCommand /\ stack = <<>> /\ lastTable = FALSE /\ path = <<>> /\ lines = <<>>
  /\ exit = 0 /\ runs = 0
  /\ dumped = [f \in {} |-> <<>>]

(* main(): the command line, and the definition file is opened.            *)
Start(options) ==
  LET c == CommandLine(options)
      file == Opened(tree, c.input, <<>>)
      parses == c.ok /\ c.source = "ssqls2" /\ file # NoFile
  IN /\ exit # Running /\ runs < MaxRuns
     /\ runs' = runs + 1 /\ cmd' = c
     /\ lastTable' = FALSE /\ lines' = <<>>
     /\ stack' = IF parses THEN <<Frame(file)>> ELSE <<>>
     /\ path' = IF parses THEN PathWith(c.input, <<>>) ELSE <<>>
     /\ exit' = IF parses THEN Running ELSE IF c.ok THEN 2 ELSE 1
     /\ UNCHANGED <<tree, dumped>>

SkipLine ==
  /\ Reading /\ HasLine /\ Line.words = <<>>
  /\ stack' = [stack EXCEPT ![Len(stack)].next = @ + 1]
  /\ UNCHANGED <<tree, cmd, lastTable, path, lines, exit, dumped, runs>>

(* A directive that is refused ends the parse: the exception goes through  *)
(* all the files that are open.                                            *)
Refuse ==
  /\ stack' = <<>> /\ exit' = 2
  /\ UNCHANGED <<tree, cmd, path, lines, dumped, runs>>

TakeLine ==
  /\ Reading /\ HasLine /\ Line.words # <<>> /\ Line.words[1] # "include"
  /\ lastTable' = TableAfter(Line, lastTable)
  /\ LET l == Parsed(Line, lastTable')
     IN IF l = BadLine THEN Refuse
        ELSE /\ stack' = [stack EXCEPT ![Len(stack)].next = @ + 1,
                                       ![Len(stack)].lines = Append(@, l)]
             /\ UNCHANGED <<tree, cmd, path, lines, exit, dumped, runs>>

(* Include::parse(): the parser of the included file runs to its end, or   *)
(* throws.  A process has only so many files open: that is what ends a     *)
(* file that includes itself.                                              *)
TakeInclude ==
  /\ AtDirective({"include"})
  /\ lastTable' = TableAfter(Line, lastTable)
  /\ LET name == FileNamed[Line.words[2]]
         file == Opened(tree, name, path)
     IN IF Len(Line.words) # 2 \/ Line.sub THEN Refuse
        ELSE IF file = NoFile \/ Len(stack) = MaxOpen THEN Refuse
        ELSE /\ stack' = Append(stack, Frame(file))
             /\ path' = PathWith(name, path)
             /\ UNCHANGED <<tree, cmd, lines, exit, dumped, runs>>

EndFile ==
  /\ Reading /\ ~HasLine
  /\ IF Len(stack) = 1 THEN lines' = Top.lines /\ stack' = <<>>
     ELSE stack' = Popped(stack) /\ UNCHANGED lines
  /\ UNCHANGED <<tree, cmd, lastTable, path, exit, dumped, runs>>

With(files, name, content) ==
  [f \in DOMAIN files \cup {name} |-> IF f = name THEN content ELSE files[f]]
(* generate_ssqls2(): the output file is written, or cannot be opened.     *)
Generate ==
  /\ exit = Running /\ stack = <<>> /\ cmd.sink = "ssqls2"
  /\ \/ /\ tree' = With(tree, cmd.output, [k \in 1..Len(lines) |-> WrittenLine(lines[k])])
        /\ dumped' = With(dumped, cmd.output, lines)
        /\ exit' = 0
     \/ exit' = 2 /\ UNCHANGED <<tree, dumped>>
  /\ UNCHANGED <<cmd, stack, lastTable, path, lines, runs>>

(* Without -o there is nothing to be done with the parse result.           *)
NoOutput ==
  /\ exit = Running /\ stack = <<>> /\ cmd.sink = "unknown"
  /\ exit' = 2
  /\ UNCHANGED <<tree, cmd, stack, lastTable, path, lines, dumped, runs>>

Proceed == SkipLine \/ TakeLine \/ TakeInclude \/ EndFile \/ Generate \/ NoOutput
Next == Proceed \/ \E options \in Commands : Start(options)

Spec == Init /\ [][Next]_vars
(* A program that runs goes on.                                            *)
FairSpec == Spec /\ WF_vars(Proceed)

-----------------------------------------------------------------------------
(* Properties                                                              *)

ParsedAll == exit = Running /\ stack = <<>>

(* What a file stands for, with all that it includes and the search path   *)
(* behind it, for a process that can still open so many files: each line   *)
(* adds itself, or what `included` has of the file that it includes.       *)
Adds(files, included, before, line) ==
  LET name == FileNamed[line.words[2]]
      inner == included[[file |-> Opened(files, name, before.dirs),
                         dirs |-> PathWith(name, before.dirs)]]
  IN IF line.words = <<>> THEN before
     ELSE IF line.words[1] = "include"
     THEN [lines |-> before.lines \o inner.lines, dirs |-> inner.dirs]
     ELSE [lines |-> Append(before.lines, Parsed(line, TRUE)), dirs |-> before.dirs]
UpTo(files, included, x) ==
  LET upTo[k \in 0..Len(files[x.file])] ==
        IF k = 0 THEN [lines |-> <<>>, dirs |-> x.dirs]
        ELSE Adds(files, included, upTo[k - 1], files[x.file][k])
  IN upTo
Expanded(files) ==
  LET expanded[opens \in 0..MaxOpen] ==
        [x \in [file : DOMAIN files, dirs : Seq(Seq(Words))] |->
           IF opens = 0 THEN [lines |-> <<>>, dirs |-> x.dirs]
           ELSE UpTo(files, expanded[opens - 1], x)[Len(files[x.file])]]
  IN expanded

(* A parse that succeeds has every line of the definition file and of all  *)
(* the files it includes, as the search path finds them, each in its place *)
(* and once for each `include`, unless a line is too long;                 *)
(* nothing is in it but tables, fields and options that make sense; and    *)
(* whatever the files, a field stands below its table, with nothing but    *)
(* fields between them.  The one list has the fields too, as the           *)
(* constructor of ParseV2 appends every line (parsev2.cpp:84); the comment *)
(* at parsev2.h:619 has it that it does not contain subdirectives, which   *)
(* would be in lists of their own: there are none.                         *)
ParsedWhole ==
  ParsedAll =>
    /\ (\A f \in DOMAIN tree : \A k \in 1..Len(tree[f]) : Fits(tree[f][k]))
         => lines = Expanded(tree)[MaxOpen][[file |-> cmd.input,
                                             dirs |-> PathWith(cmd.input, <<>>)]].lines
    /\ \A k \in 1..Len(lines) :
         /\ lines[k] \in TableLine \cup FieldLine \cup OptionLine
         /\ lines[k].kind = "field" => k > 1 /\ lines[k - 1].kind \in {"table", "field"}

(* The file that -o writes can be parsed, and says what the definition     *)
(* said, up to the first line that is too long to be read back: a line is  *)
(* written with the names and types the definition left out.  (It is not   *)
(* claimed of a definition that is overwritten with what was parsed of it, *)
(* nor of a command line that does not parse it.)                          *)
RoundTrip ==
  LET said == dumped[cmd.input]
      long == {k \in 1..Len(said) : ~Fits(WrittenLine(said[k]))}
  IN cmd.ok /\ cmd.source = "ssqls2" /\ cmd.input # cmd.output
     /\ cmd.input \in DOMAIN dumped /\ stack = <<>>
       => lines = IF long = {} THEN said
                  ELSE SubSeq(said, 1, (CHOOSE k \in long : \A j \in long : k <= j) - 1)

(* The program ends, for every tree of files: for one that includes itself *)
(* as well.                                                                *)
ProgramEnds == [](exit = Running => <>(exit # Running))
=============================================================================
