-------------------------- MODULE MCDefinitionFiles --------------------------
(* Instances of DefinitionFiles: a definition of up to three lines, which  *)
(* may include a file beside it and one in a directory, which include each *)
(* other or themselves; and the tool run on it, and on what it wrote.      *)
EXTENDS DefinitionFiles

L(words) == [words |-> words, sub |-> FALSE]
Sub(words) == [words |-> words, sub |-> TRUE]

MainLines ==
  { L(<<"table", "t", "filebase", "u">>), L(<<"table", "long", "alias">>),
    Sub(<<"field", "f", "type", "int8", "is", "key", "is", "unsigned">>),
    L(<<"option", "exception_on_schema_mismatch", "off">>),
    L(<<"include", "x">>), L(<<"include", "y">>), L(<<>>) }
IncludedLines ==
  { <<>>, <<L(<<"table", "t">>)>>, <<L(<<"include", "y">>)>>,
    <<Sub(<<"field", "long", "alias", "long", "is", "null">>)>>,
    <<L(<<"option", "accessor_style", "getX">>), Sub(<<"field", "f">>)>> }
DirectoryLines ==
  { <<L(<<"table", "v">>), Sub(<<"field", "g", "alias", "h">>)>>, <<L(<<"include", "z">>)>>,
    <<L(<<"include", "x">>)>>,
    <<L(<<"table", "long", "alias", "long", "filebase", "v">>), L(<<>>)>> }

MCTrees ==
  { (<<"main">> :> main) @@ (<<"x">> :> x) @@ (<<"d", "y">> :> y)
    @@ (<<"d", "z">> :> <<L(<<"option", "header_extension", "hh">>)>>) :
      main \in UNION {[1..n -> MainLines] : n \in 1..3}, x \in IncludedLines, y \in DirectoryLines }
MCCommands ==
  { <<[opt |-> "i", arg |-> <<"main">>], [opt |-> "o", arg |-> <<"out">>]>>,
    <<[opt |-> "i", arg |-> <<"out">>], [opt |-> "o", arg |-> <<"main">>]>>,
    <<[opt |-> "i", arg |-> <<"out">>]>>,
    <<[opt |-> "1", arg |-> <<"main">>], [opt |-> "o", arg |-> <<"out">>]>>,
    <<[opt |-> "u", arg |-> <<"main">>], [opt |-> "t", arg |-> <<"main">>]>>,
    <<[opt |-> "h", arg |-> <<>>]>> }
MCFileNamed == [w \in {"x", "y", "z"} |-> IF w = "y" THEN <<"d", "y">> ELSE <<w>>]
MCWords == STRING
MCLongWords == {"long"}
=============================================================================
