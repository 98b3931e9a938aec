----------------------------- MODULE FieldTypes -----------------------------
(***************************************************************************)
(* FieldType: the table that relates C++ types to a base type and flags,   *)
(* its two look-ups, and the base types and flags of MySQL's columns.  A   *)
(* set of flags is a bit mask.  A C++ type is [name, nullable]; a typedef  *)
(* is the type it stands for where int64_t is long.                        *)
(***************************************************************************)
EXTENDS Integers, Sequences, FiniteSetsExt

(* The typedefs: sql_tinyint and so on, and the aliases for the types of   *)
(* other servers.  sql_X_null is a Null<> of sql_X.                        *)
Numbers ==
  [tinyint |-> "tiny_int", tinyint_unsigned |-> "tiny_uint", smallint |-> "short",
   smallint_unsigned |-> "ushort", int |-> "int", int_unsigned |-> "uint",
   mediumint |-> "int", mediumint_unsigned |-> "uint", bigint |-> "long",
   bigint_unsigned |-> "ulong", float |-> "float", double |-> "double", decimal |-> "double"]
TextTypes == {"enum", "char", "varchar", "tinytext", "text", "mediumtext", "longtext"}
Aliases ==
  [bool |-> "tinyint", boolean |-> "tinyint", character_varying |-> "varchar",
   fixed |-> "decimal", float4 |-> "float", float8 |-> "double", int1 |-> "tinyint",
   int2 |-> "smallint", int3 |-> "mediumint", int4 |-> "int", int8 |-> "bigint",
   long_varchar |-> "mediumtext", long |-> "mediumtext", middleint |-> "mediumint",
   numeric |-> "decimal", long_varbinary |-> "mediumblob"]
OwnTypes ==
  [blob |-> "String", tinyblob |-> "String", mediumblob |-> "String", longblob |-> "String",
   date |-> "Date", time |-> "Time", timestamp |-> "DateTime", datetime |-> "DateTime",
   set |-> "Set"]
Typedefs ==
  [t \in DOMAIN Numbers \cup TextTypes \cup DOMAIN OwnTypes |->
     IF t \in DOMAIN Numbers THEN Numbers[t]
     ELSE IF t \in TextTypes THEN "string" ELSE OwnTypes[t]]
SqlTypes ==
  [t \in DOMAIN Typedefs \cup DOMAIN Aliases |->
     IF t \in DOMAIN Typedefs THEN Typedefs[t] ELSE Typedefs[Aliases[t]]]
CppType(type, nullable) == [name |-> SqlTypes[type], nullable |-> nullable]

(* An entry of the table, for a typedef or for void.                       *)
Entry(sql, type, base, flag, best) ==
  [sql |-> sql,
   cpp |-> IF type = "void" THEN [name |-> "void", nullable |-> FALSE] ELSE CppType(type, FALSE),
   base |-> base, flags |-> {flag}, best |-> best]

(* types_, first half: a row for each entry.                               *)
TypeRows == <<
  <<"TINYINT", "tinyint", "integer", "default", FALSE>>,
  <<"TINYINT UNSIGNED", "tinyint_unsigned", "integer", "unsigned", FALSE>>,
  <<"SMALLINT", "smallint", "integer", "default", FALSE>>,
  <<"SMALLINT UNSIGNED", "smallint_unsigned", "integer", "unsigned", FALSE>>,
  <<"MEDIUMINT", "mediumint", "integer", "unsigned", FALSE>>,
  <<"MEDIUMINT UNSIGNED", "mediumint_unsigned", "integer", "unsigned", FALSE>>,
  <<"INT", "int", "integer", "default", TRUE>>,
  <<"INT UNSIGNED", "int_unsigned", "integer", "unsigned", TRUE>>,
  <<"BIGINT", "bigint", "integer", "default", FALSE>>,
  <<"BIGINT UNSIGNED", "bigint_unsigned", "integer", "unsigned", FALSE>>,
  <<"FLOAT", "float", "real", "default", FALSE>>,
  <<"FLOAT UNSIGNED", "float", "real", "unsigned", FALSE>>,
  <<"DOUBLE", "double", "real", "default", TRUE>>,
  <<"DOUBLE UNSIGNED", "double", "real", "unsigned", TRUE>>,
  <<"DECIMAL", "decimal", "decimal", "default", TRUE>>,
  <<"TIMESTAMP", "timestamp", "timestamp", "default", TRUE>>,
  <<"DATE", "date", "date", "default", TRUE>>,
  <<"TIME", "time", "time", "default", TRUE>>,
  <<"DATETIME", "datetime", "datetime", "default", TRUE>>,
  <<"ENUM", "enum", "enum", "default", TRUE>>,
  <<"SET", "set", "set", "default", TRUE>>,
  <<"TINYBLOB", "tinyblob", "blob", "default", FALSE>>,
  <<"MEDIUMBLOB", "mediumblob", "blob", "default", FALSE>>,
  <<"LONGBLOB", "longblob", "blob", "default", FALSE>>,
  <<"BLOB", "blob", "blob", "default", TRUE>>,
  <<"VARCHAR", "varchar", "text", "default", TRUE>>,
  <<"CHAR", "char", "text", "default", FALSE>>,
  <<"NULL", "void", "null", "default", TRUE>> >>
NotNullEntries ==
  [i \in 1..Len(TypeRows) |->
     Entry(TypeRows[i][1], TypeRows[i][2], TypeRows[i][3], TypeRows[i][4], TypeRows[i][5])]

(* ...and its second half, which repeats the first for nullable types, but *)
(* for the flags of three entries.                                         *)
NullEntry(e) ==
  [e EXCEPT !.cpp = [name |-> @.name, nullable |-> TRUE],
            !.flags = IF e.sql \in {"TIMESTAMP", "NULL"} THEN {"default"}
                      ELSE IF e.sql = "MEDIUMINT" THEN {"null"}
                      ELSE (@ \ {"default"}) \cup {"null"}]
Types == NotNullEntries \o [i \in 1..Len(NotNullEntries) |-> NullEntry(NotNullEntries[i])]

(* FieldType(type_info): TypeMap holds the last entry of each C++ type;    *)
(* for another type the constructor throws TypeLookupFailed.               *)
EntriesOf(cpp) == {i \in 1..Len(Types) : Types[i].cpp = cpp}
HasFieldType(cpp) == EntriesOf(cpp) # {}
FieldTypeOf(cpp) ==
  [base |-> Types[Max(EntriesOf(cpp))].base, flags |-> Types[Max(EntriesOf(cpp))].flags]

(* The entries with the type's base whose flags it has...                  *)
Matching(type) ==
  {i \in 1..Len(Types) : Types[i].base = type.base /\ Types[i].flags \subseteq type.flags}
Exact(type) == {i \in Matching(type) : Types[i].flags = type.flags}
Best(type) == {i \in Exact(type) : Types[i].best}

(* Seeded fault: the first match is kept.                                  *)
BugAnnotate(type) ==
  Types[IF Best(type) # {} THEN Min(Best(type)) ELSE Min(Matching(type))]
(* ...and annotate(): the first best one among those that have just them,  *)
(* or the last of all.                                                     *)
Annotate(type) ==
  Types[IF Best(type) # {} THEN Min(Best(type)) ELSE Max(Matching(type))]

NeedsQuotes(type) == type.base \in {"blob", "date", "datetime", "set", "text", "time"}
NeedsEscape(type) == type.base \in {"blob", "enum", "text"}

-----------------------------------------------------------------------------
(* MySQLFieldType                                                          *)

MySQLBase == [t \in {"TINY", "SHORT", "INT24", "LONG", "LONGLONG", "DECIMAL",
                     "NEWDECIMAL", "FLOAT", "DOUBLE", "DATE", "NEWDATE", "YEAR", "TIME",
                     "DATETIME", "TIMESTAMP", "ENUM", "SET", "BLOB", "TINY_BLOB",
                     "MEDIUM_BLOB", "LONG_BLOB", "VARCHAR", "VAR_STRING", "STRING", "BIT",
                     "GEOMETRY", "NULL", "TIME2", "DATETIME2", "TIMESTAMP2"} |->
  CASE t \in {"TINY", "SHORT", "INT24", "LONG", "LONGLONG"} -> "integer"
    [] t \in {"DECIMAL", "NEWDECIMAL", "FLOAT", "DOUBLE"} -> "real"
    [] t \in {"DATE", "NEWDATE", "YEAR"} -> "date"
    [] t = "TIME" -> "time"
    [] t \in {"DATETIME", "TIMESTAMP"} -> "datetime"
    [] t = "ENUM" -> "enum"
    [] t = "SET" -> "set"
    [] t \in {"BLOB", "TINY_BLOB", "MEDIUM_BLOB", "LONG_BLOB"} -> "blob"
    [] t \in {"VARCHAR", "VAR_STRING", "STRING"} -> "text"
    [] OTHER -> "unsupported"]

ColumnType(mysql, unsigned, notNull) ==
  [base |-> MySQLBase[mysql],
   flags |-> {"default"} \cup (IF unsigned THEN {"unsigned"} ELSE {})
             \cup (IF notNull THEN {} ELSE {"null"})]

(* The columns a server can describe: only numbers are unsigned, and no    *)
(* column has a type the library has no base for.                          *)
Columns ==
  {c \in [mysql : DOMAIN MySQLBase, unsigned : BOOLEAN, notNull : BOOLEAN] :
     /\ MySQLBase[c.mysql] # "unsupported"
     /\ c.unsigned => MySQLBase[c.mysql] \in {"integer", "real"}}
=============================================================================
