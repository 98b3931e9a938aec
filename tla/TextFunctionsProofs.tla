------------------------ MODULE TextFunctionsProofs ------------------------
(***************************************************************************)
(* Proofs about the functions that TextFunctions sweeps, for all texts,    *)
(* values and numbers and not only those of an instance.                   *)
(***************************************************************************)
EXTENDS TextFunctions, SequenceTheorems, FiniteSetTheorems, TLAPS

-----------------------------------------------------------------------------
(* Induction                                                               *)

(* Every nonempty set of natural numbers has a least element: among the    *)
(* sets 1..n for the n of S, one has no other as a proper subset.          *)
LEMMA LeastNumber ==
  ASSUME NEW S \in SUBSET Nat, S # {}
  PROVE  \E n \in S : \A m \in S : n <= m
<1>1. PICK b \in S : TRUE
  OBVIOUS
<1> DEFINE U == 1..b
           R == StrictSubsetOrdering(U)
           low == {m \in S : m <= b}
           T == {1..k : k \in low}
<1>2. b \in Nat /\ IsFiniteSet(U) /\ \A m \in low : m \in Nat /\ 1..m \in SUBSET U
  BY FS_Interval
<1>3. IsWellFoundedOn(R, FiniteSubsetsOf(U))
  BY <1>2, FS_StrictSubsetOrderingWellFounded
<1>4. FiniteSubsetsOf(U) = SUBSET U
  BY <1>2, FS_FiniteSubsetsOfFinite
<1>5. T \subseteq FiniteSubsetsOf(U) /\ T # {}
  BY <1>1, <1>2, <1>4
<1>6. PICK x \in T : \A y \in T : ~(<<y, x>> \in R)
  <2> HIDE DEF R, T, U
  <2> QED BY <1>3, <1>5, WFMin
<1>7. PICK n \in low : x = 1..n
  BY <1>6
<1>8. \A m \in low : n <= m
  <2> SUFFICES ASSUME NEW m \in low, m < n PROVE FALSE
    BY <1>2
  <2>1. 1..m \in T /\ <<1..m, x>> \notin R
    BY <1>6
  <2>2. n \in 1..n /\ n \notin 1..m
    BY <1>2
  <2>3. 1..m \subseteq x /\ 1..m # x
    BY <1>2, <1>7, <2>2
  <2>4. <<1..m, x>> \in R
    BY <1>2, <1>7, <2>3 DEF StrictSubsetOrdering
  <2> QED BY <2>1, <2>4
<1>9. \A m \in S : n <= m
  BY <1>2, <1>7, <1>8
<1> QED BY <1>7, <1>9

(* A set that contains 0 and with every number up to n - 1 also n contains *)
(* all numbers up to n: the induction the proofs below go by.              *)
LEMMA Upwards ==
  ASSUME NEW n \in Nat, NEW S, 0 \in S, \A k \in 1..n : k - 1 \in S => k \in S
  PROVE  0..n \subseteq S
<1> SUFFICES ASSUME (0..n) \ S # {} PROVE FALSE
  OBVIOUS
<1> DEFINE T == (0..n) \ S
<1>1. PICK k \in T : \A m \in T : k <= m
  <2>1. T \in SUBSET Nat
    OBVIOUS
  <2> QED BY <2>1, LeastNumber
<1>2. k # 0 /\ k - 1 \in 0..n /\ ~(k <= k - 1)
  BY <1>1
<1>3. k - 1 \in S
  BY <1>1, <1>2
<1> QED BY <1>1, <1>2, <1>3

-----------------------------------------------------------------------------
(* One value in several forms                                              *)

(* A text without characters that are escaped stays as it is.              *)
LEMMA EscapedPlain ==
  ASSUME NEW C, NEW t \in Seq(C), \A i \in 1..Len(t) : t[i] \notin DOMAIN Escapes
  PROVE  Escaped(t) = t
<1> DEFINE seqs == [i \in 1..Len(t) |-> IF t[i] \in DOMAIN Escapes THEN <<"\\", Escapes[t[i]]>>
                                        ELSE <<t[i]>>]
           n == Len(t)
           Step(f) == f = [i \in 1..Len(seqs) |-> IF i = 1 THEN seqs[i] ELSE f[i - 1] \o seqs[i]]
           joined == [i \in 1..n |-> SubSeq(t, 1, i)]
<1>1. n \in Nat /\ Len(seqs) = n /\ \A i \in 1..n : seqs[i] = <<t[i]>> /\ t[i] \in C
  BY ElementOfSeq
<1>2. Escaped(t) = FlattenSeq(seqs)
  BY DEF Escaped
<1>3. CASE n = 0
  <2>1. seqs = <<>> /\ t = <<>>
    BY <1>3, EmptySeq
  <2>2. FlattenSeq(seqs) = seqs
    BY <1>1, <1>3 DEF FlattenSeq
  <2> QED BY <1>2, <2>1, <2>2
<1>4. CASE n # 0
  <2>1. FlattenSeq(seqs) = (CHOOSE f : Step(f))[n]
    <3> HIDE DEF seqs
    <3> QED BY <1>1, <1>4 DEF FlattenSeq
  <2> HIDE DEF seqs
  <2>2. SubSeq(t, 1, 1) = <<t[1]>>
    <3>1. 1 \in 1..n /\ 1 \in 1..1
      BY <1>1, <1>4
    <3>2. SubSeq(t, 1, 1) = SubSeq(t, 1, 1 - 1) \o <<t[1]>>
      BY <3>1, SubSeqRecursiveSecond
    <3>3. SubSeq(t, 1, 1 - 1) = <<>>
      BY SubSeqEmpty
    <3>4. <<>> \o <<t[1]>> = <<t[1]>>
      BY <1>1, <3>1
    <3> QED BY <3>2, <3>3, <3>4
  <2>3. ASSUME NEW i \in 2..n PROVE SubSeq(t, 1, i) = SubSeq(t, 1, i - 1) \o <<t[i]>>
    <3>1. i \in 1..n /\ i \in Int /\ 1 \in 1..n + 1
      BY <1>1
    <3> QED BY <1>1, <3>1, SubSeqRecursiveSecond
  <2>4. Step(joined)
    <3>1. ASSUME NEW i \in 1..n
          PROVE  SubSeq(t, 1, i) = IF i = 1 THEN seqs[i] ELSE joined[i - 1] \o seqs[i]
      <4>1. CASE i = 1
        BY <1>1, <2>2, <4>1
      <4>2. CASE i # 1
        <5>1. i \in 2..n /\ i - 1 \in 1..n
          BY <1>1, <4>2
        <5>2. joined[i - 1] = SubSeq(t, 1, i - 1)
          BY <5>1
        <5> QED BY <1>1, <2>3, <4>2, <5>1, <5>2
      <4> QED BY <4>1, <4>2
    <3> QED BY <1>1, <3>1
  <2>5. PICK f : f = (CHOOSE g : Step(g)) /\ Step(f)
    <3> HIDE DEF Step, joined
    <3> QED BY <2>4
  <2>6. \A i \in 1..n : f[i] = IF i = 1 THEN seqs[i] ELSE f[i - 1] \o seqs[i]
    BY <1>1, <2>5
  <2> DEFINE S == {0} \cup {i \in 1..n : f[i] = SubSeq(t, 1, i)}
  <2>7. ASSUME NEW i \in 1..n, i - 1 \in S PROVE i \in S
    <3>1. CASE i = 1
      BY <1>1, <2>2, <2>6, <3>1
    <3>2. CASE i # 1
      <4>1. i \in 2..n /\ f[i - 1] = SubSeq(t, 1, i - 1)
        BY <1>1, <2>7, <3>2
      <4>2. f[i] = f[i - 1] \o seqs[i]
        BY <2>6, <3>2
      <4> QED BY <1>1, <2>3, <4>1, <4>2
    <3> QED BY <3>1, <3>2
  <2>8. 0..n \subseteq S
    <3>1. 0 \in S
      OBVIOUS
    <3> HIDE DEF S, n
    <3> QED BY <1>1, <2>7, <3>1, Upwards
  <2>9. n \in 0..n /\ n # 0
    BY <1>1, <1>4
  <2>10. f[n] = SubSeq(t, 1, n)
    BY <2>8, <2>9
  <2>11. SubSeq(t, 1, n) = t
    BY SubSeqFull
  <2> QED BY <1>2, <2>1, <2>5, <2>10, <2>11
<1> QED BY <1>3, <1>4

(* The characters of NULL are among those.                                 *)
LEMMA NullIsPlain == Escaped(NullSQL) = NullSQL
<1>1. NullSQL \in Seq({"N", "U", "L"}) /\ \A i \in 1..Len(NullSQL) : NullSQL[i] \in {"N", "U", "L"}
  BY DEF NullSQL
<1>2. \A c \in {"N", "U", "L"} : c \notin DOMAIN Escapes
  BY DEF Escapes
<1> QED BY <1>1, <1>2, EscapedPlain

(* What the manipulators and the options of a template make of a value.    *)
LEMMA StreamedForms ==
  ASSUME NEW v
  PROVE  LET escaped == IF v.escape THEN Escaped(v.text) ELSE v.text
         IN /\ Streamed("quote", v) = IF v.quote THEN Quoted(escaped) ELSE escaped
            /\ Streamed("quote_only", v) = IF v.quote THEN Quoted(v.text) ELSE v.text
            /\ Streamed("escape", v) = escaped
            /\ Streamed("do_nothing", v) = v.text
BY ZenonT(60) DEF Streamed
LEMMA PushedForms ==
  ASSUME NEW v
  PROVE  /\ Pushed("quote", v) = IF v.quote THEN Text(Quoted(Escaped(v.text))) ELSE v
         /\ Pushed("quote_only", v) = IF v.quote THEN Text(Quoted(v.text)) ELSE v
         /\ Pushed("escape", v) = IF v.escape THEN Text(Escaped(v.text)) ELSE v
         /\ Pushed("do_nothing", v) = v
         /\ Pushed("ignore", v) = v
BY ZenonT(60) DEF Pushed
LEMMA ShownForms ==
  ASSUME NEW v
  PROVE  /\ v.null => \A option : Shown(option, Fresh(v)) = NullSQL
         /\ ~v.null => LET escaped == IF v.escape THEN Escaped(v.text) ELSE v.text
                       IN /\ Shown("q", Fresh(v)) = IF v.quote THEN Quoted(escaped) ELSE escaped
                          /\ Shown("Q", Fresh(v)) = IF v.quote THEN Quoted(v.text) ELSE v.text
                          /\ Shown(" ", Fresh(v)) = v.text
<1>1. /\ Fresh(v).text = v.text /\ Fresh(v).quote = v.quote /\ Fresh(v).escape = v.escape
      /\ Fresh(v).null = v.null /\ Fresh(v).processed = FALSE
  BY DEF Fresh
<1> QED BY <1>1 DEF Shown, Rendering, Options

(* The names of C++ types: a char is none of them.                         *)
LEMMA TypeNames ==
  /\ \A t \in DOMAIN SqlTypes : SqlTypes[t] \in AdaptedNames \cup {"Set"} /\ SqlTypes[t] # "char"
  /\ DOMAIN Numbers \cup TextTypes \cup DOMAIN OwnTypes \subseteq DOMAIN SqlTypes
<1>1. \A t \in DOMAIN Numbers : Numbers[t] \in IntegerNames \cup RealNames
  BY DEF Numbers, IntegerNames, RealNames
<1>2. \A t \in DOMAIN OwnTypes : OwnTypes[t] \in {"String", "Date", "Time", "DateTime", "Set"}
  BY DEF OwnTypes
<1>3. \A t \in DOMAIN Typedefs :
        Typedefs[t] \in IntegerNames \cup RealNames \cup {"string", "String", "Date", "Time", "DateTime", "Set"}
  BY <1>1, <1>2 DEF Typedefs
<1>4. \A t \in DOMAIN Aliases : Aliases[t] \in DOMAIN Typedefs
  BY DEF Aliases, Typedefs, Numbers, OwnTypes, TextTypes
<1>5. \A t \in DOMAIN SqlTypes :
        SqlTypes[t] \in IntegerNames \cup RealNames \cup {"string", "String", "Date", "Time", "DateTime", "Set"}
  BY <1>3, <1>4 DEF SqlTypes
<1> QED BY <1>5 DEF SqlTypes, Typedefs, AdaptedNames, IntegerNames, RealNames, StringNames, DateNames

(* No entry of the table is for a char, and none has a text for a date.    *)
IsEntry(e) ==
  /\ e = [sql |-> e.sql, cpp |-> e.cpp, base |-> e.base, flags |-> e.flags, best |-> e.best]
  /\ e.cpp.name # "char"
  /\ e.base = "text" => e.cpp.name # "DateTime"
LEMMA EntryOfType ==
  ASSUME NEW sql, NEW type \in DOMAIN SqlTypes \cup {"void"}, NEW base, NEW flag, NEW best,
         base = "text" => type \in TextTypes
  PROVE  IsEntry(Entry(sql, type, base, flag, best))
<1> DEFINE cpp == IF type = "void" THEN [name |-> "void", nullable |-> FALSE] ELSE CppType(type, FALSE)
           e == Entry(sql, type, base, flag, best)
<1>1. cpp.name # "char" /\ (base = "text" => cpp.name # "DateTime")
  <2>1. base = "text" => SqlTypes[type] = "string" /\ type # "void"
    BY DEF SqlTypes, Typedefs, TextTypes, Numbers
  <2> QED BY <2>1, TypeNames DEF CppType
<1>2. e = [sql |-> sql, cpp |-> cpp, base |-> base, flags |-> {flag}, best |-> best]
  BY DEF Entry
<1> HIDE DEF cpp, e
<1> QED BY <1>1, <1>2 DEF IsEntry, e
LEMMA FirstEntries == \A i \in 1..28 : IsEntry(NotNullEntries[i])
<1> DEFINE D == DOMAIN SqlTypes \cup {"void"}
<1>1. "void" \in D
  OBVIOUS
<1>2. /\ "tinyint" \in D /\ "tinyint_unsigned" \in D /\ "smallint" \in D
      /\ "smallint_unsigned" \in D /\ "mediumint" \in D /\ "mediumint_unsigned" \in D
      /\ "int" \in D /\ "int_unsigned" \in D /\ "bigint" \in D
      /\ "bigint_unsigned" \in D /\ "float" \in D /\ "double" \in D /\ "decimal" \in D
  BY TypeNames DEF Numbers
<1>3. /\ "enum" \in D /\ "varchar" \in D /\ "char" \in D
  BY TypeNames DEF TextTypes
<1>4. /\ "timestamp" \in D /\ "date" \in D /\ "time" \in D /\ "datetime" \in D
      /\ "set" \in D /\ "tinyblob" \in D /\ "mediumblob" \in D /\ "longblob" \in D
      /\ "blob" \in D
  BY TypeNames DEF OwnTypes
<1> HIDE DEF D
<1> DEFINE IsRow(r) == r[2] \in D /\ (r[3] = "text" => r[2] \in {"varchar", "char"})
<1>5. /\ IsRow(<<"TINYINT", "tinyint", "integer", "default", FALSE>>)
      /\ IsRow(<<"TINYINT UNSIGNED", "tinyint_unsigned", "integer", "unsigned", FALSE>>)
      /\ IsRow(<<"SMALLINT", "smallint", "integer", "default", FALSE>>)
      /\ IsRow(<<"SMALLINT UNSIGNED", "smallint_unsigned", "integer", "unsigned", FALSE>>)
  BY <1>1, <1>2, <1>3, <1>4
<1>6. /\ IsRow(<<"MEDIUMINT", "mediumint", "integer", "unsigned", FALSE>>)
      /\ IsRow(<<"MEDIUMINT UNSIGNED", "mediumint_unsigned", "integer", "unsigned", FALSE>>)
      /\ IsRow(<<"INT", "int", "integer", "default", TRUE>>)
      /\ IsRow(<<"INT UNSIGNED", "int_unsigned", "integer", "unsigned", TRUE>>)
  BY <1>1, <1>2, <1>3, <1>4
<1>7. /\ IsRow(<<"BIGINT", "bigint", "integer", "default", FALSE>>)
      /\ IsRow(<<"BIGINT UNSIGNED", "bigint_unsigned", "integer", "unsigned", FALSE>>)
      /\ IsRow(<<"FLOAT", "float", "real", "default", FALSE>>)
      /\ IsRow(<<"FLOAT UNSIGNED", "float", "real", "unsigned", FALSE>>)
  BY <1>1, <1>2, <1>3, <1>4
<1>8. /\ IsRow(<<"DOUBLE", "double", "real", "default", TRUE>>)
      /\ IsRow(<<"DOUBLE UNSIGNED", "double", "real", "unsigned", TRUE>>)
      /\ IsRow(<<"DECIMAL", "decimal", "decimal", "default", TRUE>>)
      /\ IsRow(<<"TIMESTAMP", "timestamp", "timestamp", "default", TRUE>>)
  BY <1>1, <1>2, <1>3, <1>4
<1>9. /\ IsRow(<<"DATE", "date", "date", "default", TRUE>>)
      /\ IsRow(<<"TIME", "time", "time", "default", TRUE>>)
      /\ IsRow(<<"DATETIME", "datetime", "datetime", "default", TRUE>>)
      /\ IsRow(<<"ENUM", "enum", "enum", "default", TRUE>>)
  BY <1>1, <1>2, <1>3, <1>4
<1>10. /\ IsRow(<<"SET", "set", "set", "default", TRUE>>)
       /\ IsRow(<<"TINYBLOB", "tinyblob", "blob", "default", FALSE>>)
       /\ IsRow(<<"MEDIUMBLOB", "mediumblob", "blob", "default", FALSE>>)
       /\ IsRow(<<"LONGBLOB", "longblob", "blob", "default", FALSE>>)
  BY <1>1, <1>2, <1>3, <1>4
<1>11. /\ IsRow(<<"BLOB", "blob", "blob", "default", TRUE>>)
       /\ IsRow(<<"VARCHAR", "varchar", "text", "default", TRUE>>)
       /\ IsRow(<<"CHAR", "char", "text", "default", FALSE>>)
       /\ IsRow(<<"NULL", "void", "null", "default", TRUE>>)
  BY <1>1, <1>2, <1>3, <1>4
<1> HIDE DEF IsRow
<1>12. IsRow(TypeRows[1]) /\ IsRow(TypeRows[2]) /\ IsRow(TypeRows[3]) /\ IsRow(TypeRows[4])
  BY <1>5 DEF TypeRows
<1>13. IsRow(TypeRows[5]) /\ IsRow(TypeRows[6]) /\ IsRow(TypeRows[7]) /\ IsRow(TypeRows[8])
  BY <1>6 DEF TypeRows
<1>14. IsRow(TypeRows[9]) /\ IsRow(TypeRows[10]) /\ IsRow(TypeRows[11]) /\ IsRow(TypeRows[12])
  BY <1>7 DEF TypeRows
<1>15. IsRow(TypeRows[13]) /\ IsRow(TypeRows[14]) /\ IsRow(TypeRows[15]) /\ IsRow(TypeRows[16])
  BY <1>8 DEF TypeRows
<1>16. IsRow(TypeRows[17]) /\ IsRow(TypeRows[18]) /\ IsRow(TypeRows[19]) /\ IsRow(TypeRows[20])
  BY <1>9 DEF TypeRows
<1>17. IsRow(TypeRows[21]) /\ IsRow(TypeRows[22]) /\ IsRow(TypeRows[23]) /\ IsRow(TypeRows[24])
  BY <1>10 DEF TypeRows
<1>18. IsRow(TypeRows[25]) /\ IsRow(TypeRows[26]) /\ IsRow(TypeRows[27]) /\ IsRow(TypeRows[28])
  BY <1>11 DEF TypeRows
<1>19. ASSUME NEW i \in 1..28 PROVE IsEntry(NotNullEntries[i])
  <2>1. IsRow(TypeRows[i])
    BY <1>12, <1>13, <1>14, <1>15, <1>16, <1>17, <1>18
  <2>2. PICK r : r = TypeRows[i]
    OBVIOUS
  <2>3. r[2] \in D /\ (r[3] = "text" => r[2] \in TextTypes)
    BY <2>1, <2>2 DEF IsRow, TextTypes
  <2>4. NotNullEntries[i] = Entry(r[1], r[2], r[3], r[4], r[5])
    <3>1. i \in 1..Len(TypeRows)
      BY DEF TypeRows
    <3> QED BY <2>2, <3>1 DEF NotNullEntries
  <2> QED BY <2>3, <2>4, EntryOfType DEF D
<1> QED BY <1>19
LEMMA SecondEntries == ASSUME NEW e, IsEntry(e) PROVE IsEntry(NullEntry(e))
<1> DEFINE f == IF e.sql \in {"TIMESTAMP", "NULL"} THEN {"default"}
                ELSE IF e.sql = "MEDIUMINT" THEN {"null"}
                ELSE (e.flags \ {"default"}) \cup {"null"}
<1>1. NullEntry(e) = [sql |-> e.sql, cpp |-> [name |-> e.cpp.name, nullable |-> TRUE], base |-> e.base,
                      flags |-> f, best |-> e.best]
  <2>1. PICK sql, cpp, base, flags, best :
          e = [sql |-> sql, cpp |-> cpp, base |-> base, flags |-> flags, best |-> best]
    BY DEF IsEntry
  <2>2. NullEntry(e) = [e EXCEPT !.cpp = [name |-> e.cpp.name, nullable |-> TRUE], !.flags = f]
    BY <2>1 DEF NullEntry
  <2> HIDE DEF f
  <2> QED BY <2>1, <2>2
<1> HIDE DEF f
<1> QED BY <1>1 DEF IsEntry
LEMMA TableEntries ==
  /\ \A i \in 1..Len(Types) : IsEntry(Types[i])
  /\ Len(Types) = 56 /\ Types[54] = NullEntry(NotNullEntries[26])
<1> DEFINE E == {e \in {NotNullEntries[i] : i \in 1..28} \cup {NullEntry(NotNullEntries[i]) : i \in 1..28} : IsEntry(e)}
           second == [i \in 1..Len(NotNullEntries) |-> NullEntry(NotNullEntries[i])]
<1>1. Len(NotNullEntries) = 28 /\ DOMAIN NotNullEntries = 1..28
  <2>1. Len(TypeRows) = 28
    BY DEF TypeRows
  <2> QED BY <2>1 DEF NotNullEntries
<1>2. NotNullEntries \in Seq(E)
  <2>1. \A i \in 1..28 : NotNullEntries[i] \in E
    BY FirstEntries
  <2>2. NotNullEntries = [i \in 1..28 |-> NotNullEntries[i]]
    BY <1>1 DEF NotNullEntries
  <2> HIDE DEF E
  <2> QED BY <2>1, <2>2
<1>3. second \in Seq(E)
  <2>1. \A i \in 1..28 : NullEntry(NotNullEntries[i]) \in E
    BY FirstEntries, SecondEntries
  <2> HIDE DEF E
  <2> QED BY <1>1, <2>1
<1>4. Types \in Seq(E)
  <2> HIDE DEF E, second
  <2>1. NotNullEntries \o second \in Seq(E)
    BY <1>2, <1>3
  <2> QED BY <2>1 DEF Types, second
<1>6. Len(second) = 28 /\ second[26] = NullEntry(NotNullEntries[26])
  BY <1>1
<1>7. Len(Types) = 56 /\ Types[54] = second[26]
  <2> HIDE DEF E, second
  <2>1. PICK e : e = NotNullEntries /\ e \in Seq(E) /\ Len(e) = 28
    BY <1>1, <1>2
  <2>2. PICK f : f = second /\ f \in Seq(E) /\ Len(f) = 28
    BY <1>3, <1>6
  <2>3. /\ Len(e \o f) = Len(e) + Len(f)
        /\ \A i \in 1..Len(e) + Len(f) : (e \o f)[i] = IF i <= Len(e) THEN e[i] ELSE f[i - Len(e)]
    BY <2>1, <2>2, ConcatProperties
  <2>4. /\ Len(e \o f) = 28 + 28
        /\ \A i \in 1..28 + 28 : (e \o f)[i] = IF i <= 28 THEN e[i] ELSE f[i - 28]
    BY ONLY <2>1, <2>2, <2>3
  <2>5. Len(e \o f) = 56 /\ (e \o f)[54] = f[26]
    <3>1. 54 \in 1..28 + 28 /\ ~(54 <= 28) /\ 54 - 28 = 26 /\ 28 + 28 = 56
      OBVIOUS
    <3>2. (e \o f)[54] = f[54 - 28]
      BY ONLY <2>4, <3>1
    <3> QED BY ONLY <2>4, <3>1, <3>2
  <2> QED BY <2>1, <2>2, <2>5 DEF Types, second
<1>5. \A i \in 1..Len(Types) : Types[i] \in E
  <2> HIDE DEF E
  <2> QED BY <1>4
<1> QED BY <1>5, <1>6, <1>7
LEMMA NoCharType == ~HasFieldType(PlainType("char"))
BY TableEntries DEF HasFieldType, EntriesOf, PlainType, IsEntry

(* A string is no DateTime: the best entry for it is VARCHAR NULL.         *)
LEMMA StringsAreTexts == Annotate(StringType).cpp # PlainType("DateTime")
<1> DEFINE B == Best(StringType)
<1>1. StringType.base = "text" /\ StringType.flags = {"null"}
  BY DEF StringType
<1>2. Types[54].base = "text" /\ Types[54].flags = {"null"} /\ Types[54].best = TRUE
  <2>1. "varchar" \in TextTypes /\ "varchar" # "void"
    BY DEF TextTypes
  <2>2. NotNullEntries[26] = [sql |-> "VARCHAR", cpp |-> CppType("varchar", FALSE), base |-> "text",
                              flags |-> {"default"}, best |-> TRUE]
    <3>1. PICK r : r = TypeRows[26]
      OBVIOUS
    <3>2. /\ r[1] = "VARCHAR" /\ r[2] = "varchar" /\ r[3] = "text" /\ r[4] = "default" /\ r[5] = TRUE
          /\ 26 \in 1..Len(TypeRows)
      BY <3>1 DEF TypeRows
    <3>3. NotNullEntries[26] = Entry(r[1], r[2], r[3], r[4], r[5])
      BY <3>1, <3>2 DEF NotNullEntries
    <3> QED BY <2>1, <3>2, <3>3 DEF Entry
  <2>3. NullEntry(NotNullEntries[26])
          = [NotNullEntries[26] EXCEPT !.cpp = [name |-> @.name, nullable |-> TRUE],
                                       !.flags = (@ \ {"default"}) \cup {"null"}]
    BY <2>2 DEF NullEntry
  <2> QED BY <2>2, <2>3, TableEntries
<1>3. B \in SUBSET Nat /\ 54 \in B /\ \A i \in B : i \in 1..Len(Types) /\ Types[i].base = "text"
  BY <1>1, <1>2, TableEntries DEF Best, Exact, Matching
<1>4. \E n \in B : \A m \in B : n <= m
  <2> HIDE DEF B
  <2> QED BY <1>3, LeastNumber
<1>5. PICK n \in B : n = Min(B)
  BY <1>4 DEF Min
<1>6. Annotate(StringType) = Types[n]
  BY <1>3, <1>5 DEF Annotate
<1>7. Types[n].cpp.name # "DateTime"
  BY <1>3, <1>5, TableEntries DEF IsEntry
<1>8. PlainType("DateTime").name = "DateTime"
  BY DEF PlainType
<1> QED BY <1>6, <1>7, <1>8

(* What is escaped or quoted but not both has nothing to escape.           *)
LEMMA AdaptedText ==
  ASSUME NEW x \in CppValues
  PROVE  (Adapted(x).escape /\ Adapted(x).quote) \/ Escaped(Adapted(x).text) = Adapted(x).text
<1> DEFINE v == Adapted(x)
<1>1. x.cpp \in AdaptedNames /\ x.text \in TextsOf(x.cpp) /\ Adaptable(x)
  BY DEF CppValues
<1>2. v.text = IF IsNull(x) THEN NullSQL ELSE IF Infinite(x) THEN <<"0">> ELSE x.text
  BY DEF Adapted
<1>3. CASE IsString(x) /\ ~IsNull(x)
  <2>1. ~Infinite(x) /\ ~x.null
    BY <1>3 DEF IsString, IsNull, Infinite, StringNames, RealNames
  <2>2. TypeOfBuffer(x) = StringType /\ ~IsNow(StringType, x.text)
    BY <1>3, StringsAreTexts DEF TypeOfBuffer, IsNow
  <2>3. NeedsQuotes(StringType) /\ NeedsEscape(StringType)
    BY DEF NeedsQuotes, NeedsEscape, StringType
  <2> QED BY <1>3, <2>1, <2>2, <2>3 DEF Adapted
<1>4. CASE IsNull(x)
  BY <1>2, <1>4, NullIsPlain
<1>5. CASE ~IsString(x) /\ ~IsNull(x)
  <2>1. x.cpp # "char"
    BY <1>1, <1>5, NoCharType DEF Adaptable
  <2>2. x.cpp \notin StringNames
    BY <1>5 DEF IsString
  <2>3. v.text \in {<<"0">>, <<"-", "1">>, <<"1", ".", "5">>, <<"i", "n", "f">>, <<"n", "a", "n">>,
                    <<"N", "O", "W", "(", ")">>, <<"2", "0">>}
    BY <1>1, <1>2, <1>5, <2>1, <2>2, ZenonT(30)
    DEF TextsOf, DateTimeText, Now
  <2> DEFINE C == {"0", "1", "2", "5", "-", ".", "i", "n", "f", "a", "N", "O", "W", "(", ")"}
  <2>4. v.text \in Seq(C) /\ \A i \in 1..Len(v.text) : v.text[i] \in C
    <3>1. /\ "0" \in C /\ "1" \in C /\ "2" \in C /\ "5" \in C /\ "-" \in C /\ "." \in C /\ "i" \in C
          /\ "n" \in C /\ "f" \in C /\ "a" \in C /\ "N" \in C /\ "O" \in C /\ "W" \in C /\ "(" \in C
          /\ ")" \in C
      OBVIOUS
    <3> HIDE DEF v, C
    <3>2. /\ <<"0">> \in Seq(C) /\ <<"-", "1">> \in Seq(C) /\ <<"2", "0">> \in Seq(C)
          /\ <<"1", ".", "5">> \in Seq(C) /\ <<"i", "n", "f">> \in Seq(C) /\ <<"n", "a", "n">> \in Seq(C)
      BY <3>1
    <3>3. <<"N", "O", "W", "(", ")">> \in Seq(C)
      BY <3>1
    <3>4. v.text \in Seq(C)
      BY <2>3, <3>2, <3>3
    <3> QED BY <3>4
  <2>5. \A c \in C : c \notin DOMAIN Escapes
    BY DEF Escapes
  <2> HIDE DEF v, C
  <2> QED BY <2>4, <2>5, EscapedPlain DEF v
<1> QED BY <1>3, <1>4, <1>5

(* A value in a stream, and in a template with the option of the same      *)
(* meaning.                                                                *)
LEMMA ValueForms ==
  ASSUME NEW x \in CppValues, ~(Infinite(x) /\ ~IsNull(x))
  PROVE  LET v == Adapted(x)
         IN /\ Streamed("quote", v) = Shown("q", Fresh(v))
            /\ Streamed("quote_only", v) = Shown("Q", Fresh(v))
            /\ \A manip \in Manipulators \ {"quote_double_only"} :
                 Shown(" ", Fresh(Pushed(manip, v)))
                   = (IF manip = "ignore" THEN v.text ELSE Streamed(manip, v))
<1> DEFINE v == Adapted(x)
<1>1. v.null => v.text = NullSQL /\ ~v.quote
  BY DEF Adapted, IsNull
<1>2. v = [text |-> v.text, quote |-> v.quote, escape |-> v.escape, null |-> v.null]
  BY DEF Adapted
<1>7. (v.escape /\ v.quote) \/ Escaped(v.text) = v.text
  BY AdaptedText
<1> HIDE DEF v
<1>3. /\ Streamed("quote", v) = Shown("q", Fresh(v))
      /\ Streamed("quote_only", v) = Shown("Q", Fresh(v))
  <2>1. CASE v.null
    BY <1>1, <2>1, NullIsPlain, StreamedForms, ShownForms
  <2>2. CASE ~v.null
    BY <2>2, StreamedForms, ShownForms
  <2> QED BY <2>1, <2>2
<1>4. \A t : Shown(" ", Fresh(Text(t))) = t
  <2> TAKE t
  <2>1. ~Text(t).null /\ Text(t).text = t
    BY DEF Text
  <2> QED BY <2>1, ShownForms
<1>5. Shown(" ", Fresh(v)) = v.text
  BY <1>1, ShownForms
<1>6. ASSUME NEW manip \in Manipulators \ {"quote_double_only"}
      PROVE  Shown(" ", Fresh(Pushed(manip, v)))
               = (IF manip = "ignore" THEN v.text ELSE Streamed(manip, v))
  <2>1. manip \in {"quote", "quote_only", "escape", "do_nothing", "ignore"}
    BY DEF Manipulators, QuoteManipulators, PlainManipulators
  <2>2. CASE manip = "quote"
    <3>1. Streamed("quote", v) = IF v.quote THEN Quoted(Escaped(v.text)) ELSE Escaped(v.text)
      BY <1>7, StreamedForms
    <3>2. CASE v.quote
      BY <1>4, <2>2, <3>1, <3>2, PushedForms
    <3>3. CASE ~v.quote
      <4>1. Pushed("quote", v) = v
        BY <3>3, PushedForms
      <4>2. Escaped(v.text) = v.text
        BY <1>7, <3>3
      <4> QED BY <1>5, <2>2, <3>1, <3>3, <4>1, <4>2
    <3> QED BY <3>2, <3>3
  <2>3. CASE manip = "quote_only"
    BY <1>4, <1>5, <2>3, StreamedForms, PushedForms
  <2>4. CASE manip = "escape"
    BY <1>4, <1>5, <2>4, StreamedForms, PushedForms
  <2>5. CASE manip \in {"do_nothing", "ignore"}
    BY <1>5, <2>5, StreamedForms, PushedForms
  <2> QED BY <2>1, <2>2, <2>3, <2>4, <2>5
<1> QED BY <1>3, <1>6 DEF v

-----------------------------------------------------------------------------
(* One address in several classes                                          *)

(* What parse_address() takes for a host is a text of such characters.     *)
LEMMA HostText ==
  ASSUME NEW text \in Seq(STRING), NEW port, ParseAddress(text, port).ok
  PROVE  LET host == ParseAddress(text, port).addr
         IN host \in Seq(STRING) /\ \A i \in 1..Len(host) : host[i] \in HostChars
<1> DEFINE a == Apart(text)
<1>1. a.ok /\ \A i \in 1..Len(a.addr) : a.addr[i] \in HostChars
  BY DEF ParseAddress, NoAddress
<1>2. ParseAddress(text, port).addr = a.addr
  BY <1>1 DEF ParseAddress, NoAddress
<1>3. ASSUME NEW S \in SUBSET (1..Len(text)), S # {}, NEW m \in {1, 2}
      PROVE  SubSeq(text, m, Min(S) - 1) \in Seq(STRING)
  <2>1. S \in SUBSET Nat
    OBVIOUS
  <2>2. \E n \in S : \A k \in S : n <= k
    BY <1>3, <2>1, LeastNumber
  <2>3. PICK n \in S : n = Min(S)
    BY <2>2 DEF Min
  <2>4. n \in 1..Len(text)
    OBVIOUS
  <2>5. SubSeq(text, m, n - 1) \in Seq(STRING)
    BY <2>4
  <2> QED BY <2>3, <2>5
<1>4. a.addr \in Seq(STRING)
  <2>1. CASE At(text, 1) = "["
    <3> DEFINE end == {i \in 1..Len(text) : text[i] = "]"}
    <3>1. a.addr = SubSeq(text, 2, Min(end) - 1) /\ end # {}
      BY <1>1, <2>1 DEF Apart
    <3> HIDE DEF a
    <3> QED BY <1>3, <3>1
  <2>2. CASE At(text, 1) # "[" /\ Colons(text) = {}
    BY <2>2 DEF Apart
  <2>3. CASE At(text, 1) # "[" /\ Colons(text) # {}
    <3>1. a.addr = SubSeq(text, 1, Min(Colons(text)) - 1)
      BY <2>3 DEF Apart
    <3>2. Colons(text) \in SUBSET (1..Len(text))
      BY DEF Colons
    <3> HIDE DEF a
    <3> QED BY <1>3, <2>3, <3>1, <3>2
  <2> QED BY <2>1, <2>2, <2>3
<1> QED BY <1>1, <1>2, <1>4

(* A host without colons is an address that stands for itself.             *)
LEMMA HostAgain ==
  ASSUME NEW host \in Seq(STRING), \A i \in 1..Len(host) : host[i] \in HostChars,
         Colons(host) = {}, NEW port
  PROVE  ParseAddress(host, port) = [ok |-> TRUE, addr |-> host, port |-> port]
<1>1. "[" \notin HostChars /\ "[" # "NUL"
  BY DEF HostChars, Digits, DigitValue
<1>2. At(host, 1) # "["
  BY <1>1 DEF At
<1>3. Apart(host) = [ok |-> TRUE, addr |-> host, service |-> <<>>]
  BY <1>2 DEF Apart
<1> QED BY <1>3 DEF ParseAddress

(* An address in a Connection and in its three subclasses.                 *)
LEMMA AddressForms ==
  ASSUME NEW text \in Seq(STRING), NEW windows \in BOOLEAN, NEW sockets \in {{}, {text}},
         text # NullPointer
  PROVE  LET direct == ParseIpcMethod(text, 0, sockets, windows)
             uds == UdsConnect(text, sockets, sockets, windows)
         IN /\ direct.how = "tcp" /\ Colons(direct.host) = {} /\ direct.host # <<".">>
                  => TcpConnect(text, sockets, windows) = direct
            /\ uds = IF direct.how = "socket" THEN direct ELSE Refused
            /\ direct.how = "pipe" => WnpConnect(sockets, windows) = direct
<1> DEFINE direct == ParseIpcMethod(text, 0, sockets, windows)
           a == ParseAddress(text, 0)
<1>1. direct = IF IsWnp(text, windows) THEN [how |-> "pipe", host |-> text, port |-> 0]
               ELSE IF IsSocket(text, sockets, windows)
               THEN [how |-> "socket", host |-> text, port |-> 0]
               ELSE IF a.ok THEN [how |-> "tcp", host |-> a.addr, port |-> a.port] ELSE Refused
  BY DEF ParseIpcMethod
<1>2. IsWnp(text, windows) => windows /\ text = <<".">>
  BY DEF IsWnp
<1>3. IsSocket(text, sockets, windows) => ~windows
  BY DEF IsSocket
<1>4. Refused.how = "refused"
  BY DEF Refused
<1>5. ASSUME direct.how = "tcp", Colons(direct.host) = {}, direct.host # <<".">>
      PROVE  TcpConnect(text, sockets, windows) = direct
  <2>1. /\ ~IsSocket(text, sockets, windows) /\ a.ok
        /\ direct = [how |-> "tcp", host |-> a.addr, port |-> a.port]
    BY <1>1, <1>4, <1>5
  <2>2. PICK host : host = a.addr
    OBVIOUS
  <2>3. host \in Seq(STRING) /\ \A i \in 1..Len(host) : host[i] \in HostChars
    BY <2>1, <2>2, HostText
  <2>4. Colons(host) = {} /\ host # <<".">>
    BY <1>5, <2>1, <2>2
  <2>5. ParseAddress(host, a.port) = [ok |-> TRUE, addr |-> host, port |-> a.port]
    BY <2>3, <2>4, HostAgain
  <2>6. host # NullPointer
    <3>1. "(null)" \notin HostChars
      BY DEF HostChars, Digits, DigitValue
    <3>2. Len(NullPointer) = 1 /\ NullPointer[1] = "(null)"
      BY DEF NullPointer
    <3> QED BY <2>3, <3>1, <3>2
  <2>7. ~IsWnp(host, windows) /\ ~IsSocket(host, sockets, windows)
    BY <2>1, <2>4 DEF IsWnp, IsSocket
  <2>8. ParseIpcMethod(host, a.port, sockets, windows)
          = [how |-> "tcp", host |-> host, port |-> a.port]
    BY <2>5, <2>6, <2>7 DEF ParseIpcMethod
  <2> QED BY <2>1, <2>2, <2>8 DEF TcpConnect
<1>6. UdsConnect(text, sockets, sockets, windows)
        = IF direct.how = "socket" THEN direct ELSE Refused
  BY <1>1, <1>2, <1>3, <1>4 DEF UdsConnect
<1>7. ASSUME direct.how = "pipe" PROVE WnpConnect(sockets, windows) = direct
  <2>1. windows /\ text = <<".">>
    BY <1>1, <1>2, <1>4, <1>7
  <2> QED BY <2>1 DEF WnpConnect
<1> QED BY <1>5, <1>6, <1>7

-----------------------------------------------------------------------------
(* Orders                                                                  *)

(* The powers of two.                                                      *)
LEMMA TwoToSteps ==
  /\ TwoTo(0) = 1
  /\ \A n \in Nat : TwoTo(n) \in Nat \ {0} /\ (n # 0 => TwoTo(n) = 2 * TwoTo(n - 1))
<1> DEFINE Doubles(f, n) == f = [k \in 0..n |-> IF k = 0 THEN 1 ELSE 2 * f[k - 1]]
<1>1. ASSUME NEW n \in Nat PROVE \E f : Doubles(f, n)
  <2> DEFINE S == {m \in 0..n : \E f : Doubles(f, m)}
  <2>1. 0 \in S
    <3>1. Doubles([k \in 0..0 |-> 1], 0)
      OBVIOUS
    <3> HIDE DEF Doubles
    <3> QED BY <3>1
  <2>2. ASSUME NEW m \in 1..n, m - 1 \in S PROVE m \in S
    <3>1. PICK f : Doubles(f, m - 1)
      BY <2>2
    <3> DEFINE g == [k \in 0..m |-> IF k = 0 THEN 1 ELSE 2 * f[k - 1]]
    <3>2. ASSUME NEW k \in 0..m, k # 0 PROVE g[k - 1] = f[k - 1]
      <4>1. k - 1 \in 0..m /\ k - 1 \in 0..m - 1
        BY <3>2
      <4>2. f[k - 1] = IF k - 1 = 0 THEN 1 ELSE 2 * f[(k - 1) - 1]
        BY <3>1, <4>1
      <4>3. g[k - 1] = IF k - 1 = 0 THEN 1 ELSE 2 * f[(k - 1) - 1]
        BY <4>1
      <4> QED BY <4>2, <4>3
    <3>3. Doubles(g, m)
      <4>1. ASSUME NEW k \in 0..m
            PROVE  (IF k = 0 THEN 1 ELSE 2 * f[k - 1]) = (IF k = 0 THEN 1 ELSE 2 * g[k - 1])
        <5> HIDE DEF g
        <5> QED BY <3>2
      <4> QED BY <4>1
    <3> HIDE DEF Doubles, g
    <3> QED BY <3>3
  <2>3. 0..n \subseteq S
    <3> HIDE DEF S
    <3> QED BY <2>1, <2>2, Upwards
  <2> QED BY <2>3
<1> DEFINE power(n) == CHOOSE f : Doubles(f, n)
<1>2. ASSUME NEW n \in Nat PROVE Doubles(power(n), n) /\ TwoTo(n) = power(n)[n]
  BY <1>1 DEF TwoTo
<1> HIDE DEF power
<1>3. ASSUME NEW n \in Nat, NEW k \in 0..n
      PROVE  power(n)[k] = IF k = 0 THEN 1 ELSE 2 * power(n)[k - 1]
  BY <1>2
<1>4. ASSUME NEW n \in Nat, NEW m \in Nat, NEW k \in 0..n, k <= m
      PROVE  power(n)[k] = power(m)[k] /\ power(n)[k] \in Nat \ {0}
  <2> DEFINE T == {i \in 0..k : power(n)[i] = power(m)[i] /\ power(n)[i] \in Nat \ {0}}
  <2>1. 0 \in T
    BY <1>3, <1>4
  <2>2. ASSUME NEW i \in 1..k, i - 1 \in T PROVE i \in T
    <3>1. i \in 0..n /\ i \in 0..m /\ i # 0
      BY <1>4
    <3>2. power(n)[i] = 2 * power(n)[i - 1] /\ power(m)[i] = 2 * power(m)[i - 1]
      BY <1>3, <3>1
    <3>3. PICK p : p = power(n)[i - 1]
      OBVIOUS
    <3>4. p \in Nat \ {0} /\ power(m)[i - 1] = p
      BY <2>2, <3>3
    <3>5. 2 * p \in Nat \ {0}
      BY <3>4
    <3> QED BY <3>2, <3>3, <3>4, <3>5
  <2>3. 0..k \subseteq T
    <3> HIDE DEF T
    <3> QED BY <2>1, <2>2, Upwards
  <2> QED BY <2>3
<1>5. TwoTo(0) = 1
  BY <1>2, <1>3
<1>6. ASSUME NEW n \in Nat PROVE TwoTo(n) \in Nat \ {0}
  BY <1>2, <1>4
<1>7. ASSUME NEW n \in Nat, n # 0 PROVE TwoTo(n) = 2 * TwoTo(n - 1)
  <2>1. n - 1 \in Nat /\ n \in 0..n /\ n - 1 \in 0..n /\ n - 1 <= n - 1
    BY <1>7
  <2>2. power(n)[n] = 2 * power(n)[n - 1]
    BY <1>3, <1>7, <2>1
  <2>3. power(n)[n - 1] = power(n - 1)[n - 1]
    BY <1>4, <2>1
  <2> QED BY <1>2, <2>1, <2>2, <2>3
<1> QED BY <1>5, <1>6, <1>7

(* A number that fits into a signed type is not changed by it, and the one *)
(* behind the highest becomes the lowest.                                  *)
LEMMA WrappedFits ==
  ASSUME NEW bits \in Nat \ {0}, NEW n \in Int
  PROVE  LET type == [bits |-> bits, signed |-> TRUE]
         IN /\ Lowest(type) \in Int /\ Lowest(type) < 0 /\ Highest(type) = -Lowest(type) - 1
            /\ n \in Lowest(type)..Highest(type) => Wrapped(type, n) = n
            /\ n = Highest(type) + 1 => Wrapped(type, n) = Lowest(type)
<1> DEFINE type == [bits |-> bits, signed |-> TRUE]
<1>1. PICK half : half = TwoTo(bits - 1)
  OBVIOUS
<1>2. bits - 1 \in Nat
  OBVIOUS
<1>3. half \in Nat \ {0} /\ TwoTo(bits) = 2 * half
  BY <1>1, <1>2, TwoToSteps
<1>4. Lowest(type) = -half /\ Highest(type) = half - 1
  BY <1>1 DEF Lowest, Highest
<1>5. Wrapped(type, n) = ((n - (-half)) % (2 * half)) + (-half)
  BY <1>3, <1>4 DEF Wrapped
<1>6. ASSUME n \in -half..half - 1 PROVE (n - (-half)) % (2 * half) = n + half
  <2>1. PICK m, p : m = n + half /\ p = 2 * half /\ n - (-half) = m
    BY <1>3
  <2>2. m \in 0..p - 1 /\ p \in Nat \ {0}
    BY <1>3, <1>6, <2>1
  <2>3. m % p = m
    BY <2>2
  <2> QED BY <2>1, <2>3
<1>7. ASSUME n = half PROVE (n - (-half)) % (2 * half) = 0
  <2>1. PICK p : p = 2 * half /\ n - (-half) = p /\ p \in Nat \ {0}
    BY <1>3, <1>7
  <2>2. p % p = 0
    BY <2>1
  <2> QED BY <2>1, <2>2
<1> QED BY <1>3, <1>4, <1>5, <1>6, <1>7

(* The comparison of two fields has the sign of their difference if that   *)
(* fits, and so has the other way round except that it may be negative.    *)
LEMMA SqlCmpSign ==
  ASSUME NEW type \in CmpTypes, NEW a \in Int, NEW b \in Int,
         type.cmp # "tolerance",
         type.cmp = "difference" =>
           a - b \in Lowest(Difference(type))..Highest(Difference(type))
  PROVE  /\ SqlCmp(type, a, b) \in Int
         /\ SqlCmp(type, a, b) = 0 <=> a = b
         /\ SqlCmp(type, a, b) < 0 <=> a < b
         /\ SqlCmp(type, b, a) = 0 <=> a = b
<1>1. type.cmp \in {"difference", "exact"} /\ type.bits \in Nat
  BY KeysAreIntegers
<1>2. CASE type.cmp = "difference"
  <2>1. type.bits \in Nat \ {0}
    BY <1>1, <1>2, KeysAreIntegers
  <2>2. PICK t : t = Difference(type) /\ t = [bits |-> type.bits, signed |-> TRUE]
    BY DEF Difference
  <2>3. SqlCmp(type, a, b) = Wrapped(t, a - b) /\ SqlCmp(type, b, a) = Wrapped(t, b - a)
    BY <1>2, <2>2, Zenon DEF SqlCmp
  <2>4. PICK d, e : d = a - b /\ e = b - a
    OBVIOUS
  <2>5. d \in Int /\ e \in Int /\ e = -d /\ d \in Lowest(t)..Highest(t)
    BY <1>2, <2>2, <2>4
  <2>6. /\ Lowest(t) \in Int /\ Lowest(t) < 0 /\ Highest(t) = -Lowest(t) - 1
        /\ Wrapped(t, d) = d
        /\ e \in Lowest(t)..Highest(t) => Wrapped(t, e) = e
        /\ e = Highest(t) + 1 => Wrapped(t, e) = Lowest(t)
    BY <2>1, <2>2, <2>5, WrappedFits
  <2>7. e \in Lowest(t)..Highest(t) \/ e = Highest(t) + 1
    BY <2>5, <2>6
  <2>8. SqlCmp(type, a, b) = d /\ (SqlCmp(type, b, a) = 0 <=> e = 0)
    BY <2>3, <2>4, <2>6, <2>7
  <2> QED BY <2>4, <2>8
<1>3. CASE type.cmp = "exact"
  <2>1. /\ SqlCmp(type, a, b) = IF a = b THEN 0 ELSE IF a < b THEN -1 ELSE 1
        /\ SqlCmp(type, b, a) = IF b = a THEN 0 ELSE IF b < a THEN -1 ELSE 1
    BY <1>3, Zenon DEF SqlCmp
  <2> QED BY <2>1
<1> QED BY <1>1, <1>2, <1>3

(* The least of some positive numbers.                                     *)
LEMMA LeastOf ==
  ASSUME NEW S \in SUBSET Nat, S # {}
  PROVE  Min(S) \in S /\ \A m \in S : Min(S) <= m
<1>1. \E n \in S : \A m \in S : n <= m
  BY LeastNumber
<1> QED BY <1>1 DEF Min

FitsAt(class, a, b, i) ==
  /\ class.types[i].cmp # "tolerance"
  /\ class.types[i].cmp = "difference" =>
       a[i] - b[i] \in Lowest(Difference(class.types[i]))..Highest(Difference(class.types[i]))
KeyLess(n, x, y) == \E i \in 1..n : x[i] < y[i] /\ \A j \in 1..i - 1 : x[j] = y[j]

(* The comparison of two keys is that of the first field in which they     *)
(* differ.                                                                 *)
LEMMA KeyOrder ==
  ASSUME NEW class, NEW n \in Nat, class.cmp = n, NEW a, NEW b,
         \A i \in 1..n : class.types[i] \in CmpTypes /\ a[i] \in Int /\ b[i] \in Int,
         \A i \in 1..n : FitsAt(class, a, b, i)
  PROVE  /\ SqlCompare(class, a, b) \in Int
         /\ SqlCompare(class, a, b) < 0 <=> KeyLess(n, a, b)
         /\ SqlCompare(class, a, b) > 0 <=> KeyLess(n, b, a)
         /\ SqlCompare(class, a, b) = 0 <=> SqlCompare(class, b, a) = 0
<1> DEFINE ab(i) == SqlCmp(class.types[i], a[i], b[i])
           ba(i) == SqlCmp(class.types[i], b[i], a[i])
           differ == {i \in 1..n : a[i] # b[i]}
<1>1. ASSUME NEW i \in 1..n
      PROVE  /\ ab(i) \in Int
             /\ ab(i) = 0 <=> a[i] = b[i]
             /\ ab(i) < 0 <=> a[i] < b[i]
             /\ ba(i) = 0 <=> a[i] = b[i]
  BY SqlCmpSign DEF FitsAt
<1>2. /\ SqlCompare(class, a, b) = IF differ = {} THEN 0 ELSE ab(Min(differ))
      /\ SqlCompare(class, b, a) = IF differ = {} THEN 0 ELSE ba(Min(differ))
  <2>1. {i \in 1..n : ab(i) # 0} = differ /\ {i \in 1..n : ba(i) # 0} = differ
    <3> HIDE DEF ab, ba
    <3> QED BY <1>1
  <2> QED BY <2>1 DEF SqlCompare
<1> HIDE DEF ab, ba
<1>3. CASE differ = {}
  <2>1. \A i \in 1..n : a[i] = b[i]
    BY <1>3
  <2>2. ~KeyLess(n, a, b) /\ ~KeyLess(n, b, a)
    BY <2>1 DEF KeyLess
  <2> QED BY <1>2, <1>3, <2>2
<1>4. CASE differ # {}
  <2>1. PICK f : f = Min(differ)
    OBVIOUS
  <2>2. f \in 1..n /\ a[f] # b[f] /\ \A i \in 1..f - 1 : a[i] = b[i]
    <3>1. f \in differ /\ \A m \in differ : f <= m
      <4>1. differ \in SUBSET Nat
        OBVIOUS
      <4> HIDE DEF differ
      <4> QED BY <1>4, <2>1, <4>1, LeastOf
    <3>2. ASSUME NEW i \in 1..f - 1 PROVE i \in 1..n /\ ~(f <= i)
      BY <3>1
    <3> QED BY <3>1, <3>2
  <2>3. a[f] \in Int /\ b[f] \in Int
    BY <2>2
  <2>4. KeyLess(n, a, b) <=> a[f] < b[f]
    <3>1. ASSUME a[f] < b[f] PROVE KeyLess(n, a, b)
      BY <2>2, <3>1 DEF KeyLess
    <3>2. ASSUME NEW i \in 1..n, a[i] < b[i], \A j \in 1..i - 1 : a[j] = b[j] PROVE i = f
      <4>1. ~(i < f)
        BY <2>2, <3>2
      <4>2. ~(f < i)
        BY <2>2, <3>2
      <4> QED BY <2>2, <4>1, <4>2
    <3> QED BY <3>1, <3>2 DEF KeyLess
  <2>5. KeyLess(n, b, a) <=> b[f] < a[f]
    <3>1. ASSUME b[f] < a[f] PROVE KeyLess(n, b, a)
      BY <2>2, <3>1 DEF KeyLess
    <3>2. ASSUME NEW i \in 1..n, b[i] < a[i], \A j \in 1..i - 1 : b[j] = a[j] PROVE i = f
      <4>1. ~(i < f)
        BY <2>2, <3>2
      <4>2. ~(f < i)
        BY <2>2, <3>2
      <4> QED BY <2>2, <4>1, <4>2
    <3> QED BY <3>1, <3>2 DEF KeyLess
  <2>6. /\ SqlCompare(class, a, b) = ab(f) /\ SqlCompare(class, b, a) = ba(f)
        /\ ab(f) \in Int /\ ab(f) # 0 /\ ba(f) # 0 /\ (ab(f) < 0 <=> a[f] < b[f])
    BY <1>1, <1>2, <1>4, <2>1, <2>2
  <2>7. PICK c, d, x, y : c = ab(f) /\ d = ba(f) /\ x = a[f] /\ y = b[f]
    OBVIOUS
  <2>8. c \in Int /\ c # 0 /\ d # 0 /\ (c < 0 <=> x < y) /\ x \in Int /\ y \in Int /\ x # y
    BY <2>2, <2>3, <2>6, <2>7
  <2>9. (c < 0 <=> x < y) /\ (c > 0 <=> y < x)
    BY <2>8
  <2> QED BY <2>4, <2>5, <2>6, <2>7, <2>8, <2>9
<1> QED BY <1>3, <1>4

(* The relations of two objects are those of their keys.                   *)
LEMMA KeysOrdered ==
  ASSUME NEW size \in Nat, NEW types \in [1..size -> CmpTypes], NEW n \in 1..size,
         NEW a \in [1..size -> CmpValues], NEW b \in [1..size -> CmpValues], NEW class,
         class = Class("s", <<>>, types, n), \A i \in 1..n : FitsAt(class, a, b, i)
  PROVE  /\ Related("<", class, a, b) = KeyLess(n, a, b)
         /\ Related(">=", class, a, b) = ~KeyLess(n, a, b)
         /\ Related(">", class, a, b) = KeyLess(n, b, a)
         /\ Related("<=", class, a, b) = ~KeyLess(n, b, a)
         /\ \A op \in {"==", "!="} : Related(op, class, a, b) = Related(op, class, b, a)
<1>1. class.types = types /\ class.cmp = n /\ n \in Nat
  BY DEF Class
<1>2. \A i \in 1..n : class.types[i] \in CmpTypes /\ a[i] \in Int /\ b[i] \in Int
  <2>1. \A i \in 1..n : i \in 1..size
    OBVIOUS
  <2>2. CmpValues \subseteq Int
    BY KeysAreIntegers
  <2> QED BY <1>1, <2>1, <2>2
<1>3. PICK c, d : c = SqlCompare(class, a, b) /\ d = SqlCompare(class, b, a)
  OBVIOUS
<1>4. c \in Int /\ (c < 0 <=> KeyLess(n, a, b)) /\ (c > 0 <=> KeyLess(n, b, a)) /\ (c = 0 <=> d = 0)
  BY <1>1, <1>2, <1>3, KeyOrder
<1>5. /\ Related("==", class, a, b) = (c = 0) /\ Related("==", class, b, a) = (d = 0)
      /\ Related("!=", class, a, b) = (c # 0) /\ Related("!=", class, b, a) = (d # 0)
      /\ Related("<", class, a, b) = (c < 0) /\ Related("<=", class, a, b) = (c <= 0)
      /\ Related(">", class, a, b) = (c > 0) /\ Related(">=", class, a, b) = (c >= 0)
  BY <1>3, Zenon DEF Related
<1>6. (c <= 0) = ~(c > 0) /\ (c >= 0) = ~(c < 0)
  BY <1>4
<1>7. KeyLess(n, a, b) \in BOOLEAN /\ KeyLess(n, b, a) \in BOOLEAN
  BY DEF KeyLess
<1>8. /\ (c < 0) = KeyLess(n, a, b) /\ (c > 0) = KeyLess(n, b, a)
      /\ (c = 0) = (d = 0) /\ (c # 0) = (d # 0)
  BY <1>4, <1>7
<1> QED BY <1>5, <1>6, <1>8

-----------------------------------------------------------------------------
(* Strings are ordered                                                     *)

LEMMA Opposite == \A c, d \in Int : c + d = 0 => c = -d
OBVIOUS

(* Characters have numbers of their own, and NUL has the least.            *)
Chars == DOMAIN Code \ {"NUL"}
LEMMA Codes ==
  /\ "NUL" \in DOMAIN Code /\ Code["NUL"] = 0
  /\ \A c \in DOMAIN Code : Code[c] \in Nat
  /\ \A c, d \in DOMAIN Code : Code[c] = Code[d] => c = d
<1>1. DOMAIN Code = {"NUL", "'", "a", "b"}
  BY DEF Code
<1>2. \A c \in DOMAIN Code :
        Code[c] = CASE c = "NUL" -> 0 [] c = "'" -> 39 [] c = "a" -> 97 [] c = "b" -> 98
  BY Zenon DEF Code
<1>3. Code["NUL"] = 0
  BY <1>1, <1>2, Zenon
<1>4. Code["'"] = 39 /\ Code["a"] = 97 /\ Code["b"] = 98
  <2>1. Code["'"] = 39
    BY <1>1, <1>2, Zenon
  <2>2. Code["a"] = 97
    BY <1>1, <1>2, Zenon
  <2>3. Code["b"] = 98
    BY <1>1, <1>2, Zenon
  <2> QED BY <2>1, <2>2, <2>3
<1> HIDE DEF Code
<1> QED BY ONLY <1>1, <1>3, <1>4
LEMMA CharsOf ==
  ASSUME NEW a \in Seq(Chars), NEW i \in Nat \ {0}
  PROVE  CharAt(a, i) \in DOMAIN Code /\ (CharAt(a, i) = "NUL" <=> i > Len(a))
BY Codes DEF CharAt, Chars

(* What strncmp() gives is about the first difference, if there is one     *)
(* among characters that are not behind both texts.                        *)
LEMMA ComparedFirst ==
  ASSUME NEW a \in Seq(Chars), NEW b \in Seq(Chars), NEW n \in Nat, n <= Len(a) \/ n <= Len(b)
  PROVE  LET differ == {i \in 1..n : CharAt(a, i) # CharAt(b, i)}
         IN /\ differ = {} => Compared(a, b, n) = 0
            /\ differ # {} =>
                 /\ Min(differ) \in differ
                 /\ Compared(a, b, n)
                      = IF Code[CharAt(a, Min(differ))] < Code[CharAt(b, Min(differ))] THEN -1 ELSE 1
<1> DEFINE differ == {i \in 1..n : CharAt(a, i) # CharAt(b, i)}
           ends == {i \in 1..n : CharAt(a, i) = "NUL"}
<1>1. differ = {} => Compared(a, b, n) = 0
  BY DEF Compared
<1>2. ASSUME differ # {}
      PROVE  /\ Min(differ) \in differ
             /\ Compared(a, b, n)
                  = IF Code[CharAt(a, Min(differ))] < Code[CharAt(b, Min(differ))] THEN -1 ELSE 1
  <2>1. PICK f : f = Min(differ)
    OBVIOUS
  <2>2. f \in differ /\ \A i \in differ : f <= i
    <3>1. differ \in SUBSET Nat
      OBVIOUS
    <3> HIDE DEF differ
    <3> QED BY <1>2, <2>1, <3>1, LeastOf
  <2>3. ASSUME NEW i \in ends, i < f PROVE FALSE
    <3>1. i \in 1..n /\ i \notin differ
      BY <2>2, <2>3
    <3>2. CharAt(a, i) = "NUL" /\ CharAt(b, i) = "NUL" /\ i \in Nat \ {0}
      BY <3>1
    <3>3. i > Len(a) /\ i > Len(b)
      BY <3>2, CharsOf
    <3>4. Len(a) \in Nat /\ Len(b) \in Nat
      OBVIOUS
    <3> QED BY <3>1, <3>3, <3>4
  <2>4. Compared(a, b, n) = IF differ = {} \/ \E i \in ends : i < f THEN 0
                            ELSE IF Code[CharAt(a, f)] < Code[CharAt(b, f)] THEN -1 ELSE 1
    BY <2>1 DEF Compared
  <2> HIDE DEF ends, differ
  <2> QED BY <1>2, <2>1, <2>2, <2>3, <2>4
<1> HIDE DEF differ
<1> QED BY <1>1, <1>2 DEF differ

(* It is zero for texts that are the same so far, and the other way round  *)
(* it is the opposite.                                                     *)
LEMMA ComparedSign ==
  ASSUME NEW a \in Seq(Chars), NEW b \in Seq(Chars), NEW n \in Nat, n <= Len(a) \/ n <= Len(b)
  PROVE  /\ Compared(a, b, n) = -Compared(b, a, n)
         /\ Compared(a, b, n) = 0 <=> \A i \in 1..n : CharAt(a, i) = CharAt(b, i)
<1> DEFINE ab == {i \in 1..n : CharAt(a, i) # CharAt(b, i)}
           ba == {i \in 1..n : CharAt(b, i) # CharAt(a, i)}
<1>1. ab = ba
  OBVIOUS
<1>2. CASE ab = {}
  <2>1. Compared(a, b, n) = 0
    BY <1>2, ComparedFirst
  <2>2. Compared(b, a, n) = 0
    BY <1>1, <1>2, ComparedFirst
  <2>3. \A i \in 1..n : CharAt(a, i) = CharAt(b, i)
    BY <1>2
  <2>4. PICK c \in Int, d \in Int : c = Compared(a, b, n) /\ d = Compared(b, a, n) /\ c = 0 /\ d = 0
    BY <2>1, <2>2
  <2>5. c + d = 0
    BY <2>4
  <2>6. c = -d
    BY ONLY <2>5, Opposite
  <2> QED BY <2>3, <2>4, <2>6
<1>3. CASE ab # {}
  <2>1. PICK f : f = Min(ab) /\ f = Min(ba)
    BY <1>1
  <2>2. f \in ab
    BY <1>3, <2>1, ComparedFirst
  <2>3. Compared(a, b, n) = IF Code[CharAt(a, f)] < Code[CharAt(b, f)] THEN -1 ELSE 1
    BY <1>3, <2>1, ComparedFirst
  <2>4. Compared(b, a, n) = IF Code[CharAt(b, f)] < Code[CharAt(a, f)] THEN -1 ELSE 1
    <3>1. ba # {}
      BY <1>1, <1>3
    <3> QED BY <2>1, <3>1, ComparedFirst
  <2>5. PICK c, d : c = Code[CharAt(a, f)] /\ d = Code[CharAt(b, f)]
    OBVIOUS
  <2>6. c \in Nat /\ d \in Nat /\ c # d
    <3>1. f \in Nat \ {0} /\ CharAt(a, f) # CharAt(b, f)
      BY <2>2
    <3>2. CharAt(a, f) \in DOMAIN Code /\ CharAt(b, f) \in DOMAIN Code
      BY <3>1, CharsOf
    <3> QED BY <2>5, <3>1, <3>2, Codes
  <2>7. \/ Compared(a, b, n) = 1 /\ Compared(b, a, n) = -1
        \/ Compared(a, b, n) = -1 /\ Compared(b, a, n) = 1
    BY <2>3, <2>4, <2>5, <2>6
  <2>8. ~ \A i \in 1..n : CharAt(a, i) = CharAt(b, i)
    BY <2>2
  <2> QED BY <2>7, <2>8
<1> QED BY <1>2, <1>3

(* Two strings compare equal if they are; the opposite the other way       *)
(* round; and a string that it_is_null() made is like the empty one.       *)
LEMMA StringsOrdered ==
  ASSUME NEW x \in Seq(Chars), NEW y \in Seq(Chars)
  PROVE  LET a == StringOf(x, FALSE)
             b == StringOf(y, FALSE)
         IN /\ (Compare(a, b) = 0) <=> (x = y)
            /\ Compare(a, b) = -Compare(b, a)
            /\ Compare(a, ItIsNull(NoString)) = Compare(a, StringOf(<<>>, FALSE))
<1> DEFINE a == StringOf(x, FALSE)
           b == StringOf(y, FALSE)
           most(s, t) == Max({Len(s), Len(t)})
<1>1. ASSUME NEW s \in Seq(Chars), NEW t \in Seq(Chars)
      PROVE  /\ most(s, t) \in Nat /\ Len(s) <= most(s, t) /\ Len(t) <= most(s, t)
             /\ most(s, t) <= Len(s) \/ most(s, t) <= Len(t)
             /\ Compare(StringOf(s, FALSE), StringOf(t, FALSE)) = Compared(s, t, most(s, t))
  <2>1. PICK k, l : k = Len(s) /\ l = Len(t)
    OBVIOUS
  <2>2. k \in Nat /\ l \in Nat
    BY <2>1
  <2>3. PICK m \in {k, l} : k <= m /\ l <= m
    BY <2>2
  <2>4. \E m2 \in {k, l} : \A i \in {k, l} : m2 >= i
    BY <2>2, <2>3
  <2>5. Max({k, l}) \in {k, l} /\ \A i \in {k, l} : Max({k, l}) >= i
    BY <2>4 DEF Max
  <2>6. Compare(StringOf(s, FALSE), StringOf(t, FALSE)) = Compared(s, t, most(s, t))
    BY DEF Compare, CompareText, StringOf
  <2>7. PICK p : p = Max({k, l}) /\ p = most(s, t)
    BY <2>1
  <2> QED BY <2>1, <2>2, <2>5, <2>6, <2>7
<1> HIDE DEF most
<1>2. PICK n : n = most(x, y) /\ n = most(y, x)
  <2>1. {Len(x), Len(y)} = {Len(y), Len(x)}
    OBVIOUS
  <2> QED BY <2>1 DEF most
<1>3. n \in Nat /\ Len(x) <= n /\ Len(y) <= n /\ (n <= Len(x) \/ n <= Len(y))
  BY <1>1, <1>2
<1>4. Compare(a, b) = Compared(x, y, n) /\ Compare(b, a) = Compared(y, x, n)
  BY <1>1, <1>2
<1>5. Compare(a, b) = -Compare(b, a)
  BY <1>3, <1>4, ComparedSign
<1>6. Compare(a, b) = 0 <=> \A i \in 1..n : CharAt(x, i) = CharAt(y, i)
  <2>1. Compared(x, y, n) = 0 <=> \A i \in 1..n : CharAt(x, i) = CharAt(y, i)
    BY <1>3, ComparedSign
  <2>2. PICK c : c = Compare(a, b) /\ c = Compared(x, y, n)
    BY <1>4
  <2> QED BY <2>1, <2>2
<1>7. (\A i \in 1..n : CharAt(x, i) = CharAt(y, i)) => x = y
  <2> SUFFICES ASSUME \A i \in 1..n : CharAt(x, i) = CharAt(y, i) PROVE x = y
    OBVIOUS
  <2>1. Len(x) \in Nat /\ Len(y) \in Nat
    OBVIOUS
  <2>2. \A i \in 1..n : i > Len(x) <=> i > Len(y)
    <3> TAKE i \in 1..n
    <3>1. i \in Nat \ {0} /\ CharAt(x, i) = CharAt(y, i)
      BY <1>3
    <3> QED BY <3>1, CharsOf
  <2>3. Len(x) = Len(y)
    <3>1. CASE Len(x) < Len(y)
      <4>1. Len(y) \in 1..n
        BY <1>3, <2>1, <3>1
      <4> QED BY <2>1, <2>2, <3>1, <4>1
    <3>2. CASE Len(y) < Len(x)
      <4>1. Len(x) \in 1..n
        BY <1>3, <2>1, <3>2
      <4> QED BY <2>1, <2>2, <3>2, <4>1
    <3> QED BY <2>1, <3>1, <3>2
  <2>4. \A i \in 1..Len(x) : x[i] = y[i]
    <3> TAKE i \in 1..Len(x)
    <3>1. i \in 1..n /\ i \in 1..Len(y)
      BY <1>3, <2>1, <2>3
    <3> QED BY <3>1 DEF CharAt
  <2> QED BY <2>3, <2>4
<1>8. Compare(a, ItIsNull(NoString)) = Compare(a, StringOf(<<>>, FALSE))
  <2> DEFINE c == Compare(a, ItIsNull(NoString))
             d == Compare(a, StringOf(<<>>, FALSE))
  <2>2. <<>> \in Seq(Chars) /\ Len(<<>>) = 0
    OBVIOUS
  <2>3. PICK m, e : m = most(x, <<>>) /\ e = <<>>
    OBVIOUS
  <2>4. /\ m \in Nat /\ Len(x) <= m /\ (m <= Len(x) \/ m <= Len(e))
        /\ d = Compared(x, e, m)
        /\ e \in Seq(Chars) /\ Len(e) = 0
    BY <1>1, <2>2, <2>3
  <2>1. c = IF Len(x) > 0 THEN 1 ELSE 0
    BY DEF Compare, ItIsNull, NoString, NullString, StringOf
  <2> SUFFICES c = d
    OBVIOUS
  <2> HIDE DEF c, d
  <2>5. m = Len(x)
    BY <2>4
  <2> DEFINE differ == {i \in 1..m : CharAt(x, i) # CharAt(e, i)}
  <2>6. \A i \in 1..m : CharAt(x, i) # "NUL" /\ CharAt(e, i) = "NUL"
    <3> TAKE i \in 1..m
    <3>1. i \in Nat \ {0} /\ ~(i > Len(x)) /\ i > Len(e)
      BY <2>4, <2>5
    <3> QED BY <2>4, <3>1, CharsOf
  <2>7. CASE Len(x) = 0
    <3>1. differ = {}
      BY <2>5, <2>7
    <3>2. Compared(x, e, m) = 0
      BY <2>4, <3>1, ComparedFirst
    <3> QED BY <2>1, <2>4, <2>7, <3>2
  <2>8. CASE Len(x) > 0
    <3>1. 1 \in differ
      BY <2>4, <2>5, <2>6, <2>8
    <3>2. PICK f : f = Min(differ)
      OBVIOUS
    <3>3. f \in differ /\ Compared(x, e, m) = IF Code[CharAt(x, f)] < Code[CharAt(e, f)] THEN -1 ELSE 1
      BY <2>4, <3>1, <3>2, ComparedFirst
    <3>4. CharAt(e, f) = "NUL" /\ CharAt(x, f) \in DOMAIN Code
      <4>1. f \in 1..m /\ f \in Nat \ {0}
        BY <2>4, <3>3
      <4> QED BY <2>6, <4>1, CharsOf
    <3>5. ~(Code[CharAt(x, f)] < Code[CharAt(e, f)])
      <4>1. PICK k : k = Code[CharAt(x, f)]
        OBVIOUS
      <4>2. k \in Nat /\ Code[CharAt(e, f)] = 0
        BY <3>4, <4>1, Codes
      <4> QED BY <4>1, <4>2
    <3> QED BY <2>1, <2>4, <2>8, <3>3, <3>5
  <2> QED BY <2>4, <2>7, <2>8
<1> QED BY <1>5, <1>6, <1>7, <1>8

(* A SQLTypeAdapter equals the strings it is the beginning of.             *)
LEMMA AdaptersOrdered ==
  ASSUME NEW x \in Seq(Chars), NEW y \in Seq(Chars)
  PROVE  /\ (AdapterCompare(Buffer(x), Buffer(y)) = 0) <=> IsPrefix(x, y)
         /\ AdapterCompare(NoBuffer, Buffer(y)) = -AdapterCompare(Buffer(y), NoBuffer)
<1>1. AdapterCompare(Buffer(x), Buffer(y)) = Compared(x, y, Len(x))
  BY DEF AdapterCompare, Buffer
<1>2. AdapterCompare(NoBuffer, Buffer(y)) = -1 /\ AdapterCompare(Buffer(y), NoBuffer) = 1
  <2>1. PICK e, f : e = Buffer(y) /\ f = NoBuffer
    OBVIOUS
  <2>2. e = [initted |-> TRUE, text |-> y] /\ f = [initted |-> FALSE, text |-> <<>>]
    BY <2>1 DEF Buffer, NoBuffer
  <2>3. e.initted /\ ~f.initted
    BY <2>2, Zenon
  <2>4. AdapterCompare(f, e) = -1
    BY <2>3 DEF AdapterCompare
  <2>5. AdapterCompare(e, f) = 1
    BY <2>3 DEF AdapterCompare
  <2> QED BY <2>1, <2>4, <2>5
<1>3. PICK n \in Nat : n = Len(x)
  OBVIOUS
<1>4. Compared(x, y, n) = 0 <=> \A i \in 1..n : CharAt(x, i) = CharAt(y, i)
  BY <1>3, ComparedSign
<1>5. ASSUME \A i \in 1..n : CharAt(x, i) = CharAt(y, i) PROVE IsPrefix(x, y)
  <2>1. \A i \in 1..n : i <= Len(y) /\ x[i] = y[i]
    <3> TAKE i \in 1..n
    <3>1. i \in Nat \ {0} /\ ~(i > Len(x)) /\ CharAt(x, i) = CharAt(y, i)
      BY <1>3, <1>5
    <3>2. ~(i > Len(y))
      BY <3>1, CharsOf
    <3> QED BY <1>3, <3>1, <3>2 DEF CharAt
  <2>2. n <= Len(y)
    BY <1>3, <2>1
  <2>3. SubSeq(x, 1, n) = SubSeq(y, 1, n)
    BY <1>3, <2>1, <2>2
  <2> QED BY <1>3, <2>2, <2>3 DEF IsPrefix
<1>6. ASSUME IsPrefix(x, y) PROVE \A i \in 1..n : CharAt(x, i) = CharAt(y, i)
  <2>1. n <= Len(y) /\ SubSeq(x, 1, n) = SubSeq(y, 1, n)
    BY <1>3, <1>6 DEF IsPrefix
  <2>2. \A i \in 1..n : x[i] = SubSeq(x, 1, n)[i] /\ y[i] = SubSeq(y, 1, n)[i]
    BY <1>3, <2>1
  <2>3. \A i \in 1..n : x[i] = y[i] /\ i \in 1..Len(x) /\ i \in 1..Len(y)
    BY <1>3, <2>1, <2>2
  <2> QED BY <2>3 DEF CharAt
<1>7. AdapterCompare(Buffer(x), Buffer(y)) = 0 <=> IsPrefix(x, y)
  <2>1. PICK c : c = Compared(x, y, n) /\ c = AdapterCompare(Buffer(x), Buffer(y))
    BY <1>1, <1>3
  <2> QED BY <1>4, <1>5, <1>6, <2>1
<1>8. AdapterCompare(NoBuffer, Buffer(y)) = -AdapterCompare(Buffer(y), NoBuffer)
  <2>1. PICK c \in Int, d \in Int :
          /\ c = AdapterCompare(NoBuffer, Buffer(y)) /\ d = AdapterCompare(Buffer(y), NoBuffer)
          /\ c = -1 /\ d = 1
    BY <1>2
  <2>2. c + d = 0
    BY <2>1
  <2>3. c = -d
    BY ONLY <2>2, Opposite
  <2> QED BY <2>1, <2>3
<1> QED BY <1>7, <1>8

-----------------------------------------------------------------------------
(* Figures                                                                 *)

(* Every number up to nine is the value of one digit, DigitOf().           *)
LEMMA DigitNumbers ==
  /\ \A c \in Digits : DigitValue[c] \in 0..9
  /\ \A n \in 0..9 : DigitOf(n) \in Digits /\ DigitValue[DigitOf(n)] = n
  /\ DigitOf(0) = "0"
<1>1. Digits = {"0", "1", "2", "3", "4", "5", "6", "7", "8", "9"}
  BY DEF Digits, DigitValue
<1>2. \A c \in Digits :
        DigitValue[c] = CASE c = "0" -> 0 [] c = "1" -> 1 [] c = "2" -> 2 [] c = "3" -> 3 [] c = "4" -> 4
                          [] c = "5" -> 5 [] c = "6" -> 6 [] c = "7" -> 7 [] c = "8" -> 8 [] c = "9" -> 9
  BY <1>1, Zenon DEF DigitValue
<1>3. /\ "0" \in Digits /\ "1" \in Digits /\ "2" \in Digits /\ "3" \in Digits /\ "4" \in Digits
      /\ "5" \in Digits /\ "6" \in Digits /\ "7" \in Digits /\ "8" \in Digits /\ "9" \in Digits
  BY <1>1
<1>4. DigitValue["0"] = 0 /\ DigitValue["1"] = 1 /\ DigitValue["2"] = 2
  <2>1. DigitValue["0"] = 0
    BY <1>2, <1>3, Zenon
  <2>2. DigitValue["1"] = 1
    BY <1>2, <1>3, Zenon
  <2>3. DigitValue["2"] = 2
    BY <1>2, <1>3, Zenon
  <2> QED BY <2>1, <2>2, <2>3
<1>5. DigitValue["3"] = 3 /\ DigitValue["4"] = 4 /\ DigitValue["5"] = 5
  <2>1. DigitValue["3"] = 3
    BY <1>2, <1>3, Zenon
  <2>2. DigitValue["4"] = 4
    BY <1>2, <1>3, Zenon
  <2>3. DigitValue["5"] = 5
    BY <1>2, <1>3, Zenon
  <2> QED BY <2>1, <2>2, <2>3
<1>6. DigitValue["6"] = 6 /\ DigitValue["7"] = 7 /\ DigitValue["8"] = 8 /\ DigitValue["9"] = 9
  <2>1. DigitValue["6"] = 6
    BY <1>2, <1>3, Zenon
  <2>2. DigitValue["7"] = 7
    BY <1>2, <1>3, Zenon
  <2>3. DigitValue["8"] = 8
    BY <1>2, <1>3, Zenon
  <2>4. DigitValue["9"] = 9
    BY <1>2, <1>3, Zenon
  <2> QED BY <2>1, <2>2, <2>3, <2>4
<1> HIDE DEF Digits, DigitValue
<1>7. \A c \in Digits : DigitValue[c] \in 0..9
  BY ONLY <1>1, <1>4, <1>5, <1>6
<1>8. ASSUME NEW n \in 0..9 PROVE \E c \in Digits : DigitValue[c] = n
  <2>1. n \in {0, 1, 2, 3, 4, 5, 6, 7, 8, 9}
    OBVIOUS
  <2> QED BY ONLY <2>1, <1>3, <1>4, <1>5, <1>6
<1>9. ASSUME NEW n \in 0..9 PROVE DigitOf(n) \in Digits /\ DigitValue[DigitOf(n)] = n
  BY <1>8 DEF DigitOf
<1>10. DigitOf(0) = "0"
  <2>1. \A c \in Digits : DigitValue[c] = 0 => c = "0"
    BY ONLY <1>1, <1>4, <1>5, <1>6
  <2> QED BY <1>9, <2>1
<1> QED BY <1>7, <1>9, <1>10

(* Numbers of one, two, three and four digits.                             *)
One(n) == <<DigitOf(n)>>
Two(n) == Append(One(n \div 10), DigitOf(n % 10))
Three(n) == Append(Two(n \div 10), DigitOf(n % 10))
FourDigits(n) == Append(Three(n \div 10), DigitOf(n % 10))

(* Division by ten.                                                        *)
LEMMA Tens ==
  ASSUME NEW n \in Nat
  PROVE  /\ n \div 10 \in Nat /\ n % 10 \in 0..9 /\ n = 10 * (n \div 10) + (n % 10)
         /\ n < 10 => n \div 10 = 0 /\ n % 10 = n
         /\ n >= 10 => 0 < n \div 10 /\ n \div 10 < n
         /\ n < 100 <=> n \div 10 < 10
         /\ n < 1000 <=> n \div 10 < 100
         /\ n < 10000 <=> n \div 10 < 1000
<1>1. n \div 10 \in Nat /\ n % 10 \in 0..9 /\ n = 10 * (n \div 10) + (n % 10)
  OBVIOUS
<1>2. (n < 10 => n \div 10 = 0 /\ n % 10 = n) /\ (n >= 10 => 0 < n \div 10 /\ n \div 10 < n)
  OBVIOUS
<1>3. (n < 100 <=> n \div 10 < 10) /\ (n < 1000 <=> n \div 10 < 100)
  OBVIOUS
<1>4. n < 10000 <=> n \div 10 < 1000
  OBVIOUS
<1> QED BY ONLY <1>1, <1>2, <1>3, <1>4

LEMMA FiguresOf ==
  ASSUME NEW n \in Nat, n < 10000
  PROVE  Figures(n) = IF n < 10 THEN One(n) ELSE IF n < 100 THEN Two(n)
                      ELSE IF n < 1000 THEN Three(n) ELSE FourDigits(n)
<1> DEFINE written(f, k) == IF k < 10 THEN <<DigitOf(k)>>
                            ELSE Append(f[k \div 10], DigitOf(k % 10))
           Writes(f) == f = [k \in 0..n |-> written(f, k)]
           text(k) == IF k < 10 THEN One(k) ELSE IF k < 100 THEN Two(k)
                      ELSE IF k < 1000 THEN Three(k) ELSE FourDigits(k)
           w == [k \in 0..n |-> text(k)]
<1>1. ASSUME NEW k \in 0..n
      PROVE  text(k) = IF k < 10 THEN <<DigitOf(k)>> ELSE Append(text(k \div 10), DigitOf(k % 10))
  <2>1. k \in Nat /\ k < 10000
    OBVIOUS
  <2>2. PICK q : q = k \div 10
    OBVIOUS
  <2>3. q \in Nat /\ (k < 100 <=> q < 10) /\ (k < 1000 <=> q < 100) /\ q < 1000
    BY <2>1, <2>2, Tens
  <2>4. CASE k < 10
    BY <2>4 DEF One
  <2>5. CASE ~(k < 10) /\ k < 100
    BY <2>2, <2>3, <2>5 DEF Two
  <2>6. CASE ~(k < 100) /\ k < 1000
    BY <2>1, <2>2, <2>3, <2>6 DEF Three
  <2>7. CASE ~(k < 1000)
    BY <2>1, <2>2, <2>3, <2>7 DEF FourDigits
  <2> QED BY <2>1, <2>4, <2>5, <2>6, <2>7
<1>2. \A k \in 0..n : ~(k < 10) => k \div 10 \in 0..n
  <2> TAKE k \in 0..n
  <2>1. k \in Nat
    OBVIOUS
  <2>2. PICK q : q = k \div 10
    OBVIOUS
  <2>3. ~(k < 10) => q \in Nat /\ q < k
    BY <2>1, <2>2, Tens
  <2> QED BY <2>1, <2>2, <2>3
<1> HIDE DEF text
<1>3. Writes(w)
  <2>1. \A k \in 0..n : text(k) = IF k < 10 THEN <<DigitOf(k)>> ELSE Append(w[k \div 10], DigitOf(k % 10))
    BY <1>1, <1>2
  <2> QED BY <2>1
<1>4. PICK f : Writes(f) /\ Figures(n) = f[n]
  <2> DEFINE g == CHOOSE f : Writes(f)
  <2>1. Writes(g)
    <3> HIDE DEF Writes, w
    <3> QED BY <1>3
  <2>2. Figures(n) = g[n]
    BY DEF Figures
  <2> HIDE DEF g, Writes
  <2> QED BY <2>1, <2>2
<1>5. \A k \in 0..n : f[k] = IF k < 10 THEN <<DigitOf(k)>> ELSE Append(f[k \div 10], DigitOf(k % 10))
  <2>1. \A k \in 0..n : f[k] = written(f, k)
    <3> HIDE DEF written
    <3> QED BY <1>4
  <2> QED BY <2>1
<1> DEFINE S == {m \in 0..n : \A k \in 0..m : f[k] = text(k)}
<1>6. 0 \in S
  BY <1>1, <1>5
<1>7. ASSUME NEW m \in 1..n, m - 1 \in S PROVE m \in S
  <2>1. m \in 0..n
    OBVIOUS
  <2>2. PICK q : q = m \div 10
    OBVIOUS
  <2>3. ~(m < 10) => q \in 0..m - 1
    <3>1. ~(m < 10) => q \in Nat /\ q < m
      BY <2>2, Tens
    <3> QED BY <3>1
  <2>4. ~(m < 10) => f[q] = text(q)
    BY <1>7, <2>3
  <2>5. f[m] = text(m)
    <3>1. f[m] = IF m < 10 THEN <<DigitOf(m)>> ELSE Append(f[q], DigitOf(m % 10))
      BY <1>5, <2>1, <2>2
    <3>2. text(m) = IF m < 10 THEN <<DigitOf(m)>> ELSE Append(text(q), DigitOf(m % 10))
      BY <1>1, <2>1, <2>2
    <3> QED BY <2>4, <3>1, <3>2
  <2>6. \A k \in 0..m - 1 : f[k] = text(k)
    BY <1>7
  <2> QED BY <2>1, <2>5, <2>6
<1>8. 0..n \subseteq S
  <2> HIDE DEF S
  <2> QED BY <1>6, <1>7, Upwards
<1>9. f[n] = text(n)
  <2>1. n \in Nat /\ n \in 0..n
    OBVIOUS
  <2> QED BY <1>8, <2>1
<1> QED BY <1>4, <1>9 DEF text

(* An element behind a sequence.                                           *)
LEMMA AppendIs ==
  ASSUME NEW S, NEW s \in Seq(S), NEW x \in S
  PROVE  /\ Append(s, x) = s \o <<x>> /\ Append(s, x) \in Seq(S) /\ Len(Append(s, x)) = Len(s) + 1
         /\ <<x>> \in Seq(S) /\ Len(<<x>>) = 1 /\ <<x>>[1] = x
<1>1. <<x>> \in Seq(S) /\ Len(<<x>>) = 1 /\ <<x>>[1] = x
  OBVIOUS
<1>2. /\ Append(s, x) \in Seq(S) /\ Len(Append(s, x)) = Len(s) + 1
      /\ \A i \in 1..Len(s) + 1 : Append(s, x)[i] = IF i <= Len(s) THEN s[i] ELSE x
  OBVIOUS
<1>3. PICK t : t = s \o <<x>>
  OBVIOUS
<1>4. t \in Seq(S) /\ Len(t) = Len(s) + 1 /\ \A i \in 1..Len(s) + 1 : t[i] = IF i <= Len(s) THEN s[i] ELSE x
  <2>1. PICK e : e = <<x>>
    OBVIOUS
  <2>2. e \in Seq(S) /\ Len(e) = 1 /\ e[1] = x /\ t = s \o e
    BY <1>1, <1>3, <2>1
  <2>3. t \in Seq(S) /\ Len(t) = Len(s) + 1 /\ \A i \in 1..Len(s) + 1 : t[i] = IF i <= Len(s) THEN s[i] ELSE e[i - Len(s)]
    BY <2>2, ConcatProperties
  <2>4. \A i \in 1..Len(s) + 1 : ~(i <= Len(s)) => i - Len(s) = 1
    OBVIOUS
  <2> QED BY <2>2, <2>3, <2>4
<1>5. Append(s, x) = t
  <2>1. PICK u : u = Append(s, x)
    OBVIOUS
  <2> QED BY <1>2, <1>4, <2>1, SeqEqual
<1> QED BY <1>1, <1>2, <1>3, <1>5

(* A text of n digits.                                                     *)
IsDigits(s, n) == s \in Seq(Digits) /\ Len(s) = n
LEMMA DigitBehind ==
  ASSUME NEW n \in Nat, NEW s, IsDigits(s, n), NEW x \in Digits, NEW m, m = n + 1
  PROVE  IsDigits(Append(s, x), m)
BY DEF IsDigits
LEMMA DigitSequences ==
  ASSUME NEW n \in Nat
  PROVE  /\ n < 10 => IsDigits(One(n), 1)
         /\ n < 100 => IsDigits(Two(n), 2)
         /\ n < 1000 => IsDigits(Three(n), 3)
         /\ n < 10000 => IsDigits(FourDigits(n), 4)
<1>1. ASSUME NEW k \in Nat, k < 10 PROVE IsDigits(One(k), 1)
  <2>1. DigitOf(k) \in Digits
    BY <1>1, DigitNumbers
  <2> QED BY <2>1 DEF One, IsDigits
<1>2. \A k \in Nat : DigitOf(k % 10) \in Digits /\ k \div 10 \in Nat
  BY DigitNumbers, Tens
<1>3. 2 = 1 + 1 /\ 3 = 2 + 1 /\ 4 = 3 + 1
  OBVIOUS
<1>4. ASSUME NEW k \in Nat, k < 100 PROVE IsDigits(Two(k), 2)
  <2>1. IsDigits(One(k \div 10), 1)
    BY <1>1, <1>2, <1>4, Tens
  <2> QED BY <1>2, <1>3, <2>1, DigitBehind DEF Two
<1>5. ASSUME NEW k \in Nat, k < 1000 PROVE IsDigits(Three(k), 3)
  <2>1. IsDigits(Two(k \div 10), 2)
    BY <1>2, <1>4, <1>5, Tens
  <2> QED BY <1>2, <1>3, <2>1, DigitBehind DEF Three
<1>6. ASSUME n < 10000 PROVE IsDigits(FourDigits(n), 4)
  <2>1. IsDigits(Three(n \div 10), 3)
    BY <1>2, <1>5, <1>6, Tens
  <2> QED BY <1>2, <1>3, <2>1, DigitBehind DEF FourDigits
<1> QED BY <1>1, <1>4, <1>5, <1>6

(* A number with a zero in front of it.                                    *)
LEMMA ZeroInFront ==
  ASSUME NEW n \in Nat
  PROVE  /\ n < 10 => Two(n) = <<"0">> \o One(n)
         /\ n < 100 => Three(n) = <<"0">> \o Two(n)
         /\ n < 1000 => FourDigits(n) = <<"0">> \o Three(n)
<1>1. "0" \in Digits /\ <<"0">> \in Seq(Digits)
  BY DigitNumbers
<1>2. ASSUME NEW s \in Seq(Digits), NEW x \in Digits
      PROVE  Append(<<"0">> \o s, x) = <<"0">> \o Append(s, x)
  <2>1. PICK z : z = <<"0">>
    OBVIOUS
  <2>2. z \in Seq(Digits) /\ <<x>> \in Seq(Digits)
    BY <1>1, <2>1
  <2>3. (z \o s) \o <<x>> = z \o (s \o <<x>>)
    BY <2>2, ConcatAssociative
  <2>4. z \o s \in Seq(Digits)
    BY <2>2
  <2>5. Append(z \o s, x) = (z \o s) \o <<x>> /\ Append(s, x) = s \o <<x>>
    BY <2>4, AppendIs
  <2> QED BY <2>1, <2>3, <2>5
<1>3. ASSUME NEW k \in Nat, k < 10 PROVE Two(k) = <<"0">> \o One(k)
  <2>1. k \div 10 = 0 /\ k % 10 = k /\ DigitOf(0) = "0" /\ DigitOf(k) \in Digits
    BY <1>3, Tens, DigitNumbers
  <2>2. Two(k) = Append(<<"0">>, DigitOf(k))
    BY <2>1 DEF Two, One
  <2> QED BY <1>1, <2>1, <2>2, AppendIs DEF One
<1>4. ASSUME NEW k \in Nat, k < 100 PROVE Three(k) = <<"0">> \o Two(k)
  <2>1. PICK q, d : q = k \div 10 /\ d = DigitOf(k % 10)
    OBVIOUS
  <2>2. q \in Nat /\ q < 10 /\ d \in Digits
    BY <1>4, <2>1, Tens, DigitNumbers
  <2>3. Two(q) = <<"0">> \o One(q) /\ One(q) \in Seq(Digits)
    BY <1>3, <2>2, DigitSequences DEF IsDigits
  <2>4. Three(k) = Append(Two(q), d) /\ Two(k) = Append(One(q), d)
    BY <2>1 DEF Three, Two
  <2> QED BY <1>2, <2>2, <2>3, <2>4
<1>5. ASSUME NEW k \in Nat, k < 1000 PROVE FourDigits(k) = <<"0">> \o Three(k)
  <2>1. PICK q, d : q = k \div 10 /\ d = DigitOf(k % 10)
    OBVIOUS
  <2>2. q \in Nat /\ q < 100 /\ d \in Digits
    BY <1>5, <2>1, Tens, DigitNumbers
  <2>3. Three(q) = <<"0">> \o Two(q) /\ Two(q) \in Seq(Digits)
    BY <1>4, <2>2, DigitSequences DEF IsDigits
  <2>4. FourDigits(k) = Append(Three(q), d) /\ Three(k) = Append(Two(q), d)
    BY <2>1 DEF FourDigits, Three
  <2> QED BY <1>2, <2>2, <2>3, <2>4
<1> QED BY <1>3, <1>4, <1>5

(* Zeros and a text.                                                       *)
ZeroText(n) == [i \in 1..n |-> "0"]
LEMMA Zeros ==
  ASSUME NEW s \in Seq(Digits)
  PROVE  /\ ZeroText(0) \o s = s
         /\ ZeroText(1) \o s = <<"0">> \o s
         /\ ZeroText(2) \o s = <<"0">> \o (<<"0">> \o s)
         /\ ZeroText(3) \o s = <<"0">> \o (<<"0">> \o (<<"0">> \o s))
<1> DEFINE zeros(n) == [i \in 1..n |-> "0"]
<1>1. "0" \in Digits
  BY DigitNumbers
<1>2. PICK z : z = <<"0">>
  OBVIOUS
<1>3. z \in Seq(Digits) /\ Len(z) = 1 /\ z[1] = "0"
  BY <1>1, <1>2
<1>4. ASSUME NEW n \in Nat, NEW m, m = n + 1 PROVE zeros(m) = z \o zeros(n) /\ zeros(n) \in Seq(Digits)
  <2>1. PICK t : t = zeros(n)
    OBVIOUS
  <2>2. t \in Seq(Digits) /\ Len(t) = n /\ \A i \in 1..n : t[i] = "0"
    BY <1>1, <2>1
  <2>3. PICK u : u = z \o t
    OBVIOUS
  <2>4. /\ u \in Seq(Digits) /\ Len(u) = Len(z) + Len(t)
        /\ \A i \in 1..Len(z) + Len(t) : u[i] = IF i <= Len(z) THEN z[i] ELSE t[i - Len(z)]
    BY <1>3, <2>2, <2>3, ConcatProperties
  <2>5. u \in Seq(Digits) /\ Len(u) = 1 + n /\ \A i \in 1..1 + n : u[i] = IF i <= 1 THEN z[i] ELSE t[i - 1]
    BY ONLY <1>3, <2>2, <2>4
  <2>6. u \in Seq(Digits) /\ Len(u) = m /\ \A i \in 1..m : u[i] = "0"
    BY <1>3, <1>4, <2>2, <2>5
  <2>7. zeros(m) \in Seq(Digits) /\ Len(zeros(m)) = m /\ \A i \in 1..m : zeros(m)[i] = "0"
    BY <1>1, <1>4
  <2> HIDE DEF zeros
  <2>8. zeros(m) = u
    BY <2>6, <2>7, SeqEqual
  <2> QED BY <2>1, <2>2, <2>3, <2>8
<1>5. zeros(0) = <<>>
  OBVIOUS
<1> HIDE DEF zeros
<1>6. zeros(1) = z \o zeros(0) /\ zeros(2) = z \o zeros(1) /\ zeros(3) = z \o zeros(2)
  <2>1. 1 = 0 + 1 /\ 2 = 1 + 1 /\ 3 = 2 + 1
    OBVIOUS
  <2> QED BY <1>4, <2>1
<1>7. zeros(0) \in Seq(Digits) /\ zeros(1) \in Seq(Digits) /\ zeros(2) \in Seq(Digits)
  BY <1>4
<1>8. zeros(0) \o s = s
  BY <1>5, ConcatEmptySeq
<1>9. ASSUME NEW t \in Seq(Digits) PROVE (z \o t) \o s = z \o (t \o s)
  BY ONLY <1>3, t \in Seq(Digits), s \in Seq(Digits), ConcatAssociative
<1>10. zeros(1) \o s = z \o s
  BY <1>6, <1>7, <1>8, <1>9
<1>11. zeros(2) \o s = z \o (z \o s)
  BY <1>6, <1>7, <1>9, <1>10
<1>12. zeros(3) \o s = z \o (z \o (z \o s))
  BY <1>6, <1>7, <1>9, <1>11
<1> QED BY <1>2, <1>8, <1>10, <1>11, <1>12 DEF zeros, ZeroText

(* Numbers with zeros in front of them.                                    *)
LEMMA PrintedIs ==
  ASSUME NEW n \in Nat, NEW width \in Nat, NEW k \in Nat, IsDigits(Figures(n), k),
         NEW m, k + m = width, m \in Nat
  PROVE  Printed(n, width) = ZeroText(m) \o Figures(n)
<1>1. width - Len(Figures(n)) = m
  BY DEF IsDigits
<1> QED BY <1>1 DEF Printed, ZeroText
LEMMA PrintedSums ==
  /\ 2 \in Nat /\ 3 \in Nat /\ 4 \in Nat /\ 1 \in Nat /\ 0 \in Nat
  /\ 1 + 1 = 2 /\ 2 + 0 = 2 /\ 1 + 3 = 4 /\ 2 + 2 = 4 /\ 3 + 1 = 4 /\ 4 + 0 = 4
OBVIOUS
LEMMA PrintedTwo == ASSUME NEW n \in Nat, n < 100 PROVE Printed(n, 2) = Two(n) /\ IsDigits(Two(n), 2)
<1>1. IsDigits(Two(n), 2)
  BY DigitSequences
<1>2. CASE n < 10
  <2>1. IsDigits(One(n), 1) /\ Figures(n) = One(n) /\ Two(n) = <<"0">> \o One(n)
    <3>1. IsDigits(One(n), 1)
      BY <1>2, DigitSequences
    <3>2. Figures(n) = One(n)
      BY <1>2, FiguresOf
    <3>3. Two(n) = <<"0">> \o One(n)
      BY <1>2, ZeroInFront
    <3> QED BY <3>1, <3>2, <3>3
  <2>2. Printed(n, 2) = ZeroText(1) \o One(n)
    <3>1. IsDigits(Figures(n), 1)
      BY ONLY <2>1
    <3>2. Printed(n, 2) = ZeroText(1) \o Figures(n)
      BY ONLY n \in Nat, <3>1, PrintedIs, PrintedSums
    <3> QED BY ONLY <2>1, <3>2
  <2>3. ZeroText(1) \o One(n) = <<"0">> \o One(n)
    BY ONLY <2>1, Zeros DEF IsDigits
  <2> QED BY ONLY <1>1, <2>1, <2>2, <2>3
<1>3. CASE ~(n < 10)
  <2>1. Figures(n) = Two(n)
    BY <1>3, FiguresOf
  <2>2. Printed(n, 2) = ZeroText(0) \o Two(n)
    BY ONLY n \in Nat, <1>1, <2>1, PrintedIs, PrintedSums
  <2>3. ZeroText(0) \o Two(n) = Two(n)
    BY ONLY <1>1, Zeros DEF IsDigits
  <2> QED BY ONLY <1>1, <2>2, <2>3
<1> QED BY <1>2, <1>3
LEMMA PrintedFour ==
  ASSUME NEW n \in Nat, n < 10000
  PROVE  Printed(n, 4) = FourDigits(n) /\ IsDigits(FourDigits(n), 4)
<1>1. IsDigits(FourDigits(n), 4)
  BY DigitSequences
<1>2. CASE n < 10
  <2>1. /\ IsDigits(One(n), 1) /\ Figures(n) = One(n)
        /\ Two(n) = <<"0">> \o One(n) /\ Three(n) = <<"0">> \o Two(n)
        /\ FourDigits(n) = <<"0">> \o Three(n)
    <3>1. n < 100 /\ n < 1000
      BY <1>2
    <3>2. IsDigits(One(n), 1)
      BY <1>2, DigitSequences
    <3>3. Figures(n) = One(n)
      BY <1>2, <3>1, FiguresOf
    <3>4. Two(n) = <<"0">> \o One(n) /\ Three(n) = <<"0">> \o Two(n)
      BY <1>2, <3>1, ZeroInFront
    <3>5. FourDigits(n) = <<"0">> \o Three(n)
      BY <1>2, <3>1, ZeroInFront
    <3> QED BY <3>2, <3>3, <3>4, <3>5
  <2>2. Printed(n, 4) = ZeroText(3) \o One(n)
    <3>1. IsDigits(Figures(n), 1)
      BY ONLY <2>1
    <3>2. Printed(n, 4) = ZeroText(3) \o Figures(n)
      BY ONLY n \in Nat, <3>1, PrintedIs, PrintedSums
    <3> QED BY ONLY <2>1, <3>2
  <2>3. ZeroText(3) \o One(n) = <<"0">> \o (<<"0">> \o (<<"0">> \o One(n)))
    BY ONLY <2>1, Zeros DEF IsDigits
  <2> QED BY ONLY <1>1, <2>1, <2>2, <2>3
<1>3. CASE ~(n < 10) /\ n < 100
  <2>1. /\ IsDigits(Two(n), 2) /\ Figures(n) = Two(n)
        /\ Three(n) = <<"0">> \o Two(n) /\ FourDigits(n) = <<"0">> \o Three(n)
    <3>1. n < 1000
      BY <1>3
    <3>2. IsDigits(Two(n), 2)
      BY <1>3, DigitSequences
    <3>3. Figures(n) = Two(n)
      BY <1>3, <3>1, FiguresOf
    <3>4. Three(n) = <<"0">> \o Two(n)
      BY <1>3, <3>1, ZeroInFront
    <3>5. FourDigits(n) = <<"0">> \o Three(n)
      BY <1>3, <3>1, ZeroInFront
    <3> QED BY <3>2, <3>3, <3>4, <3>5
  <2>2. Printed(n, 4) = ZeroText(2) \o Two(n)
    <3>1. IsDigits(Figures(n), 2)
      BY ONLY <2>1
    <3>2. Printed(n, 4) = ZeroText(2) \o Figures(n)
      BY ONLY n \in Nat, <3>1, PrintedIs, PrintedSums
    <3> QED BY ONLY <2>1, <3>2
  <2>3. ZeroText(2) \o Two(n) = <<"0">> \o (<<"0">> \o Two(n))
    BY ONLY <2>1, Zeros DEF IsDigits
  <2> QED BY ONLY <1>1, <2>1, <2>2, <2>3
<1>4. CASE ~(n < 100) /\ n < 1000
  <2>1. IsDigits(Three(n), 3) /\ Figures(n) = Three(n) /\ FourDigits(n) = <<"0">> \o Three(n)
    <3>1. ~(n < 10)
      BY <1>4
    <3>2. IsDigits(Three(n), 3)
      BY <1>4, DigitSequences
    <3>3. Figures(n) = Three(n)
      BY <1>4, <3>1, FiguresOf
    <3>4. FourDigits(n) = <<"0">> \o Three(n)
      BY <1>4, <3>1, ZeroInFront
    <3> QED BY <3>2, <3>3, <3>4
  <2>2. Printed(n, 4) = ZeroText(1) \o Three(n)
    <3>1. IsDigits(Figures(n), 3)
      BY ONLY <2>1
    <3>2. Printed(n, 4) = ZeroText(1) \o Figures(n)
      BY ONLY n \in Nat, <3>1, PrintedIs, PrintedSums
    <3> QED BY ONLY <2>1, <3>2
  <2>3. ZeroText(1) \o Three(n) = <<"0">> \o Three(n)
    BY ONLY <2>1, Zeros DEF IsDigits
  <2> QED BY ONLY <1>1, <2>1, <2>2, <2>3
<1>5. CASE ~(n < 1000)
  <2>1. Figures(n) = FourDigits(n)
    <3>1. ~(n < 10) /\ ~(n < 100)
      BY <1>5
    <3> QED BY <1>5, <3>1, FiguresOf
  <2>2. Printed(n, 4) = ZeroText(0) \o FourDigits(n)
    BY ONLY n \in Nat, <1>1, <2>1, PrintedIs, PrintedSums
  <2>3. ZeroText(0) \o FourDigits(n) = FourDigits(n)
    BY ONLY <1>1, Zeros DEF IsDigits
  <2> QED BY ONLY <1>1, <2>2, <2>3
<1> QED BY <1>2, <1>3, <1>4, <1>5

-----------------------------------------------------------------------------
(* Times and their texts                                                   *)

(* What sorts first is decided by the front of two texts, or by what is    *)
(* behind two fronts that are the same.                                    *)
Marks == Digits \cup {"-", ":", " "}
Same(x, y) == x = y
LEMMA BeforeConcat ==
  ASSUME NEW s \in Seq(Marks), NEW t \in Seq(Marks), Len(s) = Len(t),
         NEW u \in Seq(Marks), NEW v \in Seq(Marks), Len(u) = Len(v)
  PROVE  /\ Same(s \o u, t \o v) <=> s = t /\ u = v
         /\ Before(s \o u, t \o v) <=> Before(s, t) \/ (s = t /\ Before(u, v))
<1>1. PICK n \in Nat, k \in Nat : n = Len(s) /\ k = Len(u)
  OBVIOUS
<1>2. PICK x, y : x = s \o u /\ y = t \o v
  OBVIOUS
<1>3. /\ Len(x) = n + k /\ Len(y) = n + k /\ x \in Seq(Marks) /\ y \in Seq(Marks)
      /\ \A i \in 1..n + k : x[i] = IF i <= n THEN s[i] ELSE u[i - n]
      /\ \A i \in 1..n + k : y[i] = IF i <= n THEN t[i] ELSE v[i - n]
  <2>1. /\ Len(x) = n + k /\ x \in Seq(Marks)
        /\ \A i \in 1..n + k : x[i] = IF i <= n THEN s[i] ELSE u[i - n]
    BY ONLY s \in Seq(Marks), u \in Seq(Marks), <1>1, <1>2, ConcatProperties
  <2>2. n = Len(t) /\ k = Len(v)
    BY <1>1
  <2>3. /\ Len(y) = n + k /\ y \in Seq(Marks)
        /\ \A i \in 1..n + k : y[i] = IF i <= n THEN t[i] ELSE v[i - n]
    BY ONLY t \in Seq(Marks), v \in Seq(Marks), <2>2, <1>2, ConcatProperties
  <2> QED BY ONLY <2>1, <2>3
<1>4. /\ \A i \in 1..n : i \in 1..n + k /\ x[i] = s[i] /\ y[i] = t[i]
      /\ \A i \in 1..k : i + n \in 1..n + k /\ x[i + n] = u[i] /\ y[i + n] = v[i]
  <2>1. ASSUME NEW i \in 1..n PROVE i \in 1..n + k /\ x[i] = s[i] /\ y[i] = t[i]
    BY <1>3
  <2>2. ASSUME NEW i \in 1..k PROVE i + n \in 1..n + k /\ x[i + n] = u[i] /\ y[i + n] = v[i]
    <3>1. PICK j : j = i + n
      OBVIOUS
    <3>2. j \in 1..n + k /\ ~(j <= n) /\ j - n = i
      BY <3>1
    <3> QED BY <1>3, <3>1, <3>2
  <2> QED BY <2>1, <2>2
<1>5. /\ DOMAIN s = 1..n /\ DOMAIN t = 1..n /\ DOMAIN u = 1..k /\ DOMAIN v = 1..k
      /\ DOMAIN x = 1..n + k /\ DOMAIN y = 1..n + k
  BY <1>1, <1>3
<1>6. /\ s = t <=> \A i \in 1..n : s[i] = t[i]
      /\ u = v <=> \A i \in 1..k : u[i] = v[i]
  BY <1>1, SeqEqual
<1>7. x = y <=> s = t /\ u = v
  <2>1. ASSUME x = y PROVE s = t /\ u = v
    BY <1>4, <1>6, <2>1
  <2> QED BY <1>2, <2>1
<1> DEFINE less(a, b, i) == a[i] \in Digits /\ b[i] \in Digits /\ DigitValue[a[i]] < DigitValue[b[i]]
           first(a, b, i) == (\A j \in 1..i - 1 : a[j] = b[j]) /\ less(a, b, i)
<1>8. /\ Before(s, t) <=> \E i \in 1..n : first(s, t, i)
      /\ Before(u, v) <=> \E i \in 1..k : first(u, v, i)
      /\ Before(x, y) <=> \E i \in 1..n + k : first(x, y, i)
  BY <1>5 DEF Before
<1>9. \A i \in 1..n : less(x, y, i) <=> less(s, t, i)
  BY <1>4
<1>10. \A i \in 1..k : less(x, y, i + n) <=> less(u, v, i)
  BY <1>4
<1> HIDE DEF less
<1>11. \A i \in 1..n : first(x, y, i) <=> first(s, t, i)
  <2> TAKE i \in 1..n
  <2>1. \A j \in 1..i - 1 : j \in 1..n
    OBVIOUS
  <2> QED BY <1>4, <1>9, <2>1
<1>12. \A i \in 1..k : first(x, y, i + n) <=> s = t /\ first(u, v, i)
  <2> TAKE i \in 1..k
  <2>1. \A j \in 1..i - 1 : j \in 1..k /\ j + n \in 1..i + n - 1
    OBVIOUS
  <2>2. \A j \in 1..n : j \in 1..i + n - 1
    OBVIOUS
  <2>3. ASSUME first(x, y, i + n) PROVE s = t /\ first(u, v, i)
    <3>1. \A j \in 1..n : s[j] = t[j]
      BY <1>4, <2>2, <2>3
    <3>2. \A j \in 1..i - 1 : u[j] = v[j]
      BY <1>4, <2>1, <2>3
    <3> QED BY <1>6, <1>10, <2>3, <3>1, <3>2
  <2>4. ASSUME s = t, first(u, v, i) PROVE first(x, y, i + n)
    <3>1. ASSUME NEW j \in 1..i + n - 1 PROVE x[j] = y[j]
      <4>1. CASE j <= n
        BY <1>4, <2>4, <4>1
      <4>2. CASE ~(j <= n)
        <5>1. PICK m : m = j - n
          OBVIOUS
        <5>2. m \in 1..i - 1 /\ m \in 1..k /\ j = m + n
          BY <4>2, <5>1
        <5> QED BY <1>4, <2>4, <5>2
      <4> QED BY <4>1, <4>2
    <3>2. less(x, y, i + n)
      BY <1>10, <2>4
    <3> QED BY <3>1, <3>2
  <2> QED BY <2>3, <2>4
<1>13. \A i \in 1..n + k : i \in 1..n \/ \E j \in 1..k : i = j + n
  <2> TAKE i \in 1..n + k
  <2>1. CASE ~(i <= n)
    <3>1. i - n \in 1..k /\ i = (i - n) + n
      BY <2>1
    <3> QED BY <3>1
  <2> QED BY <2>1
<1> HIDE DEF first
<1>14. Before(x, y) <=> Before(s, t) \/ (s = t /\ Before(u, v))
  BY <1>4, <1>8, <1>11, <1>12, <1>13
<1> QED BY <1>2, <1>7, <1>14 DEF Same

(* Two texts of one length sort as the number c compares with zero.        *)
SortsAs(s, t, c) ==
  /\ s \in Seq(Marks) /\ t \in Seq(Marks) /\ Len(s) = Len(t) /\ c \in Int
  /\ s = t <=> c = 0
  /\ Before(s, t) <=> c < 0
LEMMA SortsBehind ==
  ASSUME NEW s, NEW t, NEW c, SortsAs(s, t, c), NEW u, NEW v, NEW d, SortsAs(u, v, d),
         NEW e \in Int, c # 0 => e # 0 /\ (e < 0 <=> c < 0), c = 0 => e = d
  PROVE  SortsAs(s \o u, t \o v, e)
<1>1. /\ s \in Seq(Marks) /\ t \in Seq(Marks) /\ Len(s) = Len(t) /\ c \in Int
      /\ u \in Seq(Marks) /\ v \in Seq(Marks) /\ Len(u) = Len(v) /\ d \in Int
      /\ s = t <=> c = 0 
      /\ u = v <=> d = 0
      /\ Before(s, t) <=> c < 0
      /\ Before(u, v) <=> d < 0
  BY DEF SortsAs
<1>2. PICK x, y : x = s \o u /\ y = t \o v
  OBVIOUS
<1>3. x \in Seq(Marks) /\ y \in Seq(Marks) /\ Len(x) = Len(y)
  <2>1. Len(x) = Len(s) + Len(u) /\ x \in Seq(Marks)
    BY ONLY <1>1, <1>2, ConcatProperties
  <2>2. Len(y) = Len(t) + Len(v) /\ y \in Seq(Marks)
    BY ONLY <1>1, <1>2, ConcatProperties
  <2> QED BY ONLY <1>1, <2>1, <2>2
<1>4. x = y <=> s = t /\ u = v
  <2>1. Same(s \o u, t \o v) <=> s = t /\ u = v
    BY ONLY <1>1, BeforeConcat
  <2> QED BY ONLY <1>2, <2>1 DEF Same
<1>5. Before(x, y) <=> Before(s, t) \/ (s = t /\ Before(u, v))
  BY ONLY <1>1, <1>2, BeforeConcat
<1>6. x = y <=> e = 0
  BY <1>1, <1>4
<1>7. Before(x, y) <=> e < 0
  BY <1>1, <1>5
<1> QED BY <1>2, <1>3, <1>6, <1>7 DEF SortsAs

(* A digit sorts as its value, and a separator as itself.                  *)
LEMMA MarksSort ==
  /\ \A m, n \in 0..9 : SortsAs(<<DigitOf(m)>>, <<DigitOf(n)>>, m - n)
  /\ \A c \in Marks : SortsAs(<<c>>, <<c>>, 0)
<1>1. ASSUME NEW b \in Marks, NEW c \in Marks
      PROVE  /\ <<b>> \in Seq(Marks) /\ <<c>> \in Seq(Marks) /\ Len(<<b>>) = Len(<<c>>)
             /\ <<b>> = <<c>> <=> b = c
             /\ Before(<<b>>, <<c>>) <=> b \in Digits /\ c \in Digits /\ DigitValue[b] < DigitValue[c]
  <2>1. PICK s, t : s = <<b>> /\ t = <<c>>
    OBVIOUS
  <2>2. s \in Seq(Marks) /\ t \in Seq(Marks) /\ Len(s) = Len(t) /\ (s = t <=> b = c)
    BY <2>1
  <2>3. DOMAIN s \cap DOMAIN t = {1} /\ s[1] = b /\ t[1] = c /\ 1..1 - 1 = {}
    BY <2>1
  <2>4. Before(s, t) <=> b \in Digits /\ c \in Digits /\ DigitValue[b] < DigitValue[c]
    BY <2>3 DEF Before
  <2> QED BY <2>1, <2>2, <2>4
<1>2. ASSUME NEW m \in 0..9, NEW n \in 0..9 PROVE SortsAs(<<DigitOf(m)>>, <<DigitOf(n)>>, m - n)
  <2>1. PICK b, c : b = DigitOf(m) /\ c = DigitOf(n)
    OBVIOUS
  <2>2. b \in Digits /\ c \in Digits /\ DigitValue[b] = m /\ DigitValue[c] = n
    BY <2>1, DigitNumbers
  <2>3. b = c <=> m - n = 0
    BY <2>1, <2>2
  <2>4. b \in Marks /\ c \in Marks
    BY ONLY <2>2 DEF Marks
  <2>5. PICK e : e = m - n
    OBVIOUS
  <2>6. e \in Int /\ (e < 0 <=> m < n) /\ (b = c <=> e = 0)
    BY <2>3, <2>5
  <2>7. Before(<<b>>, <<c>>) <=> e < 0
    BY <1>1, <2>2, <2>4, <2>6
  <2>8. SortsAs(<<b>>, <<c>>, e)
    BY ONLY <1>1, <2>4, <2>6, <2>7 DEF SortsAs
  <2> QED BY <2>1, <2>5, <2>8
<1>3. ASSUME NEW c \in Marks PROVE SortsAs(<<c>>, <<c>>, 0)
  <2>1. ASSUME NEW d \in Digits PROVE ~(DigitValue[d] < DigitValue[d])
    <3>1. PICK k \in 0..9 : k = DigitValue[d]
      BY DigitNumbers
    <3> QED BY <3>1
  <2>2. PICK z : z = 0
    OBVIOUS
  <2>3. ~Before(<<c>>, <<c>>) /\ <<c>> \in Seq(Marks)
    BY <1>1, <2>1
  <2>4. z \in Int /\ z = 0 /\ ~(z < 0)
    BY <2>2
  <2>5. SortsAs(<<c>>, <<c>>, z)
    BY ONLY <2>3, <2>4 DEF SortsAs
  <2> QED BY <2>2, <2>5
<1> QED BY <1>2, <1>3

(* A digit behind two texts, and numbers of two and of four digits.        *)
LEMMA DigitSorts ==
  ASSUME NEW s, NEW t, NEW m \in Nat, NEW n \in Nat, SortsAs(s, t, m \div 10 - n \div 10)
  PROVE  SortsAs(Append(s, DigitOf(m % 10)), Append(t, DigitOf(n % 10)), m - n)
<1>1. PICK p, q, f, g : p = m \div 10 /\ q = n \div 10 /\ f = m % 10 /\ g = n % 10
  OBVIOUS
<1>2. /\ p \in Nat /\ f \in 0..9 /\ m = 10 * p + f
      /\ q \in Nat /\ g \in 0..9 /\ n = 10 * q + g
  BY <1>1, Tens
<1>3. PICK c, d, e : c = p - q /\ d = f - g /\ e = m - n
  OBVIOUS
<1>4. c \in Int /\ d \in Int /\ e \in Int /\ e = 10 * c + d /\ d > -10 /\ d < 10
  BY ONLY <1>2, <1>3
<1>5. (c # 0 => e # 0 /\ (e < 0 <=> c < 0)) /\ (c = 0 => e = d)
  BY ONLY <1>4
<1>6. PICK u, v : u = DigitOf(f) /\ v = DigitOf(g)
  OBVIOUS
<1>7. SortsAs(<<u>>, <<v>>, d) /\ SortsAs(s, t, c)
  BY <1>1, <1>2, <1>3, <1>6, MarksSort
<1>8. SortsAs(s \o <<u>>, t \o <<v>>, e)
  BY ONLY <1>4, <1>5, <1>7, SortsBehind
<1>9. u \in Marks /\ v \in Marks /\ s \in Seq(Marks) /\ t \in Seq(Marks)
  BY <1>2, <1>6, <1>7, DigitNumbers DEF SortsAs, Marks
<1>10. Append(s, u) = s \o <<u>>
  BY ONLY <1>9, AppendIs
<1>11. Append(t, v) = t \o <<v>>
  BY ONLY <1>9, AppendIs
<1> QED BY <1>1, <1>3, <1>6, <1>8, <1>10, <1>11
LEMMA NumbersSort ==
  ASSUME NEW m \in Nat, NEW n \in Nat
  PROVE  /\ m < 100 /\ n < 100 => SortsAs(Printed(m, 2), Printed(n, 2), m - n)
         /\ m < 10000 /\ n < 10000 => SortsAs(Printed(m, 4), Printed(n, 4), m - n)
<1>1. ASSUME NEW p \in Nat, p < 10, NEW q \in Nat, q < 10 PROVE SortsAs(One(p), One(q), p - q)
  BY <1>1, MarksSort DEF One
<1>2. ASSUME NEW p \in Nat, p < 100, NEW q \in Nat, q < 100 PROVE SortsAs(Two(p), Two(q), p - q)
  <2>1. SortsAs(One(p \div 10), One(q \div 10), p \div 10 - q \div 10)
    BY <1>1, <1>2, Tens
  <2> QED BY <2>1, DigitSorts DEF Two
<1>3. ASSUME NEW p \in Nat, p < 1000, NEW q \in Nat, q < 1000 PROVE SortsAs(Three(p), Three(q), p - q)
  <2>1. SortsAs(Two(p \div 10), Two(q \div 10), p \div 10 - q \div 10)
    BY <1>2, <1>3, Tens
  <2> QED BY <2>1, DigitSorts DEF Three
<1>4. ASSUME m < 10000, n < 10000 PROVE SortsAs(FourDigits(m), FourDigits(n), m - n)
  <2>1. SortsAs(Three(m \div 10), Three(n \div 10), m \div 10 - n \div 10)
    BY <1>3, <1>4, Tens
  <2> QED BY <2>1, DigitSorts DEF FourDigits
<1>5. ASSUME m < 100, n < 100 PROVE SortsAs(Printed(m, 2), Printed(n, 2), m - n)
  BY <1>2, <1>5, PrintedTwo
<1>6. ASSUME m < 10000, n < 10000 PROVE SortsAs(Printed(m, 4), Printed(n, 4), m - n)
  BY <1>4, <1>6, PrintedFour
<1> QED BY <1>5, <1>6

(* Two texts, and three, with a separator between them.                    *)
LEMMA PartsSort ==
  ASSUME NEW s, NEW t, NEW c, SortsAs(s, t, c), NEW u, NEW v, NEW d, SortsAs(u, v, d),
         NEW x \in Marks, NEW e \in Int, c # 0 => e = c, c = 0 => e = d
  PROVE  SortsAs(s \o <<x>> \o u, t \o <<x>> \o v, e)
<1>1. PICK z : z = 0
  OBVIOUS
<1>2. SortsAs(<<x>>, <<x>>, z)
  BY <1>1, MarksSort
<1>3. c \in Int /\ (c # 0 => c # 0 /\ (c < 0 <=> c < 0)) /\ (c = 0 => c = z)
  BY <1>1 DEF SortsAs
<1>4. SortsAs(s \o <<x>>, t \o <<x>>, c)
  BY ONLY <1>2, <1>3, SortsAs(s, t, c), SortsBehind
<1>5. c # 0 => e # 0 /\ (e < 0 <=> c < 0)
  BY <1>3
<1> QED BY ONLY <1>4, <1>5, SortsAs(u, v, d), c = 0 => e = d, e \in Int, SortsBehind
Parted(x, s, u, w) == s \o <<x>> \o u \o <<x>> \o w
LEMMA FieldsSort ==
  ASSUME NEW s, NEW t, NEW c, SortsAs(s, t, c), NEW u, NEW v, NEW d, SortsAs(u, v, d),
         NEW w, NEW y, NEW f, SortsAs(w, y, f),
         NEW x \in Marks, NEW e \in Int, c # 0 => e = c, c = 0 /\ d # 0 => e = d, c = 0 /\ d = 0 => e = f
  PROVE  SortsAs(Parted(x, s, u, w), Parted(x, t, v, y), e)
<1>1. c \in Int /\ d \in Int /\ f \in Int
  BY ONLY SortsAs(s, t, c), SortsAs(u, v, d), SortsAs(w, y, f) DEF SortsAs
<1>2. PICK g : g = IF c # 0 THEN c ELSE d
  OBVIOUS
<1>3. /\ g \in Int /\ (c # 0 => g = c) /\ (c = 0 => g = d)
      /\ e \in Int /\ (g # 0 => e = g) /\ (g = 0 => e = f)
  BY <1>1, <1>2
<1>4. SortsAs(s \o <<x>> \o u, t \o <<x>> \o v, g)
  BY ONLY <1>3, x \in Marks, SortsAs(s, t, c), SortsAs(u, v, d), PartsSort
<1>5. SortsAs(s \o <<x>> \o u \o <<x>> \o w, t \o <<x>> \o v \o <<x>> \o y, e)
  BY ONLY <1>3, <1>4, x \in Marks, SortsAs(w, y, f), PartsSort
<1> QED BY <1>5, Zenon DEF Parted

(* A date, a time and both sort like their texts.                          *)
Printable(dt) ==
  /\ dt.y \in Nat /\ dt.y < 10000 /\ dt.m \in Nat /\ dt.m < 100 /\ dt.d \in Nat /\ dt.d < 100
  /\ dt.h \in Nat /\ dt.h < 100 /\ dt.min \in Nat /\ dt.min < 100 /\ dt.s \in Nat /\ dt.s < 100
LEMMA TimesSort ==
  ASSUME NEW a, NEW b, Printable(a), Printable(b), a.now = FALSE, b.now = FALSE
  PROVE  SortsAs(DateTimeText(a), DateTimeText(b), DateTimeCompare(a, b))
<1>1. /\ SortsAs(Printed(a.y, 4), Printed(b.y, 4), a.y - b.y)
      /\ SortsAs(Printed(a.m, 2), Printed(b.m, 2), a.m - b.m)
      /\ SortsAs(Printed(a.d, 2), Printed(b.d, 2), a.d - b.d)
  <2>1. SortsAs(Printed(a.y, 4), Printed(b.y, 4), a.y - b.y)
    BY NumbersSort DEF Printable
  <2>2. SortsAs(Printed(a.m, 2), Printed(b.m, 2), a.m - b.m)
    BY NumbersSort DEF Printable
  <2>3. SortsAs(Printed(a.d, 2), Printed(b.d, 2), a.d - b.d)
    BY NumbersSort DEF Printable
  <2> QED BY <2>1, <2>2, <2>3
<1>2. /\ SortsAs(Printed(a.h, 2), Printed(b.h, 2), a.h - b.h)
      /\ SortsAs(Printed(a.min, 2), Printed(b.min, 2), a.min - b.min)
      /\ SortsAs(Printed(a.s, 2), Printed(b.s, 2), a.s - b.s)
  BY NumbersSort DEF Printable
<1>3. PICK dash, colon, blank : dash = "-" /\ colon = ":" /\ blank = " "
  BY Zenon
<1>4. dash \in Marks /\ colon \in Marks /\ blank \in Marks
  BY ONLY <1>3, Zenon DEF Marks
<1>5. /\ DateText(a) = Parted(dash, Printed(a.y, 4), Printed(a.m, 2), Printed(a.d, 2))
      /\ DateText(b) = Parted(dash, Printed(b.y, 4), Printed(b.m, 2), Printed(b.d, 2))
  BY ONLY <1>3, Zenon DEF DateText, Parted
<1>6. /\ TimeText(a) = Parted(colon, Printed(a.h, 2), Printed(a.min, 2), Printed(a.s, 2))
      /\ TimeText(b) = Parted(colon, Printed(b.h, 2), Printed(b.min, 2), Printed(b.s, 2))
  BY ONLY <1>3, Zenon DEF TimeText, Parted
<1>7. /\ DateTimeText(a) = DateText(a) \o <<blank>> \o TimeText(a)
      /\ DateTimeText(b) = DateText(b) \o <<blank>> \o TimeText(b)
  BY ONLY <1>3, a.now = FALSE, b.now = FALSE, Zenon DEF DateTimeText
<1> DEFINE dates == DateCompare(a, b)
           times == TimeCompare(a, b)
<1>8. /\ a.y # b.y <=> a.y - b.y # 0
      /\ a.m # b.m <=> a.m - b.m # 0
      /\ a.h # b.h <=> a.h - b.h # 0
      /\ a.min # b.min <=> a.min - b.min # 0
  BY DEF Printable
<1>9. dates = IF a.y - b.y # 0 THEN a.y - b.y ELSE IF a.m - b.m # 0 THEN a.m - b.m ELSE a.d - b.d
  BY <1>8, Zenon DEF DateCompare
<1>10. times = IF a.h - b.h # 0 THEN a.h - b.h
               ELSE IF a.min - b.min # 0 THEN a.min - b.min ELSE a.s - b.s
  BY <1>8, Zenon DEF TimeCompare
<1> HIDE DEF dates, times
<1>11. SortsAs(DateText(a), DateText(b), dates)
  <2>1. PICK c, d, f : c = a.y - b.y /\ d = a.m - b.m /\ f = a.d - b.d
    OBVIOUS
  <2>2. SortsAs(Printed(a.y, 4), Printed(b.y, 4), c)
    BY ONLY <1>1, <2>1
  <2>3. SortsAs(Printed(a.m, 2), Printed(b.m, 2), d)
    BY ONLY <1>1, <2>1
  <2>4. SortsAs(Printed(a.d, 2), Printed(b.d, 2), f)
    BY ONLY <1>1, <2>1
  <2>5. dates = IF c # 0 THEN c ELSE IF d # 0 THEN d ELSE f
    BY ONLY <1>9, <2>1
  <2>6. c \in Int /\ d \in Int /\ f \in Int
    BY ONLY <2>2, <2>3, <2>4 DEF SortsAs
  <2>7. dates \in Int /\ (c # 0 => dates = c) /\ (c = 0 /\ d # 0 => dates = d) /\ (c = 0 /\ d = 0 => dates = f)
    BY ONLY <2>5, <2>6
  <2>8. SortsAs(Parted(dash, Printed(a.y, 4), Printed(a.m, 2), Printed(a.d, 2)),
                Parted(dash, Printed(b.y, 4), Printed(b.m, 2), Printed(b.d, 2)), dates)
    BY ONLY <1>4, <2>2, <2>3, <2>4, <2>7, FieldsSort
  <2> QED BY ONLY <1>5, <2>8, Zenon
<1>12. SortsAs(TimeText(a), TimeText(b), times)
  <2>1. PICK c, d, f : c = a.h - b.h /\ d = a.min - b.min /\ f = a.s - b.s
    OBVIOUS
  <2>2. SortsAs(Printed(a.h, 2), Printed(b.h, 2), c)
    BY ONLY <1>2, <2>1
  <2>3. SortsAs(Printed(a.min, 2), Printed(b.min, 2), d)
    BY ONLY <1>2, <2>1
  <2>4. SortsAs(Printed(a.s, 2), Printed(b.s, 2), f)
    BY ONLY <1>2, <2>1
  <2>5. times = IF c # 0 THEN c ELSE IF d # 0 THEN d ELSE f
    BY ONLY <1>10, <2>1
  <2>6. c \in Int /\ d \in Int /\ f \in Int
    BY ONLY <2>2, <2>3, <2>4 DEF SortsAs
  <2>7. times \in Int /\ (c # 0 => times = c) /\ (c = 0 /\ d # 0 => times = d) /\ (c = 0 /\ d = 0 => times = f)
    BY ONLY <2>5, <2>6
  <2>8. SortsAs(Parted(colon, Printed(a.h, 2), Printed(a.min, 2), Printed(a.s, 2)),
                Parted(colon, Printed(b.h, 2), Printed(b.min, 2), Printed(b.s, 2)), times)
    BY ONLY <1>4, <2>2, <2>3, <2>4, <2>7, FieldsSort
  <2> QED BY ONLY <1>6, <2>8, Zenon
<1>13. PICK e : e = DateTimeCompare(a, b)
  OBVIOUS
<1>14. dates \in Int /\ times \in Int
  BY <1>11, <1>12 DEF SortsAs
<1>15. e = IF dates # 0 THEN dates ELSE times
  BY <1>13, a.now = FALSE, b.now = FALSE DEF DateTimeCompare, dates, times
<1>16. e \in Int /\ (dates # 0 => e = dates) /\ (dates = 0 => e = times)
  BY <1>14, <1>15
<1>17. SortsAs(DateText(a) \o <<blank>> \o TimeText(a), DateText(b) \o <<blank>> \o TimeText(b), e)
  BY ONLY <1>4, <1>11, <1>12, <1>16, PartsSort
<1> QED BY ONLY <1>7, <1>13, <1>17, Zenon

(* The order of times goes both ways.                                      *)
LEMMA TimeFields ==
  ASSUME NEW a \in DateTimeType
  PROVE  /\ a.y \in Nat /\ a.m \in Nat /\ a.d \in Nat /\ a.h \in Nat /\ a.min \in Nat /\ a.s \in Nat
         /\ a.now \in BOOLEAN
<1>1. /\ a.y \in Shorts /\ a.m \in Bytes /\ a.d \in Bytes
      /\ a.h \in Bytes /\ a.min \in Bytes /\ a.s \in Bytes /\ a.now \in BOOLEAN
  BY DEF DateTimeType
<1>2. (\A n \in Shorts : n \in Nat) /\ (\A n \in Bytes : n \in Nat)
  BY DEF Shorts, Bytes
<1> QED BY ONLY <1>1, <1>2
LEMMA TimesOpposite ==
  ASSUME NEW a \in DateTimeType, NEW b \in DateTimeType
  PROVE  /\ DateTimeCompare(a, b) = 0 <=> ~(DateTimeCompare(a, b) < 0) /\ ~(DateTimeCompare(b, a) < 0)
         /\ ~(DateTimeCompare(a, b) < 0 /\ DateTimeCompare(b, a) < 0)
<1>1. /\ a.y \in Int /\ a.m \in Int /\ a.d \in Int /\ a.h \in Int /\ a.min \in Int /\ a.s \in Int
      /\ b.y \in Int /\ b.m \in Int /\ b.d \in Int /\ b.h \in Int /\ b.min \in Int /\ b.s \in Int
  BY TimeFields
<1>2. PICK c, d, f, g : /\ c = DateCompare(a, b) /\ d = DateCompare(b, a)
                        /\ f = TimeCompare(a, b) /\ g = TimeCompare(b, a)
  OBVIOUS
<1>3. c \in Int /\ d \in Int /\ c + d = 0
  BY ONLY <1>1, <1>2 DEF DateCompare
<1>4. f \in Int /\ g \in Int /\ f + g = 0
  BY ONLY <1>1, <1>2 DEF TimeCompare
<1>5. PICK x, y : x = DateTimeCompare(a, b) /\ y = DateTimeCompare(b, a)
  OBVIOUS
<1>6. /\ x = IF a.now /\ b.now THEN 0 ELSE IF c # 0 THEN c ELSE f
      /\ y = IF a.now /\ b.now THEN 0 ELSE IF d # 0 THEN d ELSE g
  <2>1. a.now \in BOOLEAN /\ b.now \in BOOLEAN
    BY TimeFields
  <2> QED BY <1>2, <1>5, <2>1 DEF DateTimeCompare
<1>7. x \in Int /\ y \in Int /\ x + y = 0
  <2>1. CASE a.now /\ b.now
    BY ONLY <1>6, <2>1
  <2>2. CASE ~(a.now /\ b.now)
    BY ONLY <1>3, <1>4, <1>6, <2>2
  <2> QED BY <2>1, <2>2
<1>8. (x = 0 <=> ~(x < 0) /\ ~(y < 0)) /\ ~(x < 0 /\ y < 0)
  BY ONLY <1>7
<1> QED BY <1>5, <1>8

(* A null is less than any value, and equal to another null.               *)
LEMMA NullsOrdered ==
  ASSUME NEW x \in DateTimeType, NEW y \in DateTimeType,
         NEW a \in {NullOf(x), NotNull(x)}, NEW b \in {NullOf(y), NotNull(y)}
  PROVE  /\ NullEqual(a, b) <=> ~NullLess(a, b) /\ ~NullLess(b, a)
         /\ ~(NullLess(a, b) /\ NullLess(b, a))
<1>1. a.null \in BOOLEAN /\ b.null \in BOOLEAN /\ (~a.null => a.data = x) /\ (~b.null => b.data = y)
  <2>1. a.null \in BOOLEAN /\ (~a.null => a.data = x)
    <3>1. CASE a = NullOf(x)
      BY ONLY <3>1 DEF NullOf
    <3>2. CASE a = NotNull(x)
      BY ONLY <3>2 DEF NotNull
    <3> QED BY <3>1, <3>2
  <2>2. b.null \in BOOLEAN /\ (~b.null => b.data = y)
    <3>1. CASE b = NullOf(y)
      BY ONLY <3>1 DEF NullOf
    <3>2. CASE b = NotNull(y)
      BY ONLY <3>2 DEF NotNull
    <3> QED BY <3>1, <3>2
  <2> QED BY <2>1, <2>2
<1>2. CASE a.null /\ b.null
  <2>1. ~NullLess(a, b)
    BY <1>2, Zenon DEF NullLess
  <2>2. ~NullLess(b, a)
    BY <1>2, Zenon DEF NullLess
  <2>3. NullEqual(a, b)
    BY <1>1, <1>2 DEF NullEqual
  <2> QED BY <2>1, <2>2, <2>3
<1>3. CASE a.null /\ ~b.null
  <2>1. NullLess(a, b)
    BY <1>3, Zenon DEF NullLess
  <2>2. ~NullLess(b, a)
    BY <1>3, Zenon DEF NullLess
  <2>3. ~NullEqual(a, b)
    BY <1>1, <1>3 DEF NullEqual
  <2> QED BY <2>1, <2>2, <2>3
<1>4. CASE ~a.null /\ b.null
  <2>1. NullLess(b, a)
    BY <1>4, Zenon DEF NullLess
  <2>2. ~NullLess(a, b)
    BY <1>4, Zenon DEF NullLess
  <2>3. ~NullEqual(a, b)
    BY <1>1, <1>4 DEF NullEqual
  <2> QED BY <2>1, <2>2, <2>3
<1>5. CASE ~a.null /\ ~b.null
  <2>1. NullLess(a, b) <=> DateTimeCompare(x, y) < 0
    BY <1>1, <1>5, Zenon DEF NullLess
  <2>2. NullLess(b, a) <=> DateTimeCompare(y, x) < 0
    BY <1>1, <1>5, Zenon DEF NullLess
  <2>3. NullEqual(a, b) <=> DateTimeCompare(x, y) = 0
    BY <1>1, <1>5, Zenon DEF NullEqual
  <2> QED BY <2>1, <2>2, <2>3, TimesOpposite
<1> QED BY <1>1, <1>2, <1>3, <1>4, <1>5

-----------------------------------------------------------------------------
(* The cases of the families                                               *)

CasesInv ==
  /\ case.family = "value" => case.value \in CppValues /\ case.manip \in Manipulators
  /\ case.family = "address" =>
       /\ case.text \in AddressTexts /\ case.windows \in BOOLEAN
       /\ case.sockets \in {{}, {case.text}}
  /\ case.family = "strings" => case.a \in SortTexts /\ case.b \in SortTexts
  /\ case.family = "times" => case.a \in DateTimes /\ case.b \in DateTimes
  /\ case.family = "keys" =>
       /\ case.types \in [1..KeySize -> CmpTypes] /\ case.cmp \in 1..KeySize
       /\ case.a \in [1..KeySize -> CmpValues] /\ case.b \in [1..KeySize -> CmpValues]

LEMMA CasesStep == CasesInv /\ [Next]_case => CasesInv'
<1> SUFFICES ASSUME CasesInv, [Next]_case PROVE CasesInv'
  OBVIOUS
<1>1. CASE PickValue
  BY <1>1 DEF PickValue, Pick, CasesInv
<1>2. CASE PickAddress
  BY <1>2 DEF PickAddress, Pick, CasesInv
<1>3. CASE PickStrings
  BY <1>3 DEF PickStrings, Pick, CasesInv
<1>4. CASE PickTimes
  BY <1>4 DEF PickTimes, Pick, CasesInv
<1>5. CASE PickKeys
  BY <1>5 DEF PickKeys, Pick, CasesInv
<1>6. CASE UNCHANGED case
  BY <1>6 DEF CasesInv
<1>7. CASE case'.family \notin {"value", "address", "strings", "times", "keys"}
  BY <1>7 DEF CasesInv
<1>8. CASE PickText \/ PickTemplate \/ PickNumber \/ PickSet \/ Back
  BY <1>7, <1>8 DEF PickText, PickTemplate, PickNumber, PickSet, Back, Pick
<1>9. CASE \/ PickColumn \/ PickType \/ PickRow \/ PickTiny \/ PickStruct \/ PickCommand
  BY <1>7, <1>9 DEF PickColumn, PickType, PickRow, PickTiny, PickStruct, PickCommand, Pick
<1> QED BY <1>1, <1>2, <1>3, <1>4, <1>5, <1>6, <1>8, <1>9 DEF Next

(* For any strings as values and any addresses: a value means the same to  *)
(* the server from a stream as from a template, and an address the same to *)
(* a Connection as to the class that is made for its kind.                 *)
THEOREM OneMeaning == Spec => []FormsAgree
<1>1. Init => CasesInv
  BY DEF Init, CasesInv
<1>2. CasesInv => FormsAgree
  <2> SUFFICES ASSUME CasesInv PROVE FormsAgree
    OBVIOUS
  <2>1. ASSUME case.family = "value", ~(Infinite(case.value) /\ ~IsNull(case.value)),
               NEW v \in {Adapted(case.value)}
        PROVE  /\ case.manip = "quote" => Streamed("quote", v) = Shown("q", Fresh(v))
               /\ case.manip = "quote_only" => Streamed("quote_only", v) = Shown("Q", Fresh(v))
               /\ case.manip \in Manipulators \ {"quote_double_only"} =>
                    Shown(" ", Fresh(Pushed(case.manip, v)))
                      = (IF case.manip = "ignore" THEN v.text ELSE Streamed(case.manip, v))
    BY <2>1, ValueForms DEF CasesInv
  <2>2. ASSUME case.family = "address", case.text # NullPointer
        PROVE  LET direct == ParseIpcMethod(case.text, 0, case.sockets, case.windows)
                   uds == UdsConnect(case.text, case.sockets, case.sockets, case.windows)
               IN /\ direct.how = "tcp" /\ Colons(direct.host) = {} /\ direct.host # <<".">>
                        => TcpConnect(case.text, case.sockets, case.windows) = direct
                  /\ uds = IF direct.how = "socket" THEN direct ELSE Refused
                  /\ direct.how = "pipe" => WnpConnect(case.sockets, case.windows) = direct
    <3>1. case.text \in Seq(STRING) /\ case.windows \in BOOLEAN /\ case.sockets \in {{}, {case.text}}
      BY <2>2, AddressesAreTexts DEF CasesInv
    <3> QED BY <2>2, <3>1, AddressForms
  <2> QED BY <2>1, <2>2 DEF FormsAgree
<1> QED BY <1>1, <1>2, CasesStep, PTL DEF Spec

(* For any strings, any times whose fields have the digits the server     *)
(* writes, and structures of any number of fields: the comparisons are     *)
(* orders, that of the times is the order of their texts, and that of the  *)
(* structures the one of their keys.                                       *)
THEOREM ComparisonsAreOrders == Spec => []OrdersAgree
<1>1. Init => CasesInv
  BY DEF Init, CasesInv
<1>2. CasesInv => OrdersAgree
  <2> SUFFICES ASSUME CasesInv PROVE OrdersAgree
    OBVIOUS
  <2>1. ASSUME case.family = "strings"
        PROVE  LET a == StringOf(case.a, FALSE)
                   b == StringOf(case.b, FALSE)
               IN /\ (Compare(a, b) = 0) <=> (case.a = case.b)
                  /\ Compare(a, b) = -Compare(b, a)
                  /\ Compare(a, ItIsNull(NoString)) = Compare(a, StringOf(<<>>, FALSE))
                  /\ (AdapterCompare(Buffer(case.a), Buffer(case.b)) = 0) <=> IsPrefix(case.a, case.b)
                  /\ AdapterCompare(NoBuffer, Buffer(case.b)) = -AdapterCompare(Buffer(case.b), NoBuffer)
    <3>1. case.a \in Seq(Chars) /\ case.b \in Seq(Chars)
      BY <2>1, SortTextsAreTexts DEF CasesInv, Chars
    <3> QED BY ONLY <3>1, StringsOrdered, AdaptersOrdered
  <2>2. ASSUME case.family = "times"
        PROVE  /\ case.a \in DateTimeType /\ case.b \in DateTimeType
               /\ Printable(case.a) /\ Printable(case.b)
    <3>1. case.a \in DateTimes /\ case.b \in DateTimes
      BY <2>2 DEF CasesInv
    <3>2. ASSUME NEW dt \in DateTimes PROVE dt \in DateTimeType /\ Printable(dt)
      <4>1. dt \in DateTimeType
        BY TimesFit
      <4>2. /\ dt.y < 10000 /\ dt["m"] < 100 /\ dt["d"] < 100
            /\ dt["h"] < 100 /\ dt["min"] < 100 /\ dt["s"] < 100
        BY TimesFit
      <4> QED BY ONLY <4>1, <4>2, TimeFields DEF Printable
    <3> QED BY ONLY <3>1, <3>2
  <2>3. ASSUME case.family = "times", ~case.a.now, ~case.b.now
        PROVE  (DateTimeCompare(case.a, case.b) < 0)
                  <=> Before(DateTimeText(case.a), DateTimeText(case.b))
    <3>1. case.a.now = FALSE /\ case.b.now = FALSE
      BY <2>2, <2>3, TimeFields
    <3>2. SortsAs(DateTimeText(case.a), DateTimeText(case.b), DateTimeCompare(case.a, case.b))
      BY ONLY <2>2, <2>3, <3>1, TimesSort
    <3> QED BY ONLY <3>2 DEF SortsAs
  <2>4. ASSUME case.family = "times",
               NEW a \in {NullOf(case.a), NotNull(case.a)}, NEW b \in {NullOf(case.b), NotNull(case.b)}
        PROVE  /\ NullEqual(a, b) <=> ~NullLess(a, b) /\ ~NullLess(b, a)
               /\ ~(NullLess(a, b) /\ NullLess(b, a))
    BY <2>2, <2>4, NullsOrdered
  <2>5. ASSUME case.family = "keys", NEW class, class = Class("s", <<>>, case.types, case.cmp),
               \A i \in 1..case.cmp : FitsAt(class, case.a, case.b, i)
        PROVE  /\ Related("<", class, case.a, case.b) = KeyLess(case.cmp, case.a, case.b)
               /\ Related(">=", class, case.a, case.b) = ~KeyLess(case.cmp, case.a, case.b)
               /\ Related(">", class, case.a, case.b) = KeyLess(case.cmp, case.b, case.a)
               /\ Related("<=", class, case.a, case.b) = ~KeyLess(case.cmp, case.b, case.a)
               /\ \A op \in {"==", "!="} :
                    Related(op, class, case.a, case.b) = Related(op, class, case.b, case.a)
    <3>1. PICK types, n, a, b : types = case.types /\ n = case.cmp /\ a = case.a /\ b = case.b
      OBVIOUS
    <3>2. /\ KeySize \in Nat /\ types \in [1..KeySize -> CmpTypes] /\ n \in 1..KeySize
          /\ a \in [1..KeySize -> CmpValues] /\ b \in [1..KeySize -> CmpValues]
      BY ONLY CasesInv, <2>5, <3>1, KeysAreIntegers DEF CasesInv
    <3>3. class = Class("s", <<>>, types, n) /\ \A i \in 1..n : FitsAt(class, a, b, i)
      BY ONLY <2>5, <3>1
    <3>4. /\ Related("<", class, a, b) = KeyLess(n, a, b)
          /\ Related(">=", class, a, b) = ~KeyLess(n, a, b)
          /\ Related(">", class, a, b) = KeyLess(n, b, a)
          /\ Related("<=", class, a, b) = ~KeyLess(n, b, a)
          /\ \A op \in {"==", "!="} : Related(op, class, a, b) = Related(op, class, b, a)
      BY ONLY <3>2, <3>3, KeysOrdered
    <3> QED BY ONLY <3>1, <3>4, Zenon
  <2>6. (case.family = "strings") =>
       LET a == StringOf(case.a, FALSE)
           b == StringOf(case.b, FALSE)
       IN /\ (Compare(a, b) = 0) <=> (case.a = case.b)
          /\ Compare(a, b) = -Compare(b, a)
          /\ Compare(a, ItIsNull(NoString)) = Compare(a, StringOf(<<>>, FALSE))
          /\ (AdapterCompare(Buffer(case.a), Buffer(case.b)) = 0) <=> IsPrefix(case.a, case.b)
          /\ AdapterCompare(NoBuffer, Buffer(case.b)) = -AdapterCompare(Buffer(case.b), NoBuffer)
    BY <2>1
  <2>7. case.family = "times" /\ ~case.a.now /\ ~case.b.now =>
       (DateTimeCompare(case.a, case.b) < 0) <=> Before(DateTimeText(case.a), DateTimeText(case.b))
    BY <2>3
  <2> QED BY <2>6, <2>7, <2>4, <2>5 DEF OrdersAgree, FitsAt, KeyLess
<1> QED BY <1>1, <1>2, CasesStep, PTL DEF Spec
=============================================================================
