------------------------ MODULE DefinitionFilesProofs ------------------------
(***************************************************************************)
(* Proofs about the parser and the writer of definition files: for all     *)
(* files, search paths and depths of inclusion, a parse that succeeds has  *)
(* every line in its place, and what was written is read back as what had  *)
(* been parsed.                                                            *)
(***************************************************************************)
EXTENDS DefinitionFiles, SequenceTheorems, FiniteSetTheorems, TLAPS

-----------------------------------------------------------------------------
(* Induction                                                               *)

(* Every nonempty set of natural numbers has a least element: among the    *)
(* sets 1..n for the n of S, one has no other as a proper subset.          *)
LEMMA LeastNumber ==
  ASSUME NEW S \in SUBSET Nat, S # {}
  PROVE  \E n \in S : \A m \in S : n <= m
<1>1. PICK b \in S : TRUE
  OBVIOUS
<1> DEFINE U == 1..b
           R == StrictSubsetOrdering(U)
           low == {m \in S : m <= b}
           T == {1..k : k \in low}
<1>2. b \in Nat /\ IsFiniteSet(U) /\ \A m \in low : m \in Nat /\ 1..m \in SUBSET U
  BY FS_Interval
<1>3. IsWellFoundedOn(R, FiniteSubsetsOf(U))
  BY <1>2, FS_StrictSubsetOrderingWellFounded
<1>4. FiniteSubsetsOf(U) = SUBSET U
  BY <1>2, FS_FiniteSubsetsOfFinite
<1>5. T \subseteq FiniteSubsetsOf(U) /\ T # {}
  BY <1>1, <1>2, <1>4
<1>6. PICK x \in T : \A y \in T : ~(<<y, x>> \in R)
  <2> HIDE DEF R, T, U
  <2> QED BY <1>3, <1>5, WFMin
<1>7. PICK n \in low : x = 1..n
  BY <1>6
<1>8. \A m \in low : n <= m
  <2> SUFFICES ASSUME NEW m \in low, m < n PROVE FALSE
    BY <1>2
  <2>1. 1..m \in T /\ <<1..m, x>> \notin R
    BY <1>6
  <2>2. n \in 1..n /\ n \notin 1..m
    BY <1>2
  <2>3. 1..m \subseteq x /\ 1..m # x
    BY <1>2, <1>7, <2>2
  <2>4. <<1..m, x>> \in R
    BY <1>2, <1>7, <2>3 DEF StrictSubsetOrdering
  <2> QED BY <2>1, <2>4
<1>9. \A m \in S : n <= m
  BY <1>2, <1>7, <1>8
<1> QED BY <1>7, <1>9

(* A set that contains 0 and with every number up to n - 1 also n contains *)
(* all numbers up to n: the induction the proofs below go by.              *)
LEMMA Upwards ==
  ASSUME NEW n \in Nat, NEW S, 0 \in S, \A k \in 1..n : k - 1 \in S => k \in S
  PROVE  0..n \subseteq S
<1> SUFFICES ASSUME (0..n) \ S # {} PROVE FALSE
  OBVIOUS
<1> DEFINE T == (0..n) \ S
<1>1. PICK k \in T : \A m \in T : k <= m
  <2>1. T \in SUBSET Nat
    OBVIOUS
  <2> QED BY <2>1, LeastNumber
<1>2. k # 0 /\ k - 1 \in 0..n /\ ~(k <= k - 1)
  BY <1>1
<1>3. k - 1 \in S
  BY <1>1, <1>2
<1> QED BY <1>1, <1>2, <1>3

(* Every nonempty set of positions has a last one.                         *)
LEMMA LastPosition ==
  ASSUME NEW n \in Nat, NEW S \in SUBSET (1..n), S # {}
  PROVE  \E k \in S : \A m \in S : m <= k
<1> DEFINE T == {n - k : k \in S}
<1>1. T \in SUBSET Nat /\ T # {}
  <2>1. \A k \in S : n - k \in Nat
    OBVIOUS
  <2> QED BY <2>1
<1>2. PICK d \in T : \A e \in T : d <= e
  <2> HIDE DEF T
  <2> QED BY <1>1, LeastNumber
<1>3. PICK k \in S : d = n - k
  BY <1>2
<1>4. ASSUME NEW m \in S PROVE m <= k
  <2>1. n - k <= n - m
    BY <1>2, <1>3
  <2>2. k \in 1..n /\ m \in 1..n
    OBVIOUS
  <2> QED BY <2>1, <2>2
<1> QED BY <1>4

-----------------------------------------------------------------------------
(* What the lines of a definition file parse to                            *)

(* What a parsed line is: an option is one that Option() knows.            *)
OptionSound(l) ==
  \/ l.name = "accessor_style" /\ l.value \in AccessorStyles
  \/ l.name = "exception_on_schema_mismatch" /\ l.value \in {"true", "false"}
  \/ l.name \in Extensions
Parsable == TableLine \cup FieldLine \cup {l \in OptionLine : OptionSound(l)}

(* The words of the language are words.                                    *)
LEMMA KeywordsAreWords ==
  /\ {"", "table", "field", "option", "alias", "filebase", "type", "is", "true", "false"}
       \subseteq Words
  /\ IsAttributes \subseteq Words /\ Types \subseteq Words
BY FilesAssumption DEF Keywords

(* The pairs behind the name are pairs of words of the line.               *)
LEMMA AttributeType ==
  ASSUME NEW words \in Seq(Words)
  PROVE  /\ DOMAIN Attributes(words) = 1..(Len(words) - 2) \div 2
         /\ \A k \in DOMAIN Attributes(words) :
              /\ k \in Nat \ {0} /\ 2 * k + 2 <= Len(words)
              /\ Attributes(words)[k].attr = words[2 * k + 1]
              /\ Attributes(words)[k].value = words[2 * k + 2]
              /\ Attributes(words)[k].attr \in Words
              /\ Attributes(words)[k].value \in Words
<1> DEFINE n == Len(words)
<1>1. n \in Nat /\ \A i \in 1..n : words[i] \in Words
  OBVIOUS
<1>2. DOMAIN Attributes(words) = 1..(Len(words) - 2) \div 2
  BY DEF Attributes
<1>3. ASSUME NEW k \in 1..(n - 2) \div 2
      PROVE  k \in Nat \ {0} /\ 2 * k + 2 <= n
  <2> HIDE DEF n
  <2> QED BY <1>1
<1>4. ASSUME NEW k \in 1..(n - 2) \div 2
      PROVE  /\ Attributes(words)[k].attr = words[2 * k + 1]
             /\ Attributes(words)[k].value = words[2 * k + 2]
  BY <1>4 DEF Attributes
<1>5. ASSUME NEW k \in 1..(n - 2) \div 2
      PROVE  words[2 * k + 1] \in Words /\ words[2 * k + 2] \in Words
  <2>1. 2 * k + 1 \in 1..n /\ 2 * k + 2 \in 1..n
    <3> HIDE DEF n
    <3> QED BY <1>1, <1>3
  <2> QED BY <1>1, <2>1
<1> QED BY <1>2, <1>3, <1>4, <1>5

(* The last of the attributes of a name. *)
LEMMA LastOfType ==
  ASSUME NEW words \in Seq(Words), NEW attr, NEW default \in Words
  PROVE  /\ LastOf(Attributes(words), attr, default) \in Words
         /\ \/ ValuesOf(Attributes(words), attr) = {} /\ LastOf(Attributes(words), attr, default) = default
            \/ \E k \in ValuesOf(Attributes(words), attr) :
                 LastOf(Attributes(words), attr, default) = Attributes(words)[k].value
<1> DEFINE a == Attributes(words)
           ks == ValuesOf(a, attr)
           m == (Len(words) - 2) \div 2
<1>1. DOMAIN a = 1..m /\ \A k \in DOMAIN a : k \in Nat /\ a[k].value \in Words
  BY AttributeType
<1>2. ks \subseteq DOMAIN a
  BY DEF ValuesOf
<1>3. CASE ks = {}
  BY <1>3 DEF LastOf
<1>4. CASE ks # {}
  <2>1. m \in Nat
    <3>1. PICK k \in ks : TRUE
      BY <1>4
    <3>2. k \in 1..m
      BY <1>1, <1>2
    <3>3. m \in Int
      OBVIOUS
    <3> HIDE DEF m
    <3> QED BY <3>2, <3>3
  <2>2. \E k \in ks : \A j \in ks : j <= k
    <3> HIDE DEF a, ks, m
    <3> QED BY <1>1, <1>2, <1>4, <2>1, LastPosition
  <2> DEFINE k == CHOOSE k \in ks : \A j \in ks : j <= k
  <2>3. k \in ks
    <3> HIDE DEF ks
    <3> QED BY <2>2
  <2>4. LastOf(a, attr, default) = a[k].value
    BY <1>4 DEF LastOf
  <2> HIDE DEF a, k
  <2> QED BY <1>1, <1>2, <2>3, <2>4 DEF a
<1> QED BY <1>3, <1>4

(* Table() makes a table or refuses.                                       *)
LEMMA TableType ==
  ASSUME NEW line \in TextLine, Table(line) # BadLine
  PROVE  Table(line) \in TableLine /\ ~line.sub
<1> DEFINE words == line.words
           a == Attributes(words)
<1>1. words \in Seq(Words) /\ line.sub \in BOOLEAN
  BY DEF TextLine
<1>2. /\ ~(Len(words) < 2) /\ ~line.sub
      /\ Table(line) = [kind |-> "table", name |-> words[2], alias |-> LastOf(a, "alias", words[2]),
                        filebase |-> LastOf(a, "filebase", words[2])]
  BY DEF Table
<1>3. words[2] \in Words
  BY <1>1, <1>2
<1>4. LastOf(a, "alias", words[2]) \in Words /\ LastOf(a, "filebase", words[2]) \in Words
  BY <1>1, <1>3, LastOfType
<1> QED BY <1>2, <1>3, <1>4 DEF TableLine

(* Field::Type finds a type for each name it is given.                     *)
LEMMA FieldTypeType == \A s \in DOMAIN FieldType : FieldType[s] \in Types
BY ZenonT(60) DEF FieldType, Types

(* The name of a type that is written is read back as that type.           *)
LEMMA FieldTypeFixed == \A t \in Types : t \in DOMAIN FieldType /\ FieldType[t] = t
BY ZenonT(60) DEF FieldType, Types

(* Field() makes a field or refuses.                                       *)
LEMMA FieldParsed ==
  ASSUME NEW line \in TextLine, Field(line) # BadLine
  PROVE  Field(line) \in FieldLine
<1> DEFINE words == line.words
           a == Attributes(words)
           is == {a[k].value : k \in ValuesOf(a, "is")}
           type == LastOf(a, "type", "")
           alias == LastOf(a, "alias", "")
<1>1. words \in Seq(Words)
  BY DEF TextLine
<1>2. /\ ~(Len(words) < 2) /\ is \subseteq IsAttributes
      /\ Field(line) = [kind |-> "field", name |-> words[2], type |-> FieldType[type],
                        is |-> is, alias |-> alias]
  BY DEF Field
<1>3. words[2] \in Words
  <2>1. ~(Len(words) < 2)
    BY <1>2
  <2> HIDE DEF words
  <2>2. Len(words) \in Nat
    BY <1>1
  <2>3. 2 \in 1..Len(words)
    BY <2>1, <2>2
  <2> QED BY <1>1, <2>3
<1>4. alias \in Words
  <2> HIDE DEF words
  <2> QED BY <1>1, KeywordsAreWords, LastOfType
<1>5. type \in DOMAIN FieldType
  <2>1. \A k \in ValuesOf(a, "type") : a[k].value \in DOMAIN FieldType
    BY DEF TextLine
  <2>2. "" \in DOMAIN FieldType
    BY Zenon DEF FieldType
  <2>3. \/ type = ""
        \/ \E k \in ValuesOf(a, "type") : type = a[k].value
    <3> HIDE DEF words
    <3> QED BY <1>1, KeywordsAreWords, LastOfType
  <2> HIDE DEF a, type
  <2> QED BY <2>1, <2>2, <2>3
<1>6. FieldType[type] \in Types
  <2> HIDE DEF type
  <2> QED BY <1>5, FieldTypeType
<1> HIDE DEF is, type, alias, words
<1> QED BY <1>2, <1>3, <1>4, <1>6 DEF FieldLine

(* Option() makes one of the options there are, or refuses.                *)
LEMMA OptionType ==
  ASSUME NEW line \in TextLine, Option(line) # BadLine
  PROVE  Option(line) \in OptionLine /\ OptionSound(Option(line)) /\ ~line.sub
<1> DEFINE name == line.words[2]
           value == line.words[3]
           option(v) == [kind |-> "option", name |-> name, value |-> v]
<1>1. line.words \in Seq(Words)
  BY DEF TextLine
<1>2. ~(Len(line.words) # 3 \/ line.sub)
  BY Zenon DEF Option
<1>3. name \in Words /\ value \in Words
  BY <1>1, <1>2
<1>4. /\ "accessor_style" # "exception_on_schema_mismatch"
      /\ "accessor_style" \notin Extensions /\ "exception_on_schema_mismatch" \notin Extensions
  BY DEF Extensions
<1>5. CASE name = "accessor_style"
  <2>1. name # "exception_on_schema_mismatch" /\ name \notin Extensions
    BY <1>4, <1>5
  <2>2. value \in AccessorStyles /\ Option(line) = option(value)
    BY <1>2, <1>5, <2>1, Zenon DEF Option
  <2> HIDE DEF name, value
  <2> QED BY <1>2, <1>3, <1>5, <2>2 DEF OptionLine, OptionSound
<1>6. CASE name = "exception_on_schema_mismatch"
  <2>1. name # "accessor_style" /\ name \notin Extensions
    BY <1>4, <1>6
  <2>2. Option(line) = option(ParseBool(value))
    BY <1>2, <1>6, <2>1, Zenon DEF Option
  <2>3. ParseBool(value) \in {"true", "false"} /\ ParseBool(value) \in Words
    BY KeywordsAreWords DEF ParseBool
  <2> HIDE DEF name, value
  <2> QED BY <1>2, <1>3, <1>6, <2>2, <2>3 DEF OptionLine, OptionSound
<1>7. CASE name # "accessor_style" /\ name # "exception_on_schema_mismatch"
  <2>1. name \in Extensions /\ Option(line) = option(value)
    BY <1>2, <1>7, Zenon DEF Option
  <2> HIDE DEF name, value
  <2> QED BY <1>2, <1>3, <2>1 DEF OptionLine, OptionSound
<1> QED BY <1>5, <1>6, <1>7

(* Which parser a directive has.                                           *)
LEMMA ParsedCases ==
  ASSUME NEW line, NEW last
  PROVE  /\ line.words[1] = "table" => Parsed(line, last) = Table(line)
         /\ line.words[1] = "field" => Parsed(line, last) = IF last THEN Field(line) ELSE BadLine
         /\ line.words[1] = "option" => Parsed(line, last) = Option(line)
         /\ line.words[1] \notin {"table", "field", "option"} => Parsed(line, last) = BadLine
<1>1. "table" # "field" /\ "table" # "option" /\ "field" # "option"
  OBVIOUS
<1>2. ASSUME line.words[1] = "table" PROVE Parsed(line, last) = Table(line)
  BY <1>1, <1>2, Zenon DEF Parsed
<1>3. ASSUME line.words[1] = "field"
      PROVE  Parsed(line, last) = IF last THEN Field(line) ELSE BadLine
  BY <1>1, <1>3, Zenon DEF Parsed
<1>4. ASSUME line.words[1] = "option" PROVE Parsed(line, last) = Option(line)
  BY <1>1, <1>4, Zenon DEF Parsed
<1>5. ASSUME line.words[1] \notin {"table", "field", "option"} PROVE Parsed(line, last) = BadLine
  BY <1>1, <1>5, Zenon DEF Parsed
<1> QED BY <1>2, <1>3, <1>4, <1>5

(* A line that is parsed is typed; a field stands behind a table or field. *)
LEMMA ParsedType ==
  ASSUME NEW line \in TextLine, NEW before \in BOOLEAN, NEW last, last = TableAfter(line, before),
         Parsed(line, last) # BadLine
  PROVE  /\ Parsed(line, last) \in Parsable /\ Parsed(line, TRUE) = Parsed(line, last)
         /\ line.words[1] # "include" /\ last \in BOOLEAN
         /\ last => Parsed(line, last).kind \in {"table", "field"}
         /\ Parsed(line, last).kind = "field" => before
<1>0. line.sub \in BOOLEAN /\ last \in BOOLEAN
  BY DEF TextLine, TableAfter
<1>1. CASE line.words[1] = "table"
  <2>1. Parsed(line, last) = Table(line) /\ Parsed(line, TRUE) = Table(line)
    BY <1>1, ParsedCases
  <2>2. Table(line) \in TableLine
    BY <2>1, TableType
  <2> QED BY <1>0, <1>1, <2>1, <2>2 DEF Parsable, TableLine
<1>2. CASE line.words[1] = "field"
  <2>1. /\ Parsed(line, last) = IF last THEN Field(line) ELSE BadLine
        /\ Parsed(line, TRUE) = Field(line)
    BY <1>2, ParsedCases
  <2>2. last /\ Field(line) \in FieldLine
    BY <2>1, FieldParsed
  <2>3. line.sub /\ before
    BY <1>0, <1>2, <2>2 DEF TableAfter
  <2> QED BY <1>0, <1>2, <2>1, <2>2, <2>3 DEF Parsable, FieldLine
<1>3. CASE line.words[1] = "option"
  <2>1. Parsed(line, last) = Option(line) /\ Parsed(line, TRUE) = Option(line)
    BY <1>3, ParsedCases
  <2>2. Option(line) \in OptionLine /\ OptionSound(Option(line)) /\ ~line.sub
    BY <2>1, OptionType
  <2>3. ~last
    BY <1>0, <1>3, <2>2 DEF TableAfter
  <2> QED BY <1>0, <1>3, <2>1, <2>2, <2>3 DEF Parsable, OptionLine
<1>4. CASE line.words[1] \notin {"table", "field", "option"}
  BY <1>4, ParsedCases
<1> QED BY <1>1, <1>2, <1>3, <1>4

(* What is written can be parsed.                                          *)

(* A pair more.                                                            *)
LEMMA PairMore ==
  ASSUME NEW w \in Seq(Words), NEW m \in Nat, Len(w) = 2 * m + 2,
         NEW attr \in Words, NEW value \in Words
  PROVE  LET more == w \o <<attr, value>>
         IN /\ more \in Seq(Words) /\ Len(more) = 2 * (m + 1) + 2
            /\ more[1] = w[1] /\ more[2] = w[2]
            /\ \A k \in 1..m : Attributes(more)[k] = Attributes(w)[k]
            /\ Attributes(more)[m + 1] = [attr |-> attr, value |-> value]
<1> DEFINE pair == <<attr, value>>
           more == w \o pair
<1>1. pair \in Seq(Words) /\ Len(pair) = 2 /\ pair[1] = attr /\ pair[2] = value
  OBVIOUS
<1> HIDE DEF pair
<1>2. /\ more \in Seq(Words) /\ Len(more) = Len(w) + 2
      /\ \A k \in 1..Len(w) + 2 :
           more[k] = IF k <= Len(w) THEN w[k] ELSE pair[k - Len(w)]
  <2>1. /\ more \in Seq(Words) /\ Len(more) = Len(w) + Len(pair)
        /\ \A k \in 1..Len(w) + Len(pair) :
             more[k] = IF k <= Len(w) THEN w[k] ELSE pair[k - Len(w)]
    BY <1>1, ConcatProperties
  <2> HIDE DEF more
  <2> QED BY <1>1, <2>1
<1> HIDE DEF more
<1>3. Len(more) = 2 * (m + 1) + 2
  BY <1>2
<1>4. more[1] = w[1] /\ more[2] = w[2]
  BY <1>2
<1>5. (Len(w) - 2) \div 2 = m /\ (Len(more) - 2) \div 2 = m + 1
  <2>1. Len(w) - 2 = 2 * m /\ Len(more) - 2 = 2 * (m + 1)
    BY <1>3
  <2>2. (2 * m) \div 2 = m /\ (2 * (m + 1)) \div 2 = m + 1
    OBVIOUS
  <2> QED BY <2>1, <2>2
<1>6. ASSUME NEW k \in 1..m PROVE Attributes(more)[k] = Attributes(w)[k]
  <2>1. more[2 * k + 1] = w[2 * k + 1] /\ more[2 * k + 2] = w[2 * k + 2]
    BY <1>2
  <2> QED BY <1>5, <2>1 DEF Attributes
<1>7. Attributes(more)[m + 1] = [attr |-> attr, value |-> value]
  <2>1. more[2 * (m + 1) + 1] = pair[1] /\ more[2 * (m + 1) + 2] = pair[2]
    <3>1. ASSUME NEW i \in 1..2, NEW k, k = Len(w) + i PROVE more[k] = pair[i]
      <4>1. k \in 1..Len(w) + 2 /\ ~(k <= Len(w)) /\ k - Len(w) = i
        BY <3>1
      <4> QED BY <1>2, <4>1
    <3>2. 2 * (m + 1) + 1 = Len(w) + 1 /\ 2 * (m + 1) + 2 = Len(w) + 2
      OBVIOUS
    <3>3. 1 \in 1..2 /\ 2 \in 1..2
      OBVIOUS
    <3> QED BY <3>1, <3>2, <3>3
  <2>2. m + 1 \in 1..m + 1
    OBVIOUS
  <2> QED BY <1>1, <1>5, <2>1, <2>2 DEF Attributes
<1> QED BY <1>2, <1>3, <1>4, <1>6, <1>7 DEF more, pair

(* The words of a field, as far as its attributes `is`.                    *)
FieldWords(w, m, l, is) ==
  /\ m \in Nat \ {0} /\ w \in Seq(Words) /\ Len(w) = 2 * m + 2
  /\ w[1] = "field" /\ w[2] = l.name
  /\ Attributes(w)[1] = [attr |-> "type", value |-> l.type]
  /\ \A k \in 2..m : Attributes(w)[k].attr = "is" /\ Attributes(w)[k].value \in is
  /\ \A x \in is : \E k \in 2..m : Attributes(w)[k].value = x

(* One more `is` behind a field adds that attribute.                       *)
LEMMA FieldWordsMore ==
  ASSUME NEW l, NEW w, NEW m, NEW is, FieldWords(w, m, l, is), NEW attr \in IsAttributes
  PROVE  FieldWords(w \o <<"is", attr>>, m + 1, l, is \cup {attr})
<1> DEFINE more == w \o <<"is", attr>>
<1>1. /\ m \in Nat \ {0} /\ w \in Seq(Words) /\ Len(w) = 2 * m + 2
      /\ "is" \in Words /\ attr \in Words
  BY KeywordsAreWords DEF FieldWords
<1>2. /\ more \in Seq(Words) /\ Len(more) = 2 * (m + 1) + 2
      /\ more[1] = w[1] /\ more[2] = w[2]
      /\ \A k \in 1..m : Attributes(more)[k] = Attributes(w)[k]
      /\ Attributes(more)[m + 1] = [attr |-> "is", value |-> attr]
  BY <1>1, PairMore
<1> HIDE DEF more
<1>3. 1 \in 1..m /\ \A k \in 2..m + 1 : k \in 2..m \/ k = m + 1
  BY <1>1
<1>4. m + 1 \in 2..m + 1 /\ \A k \in 2..m : k \in 2..m + 1 /\ k \in 1..m
  BY <1>1
<1>5. FieldWords(more, m + 1, l, is \cup {attr})
  <2>1. \A k \in 2..m + 1 : Attributes(more)[k].attr = "is" /\ Attributes(more)[k].value \in is \cup {attr}
    <3> SUFFICES ASSUME NEW k \in 2..m + 1
                 PROVE  Attributes(more)[k].attr = "is" /\ Attributes(more)[k].value \in is \cup {attr}
      OBVIOUS
    <3>1. CASE k \in 2..m
      BY <1>2, <1>4, <3>1 DEF FieldWords
    <3>2. CASE k = m + 1
      BY <1>2, <3>2
    <3> QED BY <1>3, <3>1, <3>2
  <2>2. \A x \in is \cup {attr} : \E k \in 2..m + 1 : Attributes(more)[k].value = x
    BY <1>2, <1>4 DEF FieldWords
  <2>3. m + 1 \in Nat \ {0}
    BY <1>1
  <2> QED BY <1>2, <1>3, <2>1, <2>2, <2>3 DEF FieldWords
<1> QED BY <1>5 DEF more

(* The attributes of a field that is written are those it has. *)
LEMMA FieldWritten ==
  ASSUME NEW l \in FieldLine
  PROVE  \E m : FieldWords(<<"field", l.name, "type", l.type>>, m, l, {})
<1> DEFINE w == <<"field", l.name, "type", l.type>>
<1>1. l.name \in Words /\ l.type \in Words /\ "field" \in Words /\ "type" \in Words
  BY KeywordsAreWords DEF FieldLine
<1>2. w \in Seq(Words) /\ Len(w) = 2 * 1 + 2 /\ w[1] = "field" /\ w[2] = l.name
      /\ w[3] = "type" /\ w[4] = l.type
  BY <1>1
<1> HIDE DEF w
<1>3. Attributes(w)[1] = [attr |-> "type", value |-> l.type]
  <2>1. (Len(w) - 2) \div 2 = 1 /\ 1 \in 1..1 /\ 2 * 1 + 1 = 3 /\ 2 * 1 + 2 = 4
    BY <1>2
  <2> QED BY <1>2, <2>1 DEF Attributes
<1>4. FieldWords(w, 1, l, {})
  BY <1>2, <1>3 DEF FieldWords
<1> QED BY <1>4 DEF w

(* The words of a whole field.                                             *)
FieldText(words, m, n, l) ==
  /\ words \in Seq(Words) /\ m \in Nat \ {0} /\ n \in Nat \ {0}
  /\ (l.alias = "" /\ n = m) \/ (l.alias # "" /\ n = m + 1)
  /\ Len(words) = 2 * n + 2 /\ words[1] = "field" /\ words[2] = l.name
  /\ Attributes(words)[1] = [attr |-> "type", value |-> l.type]
  /\ \A k \in 2..m : Attributes(words)[k].attr = "is" /\ Attributes(words)[k].value \in l.is
  /\ \A x \in l.is : \E k \in 2..m : Attributes(words)[k].value = x
  /\ l.alias # "" => Attributes(words)[n] = [attr |-> "alias", value |-> l.alias]

(* An attribute that is given once has that value.                         *)
LEMMA LastOfOne ==
  ASSUME NEW a, NEW attr, NEW default, NEW k \in Nat, ValuesOf(a, attr) = {k}
  PROVE  LastOf(a, attr, default) = a[k].value
<1>1. (CHOOSE i \in {k} : \A j \in {k} : j <= i) = k
  <2>1. k <= k
    OBVIOUS
  <2>2. \E i \in {k} : \A j \in {k} : j <= i
    BY <2>1
  <2>3. (CHOOSE i \in {k} : \A j \in {k} : j <= i) \in {k}
    BY <2>2
  <2> QED BY <2>3
<1>2. {k} # {}
  OBVIOUS
<1> QED BY <1>1, <1>2 DEF LastOf

(* The end of the line of a field: its alias, if it has one.               *)
LEMMA FieldTextParsed ==
  ASSUME NEW l \in FieldLine, NEW words, NEW m, NEW n, FieldText(words, m, n, l)
  PROVE  LET line == [words |-> words, sub |-> TRUE]
         IN line \in TextLine /\ words # <<>> /\ words[1] = "field" /\ Field(line) = l
<1> DEFINE a == Attributes(words)
           line == [words |-> words, sub |-> TRUE]
<1>1. /\ l.type \in Types /\ l.is \subseteq IsAttributes
      /\ l = [kind |-> "field", name |-> l.name, type |-> l.type, is |-> l.is, alias |-> l.alias]
  BY DEF FieldLine
<1>2. /\ words \in Seq(Words) /\ m \in Nat \ {0} /\ n \in Nat \ {0}
      /\ (l.alias = "" /\ n = m) \/ (l.alias # "" /\ n = m + 1)
      /\ Len(words) = 2 * n + 2 /\ words[1] = "field" /\ words[2] = l.name
  BY DEF FieldText
<1>3. /\ a[1].attr = "type" /\ a[1].value = l.type
      /\ \A k \in 2..m : a[k].attr = "is"
      /\ \A k \in 2..m : a[k].value \in l.is
      /\ \A x \in l.is : \E k \in 2..m : a[k].value = x
      /\ l.alias # "" => a[n].attr = "alias" /\ a[n].value = l.alias
  <2>1. a[1] = [attr |-> "type", value |-> l.type]
    BY Zenon DEF FieldText
  <2>2. l.alias # "" => a[n] = [attr |-> "alias", value |-> l.alias]
    BY Zenon DEF FieldText
  <2>3. /\ \A k \in 2..m : a[k].attr = "is"
        /\ \A k \in 2..m : a[k].value \in l.is
    BY Zenon DEF FieldText
  <2>4. \A x \in l.is : \E k \in 2..m : a[k].value = x
    BY Zenon DEF FieldText
  <2> HIDE DEF a
  <2>5. a[1].attr = "type" /\ a[1].value = l.type
    BY <2>1
  <2>6. ASSUME l.alias # "" PROVE a[n].attr = "alias" /\ a[n].value = l.alias
    <3>1. a[n] = [attr |-> "alias", value |-> l.alias]
      BY <2>2, <2>6
    <3> QED BY <3>1
  <2> QED BY <2>3, <2>4, <2>5, <2>6, Zenon
<1>4. DOMAIN a = 1..n
  <2>1. (Len(words) - 2) \div 2 = n
    <3>1. n \in Nat /\ Len(words) = 2 * n + 2
      BY <1>2
    <3>2. Len(words) - 2 = 2 * n /\ (2 * n) \div 2 = n
      BY <3>1
    <3> QED BY <3>2
  <2> QED BY <1>2, <2>1, AttributeType
<1>5. /\ 1 \in 1..n /\ n \in 1..n /\ 1 \notin 2..m
      /\ \A k \in 1..n : k = 1 \/ k \in 2..m \/ (l.alias # "" /\ k = n)
      /\ \A k \in 2..m : k \in 1..n
  <2>1. m \in Nat \ {0} /\ n \in Nat \ {0} /\ (n = m \/ n = m + 1)
    BY <1>2
  <2>2. 1 \in 1..n /\ n \in 1..n /\ 1 \notin 2..m
    BY <2>1
  <2>3. \A k \in 2..m : k \in 1..n
    BY <2>1
  <2>4. ASSUME NEW k \in 1..n PROVE k = 1 \/ k \in 2..m \/ (n # m /\ k = n)
    <3>1. k \in Int /\ 1 <= k /\ k <= n
      BY <2>1
    <3>2. k = 1 \/ 2 <= k
      BY <3>1
    <3>3. m \in Int /\ 1 <= m /\ n \in Int
      BY <2>1
    <3>4. CASE n = m
      BY <3>1, <3>2, <3>3, <3>4
    <3>5. CASE n = m + 1
      BY <3>1, <3>2, <3>3, <3>5
    <3> QED BY <2>1, <3>4, <3>5
  <2>5. n # m => l.alias # ""
    BY <1>2
  <2> QED BY <2>2, <2>3, <2>4, <2>5, Zenon
<1> HIDE DEF a
<1>6. /\ "type" # "is" /\ "type" # "alias" /\ "is" # "alias"
  OBVIOUS
<1>7. ValuesOf(a, "type") = {1}
  <2>1. \A k \in 1..n : a[k].attr = "type" => k = 1
    BY <1>3, <1>5, <1>6, Zenon
  <2>2. a[1].attr = "type" /\ 1 \in 1..n
    BY <1>3, <1>5
  <2> QED BY <1>4, <2>1, <2>2 DEF ValuesOf
<1>8. ValuesOf(a, "is") = 2..m
  <2>1. \A k \in 1..n : a[k].attr = "is" => k \in 2..m
    BY <1>3, <1>5, <1>6, Zenon
  <2> QED BY <1>3, <1>4, <1>5, <2>1, Zenon DEF ValuesOf
<1>9. ValuesOf(a, "alias") = IF l.alias = "" THEN {} ELSE {n}
  <2>1. \A k \in 1..n : a[k].attr = "alias" => l.alias # "" /\ k = n
    BY <1>3, <1>5, <1>6, Zenon
  <2>2. n \in 1..n /\ (l.alias # "" => a[n].attr = "alias")
    BY <1>3, <1>5
  <2>3. CASE l.alias = ""
    BY <1>4, <2>1, <2>3 DEF ValuesOf
  <2>4. CASE l.alias # ""
    BY <1>4, <2>1, <2>2, <2>4 DEF ValuesOf
  <2> QED BY <2>3, <2>4
<1>10. LastOf(a, "type", "") = l.type
  <2>1. LastOf(a, "type", "") = a[1].value
    BY <1>7, LastOfOne
  <2> QED BY <1>3, <2>1
<1>11. LastOf(a, "alias", "") = l.alias
  <2>1. CASE l.alias = ""
    BY <1>9, <2>1 DEF LastOf
  <2>2. CASE l.alias # ""
    <3>1. n \in Nat /\ ValuesOf(a, "alias") = {n}
      BY <1>2, <1>9, <2>2
    <3>2. LastOf(a, "alias", "") = a[n].value
      BY <3>1, LastOfOne
    <3> QED BY <1>3, <2>2, <3>2
  <2> QED BY <2>1, <2>2
<1>12. {a[k].value : k \in ValuesOf(a, "is")} = l.is
  <2>1. \A x \in l.is : \E k \in 2..m : a[k].value = x
    BY <1>3
  <2>2. \A k \in 2..m : a[k].value \in l.is
    BY <1>3
  <2> QED BY <1>8, <2>1, <2>2
<1>13. \A k \in 1..n : a[k].attr \in {"alias", "is", "type"}
  BY <1>3, <1>5, Zenon
<1>14. l.type \in DOMAIN FieldType /\ FieldType[l.type] = l.type
  BY <1>1, FieldTypeFixed
<1>15. line.words = words /\ line.sub = TRUE
  OBVIOUS
<1>16. line \in TextLine
  <2>1. \A k \in ValuesOf(a, "type") : a[k].value \in DOMAIN FieldType
    BY <1>3, <1>7, <1>14
  <2>2. words[1] # "include"
    BY <1>2
  <2>3. line \in [words : Seq(Words), sub : BOOLEAN]
    BY <1>2
  <2> HIDE DEF line
  <2> QED BY <1>15, <2>1, <2>2, <2>3 DEF TextLine, a
<1>17. Field(line) = l
  <2> DEFINE is == {a[k].value : k \in ValuesOf(a, "is")}
  <2>1. /\ is \subseteq IsAttributes /\ ~(Len(words) < 2)
        /\ ~(\E k \in DOMAIN a : a[k].attr \notin {"alias", "is", "type"})
    <3>1. is \subseteq IsAttributes
      BY <1>1, <1>12
    <3>2. ~(Len(words) < 2)
      <4>1. n \in Nat /\ Len(words) = 2 * n + 2
        BY <1>2
      <4> QED BY <4>1
    <3> QED BY <1>4, <1>13, <3>1, <3>2
  <2> HIDE DEF line
  <2>2. Field(line) = [kind |-> "field", name |-> words[2],
                       type |-> FieldType[LastOf(a, "type", "")], is |-> is,
                       alias |-> LastOf(a, "alias", "")]
    BY <1>15, <2>1, Zenon DEF Field, a
  <2> QED BY <1>1, <1>2, <1>10, <1>11, <1>12, <1>14, <2>2
<1>18. words # <<>>
  <2>1. n \in Nat /\ Len(words) = 2 * n + 2 /\ Len(<<>>) = 0
    BY <1>2
  <2> QED BY <2>1
<1> QED BY <1>2, <1>16, <1>17, <1>18

(* The whole line of a field, its attributes in the order of writing.      *)
LEMMA FieldWordsParsed ==
  ASSUME NEW l \in FieldLine, NEW w, NEW m, FieldWords(w, m, l, l.is)
  PROVE  LET more == w \o (IF l.alias = "" THEN <<>> ELSE <<"alias", l.alias>>)
             line == [words |-> more, sub |-> TRUE]
         IN line \in TextLine /\ more # <<>> /\ more[1] = "field" /\ Field(line) = l
<1> DEFINE alias == l.alias
<1>1. /\ m \in Nat \ {0} /\ w \in Seq(Words) /\ Len(w) = 2 * m + 2 /\ w[1] = "field" /\ w[2] = l.name
  BY DEF FieldWords
<1>2. alias \in Words /\ "alias" \in Words
  BY KeywordsAreWords DEF FieldLine
<1>3. CASE alias = ""
  <2>1. w \o <<>> = w
    BY <1>1, ConcatEmptySeq
  <2>2. FieldText(w, m, m, l)
    <3>1. l.alias = "" /\ m = m
      BY <1>3
    <3>2. /\ \A k \in 2..m : Attributes(w)[k].attr = "is" /\ Attributes(w)[k].value \in l.is
          /\ \A x \in l.is : \E k \in 2..m : Attributes(w)[k].value = x
          /\ Attributes(w)[1] = [attr |-> "type", value |-> l.type]
      BY Zenon DEF FieldWords
    <3>3. ~(l.alias # "")
      BY <3>1
    <3>4. (l.alias = "" /\ m = m) \/ (l.alias # "" /\ m = m + 1)
      BY <3>1, Zenon
    <3> QED BY <1>1, <3>2, <3>3, <3>4 DEF FieldText
  <2> QED BY <1>1, <1>3, <2>1, <2>2, FieldTextParsed
<1>4. CASE alias # ""
  <2> DEFINE more == w \o <<"alias", alias>>
  <2>1. m + 1 \in Nat \ {0} /\ m \in Nat /\ 1 \in 1..m /\ \A k \in 2..m : k \in 1..m
    BY <1>1
  <2> HIDE DEF alias
  <2>2. /\ more \in Seq(Words) /\ Len(more) = 2 * (m + 1) + 2
        /\ more[1] = w[1] /\ more[2] = w[2]
        /\ \A k \in 1..m : Attributes(more)[k] = Attributes(w)[k]
        /\ Attributes(more)[m + 1] = [attr |-> "alias", value |-> alias]
    BY <1>1, <1>2, <2>1, PairMore
  <2> HIDE DEF more
  <2>3. Attributes(more)[1] = [attr |-> "type", value |-> l.type]
    BY <2>1, <2>2 DEF FieldWords
  <2>4. \A k \in 2..m : Attributes(more)[k].attr = "is" /\ Attributes(more)[k].value \in l.is
    BY <2>1, <2>2 DEF FieldWords
  <2>5. \A x \in l.is : \E k \in 2..m : Attributes(more)[k].value = x
    <3>1. \A x \in l.is : \E k \in 2..m : Attributes(w)[k].value = x
      BY Zenon DEF FieldWords
    <3> QED BY <2>1, <2>2, <3>1
  <2>6. FieldText(more, m, m + 1, l)
    BY <1>1, <1>4, <2>1, <2>2, <2>3, <2>4, <2>5 DEF FieldText, alias
  <2>7. [words |-> more, sub |-> TRUE] \in TextLine /\ more # <<>> /\ more[1] = "field"
        /\ Field([words |-> more, sub |-> TRUE]) = l
    BY <2>6, FieldTextParsed
  <2> QED BY <1>4, <2>7 DEF more, alias
<1> QED BY <1>3, <1>4

-----------------------------------------------------------------------------
(* What is written parses to what it was written from                      *)

(* What print() writes of a field is such a line.                          *)
LEMMA FieldWordsIs ==
  ASSUME NEW l, NEW w, NEW m, NEW is, FieldWords(w, m, l, is), NEW attr \in IsAttributes
  PROVE  \E n : FieldWords(w \o (IF attr \in l.is THEN <<"is", attr>> ELSE <<>>), n, l,
                           is \cup ({attr} \cap l.is))
<1>1. CASE attr \in l.is
  <2>1. {attr} \cap l.is = {attr}
    BY <1>1
  <2>2. FieldWords(w \o <<"is", attr>>, m + 1, l, is \cup {attr})
    BY FieldWordsMore
  <2> QED BY <1>1, <2>1, <2>2
<1>2. CASE attr \notin l.is
  <2>1. is \cup ({attr} \cap l.is) = is
    BY <1>2
  <2>2. w \o <<>> = w
    BY ConcatEmptySeq DEF FieldWords
  <2> QED BY <1>2, <2>1, <2>2
<1> QED BY <1>1, <1>2

(* A field that is written is parsed as the field it was.                  *)
LEMMA WrittenFieldParsed ==
  ASSUME NEW l \in FieldLine
  PROVE  /\ WrittenLine(l) \in TextLine /\ WrittenLine(l).words # <<>>
         /\ WrittenLine(l).words[1] = "field"
         /\ WrittenLine(l).sub = TRUE /\ Field(WrittenLine(l)) = l
<1> DEFINE Is(attr) == IF attr \in l.is THEN <<"is", attr>> ELSE <<>>
           w0 == <<"field", l.name, "type", l.type>>
           w1 == w0 \o Is("autoinc")
           w2 == w1 \o Is("key")
           w3 == w2 \o Is("null")
           w4 == w3 \o Is("unsigned")
           more == w4 \o (IF l.alias = "" THEN <<>> ELSE <<"alias", l.alias>>)
<1>1. l.kind = "field" /\ l.is \subseteq IsAttributes
  BY DEF FieldLine
<1>2. /\ "autoinc" \in IsAttributes /\ "key" \in IsAttributes /\ "null" \in IsAttributes
      /\ "unsigned" \in IsAttributes
      /\ ((({} \cup ({"autoinc"} \cap l.is)) \cup ({"key"} \cap l.is)) \cup ({"null"} \cap l.is))
           \cup ({"unsigned"} \cap l.is) = l.is
  BY <1>1 DEF IsAttributes
<1>3. PICK m0 : FieldWords(w0, m0, l, {})
  BY FieldWritten
<1> HIDE DEF w0
<1>4. PICK m1 : FieldWords(w1, m1, l, {} \cup ({"autoinc"} \cap l.is))
  BY <1>2, <1>3, FieldWordsIs
<1> HIDE DEF w1
<1>5. PICK m2 : FieldWords(w2, m2, l, ({} \cup ({"autoinc"} \cap l.is)) \cup ({"key"} \cap l.is))
  BY <1>2, <1>4, FieldWordsIs
<1> HIDE DEF w2
<1>6. PICK m3 : FieldWords(w3, m3, l, (({} \cup ({"autoinc"} \cap l.is)) \cup ({"key"} \cap l.is))
                                       \cup ({"null"} \cap l.is))
  BY <1>2, <1>5, FieldWordsIs
<1> HIDE DEF w3
<1>7. PICK m4 : FieldWords(w4, m4, l, ((({} \cup ({"autoinc"} \cap l.is)) \cup ({"key"} \cap l.is))
                                       \cup ({"null"} \cap l.is)) \cup ({"unsigned"} \cap l.is))
  BY <1>2, <1>6, FieldWordsIs
<1> HIDE DEF w4
<1>8. FieldWords(w4, m4, l, l.is)
  BY <1>2, <1>7
<1>9. [words |-> more, sub |-> TRUE] \in TextLine /\ more # <<>> /\ more[1] = "field"
      /\ Field([words |-> more, sub |-> TRUE]) = l
  BY <1>8, FieldWordsParsed
<1> HIDE DEF more
<1>10. WrittenField(l) = more
  BY DEF WrittenField, more, w4, w3, w2, w1, w0
<1>11. Written(l) = WrittenField(l)
  BY <1>1, Zenon DEF Written
<1>12. WrittenLine(l) = [words |-> more, sub |-> TRUE]
  BY <1>1, <1>10, <1>11 DEF WrittenLine
<1> QED BY <1>9, <1>12

(* A table that is written is parsed as the table it was.                  *)
LEMMA WrittenTableParsed ==
  ASSUME NEW l \in TableLine
  PROVE  /\ WrittenLine(l) \in TextLine /\ WrittenLine(l).words # <<>>
         /\ WrittenLine(l).words[1] = "table"
         /\ WrittenLine(l).sub = FALSE /\ Table(WrittenLine(l)) = l
<1> DEFINE words == <<"table", l.name, "alias", l.alias, "filebase", l.filebase>>
           a == Attributes(words)
           line == [words |-> words, sub |-> FALSE]
<1>1. /\ l.kind = "table" /\ l.name \in Words /\ l.alias \in Words /\ l.filebase \in Words
      /\ l = [kind |-> "table", name |-> l.name, alias |-> l.alias, filebase |-> l.filebase]
  BY DEF TableLine
<1>2. WrittenLine(l) = line
  <2>1. Written(l) = WrittenTable(l)
    BY <1>1, Zenon DEF Written
  <2>2. (l.kind = "field") = FALSE
    BY <1>1
  <2> QED BY <2>1, <2>2 DEF WrittenLine, WrittenTable
<1>3. /\ words \in Seq(Words) /\ Len(words) = 6 /\ words # <<>>
      /\ words[1] = "table" /\ words[2] = l.name /\ words[3] = "alias" /\ words[4] = l.alias
      /\ words[5] = "filebase" /\ words[6] = l.filebase
  <2>1. "table" \in Words /\ "alias" \in Words /\ "filebase" \in Words
    BY KeywordsAreWords
  <2>2. words \in Seq(Words)
    BY <1>1, <2>1
  <2> QED BY <2>2
<1> HIDE DEF words
<1>4. /\ DOMAIN a = 1..2
      /\ a[1].attr = "alias" /\ a[1].value = l.alias
      /\ a[2].attr = "filebase" /\ a[2].value = l.filebase
  <2>1. /\ DOMAIN a = 1..(Len(words) - 2) \div 2
        /\ \A k \in DOMAIN a : a[k].attr = words[2 * k + 1] /\ a[k].value = words[2 * k + 2]
    BY <1>3, AttributeType
  <2>2. (Len(words) - 2) \div 2 = 2
    BY <1>3
  <2>3. 2 * 1 + 1 = 3 /\ 2 * 1 + 2 = 4 /\ 2 * 2 + 1 = 5 /\ 2 * 2 + 2 = 6 /\ 1 \in 1..2 /\ 2 \in 1..2
    OBVIOUS
  <2> HIDE DEF a
  <2> QED BY <1>3, <2>1, <2>2, <2>3
<1> HIDE DEF a
<1>5. \A k \in 1..2 : k = 1 \/ k = 2
  OBVIOUS
<1>6. ValuesOf(a, "alias") = {1} /\ ValuesOf(a, "filebase") = {2} /\ ValuesOf(a, "type") = {}
  <2>1. "alias" # "filebase" /\ "type" # "alias" /\ "type" # "filebase" /\ 1 \in 1..2 /\ 2 \in 1..2
    OBVIOUS
  <2>2. ValuesOf(a, "alias") = {1}
    BY <1>4, <1>5, <2>1 DEF ValuesOf
  <2>3. ValuesOf(a, "filebase") = {2}
    BY <1>4, <1>5, <2>1 DEF ValuesOf
  <2>4. ValuesOf(a, "type") = {}
    BY <1>4, <1>5, <2>1 DEF ValuesOf
  <2> QED BY <2>2, <2>3, <2>4
<1>7. ASSUME NEW default
      PROVE  LastOf(a, "alias", default) = l.alias /\ LastOf(a, "filebase", default) = l.filebase
  <2>1. LastOf(a, "alias", default) = a[1].value
    BY <1>6, LastOfOne
  <2>2. LastOf(a, "filebase", default) = a[2].value
    BY <1>6, LastOfOne
  <2> QED BY <1>4, <2>1, <2>2
<1>8. line.words = words /\ line.sub = FALSE /\ line \in [words : Seq(Words), sub : BOOLEAN]
  BY <1>3
<1> HIDE DEF line
<1>9. line \in TextLine
  <2>1. line.words[1] # "include" /\ \A k \in ValuesOf(a, "type") : a[k].value \in DOMAIN FieldType
    BY <1>3, <1>6, <1>8
  <2> QED BY <1>8, <2>1 DEF TextLine, a
<1>10. Table(line) = l
  <2>1. ~(Len(words) < 2) /\ ~(\E k \in DOMAIN a : a[k].attr \notin {"alias", "filebase"})
    BY <1>3, <1>4, <1>5
  <2>2. Table(line) = [kind |-> "table", name |-> words[2], alias |-> LastOf(a, "alias", words[2]),
                       filebase |-> LastOf(a, "filebase", words[2])]
    BY <1>8, <2>1, Zenon DEF Table, a
  <2> QED BY <1>1, <1>3, <1>7, <2>2
<1> QED BY <1>2, <1>3, <1>8, <1>9, <1>10

(* An option that is written is parsed as the option it was.               *)
LEMMA WrittenOptionParsed ==
  ASSUME NEW l \in OptionLine, OptionSound(l)
  PROVE  /\ WrittenLine(l) \in TextLine /\ WrittenLine(l).words # <<>>
         /\ WrittenLine(l).words[1] = "option"
         /\ WrittenLine(l).sub = FALSE /\ Option(WrittenLine(l)) = l
<1> DEFINE words == <<"option", l.name, l.value>>
           line == [words |-> words, sub |-> FALSE]
<1>1. /\ l.kind = "option" /\ l.name \in Words /\ l.value \in Words
      /\ l = [kind |-> "option", name |-> l.name, value |-> l.value]
  BY DEF OptionLine
<1>2. WrittenLine(l) = line
  <2>1. Written(l) = WrittenOption(l)
    BY <1>1, Zenon DEF Written
  <2>2. (l.kind = "field") = FALSE
    BY <1>1
  <2> QED BY <2>1, <2>2 DEF WrittenLine, WrittenOption
<1>3. /\ words \in Seq(Words) /\ Len(words) = 3 /\ words # <<>>
      /\ words[1] = "option" /\ words[2] = l.name /\ words[3] = l.value
  <2>1. "option" \in Words
    BY KeywordsAreWords
  <2>2. words \in Seq(Words)
    BY <1>1, <2>1
  <2> QED BY <2>2
<1> HIDE DEF words
<1>4. line.words = words /\ line.sub = FALSE /\ line \in [words : Seq(Words), sub : BOOLEAN]
  BY <1>3
<1> HIDE DEF line
<1>5. line \in TextLine
  <2>1. DOMAIN Attributes(words) = {}
    <3>1. DOMAIN Attributes(words) = 1..(Len(words) - 2) \div 2
      BY <1>3, AttributeType
    <3>2. (Len(words) - 2) \div 2 = 0
      BY <1>3
    <3> QED BY <3>1, <3>2
  <2>2. line.words[1] # "include"
    BY <1>3, <1>4
  <2> QED BY <1>4, <2>1, <2>2 DEF TextLine, ValuesOf
<1>6. ~(Len(line.words) # 3 \/ line.sub)
  BY <1>3, <1>4
<1>7. line.words[2] = l.name /\ line.words[3] = l.value
  BY <1>3, <1>4
<1>8. /\ "accessor_style" # "exception_on_schema_mismatch"
      /\ "accessor_style" \notin Extensions /\ "exception_on_schema_mismatch" \notin Extensions
  BY DEF Extensions
<1> DEFINE w2 == line.words[2]
           w3 == line.words[3]
           option(v) == [kind |-> "option", name |-> w2, value |-> v]
<1>9. ASSUME l.name = "accessor_style" /\ l.value \in AccessorStyles PROVE Option(line) = l
  <2>1. /\ w2 = "accessor_style" /\ w3 \in AccessorStyles
        /\ w2 # "exception_on_schema_mismatch" /\ w2 \notin Extensions
    BY <1>7, <1>8, <1>9
  <2>2. Option(line) = option(w3)
    BY <1>6, <2>1, Zenon DEF Option
  <2> HIDE DEF w2, w3
  <2> QED BY <1>1, <2>2, <1>7 DEF w2, w3
<1>10. ASSUME l.name = "exception_on_schema_mismatch" /\ l.value \in {"true", "false"}
       PROVE  Option(line) = l
  <2>1. /\ w2 = "exception_on_schema_mismatch" /\ w2 # "accessor_style" /\ w2 \notin Extensions
    BY <1>7, <1>8, <1>10
  <2>2. ParseBool(w3) = l.value
    BY <1>7, <1>10 DEF ParseBool
  <2>3. Option(line) = option(ParseBool(w3))
    BY <1>6, <2>1, Zenon DEF Option
  <2> QED BY <1>1, <1>7, <2>2, <2>3
<1>11. ASSUME l.name \in Extensions PROVE Option(line) = l
  <2>1. w2 \in Extensions /\ w2 # "exception_on_schema_mismatch" /\ w2 # "accessor_style"
    BY <1>7, <1>8, <1>11
  <2>2. Option(line) = option(w3)
    BY <1>6, <2>1, Zenon DEF Option
  <2> HIDE DEF w2, w3
  <2> QED BY <1>1, <2>2, <1>7 DEF w2, w3
<1>12. Option(line) = l
  BY <1>9, <1>10, <1>11, Zenon DEF OptionSound
<1> QED BY <1>2, <1>3, <1>4, <1>5, <1>12

(* What is written of a line can be parsed, and says the same. *)
LEMMA WrittenParsed ==
  ASSUME NEW l \in Parsable
  PROVE  /\ WrittenLine(l) \in TextLine /\ WrittenLine(l).words # <<>>
         /\ WrittenLine(l).words[1] # "include" /\ l # BadLine
         /\ l.kind \in {"table", "field", "option"}
         /\ \A last : (l.kind = "field" => last) => Parsed(WrittenLine(l), last) = l
         /\ \A last \in BOOLEAN :
              TableAfter(WrittenLine(l), last) = IF l.kind = "field" THEN last ELSE l.kind = "table"
<1> DEFINE line == WrittenLine(l)
<1>1. CASE l \in TableLine
  <2>1. l.kind = "table" /\ l # BadLine
    BY <1>1 DEF TableLine, BadLine
  <2>2. line \in TextLine /\ line.words # <<>> /\ line.words[1] = "table" /\ line.sub = FALSE /\ Table(line) = l
    BY <1>1, WrittenTableParsed
  <2> HIDE DEF line
  <2> QED BY <2>1, <2>2, ParsedCases DEF TableAfter, line
<1>2. CASE l \in FieldLine
  <2>1. l.kind = "field" /\ l # BadLine
    BY <1>2 DEF FieldLine, BadLine
  <2>2. line \in TextLine /\ line.words # <<>> /\ line.words[1] = "field" /\ line.sub = TRUE /\ Field(line) = l
    BY <1>2, WrittenFieldParsed
  <2> HIDE DEF line
  <2> QED BY <2>1, <2>2, ParsedCases DEF TableAfter, line
<1>3. CASE l \in OptionLine /\ OptionSound(l)
  <2>1. l.kind = "option" /\ l # BadLine
    BY <1>3 DEF OptionLine, BadLine
  <2>2. line \in TextLine /\ line.words # <<>> /\ line.words[1] = "option" /\ line.sub = FALSE /\ Option(line) = l
    BY <1>3, WrittenOptionParsed
  <2> HIDE DEF line
  <2> QED BY <2>1, <2>2, ParsedCases DEF TableAfter, line
<1> QED BY <1>1, <1>2, <1>3 DEF Parsable

-----------------------------------------------------------------------------
(* Files, the search path and the command line                             *)

(* A file that is opened is one that there is.                             *)
LEMMA OpenedType ==
  ASSUME NEW files, NEW name \in Seq(Words), NEW dirs \in Seq(Seq(Words))
  PROVE  Opened(files, name, dirs) = NoFile \/ Opened(files, name, dirs) \in DOMAIN files
<1> DEFINE names == Candidates(name, dirs)
           ks == {k \in 1..Len(names) : names[k] \in DOMAIN files}
           k == CHOOSE k \in ks : \A j \in ks : k <= j
<1>1. CASE ks = {}
  BY <1>1 DEF Opened
<1>2. CASE ks # {}
  <2>1. names \in Seq(Seq(Words))
    <3> DEFINE rest == [i \in 1..Len(dirs) |-> dirs[i] \o name]
    <3>1. Len(dirs) \in Nat /\ \A i \in 1..Len(dirs) : dirs[i] \o name \in Seq(Words)
      OBVIOUS
    <3>2. rest \in Seq(Seq(Words)) /\ <<name>> \in Seq(Seq(Words))
      BY <3>1, IsASeq
    <3> HIDE DEF rest
    <3>3. <<name>> \o rest \in Seq(Seq(Words))
      BY <3>2
    <3> QED BY <3>3 DEF Candidates, rest
  <2>2. ks \in SUBSET Nat
    <3>1. Len(names) \in Nat
      BY <2>1
    <3> HIDE DEF names
    <3> QED BY <3>1
  <2>3. \E i \in ks : \A j \in ks : i <= j
    <3> HIDE DEF ks
    <3> QED BY <1>2, <2>2, LeastNumber
  <2>4. k \in ks
    <3> HIDE DEF ks
    <3> QED BY <2>3
  <2>5. Opened(files, name, dirs) = names[k]
    BY <1>2 DEF Opened
  <2> QED BY <2>4, <2>5
<1> QED BY <1>1, <1>2

(* Before anything is opened there is no search path. *)
LEMMA OpenedPlain ==
  ASSUME NEW files, NEW name \in Seq(Words)
  PROVE  Opened(files, name, <<>>) = IF name \in DOMAIN files THEN name ELSE NoFile
<1> DEFINE names == Candidates(name, <<>>)
           ks == {k \in 1..Len(names) : names[k] \in DOMAIN files}
<1>1. names = <<name>>
  <2>1. [i \in 1..Len(<<>>) |-> <<>>[i] \o name] = <<>>
    OBVIOUS
  <2>2. <<name>> \o <<>> = <<name>>
    OBVIOUS
  <2> QED BY <2>1, <2>2 DEF Candidates
<1> HIDE DEF names
<1>2. Len(names) = 1 /\ names[1] = name /\ 1..1 = {1}
  BY <1>1
<1>3. CASE name \in DOMAIN files
  <2>1. ks = {1}
    BY <1>2, <1>3
  <2>2. (CHOOSE k \in {1} : \A j \in {1} : k <= j) = 1
    OBVIOUS
  <2>3. {1} # {}
    OBVIOUS
  <2>4. Opened(files, name, <<>>) = IF ks = {} THEN NoFile
                                    ELSE names[CHOOSE k \in ks : \A j \in ks : k <= j]
    BY DEF Opened, names
  <2> HIDE DEF ks
  <2> QED BY <1>2, <1>3, <2>1, <2>2, <2>3, <2>4
<1>4. CASE name \notin DOMAIN files
  <2>1. ks = {}
    BY <1>2, <1>4
  <2> QED BY <1>4, <2>1 DEF Opened, names
<1> QED BY <1>3, <1>4

(* The search path is one of directories.                                  *)
LEMMA PathType ==
  ASSUME NEW name \in FileNames, NEW dirs \in Seq(Seq(Words))
  PROVE  PathWith(name, dirs) \in Seq(Seq(Words))
<1>1. name \in Seq(Words) /\ name # <<>>
  BY DEF FileNames
<1>2. Front(name) \in Seq(Words)
  <2>1. Len(name) \in Nat /\ Len(name) # 0
    BY <1>1
  <2>2. \A i \in 1..Len(name) : name[i] \in Words
    BY <1>1
  <2>3. Front(name) = SubSeq(name, 1, Len(name) - 1)
    BY DEF Front
  <2>4. PICK n : n = Len(name) - 1
    OBVIOUS
  <2>5. n \in Nat /\ n \in 1 - 1..Len(name) /\ 1 \in 1..Len(name)
    BY <2>1, <2>4
  <2> QED BY <1>1, <2>3, <2>4, <2>5, SubSeqProperties
<1> HIDE DEF FileNames
<1>3. Append(dirs, Front(name)) \in Seq(Seq(Words))
  BY <1>2, AppendProperties
<1> QED BY <1>3 DEF PathWith

(* The last option of a kind is one of the options.                        *)
LEMMA LastOptionType ==
  ASSUME NEW options \in Commands, NEW opts, opts \subseteq {"1", "i", "t", "o"}
  PROVE  LET o == LastOption(options, opts)
         IN \/ o = NoOption
            \/ o.opt \in opts /\ o.arg \in FileNames
<1> DEFINE ks == {k \in 1..Len(options) : options[k].opt \in opts}
           k == CHOOSE k \in ks : \A j \in ks : j <= k
<1>1. /\ options \in Seq([opt : Words, arg : Seq(Words)])
      /\ \A i \in 1..Len(options) : options[i].opt \in {"1", "i", "t", "o"} => options[i].arg # <<>>
  BY FilesAssumption
<1>2. CASE ks = {}
  BY <1>2 DEF LastOption
<1>3. CASE ks # {}
  <2>1. Len(options) \in Nat /\ ks \in SUBSET (1..Len(options))
    BY <1>1
  <2>2. \E i \in ks : \A j \in ks : j <= i
    <3>1. PICK n : n = Len(options)
      OBVIOUS
    <3> HIDE DEF ks
    <3> QED BY <1>3, <2>1, <3>1, LastPosition
  <2>3. k \in ks
    <3> HIDE DEF ks
    <3> QED BY <2>2
  <2>4. LastOption(options, opts) = options[k]
    BY <1>3 DEF LastOption
  <2>5. k \in 1..Len(options) /\ options[k].opt \in opts
    BY <2>3
  <2> HIDE DEF k
  <2>6. options[k] \in [opt : Words, arg : Seq(Words)]
    BY <1>1, <2>5, ElementOfSeq
  <2>7. options[k].arg \in Seq(Words) /\ options[k].arg # <<>>
    BY <1>1, <2>5, <2>6
  <2> QED BY <2>4, <2>5, <2>7 DEF FileNames
<1> QED BY <1>2, <1>3

CommandType ==
  [ok : BOOLEAN, input : Seq(Words), source : {"ssqls1", "ssqls2", "table", "unknown"},
   output : Seq(Words), sink : {"ssqls2", "unknown"}]
(* A definition and an output have names. *)
CommandInv(c) ==
  /\ c \in CommandType
  /\ c.source = "ssqls2" => c.input \in FileNames
  /\ c.sink = "ssqls2" => c.output \in FileNames

(* What the command line says.                                             *)
LEMMA CommandLineType ==
  ASSUME NEW options \in Commands
  PROVE  CommandInv(CommandLine(options))
<1> DEFINE from == LastOption(options, {"1", "i", "t"})
           to == LastOption(options, {"o"})
           c == CommandLine(options)
<1>1. from = NoOption \/ (from.opt \in {"1", "i", "t"} /\ from.arg \in FileNames)
  BY LastOptionType
<1>2. to = NoOption \/ (to.opt \in {"o"} /\ to.arg \in FileNames)
  BY LastOptionType
<1>3. NoOption.opt = "" /\ NoOption.arg = <<>> /\ NoOption.arg \in Seq(Words)
  BY DEF NoOption
<1>4. from.arg \in Seq(Words) /\ to.arg \in Seq(Words)
  BY <1>1, <1>2, <1>3 DEF FileNames
<1>5. /\ \A opt \in {"", "1", "i", "t"} : Sources[opt] \in {"ssqls1", "ssqls2", "table", "unknown"}
      /\ Sources[""] # "ssqls2"
  <2>1. Sources[""] = "unknown"
    BY Zenon DEF Sources
  <2>2. Sources["1"] = "ssqls1"
    BY Zenon DEF Sources
  <2>3. Sources["i"] = "ssqls2"
    BY Zenon DEF Sources
  <2>4. Sources["t"] = "table"
    BY Zenon DEF Sources
  <2> HIDE DEF Sources
  <2> QED BY <2>1, <2>2, <2>3, <2>4
<1>6. /\ from.opt \in {"", "1", "i", "t"}
      /\ Sources[from.opt] = "ssqls2" => from.arg \in FileNames
      /\ to.opt = "o" => to.arg \in FileNames
  BY <1>1, <1>2, <1>3, <1>5
<1>7. PICK source : source = Sources[from.opt]
  OBVIOUS
<1>8. PICK sink : sink = IF to.opt = "o" THEN "ssqls2" ELSE "unknown"
  OBVIOUS
<1>9. PICK ok \in BOOLEAN : c = [ok |-> ok, input |-> from.arg, source |-> source,
                                 output |-> to.arg, sink |-> sink]
  BY <1>7, <1>8 DEF CommandLine
<1> HIDE DEF from, to, c
<1>10. source \in {"ssqls1", "ssqls2", "table", "unknown"} /\ sink \in {"ssqls2", "unknown"}
  BY <1>5, <1>6, <1>7, <1>8
<1>11. c \in CommandType
  BY <1>4, <1>9, <1>10 DEF CommandType
<1>12. /\ c.source = source /\ c.input = from.arg /\ c.sink = sink /\ c.output = to.arg
  BY <1>9
<1> QED BY <1>6, <1>7, <1>8, <1>11, <1>12 DEF CommandInv, c

-----------------------------------------------------------------------------
(* The invariant: types, open files, and the order of what was parsed      *)

(* An open file: the line it is at, and what was parsed of it so far.      *)
FrameType == [file : FileNames, next : Nat \ {0}, lines : Seq(Parsable)]

TypeInv ==
  /\ tree \in [DOMAIN tree -> Seq(TextLine)] /\ DOMAIN tree \subseteq FileNames
  /\ CommandInv(cmd)
  /\ stack \in Seq(FrameType) /\ lastTable \in BOOLEAN /\ path \in Seq(Seq(Words))
  /\ lines \in Seq(Parsable) /\ exit \in {Running, 0, 1, 2}
  /\ dumped \in [DOMAIN dumped -> Seq(Parsable)] /\ DOMAIN dumped \subseteq DOMAIN tree

(* What is open are files that there are, the definition the first. *)
StackInv ==
  /\ Len(stack) <= MaxOpen
  /\ \A i \in 1..Len(stack) :
       stack[i].file \in DOMAIN tree /\ stack[i].next <= Len(tree[stack[i].file]) + 1
  /\ \A i \in 1..Len(stack) - 1 : stack[i].next <= Len(tree[stack[i].file])
  /\ stack # <<>> => exit = Running /\ stack[1].file = cmd.input
  /\ exit = Running => cmd.ok /\ cmd.source = "ssqls2" /\ cmd.input \in DOMAIN tree

(* Fields stand behind tables and fields. *)
FollowsTable(ls) ==
  \A k \in 1..Len(ls) : ls[k].kind = "field" => k > 1 /\ ls[k - 1].kind \in {"table", "field"}
EndsInTable(ls) == Len(ls) # 0 /\ ls[Len(ls)].kind \in {"table", "field"}
OrderInv ==
  /\ FollowsTable(lines)
  /\ \A i \in 1..Len(stack) : FollowsTable(stack[i].lines)
  /\ stack # <<>> /\ lastTable => EndsInTable(Top.lines)
  /\ \A f \in DOMAIN dumped : FollowsTable(dumped[f])

Inv == TypeInv /\ StackInv /\ OrderInv

(* A field that is appended behind a table or field is in order.           *)
LEMMA FollowsAppend ==
  ASSUME NEW ls \in Seq(Parsable), NEW l, FollowsTable(ls), l.kind = "field" => EndsInTable(ls)
  PROVE  FollowsTable(Append(ls, l))
<1> DEFINE more == Append(ls, l)
           n == Len(ls)
<1>1. n \in Nat /\ Len(more) = n + 1 /\ more[n + 1] = l /\ \A k \in 1..n : more[k] = ls[k]
  OBVIOUS
<1> HIDE DEF more, n
<1>2. SUFFICES ASSUME NEW k \in 1..n + 1, more[k].kind = "field"
               PROVE  k > 1 /\ more[k - 1].kind \in {"table", "field"}
  BY <1>1 DEF FollowsTable, more
<1>3. CASE k = n + 1
  <2>1. l.kind = "field" /\ n # 0 /\ ls[n].kind \in {"table", "field"}
    BY <1>1, <1>2, <1>3 DEF EndsInTable, n
  <2>2. k > 1 /\ k - 1 = n /\ n \in 1..n
    BY <1>1, <1>3, <2>1
  <2> QED BY <1>1, <2>1, <2>2
<1>4. CASE k # n + 1
  <2>1. k \in 1..n
    BY <1>1, <1>4
  <2>2. k > 1 /\ ls[k - 1].kind \in {"table", "field"}
    BY <1>1, <1>2, <2>1 DEF FollowsTable, n
  <2>3. k - 1 \in 1..n
    BY <1>1, <2>1, <2>2
  <2> QED BY <1>1, <2>2, <2>3
<1> QED BY <1>3, <1>4

(* Included lines are in order behind what stands before them.             *)
LEMMA FollowsConcat ==
  ASSUME NEW ls \in Seq(Parsable), NEW ms \in Seq(Parsable), FollowsTable(ls), FollowsTable(ms)
  PROVE  /\ FollowsTable(ls \o ms)
         /\ EndsInTable(ms) => EndsInTable(ls \o ms)
<1> DEFINE more == ls \o ms
           n == Len(ls)
           m == Len(ms)
<1>1. /\ n \in Nat /\ m \in Nat /\ Len(more) = n + m
      /\ \A k \in 1..n + m : more[k] = IF k <= n THEN ls[k] ELSE ms[k - n]
  OBVIOUS
<1> HIDE DEF more, n, m
<1>2. ASSUME NEW k \in 1..n + m, more[k].kind = "field"
      PROVE  k > 1 /\ more[k - 1].kind \in {"table", "field"}
  <2>1. CASE k <= n
    <3>1. k \in 1..n /\ ls[k].kind = "field"
      BY <1>1, <1>2, <2>1
    <3>2. k > 1 /\ ls[k - 1].kind \in {"table", "field"}
      BY <3>1 DEF FollowsTable, n
    <3>3. k - 1 \in 1..n + m /\ k - 1 <= n
      BY <1>1, <2>1, <3>2
    <3> QED BY <1>1, <3>2, <3>3
  <2>2. CASE ~(k <= n)
    <3>1. PICK j : j = k - n
      OBVIOUS
    <3>2. j \in 1..m
      BY <1>1, <2>2, <3>1
    <3>3. ms[j].kind = "field"
      BY <1>1, <1>2, <2>2, <3>1
    <3>4. j > 1 /\ ms[j - 1].kind \in {"table", "field"}
      BY <3>2, <3>3 DEF FollowsTable, m
    <3>5. k > 1 /\ k - 1 \in 1..n + m /\ ~(k - 1 <= n) /\ (k - 1) - n = j - 1
      BY <1>1, <2>2, <3>1, <3>4
    <3> QED BY <1>1, <3>4, <3>5
  <2> QED BY <2>1, <2>2
<1>3. ASSUME m # 0, ms[m].kind \in {"table", "field"}
      PROVE  n + m # 0 /\ more[n + m].kind \in {"table", "field"}
  <2>1. n + m \in 1..n + m /\ ~(n + m <= n) /\ (n + m) - n = m
    BY <1>1, <1>3
  <2> QED BY <1>1, <1>3, <2>1
<1>4. FollowsTable(more)
  BY <1>1, <1>2 DEF FollowsTable
<1>5. EndsInTable(ms) => EndsInTable(more)
  BY <1>1, <1>3 DEF EndsInTable, m
<1> QED BY <1>4, <1>5 DEF more

(* No file is open at first.                                               *)
LEMMA InitInv == Init => Inv
<1> SUFFICES ASSUME Init PROVE Inv
  OBVIOUS
<1>1. tree \in [DOMAIN tree -> Seq(TextLine)] /\ DOMAIN tree \subseteq FileNames
  BY FilesAssumption DEF Init
<1>2. CommandInv(cmd)
  BY DEF Init, NoCommand, CommandInv, CommandType
<1>3. dumped \in [DOMAIN dumped -> Seq(Parsable)] /\ DOMAIN dumped = {}
  BY DEF Init
<1>4. TypeInv
  <2>1. stack = <<>> /\ lastTable = FALSE /\ path = <<>> /\ lines = <<>> /\ exit = 0
    BY DEF Init
  <2>2. stack \in Seq(FrameType) /\ path \in Seq(Seq(Words)) /\ lines \in Seq(Parsable)
    BY <2>1
  <2> QED BY <1>1, <1>2, <1>3, <2>1, <2>2 DEF TypeInv
<1>5. StackInv
  BY SizeAssumption DEF Init, StackInv, Running
<1>6. OrderInv
  BY <1>3 DEF Init, OrderInv, FollowsTable
<1> QED BY <1>4, <1>5, <1>6 DEF Inv

(* The file that is read, and the line it is at. *)
LEMMA AtLine ==
  ASSUME TypeInv, StackInv, Reading
  PROVE  /\ Len(stack) \in Nat \ {0} /\ Top = stack[Len(stack)] /\ Top \in FrameType
         /\ Len(stack) <= MaxOpen
         /\ Top.file \in DOMAIN tree /\ tree[Top.file] \in Seq(TextLine)
         /\ Top.next \in Nat \ {0} /\ Top.next <= Len(tree[Top.file]) + 1
         /\ HasLine => Line \in TextLine /\ Top.next \in 1..Len(tree[Top.file])
<1>1. stack \in Seq(FrameType) /\ stack # <<>>
  BY DEF TypeInv, Reading
<1>2. Len(stack) \in Nat \ {0} /\ Top = stack[Len(stack)]
  BY <1>1 DEF Top, Last
<1>3. Len(stack) \in 1..Len(stack)
  BY <1>2
<1>4. Top \in FrameType
  BY <1>1, <1>2, <1>3, ElementOfSeq
<1>5. /\ Top.file \in DOMAIN tree /\ tree[Top.file] \in Seq(TextLine)
      /\ Top.next <= Len(tree[Top.file]) + 1 /\ Len(stack) <= MaxOpen
  BY <1>2, <1>3 DEF StackInv, TypeInv
<1>6. Top.next \in Nat \ {0}
  BY <1>4 DEF FrameType
<1>7. ASSUME HasLine PROVE Line \in TextLine /\ Top.next \in 1..Len(tree[Top.file])
  <2>1. Top.next <= Len(tree[Top.file])
    BY <1>7 DEF HasLine
  <2>2. PICK ls : ls = tree[Top.file]
    OBVIOUS
  <2>3. Top.next \in 1..Len(ls) /\ ls \in Seq(TextLine)
    BY <1>5, <1>6, <2>1, <2>2
  <2>4. ls[Top.next] \in TextLine
    BY <2>3, ElementOfSeq
  <2> QED BY <2>2, <2>3, <2>4 DEF Line
<1> QED BY <1>2, <1>4, <1>5, <1>6, <1>7

(* A file goes a line on: the last of those that stay open.                *)
MovedOn(frame, ls) == [file |-> frame.file, next |-> frame.next + 1, lines |-> ls]
MovedTo(fs, gs, m, ls) ==
  /\ gs \in Seq(FrameType) /\ Len(gs) = m
  /\ \A i \in 1..m - 1 : gs[i] = fs[i]
  /\ gs[m] = MovedOn(fs[m], ls)

(* A file that has been moved on, field by field.                          *)
LEMMA MovedOnType ==
  ASSUME NEW f \in FrameType, NEW ls \in Seq(Parsable)
  PROVE  /\ MovedOn(f, ls) \in FrameType
         /\ MovedOn(f, ls).file = f.file /\ MovedOn(f, ls).next = f.next + 1
         /\ MovedOn(f, ls).lines = ls
         /\ [f EXCEPT !.next = @ + 1] = MovedOn(f, f.lines)
         /\ [f EXCEPT !.next = @ + 1, !.lines = ls] = MovedOn(f, ls)
<1>1. f.next + 1 \in Nat \ {0} /\ f.file \in FileNames
  BY DEF FrameType
<1>2. PICK n : n = f.next + 1
  OBVIOUS
<1>3. f = [file |-> f.file, next |-> f.next, lines |-> f.lines]
  BY DEF FrameType
<1>4. [f EXCEPT !.next = n] = [file |-> f.file, next |-> n, lines |-> f.lines]
  BY <1>3
<1>5. [f EXCEPT !.next = n, !.lines = ls] = [file |-> f.file, next |-> n, lines |-> ls]
  <2>1. [f EXCEPT !.next = n, !.lines = ls] = [[f EXCEPT !.next = n] EXCEPT !.lines = ls]
    OBVIOUS
  <2>2. PICK g : g = [file |-> f.file, next |-> n, lines |-> f.lines]
    OBVIOUS
  <2>3. [g EXCEPT !.lines = ls] = [file |-> f.file, next |-> n, lines |-> ls]
    BY <2>2
  <2> QED BY <1>4, <2>1, <2>2, <2>3
<1>6. MovedOn(f, ls) \in FrameType
  BY <1>1 DEF FrameType, MovedOn
<1>7. /\ [f EXCEPT !.next = @ + 1] = [f EXCEPT !.next = n]
      /\ [f EXCEPT !.next = @ + 1, !.lines = ls] = [f EXCEPT !.next = n, !.lines = ls]
  BY <1>2
<1> QED BY <1>2, <1>4, <1>5, <1>6, <1>7 DEF MovedOn

(* The files that are open when the last one moves on.                     *)
LEMMA MovedToFrame ==
  ASSUME NEW fs \in Seq(FrameType), NEW m \in Nat \ {0}, m = Len(fs), NEW ls \in Seq(Parsable)
  PROVE  MovedTo(fs, [fs EXCEPT ![m] = MovedOn(fs[m], ls)], m, ls)
<1>1. m \in 1..m /\ \A i \in 1..m - 1 : i \in 1..m /\ i # m
  OBVIOUS
<1>2. PICK frame : frame = MovedOn(fs[m], ls)
  OBVIOUS
<1>3. frame \in FrameType
  BY <1>1, <1>2, ElementOfSeq, MovedOnType
<1>4. PICK gs : gs = [fs EXCEPT ![m] = frame]
  OBVIOUS
<1>5. gs \in Seq(FrameType) /\ Len(gs) = m /\ gs[m] = frame /\ \A i \in 1..m : i # m => gs[i] = fs[i]
  BY <1>1, <1>3, <1>4, ExceptSeq
<1> QED BY <1>1, <1>2, <1>4, <1>5 DEF MovedTo

(* An empty line moves the file on.                                        *)
LEMMA SkipLineMoves ==
  ASSUME TypeInv, StackInv, SkipLine
  PROVE  MovedTo(stack, stack', Len(stack), Top.lines)
<1>1. /\ Len(stack) \in Nat \ {0} /\ Top = stack[Len(stack)] /\ Top \in FrameType
      /\ stack \in Seq(FrameType)
  BY AtLine DEF SkipLine, TypeInv
<1>2. PICK m \in Nat \ {0} : m = Len(stack)
  BY <1>1
<1>3. stack' = [stack EXCEPT ![m].next = @ + 1] /\ Top.lines \in Seq(Parsable)
  BY <1>1, <1>2 DEF SkipLine, FrameType
<1>4. stack' = [stack EXCEPT ![m] = MovedOn(stack[m], Top.lines)]
  <2>1. stack' = [stack EXCEPT ![m] = [stack[m] EXCEPT !.next = @ + 1]]
    BY <1>3
  <2>2. [stack[m] EXCEPT !.next = @ + 1] = MovedOn(stack[m], Top.lines)
    BY <1>1, <1>2, <1>3, MovedOnType
  <2> QED BY <2>1, <2>2
<1> HIDE DEF FrameType
<1>5. PICK ls \in Seq(Parsable) : ls = Top.lines
  BY <1>3
<1>6. MovedTo(stack, stack', m, ls)
  BY <1>1, <1>2, <1>4, <1>5, MovedToFrame
<1> QED BY <1>2, <1>5, <1>6

(* A directive that is not refused moves the file on.                      *)
LEMMA TakeLineMoves ==
  ASSUME TypeInv, StackInv, TakeLine, Parsed(Line, lastTable') # BadLine
  PROVE  /\ MovedTo(stack, stack', Len(stack), Append(Top.lines, Parsed(Line, lastTable')))
         /\ Parsed(Line, lastTable') \in Parsable
         /\ UNCHANGED <<tree, cmd, path, lines, exit, dumped, runs>>
<1> DEFINE l == Parsed(Line, lastTable')
           ls == Append(Top.lines, l)
<1>1. /\ Len(stack) \in Nat \ {0} /\ Top = stack[Len(stack)] /\ Top \in FrameType
      /\ stack \in Seq(FrameType) /\ Line \in TextLine /\ lastTable \in BOOLEAN
  BY AtLine DEF TakeLine, TypeInv
<1>2. PICK m \in Nat \ {0} : m = Len(stack)
  BY <1>1
<1>3. l \in Parsable
  BY <1>1, ParsedType DEF TakeLine
<1>4. /\ stack' = [stack EXCEPT ![m].next = @ + 1, ![m].lines = Append(@, l)]
      /\ UNCHANGED <<tree, cmd, path, lines, exit, dumped, runs>>
  BY <1>2 DEF TakeLine
<1> HIDE DEF l
<1>5. Top.lines \in Seq(Parsable) /\ ls \in Seq(Parsable)
  BY <1>1, <1>3 DEF FrameType
<1>6. stack' = [stack EXCEPT ![m] = MovedOn(stack[m], ls)]
  <2>1. stack' = [stack EXCEPT ![m] = [stack[m] EXCEPT !.next = @ + 1, !.lines = Append(@, l)]]
    BY <1>1, <1>2, <1>4
  <2>2. [stack[m] EXCEPT !.next = @ + 1, !.lines = Append(@, l)] = [stack[m] EXCEPT !.next = @ + 1, !.lines = ls]
    BY <1>1, <1>2 DEF FrameType
  <2> HIDE DEF ls
  <2>3. [stack[m] EXCEPT !.next = @ + 1, !.lines = ls] = MovedOn(stack[m], ls)
    BY <1>1, <1>2, <1>5, MovedOnType
  <2> QED BY <2>1, <2>2, <2>3
<1> HIDE DEF ls
<1>7. MovedTo(stack, stack', Len(stack), ls)
  BY <1>1, <1>2, <1>5, <1>6, MovedToFrame
<1> QED BY <1>3, <1>4, <1>7 DEF l, ls

(* All but the last of the open files.                                     *)
LEMMA FrontType ==
  ASSUME NEW fs \in Seq(FrameType), NEW n \in Nat, Len(fs) = n + 1
  PROVE  Front(fs) \in Seq(FrameType) /\ Len(Front(fs)) = n /\ \A i \in 1..n : Front(fs)[i] = fs[i]
<1>1. Front(fs) = SubSeq(fs, 1, n)
  <2>1. (n + 1) - 1 = n
    OBVIOUS
  <2> QED BY <2>1 DEF Front
<1>2. n \in 1 - 1..Len(fs) /\ 1 \in 1..Len(fs) + 1
  OBVIOUS
<1>3. \A i \in 1..Len(fs) : fs[i] \in FrameType
  BY ElementOfSeq
<1>4. \A i \in 1..n : fs[i] \in FrameType /\ SubSeq(fs, 1, n)[i] = fs[i]
  BY <1>3
<1>5. SubSeq(fs, 1, n) = [i \in 1..n |-> fs[i]]
  BY <1>4
<1>6. [i \in 1..n |-> fs[i]] \in Seq(FrameType)
  BY <1>4, IsASeq
<1>7. Len([i \in 1..n |-> fs[i]]) = n
  OBVIOUS
<1> QED BY <1>1, <1>4, <1>5, <1>6, <1>7

(* The including file, when an included one ends. *)
LEMMA EndFileMoves ==
  ASSUME TypeInv, StackInv, EndFile, Len(stack) # 1
  PROVE  /\ Len(stack) - 1 \in Nat \ {0}
         /\ MovedTo(stack, stack', Len(stack) - 1, stack[Len(stack) - 1].lines \o Top.lines)
         /\ stack[Len(stack) - 1] \in FrameType
<1>1. /\ Len(stack) \in Nat \ {0} /\ Top = stack[Len(stack)] /\ Top \in FrameType
      /\ stack \in Seq(FrameType)
  BY AtLine DEF EndFile, TypeInv
<1>2. PICK n \in Nat \ {0} : n = Len(stack) - 1 /\ Len(stack) = n + 1
  <2>1. PICK m \in Nat \ {0} : m = Len(stack)
    BY <1>1
  <2>2. m - 1 \in Nat \ {0} /\ m = (m - 1) + 1
    BY <2>1
  <2> QED BY <2>1, <2>2
<1>3. stack[n] \in FrameType /\ stack[n + 1] = Top
  <2>1. n \in 1..Len(stack)
    BY <1>2
  <2> QED BY <1>1, <1>2, <2>1, ElementOfSeq
<1> DEFINE ls == stack[n].lines \o Top.lines
           fs == Front(stack)
<1>4. ls \in Seq(Parsable)
  <2>1. stack[n].lines \in Seq(Parsable) /\ Top.lines \in Seq(Parsable)
    BY <1>1, <1>3 DEF FrameType
  <2> QED BY <2>1
<1>5. fs \in Seq(FrameType) /\ Len(fs) = n /\ \A i \in 1..n : fs[i] = stack[i]
  <2> HIDE DEF FrameType
  <2> QED BY <1>1, <1>2, FrontType
<1>6. stack' = [fs EXCEPT ![n].next = @ + 1, ![n].lines = @ \o Top.lines]
  <2>1. stack' = Popped(stack)
    BY DEF EndFile
  <2> QED BY <1>1, <1>2, <1>3, <2>1 DEF Popped
<1> HIDE DEF fs
<1>7. n \in 1..n /\ fs[n] = stack[n]
  BY <1>5
<1>8. stack' = [fs EXCEPT ![n] = MovedOn(fs[n], ls)]
  <2>1. stack' = [fs EXCEPT ![n] = [fs[n] EXCEPT !.next = @ + 1, !.lines = @ \o Top.lines]]
    BY <1>5, <1>6, <1>7
  <2>2. [fs[n] EXCEPT !.next = @ + 1, !.lines = @ \o Top.lines] = [fs[n] EXCEPT !.next = @ + 1, !.lines = ls]
    BY <1>3, <1>7 DEF FrameType
  <2> HIDE DEF ls
  <2>3. [fs[n] EXCEPT !.next = @ + 1, !.lines = ls] = MovedOn(fs[n], ls)
    BY <1>3, <1>4, <1>7, MovedOnType
  <2> QED BY <2>1, <2>2, <2>3
<1> HIDE DEF ls, FrameType
<1>9. MovedTo(fs, stack', n, ls)
  BY <1>4, <1>5, <1>8, MovedToFrame
<1>10. MovedTo(stack, stack', n, ls)
  <2>1. \A i \in 1..n - 1 : i \in 1..n
    OBVIOUS
  <2> QED BY <1>5, <1>7, <1>9, <2>1 DEF MovedTo
<1> QED BY <1>1, <1>2, <1>3, <1>10 DEF ls

-----------------------------------------------------------------------------
(* Each step keeps the invariant                                           *)

(* Moving on keeps what is said of the open files.                         *)
LEMMA MovedStack ==
  ASSUME TypeInv, StackInv, stack # <<>>, NEW m \in 1..Len(stack), NEW ls \in Seq(Parsable),
         MovedTo(stack, stack', m, ls), stack[m].next <= Len(tree[stack[m].file]),
         UNCHANGED <<tree, cmd, exit>>
  PROVE  /\ StackInv' /\ stack' # <<>> /\ stack' \in Seq(FrameType) /\ Top'.lines = ls
         /\ (\A i \in 1..Len(stack) : FollowsTable(stack[i].lines)) /\ FollowsTable(ls)
              => \A i \in 1..Len(stack') : FollowsTable(stack'[i].lines)
<1>1. Len(stack) \in Nat /\ stack \in Seq(FrameType) /\ m \in Nat \ {0} /\ m <= Len(stack)
  BY DEF TypeInv
<1>2. /\ stack' \in Seq(FrameType) /\ Len(stack') = m /\ \A i \in 1..m - 1 : stack'[i] = stack[i]
      /\ stack'[m] = MovedOn(stack[m], ls)
  BY DEF MovedTo
<1>3. stack[m] \in FrameType
  BY <1>1, ElementOfSeq
<1>4. /\ stack'[m].file = stack[m].file /\ stack'[m].next = stack[m].next + 1
      /\ stack'[m].lines = ls
  <2>1. PICK f \in FrameType : f = stack[m]
    BY <1>3
  <2> HIDE DEF FrameType
  <2>2. /\ MovedOn(f, ls).file = f.file /\ MovedOn(f, ls).next = f.next + 1
        /\ MovedOn(f, ls).lines = ls
    BY MovedOnType
  <2> QED BY <1>2, <2>1, <2>2
<1>5. /\ \A i \in 1..m : (i \in 1..m - 1 \/ i = m) /\ i \in 1..Len(stack)
      /\ \A i \in 1..m - 1 : i \in 1..Len(stack) /\ i \in 1..Len(stack) - 1
      /\ 1 \in 1..m
  BY <1>1
<1>6. \A i \in 1..m : stack'[i].file = stack[i].file /\ stack'[i].file \in DOMAIN tree
  BY <1>2, <1>4, <1>5 DEF StackInv
<1>7. \A i \in 1..m - 1 : stack'[i].next <= Len(tree[stack'[i].file])
  BY <1>2, <1>5 DEF StackInv
<1>8. \A i \in 1..m : stack'[i].next <= Len(tree[stack'[i].file]) + 1
  <2>1. stack'[m].next <= Len(tree[stack'[m].file]) + 1
    <3>1. PICK a, b : a = stack[m].next /\ b = Len(tree[stack[m].file])
      OBVIOUS
    <3>2. a \in Nat
      BY <1>3, <3>1 DEF FrameType
    <3>3. b \in Nat
      <4>1. tree[stack[m].file] \in Seq(TextLine)
        BY <1>5, <1>6, <1>4 DEF TypeInv
      <4> QED BY <3>1, <4>1, LenProperties
    <3>4. a + 1 <= b + 1
      BY <3>1, <3>2, <3>3
    <3> QED BY <1>4, <3>1, <3>4
  <2>2. ASSUME NEW i \in 1..m - 1 PROVE stack'[i].next <= Len(tree[stack'[i].file]) + 1
    BY <1>2, <1>5 DEF StackInv
  <2> QED BY <1>5, <2>1, <2>2
<1>9. stack' # <<>>
  BY <1>1, <1>2
<1>10. StackInv'
  <2>1. Len(stack') <= MaxOpen
    <3>1. MaxOpen \in Nat
      BY SizeAssumption
    <3> QED BY <1>1, <1>2, <3>1 DEF StackInv
  <2>2. \A i \in 1..Len(stack') :
          stack'[i].file \in DOMAIN tree' /\ stack'[i].next <= Len(tree'[stack'[i].file]) + 1
    BY <1>2, <1>6, <1>8
  <2>3. \A i \in 1..Len(stack') - 1 : stack'[i].next <= Len(tree'[stack'[i].file])
    BY <1>2, <1>7
  <2>4. exit' = Running /\ stack'[1].file = cmd'.input
    BY <1>5, <1>6 DEF StackInv
  <2>5. cmd'.ok /\ cmd'.source = "ssqls2" /\ cmd'.input \in DOMAIN tree'
    BY DEF StackInv
  <2> QED BY <2>1, <2>2, <2>3, <2>4, <2>5 DEF StackInv
<1>11. Top'.lines = ls
  BY <1>2, <1>4 DEF Top, Last
<1>12. (\A i \in 1..Len(stack) : FollowsTable(stack[i].lines)) /\ FollowsTable(ls)
         => \A i \in 1..Len(stack') : FollowsTable(stack'[i].lines)
  BY <1>2, <1>4, <1>5
<1> QED BY <1>2, <1>9, <1>10, <1>11, <1>12

(* An empty line keeps the invariant.                                      *)
LEMMA SkipLineInv == Inv /\ SkipLine => Inv'
<1> SUFFICES ASSUME Inv, SkipLine PROVE Inv'
  OBVIOUS
<1>0. TypeInv /\ StackInv /\ OrderInv
  BY DEF Inv
<1>1. /\ Len(stack) \in Nat \ {0} /\ Top = stack[Len(stack)] /\ Top \in FrameType
      /\ Top.next \in 1..Len(tree[Top.file]) /\ stack # <<>>
  BY <1>0, AtLine DEF SkipLine, Reading
<1>2. MovedTo(stack, stack', Len(stack), Top.lines)
  BY <1>0, SkipLineMoves
<1>3. UNCHANGED <<tree, cmd, lastTable, path, lines, exit, dumped, runs>>
  BY DEF SkipLine
<1>4. PICK m : m = Len(stack) /\ m \in 1..Len(stack) /\ m \in Nat \ {0}
  BY <1>1
<1>5. PICK ls \in Seq(Parsable) : ls = Top.lines
  BY <1>1 DEF FrameType
<1>6. stack[m].next <= Len(tree[stack[m].file]) /\ FollowsTable(ls)
  BY <1>0, <1>1, <1>4, <1>5 DEF OrderInv
<1>7. /\ StackInv' /\ stack' # <<>> /\ stack' \in Seq(FrameType) /\ Top'.lines = ls
      /\ (\A i \in 1..Len(stack) : FollowsTable(stack[i].lines)) /\ FollowsTable(ls)
           => \A i \in 1..Len(stack') : FollowsTable(stack'[i].lines)
  BY <1>0, <1>1, <1>2, <1>3, <1>4, <1>5, <1>6, MovedStack
<1>8. TypeInv'
  BY <1>0, <1>3, <1>7 DEF TypeInv
<1>9. OrderInv'
  BY <1>0, <1>1, <1>3, <1>5, <1>6, <1>7 DEF OrderInv
<1> QED BY <1>7, <1>8, <1>9 DEF Inv

(* A directive that is refused closes all the files.                       *)
LEMMA RefuseInv == Inv /\ lastTable' \in BOOLEAN /\ Refuse => Inv'
<1> SUFFICES ASSUME Inv, lastTable' \in BOOLEAN, Refuse PROVE Inv'
  OBVIOUS
<1>1. TypeInv'
  BY DEF Inv, TypeInv, Refuse
<1>2. StackInv'
  BY SizeAssumption DEF Refuse, StackInv, Running
<1>3. OrderInv'
  BY DEF Inv, OrderInv, Refuse
<1> QED BY <1>1, <1>2, <1>3 DEF Inv

(* A directive keeps the invariant: a field needs last_tld_was_table.      *)
LEMMA TakeLineInv == Inv /\ TakeLine => Inv'
<1> SUFFICES ASSUME Inv, TakeLine PROVE Inv'
  OBVIOUS
<1>0. TypeInv /\ StackInv /\ OrderInv
  BY DEF Inv
<1>1. /\ Len(stack) \in Nat \ {0} /\ Top = stack[Len(stack)] /\ Top \in FrameType
      /\ Top.next \in 1..Len(tree[Top.file]) /\ stack # <<>> /\ Line \in TextLine
      /\ lastTable \in BOOLEAN /\ Line.sub \in BOOLEAN
  <2>1. Line \in TextLine
    BY <1>0, AtLine DEF TakeLine
  <2>2. Line.sub \in BOOLEAN
    BY <2>1 DEF TextLine
  <2> QED BY <1>0, <2>1, <2>2, AtLine DEF TakeLine, Reading, TypeInv
<1>2. lastTable' = TableAfter(Line, lastTable)
  BY DEF TakeLine
<1> DEFINE l == Parsed(Line, lastTable')
<1>3. CASE l = BadLine
  <2>1. lastTable' \in BOOLEAN
    BY <1>1, <1>2 DEF TableAfter
  <2> QED BY <1>3, <2>1, RefuseInv DEF TakeLine
<1>4. CASE l # BadLine
  <2>1. /\ MovedTo(stack, stack', Len(stack), Append(Top.lines, l)) /\ l \in Parsable
        /\ UNCHANGED <<tree, cmd, path, lines, exit, dumped, runs>>
    BY <1>0, <1>4, TakeLineMoves
  <2>2. /\ lastTable' \in BOOLEAN
        /\ lastTable' => l.kind \in {"table", "field"}
        /\ l.kind = "field" => lastTable
    BY <1>1, <1>2, <1>4, ParsedType
  <2> HIDE DEF l
  <2>3. PICK m : m = Len(stack) /\ m \in 1..Len(stack) /\ m \in Nat \ {0}
    BY <1>1
  <2>4. PICK ms \in Seq(Parsable) : ms = Top.lines
    BY <1>1 DEF FrameType
  <2>5. PICK ls \in Seq(Parsable) : ls = Append(ms, l)
    <3>1. Append(ms, l) \in Seq(Parsable)
      BY <2>1, AppendProperties
    <3> QED BY <3>1
  <2>6. stack[m].next <= Len(tree[stack[m].file]) /\ FollowsTable(ms)
    BY <1>0, <1>1, <2>3, <2>4 DEF OrderInv
  <2>7. FollowsTable(ls)
    <3>1. l.kind = "field" => EndsInTable(ms)
      BY <1>0, <1>1, <2>2, <2>4 DEF OrderInv
    <3> QED BY <2>4, <2>5, <2>6, <3>1, FollowsAppend
  <2>8. lastTable' => EndsInTable(ls)
    <3>1. Len(ls) # 0 /\ ls[Len(ls)] = l
      BY <2>4, <2>5
    <3> QED BY <2>2, <3>1 DEF EndsInTable
  <2>9. MovedTo(stack, stack', m, ls)
    BY <2>1, <2>3, <2>4, <2>5
  <2>10. /\ StackInv' /\ stack' # <<>> /\ stack' \in Seq(FrameType) /\ Top'.lines = ls
         /\ (\A i \in 1..Len(stack) : FollowsTable(stack[i].lines)) /\ FollowsTable(ls)
              => \A i \in 1..Len(stack') : FollowsTable(stack'[i].lines)
    BY <1>0, <1>1, <2>1, <2>3, <2>6, <2>9, MovedStack
  <2>11. TypeInv'
    <3>1. lastTable' \in BOOLEAN /\ stack' \in Seq(FrameType)
      BY <2>2, <2>10
    <3>2. UNCHANGED <<tree, cmd, path, lines, exit, dumped, runs>>
      BY <2>1
    <3> QED BY <1>0, <3>1, <3>2 DEF TypeInv
  <2>12. OrderInv'
    BY <1>0, <2>1, <2>7, <2>8, <2>10 DEF OrderInv
  <2> QED BY <2>10, <2>11, <2>12 DEF Inv
<1> QED BY <1>3, <1>4

(* A file that was just opened.                                            *)
LEMMA FrameOf ==
  ASSUME NEW file \in FileNames
  PROVE  /\ Frame(file) \in FrameType /\ Frame(file).file = file /\ Frame(file).next = 1
         /\ Frame(file).lines = <<>>
<1>1. <<>> \in Seq(Parsable)
  OBVIOUS
<1> QED BY <1>1 DEF Frame, FrameType

(* An included file is opened on top of the others. *)
LEMMA TakeIncludeMoves ==
  ASSUME TypeInv, StackInv, TakeInclude, stack' # <<>>
  PROVE  LET name == FileNamed[Line.words[2]]
             file == Opened(tree, name, path)
             n == Len(stack)
         IN /\ Len(Line.words) = 2 /\ name \in FileNames /\ file \in DOMAIN tree /\ file \in FileNames
            /\ stack' \in Seq(FrameType) /\ Len(stack') = n + 1 /\ n + 1 <= MaxOpen
            /\ \A i \in 1..n : stack'[i] = stack[i]
            /\ stack'[n + 1] = Frame(file)
            /\ path' = PathWith(name, path) /\ path' \in Seq(Seq(Words))
            /\ UNCHANGED <<tree, cmd, lines, exit, dumped, runs>>
            /\ lastTable' = FALSE
<1> DEFINE name == FileNamed[Line.words[2]]
           file == Opened(tree, name, path)
<1>1. /\ Len(stack) \in Nat \ {0} /\ stack \in Seq(FrameType) /\ Line \in TextLine
      /\ Len(stack) <= MaxOpen /\ MaxOpen \in Nat /\ path \in Seq(Seq(Words))
      /\ DOMAIN tree \subseteq FileNames /\ Line.words[1] = "include"
  BY AtLine, SizeAssumption DEF TakeInclude, AtDirective, TypeInv
<1>2. ~Refuse
  BY DEF Refuse
<1>3. ~(Len(Line.words) # 2 \/ Line.sub) /\ ~(file = NoFile \/ Len(stack) = MaxOpen)
  BY <1>2 DEF TakeInclude
<1>4. /\ stack' = Append(stack, Frame(file))
      /\ path' = PathWith(name, path)
      /\ UNCHANGED <<tree, cmd, lines, exit, dumped, runs>>
      /\ lastTable' = TableAfter(Line, lastTable)
  BY <1>3 DEF TakeInclude
<1>5. name \in FileNames
  <2>1. Line.words[2] \in DOMAIN FileNamed
    BY <1>1, <1>3 DEF TextLine
  <2> QED BY <2>1, FilesAssumption
<1> HIDE DEF name
<1>6. file \in DOMAIN tree
  <2>1. name \in Seq(Words)
    BY <1>5 DEF FileNames
  <2> QED BY <1>1, <1>3, <2>1, OpenedType
<1> HIDE DEF file
<1>7. Frame(file) \in FrameType
  BY <1>1, <1>6, FrameOf
<1>8. path' \in Seq(Seq(Words))
  BY <1>1, <1>4, <1>5, PathType
<1>9. PICK frame \in FrameType : frame = Frame(file)
  BY <1>7
<1>10. /\ Append(stack, frame) \in Seq(FrameType) /\ Len(Append(stack, frame)) = Len(stack) + 1
       /\ \A i \in 1..Len(stack) : Append(stack, frame)[i] = stack[i]
       /\ Append(stack, frame)[Len(stack) + 1] = frame
  BY <1>1, AppendProperties
<1>11. Len(stack) + 1 <= MaxOpen
  <2>1. PICK n \in Nat : n = Len(stack)
    BY <1>1
  <2> QED BY <1>1, <1>3, <2>1
<1>12. lastTable' = FALSE
  BY <1>1, <1>3, <1>4 DEF TableAfter
<1> QED BY <1>1, <1>3, <1>4, <1>5, <1>6, <1>8, <1>9, <1>10, <1>11, <1>12 DEF name, file

(* An `include` resets last_tld_was_table: what follows it is no field.    *)
LEMMA TakeIncludeInv == Inv /\ TakeInclude => Inv'
<1> SUFFICES ASSUME Inv, TakeInclude PROVE Inv'
  OBVIOUS
<1>0. TypeInv /\ StackInv /\ OrderInv
  BY DEF Inv
<1>1. /\ Len(stack) \in Nat \ {0} /\ Top = stack[Len(stack)] /\ Line \in TextLine
      /\ Top.next \in 1..Len(tree[Top.file]) /\ stack \in Seq(FrameType) /\ stack # <<>>
      /\ tree[Top.file] \in Seq(TextLine)
  BY <1>0, AtLine DEF TakeInclude, AtDirective, TypeInv
<1>2. CASE stack' = <<>>
  <2>1. Refuse
    <3>1. \A f : Append(stack, Frame(f)) # <<>>
      BY <1>1
    <3> QED BY <1>2, <3>1 DEF TakeInclude
  <2>2. lastTable' \in BOOLEAN
    <3>1. Line.sub \in BOOLEAN
      BY <1>1 DEF TextLine
    <3> QED BY <1>0, <3>1 DEF TakeInclude, TableAfter, TypeInv
  <2> QED BY <2>1, <2>2, RefuseInv
<1>3. CASE stack' # <<>>
  <2> DEFINE file == Opened(tree, FileNamed[Line.words[2]], path)
  <2>1. /\ file \in DOMAIN tree /\ file \in FileNames
        /\ stack' \in Seq(FrameType) /\ Len(stack') = Len(stack) + 1 /\ Len(stack) + 1 <= MaxOpen
        /\ \A i \in 1..Len(stack) : stack'[i] = stack[i]
        /\ stack'[Len(stack) + 1] = Frame(file)
        /\ path' \in Seq(Seq(Words))
        /\ UNCHANGED <<tree, cmd, lines, exit, dumped, runs>>
        /\ lastTable' = FALSE
    BY <1>0, <1>3, TakeIncludeMoves
  <2> HIDE DEF file
  <2>2. PICK n \in Nat \ {0} : n = Len(stack)
    BY <1>1
  <2>3. /\ stack'[n + 1].file = file /\ stack'[n + 1].next = 1 /\ stack'[n + 1].lines = <<>>
    BY <2>1, <2>2, FrameOf
  <2>4. /\ \A i \in 1..n + 1 : i \in 1..n \/ i = n + 1
        /\ \A i \in 1..(n + 1) - 1 : i \in 1..n - 1 \/ i = n
        /\ \A i \in 1..n - 1 : i \in 1..n
        /\ 1 \in 1..n /\ n \in 1..n
    OBVIOUS
  <2>5. \A i \in 1..n + 1 : stack'[i].file \in DOMAIN tree /\ stack'[i].next <= Len(tree[stack'[i].file]) + 1
    <3>1. \A i \in 1..n : stack'[i].file \in DOMAIN tree /\ stack'[i].next <= Len(tree[stack'[i].file]) + 1
      BY <1>0, <2>1, <2>2 DEF StackInv
    <3>2. Len(tree[file]) \in Nat
      <4>1. tree[file] \in Seq(TextLine)
        BY <1>0, <2>1 DEF TypeInv
      <4> QED BY <4>1
    <3>3. stack'[n + 1].file \in DOMAIN tree /\ stack'[n + 1].next <= Len(tree[stack'[n + 1].file]) + 1
      <4>1. 1 <= Len(tree[file]) + 1
        BY <3>2
      <4> QED BY <2>1, <2>3, <4>1
    <3> QED BY <2>4, <3>1, <3>3
  <2>6. \A i \in 1..(n + 1) - 1 : stack'[i].next <= Len(tree[stack'[i].file])
    <3>1. \A i \in 1..n - 1 : stack'[i].next <= Len(tree[stack'[i].file])
      BY <1>0, <2>1, <2>2, <2>4 DEF StackInv
    <3>2. stack'[n].next <= Len(tree[stack'[n].file])
      BY <1>1, <2>1, <2>2, <2>4
    <3> QED BY <2>4, <3>1, <3>2
  <2>7. exit' = Running /\ stack'[1].file = cmd'.input
    BY <1>0, <1>1, <2>1, <2>2, <2>4 DEF StackInv
  <2>8. cmd'.ok /\ cmd'.source = "ssqls2" /\ cmd'.input \in DOMAIN tree'
    BY <1>0, <2>1, <2>7 DEF StackInv
  <2>9. StackInv'
    BY <2>1, <2>2, <2>5, <2>6, <2>7, <2>8 DEF StackInv
  <2>10. TypeInv'
    <3>1. lastTable' \in BOOLEAN
      BY <2>1
    <3> QED BY <1>0, <2>1, <3>1 DEF TypeInv
  <2>11. \A i \in 1..n + 1 : FollowsTable(stack'[i].lines)
    <3>1. FollowsTable(<<>>)
      BY DEF FollowsTable
    <3>2. \A i \in 1..n : FollowsTable(stack'[i].lines)
      BY <1>0, <2>1, <2>2 DEF OrderInv
    <3> QED BY <2>3, <2>4, <3>1, <3>2
  <2>12. OrderInv'
    BY <1>0, <2>1, <2>2, <2>11 DEF OrderInv
  <2> QED BY <2>9, <2>10, <2>12 DEF Inv
<1> QED BY <1>2, <1>3

(* What was included takes its place behind what stood before it.          *)
LEMMA EndFileInv == Inv /\ EndFile => Inv'
<1> SUFFICES ASSUME Inv, EndFile PROVE Inv'
  OBVIOUS
<1>0. TypeInv /\ StackInv /\ OrderInv
  BY DEF Inv
<1>1. /\ Len(stack) \in Nat \ {0} /\ Top = stack[Len(stack)] /\ Top \in FrameType
      /\ stack \in Seq(FrameType) /\ stack # <<>> /\ Top.lines \in Seq(Parsable)
  <2>1. Top \in FrameType
    BY <1>0, AtLine DEF EndFile
  <2>2. Top.lines \in Seq(Parsable)
    BY <2>1 DEF FrameType
  <2> QED BY <1>0, <2>1, <2>2, AtLine DEF EndFile, Reading, TypeInv
<1>2. UNCHANGED <<tree, cmd, lastTable, path, exit, dumped, runs>>
  BY DEF EndFile
<1>3. CASE Len(stack) = 1
  <2>1. lines' = Top.lines /\ stack' = <<>>
    BY <1>3 DEF EndFile
  <2>2. FollowsTable(lines')
    <3>1. 1 \in 1..1 /\ Top = stack[1]
      BY <1>1, <1>3
    <3> QED BY <1>0, <1>3, <2>1, <3>1 DEF OrderInv
  <2>3. stack' \in Seq(FrameType) /\ Len(stack') = 0 /\ lines' \in Seq(Parsable)
    BY <1>1, <2>1
  <2>4. TypeInv'
    BY <1>0, <1>2, <2>3 DEF TypeInv
  <2>5. StackInv'
    BY <1>0, <1>2, <2>1, <2>3, SizeAssumption DEF StackInv
  <2>6. OrderInv'
    BY <1>0, <1>2, <2>1, <2>2, <2>3 DEF OrderInv
  <2> QED BY <2>4, <2>5, <2>6 DEF Inv
<1>4. CASE Len(stack) # 1
  <2>1. PICK n \in Nat \ {0} : n = Len(stack) - 1 /\ n \in 1..Len(stack) /\ n \in 1..Len(stack) - 1
    <3>1. PICK k \in Nat \ {0} : k = Len(stack)
      BY <1>1
    <3>2. k - 1 \in Nat \ {0} /\ k - 1 \in 1..k /\ k - 1 \in 1..k - 1
      BY <1>4, <3>1
    <3> QED BY <3>1, <3>2
  <2>2. /\ MovedTo(stack, stack', Len(stack) - 1, stack[Len(stack) - 1].lines \o Top.lines)
        /\ stack[Len(stack) - 1] \in FrameType
    BY <1>0, <1>4, EndFileMoves
  <2>3. stack[n].lines \in Seq(Parsable) /\ lines' = lines
    BY <1>4, <2>1, <2>2 DEF FrameType, EndFile
  <2>4. PICK ls \in Seq(Parsable) : ls = stack[n].lines \o Top.lines
    <3>1. stack[n].lines \o Top.lines \in Seq(Parsable)
      BY <1>1, <2>3, ConcatProperties
    <3> QED BY <3>1
  <2>5. MovedTo(stack, stack', n, ls)
    BY <2>1, <2>2, <2>4
  <2>6. FollowsTable(stack[n].lines) /\ FollowsTable(Top.lines)
    <3>1. Len(stack) \in 1..Len(stack)
      BY <1>1
    <3> QED BY <1>0, <1>1, <2>1, <3>1 DEF OrderInv
  <2>7. FollowsTable(ls) /\ (EndsInTable(Top.lines) => EndsInTable(ls))
    BY <1>1, <2>3, <2>4, <2>6, FollowsConcat
  <2>8. stack[n].next <= Len(tree[stack[n].file])
    BY <1>0, <2>1 DEF StackInv
  <2>9. /\ StackInv' /\ stack' # <<>> /\ stack' \in Seq(FrameType) /\ Top'.lines = ls
        /\ (\A i \in 1..Len(stack) : FollowsTable(stack[i].lines)) /\ FollowsTable(ls)
             => \A i \in 1..Len(stack') : FollowsTable(stack'[i].lines)
    BY <1>0, <1>1, <1>2, <2>1, <2>5, <2>8, MovedStack
  <2>10. TypeInv'
    BY <1>0, <1>2, <2>3, <2>9 DEF TypeInv
  <2>11. OrderInv'
    BY <1>0, <1>1, <1>2, <2>3, <2>7, <2>9 DEF OrderInv
  <2> QED BY <2>9, <2>10, <2>11 DEF Inv
<1> QED BY <1>3, <1>4

(* What generate_ssqls2() writes.                                          *)
WrittenFile(ls) == [k \in 1..Len(ls) |-> WrittenLine(ls[k])]

(* A file that was written has lines.                                      *)
LEMMA WrittenFileType ==
  ASSUME NEW ls \in Seq(Parsable)
  PROVE  WrittenFile(ls) \in Seq(TextLine) /\ Len(WrittenFile(ls)) = Len(ls)
<1>1. Len(ls) \in Nat /\ \A k \in 1..Len(ls) : ls[k] \in Parsable
  BY ElementOfSeq
<1>2. \A k \in 1..Len(ls) : WrittenLine(ls[k]) \in TextLine
  BY <1>1, WrittenParsed
<1>3. WrittenFile(ls) \in Seq(TextLine)
  BY <1>1, <1>2, IsASeq DEF WrittenFile
<1>4. Len(WrittenFile(ls)) = Len(ls)
  BY <1>1 DEF WrittenFile
<1> QED BY <1>3, <1>4

(* What is written. *)
LEMMA GenerateWrites ==
  ASSUME TypeInv, Generate
  PROVE  \/ UNCHANGED <<tree, dumped>>
         \/ /\ cmd.output \in FileNames
            /\ tree' = With(tree, cmd.output, WrittenFile(lines))
            /\ dumped' = With(dumped, cmd.output, lines)
            /\ tree' \in [DOMAIN tree' -> Seq(TextLine)] /\ DOMAIN tree' = DOMAIN tree \cup {cmd.output}
            /\ dumped' \in [DOMAIN dumped' -> Seq(Parsable)]
            /\ DOMAIN dumped' = DOMAIN dumped \cup {cmd.output}
            /\ tree'[cmd.output] = WrittenFile(lines) /\ dumped'[cmd.output] = lines
            /\ \A f \in DOMAIN tree : f # cmd.output => tree'[f] = tree[f]
            /\ \A f \in DOMAIN dumped : f # cmd.output => dumped'[f] = dumped[f]
<1>1. cmd.output \in FileNames
  BY DEF Generate, TypeInv, CommandInv
<1>2. SUFFICES ASSUME ~UNCHANGED <<tree, dumped>>
               PROVE  /\ tree' = With(tree, cmd.output, WrittenFile(lines))
                      /\ dumped' = With(dumped, cmd.output, lines)
                      /\ tree' \in [DOMAIN tree' -> Seq(TextLine)] /\ DOMAIN tree' = DOMAIN tree \cup {cmd.output}
                      /\ dumped' \in [DOMAIN dumped' -> Seq(Parsable)]
                      /\ DOMAIN dumped' = DOMAIN dumped \cup {cmd.output}
                      /\ tree'[cmd.output] = WrittenFile(lines) /\ dumped'[cmd.output] = lines
                      /\ \A f \in DOMAIN tree : f # cmd.output => tree'[f] = tree[f]
                      /\ \A f \in DOMAIN dumped : f # cmd.output => dumped'[f] = dumped[f]
  BY <1>1
<1>3. tree' = With(tree, cmd.output, WrittenFile(lines)) /\ dumped' = With(dumped, cmd.output, lines)
  BY <1>2 DEF Generate, WrittenFile
<1>4. /\ WrittenFile(lines) \in Seq(TextLine) /\ lines \in Seq(Parsable)
      /\ tree \in [DOMAIN tree -> Seq(TextLine)] /\ dumped \in [DOMAIN dumped -> Seq(Parsable)]
  BY WrittenFileType DEF TypeInv
<1>5. PICK name, file, texts, saids :
        name = cmd.output /\ file = WrittenFile(lines) /\ texts = Seq(TextLine) /\ saids = Seq(Parsable)
  OBVIOUS
<1>6. file \in texts /\ lines \in saids /\ tree \in [DOMAIN tree -> texts] /\ dumped \in [DOMAIN dumped -> saids]
  BY <1>4, <1>5
<1>7. tree' = With(tree, name, file) /\ dumped' = With(dumped, name, lines)
  BY <1>3, <1>5
<1>8. /\ tree' \in [DOMAIN tree \cup {name} -> texts]
      /\ DOMAIN tree' = DOMAIN tree \cup {name} /\ tree'[name] = file
      /\ \A f \in DOMAIN tree : f # name => tree'[f] = tree[f]
  BY <1>6, <1>7 DEF With
<1>9. /\ dumped' \in [DOMAIN dumped \cup {name} -> saids]
      /\ DOMAIN dumped' = DOMAIN dumped \cup {name} /\ dumped'[name] = lines
      /\ \A f \in DOMAIN dumped : f # name => dumped'[f] = dumped[f]
  BY <1>6, <1>7 DEF With
<1> QED BY <1>3, <1>5, <1>8, <1>9

(* Writing the output keeps the invariant.                                 *)
LEMMA GenerateInv == Inv /\ Generate => Inv'
<1> SUFFICES ASSUME Inv, Generate PROVE Inv'
  OBVIOUS
<1>0. TypeInv /\ StackInv /\ OrderInv
  BY DEF Inv
<1>1. /\ stack = <<>> /\ exit' \in {0, 2} /\ UNCHANGED <<cmd, stack, lastTable, path, lines, runs>>
  BY DEF Generate
<1>2. StackInv'
  BY <1>1, SizeAssumption DEF StackInv, Running
<1>3. CASE UNCHANGED <<tree, dumped>>
  <2>1. TypeInv'
    BY <1>0, <1>1, <1>3 DEF TypeInv
  <2>2. OrderInv'
    BY <1>0, <1>1, <1>3 DEF OrderInv
  <2> QED BY <1>2, <2>1, <2>2 DEF Inv
<1>4. CASE ~UNCHANGED <<tree, dumped>>
  <2>1. /\ cmd.output \in FileNames
        /\ tree' \in [DOMAIN tree' -> Seq(TextLine)] /\ DOMAIN tree' = DOMAIN tree \cup {cmd.output}
        /\ dumped' \in [DOMAIN dumped' -> Seq(Parsable)]
        /\ DOMAIN dumped' = DOMAIN dumped \cup {cmd.output}
        /\ dumped'[cmd.output] = lines
        /\ \A f \in DOMAIN dumped : f # cmd.output => dumped'[f] = dumped[f]
    BY <1>0, <1>4, GenerateWrites
  <2>2. TypeInv'
    <3>1. DOMAIN tree' \subseteq FileNames /\ DOMAIN dumped' \subseteq DOMAIN tree'
      BY <1>0, <2>1 DEF TypeInv
    <3>2. exit' \in {Running, 0, 1, 2}
      BY <1>1
    <3> QED BY <1>0, <1>1, <2>1, <3>1, <3>2 DEF TypeInv
  <2>3. \A f \in DOMAIN dumped' : FollowsTable(dumped'[f])
    <3> SUFFICES ASSUME NEW f \in DOMAIN dumped' PROVE FollowsTable(dumped'[f])
      OBVIOUS
    <3>1. CASE f = cmd.output
      BY <1>0, <2>1, <3>1 DEF OrderInv
    <3>2. CASE f # cmd.output
      BY <1>0, <2>1, <3>2 DEF OrderInv
    <3> QED BY <3>1, <3>2
  <2>4. OrderInv'
    BY <1>0, <1>1, <2>3 DEF OrderInv
  <2> QED BY <1>2, <2>2, <2>4 DEF Inv
<1> QED BY <1>3, <1>4

(* So does having nothing to write to.                                     *)
LEMMA NoOutputInv == Inv /\ NoOutput => Inv'
<1> SUFFICES ASSUME Inv, NoOutput PROVE Inv'
  OBVIOUS
<1>1. /\ stack = <<>> /\ exit' = 2
      /\ UNCHANGED <<tree, cmd, stack, lastTable, path, lines, dumped, runs>>
  BY DEF NoOutput
<1>2. TypeInv'
  BY <1>1 DEF Inv, TypeInv
<1>3. StackInv'
  BY <1>1, SizeAssumption DEF StackInv, Running
<1>4. OrderInv'
  BY <1>1 DEF Inv, OrderInv
<1> QED BY <1>2, <1>3, <1>4 DEF Inv

(* The definition is opened, if it is there. *)
LEMMA StartOpens ==
  ASSUME TypeInv, NEW options \in Commands, Start(options)
  PROVE  /\ exit # Running /\ UNCHANGED <<tree, dumped>> /\ CommandInv(cmd')
         /\ lastTable' = FALSE /\ lines' = <<>>
         /\ \/ /\ cmd'.ok /\ cmd'.source = "ssqls2" /\ cmd'.input \in DOMAIN tree
               /\ cmd'.input \in FileNames /\ exit' = Running
               /\ stack' = <<Frame(cmd'.input)>> /\ path' = PathWith(cmd'.input, <<>>)
            \/ /\ ~(cmd'.ok /\ cmd'.source = "ssqls2" /\ cmd'.input \in DOMAIN tree)
               /\ stack' = <<>> /\ path' = <<>> /\ exit' \in {1, 2}
<1> DEFINE c == CommandLine(options)
<1>1. CommandInv(c)
  BY CommandLineType
<1> DEFINE file == Opened(tree, c.input, <<>>)
           parses == c.ok /\ c.source = "ssqls2" /\ file # NoFile
<1>2. /\ exit # Running /\ UNCHANGED <<tree, dumped>> /\ cmd' = c
      /\ lastTable' = FALSE /\ lines' = <<>>
      /\ stack' = IF parses THEN <<Frame(file)>> ELSE <<>>
      /\ path' = IF parses THEN PathWith(c.input, <<>>) ELSE <<>>
      /\ exit' = IF parses THEN Running ELSE IF c.ok THEN 2 ELSE 1
  BY DEF Start
<1> HIDE DEF c
<1>3. file = IF c.input \in DOMAIN tree THEN c.input ELSE NoFile
  <2>1. c.input \in Seq(Words)
    BY <1>1 DEF CommandInv, CommandType
  <2> QED BY <2>1, OpenedPlain
<1> HIDE DEF file
<1>4. NoFile \notin DOMAIN tree
  BY DEF TypeInv, FileNames, NoFile
<1>5. parses <=> c.ok /\ c.source = "ssqls2" /\ c.input \in DOMAIN tree
  BY <1>3, <1>4
<1>6. parses => file = c.input /\ c.input \in FileNames
  BY <1>1, <1>3 DEF CommandInv
<1> HIDE DEF parses
<1>7. CASE parses
  BY <1>1, <1>2, <1>5, <1>6, <1>7
<1>8. CASE ~parses
  BY <1>1, <1>2, <1>5, <1>8
<1> QED BY <1>7, <1>8

(* A program that starts has the definition open, or ends.                 *)
LEMMA StartInv == ASSUME NEW options \in Commands PROVE Inv /\ Start(options) => Inv'
<1> SUFFICES ASSUME Inv, Start(options) PROVE Inv'
  OBVIOUS
<1>0. TypeInv /\ StackInv /\ OrderInv
  BY DEF Inv
<1>1. /\ UNCHANGED <<tree, dumped>> /\ CommandInv(cmd') /\ lastTable' = FALSE /\ lines' = <<>>
      /\ \/ /\ cmd'.ok /\ cmd'.source = "ssqls2" /\ cmd'.input \in DOMAIN tree
            /\ cmd'.input \in FileNames /\ exit' = Running
            /\ stack' = <<Frame(cmd'.input)>> /\ path' = PathWith(cmd'.input, <<>>)
         \/ stack' = <<>> /\ path' = <<>> /\ exit' \in {1, 2}
  BY <1>0, StartOpens
<1>2. lines' \in Seq(Parsable) /\ FollowsTable(lines') /\ FollowsTable(<<>>) /\ lastTable' \in BOOLEAN
  <2>1. <<>> \in Seq(Parsable) /\ FollowsTable(<<>>)
    BY DEF FollowsTable
  <2> QED BY <1>1, <2>1
<1>3. <<>> \in Seq(Seq(Words)) /\ MaxOpen \in Nat /\ 1 <= MaxOpen
  BY SizeAssumption
<1>4. CASE exit' = Running /\ stack' = <<Frame(cmd'.input)>> /\ cmd'.input \in DOMAIN tree
           /\ cmd'.input \in FileNames /\ path' = PathWith(cmd'.input, <<>>)
           /\ cmd'.ok /\ cmd'.source = "ssqls2"
  <2>1. PICK frame \in FrameType : /\ frame = Frame(cmd'.input) /\ frame.file = cmd'.input
                                   /\ frame.next = 1 /\ frame.lines = <<>>
    BY <1>4, FrameOf
  <2> HIDE DEF FrameType
  <2>2. stack' = <<frame>> /\ <<frame>> \in Seq(FrameType) /\ Len(<<frame>>) = 1 /\ <<frame>>[1] = frame
    BY <1>4, <2>1
  <2>3. path' \in Seq(Seq(Words))
    BY <1>3, <1>4, PathType
  <2>4. TypeInv'
    BY <1>0, <1>1, <1>2, <1>4, <2>2, <2>3 DEF TypeInv
  <2>5. Len(tree[cmd'.input]) \in Nat
    <3>1. tree[cmd'.input] \in Seq(TextLine)
      BY <1>0, <1>4 DEF TypeInv
    <3> QED BY <3>1
  <2>6. Len(stack') = 1 /\ stack'[1].file = cmd'.input /\ stack'[1].next = 1 /\ stack'[1].lines = <<>>
    BY <2>1, <2>2
  <2>7. \A i \in 1..1 : i = 1
    OBVIOUS
  <2>8. StackInv'
    <3>1. 1 <= Len(tree[cmd'.input]) + 1
      BY <2>5
    <3>2. 1..1 - 1 = {}
      OBVIOUS
    <3> QED BY <1>1, <1>3, <1>4, <2>6, <2>7, <3>1, <3>2 DEF StackInv
  <2>9. OrderInv'
    BY <1>0, <1>1, <1>2, <2>6, <2>7 DEF OrderInv
  <2> QED BY <2>4, <2>8, <2>9 DEF Inv
<1>5. CASE stack' = <<>> /\ path' = <<>> /\ exit' \in {1, 2}
  <2>1. stack' \in Seq(FrameType) /\ Len(stack') = 0
    BY <1>5
  <2>2. TypeInv'
    BY <1>0, <1>1, <1>2, <1>3, <1>5, <2>1 DEF TypeInv
  <2>3. StackInv'
    BY <1>3, <1>5, <2>1 DEF StackInv, Running
  <2>4. OrderInv'
    BY <1>0, <1>1, <1>2, <1>5, <2>1 DEF OrderInv
  <2> QED BY <2>2, <2>3, <2>4 DEF Inv
<1> QED BY <1>1, <1>4, <1>5

(* The invariant is inductive.                                             *)
LEMMA StepInv == Inv /\ [Next]_vars => Inv'
<1> SUFFICES ASSUME Inv, [Next]_vars PROVE Inv'
  OBVIOUS
<1>1. CASE UNCHANGED vars
  BY <1>1 DEF vars, Inv, TypeInv, StackInv, OrderInv, Top, Last
<1>2. ASSUME NEW options \in Commands, Start(options) PROVE Inv'
  BY <1>2, StartInv
<1>3. CASE Proceed
  BY <1>3, SkipLineInv, TakeLineInv, TakeIncludeInv, EndFileInv, GenerateInv, NoOutputInv DEF Proceed
<1> QED BY <1>1, <1>2, <1>3 DEF Next

(* Types, open files and the order of fields, always.                      *)
LEMMA SpecInv == Spec => []Inv
BY InitInv, StepInv, PTL DEF Spec

-----------------------------------------------------------------------------
(* The round trip                                                          *)

(* Output files hold what they were written from. *)
DumpInv == \A f \in DOMAIN dumped : tree[f] = WrittenFile(dumped[f])

(* What was written is read back. *)
Back ==
  cmd.ok /\ cmd.source = "ssqls2" /\ cmd.input # cmd.output /\ cmd.input \in DOMAIN dumped
Said == dumped[cmd.input]
ReadBack ==
  /\ \A k \in 1..Top.next - 1 : Fits(WrittenLine(Said[k]))
  /\ Top.lines = SubSeq(Said, 1, Top.next - 1)
  /\ Top.next > 1 /\ Said[Top.next - 1].kind \in {"table", "field"} => lastTable
BackInv == Back /\ stack # <<>> => Len(stack) = 1 /\ ReadBack

TripInv == Inv /\ DumpInv /\ BackInv /\ RoundTrip

(* Nothing has been written at first.                                      *)
LEMMA InitTrip == Init => TripInv
<1> SUFFICES ASSUME Init PROVE TripInv
  OBVIOUS
<1>1. stack = <<>> /\ DOMAIN dumped = {}
  BY DEF Init
<1> QED BY <1>1, InitInv DEF TripInv, DumpInv, BackInv, RoundTrip

(* A prefix that is one longer.                                            *)
LEMMA SubSeqMore ==
  ASSUME NEW C, NEW s \in Seq(C), NEW n \in 1..Len(s)
  PROVE  SubSeq(s, 1, n) = Append(SubSeq(s, 1, n - 1), s[n])
<1> DEFINE p == SubSeq(s, 1, n - 1)
           q == SubSeq(s, 1, n)
<1>0. Len(s) \in Nat /\ n \in Nat
  OBVIOUS
<1>1. n - 1 \in Nat /\ \A i \in 1..n - 1 : i \in 1..Len(s) /\ i \in 1..n
  OBVIOUS
<1>2. p \in Seq(C) /\ Len(p) = n - 1 /\ \A i \in 1..n - 1 : p[i] = s[i]
  OBVIOUS
<1>3. q \in Seq(C) /\ Len(q) = n /\ \A i \in 1..n : q[i] = s[i]
  OBVIOUS
<1>4. s[n] \in C
  BY ElementOfSeq
<1> HIDE DEF p, q
<1>5. /\ Append(p, s[n]) \in Seq(C) /\ Len(Append(p, s[n])) = n
      /\ \A i \in 1..n - 1 : Append(p, s[n])[i] = p[i]
      /\ Append(p, s[n])[n] = s[n]
  <2>1. (n - 1) + 1 = n
    OBVIOUS
  <2> QED BY <1>2, <1>4, <2>1, AppendProperties
<1>6. \A i \in 1..n : q[i] = Append(p, s[n])[i]
  <2>1. \A i \in 1..n : i \in 1..n - 1 \/ i = n
    OBVIOUS
  <2> QED BY <1>2, <1>3, <1>5, <2>1
<1>7. q = Append(p, s[n])
  BY <1>3, <1>5, <1>6, SeqEqual
<1> QED BY <1>7 DEF p, q

(* The file that is read back. *)
LEMMA BackLine ==
  ASSUME Inv, DumpInv, Back, BackInv, Reading
  PROVE  /\ Len(stack) = 1 /\ ReadBack /\ Top = stack[1] /\ Said \in Seq(Parsable) /\ FollowsTable(Said)
         /\ Top.next \in Nat \ {0} /\ Top.next <= Len(Said) + 1 /\ Top.lines \in Seq(Parsable)
         /\ HasLine <=> Top.next <= Len(Said) /\ Fits(WrittenLine(Said[Top.next]))
         /\ HasLine => Line = WrittenLine(Said[Top.next]) /\ Top.next \in 1..Len(Said)
<1>1. /\ Len(stack) \in Nat \ {0} /\ Top = stack[Len(stack)] /\ Top \in FrameType
      /\ Top.next \in Nat \ {0} /\ Top.next <= Len(tree[Top.file]) + 1 /\ stack # <<>>
  BY AtLine DEF Inv, Reading
<1>2. Len(stack) = 1 /\ ReadBack
  BY <1>1 DEF BackInv
<1>3. Top.file = cmd.input
  BY <1>1, <1>2 DEF Inv, StackInv
<1>4. Said \in Seq(Parsable) /\ FollowsTable(Said)
  BY DEF Inv, TypeInv, OrderInv, Back, Said
<1>5. tree[Top.file] = WrittenFile(Said)
  BY <1>3 DEF DumpInv, Back, Said
<1>6. Len(tree[Top.file]) = Len(Said) /\ Len(Said) \in Nat
  BY <1>4, <1>5, WrittenFileType
<1>7. \A k \in 1..Len(Said) : tree[Top.file][k] = WrittenLine(Said[k])
  BY <1>5 DEF WrittenFile
<1>8. Top.next <= Len(Said) => Top.next \in 1..Len(Said) /\ Line = WrittenLine(Said[Top.next])
  <2>1. Top.next <= Len(Said) => Top.next \in 1..Len(Said)
    BY <1>1, <1>6
  <2> QED BY <1>7, <2>1 DEF Line
<1>9. HasLine <=> Top.next <= Len(Said) /\ Fits(WrittenLine(Said[Top.next]))
  BY <1>6, <1>8 DEF HasLine
<1>10. Top.lines \in Seq(Parsable)
  BY <1>1 DEF FrameType
<1> QED BY <1>1, <1>2, <1>4, <1>6, <1>8, <1>9, <1>10

(* A line that was written is taken as the line it was written from.       *)
LEMMA TakeLineBack ==
  ASSUME Inv, DumpInv, BackInv, TakeLine, Back, Inv'
  PROVE  stack' # <<>> /\ BackInv'
<1> DEFINE k == Top.next
           l == Said[k]
<1>1. /\ Len(stack) = 1 /\ ReadBack /\ Top = stack[1] /\ Said \in Seq(Parsable) /\ FollowsTable(Said)
      /\ k \in 1..Len(Said) /\ Line = WrittenLine(l) /\ Fits(WrittenLine(l))
      /\ k \in Nat \ {0} /\ Top.lines \in Seq(Parsable)
  BY BackLine DEF TakeLine
<1>2. l \in Parsable
  BY <1>1, ElementOfSeq
<1>3. lastTable' = TableAfter(Line, lastTable) /\ lastTable \in BOOLEAN
  BY DEF TakeLine, Inv, TypeInv
<1> HIDE DEF l, k
<1>4. /\ l # BadLine /\ l.kind \in {"table", "field", "option"}
      /\ \A last : (l.kind = "field" => last) => Parsed(WrittenLine(l), last) = l
      /\ lastTable' = IF l.kind = "field" THEN lastTable ELSE l.kind = "table"
  BY <1>1, <1>2, <1>3, WrittenParsed
<1>5. l.kind = "field" => lastTable
  <2>1. l.kind = "field" => k > 1 /\ Said[k - 1].kind \in {"table", "field"}
    BY <1>1 DEF FollowsTable, l
  <2> QED BY <1>1, <2>1 DEF ReadBack, k
<1>6. l.kind = "field" => lastTable'
  BY <1>4, <1>5
<1>7. Parsed(Line, lastTable') = l
  BY <1>1, <1>4, <1>6
<1>8. /\ MovedTo(stack, stack', Len(stack), Append(Top.lines, l))
      /\ UNCHANGED <<tree, cmd, path, lines, exit, dumped, runs>>
  BY <1>4, <1>7, TakeLineMoves DEF Inv
<1>9. PICK ls \in Seq(Parsable) : ls = Append(Top.lines, l)
  <2>1. Append(Top.lines, l) \in Seq(Parsable)
    BY <1>1, <1>2, AppendProperties
  <2> QED BY <2>1
<1>10. /\ Len(stack') = 1 /\ Top' = stack'[1] /\ stack'[1] = MovedOn(Top, ls)
  BY <1>1, <1>8, <1>9 DEF MovedTo, Top, Last
<1>11. Top'.next = k + 1 /\ Top'.lines = ls
  BY <1>10 DEF MovedOn, k
<1>12. Said' = Said /\ Back' /\ stack' # <<>>
  <2>1. stack' # <<>>
    <3>1. Len(<<>>) = 0
      OBVIOUS
    <3> QED BY <1>10, <3>1
  <2>2. Said' = Said /\ Back'
    BY <1>8 DEF Said, Back
  <2> QED BY <2>1, <2>2
<1>13. PICK n : n = k + 1
  OBVIOUS
<1>14. n - 1 = k /\ n > 1 /\ \A i \in 1..n - 1 : i \in 1..k - 1 \/ i = k
  BY <1>1, <1>13
<1>15. ls = SubSeq(Said, 1, k)
  <2>1. Top.lines = SubSeq(Said, 1, k - 1)
    BY <1>1 DEF ReadBack, k
  <2> QED BY <1>1, <1>9, <2>1, SubSeqMore DEF l
<1>16. \A i \in 1..n - 1 : Fits(WrittenLine(Said[i]))
  BY <1>1, <1>14 DEF ReadBack, k, l
<1>17. Said[n - 1].kind \in {"table", "field"} => lastTable'
  BY <1>4, <1>5, <1>14 DEF l
<1>18. ReadBack'
  BY <1>11, <1>12, <1>13, <1>14, <1>15, <1>16, <1>17 DEF ReadBack
<1> QED BY <1>10, <1>12, <1>18 DEF BackInv

(* A written file ends behind its lines, or where one is too long.         *)
LEMMA EndFileBack ==
  ASSUME Inv, DumpInv, BackInv, EndFile, Back
  PROVE  stack' = <<>> /\ RoundTrip'
<1> DEFINE k == Top.next
           said == Said
           long == {i \in 1..Len(said) : ~Fits(WrittenLine(said[i]))}
           first == CHOOSE i \in long : \A j \in long : i <= j
<1>1. /\ Len(stack) = 1 /\ ReadBack /\ said \in Seq(Parsable)
      /\ k \in Nat \ {0} /\ k <= Len(said) + 1 /\ Len(said) \in Nat
      /\ ~(k <= Len(said) /\ Fits(WrittenLine(said[k])))
  BY BackLine, LenProperties DEF EndFile
<1>2. /\ lines' = Top.lines /\ stack' = <<>> /\ UNCHANGED <<cmd, dumped>>
      /\ Top.lines = SubSeq(said, 1, k - 1) /\ \A i \in 1..k - 1 : Fits(WrittenLine(said[i]))
  BY <1>1 DEF EndFile, ReadBack
<1> HIDE DEF said, k
<1>3. lines' = IF long = {} THEN said ELSE SubSeq(said, 1, first - 1)
  <2>1. CASE k = Len(said) + 1
    <3>1. k - 1 = Len(said)
      BY <1>1, <2>1
    <3>2. long = {}
      BY <1>2, <3>1
    <3>3. SubSeq(said, 1, Len(said)) = said
      BY <1>1, SubSeqFull
    <3> QED BY <1>2, <3>1, <3>2, <3>3
  <2>2. CASE k # Len(said) + 1
    <3>1. k <= Len(said) /\ k \in 1..Len(said)
      BY <1>1, <2>2
    <3>2. k \in long
      BY <1>1, <3>1
    <3>3. \A i \in long : k <= i
      <4> SUFFICES ASSUME NEW i \in long, ~(k <= i) PROVE FALSE
        OBVIOUS
      <4>1. i \in 1..k - 1
        BY <1>1
      <4> QED BY <1>2, <4>1
    <3>4. long \subseteq Nat
      BY <1>1
    <3>5. first = k
      <4> HIDE DEF long
      <4>1. \E i \in long : \A j \in long : i <= j
        BY <3>2, <3>3
      <4>2. first \in long /\ \A j \in long : first <= j
        BY <4>1
      <4>3. first <= k /\ k <= first /\ first \in Nat /\ k \in Nat
        BY <1>1, <3>2, <3>3, <3>4, <4>2
      <4> QED BY <4>3
    <3>6. long # {}
      BY <3>2
    <3> QED BY <1>2, <3>5, <3>6
  <2> QED BY <2>1, <2>2
<1>4. said = dumped'[cmd'.input]
  BY <1>2 DEF said, Said
<1> QED BY <1>2, <1>3, <1>4 DEF RoundTrip

(* The invariant of the round trip is inductive.                           *)
LEMMA StepTrip == TripInv /\ [Next]_vars => TripInv'
<1> SUFFICES ASSUME TripInv, [Next]_vars PROVE TripInv'
  OBVIOUS
<1>0. Inv /\ DumpInv /\ BackInv /\ RoundTrip /\ Inv' /\ TypeInv
  BY StepInv DEF TripInv, Inv
<1>1. CASE UNCHANGED vars
  <2> USE DEF TripInv
  <2>1. UNCHANGED <<tree, cmd, stack, lastTable, lines, dumped>>
    BY <1>1 DEF vars
  <2>2. DumpInv'
    BY <2>1 DEF DumpInv
  <2>3. BackInv'
    BY <2>1 DEF BackInv, Back, Said, ReadBack, Top, Last
  <2>4. RoundTrip'
    BY <2>1 DEF RoundTrip
  <2> QED BY <1>0, <2>2, <2>3, <2>4
<1>2. ASSUME UNCHANGED <<tree, dumped>> PROVE DumpInv'
  BY <1>0, <1>2 DEF DumpInv
<1>3. ASSUME UNCHANGED <<cmd, dumped>> PROVE ~Back => ~Back'
  BY <1>3 DEF Back
<1>4. ASSUME ~Back' PROVE RoundTrip' /\ BackInv'
  BY <1>4 DEF Back, RoundTrip, BackInv
<1>5. CASE SkipLine
  <2>1. UNCHANGED <<tree, cmd, dumped>>
    BY <1>5 DEF SkipLine
  <2>2. ~Back
    <3> SUFFICES ASSUME Back PROVE FALSE
      OBVIOUS
    <3>1. Line = WrittenLine(Said[Top.next]) /\ Top.next \in 1..Len(Said) /\ Said \in Seq(Parsable)
      BY <1>0, <1>5, BackLine DEF SkipLine
    <3>2. Said[Top.next] \in Parsable
      BY <3>1, ElementOfSeq
    <3>3. WrittenLine(Said[Top.next]).words # <<>>
      BY <3>2, WrittenParsed
    <3> QED BY <1>5, <3>1, <3>3 DEF SkipLine
  <2> QED BY <1>0, <1>2, <1>3, <1>4, <2>1, <2>2 DEF TripInv
<1>6. CASE TakeLine
  <2>1. UNCHANGED <<tree, cmd, dumped>>
    BY <1>6 DEF TakeLine, Refuse
  <2>2. CASE Back
    <3>1. stack' # <<>> /\ BackInv'
      BY <1>0, <1>6, <2>2, TakeLineBack
    <3> QED BY <1>0, <1>2, <2>1, <3>1 DEF TripInv, RoundTrip
  <2> QED BY <1>0, <1>2, <1>3, <1>4, <2>1, <2>2 DEF TripInv
<1>7. CASE TakeInclude
  <2>1. UNCHANGED <<tree, cmd, dumped>>
    BY <1>7 DEF TakeInclude, Refuse
  <2>2. ~Back
    <3> SUFFICES ASSUME Back PROVE FALSE
      OBVIOUS
    <3>1. Line = WrittenLine(Said[Top.next]) /\ Top.next \in 1..Len(Said) /\ Said \in Seq(Parsable)
      BY <1>0, <1>7, BackLine DEF TakeInclude, AtDirective
    <3>2. Said[Top.next] \in Parsable
      BY <3>1, ElementOfSeq
    <3>3. WrittenLine(Said[Top.next]).words[1] # "include"
      BY <3>2, WrittenParsed
    <3> QED BY <1>7, <3>1, <3>3 DEF TakeInclude, AtDirective
  <2> QED BY <1>0, <1>2, <1>3, <1>4, <2>1, <2>2 DEF TripInv
<1>8. CASE EndFile
  <2>1. UNCHANGED <<tree, cmd, dumped>>
    BY <1>8 DEF EndFile
  <2>2. CASE Back
    <3>1. stack' = <<>> /\ RoundTrip'
      BY <1>0, <1>8, <2>2, EndFileBack
    <3> QED BY <1>0, <1>2, <2>1, <3>1 DEF TripInv, BackInv
  <2> QED BY <1>0, <1>2, <1>3, <1>4, <2>1, <2>2 DEF TripInv
<1>9. CASE Generate
  <2>1. stack = <<>> /\ UNCHANGED <<cmd, stack, lines>>
    BY <1>9 DEF Generate
  <2>2. CASE UNCHANGED <<tree, dumped>>
    <3>1. BackInv' /\ RoundTrip'
      BY <1>0, <2>1, <2>2 DEF BackInv, RoundTrip
    <3> QED BY <1>0, <1>2, <2>2, <3>1 DEF TripInv
  <2>3. CASE ~UNCHANGED <<tree, dumped>>
    <3>1. /\ DOMAIN dumped' = DOMAIN dumped \cup {cmd.output} /\ DOMAIN dumped \subseteq DOMAIN tree
          /\ tree'[cmd.output] = WrittenFile(lines) /\ dumped'[cmd.output] = lines
          /\ \A f \in DOMAIN tree : f # cmd.output => tree'[f] = tree[f]
          /\ \A f \in DOMAIN dumped : f # cmd.output => dumped'[f] = dumped[f]
      BY <1>0, <1>9, <2>3, GenerateWrites DEF TypeInv
    <3>2. DumpInv'
      <4> SUFFICES ASSUME NEW f \in DOMAIN dumped' PROVE tree'[f] = WrittenFile(dumped'[f])
        BY DEF DumpInv
      <4>1. CASE f = cmd.output
        BY <3>1, <4>1
      <4>2. CASE f # cmd.output
        BY <1>0, <3>1, <4>2 DEF DumpInv
      <4> QED BY <4>1, <4>2
    <3>3. BackInv'
      BY <2>1 DEF BackInv
    <3>4. RoundTrip'
      <4>1. CASE ~Back'
        BY <1>4, <4>1
      <4>2. CASE Back'
        <5>1. Back /\ dumped'[cmd'.input] = dumped[cmd.input]
          BY <2>1, <3>1, <4>2 DEF Back
        <5> QED BY <1>0, <2>1, <5>1 DEF RoundTrip, Back
      <4> QED BY <4>1, <4>2
    <3> QED BY <1>0, <3>2, <3>3, <3>4 DEF TripInv
  <2> QED BY <2>2, <2>3
<1>10. CASE NoOutput
  <2>1. stack = <<>> /\ UNCHANGED <<tree, cmd, stack, lines, dumped>>
    BY <1>10 DEF NoOutput
  <2> QED BY <1>0, <1>2, <2>1 DEF TripInv, BackInv, RoundTrip
<1>11. ASSUME NEW options \in Commands, Start(options) PROVE TripInv'
  <2>1. /\ UNCHANGED <<tree, dumped>>
        /\ \/ stack' = <<Frame(cmd'.input)>> /\ cmd'.input \in FileNames
           \/ /\ ~(cmd'.ok /\ cmd'.source = "ssqls2" /\ cmd'.input \in DOMAIN tree)
              /\ stack' = <<>>
    BY <1>0, <1>11, StartOpens
  <2>2. CASE ~Back'
    BY <1>0, <1>2, <1>4, <2>1, <2>2 DEF TripInv
  <2>3. CASE Back'
    <3>1. stack' = <<Frame(cmd'.input)>> /\ cmd'.input \in FileNames
      BY <1>0, <2>1, <2>3 DEF Back, TypeInv
    <3>2. PICK frame : /\ stack' = <<frame>> /\ frame.next = 1 /\ frame.lines = <<>>
      BY <3>1, FrameOf
    <3>3. stack' # <<>> /\ Len(stack') = 1 /\ Top' = frame
      BY <3>2 DEF Top, Last
    <3>4. SubSeq(Said', 1, 0) = <<>>
      BY SubSeqEmpty
    <3>5. 1 - 1 = 0 /\ 1..0 = {} /\ ~(1 > 1)
      OBVIOUS
    <3>6. ReadBack'
      BY <3>2, <3>3, <3>4, <3>5 DEF ReadBack
    <3> QED BY <1>0, <1>2, <2>1, <3>3, <3>6 DEF TripInv, BackInv, RoundTrip
  <2> QED BY <2>2, <2>3
<1> QED BY <1>1, <1>5, <1>6, <1>7, <1>8, <1>9, <1>10, <1>11 DEF Next, Proceed

(* A definition that -o wrote says the same when it is read back, up to    *)
(* the first line that is too long, for all definitions and commands.      *)
THEOREM DefinitionsReadBack == Spec => []RoundTrip
<1>1. TripInv => RoundTrip
  BY DEF TripInv
<1> QED BY <1>1, InitTrip, StepTrip, PTL DEF Spec

-----------------------------------------------------------------------------
(* What a file stands for, with the files it includes                      *)

AddsNext(files, included, x, k) ==
  UpTo(files, included, x)[k]
  = Adds(files, included, UpTo(files, included, x)[k - 1], files[x.file][k])

(* What the lines of a file add up to, one after the other. *)
LEMMA UpToSteps ==
  ASSUME NEW files, NEW included, NEW x, Len(files[x.file]) \in Nat
  PROVE  /\ UpTo(files, included, x)[0] = [lines |-> <<>>, dirs |-> x.dirs]
         /\ \A k \in 1..Len(files[x.file]) : AddsNext(files, included, x, k)
<1> DEFINE n == Len(files[x.file])
           nothing == [lines |-> <<>>, dirs |-> x.dirs]
           Steps(f, m) == f = [k \in 0..m |-> IF k = 0 THEN nothing
                                              ELSE Adds(files, included, f[k - 1], files[x.file][k])]
           S == {m \in 0..n : \E f : Steps(f, m)}
<1>1. n \in Nat
  OBVIOUS
<1> HIDE DEF nothing
<1>2. 0 \in S
  <2>1. \E f : Steps(f, 0)
    <3>1. Steps([k \in {0} |-> nothing], 0)
      <4>1. 0..0 = {0} /\ \A k \in {0} : k = 0
        OBVIOUS
      <4> QED BY <4>1
    <3> HIDE DEF Steps
    <3> QED BY <3>1
  <2> HIDE DEF Steps, n
  <2> QED BY <1>1, <2>1
<1>3. ASSUME NEW m \in 1..n, m - 1 \in S PROVE m \in S
  <2>1. PICK f : Steps(f, m - 1)
    BY <1>3
  <2> DEFINE g == [k \in 0..m |-> IF k = 0 THEN nothing
                                  ELSE Adds(files, included, f[k - 1], files[x.file][k])]
  <2>2. ASSUME NEW k \in 0..m, k # 0 PROVE g[k - 1] = f[k - 1]
    <3>1. k - 1 \in 0..m /\ k - 1 \in 0..m - 1
      <4> HIDE DEF n
      <4> QED BY <1>1, <2>2
    <3>2. f[k - 1] = IF k - 1 = 0 THEN nothing
                     ELSE Adds(files, included, f[(k - 1) - 1], files[x.file][k - 1])
      BY <2>1, <3>1
    <3>3. g[k - 1] = IF k - 1 = 0 THEN nothing
                     ELSE Adds(files, included, f[(k - 1) - 1], files[x.file][k - 1])
      BY <3>1
    <3> QED BY <3>2, <3>3
  <2>3. Steps(g, m)
    <3>1. ASSUME NEW k \in 0..m
          PROVE  (IF k = 0 THEN nothing ELSE Adds(files, included, f[k - 1], files[x.file][k]))
                 = (IF k = 0 THEN nothing ELSE Adds(files, included, g[k - 1], files[x.file][k]))
      <4> HIDE DEF g
      <4> QED BY <2>2
    <3> QED BY <3>1
  <2>4. m \in 0..n
    <3> HIDE DEF n
    <3> QED BY <1>1
  <2> HIDE DEF Steps, g, n
  <2> QED BY <2>3, <2>4
<1>4. \E f : Steps(f, n)
  <2>1. 0..n \subseteq S
    <3> HIDE DEF S, n
    <3> QED BY <1>1, <1>2, <1>3, Upwards
  <2>2. n \in 0..n
    <3> HIDE DEF n
    <3> QED BY <1>1
  <2>3. n \in S
    <3> HIDE DEF S
    <3> QED BY <2>1, <2>2
  <2> QED BY <2>3
<1> DEFINE f == CHOOSE f : Steps(f, n)
<1>5. Steps(f, n)
  BY <1>4
<1>6. UpTo(files, included, x) = f
  BY DEF UpTo, nothing
<1> HIDE DEF f
<1>7. \A k \in 0..n : f[k] = IF k = 0 THEN nothing
                             ELSE Adds(files, included, f[k - 1], files[x.file][k])
  BY <1>5
<1>8. 0 \in 0..n /\ \A k \in 1..n : k \in 0..n /\ k # 0
  <2> HIDE DEF n
  <2> QED BY <1>1
<1> QED BY <1>6, <1>7, <1>8 DEF nothing, AddsNext

Starts(files) == [file : DOMAIN files, dirs : Seq(Seq(Words))]

(* What a file stands for, with one more that may be open. *)
LEMMA ExpandedSteps ==
  ASSUME NEW files, NEW opens \in 1..MaxOpen, NEW x \in Starts(files)
  PROVE  Expanded(files)[opens][x] = UpTo(files, Expanded(files)[opens - 1], x)[Len(files[x.file])]
<1> DEFINE Whole(e, i) ==
             [y \in Starts(files) |->
                IF i = 0 THEN [lines |-> <<>>, dirs |-> y.dirs]
                ELSE UpTo(files, e, y)[Len(files[y.file])]]
           Steps(f, m) == f = [i \in 0..m |-> Whole(f[i - 1], i)]
           S == {m \in 0..MaxOpen : \E f : Steps(f, m)}
<1>1. MaxOpen \in Nat
  BY SizeAssumption
<1>0. ASSUME NEW e, NEW d PROVE Whole(e, 0) = Whole(d, 0)
  OBVIOUS
<1> HIDE DEF Whole
<1>2. 0 \in S
  <2>1. \E f : Steps(f, 0)
    <3> DEFINE f == [i \in {0} |-> Whole(<<>>, 0)]
    <3>1. f = [i \in 0..0 |-> Whole(f[i - 1], i)]
      <4>1. 0..0 = {0} /\ \A i \in {0} : i = 0
        OBVIOUS
      <4>2. \A i \in {0} : Whole(f[i - 1], i) = Whole(<<>>, 0)
        BY <1>0, <4>1
      <4> QED BY <4>1, <4>2
    <3>2. Steps(f, 0)
      BY <3>1
    <3> HIDE DEF Steps, f
    <3> QED BY <3>2
  <2> HIDE DEF Steps
  <2> QED BY <1>1, <2>1
<1>3. ASSUME NEW m \in 1..MaxOpen, m - 1 \in S PROVE m \in S
  <2>1. PICK f : Steps(f, m - 1)
    BY <1>3
  <2> DEFINE g == [i \in 0..m |-> Whole(f[i - 1], i)]
  <2>2. ASSUME NEW i \in 0..m, i # 0 PROVE g[i - 1] = f[i - 1]
    <3>1. i - 1 \in 0..m /\ i - 1 \in 0..m - 1
      BY <1>1, <2>2
    <3>2. f[i - 1] = Whole(f[(i - 1) - 1], i - 1)
      BY <2>1, <3>1
    <3>3. g[i - 1] = Whole(f[(i - 1) - 1], i - 1)
      BY <3>1
    <3> QED BY <3>2, <3>3
  <2>3. Steps(g, m)
    <3>1. ASSUME NEW i \in 0..m PROVE Whole(f[i - 1], i) = Whole(g[i - 1], i)
      <4> HIDE DEF g
      <4>1. CASE i = 0
        BY <1>0, <4>1
      <4>2. CASE i # 0
        BY <2>2, <4>2
      <4> QED BY <4>1, <4>2
    <3> QED BY <3>1
  <2>4. m \in 0..MaxOpen
    BY <1>1
  <2> HIDE DEF Steps, g
  <2> QED BY <2>3, <2>4
<1>4. \E f : Steps(f, MaxOpen)
  <2>1. 0..MaxOpen \subseteq S
    <3> HIDE DEF S
    <3> QED BY <1>1, <1>2, <1>3, Upwards
  <2>2. MaxOpen \in 0..MaxOpen
    BY <1>1
  <2>3. MaxOpen \in S
    <3> HIDE DEF S
    <3> QED BY <2>1, <2>2
  <2> QED BY <2>3
<1> DEFINE f == CHOOSE f : Steps(f, MaxOpen)
<1>5. Steps(f, MaxOpen)
  BY <1>4
<1>6. Expanded(files) = f
  BY DEF Expanded, Whole, Starts
<1> HIDE DEF f
<1>7. f[opens] = Whole(f[opens - 1], opens)
  <2>1. opens \in 0..MaxOpen
    BY <1>1
  <2> QED BY <1>5, <2>1
<1>8. opens # 0
  BY <1>1
<1> QED BY <1>6, <1>7, <1>8 DEF Whole

-----------------------------------------------------------------------------
(* The lines of the open files                                             *)

AllFit == \A f \in DOMAIN tree : \A k \in 1..Len(tree[f]) : Fits(tree[f][k])

(* What the lines that a file has taken add up to, for the i-th of the     *)
(* open files, which was opened with a search path `start`.                *)
Sum(files, i, frame, start) ==
  UpTo(files, Expanded(files)[MaxOpen - i], [file |-> frame.file, dirs |-> start])[frame.next - 1]

(* A file that includes another, for which its line is the reason. *)
Includes(files, before, line, file, start) ==
  LET name == FileNamed[line.words[2]]
  IN /\ line.words # <<>> /\ line.words[1] = "include"
     /\ file = Opened(files, name, before.dirs) /\ start = PathWith(name, before.dirs)

Traced(starts) ==
  LET n == Len(stack)
      sum(i) == Sum(tree, i, stack[i], starts[i])
  IN /\ \A i \in 1..n : starts[i] \in Seq(Seq(Words))
     /\ starts[1] = PathWith(cmd.input, <<>>)
     /\ \A i \in 1..n : stack[i].lines = sum(i).lines
     /\ \A i \in 1..n - 1 : Includes(tree, sum(i), tree[stack[i].file][stack[i].next],
                                     stack[i + 1].file, starts[i + 1])
     /\ path = sum(n).dirs

WholeInv ==
  AllFit =>
    /\ stack # <<>> => \E starts : Traced(starts)
    /\ ParsedAll => lines = Expanded(tree)[MaxOpen][[file |-> cmd.input,
                                                     dirs |-> PathWith(cmd.input, <<>>)]].lines

(* A file adds up to nothing before its first line.                        *)
LEMMA FirstSum ==
  ASSUME NEW files, NEW i, NEW start, NEW frame, Len(files[frame.file]) \in Nat, frame.next = 1
  PROVE  Sum(files, i, frame, start) = [lines |-> <<>>, dirs |-> start]
<1> DEFINE x == [file |-> frame.file, dirs |-> start]
<1>1. x.file = frame.file /\ x.dirs = start /\ 1 - 1 = 0
  OBVIOUS
<1> HIDE DEF x
<1>2. PICK e : e = Expanded(files)[MaxOpen - i]
  OBVIOUS
<1>3. UpTo(files, e, x)[0] = [lines |-> <<>>, dirs |-> x.dirs]
  BY <1>1, UpToSteps
<1> QED BY <1>1, <1>2, <1>3 DEF Sum, x

(* A file that moves on adds its line.                                     *)
LEMMA NextSum ==
  ASSUME NEW files, NEW i, NEW start, NEW frame \in FrameType, NEW ls,
         Len(files[frame.file]) \in Nat, frame.next \in 1..Len(files[frame.file])
  PROVE  Sum(files, i, MovedOn(frame, ls), start)
         = Adds(files, Expanded(files)[MaxOpen - i], Sum(files, i, frame, start),
                files[frame.file][frame.next])
<1> DEFINE x == [file |-> frame.file, dirs |-> start]
<1>1. x.file = frame.file
  OBVIOUS
<1> HIDE DEF x
<1>2. PICK e : e = Expanded(files)[MaxOpen - i]
  OBVIOUS
<1>3. PICK k : k = frame.next
  OBVIOUS
<1>4. k \in 1..Len(files[x.file]) /\ Len(files[x.file]) \in Nat
  BY <1>1, <1>3
<1>5. UpTo(files, e, x)[k] = Adds(files, e, UpTo(files, e, x)[k - 1], files[x.file][k])
  <2>1. AddsNext(files, e, x, k)
    BY <1>4, UpToSteps
  <2> QED BY <2>1 DEF AddsNext
<1>6. MovedOn(frame, ls).file = frame.file /\ MovedOn(frame, ls).next = k + 1 /\ (k + 1) - 1 = k
  <2>1. k \in Nat
    BY <1>4
  <2> QED BY <1>3, <2>1 DEF MovedOn
<1>7. Sum(files, i, MovedOn(frame, ls), start) = UpTo(files, e, x)[k]
  BY <1>2, <1>6 DEF Sum, x
<1>8. Sum(files, i, frame, start) = UpTo(files, e, x)[k - 1]
  BY <1>2, <1>3 DEF Sum, x
<1> QED BY <1>1, <1>2, <1>3, <1>5, <1>7, <1>8

(* A file that has been taken to its end adds up to what it stands for.    *)
LEMMA LastSum ==
  ASSUME NEW files, NEW i \in 1..MaxOpen, NEW start \in Seq(Seq(Words)), NEW frame,
         frame.file \in DOMAIN files, frame.next - 1 = Len(files[frame.file])
  PROVE  Sum(files, i, frame, start)
         = Expanded(files)[MaxOpen - i + 1][[file |-> frame.file, dirs |-> start]]
<1> DEFINE x == [file |-> frame.file, dirs |-> start]
<1>1. x \in Starts(files) /\ x.file = frame.file
  BY DEF Starts
<1> HIDE DEF x
<1>2. PICK o : o = MaxOpen - i + 1
  OBVIOUS
<1>3. o \in 1..MaxOpen /\ o - 1 = MaxOpen - i
  BY <1>2, SizeAssumption
<1>4. Expanded(files)[o][x] = UpTo(files, Expanded(files)[o - 1], x)[Len(files[x.file])]
  BY <1>1, <1>3, ExpandedSteps
<1> QED BY <1>1, <1>2, <1>3, <1>4 DEF Sum, x

(* The trace goes on with the file that goes on. *)
LEMMA MovedTrace ==
  ASSUME TypeInv, NEW starts, Traced(starts), NEW m \in 1..Len(stack), NEW ls,
         MovedTo(stack, stack', m, ls), UNCHANGED <<tree, cmd>>,
         LET sum == Sum(tree, m, MovedOn(stack[m], ls), starts[m]) IN ls = sum.lines /\ path' = sum.dirs
  PROVE  (\E s : Traced(s))'
<1>1. Len(stack) \in Nat /\ m \in Nat \ {0} /\ m <= Len(stack)
  BY DEF TypeInv
<1>2. /\ Len(stack') = m /\ \A i \in 1..m - 1 : stack'[i] = stack[i]
      /\ stack'[m] = MovedOn(stack[m], ls)
  BY DEF MovedTo
<1>3. MovedOn(stack[m], ls).lines = ls /\ MovedOn(stack[m], ls).file = stack[m].file
  BY DEF MovedOn
<1>4. /\ \A i \in 1..m : (i \in 1..m - 1 \/ i = m) /\ i \in 1..Len(stack)
      /\ \A i \in 1..m - 1 : i \in 1..Len(stack) - 1 /\ i + 1 \in 1..m
      /\ 1 \in 1..m
  BY <1>1
<1>5. \A i \in 1..m : starts[i] \in Seq(Seq(Words))
  BY <1>4 DEF Traced
<1>6. starts[1] = PathWith(cmd'.input, <<>>)
  BY DEF Traced
<1>7. \A i \in 1..m : stack'[i].lines = Sum(tree', i, stack'[i], starts[i]).lines
  <2>1. ASSUME NEW i \in 1..m - 1
        PROVE  stack'[i].lines = Sum(tree', i, stack'[i], starts[i]).lines
    <3>1. stack'[i] = stack[i] /\ i \in 1..Len(stack) /\ tree' = tree
      BY <1>2, <1>4
    <3>2. stack[i].lines = Sum(tree, i, stack[i], starts[i]).lines
      BY <3>1 DEF Traced
    <3> QED BY <3>1, <3>2
  <2>2. stack'[m].lines = Sum(tree', m, stack'[m], starts[m]).lines
    BY <1>2, <1>3
  <2> QED BY <1>4, <2>1, <2>2
<1>8. ASSUME NEW i \in 1..m - 1
      PROVE  Includes(tree', Sum(tree', i, stack'[i], starts[i]), tree'[stack'[i].file][stack'[i].next],
                      stack'[i + 1].file, starts[i + 1])
  <2>1. stack'[i + 1].file = stack[i + 1].file
    BY <1>2, <1>3, <1>4
  <2> QED BY <1>2, <1>4, <2>1 DEF Traced
<1>9. path' = Sum(tree', m, stack'[m], starts[m]).dirs
  BY <1>2
<1>10. Traced(starts)'
  BY <1>2, <1>5, <1>6, <1>7, <1>8, <1>9 DEF Traced
<1> QED BY <1>10

(* Nothing has been parsed at first.                                       *)
LEMMA InitWhole == Init => WholeInv
BY DEF Init, WholeInv, ParsedAll, Running

(* The line that a file is at. *)
LEMMA TopSum ==
  ASSUME Inv, Reading, NEW starts, Traced(starts), NEW ls
  PROVE  LET n == Len(stack)
             before == Sum(tree, n, stack[n], starts[n])
         IN /\ n \in 1..Len(stack) /\ n \in Nat \ {0} /\ Top = stack[n] /\ Top \in FrameType
            /\ Top.lines = before.lines /\ path = before.dirs /\ Top.lines \in Seq(Parsable)
            /\ HasLine => Sum(tree, n, MovedOn(stack[n], ls), starts[n])
                          = Adds(tree, Expanded(tree)[MaxOpen - n], before, Line)
<1> DEFINE n == Len(stack)
           before == Sum(tree, n, stack[n], starts[n])
<1>1. /\ n \in Nat \ {0} /\ Top = stack[n] /\ Top \in FrameType
      /\ tree[Top.file] \in Seq(TextLine)
      /\ HasLine => Top.next \in 1..Len(tree[Top.file])
  BY AtLine DEF Inv
<1>2. n \in 1..n
  BY <1>1
<1>3. Top.lines = before.lines /\ path = before.dirs
  BY <1>1, <1>2 DEF Traced
<1>4. Top.lines \in Seq(Parsable)
  BY <1>1 DEF FrameType
<1>5. Len(tree[Top.file]) \in Nat
  BY <1>1, LenProperties
<1>6. HasLine => Sum(tree, n, MovedOn(stack[n], ls), starts[n])
                 = Adds(tree, Expanded(tree)[MaxOpen - n], before, Line)
  <2> SUFFICES ASSUME HasLine
               PROVE  Sum(tree, n, MovedOn(stack[n], ls), starts[n])
                      = Adds(tree, Expanded(tree)[MaxOpen - n], before, Line)
    OBVIOUS
  <2> DEFINE frame == Top
             start == starts[n]
  <2>1. frame \in FrameType /\ frame = stack[n] /\ Line = tree[frame.file][frame.next]
        /\ Len(tree[frame.file]) \in Nat /\ frame.next \in 1..Len(tree[frame.file])
    BY <1>1, <1>5 DEF Line
  <2> HIDE DEF frame, start, FrameType, n
  <2>2. Sum(tree, n, MovedOn(frame, ls), start)
        = Adds(tree, Expanded(tree)[MaxOpen - n], Sum(tree, n, frame, start),
               tree[frame.file][frame.next])
    BY <2>1, NextSum
  <2> QED BY <2>1, <2>2 DEF start
<1> QED BY <1>1, <1>2, <1>3, <1>4, <1>6

(* An empty line adds nothing.                                             *)
LEMMA SkipLineWhole ==
  ASSUME Inv, SkipLine, NEW starts, Traced(starts)
  PROVE  (\E s : Traced(s))'
<1> DEFINE n == Len(stack)
           before == Sum(tree, n, stack[n], starts[n])
           ls == Top.lines
<1>1. Reading /\ HasLine /\ Line.words = <<>> /\ UNCHANGED <<tree, cmd, path>>
  BY DEF SkipLine
<1>2. MovedTo(stack, stack', n, ls)
  BY SkipLineMoves DEF Inv
<1>3. /\ n \in 1..Len(stack) /\ ls = before.lines /\ path = before.dirs
      /\ Sum(tree, n, MovedOn(stack[n], ls), starts[n])
         = Adds(tree, Expanded(tree)[MaxOpen - n], before, Line)
  BY <1>1, TopSum
<1> HIDE DEF before, ls
<1>4. Sum(tree, n, MovedOn(stack[n], ls), starts[n]) = before
  <2>1. Adds(tree, Expanded(tree)[MaxOpen - n], before, Line) = before
    BY <1>1 DEF Adds
  <2> QED BY <1>3, <2>1
<1> HIDE DEF n
<1>5. LET sum == Sum(tree, n, MovedOn(stack[n], ls), starts[n]) IN ls = sum.lines /\ path' = sum.dirs
  BY <1>1, <1>3, <1>4
<1>6. TypeInv /\ UNCHANGED <<tree, cmd>>
  BY <1>1 DEF Inv
<1> QED BY <1>2, <1>3, <1>5, <1>6, MovedTrace

(* A directive adds itself.                                                *)
LEMMA TakeLineWhole ==
  ASSUME Inv, TakeLine, stack' # <<>>, NEW starts, Traced(starts)
  PROVE  (\E s : Traced(s))'
<1> DEFINE n == Len(stack)
           before == Sum(tree, n, stack[n], starts[n])
           l == Parsed(Line, lastTable')
           ls == Append(Top.lines, l)
<1>1. /\ Reading /\ HasLine /\ Line.words # <<>> /\ Line.words[1] # "include"
      /\ lastTable' = TableAfter(Line, lastTable)
  BY DEF TakeLine
<1>2. l # BadLine
  BY DEF TakeLine, Refuse
<1>3. MovedTo(stack, stack', n, ls) /\ UNCHANGED <<tree, cmd, path>>
  BY <1>2, TakeLineMoves DEF Inv
<1>4. Parsed(Line, TRUE) = l
  <2>1. Line \in TextLine /\ lastTable \in BOOLEAN
    BY <1>1, AtLine DEF Inv, TypeInv
  <2> QED BY <1>1, <1>2, <2>1, ParsedType
<1>5. /\ n \in 1..Len(stack) /\ Top.lines = before.lines /\ path = before.dirs
      /\ Sum(tree, n, MovedOn(stack[n], ls), starts[n])
         = Adds(tree, Expanded(tree)[MaxOpen - n], before, Line)
  BY <1>1, TopSum
<1> HIDE DEF before, l
<1>6. /\ Sum(tree, n, MovedOn(stack[n], ls), starts[n]).lines = ls
      /\ Sum(tree, n, MovedOn(stack[n], ls), starts[n]).dirs = path
  <2>1. Adds(tree, Expanded(tree)[MaxOpen - n], before, Line)
        = [lines |-> Append(before.lines, Parsed(Line, TRUE)), dirs |-> before.dirs]
    BY <1>1 DEF Adds
  <2>2. Append(before.lines, Parsed(Line, TRUE)) = ls
    BY <1>4, <1>5
  <2>3. PICK sum : sum = Sum(tree, n, MovedOn(stack[n], ls), starts[n])
    OBVIOUS
  <2>4. PICK was : was = before
    OBVIOUS
  <2>5. sum = [lines |-> Append(was.lines, Parsed(Line, TRUE)), dirs |-> was.dirs]
    BY <1>5, <2>1, <2>3, <2>4
  <2>6. sum.lines = Append(was.lines, Parsed(Line, TRUE)) /\ sum.dirs = was.dirs
    BY <2>5
  <2> QED BY <1>5, <2>2, <2>3, <2>4, <2>6
<1> HIDE DEF n, ls
<1>7. LET sum == Sum(tree, n, MovedOn(stack[n], ls), starts[n]) IN ls = sum.lines /\ path' = sum.dirs
  BY <1>3, <1>6
<1>8. TypeInv /\ UNCHANGED <<tree, cmd>>
  BY <1>3 DEF Inv
<1> QED BY <1>3, <1>5, <1>7, <1>8, MovedTrace

(* An included file begins with nothing. *)
LEMMA TakeIncludeWhole ==
  ASSUME Inv, TakeInclude, stack' # <<>>, NEW starts, Traced(starts)
  PROVE  (\E s : Traced(s))'
<1> DEFINE name == FileNamed[Line.words[2]]
           file == Opened(tree, name, path)
           more == [i \in 1..Len(stack) + 1 |->
                      IF i = Len(stack) + 1 THEN PathWith(name, path) ELSE starts[i]]
<1>1. /\ Reading /\ HasLine /\ Line.words # <<>> /\ Line.words[1] = "include"
      /\ TypeInv /\ StackInv
  BY DEF TakeInclude, AtDirective, Inv
<1>2. PICK n \in Nat \ {0} : n = Len(stack)
  BY <1>1, AtLine
<1>3. /\ file \in DOMAIN tree /\ file \in FileNames
      /\ Len(stack') = n + 1 /\ \A i \in 1..n : stack'[i] = stack[i]
      /\ stack'[n + 1] = Frame(file)
      /\ path' = PathWith(name, path) /\ path' \in Seq(Seq(Words))
      /\ UNCHANGED <<tree, cmd>>
  BY <1>1, <1>2, TakeIncludeMoves
<1>4. /\ stack'[n + 1].file = file /\ stack'[n + 1].next = 1 /\ stack'[n + 1].lines = <<>>
  BY <1>3, FrameOf
<1>5. more[n + 1] = path' /\ \A i \in 1..n : more[i] = starts[i]
  <2>1. n + 1 \in 1..n + 1 /\ \A i \in 1..n : i \in 1..n + 1 /\ i # n + 1
    BY <1>2
  <2> QED BY <1>2, <1>3, <2>1
<1>6. /\ 1 \in 1..n /\ n \in 1..n /\ \A i \in 1..n + 1 : i \in 1..n \/ i = n + 1
      /\ (n + 1) - 1 = n /\ \A i \in 1..n : i = n \/ (i \in 1..n - 1 /\ i + 1 \in 1..n)
  BY <1>2
<1>7. /\ Line = tree[stack[n].file][stack[n].next]
      /\ path = Sum(tree, n, stack[n], starts[n]).dirs
  <2>1. Top = stack[n]
    BY <1>1, <1>2, AtLine
  <2> QED BY <1>2, <2>1 DEF Line, Traced
<1> HIDE DEF more, file
<1>8. \A i \in 1..n + 1 : more[i] \in Seq(Seq(Words))
  BY <1>2, <1>3, <1>5, <1>6 DEF Traced
<1>9. more[1] = PathWith(cmd'.input, <<>>)
  BY <1>3, <1>5, <1>6 DEF Traced
<1>10. Sum(tree', n + 1, stack'[n + 1], more[n + 1]) = [lines |-> <<>>, dirs |-> path']
  <2>1. tree[file] \in Seq(TextLine)
    BY <1>1, <1>3 DEF TypeInv
  <2>2. Len(tree'[file]) \in Nat
    BY <1>3, <2>1
  <2>3. PICK frame : frame = stack'[n + 1]
    OBVIOUS
  <2>4. PICK files, i, start : files = tree' /\ i = n + 1 /\ start = path'
    OBVIOUS
  <2>5. Len(files[frame.file]) \in Nat /\ frame.next = 1
    BY <1>4, <2>2, <2>3, <2>4
  <2>6. Sum(files, i, frame, start) = [lines |-> <<>>, dirs |-> start]
    BY <2>5, FirstSum
  <2> QED BY <1>5, <2>3, <2>4, <2>6
<1>11. \A i \in 1..n : Sum(tree', i, stack'[i], more[i]) = Sum(tree, i, stack[i], starts[i])
  BY <1>3, <1>5
<1>12. \A i \in 1..n + 1 : stack'[i].lines = Sum(tree', i, stack'[i], more[i]).lines
  <2>1. \A i \in 1..n : stack'[i].lines = Sum(tree', i, stack'[i], more[i]).lines
    BY <1>2, <1>3, <1>11 DEF Traced
  <2>2. stack'[n + 1].lines = Sum(tree', n + 1, stack'[n + 1], more[n + 1]).lines
    BY <1>4, <1>10
  <2> QED BY <1>6, <2>1, <2>2
<1>13. ASSUME NEW i \in 1..n
       PROVE  Includes(tree', Sum(tree', i, stack'[i], more[i]), tree'[stack'[i].file][stack'[i].next],
                       stack'[i + 1].file, more[i + 1])
  <2>1. CASE i = n
    <3>1. Includes(tree, Sum(tree, n, stack[n], starts[n]), Line, file, path')
      BY <1>1, <1>3, <1>7 DEF Includes, file
    <3> QED BY <1>3, <1>4, <1>5, <1>6, <1>7, <1>11, <2>1, <3>1
  <2>2. CASE i \in 1..n - 1 /\ i + 1 \in 1..n
    <3>1. Includes(tree, Sum(tree, i, stack[i], starts[i]), tree[stack[i].file][stack[i].next],
                   stack[i + 1].file, starts[i + 1])
      BY <1>2, <2>2 DEF Traced
    <3> QED BY <1>3, <1>5, <1>11, <2>2, <3>1
  <2> QED BY <1>6, <2>1, <2>2
<1>14. path' = Sum(tree', n + 1, stack'[n + 1], more[n + 1]).dirs
  BY <1>10
<1>15. PICK s : s = more
  OBVIOUS
<1>16. Traced(s)'
  BY <1>3, <1>6, <1>8, <1>9, <1>12, <1>13, <1>14, <1>15 DEF Traced
<1> QED BY <1>16

(* A file that ends has all that it stands for. *)
LEMMA EndSum ==
  ASSUME Inv, AllFit, Reading, ~HasLine, NEW starts, Traced(starts)
  PROVE  LET n == Len(stack)
         IN /\ n \in 1..MaxOpen
            /\ Sum(tree, n, Top, starts[n])
               = Expanded(tree)[MaxOpen - n + 1][[file |-> Top.file, dirs |-> starts[n]]]
<1> DEFINE n == Len(stack)
<1>1. /\ n \in Nat \ {0} /\ n <= MaxOpen /\ Top \in FrameType
      /\ Top.file \in DOMAIN tree /\ tree[Top.file] \in Seq(TextLine)
      /\ Top.next \in Nat \ {0} /\ Top.next <= Len(tree[Top.file]) + 1
  BY AtLine DEF Inv
<1>2. n \in 1..MaxOpen /\ n \in 1..n
  BY <1>1, SizeAssumption
<1>3. starts[n] \in Seq(Seq(Words))
  BY <1>2 DEF Traced
<1>4. PICK m \in Nat : m = Len(tree[Top.file])
  BY <1>1, LenProperties
<1>5. PICK k \in Nat \ {0} : k = Top.next
  BY <1>1
<1>6. k = m + 1
  <2>1. k <= m + 1
    BY <1>1, <1>4, <1>5
  <2>2. ASSUME k <= m PROVE FALSE
    <3>1. k \in 1..m
      BY <2>2
    <3>2. Fits(Line)
      BY <1>1, <1>4, <1>5, <3>1 DEF AllFit, Line
    <3> QED BY <1>4, <1>5, <2>2, <3>2 DEF HasLine
  <2> QED BY <2>1, <2>2
<1>7. Top.next - 1 = Len(tree[Top.file])
  <2>1. k - 1 = m
    BY <1>6
  <2> QED BY <1>4, <1>5, <2>1
<1> HIDE DEF n
<1>8. PICK frame : frame = Top
  OBVIOUS
<1>9. Sum(tree, n, frame, starts[n])
      = Expanded(tree)[MaxOpen - n + 1][[file |-> frame.file, dirs |-> starts[n]]]
  BY <1>1, <1>2, <1>3, <1>7, <1>8, LastSum
<1> QED BY <1>2, <1>8, <1>9 DEF n

(* The file that included it takes it all. *)
LEMMA EndFileWhole ==
  ASSUME Inv, AllFit, EndFile, Len(stack) # 1, NEW starts, Traced(starts)
  PROVE  (\E s : Traced(s))'
<1>1. /\ Reading /\ ~HasLine /\ TypeInv /\ StackInv
      /\ UNCHANGED <<tree, cmd, path>>
  BY DEF EndFile, Inv
<1>2. PICK n \in Nat \ {0} : n = Len(stack)
  BY <1>1, AtLine
<1>3. PICK m \in Nat \ {0} : m = n - 1 /\ m + 1 = n
  <2>1. n - 1 \in Nat \ {0} /\ (n - 1) + 1 = n
    BY <1>2
  <2> QED BY <2>1
<1> DEFINE ls == stack[m].lines \o Top.lines
<1>4. MovedTo(stack, stack', m, ls) /\ stack[m] \in FrameType
  BY <1>1, <1>2, <1>3, EndFileMoves
<1>5. PICK frame \in FrameType : frame = stack[m]
  BY <1>4
<1>6. Top = stack[n]
  BY <1>1, <1>2, AtLine
<1>7. m \in 1..Len(stack) - 1 /\ m \in 1..Len(stack) /\ n \in 1..Len(stack)
  BY <1>2, <1>3
<1>8. PICK inner : inner = Sum(tree, n, Top, starts[n])
  OBVIOUS
<1>9. PICK before : before = Sum(tree, m, frame, starts[m])
  OBVIOUS
<1>10. PICK line : line = tree[frame.file][frame.next]
  OBVIOUS
<1>11. /\ frame.lines = before.lines /\ Top.lines = inner.lines /\ path = inner.dirs
       /\ Includes(tree, before, line, Top.file, starts[n])
  BY <1>2, <1>3, <1>5, <1>6, <1>7, <1>8, <1>9, <1>10 DEF Traced
<1>12. /\ MaxOpen - n + 1 = MaxOpen - m
       /\ inner = Expanded(tree)[MaxOpen - m][[file |-> Top.file, dirs |-> starts[n]]]
  <2>1. MaxOpen - n + 1 = MaxOpen - m
    BY <1>3, SizeAssumption
  <2>2. inner = Expanded(tree)[MaxOpen - n + 1][[file |-> Top.file, dirs |-> starts[n]]]
    BY <1>1, <1>2, <1>8, EndSum
  <2> QED BY <2>1, <2>2
<1>13. frame.file \in DOMAIN tree /\ Len(tree[frame.file]) \in Nat
       /\ frame.next \in 1..Len(tree[frame.file])
  <2>1. frame.file \in DOMAIN tree /\ frame.next <= Len(tree[frame.file])
    BY <1>1, <1>5, <1>7 DEF StackInv
  <2>2. Len(tree[frame.file]) \in Nat
    <3>1. tree[frame.file] \in Seq(TextLine)
      BY <1>1, <2>1 DEF TypeInv
    <3> QED BY <3>1
  <2>3. frame.next \in Nat \ {0}
    BY DEF FrameType
  <2> QED BY <2>1, <2>2, <2>3
<1> HIDE DEF ls, FrameType
<1>14. PICK expanded : expanded = Expanded(tree)[MaxOpen - m]
  OBVIOUS
<1>15. Sum(tree, m, MovedOn(frame, ls), starts[m]) = Adds(tree, expanded, before, line)
  BY <1>9, <1>10, <1>13, <1>14, NextSum
<1>16. Adds(tree, expanded, before, line) = [lines |-> before.lines \o inner.lines, dirs |-> inner.dirs]
  <2>1. inner = expanded[[file |-> Top.file, dirs |-> starts[n]]]
    BY <1>12, <1>14
  <2> QED BY <1>11, <2>1 DEF Adds, Includes
<1>17. PICK sum : sum = Sum(tree, m, MovedOn(frame, ls), starts[m])
  OBVIOUS
<1>18. sum.lines = before.lines \o inner.lines /\ sum.dirs = inner.dirs
  <2>1. PICK ls1, ds : ls1 = before.lines \o inner.lines /\ ds = inner.dirs
    OBVIOUS
  <2>2. sum = [lines |-> ls1, dirs |-> ds]
    BY <1>15, <1>16, <1>17, <2>1
  <2>3. sum.lines = ls1 /\ sum.dirs = ds
    BY <2>2
  <2> QED BY <2>1, <2>3
<1>19. ls = sum.lines /\ path' = sum.dirs
  BY <1>1, <1>5, <1>11, <1>18 DEF ls
<1>20. LET sum2 == Sum(tree, m, MovedOn(stack[m], ls), starts[m]) IN ls = sum2.lines /\ path' = sum2.dirs
  BY <1>5, <1>17, <1>19
<1> QED BY <1>1, <1>4, <1>7, <1>20, MovedTrace

(* The definition begins with nothing. *)
LEMMA StartWhole ==
  ASSUME Inv, NEW options \in Commands, Start(options), stack' # <<>>
  PROVE  (\E s : Traced(s))'
<1>1. /\ UNCHANGED tree /\ cmd'.input \in DOMAIN tree /\ cmd'.input \in FileNames
      /\ stack' = <<Frame(cmd'.input)>> /\ path' = PathWith(cmd'.input, <<>>)
  BY StartOpens DEF Inv
<1>2. path' \in Seq(Seq(Words))
  <2>1. <<>> \in Seq(Seq(Words))
    OBVIOUS
  <2> QED BY <1>1, <2>1, PathType
<1>3. PICK frame : frame = Frame(cmd'.input)
  OBVIOUS
<1>4. frame.file = cmd'.input /\ frame.next = 1 /\ frame.lines = <<>>
  BY <1>1, <1>3, FrameOf
<1>5. Len(stack') = 1 /\ stack'[1] = frame
  BY <1>1, <1>3
<1>6. PICK files, file, start : files = tree' /\ file = cmd'.input /\ start = path'
  OBVIOUS
<1>7. Len(files[frame.file]) \in Nat
  <2>1. tree[file] \in Seq(TextLine)
    BY <1>1, <1>6 DEF Inv, TypeInv
  <2> QED BY <1>1, <1>4, <1>6, <2>1
<1>8. Sum(files, 1, frame, start) = [lines |-> <<>>, dirs |-> start]
  BY <1>4, <1>6, <1>7, FirstSum
<1>9. PICK s : s = <<path'>>
  OBVIOUS
<1>10. s[1] = path'
  BY <1>9
<1>11. 1..1 = {1} /\ 1..1 - 1 = {}
  OBVIOUS
<1>12. Sum(tree', 1, stack'[1], s[1]) = [lines |-> <<>>, dirs |-> path']
  BY <1>5, <1>6, <1>8, <1>10
<1>13. Traced(s)'
  BY <1>1, <1>2, <1>4, <1>5, <1>10, <1>11, <1>12 DEF Traced
<1> QED BY <1>13

(* The definition has been read when the last open file, its own, ends. *)
LEMMA LastEndWhole ==
  ASSUME Inv, AllFit, EndFile, Len(stack) = 1, NEW starts, Traced(starts)
  PROVE  lines' = Expanded(tree)[MaxOpen][[file |-> cmd.input,
                                           dirs |-> PathWith(cmd.input, <<>>)]].lines
<1>1. Reading /\ ~HasLine /\ lines' = Top.lines /\ StackInv /\ TypeInv
  BY DEF EndFile, Inv
<1>2. Top = stack[1] /\ 1 \in 1..Len(stack)
  BY <1>1, AtLine
<1>3. Top.file = cmd.input
  BY <1>1, <1>2 DEF StackInv, Reading
<1>4. Top.lines = Sum(tree, 1, Top, starts[1]).lines /\ starts[1] = PathWith(cmd.input, <<>>)
  BY <1>2 DEF Traced
<1>5. Sum(tree, 1, Top, starts[1])
      = Expanded(tree)[MaxOpen - 1 + 1][[file |-> Top.file, dirs |-> starts[1]]]
  BY <1>1, EndSum
<1>6. MaxOpen - 1 + 1 = MaxOpen
  BY SizeAssumption
<1> QED BY <1>1, <1>3, <1>4, <1>5, <1>6

(* What is open after a step. *)
LEMMA SkipLineStack == Inv /\ SkipLine => stack' # <<>>
<1> SUFFICES ASSUME Inv, SkipLine PROVE stack' # <<>>
  OBVIOUS
<1>1. Len(stack) \in Nat \ {0} /\ MovedTo(stack, stack', Len(stack), Top.lines)
  BY AtLine, SkipLineMoves DEF Inv, SkipLine
<1> QED BY <1>1 DEF MovedTo

(* After a directive.                                                      *)
LEMMA TakeLineStack ==
  Inv /\ TakeLine => Reading /\ UNCHANGED tree /\ (stack' = <<>> => exit' # Running)
<1> SUFFICES ASSUME Inv, TakeLine
             PROVE  Reading /\ UNCHANGED tree /\ (stack' = <<>> => exit' # Running)
  OBVIOUS
<1>1. CASE Parsed(Line, lastTable') = BadLine
  BY <1>1 DEF TakeLine, Refuse, Running
<1>2. CASE Parsed(Line, lastTable') # BadLine
  <2>1. Len(stack) \in Nat \ {0}
    BY AtLine DEF Inv, TakeLine
  <2>2. UNCHANGED tree /\ Len(stack') = Len(stack)
    BY <1>2, TakeLineMoves DEF Inv, MovedTo
  <2> QED BY <2>1, <2>2 DEF TakeLine
<1> QED BY <1>1, <1>2

(* After an `include`.                                                     *)
LEMMA TakeIncludeStack ==
  Inv /\ TakeInclude => Reading /\ UNCHANGED tree /\ (stack' = <<>> => exit' # Running)
<1> SUFFICES ASSUME Inv, TakeInclude
             PROVE  Reading /\ UNCHANGED tree /\ (stack' = <<>> => exit' # Running)
  OBVIOUS
<1>1. /\ Len(stack) \in Nat \ {0} /\ stack \in Seq(FrameType) /\ stack # <<>>
      /\ Reading /\ UNCHANGED tree
  BY AtLine DEF Inv, TypeInv, TakeInclude, AtDirective, Refuse
<1>2. \A f : Append(stack, Frame(f)) # <<>>
  BY <1>1
<1>3. stack' = <<>> => Refuse
  BY <1>2 DEF TakeInclude
<1> QED BY <1>1, <1>3 DEF Refuse, Running

(* After the end of a file that was included.                              *)
LEMMA EndFileStack == Inv /\ EndFile /\ Len(stack) # 1 => stack' # <<>>
<1> SUFFICES ASSUME Inv, EndFile, Len(stack) # 1 PROVE stack' # <<>>
  OBVIOUS
<1>1. PICK m \in Nat \ {0} : MovedTo(stack, stack', m, stack[m].lines \o Top.lines)
  BY EndFileMoves DEF Inv
<1> QED BY <1>1 DEF MovedTo

(* The trace of the open files is inductive.                               *)
LEMMA StepWhole == Inv /\ WholeInv /\ [Next]_vars => WholeInv'
<1> SUFFICES ASSUME Inv, WholeInv, [Next]_vars PROVE WholeInv'
  OBVIOUS
<1> DEFINE Whole == lines = Expanded(tree)[MaxOpen][[file |-> cmd.input,
                                                     dirs |-> PathWith(cmd.input, <<>>)]].lines
<1>1. CASE UNCHANGED vars
  BY <1>1 DEF vars, WholeInv, AllFit, Traced, ParsedAll
<1>2. ASSUME UNCHANGED tree, AllFit, stack' # <<>> => (\E s : Traced(s))', ParsedAll' => Whole'
      PROVE  WholeInv'
  BY <1>2 DEF WholeInv
<1>3. ASSUME UNCHANGED tree, ~AllFit PROVE WholeInv'
  BY <1>3 DEF WholeInv, AllFit
<1>4. AllFit => /\ stack # <<>> => \E starts : Traced(starts)
                /\ ParsedAll => Whole
  BY DEF WholeInv
<1>5. ASSUME NEW options \in Commands, Start(options), AllFit PROVE WholeInv'
  <2>1. UNCHANGED tree /\ (stack' = <<>> => exit' # Running)
    <3>1. exit' = Running => stack' # <<>>
      <4>1. stack' = <<Frame(cmd'.input)>> \/ exit' \in {1, 2}
        BY <1>5, StartOpens DEF Inv
      <4>2. <<Frame(cmd'.input)>> # <<>>
        OBVIOUS
      <4>3. PICK one : one = <<Frame(cmd'.input)>>
        OBVIOUS
      <4>4. Running \notin {1, 2}
        BY DEF Running
      <4> HIDE DEF Running
      <4> QED BY <4>1, <4>2, <4>3, <4>4
    <3> QED BY <1>5, <3>1 DEF Start
  <2> QED BY <1>2, <1>5, <2>1, StartWhole DEF ParsedAll
<1>6. ASSUME SkipLine, AllFit PROVE WholeInv'
  <2>1. Reading /\ UNCHANGED <<tree, exit>>
    BY <1>6 DEF SkipLine
  <2>2. PICK starts : Traced(starts)
    BY <1>4, <1>6, <2>1 DEF Reading
  <2>3. (\E s : Traced(s))'
    BY <1>6, <2>2, SkipLineWhole
  <2>4. stack' # <<>>
    BY <1>6, SkipLineStack
  <2> QED BY <1>2, <1>6, <2>1, <2>3, <2>4 DEF ParsedAll
<1>7. ASSUME TakeLine, AllFit PROVE WholeInv'
  <2>1. Reading /\ UNCHANGED tree /\ (stack' = <<>> => exit' # Running)
    BY <1>7, TakeLineStack
  <2>2. PICK starts : Traced(starts)
    BY <1>4, <1>7, <2>1 DEF Reading
  <2> QED BY <1>2, <1>7, <2>1, <2>2, TakeLineWhole DEF ParsedAll
<1>8. ASSUME TakeInclude, AllFit PROVE WholeInv'
  <2>1. Reading /\ UNCHANGED tree /\ (stack' = <<>> => exit' # Running)
    BY <1>8, TakeIncludeStack
  <2>2. PICK starts : Traced(starts)
    BY <1>4, <1>8, <2>1 DEF Reading
  <2> QED BY <1>2, <1>8, <2>1, <2>2, TakeIncludeWhole DEF ParsedAll
<1>9. ASSUME EndFile, AllFit PROVE WholeInv'
  <2>1. Reading /\ UNCHANGED <<tree, cmd, exit>>
    BY <1>9 DEF EndFile
  <2>2. PICK starts : Traced(starts)
    BY <1>4, <1>9, <2>1 DEF Reading
  <2>3. CASE Len(stack) = 1
    <3>1. Whole'
      BY <1>9, <2>1, <2>2, <2>3, LastEndWhole
    <3>2. stack' = <<>>
      BY <1>9, <2>3 DEF EndFile
    <3> QED BY <1>2, <1>9, <2>1, <3>1, <3>2
  <2>4. CASE Len(stack) # 1
    <3>1. stack' # <<>>
      BY <1>9, <2>4, EndFileStack
    <3>2. (\E s : Traced(s))'
      BY <1>9, <2>2, <2>4, EndFileWhole
    <3> QED BY <1>2, <1>9, <2>1, <3>1, <3>2 DEF ParsedAll
  <2> QED BY <2>3, <2>4
<1>10. ASSUME Generate \/ NoOutput PROVE WholeInv'
  <2>1. stack' = <<>> /\ exit' \in {0, 2}
    BY <1>10 DEF Generate, NoOutput
  <2>2. ~ParsedAll'
    BY <2>1 DEF ParsedAll, Running
  <2> QED BY <2>1, <2>2 DEF WholeInv
<1>11. ASSUME ~AllFit,
              SkipLine \/ TakeLine \/ TakeInclude \/ EndFile \/ \E options \in Commands : Start(options)
       PROVE  WholeInv'
  <2>1. UNCHANGED tree
    BY <1>11 DEF SkipLine, TakeLine, TakeInclude, EndFile, Start, Refuse
  <2> QED BY <1>3, <1>11, <2>1
<1> QED BY <1>1, <1>5, <1>6, <1>7, <1>8, <1>9, <1>10, <1>11 DEF Next, Proceed

(* For all trees of files, searches and depths of inclusion: a parse that  *)
(* succeeds has the lines of all its files in their places, and its fields *)
(* below their tables.                                                     *)
THEOREM DefinitionsParsedWhole == Spec => []ParsedWhole
<1>1. Inv /\ WholeInv => ParsedWhole
  <2> SUFFICES ASSUME Inv, WholeInv, ParsedAll PROVE ParsedWhole
    BY DEF ParsedWhole
  <2>1. lines \in Seq(Parsable) /\ FollowsTable(lines)
    BY DEF Inv, TypeInv, OrderInv
  <2>2. ASSUME NEW k \in 1..Len(lines)
        PROVE  /\ lines[k] \in TableLine \cup FieldLine \cup OptionLine
               /\ lines[k].kind = "field" => k > 1 /\ lines[k - 1].kind \in {"table", "field"}
    <3>1. lines[k] \in Parsable
      BY <2>1
    <3>2. lines[k] \in TableLine \cup FieldLine \cup OptionLine
      BY <3>1 DEF Parsable
    <3> QED BY <2>1, <3>2 DEF FollowsTable
  <2> QED BY <2>2 DEF WholeInv, AllFit, ParsedWhole
<1>2. Spec => [](Inv /\ WholeInv)
  BY SpecInv, InitWhole, StepWhole, PTL DEF Spec
<1> QED BY <1>1, <1>2, PTL
=============================================================================
