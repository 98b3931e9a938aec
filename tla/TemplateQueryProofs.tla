------------------------ MODULE TemplateQueryProofs ------------------------
(***************************************************************************)
(* Proofs about the operators of TemplateGrammar and QueryValues, for      *)
(* texts of every length, and about TemplateQuery, for every set of        *)
(* characters, templates, values and names: the type invariant, NamesLead, *)
(* and FilledOnce, that a statement sent is the template with each value   *)
(* rendered once.  An operator defined by recursion chooses a function     *)
(* that solves an equation.  That one exists, and what its values are, is  *)
(* shown by looking at the least index at which it would go wrong.         *)
(***************************************************************************)
EXTENDS TemplateQuery, SequenceTheorems, FiniteSetTheorems, TLAPS

-----------------------------------------------------------------------------
(* Induction                                                               *)

(* Every nonempty set of natural numbers has a least element: among the    *)
(* sets 1..n for the n of S, one has no other as a proper subset.          *)
LEMMA LeastNumber ==
  ASSUME NEW S \in SUBSET Nat, S # {}
  PROVE  \E n \in S : \A m \in S : n <= m
<1>1. PICK b \in S : TRUE
  OBVIOUS
<1> DEFINE U == 1..b
           R == StrictSubsetOrdering(U)
           low == {m \in S : m <= b}
           T == {1..k : k \in low}
<1>2. b \in Nat /\ IsFiniteSet(U) /\ \A m \in low : m \in Nat /\ 1..m \in SUBSET U
  BY FS_Interval
<1>3. IsWellFoundedOn(R, FiniteSubsetsOf(U))
  BY <1>2, FS_StrictSubsetOrderingWellFounded
<1>4. FiniteSubsetsOf(U) = SUBSET U
  BY <1>2, FS_FiniteSubsetsOfFinite
<1>5. T \subseteq FiniteSubsetsOf(U) /\ T # {}
  BY <1>1, <1>2, <1>4
<1>6. PICK x \in T : \A y \in T : ~(<<y, x>> \in R)
  <2> HIDE DEF R, T, U
  <2> QED BY <1>3, <1>5, WFMin
<1>7. PICK n \in low : x = 1..n
  BY <1>6
<1>8. \A m \in low : n <= m
  <2> SUFFICES ASSUME NEW m \in low, m < n PROVE FALSE
    BY <1>2
  <2>1. 1..m \in T /\ <<1..m, x>> \notin R
    BY <1>6
  <2>2. n \in 1..n /\ n \notin 1..m
    BY <1>2
  <2>3. 1..m \subseteq x /\ 1..m # x
    BY <1>2, <1>7, <2>2
  <2>4. <<1..m, x>> \in R
    BY <1>2, <1>7, <2>3 DEF StrictSubsetOrdering
  <2> QED BY <2>1, <2>4
<1>9. \A m \in S : n <= m
  BY <1>2, <1>7, <1>8
<1> QED BY <1>7, <1>9

(* A set that contains 0 and with every number up to n - 1 also n contains *)
(* all numbers up to n: the induction the proofs below go by.              *)
LEMMA Upwards ==
  ASSUME NEW n \in Nat, NEW S, 0 \in S, \A k \in 1..n : k - 1 \in S => k \in S
  PROVE  0..n \subseteq S
<1> SUFFICES ASSUME (0..n) \ S # {} PROVE FALSE
  OBVIOUS
<1> DEFINE T == (0..n) \ S
<1>1. PICK k \in T : \A m \in T : k <= m
  <2>1. T \in SUBSET Nat
    OBVIOUS
  <2> QED BY <2>1, LeastNumber
<1>2. k # 0 /\ k - 1 \in 0..n /\ ~(k <= k - 1)
  BY <1>1
<1>3. k - 1 \in S
  BY <1>1, <1>2
<1> QED BY <1>1, <1>2, <1>3

(* The same from n downwards to 1, with all greater numbers at hand.       *)
LEMMA Downwards ==
  ASSUME NEW n \in Nat, NEW S,
         \A k \in 1..n : (\A m \in k + 1..n : m \in S) => k \in S
  PROVE  1..n \subseteq S
<1> DEFINE T == {d \in 0..n - 1 : n - d \notin S}
<1> SUFFICES ASSUME T # {} PROVE FALSE
  <2>1. \A k \in 1..n : n - k \in 0..n - 1 /\ n - (n - k) = k
    OBVIOUS
  <2> QED BY <2>1
<1>1. PICK d \in T : \A m \in T : d <= m
  <2>1. T \in SUBSET Nat
    OBVIOUS
  <2> HIDE DEF T
  <2> QED BY <2>1, LeastNumber
<1>2. n - d \in 1..n
  BY <1>1
<1>3. ASSUME NEW m \in n - d + 1..n PROVE m \in S
  <2>1. n - m \in 0..n - 1 /\ n - (n - m) = m /\ ~(d <= n - m)
    BY <1>1
  <2> QED BY <1>1, <2>1
<1> QED BY <1>1, <1>2, <1>3

(* Every nonempty set of positions has a last one.                         *)
LEMMA LastPosition ==
  ASSUME NEW n \in Nat, NEW S \in SUBSET (1..n), S # {}
  PROVE  \E k \in S : \A m \in S : m <= k
<1> DEFINE T == {n - k : k \in S}
<1>1. T \in SUBSET Nat /\ T # {}
  <2>1. \A k \in S : n - k \in Nat
    OBVIOUS
  <2> QED BY <2>1
<1>2. PICK d \in T : \A e \in T : d <= e
  <2> HIDE DEF T
  <2> QED BY <1>1, LeastNumber
<1>3. PICK k \in S : d = n - k
  BY <1>2
<1>4. ASSUME NEW m \in S PROVE m <= k
  <2>1. n - k <= n - m
    BY <1>2, <1>3
  <2>2. k \in 1..n /\ m \in 1..n
    OBVIOUS
  <2> QED BY <2>1, <2>2
<1> QED BY <1>4

-----------------------------------------------------------------------------
(* Recursive functions                                                     *)

(* What FlattenSeq() computes: the sequences are joined from left to       *)
(* right, each to what is joined already.                                  *)
LEMMA FlattenSteps ==
  ASSUME NEW C, NEW seqs \in Seq(Seq(C)), seqs # <<>>
  PROVE  \E joined \in [1..Len(seqs) -> Seq(C)] :
           /\ joined[1] = seqs[1]
           /\ \A k \in 2..Len(seqs) : joined[k] = joined[k - 1] \o seqs[k]
           /\ FlattenSeq(seqs) = joined[Len(seqs)]
<1> DEFINE n == Len(seqs)
           Joins(f, m) == f = [i \in 1..m |-> IF i = 1 THEN seqs[i]
                                              ELSE f[i - 1] \o seqs[i]]
           S == {m \in 0..n : \E f : Joins(f, m)}
<1>1. n \in Nat \ {0} /\ \A k \in 1..n : seqs[k] \in Seq(C)
  BY EmptySeq, ElementOfSeq
<1>2. 0 \in S
  <2>1. \E f : Joins(f, 0)
    <3>1. Joins(<<>>, 0)
      OBVIOUS
    <3> HIDE DEF Joins
    <3> QED BY <3>1
  <2> HIDE DEF Joins
  <2> QED BY <1>1, <2>1
<1>3. ASSUME NEW m \in 1..n, m - 1 \in S PROVE m \in S
  <2>1. PICK f : Joins(f, m - 1)
    BY <1>3
  <2> DEFINE g == [i \in 1..m |-> IF i = 1 THEN seqs[i] ELSE f[i - 1] \o seqs[i]]
  <2>2. ASSUME NEW i \in 1..m, i # 1 PROVE g[i - 1] = f[i - 1]
    <3>1. i - 1 \in 1..m /\ i - 1 \in 1..m - 1 /\ (i - 1) - 1 = i - 2
      BY <1>1, <2>2
    <3>2. f[i - 1] = IF i - 1 = 1 THEN seqs[i - 1] ELSE f[(i - 1) - 1] \o seqs[i - 1]
      BY <2>1, <3>1
    <3>3. g[i - 1] = IF i - 1 = 1 THEN seqs[i - 1] ELSE f[(i - 1) - 1] \o seqs[i - 1]
      BY <3>1
    <3> QED BY <3>2, <3>3
  <2>3. Joins(g, m)
    <3>1. ASSUME NEW i \in 1..m
          PROVE  (IF i = 1 THEN seqs[i] ELSE f[i - 1] \o seqs[i])
                 = (IF i = 1 THEN seqs[i] ELSE g[i - 1] \o seqs[i])
      <4> HIDE DEF g
      <4> QED BY <2>2
    <3> QED BY <3>1
  <2> HIDE DEF Joins, g
  <2> QED BY <1>1, <2>3
<1>4. \E f : Joins(f, n)
  <2>1. 0..n \subseteq S
    <3> HIDE DEF S, n
    <3> QED BY <1>1, <1>2, <1>3, Upwards
  <2>2. n \in 0..n
    BY <1>1
  <2>3. n \in S
    <3> HIDE DEF S
    <3> QED BY <2>1, <2>2
  <2> QED BY <2>3
<1> DEFINE f == CHOOSE f : Joins(f, n)
<1>5. Joins(f, n)
  BY <1>4
<1>6. FlattenSeq(seqs) = f[n]
  <2>1. Len(seqs) # 0
    BY <1>1
  <2> QED BY <2>1 DEF FlattenSeq
<1> HIDE DEF f
<1>7. \A i \in 1..n : f[i] = IF i = 1 THEN seqs[i] ELSE f[i - 1] \o seqs[i]
  BY <1>5
<1>8. f \in [1..n -> Seq(C)]
  <2> DEFINE T == {0} \cup {i \in 1..n : f[i] \in Seq(C)}
  <2>1. 0 \in T
    OBVIOUS
  <2>2. ASSUME NEW k \in 1..n, k - 1 \in T PROVE k \in T
    <3>1. CASE k = 1
      BY <1>1, <1>7, <3>1
    <3>2. CASE k # 1
      <4>1. f[k - 1] \in Seq(C) /\ seqs[k] \in Seq(C)
        BY <1>1, <2>2, <3>2
      <4>2. f[k] = f[k - 1] \o seqs[k]
        BY <1>7, <3>2
      <4>3. f[k] \in Seq(C)
        BY <4>1, <4>2, ConcatProperties
      <4> QED BY <4>3
    <3> QED BY <3>1, <3>2
  <2>3. 0..n \subseteq T
    <3> HIDE DEF T, n
    <3> QED BY <1>1, <2>1, <2>2, Upwards
  <2>4. ASSUME NEW i \in 1..n PROVE f[i] \in Seq(C)
    <3>1. i \in 0..n /\ i # 0
      BY <1>1
    <3> QED BY <2>3, <3>1
  <2>5. f = [i \in 1..n |-> f[i]]
    BY <1>5
  <2> QED BY <2>4, <2>5
<1>9. f[1] = seqs[1] /\ \A k \in 2..n : f[k] = f[k - 1] \o seqs[k]
  <2>1. 1 \in 1..n /\ \A k \in 2..n : k \in 1..n /\ k # 1
    BY <1>1
  <2> QED BY <1>7, <2>1
<1> QED BY <1>6, <1>8, <1>9

(* Texts in a row are a text.                                              *)
LEMMA FlattenType ==
  ASSUME NEW C, NEW seqs \in Seq(Seq(C))
  PROVE  FlattenSeq(seqs) \in Seq(C)
<1>1. CASE seqs = <<>>
  BY <1>1 DEF FlattenSeq
<1>2. CASE seqs # <<>>
  <2>1. Len(seqs) \in 1..Len(seqs)
    BY <1>2, EmptySeq
  <2>2. PICK joined \in [1..Len(seqs) -> Seq(C)] : FlattenSeq(seqs) = joined[Len(seqs)]
    BY <1>2, FlattenSteps
  <2> QED BY <2>1, <2>2
<1> QED BY <1>1, <1>2

(* A number that is read from digits is a natural number.                  *)
LEMMA NumberType ==
  ASSUME NEW digits \in Seq(Digits)
  PROVE  Number(digits) \in Nat
<1> DEFINE n == Len(digits)
           Reads(f, m) == f = [k \in 0..m |-> IF k = 0 THEN 0
                                              ELSE 10 * f[k - 1] + DigitValue[digits[k]]]
           S == {m \in 0..n : \E f : Reads(f, m)}
<1>1. n \in Nat /\ \A k \in 1..n : DigitValue[digits[k]] \in Nat
  <2>1. \A d \in Digits : DigitValue[d] \in Nat
    BY DEF Digits, DigitValue
  <2> QED BY <2>1
<1>2. 0 \in S
  <2>1. \E f : Reads(f, 0)
    <3>1. Reads([k \in 0..0 |-> 0], 0)
      OBVIOUS
    <3> HIDE DEF Reads
    <3> QED BY <3>1
  <2> HIDE DEF Reads
  <2> QED BY <1>1, <2>1
<1>3. ASSUME NEW m \in 1..n, m - 1 \in S PROVE m \in S
  <2>1. PICK f : Reads(f, m - 1)
    BY <1>3
  <2> DEFINE g == [k \in 0..m |-> IF k = 0 THEN 0
                                  ELSE 10 * f[k - 1] + DigitValue[digits[k]]]
  <2>2. ASSUME NEW k \in 0..m, k # 0 PROVE g[k - 1] = f[k - 1]
    <3>1. k - 1 \in 0..m /\ k - 1 \in 0..m - 1
      BY <1>1, <2>2
    <3>2. f[k - 1] = IF k - 1 = 0 THEN 0
                     ELSE 10 * f[(k - 1) - 1] + DigitValue[digits[k - 1]]
      BY <2>1, <3>1
    <3>3. g[k - 1] = IF k - 1 = 0 THEN 0
                     ELSE 10 * f[(k - 1) - 1] + DigitValue[digits[k - 1]]
      BY <3>1
    <3> QED BY <3>2, <3>3
  <2>3. Reads(g, m)
    <3>1. ASSUME NEW k \in 0..m
          PROVE  (IF k = 0 THEN 0 ELSE 10 * f[k - 1] + DigitValue[digits[k]])
                 = (IF k = 0 THEN 0 ELSE 10 * g[k - 1] + DigitValue[digits[k]])
      <4> HIDE DEF g
      <4> QED BY <2>2
    <3> QED BY <3>1
  <2> HIDE DEF Reads, g
  <2> QED BY <1>1, <2>3
<1>4. \E f : Reads(f, n)
  <2>1. 0..n \subseteq S
    <3> HIDE DEF S, n
    <3> QED BY <1>1, <1>2, <1>3, Upwards
  <2> QED BY <1>1, <2>1
<1> DEFINE f == CHOOSE f : Reads(f, n)
<1>5. Reads(f, n)
  BY <1>4
<1>6. Number(digits) = f[n]
  BY DEF Number
<1> HIDE DEF f
<1>7. \A k \in 0..n : f[k] = IF k = 0 THEN 0
                             ELSE 10 * f[k - 1] + DigitValue[digits[k]]
  BY <1>5
<1> DEFINE T == {k \in 0..n : f[k] \in Nat}
<1>8. 0 \in T
  BY <1>1, <1>7
<1>9. ASSUME NEW k \in 1..n, k - 1 \in T PROVE k \in T
  <2>1. k \in 0..n /\ f[k - 1] \in Nat /\ DigitValue[digits[k]] \in Nat
    BY <1>1, <1>9
  <2>2. f[k] = 10 * f[k - 1] + DigitValue[digits[k]]
    BY <1>1, <1>7, <2>1
  <2>3. f[k] \in Nat
    BY <2>1, <2>2
  <2> QED BY <2>1, <2>3
<1>10. 0..n \subseteq T
  <2> HIDE DEF T, n
  <2> QED BY <1>1, <1>8, <1>9, Upwards
<1> QED BY <1>1, <1>6, <1>10

-----------------------------------------------------------------------------
(* The grammar                                                             *)

(* A run ends where a character is not of its set, at the latest at the    *)
(* NUL behind the text.                                                    *)
LEMMA RunEndRange ==
  ASSUME NEW C, NEW s \in Seq(C), NEW i \in 1..Len(s) + 1, NEW set, "NUL" \notin set
  PROVE  /\ RunEnd(s, i, set) \in i..Len(s) + 1
         /\ \A k \in i..RunEnd(s, i, set) - 1 : s[k] \in set
<1> DEFINE T == {j \in i..Len(s) + 1 : At(s, j) \notin set}
           Ends(j) == /\ \A k \in i..j - 1 : s[k] \in set
                      /\ At(s, j) \notin set
<1>1. Len(s) \in Nat /\ DOMAIN s = 1..Len(s)
  BY LenProperties
<1>2. Len(s) + 1 \in T
  <2>1. Len(s) + 1 \notin DOMAIN s /\ Len(s) + 1 \in i..Len(s) + 1
    BY <1>1
  <2> QED BY <2>1 DEF At
<1>3. PICK j \in T : \A m \in T : j <= m
  <2>1. T \in SUBSET Nat
    BY <1>1
  <2> HIDE DEF T
  <2> QED BY <1>2, <2>1, LeastNumber
<1>4. ASSUME NEW k \in i..j - 1 PROVE s[k] \in set
  <2>1. k \in 1..Len(s) /\ k \in i..Len(s) + 1 /\ ~(j <= k)
    BY <1>1, <1>3
  <2>2. k \notin T
    BY <1>3, <2>1
  <2>3. At(s, k) \in set
    BY <2>1, <2>2
  <2> QED BY <1>1, <2>1, <2>3 DEF At
<1>5. \E m \in i..Len(s) + 1 : Ends(m)
  <2>1. j \in i..Len(s) + 1 /\ Ends(j)
    BY <1>3, <1>4
  <2> HIDE DEF Ends
  <2> QED BY <2>1
<1>6. RunEnd(s, i, set) = CHOOSE m \in i..Len(s) + 1 : Ends(m)
  BY DEF RunEnd
<1>7. RunEnd(s, i, set) \in i..Len(s) + 1 /\ Ends(RunEnd(s, i, set))
  <2> HIDE DEF Ends
  <2> QED BY <1>5, <1>6
<1> QED BY <1>7

(* An element whose texts are made of the characters C.                    *)
ElementOver(C) ==
  [before : Seq(C), option : C, num : -128..127, name : Seq(C), named : BOOLEAN]

(* The option of an element that has none is a character, too.             *)
HasBlank(C) == " " \in C

(* A number read into a signed char has its range.                         *)
LEMMA SignedType ==
  ASSUME NEW n \in Nat
  PROVE  Signed(n) \in -128..127
BY DEF Signed

(* The terminating NUL is no digit, no character of a name, no option and  *)
(* no colon: every run of those ends with the text.                        *)
LEMMA NULIsNoSign ==
  "NUL" \notin Digits /\ "NUL" \notin NameChars /\ "NUL" \notin Options /\ "NUL" # ":"
BY DEF Digits, DigitValue, NameChars, Options

(* What is found at a position and is not the NUL is a character of the    *)
(* text.                                                                   *)
LEMMA AtCharacter ==
  ASSUME NEW C, NEW s \in Seq(C), NEW i, At(s, i) # "NUL"
  PROVE  i \in 1..Len(s) /\ At(s, i) = s[i] /\ s[i] \in C
<1>1. i \in DOMAIN s /\ At(s, i) = s[i]
  BY DEF At
<1>2. i \in 1..Len(s)
  BY <1>1, LenProperties
<1> QED BY <1>1, <1>2, ElementOfSeq

(* The parts of a parameter, each behind the one before it: the digits...  *)
LEMMA DigitsPart ==
  ASSUME NEW C, NEW s \in Seq(C), NEW i \in 1..Len(s), At(s, i + 1) \in Digits,
         NEW run, run = RunEnd(s, i + 1, Digits),
         NEW end, end = IF run > i + 4 THEN i + 4 ELSE run,
         NEW num, num = Signed(Number(SubSeq(s, i + 1, end - 1)))
  PROVE  end \in i + 1..Len(s) + 1 /\ num \in -128..127
<1>1. Len(s) \in Nat
  BY LenProperties
<1>2. i + 1 \in 1..Len(s) + 1
  BY <1>1
<1>3. run \in i + 1..Len(s) + 1 /\ \A k \in i + 1..run - 1 : s[k] \in Digits
  BY <1>2, NULIsNoSign, RunEndRange
<1>4. end \in i + 1..Len(s) + 1 /\ end <= run
  BY <1>1, <1>3
<1>5. \A k \in i + 1..end - 1 : s[k] \in Digits
  BY <1>1, <1>3, <1>4
<1>6. SubSeq(s, i + 1, end - 1) \in Seq(Digits)
  <2>1. i + 1 \in Int /\ end - 1 \in Int
    BY <1>1, <1>4
  <2> QED BY <1>5, <2>1, SubSeqProperties
<1>7. num \in -128..127
  BY <1>6, NumberType, SignedType
<1> QED BY <1>4, <1>7

(* ...the option...                                                        *)
LEMMA OptionPart ==
  ASSUME NEW C, NEW s \in Seq(C), HasBlank(C), NEW i \in 1..Len(s) + 1
  PROVE  /\ (IF At(s, i) \in Options THEN s[i] ELSE " ") \in C
         /\ (IF At(s, i) \in Options THEN i + 1 ELSE i) \in i..Len(s) + 1
<1>1. Len(s) \in Nat
  BY LenProperties
<1>2. CASE At(s, i) \in Options
  <2>1. i \in 1..Len(s) /\ s[i] \in C
    BY <1>2, AtCharacter, NULIsNoSign
  <2>2. i + 1 \in i..Len(s) + 1
    BY <1>1, <2>1
  <2> QED BY <1>2, <2>1, <2>2
<1>3. CASE At(s, i) \notin Options
  <2>1. i \in i..Len(s) + 1
    BY <1>1
  <2> QED BY <1>3, <2>1 DEF HasBlank
<1> QED BY <1>2, <1>3

(* ...and the name.                                                        *)
LEMMA NamePart ==
  ASSUME NEW C, NEW s \in Seq(C), NEW i \in 1..Len(s) + 1, At(s, i) = ":",
         NEW end, end = RunEnd(s, i + 1, NameChars)
  PROVE  /\ SubSeq(s, i + 1, end - 1) \in Seq(C)
         /\ end \in i..Len(s) + 1
<1>1. Len(s) \in Nat
  BY LenProperties
<1>2. i \in 1..Len(s)
  BY AtCharacter, NULIsNoSign
<1>3. i + 1 \in 1..Len(s) + 1
  BY <1>1, <1>2
<1>4. end \in i + 1..Len(s) + 1
  BY <1>3, NULIsNoSign, RunEndRange
<1>5. end \in i..Len(s) + 1 /\ i + 1 \in Int /\ end - 1 \in Int
  BY <1>1, <1>2, <1>4
<1>6. ASSUME NEW k \in i + 1..end - 1 PROVE s[k] \in C
  <2>1. k \in 1..Len(s)
    BY <1>1, <1>2, <1>4
  <2> QED BY <2>1, ElementOfSeq
<1>7. SubSeq(s, i + 1, end - 1) \in Seq(C)
  BY <1>5, <1>6, SubSeqProperties
<1> QED BY <1>5, <1>7

(* A parameter is an element, and the text goes on behind it.              *)
LEMMA ParameterType ==
  ASSUME NEW C, NEW s \in Seq(C), HasBlank(C),
         NEW i \in 1..Len(s), At(s, i + 1) \in Digits
  PROVE  /\ Parameter(s, i).element \in ElementOver(C)
         /\ Parameter(s, i).next \in i + 1..Len(s) + 1
<1>1. Len(s) \in Nat
  BY LenProperties
<1>2. PICK run : run = RunEnd(s, i + 1, Digits)
  OBVIOUS
<1>3. PICK digitsEnd : digitsEnd = IF run > i + 4 THEN i + 4 ELSE run
  OBVIOUS
<1>4. PICK num : num = Signed(Number(SubSeq(s, i + 1, digitsEnd - 1)))
  OBVIOUS
<1>5. digitsEnd \in i + 1..Len(s) + 1 /\ num \in -128..127
  BY <1>2, <1>3, <1>4, DigitsPart, ZenonT(40)
<1>6. PICK option : option = IF At(s, digitsEnd) \in Options THEN s[digitsEnd] ELSE " "
  OBVIOUS
<1>7. PICK optionEnd :
        optionEnd = IF At(s, digitsEnd) \in Options THEN digitsEnd + 1 ELSE digitsEnd
  OBVIOUS
<1>8. option \in C /\ optionEnd \in i + 1..Len(s) + 1
  <2>1. digitsEnd \in 1..Len(s) + 1
    BY <1>1, <1>5
  <2>2. option \in C /\ optionEnd \in digitsEnd..Len(s) + 1
    BY <1>6, <1>7, <2>1, OptionPart
  <2> QED BY <1>1, <1>5, <2>2
<1>9. PICK nameEnd :
        nameEnd = IF At(s, optionEnd) = ":" THEN RunEnd(s, optionEnd + 1, NameChars)
                  ELSE optionEnd
  OBVIOUS
<1>10. PICK name :
         name = IF At(s, optionEnd) = ":" THEN SubSeq(s, optionEnd + 1, nameEnd - 1)
                ELSE <<>>
  OBVIOUS
<1>11. name \in Seq(C) /\ nameEnd \in i + 1..Len(s) + 1
  <2>1. CASE At(s, optionEnd) = ":"
    <3>1. optionEnd \in 1..Len(s) + 1
      BY <1>1, <1>8
    <3>2. name \in Seq(C) /\ nameEnd \in optionEnd..Len(s) + 1
      BY <1>9, <1>10, <2>1, <3>1, NamePart
    <3> QED BY <1>1, <1>8, <3>2
  <2>2. CASE At(s, optionEnd) # ":"
    BY <1>8, <1>9, <1>10, <2>2, EmptySeq
  <2> QED BY <2>1, <2>2
<1>12. PICK next :
         next = IF At(s, optionEnd) = ":" /\ At(s, nameEnd) = ":" THEN nameEnd + 1
                ELSE nameEnd
  OBVIOUS
<1>13. next \in i + 1..Len(s) + 1
  <2>1. CASE At(s, nameEnd) = ":"
    <3>1. nameEnd \in 1..Len(s)
      BY <2>1, AtCharacter, NULIsNoSign
    <3>2. nameEnd + 1 \in i + 1..Len(s) + 1
      BY <1>1, <1>11, <3>1
    <3> QED BY <1>11, <1>12, <3>2
  <2>2. CASE At(s, nameEnd) # ":"
    BY <1>11, <1>12, <2>2
  <2> QED BY <2>1, <2>2
<1>14. PICK named : named = (At(s, optionEnd) = ":")
  OBVIOUS
<1>15. Parameter(s, i)
       = [element |-> [before |-> <<>>, option |-> option, num |-> num, name |-> name,
                       named |-> named],
          next |-> next]
  BY <1>2, <1>3, <1>4, <1>6, <1>7, <1>9, <1>10, <1>12, <1>14 DEF Parameter
<1>16. named \in BOOLEAN /\ <<>> \in Seq(C)
  BY <1>14, EmptySeq
<1> QED BY <1>5, <1>8, <1>11, <1>13, <1>15, <1>16 DEF ElementOver

-----------------------------------------------------------------------------
(* The elements of a text                                                  *)

Elements(C) == Seq(ElementOver(C)) \ {<<>>}

(* A character more in front leaves a list of elements one.                *)
LEMMA PrecededType ==
  ASSUME NEW C, NEW c \in C, NEW elements \in Elements(C)
  PROVE  Preceded(c, elements) \in Elements(C)
<1>1. elements \in Seq(ElementOver(C)) /\ Len(elements) \in Nat \ {0}
  BY EmptySeq DEF Elements
<1>2. 1 \in 1..Len(elements) /\ elements[1] \in ElementOver(C)
  BY <1>1, ElementOfSeq
<1>3. <<c>> \o elements[1].before \in Seq(C)
  BY <1>2, ConcatProperties DEF ElementOver
<1>4. [elements[1] EXCEPT !.before = <<c>> \o elements[1].before] \in ElementOver(C)
  BY <1>2, <1>3 DEF ElementOver
<1>5. Preceded(c, elements)
      = [elements EXCEPT
           ![1] = [elements[1] EXCEPT !.before = <<c>> \o elements[1].before]]
  BY <1>1, <1>2 DEF Preceded
<1>6. /\ Preceded(c, elements) \in Seq(ElementOver(C))
      /\ Len(Preceded(c, elements)) = Len(elements)
  BY <1>1, <1>2, <1>4, <1>5, ExceptSeq
<1>7. Preceded(c, elements) # <<>>
  BY <1>1, <1>6, EmptySeq
<1> QED BY <1>6, <1>7 DEF Elements

(* The element behind all parameters is a list of elements.                *)
LEMMA LastElementType ==
  ASSUME NEW C, HasBlank(C)
  PROVE  <<LastElement>> \in Elements(C)
<1>1. <<>> \in Seq(C)
  BY EmptySeq
<1>2. LastElement \in ElementOver(C)
  <2>1. PICK blank : blank = " "
    OBVIOUS
  <2>2. blank \in C
    BY <2>1 DEF HasBlank
  <2>3. LastElement = [before |-> <<>>, option |-> blank, num |-> -1, name |-> <<>>,
                       named |-> FALSE]
    BY <2>1 DEF LastElement
  <2>4. -1 \in -128..127
    OBVIOUS
  <2> QED BY <1>1, <2>2, <2>3, <2>4 DEF ElementOver
<1> QED BY <1>2 DEF Elements

(* The elements from position i on, given those from every later one: the  *)
(* equation Parse() solves.                                                *)
ParsedFrom(from, s, i) ==
  IF i > Len(s) THEN <<LastElement>>
  ELSE IF s[i] # "%" THEN Preceded(s[i], from[i + 1])
  ELSE IF At(s, i + 1) = "%" THEN Preceded("%", from[i + 2])
  ELSE IF At(s, i + 1) \in Digits
  THEN <<Parameter(s, i).element>> \o from[Parameter(s, i).next]
  ELSE Preceded("%", from[i + 1])

(* Each position looks at later ones only, and makes elements of elements. *)
LEMMA ParsedFromLater ==
  ASSUME NEW C, NEW s \in Seq(C), HasBlank(C), NEW i \in 1..Len(s) + 1, NEW f, NEW g,
         \A m \in i + 1..Len(s) + 1 : f[m] = g[m]
  PROVE  ParsedFrom(f, s, i) = ParsedFrom(g, s, i)
<1>1. Len(s) \in Nat
  BY LenProperties
<1>2. CASE i > Len(s)
  BY <1>2 DEF ParsedFrom
<1>3. CASE ~(i > Len(s))
  <2>1. i \in 1..Len(s) /\ f[i + 1] = g[i + 1]
    <3>1. i + 1 \in i + 1..Len(s) + 1 /\ i \in 1..Len(s)
      BY <1>1, <1>3
    <3> QED BY <3>1
  <2>2. At(s, i + 1) = "%" => f[i + 2] = g[i + 2]
    <3> SUFFICES ASSUME At(s, i + 1) = "%" PROVE f[i + 2] = g[i + 2]
      OBVIOUS
    <3>1. i + 1 \in 1..Len(s)
      BY AtCharacter
    <3>2. i + 2 \in i + 1..Len(s) + 1
      BY <1>1, <2>1, <3>1
    <3> QED BY <3>2
  <2>3. At(s, i + 1) \in Digits
        => f[Parameter(s, i).next] = g[Parameter(s, i).next]
    BY <2>1, ParameterType
  <2> QED BY <1>3, <2>1, <2>2, <2>3 DEF ParsedFrom
<1> QED BY <1>2, <1>3

(* What is parsed from a position is a list of elements, if what is parsed *)
(* from every later one is.                                                *)
LEMMA ParsedFromType ==
  ASSUME NEW C, NEW s \in Seq(C), HasBlank(C), NEW i \in 1..Len(s) + 1, NEW f,
         \A m \in i + 1..Len(s) + 1 : f[m] \in Elements(C)
  PROVE  ParsedFrom(f, s, i) \in Elements(C)
<1>1. Len(s) \in Nat
  BY LenProperties
<1>2. CASE i > Len(s)
  BY <1>2, LastElementType DEF ParsedFrom
<1>3. CASE ~(i > Len(s))
  <2>1. i \in 1..Len(s) /\ s[i] \in C /\ f[i + 1] \in Elements(C)
    <3>1. i + 1 \in i + 1..Len(s) + 1 /\ i \in 1..Len(s)
      BY <1>1, <1>3
    <3> QED BY <3>1, ElementOfSeq
  <2>2. Preceded(s[i], f[i + 1]) \in Elements(C)
    BY <2>1, PrecededType
  <2>3. ASSUME s[i] = "%", At(s, i + 1) = "%"
        PROVE  Preceded("%", f[i + 2]) \in Elements(C)
    <3>1. i + 1 \in 1..Len(s)
      BY <2>3, AtCharacter
    <3>2. i + 2 \in i + 1..Len(s) + 1
      BY <1>1, <2>1, <3>1
    <3>3. f[i + 2] \in Elements(C)
      BY <3>2
    <3> QED BY <2>1, <2>3, <3>3, PrecededType
  <2>4. ASSUME At(s, i + 1) \in Digits
        PROVE  <<Parameter(s, i).element>> \o f[Parameter(s, i).next] \in Elements(C)
    <3>1. /\ Parameter(s, i).element \in ElementOver(C)
          /\ Parameter(s, i).next \in i + 1..Len(s) + 1
      BY <2>1, <2>4, ParameterType
    <3>2. f[Parameter(s, i).next] \in Seq(ElementOver(C))
      BY <3>1 DEF Elements
    <3>3. <<Parameter(s, i).element>> \in Seq(ElementOver(C))
          /\ Len(<<Parameter(s, i).element>>) = 1
      BY <3>1
    <3>4. /\ <<Parameter(s, i).element>> \o f[Parameter(s, i).next] \in Seq(ElementOver(C))
          /\ <<Parameter(s, i).element>> \o f[Parameter(s, i).next] # <<>>
      BY <3>2, <3>3, ConcatProperties, ConcatEqualIffEmpty, EmptySeq
    <3> QED BY <3>4 DEF Elements
  <2> QED BY <1>3, <2>2, <2>3, <2>4 DEF ParsedFrom
<1> QED BY <1>2, <1>3

(* Every text has elements.                                                *)
LEMMA ParseType ==
  ASSUME NEW C, NEW s \in Seq(C), HasBlank(C)
  PROVE  Parse(s) \in Elements(C)
<1> DEFINE n == Len(s) + 1
           Parses(f, k) == f = [i \in k..n |-> ParsedFrom(f, s, i)]
           S == {k \in 1..n : \E f : Parses(f, k)}
<1>1. n \in Nat /\ 1 \in 1..n
  BY LenProperties
<1>2. ASSUME NEW k \in 1..n, \A m \in k + 1..n : m \in S PROVE k \in S
  <2>1. PICK f : Parses(f, k + 1)
    <3>1. CASE k = n
      <4>1. k + 1..n = {}
        BY <1>1, <3>1
      <4>2. Parses([i \in {} |-> 0], k + 1)
        BY <4>1
      <4> HIDE DEF Parses
      <4> QED BY <4>2
    <3>2. CASE k # n
      <4>1. k + 1 \in k + 1..n
        BY <1>1, <3>2
      <4> QED BY <1>2, <4>1
    <3> QED BY <3>1, <3>2
  <2> DEFINE g == [i \in k..n |-> ParsedFrom(f, s, i)]
  <2>2. ASSUME NEW i \in k..n PROVE ParsedFrom(f, s, i) = ParsedFrom(g, s, i)
    <3>1. ASSUME NEW m \in i + 1..n PROVE f[m] = g[m]
      <4>1. m \in k + 1..n /\ m \in k..n
        BY <1>1
      <4>2. f[m] = ParsedFrom(f, s, m)
        BY <2>1, <4>1
      <4>3. g[m] = ParsedFrom(f, s, m)
        BY <4>1
      <4> QED BY <4>2, <4>3
    <3>2. i \in 1..n
      BY <1>1
    <3> HIDE DEF g
    <3> QED BY <3>1, <3>2, ParsedFromLater
  <2>3. Parses(g, k)
    <3>1. [i \in k..n |-> ParsedFrom(f, s, i)] = [i \in k..n |-> ParsedFrom(g, s, i)]
      <4> HIDE DEF g
      <4> QED BY <2>2
    <3> QED BY <3>1
  <2> HIDE DEF Parses, g
  <2> QED BY <2>3
<1>3. \E f : Parses(f, 1)
  <2>1. 1..n \subseteq S
    <3> HIDE DEF S, n
    <3> QED BY <1>1, <1>2, Downwards
  <2>2. 1 \in S
    <3> HIDE DEF S, n
    <3> QED BY <1>1, <2>1
  <2> QED BY <2>2
<1> DEFINE f == CHOOSE f : Parses(f, 1)
<1>4. Parses(f, 1)
  BY <1>3
<1>5. Parse(s) = f[1]
  BY DEF Parse, ParsedFrom
<1> HIDE DEF f
<1>6. \A i \in 1..n : f[i] = ParsedFrom(f, s, i)
  BY <1>4
<1> DEFINE T == {i \in 1..n : f[i] \in Elements(C)}
<1>7. ASSUME NEW k \in 1..n, \A m \in k + 1..n : m \in T PROVE k \in T
  <2>1. \A m \in k + 1..n : f[m] \in Elements(C)
    BY <1>7
  <2>2. f[k] \in Elements(C)
    BY <1>6, <2>1, ParsedFromType
  <2> QED BY <2>2
<1>8. 1..n \subseteq T
  <2> HIDE DEF T, n
  <2> QED BY <1>1, <1>7, Downwards
<1> QED BY <1>1, <1>5, <1>8

-----------------------------------------------------------------------------
(* Values                                                                  *)

(* The characters that escaping, quoting and NULL bring into a text.       *)
HasMarks(C) ==
  /\ {"N", "U", "L", "'", "\\"} \subseteq C
  /\ \A c \in DOMAIN Escapes : Escapes[c] \in C

(* A value whose text is made of the characters C, given as one of O.      *)
ValueOver(C, O) ==
  [text : Seq(C), quote : BOOLEAN, escape : BOOLEAN, null : BOOLEAN,
   processed : BOOLEAN, orig : O]

(* A few characters are a text.                                            *)
LEMMA ShortTexts ==
  ASSUME NEW C, NEW a \in C, NEW b \in C, NEW c \in C
  PROVE  <<a>> \in Seq(C) /\ <<a, b>> \in Seq(C) /\ <<a, b, c, c>> \in Seq(C)
OBVIOUS

(* An escaped text is a text.                                              *)
LEMMA EscapedType ==
  ASSUME NEW C, HasMarks(C), NEW text \in Seq(C)
  PROVE  Escaped(text) \in Seq(C)
<1> DEFINE piece(i) == IF text[i] \in DOMAIN Escapes THEN <<"\\", Escapes[text[i]]>>
                       ELSE <<text[i]>>
           pieces == [i \in 1..Len(text) |-> piece(i)]
<1>1. Len(text) \in Nat /\ \A i \in 1..Len(text) : text[i] \in C
  BY LenProperties, ElementOfSeq
<1>2. ASSUME NEW i \in 1..Len(text) PROVE piece(i) \in Seq(C)
  <2>1. PICK backslash : backslash = "\\"
    OBVIOUS
  <2>2. backslash \in C /\ (text[i] \in DOMAIN Escapes => Escapes[text[i]] \in C)
    BY <2>1 DEF HasMarks
  <2>3. text[i] \in DOMAIN Escapes => <<backslash, Escapes[text[i]]>> \in Seq(C)
    BY <2>2, ShortTexts
  <2>4. <<text[i]>> \in Seq(C)
    BY <1>1, ShortTexts
  <2> QED BY <2>1, <2>3, <2>4
<1>3. pieces \in Seq(Seq(C))
  <2> HIDE DEF piece
  <2> QED BY <1>1, <1>2, IsASeq
<1>4. Escaped(text) = FlattenSeq(pieces)
  BY DEF Escaped
<1> HIDE DEF pieces
<1> QED BY <1>3, <1>4, FlattenType

(* A quoted text is a text.                                                *)
LEMMA QuotedType ==
  ASSUME NEW C, HasMarks(C), NEW text \in Seq(C)
  PROVE  Quoted(text) \in Seq(C)
<1>1. PICK mark : mark = "'"
  OBVIOUS
<1>2. mark \in C
  BY <1>1 DEF HasMarks
<1>3. <<mark>> \in Seq(C)
  BY <1>2
<1>4. <<mark>> \o text \in Seq(C)
  BY <1>3, ConcatProperties
<1>5. (<<mark>> \o text) \o <<mark>> \in Seq(C)
  BY <1>3, <1>4, ConcatProperties
<1> QED BY <1>1, <1>5 DEF Quoted, Enclosed

(* However a value is rendered or shown, it is text.                       *)
LEMMA RenderingType ==
  ASSUME NEW C, HasMarks(C), NEW option, NEW v, v.text \in Seq(C)
  PROVE  Rendering(option, v) \in Seq(C)
<1>1. Escaped(v.text) \in Seq(C)
  BY EscapedType
<1>2. Quoted(v.text) \in Seq(C) /\ Quoted(Escaped(v.text)) \in Seq(C)
  BY <1>1, QuotedType
<1> QED BY <1>1, <1>2, Zenon DEF Rendering

(* What is put into the statement for a value is a text.                   *)
LEMMA ShownType ==
  ASSUME NEW C, HasMarks(C), NEW option, NEW v, v.text \in Seq(C)
  PROVE  Shown(option, v) \in Seq(C)
<1>1. NullSQL \in Seq(C)
  <2>1. PICK n, u, l : n = "N" /\ u = "U" /\ l = "L"
    OBVIOUS
  <2>2. n \in C /\ u \in C /\ l \in C
    BY <2>1 DEF HasMarks
  <2>3. NullSQL = <<n, u, l, l>>
    BY <2>1 DEF NullSQL
  <2> QED BY <2>2, <2>3, ShortTexts
<1>2. Rendering(option, v) \in Seq(C)
  BY RenderingType
<1> QED BY <1>1, <1>2, Zenon DEF Shown

(* A value stays one when it is prepared, and it is prepared only once; it *)
(* is shown the same before and after, and remembers what was given.       *)
THEOREM PreparedOnce ==
  ASSUME NEW C, HasMarks(C), NEW O, NEW v \in ValueOver(C, O), NEW option, NEW other
  PROVE  /\ Prepared(option, v) \in ValueOver(C, O)
         /\ Prepared(other, Prepared(option, v)) = Prepared(option, v)
         /\ Shown(option, Prepared(option, v)) = Shown(option, v)
         /\ Prepared(option, v).orig = v.orig
<1>1. CASE v.processed \/ v.null
  <2>1. Prepared(option, v) = v /\ Prepared(other, v) = v
    BY <1>1 DEF Prepared
  <2> QED BY <2>1
<1>2. CASE ~v.processed /\ ~v.null
  <2>1. PICK replaced : replaced = (option = "q" \/ (option = "Q" /\ v.quote))
    OBVIOUS
  <2> DEFINE w == [v EXCEPT !.text = Rendering(option, v),
                            !.quote = @ \/ replaced, !.escape = @ \/ replaced,
                            !.processed = TRUE]
  <2>2. Prepared(option, v) = w
    BY <1>2, <2>1 DEF Prepared
  <2>3. Rendering(option, v) \in Seq(C) /\ replaced \in BOOLEAN
    BY <2>1, RenderingType DEF ValueOver
  <2>4. w \in ValueOver(C, O)
    BY <2>3 DEF ValueOver
  <2>5. w.processed /\ w.null = v.null /\ w.text = Rendering(option, v)
        /\ w.orig = v.orig
    BY DEF ValueOver
  <2> HIDE DEF w
  <2>6. Prepared(other, w) = w
    BY <2>5 DEF Prepared
  <2>7. Shown(option, w) = Shown(option, v)
    BY <1>2, <2>5 DEF Shown
  <2> QED BY <2>2, <2>4, <2>5, <2>6, <2>7
<1> QED BY <1>1, <1>2

-----------------------------------------------------------------------------
(* Reading back                                                            *)

(* The k-th of the sequences that are joined to all stands there after the *)
(* first start[k - 1] places.                                              *)
StandAt(start, seqs, all) ==
  /\ start \in [0..Len(seqs) -> Nat]
  /\ start[0] = 0 /\ start[Len(seqs)] = Len(all)
  /\ \A k \in 1..Len(seqs) :
       /\ start[k] = start[k - 1] + Len(seqs[k]) /\ start[k] <= Len(all)
       /\ \A j \in 1..Len(seqs[k]) : all[start[k - 1] + j] = seqs[k][j]

(* FlattenSeq() loses nothing and changes no order.                        *)
LEMMA FlattenPlaces ==
  ASSUME NEW C, NEW seqs \in Seq(Seq(C)), NEW all, all = FlattenSeq(seqs)
  PROVE  \E start : StandAt(start, seqs, all)
<1> DEFINE n == Len(seqs)
<1>1. n \in Nat /\ \A k \in 1..n : seqs[k] \in Seq(C) /\ Len(seqs[k]) \in Nat
  BY ElementOfSeq, LenProperties
<1>2. CASE seqs = <<>>
  <2>1. n = 0 /\ all = <<>> /\ Len(all) = 0
    BY <1>2 DEF FlattenSeq
  <2>2. PICK start : start = [k \in 0..0 |-> 0]
    OBVIOUS
  <2>3. start \in [0..0 -> Nat] /\ start[0] = 0 /\ 1..0 = {}
    BY <2>2
  <2> QED BY <2>1, <2>3 DEF StandAt
<1>3. CASE seqs # <<>>
  <2>1. n # 0
    BY <1>3, EmptySeq
  <2>2. PICK joined \in [1..n -> Seq(C)] :
          /\ joined[1] = seqs[1]
          /\ \A k \in 2..n : joined[k] = joined[k - 1] \o seqs[k]
          /\ all = joined[n]
    BY <1>3, FlattenSteps
  <2>3. PICK start : start = [k \in 0..n |-> IF k = 0 THEN 0 ELSE Len(joined[k])]
    OBVIOUS
  <2> HIDE DEF n
  <2>4. \A k \in 1..n : /\ joined[k] \in Seq(C) /\ Len(joined[k]) \in Nat
                        /\ k \in 0..n /\ k - 1 \in 0..n /\ k # 0
                        /\ start[k] = Len(joined[k])
    <3>1. \A k \in 1..n : joined[k] \in Seq(C) /\ Len(joined[k]) \in Nat
      BY LenProperties
    <3>2. \A k \in 1..n : k \in 0..n /\ k - 1 \in 0..n /\ k # 0
      BY <1>1
    <3> QED BY <2>3, <3>1, <3>2
  <2>5. start[0] = 0 /\ 0 \in 0..n /\ n \in 1..n
    BY <1>1, <2>1, <2>3
  <2>6. start \in [0..n -> Nat]
    <3>1. \A k \in 0..n : start[k] \in Nat
      <4> SUFFICES ASSUME NEW k \in 0..n PROVE start[k] \in Nat
        OBVIOUS
      <4>1. CASE k = 0
        BY <2>5, <4>1
      <4>2. CASE k # 0
        <5>1. k \in 1..n
          BY <1>1, <4>2
        <5> QED BY <2>4, <5>1
      <4> QED BY <4>1, <4>2
    <3> QED BY <2>3, <3>1
  <2>7. ASSUME NEW k \in 1..n
        PROVE  /\ start[k] = start[k - 1] + Len(seqs[k])
               /\ \A j \in 1..Len(seqs[k]) : joined[k][start[k - 1] + j] = seqs[k][j]
               /\ k # 1 => /\ k - 1 \in 1..n /\ start[k - 1] <= start[k]
                           /\ \A p \in 1..start[k - 1] : joined[k][p] = joined[k - 1][p]
    <3>1. CASE k = 1
      <4>1. start[k - 1] = 0 /\ joined[k] = seqs[k] /\ start[k] = Len(seqs[k])
        BY <2>2, <2>4, <2>5, <3>1
      <4>2. \A j \in 1..Len(seqs[k]) : 0 + j = j
        BY <1>1
      <4> QED BY <1>1, <3>1, <4>1, <4>2
    <3>2. CASE k # 1
      <4>1. k \in 2..n /\ k - 1 \in 1..n
        BY <1>1, <3>2
      <4>2. PICK a, b : a = joined[k - 1] /\ b = seqs[k]
        OBVIOUS
      <4>3. /\ a \in Seq(C) /\ b \in Seq(C) /\ joined[k] = a \o b
            /\ start[k - 1] = Len(a)
        BY <1>1, <2>2, <2>4, <4>1, <4>2
      <4>4. /\ Len(a) \in Nat /\ Len(b) \in Nat /\ Len(a \o b) = Len(a) + Len(b)
            /\ \A p \in 1..Len(a) + Len(b) :
                 (a \o b)[p] = IF p <= Len(a) THEN a[p] ELSE b[p - Len(a)]
        BY <4>3, LenProperties, ConcatProperties
      <4>5. /\ \A p \in 1..Len(a) : p \in 1..Len(a) + Len(b) /\ p <= Len(a)
            /\ \A j \in 1..Len(b) : /\ Len(a) + j \in 1..Len(a) + Len(b)
                                    /\ ~(Len(a) + j <= Len(a)) /\ (Len(a) + j) - Len(a) = j
            /\ Len(a) <= Len(a) + Len(b)
        BY <4>4
      <4>6. /\ \A p \in 1..Len(a) : (a \o b)[p] = a[p]
            /\ \A j \in 1..Len(b) : (a \o b)[Len(a) + j] = b[j]
        BY <4>4, <4>5
      <4>7. start[k] = Len(a) + Len(b)
        BY <2>4, <4>3, <4>4
      <4>8. /\ start[k] = start[k - 1] + Len(b)
            /\ \A j \in 1..Len(b) : joined[k][start[k - 1] + j] = b[j]
        BY <4>3, <4>6, <4>7
      <4>9. /\ start[k - 1] <= start[k]
            /\ \A p \in 1..start[k - 1] : joined[k][p] = a[p]
        BY <4>3, <4>5, <4>6, <4>7
      <4> QED BY <4>1, <4>2, <4>8, <4>9
    <3> QED BY <3>1, <3>2
  <2> DEFINE Placed(m) == \A k \in 1..m :
                            /\ start[k] <= start[m]
                            /\ \A j \in 1..Len(seqs[k]) :
                                 joined[m][start[k - 1] + j] = seqs[k][j]
             T == {m \in 0..n : Placed(m)}
  <2>8. ASSUME NEW m \in 1..n, m - 1 \in T PROVE m \in T
    <3> SUFFICES ASSUME NEW k \in 1..m
                 PROVE  /\ start[k] <= start[m]
                        /\ \A j \in 1..Len(seqs[k]) :
                             joined[m][start[k - 1] + j] = seqs[k][j]
      BY <2>4
    <3>1. CASE k = m
      BY <2>4, <2>7, <3>1
    <3>2. CASE k # m
      <4>1. k \in 1..m - 1 /\ m # 1 /\ k \in 1..n
        BY <1>1, <3>2
      <4>2. /\ start[k] <= start[m - 1]
            /\ \A j \in 1..Len(seqs[k]) : joined[m - 1][start[k - 1] + j] = seqs[k][j]
        BY <2>8, <4>1
      <4>3. /\ start[m - 1] <= start[m]
            /\ \A p \in 1..start[m - 1] : joined[m][p] = joined[m - 1][p]
        BY <2>7, <4>1
      <4>4. /\ start[k] \in Nat /\ start[m] \in Nat /\ start[m - 1] \in Nat
            /\ start[k - 1] \in Nat /\ Len(seqs[k]) \in Nat
            /\ start[k] = start[k - 1] + Len(seqs[k])
        BY <1>1, <2>4, <2>6, <2>7, <4>1
      <4>5. start[k] <= start[m]
        BY <4>2, <4>3, <4>4
      <4>6. \A j \in 1..Len(seqs[k]) : start[k - 1] + j \in 1..start[m - 1]
        <5>1. PICK a, b, c, l :
                a = start[k - 1] /\ b = start[k] /\ c = start[m - 1] /\ l = Len(seqs[k])
          OBVIOUS
        <5>2. /\ a \in Nat /\ b \in Nat /\ c \in Nat /\ l \in Nat
              /\ b = a + l /\ b <= c
          BY <4>2, <4>4, <5>1
        <5>3. \A j \in 1..l : a + j \in 1..c
          BY <5>2
        <5> QED BY <5>1, <5>3
      <4> QED BY <4>2, <4>3, <4>5, <4>6
    <3> QED BY <3>1, <3>2
  <2>9. n \in T
    <3>1. 0 \in T
      BY <1>1, <2>5
    <3>2. 0..n \subseteq T
      <4>1. PICK U : U = T
        OBVIOUS
      <4>2. 0 \in U /\ \A m \in 1..n : m - 1 \in U => m \in U
        <5> HIDE DEF T
        <5> QED BY <2>8, <3>1, <4>1
      <4> HIDE DEF T
      <4> QED BY <1>1, <4>1, <4>2, Upwards
    <3>3. n \in 0..n
      BY <1>1
    <3> QED BY <3>2, <3>3
  <2>10. start[n] = Len(all)
    BY <2>2, <2>4, <2>5
  <2>11. \A k \in 1..n :
           /\ start[k] = start[k - 1] + Len(seqs[k]) /\ start[k] <= Len(all)
           /\ \A j \in 1..Len(seqs[k]) : all[start[k - 1] + j] = seqs[k][j]
    BY <2>2, <2>7, <2>9, <2>10
  <2>12. StandAt(start, seqs, all)
    <3>1. n = Len(seqs)
      BY DEF n
    <3> QED BY <2>5, <2>6, <2>10, <2>11, <3>1 DEF StandAt
  <2> QED BY <2>12
<1> QED BY <1>2, <1>3

(* Every escape is undone by Unescaped().                                  *)
LEMMA EscapesUndone ==
  ASSUME NEW c \in DOMAIN Escapes
  PROVE  Unescaped(Escapes[c]) = c
<1>1. DOMAIN Escapes = {"NUL", "\\", "'", "\"", "nl", "cr"}
  BY DEF Escapes
<1>2. /\ Escapes["NUL"] = "0" /\ Escapes["nl"] = "n" /\ Escapes["cr"] = "r"
      /\ Escapes["\\"] = "\\" /\ Escapes["'"] = "'" /\ Escapes["\""] = "\""
  BY Zenon DEF Escapes
<1>3. \A a, b \in DOMAIN Escapes : Escapes[a] = Escapes[b] => a = b
  BY <1>1, <1>2
<1>4. PICK e : e = CHOOSE d \in DOMAIN Escapes : Escapes[d] = Escapes[c]
  OBVIOUS
<1>5. e \in DOMAIN Escapes /\ Escapes[e] = Escapes[c]
  BY <1>4
<1>6. Unescaped(Escapes[c]) = e
  BY <1>4 DEF Unescaped
<1> QED BY <1>3, <1>5, <1>6

(* What the server reads from position i on, given what it reads from      *)
(* every later one: the equation Read() solves.                            *)
ReadFrom(from, sql, i) ==
  CASE i > Len(sql) -> <<"broken">>
    [] i = Len(sql) -> IF sql[i] = "'" THEN <<>> ELSE <<"broken">>
    [] i < Len(sql) /\ sql[i] = "'" -> <<"broken">>
    [] i < Len(sql) /\ sql[i] = "\\" -> <<Unescaped(sql[i + 1])>> \o from[i + 2]
    [] OTHER -> <<sql[i]>> \o from[i + 1]

(* The ways through it, one by one.                                        *)
LEMMA ReadFromCases ==
  ASSUME NEW sql, Len(sql) \in Nat, NEW i \in Nat, NEW from
  PROVE  /\ i > Len(sql) => ReadFrom(from, sql, i) = <<"broken">>
         /\ i = Len(sql) => ReadFrom(from, sql, i)
                            = IF sql[i] = "'" THEN <<>> ELSE <<"broken">>
         /\ i < Len(sql) /\ sql[i] = "'" => ReadFrom(from, sql, i) = <<"broken">>
         /\ i < Len(sql) /\ sql[i] = "\\"
              => ReadFrom(from, sql, i) = <<Unescaped(sql[i + 1])>> \o from[i + 2]
         /\ i < Len(sql) /\ sql[i] # "'" /\ sql[i] # "\\"
              => ReadFrom(from, sql, i) = <<sql[i]>> \o from[i + 1]
<1>1. /\ i > Len(sql) => ~(i = Len(sql)) /\ ~(i < Len(sql))
      /\ i = Len(sql) => ~(i > Len(sql)) /\ ~(i < Len(sql))
      /\ i < Len(sql) => ~(i = Len(sql)) /\ ~(i > Len(sql))
  OBVIOUS
<1>2. sql[i] = "'" => sql[i] # "\\"
  OBVIOUS
<1>3. CASE i > Len(sql)
  <2>1. ReadFrom(from, sql, i) = <<"broken">>
    BY <1>1, <1>3, Zenon DEF ReadFrom
  <2> QED BY <1>1, <1>3, <2>1
<1>4. CASE i = Len(sql)
  <2>1. ReadFrom(from, sql, i) = IF sql[i] = "'" THEN <<>> ELSE <<"broken">>
    <3>1. /\ ~(i > Len(sql)) /\ ~(i < Len(sql) /\ sql[i] = "'")
          /\ ~(i < Len(sql) /\ sql[i] = "\\")
      BY <1>1, <1>4
    <3> QED BY <1>4, <3>1, Zenon DEF ReadFrom
  <2> QED BY <1>1, <1>4, <2>1
<1>5. CASE i < Len(sql) /\ sql[i] = "'"
  <2>1. ReadFrom(from, sql, i) = <<"broken">>
    <3>1. ~(i > Len(sql)) /\ i # Len(sql) /\ ~(i < Len(sql) /\ sql[i] = "\\")
      BY <1>1, <1>2, <1>5
    <3> QED BY <1>5, <3>1, Zenon DEF ReadFrom
  <2> QED BY <1>1, <1>2, <1>5, <2>1
<1>6. CASE i < Len(sql) /\ sql[i] = "\\"
  <2>1. ReadFrom(from, sql, i) = <<Unescaped(sql[i + 1])>> \o from[i + 2]
    <3>1. ~(i > Len(sql)) /\ i # Len(sql) /\ ~(i < Len(sql) /\ sql[i] = "'")
      BY <1>1, <1>2, <1>6
    <3> QED BY <1>6, <3>1, Zenon DEF ReadFrom
  <2> QED BY <1>1, <1>2, <1>6, <2>1
<1>7. CASE i < Len(sql) /\ sql[i] # "'" /\ sql[i] # "\\"
  <2>1. ReadFrom(from, sql, i) = <<sql[i]>> \o from[i + 1]
    <3>1. ~(i > Len(sql)) /\ i # Len(sql)
      BY <1>1, <1>7
    <3> QED BY <1>7, <3>1, Zenon DEF ReadFrom
  <2> QED BY <1>1, <1>7, <2>1
<1>8. i > Len(sql) \/ i = Len(sql) \/ i < Len(sql)
  OBVIOUS
<1> QED BY <1>1, <1>3, <1>4, <1>5, <1>6, <1>7, <1>8

(* Reading goes forward only.                                              *)
SameBehind(f, g, i, n) == \A m \in i + 1..n : f[m] = g[m]
LEMMA ReadFromLater ==
  ASSUME NEW sql, Len(sql) \in Nat, NEW i \in 1..Len(sql) + 1, NEW f, NEW g,
         SameBehind(f, g, i, Len(sql) + 1)
  PROVE  ReadFrom(f, sql, i) = ReadFrom(g, sql, i)
<1>1. i \in Nat
  OBVIOUS
<1>2. CASE i < Len(sql)
  <2>1. i + 1 \in i + 1..Len(sql) + 1 /\ i + 2 \in i + 1..Len(sql) + 1
    BY <1>2
  <2>2. f[i + 1] = g[i + 1] /\ f[i + 2] = g[i + 2]
    BY <2>1 DEF SameBehind
  <2> QED BY <1>1, <1>2, <2>2, ReadFromCases
<1>3. CASE ~(i < Len(sql))
  <2>1. i > Len(sql) \/ i = Len(sql)
    BY <1>3
  <2> QED BY <1>1, <2>1, ReadFromCases
<1> QED BY <1>2, <1>3

(* A text between two quotes is read from behind the first one.            *)
LEMMA ReadSteps ==
  ASSUME NEW sql, Len(sql) \in Nat, Len(sql) >= 2, sql[1] = "'"
  PROVE  \E from : /\ Read(sql) = from[2]
                   /\ \A i \in 2..Len(sql) + 1 : from[i] = ReadFrom(from, sql, i)
<1> DEFINE n == Len(sql) + 1
           Reads(f, k) == f = [i \in k..n |-> ReadFrom(f, sql, i)]
           S == {k \in 1..n : k = 1 \/ \E f : Reads(f, k)}
<1>1. n \in Nat /\ 2 \in 1..n
  OBVIOUS
<1>2. ASSUME NEW k \in 1..n, \A m \in k + 1..n : m \in S PROVE k \in S
  <2>1. PICK f : Reads(f, k + 1)
    <3>1. CASE k = n
      <4>1. k + 1..n = {}
        BY <1>1, <3>1
      <4>2. Reads([i \in {} |-> 0], k + 1)
        BY <4>1
      <4> HIDE DEF Reads
      <4> QED BY <4>2
    <3>2. CASE k # n
      <4>1. k + 1 \in k + 1..n /\ k + 1 # 1
        BY <1>1, <3>2
      <4>2. k + 1 \in S
        BY <1>2, <4>1
      <4> HIDE DEF Reads, n
      <4> QED BY <4>1, <4>2
    <3> QED BY <3>1, <3>2
  <2> DEFINE g == [i \in k..n |-> ReadFrom(f, sql, i)]
  <2>2. ASSUME NEW i \in k..n PROVE ReadFrom(f, sql, i) = ReadFrom(g, sql, i)
    <3>1. ASSUME NEW m \in i + 1..n PROVE f[m] = g[m]
      <4>1. m \in k + 1..n /\ m \in k..n
        BY <1>1
      <4>2. f[m] = ReadFrom(f, sql, m)
        BY <2>1, <4>1
      <4>3. g[m] = ReadFrom(f, sql, m)
        BY <4>1
      <4> QED BY <4>2, <4>3
    <3>2. i \in 1..n
      BY <1>1
    <3>3. SameBehind(f, g, i, Len(sql) + 1)
      BY <3>1 DEF SameBehind
    <3>4. i \in 1..Len(sql) + 1
      BY <3>2
    <3> HIDE DEF g, n
    <3> QED BY <3>3, <3>4, ReadFromLater
  <2>3. Reads(g, k)
    <3>1. [i \in k..n |-> ReadFrom(f, sql, i)] = [i \in k..n |-> ReadFrom(g, sql, i)]
      <4> HIDE DEF g
      <4> QED BY <2>2
    <3> QED BY <3>1
  <2> HIDE DEF Reads, g
  <2> QED BY <2>3
<1>3. \E f : Reads(f, 2)
  <2>1. 1..n \subseteq S
    <3> HIDE DEF S, n
    <3> QED BY <1>1, <1>2, Downwards
  <2>2. 2 \in S
    <3> HIDE DEF S, n
    <3> QED BY <1>1, <2>1
  <2> HIDE DEF Reads, n
  <2> QED BY <2>2
<1> DEFINE f == CHOOSE f : Reads(f, 2)
<1>4. Reads(f, 2)
  BY <1>3
<1>5. Read(sql) = f[2]
  BY DEF Read, ReadFrom
<1> HIDE DEF f
<1>6. \A i \in 2..n : f[i] = ReadFrom(f, sql, i)
  BY <1>4
<1> QED BY <1>5, <1>6

(* The text the program gave, with the marks and backslashes of quoting    *)
(* and escaping around and in it, is read back by the server as it was:    *)
(* no character of it ends the literal, and none is lost or doubled.       *)
THEOREM QuotedReadsBack ==
  ASSUME NEW C, HasMarks(C), NEW text \in Seq(C)
  PROVE  Read(Quoted(Escaped(text))) = text
<1> DEFINE n == Len(text)
           piece(i) == IF text[i] \in DOMAIN Escapes THEN <<"\\", Escapes[text[i]]>>
                       ELSE <<text[i]>>
           pieces == [i \in 1..n |-> piece(i)]
<1>1. n \in Nat /\ \A i \in 1..n : text[i] \in C
  BY LenProperties, ElementOfSeq
<1>2. pieces \in Seq(Seq(C)) /\ Len(pieces) = n
  <2>1. ASSUME NEW i \in 1..n PROVE piece(i) \in Seq(C)
    <3>1. PICK backslash : backslash = "\\"
      OBVIOUS
    <3>2. backslash \in C /\ (text[i] \in DOMAIN Escapes => Escapes[text[i]] \in C)
      BY <3>1 DEF HasMarks
    <3>3. text[i] \in DOMAIN Escapes => <<backslash, Escapes[text[i]]>> \in Seq(C)
      BY <3>2, ShortTexts
    <3>4. <<text[i]>> \in Seq(C)
      BY <1>1, ShortTexts
    <3> QED BY <3>1, <3>3, <3>4
  <2>2. pieces \in [1..n -> Seq(C)]
    <3> HIDE DEF piece
    <3> QED BY <2>1
  <2> HIDE DEF pieces, n
  <2> QED BY <1>1, <2>2
<1>3. PICK all : all = Escaped(text)
  OBVIOUS
<1>4. all = FlattenSeq(pieces)
  BY <1>3 DEF Escaped
<1>5. all \in Seq(C)
  BY <1>3, EscapedType
<1>6. \A i \in 1..n :
        /\ text[i] \in DOMAIN Escapes
             => /\ Len(pieces[i]) = 2 /\ pieces[i][1] = "\\"
                /\ pieces[i][2] = Escapes[text[i]]
        /\ text[i] \notin DOMAIN Escapes
             => Len(pieces[i]) = 1 /\ pieces[i][1] = text[i]
  OBVIOUS
<1> HIDE DEF pieces
<1>7. PICK start \in [0..n -> Nat] :
        /\ start[0] = 0 /\ start[n] = Len(all)
        /\ \A k \in 1..n :
             /\ start[k] = start[k - 1] + Len(pieces[k]) /\ start[k] <= Len(all)
             /\ \A j \in 1..Len(pieces[k]) : all[start[k - 1] + j] = pieces[k][j]
  <2>1. \E start : StandAt(start, pieces, all)
    <3>1. PICK seqs : seqs = pieces
      OBVIOUS
    <3>2. seqs \in Seq(Seq(C)) /\ all = FlattenSeq(seqs)
      BY <1>2, <1>4, <3>1
    <3>3. \E start : StandAt(start, seqs, all)
      BY <3>2, FlattenPlaces
    <3> QED BY <3>1, <3>3
  <2> HIDE DEF n
  <2> QED BY <1>2, <2>1 DEF StandAt
<1>8. PICK sql : sql = Quoted(all)
  OBVIOUS
<1>9. /\ Len(all) \in Nat /\ Len(sql) = Len(all) + 2
      /\ sql[1] = "'" /\ sql[Len(all) + 2] = "'"
      /\ \A p \in 1..Len(all) : sql[p + 1] = all[p]
  <2>1. PICK mark : mark = "'"
    OBVIOUS
  <2>2. mark \in C
    BY <2>1 DEF HasMarks
  <2>3. <<mark>> \in Seq(C) /\ Len(<<mark>>) = 1 /\ <<mark>>[1] = mark
    BY <2>2
  <2>4. PICK one : one = <<mark>>
    OBVIOUS
  <2>5. sql = (one \o all) \o one
    BY <1>8, <2>1, <2>4 DEF Quoted, Enclosed
  <2>6. one \in Seq(C) /\ Len(one) = 1 /\ one[1] = mark /\ Len(all) \in Nat
    BY <1>5, <2>3, <2>4, LenProperties
  <2>7. PICK front : front = one \o all
    OBVIOUS
  <2>8. /\ front \in Seq(C) /\ Len(front) = Len(one) + Len(all)
        /\ \A p \in 1..Len(one) + Len(all) :
             front[p] = IF p <= Len(one) THEN one[p] ELSE all[p - Len(one)]
    <3>1. PICK t : t = all
      OBVIOUS
    <3>2. one \in Seq(C) /\ t \in Seq(C)
      BY <1>5, <2>6, <3>1
    <3>3. /\ one \o t \in Seq(C) /\ Len(one \o t) = Len(one) + Len(t)
          /\ \A p \in 1..Len(one) + Len(t) :
               (one \o t)[p] = IF p <= Len(one) THEN one[p] ELSE t[p - Len(one)]
      BY <3>2, ConcatProperties
    <3> QED BY <2>7, <3>1, <3>3
  <2>9. /\ Len(front \o one) = Len(front) + Len(one)
        /\ \A p \in 1..Len(front) + Len(one) :
             (front \o one)[p] = IF p <= Len(front) THEN front[p] ELSE one[p - Len(front)]
    <3>1. front \in Seq(C) /\ one \in Seq(C)
      BY <2>6, <2>8
    <3> QED BY <3>1, ConcatProperties
  <2>10. sql = front \o one
    BY <2>5, <2>7
  <2>11. /\ Len(front) = Len(all) + 1 /\ Len(sql) = Len(all) + 2
         /\ \A p \in 1..Len(all) + 1 : sql[p] = front[p]
         /\ sql[Len(all) + 2] = one[1]
    BY <2>6, <2>8, <2>9, <2>10
  <2>12. /\ front[1] = one[1] /\ 1 \in 1..Len(all) + 1
         /\ \A p \in 1..Len(all) : front[p + 1] = all[p] /\ p + 1 \in 1..Len(all) + 1
    BY <2>6, <2>8
  <2> QED BY <2>1, <2>6, <2>11, <2>12
<1>10. PICK from :
         /\ Read(sql) = from[2]
         /\ \A i \in 2..Len(sql) + 1 : from[i] = ReadFrom(from, sql, i)
  <2>1. Len(sql) \in Nat /\ Len(sql) >= 2 /\ sql[1] = "'"
    BY <1>9
  <2> QED BY <2>1, ReadSteps
<1> DEFINE S == {d \in 0..n : from[2 + start[n - d]] = SubSeq(text, (n - d) + 1, n)}
<1> HIDE DEF n, piece
<1>11. 0 \in S
  <2>1. 0 \in 0..n /\ n - 0 = n /\ n < n + 1
    BY <1>1
  <2>2. SubSeq(text, n + 1, n) = <<>>
    BY <1>1, <2>1, SubSeqEmpty
  <2>3. 2 + start[n] = Len(sql) /\ Len(sql) \in Nat /\ Len(sql) \in 2..Len(sql) + 1
        /\ sql[Len(sql)] = "'"
    BY <1>7, <1>9
  <2>4. from[Len(sql)] = <<>>
    BY <1>10, <2>3, ReadFromCases
  <2> QED BY <2>1, <2>2, <2>3, <2>4
<1>12. ASSUME NEW d \in 1..n, d - 1 \in S PROVE d \in S
  <2>1. PICK k : k = n - (d - 1)
    OBVIOUS
  <2>2. k \in 1..n /\ n - d = k - 1 /\ d \in 0..n /\ (k - 1) + 1 = k /\ n \in k..n
    BY <1>1, <2>1
  <2>3. from[2 + start[k]] = SubSeq(text, k + 1, n)
    BY <1>12, <2>1
  <2>4. PICK i : i = 2 + start[k - 1]
    OBVIOUS
  <2>5. PICK a, b, l : a = start[k - 1] /\ b = start[k] /\ l = Len(all)
    OBVIOUS
  <2>6. /\ a \in Nat /\ b \in Nat /\ l \in Nat /\ Len(sql) = l + 2 /\ i = 2 + a
        /\ b = a + Len(pieces[k]) /\ b <= l
        /\ \A j \in 1..Len(pieces[k]) : all[a + j] = pieces[k][j]
    <3>1. k \in 0..n /\ k - 1 \in 0..n
      BY <1>1, <2>2
    <3>2. a \in Nat /\ b \in Nat
      BY <1>7, <2>5, <3>1
    <3>3. /\ b = a + Len(pieces[k]) /\ b <= l
          /\ \A j \in 1..Len(pieces[k]) : all[a + j] = pieces[k][j]
      BY <1>7, <2>2, <2>5
    <3> QED BY <1>9, <2>4, <2>5, <3>2, <3>3
  <2>7. from[i] = <<text[k]>> \o from[2 + start[k]]
    <3>1. CASE text[k] \in DOMAIN Escapes
      <4>1. Len(pieces[k]) = 2 /\ pieces[k][1] = "\\" /\ pieces[k][2] = Escapes[text[k]]
        BY <1>6, <2>2, <3>1
      <4>2. b = a + 2 /\ all[a + 1] = "\\" /\ all[a + 2] = Escapes[text[k]]
        <5>1. b = a + 2 /\ \A j \in 1..2 : all[a + j] = pieces[k][j]
          BY <2>6, <4>1
        <5>2. 1 \in 1..2 /\ 2 \in 1..2
          OBVIOUS
        <5> QED BY <4>1, <5>1, <5>2
      <4>3. /\ i \in Nat /\ i \in 2..Len(sql) + 1 /\ i < Len(sql)
            /\ i = (a + 1) + 1 /\ i + 1 = (a + 2) + 1 /\ i + 2 = 2 + b
            /\ a + 1 \in 1..l /\ a + 2 \in 1..l
        <5>1. PICK m : m = Len(sql)
          OBVIOUS
        <5>2. /\ a \in Nat /\ b \in Nat /\ l \in Nat /\ m = l + 2 /\ i = 2 + a
              /\ b <= l /\ b = a + 2
          BY <2>6, <4>2, <5>1
        <5>3. /\ i \in Nat /\ i \in 2..m + 1 /\ i < m
              /\ i = (a + 1) + 1 /\ i + 1 = (a + 2) + 1 /\ i + 2 = 2 + b
              /\ a + 1 \in 1..l /\ a + 2 \in 1..l
          BY <5>2
        <5> QED BY <5>1, <5>3
      <4>4. sql[i] = "\\" /\ sql[i + 1] = Escapes[text[k]]
        BY <1>9, <2>5, <4>2, <4>3
      <4>5. from[i] = <<Unescaped(sql[i + 1])>> \o from[i + 2]
        <5>1. from[i] = ReadFrom(from, sql, i)
          BY <1>10, <4>3
        <5>2. Len(sql) \in Nat
          BY <2>6
        <5>3. i \in Nat /\ i < Len(sql)
          BY <4>3
        <5>4. ReadFrom(from, sql, i) = <<Unescaped(sql[i + 1])>> \o from[i + 2]
          BY <4>4, <5>2, <5>3, ReadFromCases
        <5> QED BY <5>1, <5>4
      <4>6. from[i + 2] = from[2 + start[k]]
        BY <2>5, <4>3
      <4> QED BY <3>1, <4>4, <4>5, <4>6, EscapesUndone
    <3>2. CASE text[k] \notin DOMAIN Escapes
      <4>1. Len(pieces[k]) = 1 /\ pieces[k][1] = text[k]
        BY <1>6, <2>2, <3>2
      <4>2. b = a + 1 /\ all[a + 1] = text[k]
        <5>1. b = a + 1 /\ \A j \in 1..1 : all[a + j] = pieces[k][j]
          BY <2>6, <4>1
        <5>2. 1 \in 1..1
          OBVIOUS
        <5> QED BY <4>1, <5>1, <5>2
      <4>3. /\ i \in Nat /\ i \in 2..Len(sql) + 1 /\ i < Len(sql)
            /\ i = (a + 1) + 1 /\ i + 1 = 2 + b /\ a + 1 \in 1..l
        <5>1. PICK m : m = Len(sql)
          OBVIOUS
        <5>2. /\ a \in Nat /\ b \in Nat /\ l \in Nat /\ m = l + 2 /\ i = 2 + a
              /\ b <= l /\ b = a + 1
          BY <2>6, <4>2, <5>1
        <5>3. /\ i \in Nat /\ i \in 2..m + 1 /\ i < m
              /\ i = (a + 1) + 1 /\ i + 1 = 2 + b /\ a + 1 \in 1..l
          BY <5>2
        <5> QED BY <5>1, <5>3
      <4>4. sql[i] = text[k]
        BY <1>9, <2>5, <4>2, <4>3
      <4>5. text[k] # "'" /\ text[k] # "\\"
        BY <3>2 DEF Escapes
      <4>6. from[i] = <<sql[i]>> \o from[i + 1]
        <5>1. from[i] = ReadFrom(from, sql, i)
          BY <1>10, <4>3
        <5>2. Len(sql) \in Nat
          BY <2>6
        <5>3. i \in Nat /\ i < Len(sql) /\ sql[i] # "'" /\ sql[i] # "\\"
          BY <4>3, <4>4, <4>5
        <5>4. ReadFrom(from, sql, i) = <<sql[i]>> \o from[i + 1]
          BY <5>2, <5>3, ReadFromCases
        <5> QED BY <5>1, <5>4
      <4>7. from[i + 1] = from[2 + start[k]]
        BY <2>5, <4>3
      <4> QED BY <4>4, <4>6, <4>7
    <3> QED BY <3>1, <3>2
  <2>8. SubSeq(text, k, n) = <<text[k]>> \o SubSeq(text, k + 1, n)
    BY <2>2, SubSeqRecursiveFirst DEF n
  <2>9. from[2 + start[n - d]] = SubSeq(text, (n - d) + 1, n)
    BY <2>2, <2>3, <2>4, <2>7, <2>8
  <2> QED BY <2>2, <2>9
<1>13. n \in S
  <2>1. 0..n \subseteq S
    <3> HIDE DEF S
    <3> QED BY <1>1, <1>11, <1>12, Upwards
  <2>2. n \in 0..n
    BY <1>1
  <2> QED BY <2>1, <2>2
<1>14. from[2] = SubSeq(text, 1, n)
  <2>1. n - n = 0 /\ 0 + 1 = 1 /\ 2 + start[0] = 2
    BY <1>1, <1>7
  <2> QED BY <1>13, <2>1
<1>15. SubSeq(text, 1, n) = text
  BY SubSeqFull DEF n
<1> QED BY <1>3, <1>8, <1>10, <1>14, <1>15

(* A string in a template query reaches the server as the program gave it, *)
(* as an argument or as a default that was prepared before, for whatever   *)
(* option.                                                                 *)
THEOREM StringReadsBack ==
  ASSUME NEW C, HasMarks(C), NEW O, NEW v \in ValueOver(C, O), NEW other,
         v.quote, v.escape, ~v.null, ~v.processed
  PROVE  /\ Read(Shown("q", v)) = v.text
         /\ Read(Shown(other, Prepared("q", v))) = v.text
<1>1. v.text \in Seq(C) /\ Prepared("q", v) \in ValueOver(C, O)
  BY PreparedOnce DEF ValueOver
<1>2. Shown("q", v) = Quoted(Escaped(v.text))
  BY DEF Shown, Rendering, Options
<1>3. Shown(other, Prepared("q", v)) = Quoted(Escaped(v.text))
  <2>1. PICK w : w = Prepared("q", v)
    OBVIOUS
  <2>2. w.text = Rendering("q", v) /\ w.null = v.null /\ w.processed = TRUE
    BY <2>1 DEF Prepared, ValueOver
  <2>3. Shown(other, w) = Rendering("q", v)
    BY <2>2 DEF Shown
  <2> QED BY <2>1, <2>3 DEF Rendering, Options
<1> QED BY <1>1, <1>2, <1>3, QuotedReadsBack

-----------------------------------------------------------------------------
(* The inductive invariant, of a Query r                                   *)

Typed(r) ==
  /\ r = [buf |-> r.buf, elems |-> r.elems, nums |-> r.nums, defaults |-> r.defaults,
          own |-> r.own, parentNums |-> r.parentNums, tmpl |-> r.tmpl,
          parses |-> r.parses, copied |-> r.copied]
  /\ r.buf \in Seq(Characters) /\ r.tmpl \in Seq(Characters)
  /\ r.elems \in Seq(Element) /\ Len(r.elems) <= MaxElems
  /\ Numbering(r.nums) /\ Numbering(r.parentNums)
  /\ r.defaults \in Seq(Value)
  /\ r.own \in BOOLEAN /\ r.copied \in BOOLEAN /\ r.parses \in 0..2

(* The elements are those of the template, as long as it is the only one.  *)
TemplateKept(r) ==
  /\ r.parses = 0 <=> r.elems = <<>>
  /\ r.parses = 1 => r.elems = Parse(r.tmpl)

(* new[n] is old[n], or what an element that uses it made of it.           *)
PreparedFor(elems, old, new, n) ==
  \/ new[n] = old[n]
  \/ \E k \in 1..Len(elems) :
       elems[k].num + 1 = n /\ new[n] = Prepared(elems[k].option, old[n])

(* Unless processed defaults were copied, a default is the value that was  *)
(* given, or what an element of the template made of it.                   *)
AsGiven(defaults) == [n \in Nat |-> Fresh(defaults[n].orig)]
DefaultsKept(r) ==
  ~r.copied =>
    \A n \in 1..Len(r.defaults) :
      PreparedFor(r.elems, AsGiven(r.defaults), r.defaults, n)

Lead(r) ==
  \A name \in NamesOf(r.elems) :
    name \in DOMAIN r.nums /\ r.nums[name] = LastNum(r.elems, name)

QueryInv(r) == Typed(r) /\ TemplateKept(r) /\ DefaultsKept(r) /\ Lead(r)

Inv == QueryInv(query) /\ last.call \in Calls \cup {"none"} /\ FilledOnce

-----------------------------------------------------------------------------
(* Filling a template                                                      *)

(* What TemplateAssumption says of the characters is what the lemmas about *)
(* the grammar and the values need.                                        *)
LEMMA CharactersFit ==
  /\ HasBlank(Characters) /\ HasMarks(Characters)
  /\ <<" ERROR">> \in Seq(Characters)
  /\ Element = ElementOver(Characters)
  /\ Value = ValueOver(Characters, Values \cup {EmptyText})
<1>1. HasBlank(Characters) /\ HasMarks(Characters)
  BY TemplateAssumption DEF HasBlank, HasMarks
<1>2. PICK error : error = " ERROR"
  OBVIOUS
<1>3. error \in Characters
  BY <1>2, TemplateAssumption
<1>4. <<error>> \in Seq(Characters)
  BY <1>3
<1> QED BY <1>1, <1>2, <1>4 DEF Element, Value, ElementOver, ValueOver

(* PreparedOnce, for the values of this module: preparing a default again, *)
(* for whatever option, changes nothing, and it is shown as before.        *)
LEMMA PreparedValue ==
  ASSUME NEW v \in Value, NEW option, NEW other
  PROVE  /\ Prepared(option, v) \in Value
         /\ Prepared(other, Prepared(option, v)) = Prepared(option, v)
         /\ Shown(option, Prepared(option, v)) = Shown(option, v)
         /\ Prepared(option, v).orig = v.orig
<1>1. PICK O : O = Values \cup {EmptyText}
  OBVIOUS
<1>2. HasMarks(Characters) /\ Value = ValueOver(Characters, O)
  BY <1>1, CharactersFit
<1>3. v \in ValueOver(Characters, O)
  BY <1>2
<1>4. /\ Prepared(option, v) \in ValueOver(Characters, O)
      /\ Prepared(other, Prepared(option, v)) = Prepared(option, v)
      /\ Shown(option, Prepared(option, v)) = Shown(option, v)
      /\ Prepared(option, v).orig = v.orig
  BY <1>2, <1>3, PreparedOnce
<1> QED BY <1>2, <1>4

(* Arguments are values with a text.                                       *)
HaveTexts(args) ==
  Len(args) \in Nat /\ \A n \in 1..Len(args) : args[n].text \in Seq(Characters)

(* The state of a filling.                                                 *)
Filling == [text : Seq(Characters), defaults : Seq(Value), ok : BOOLEAN]

(* What stands for the parameter of an element.                            *)
Standing(e, args, defaults) ==
  IF e.num + 1 \in 1..Len(args) THEN args[e.num + 1] ELSE defaults[e.num + 1]

(* The numbers of elements are integers.                                   *)
LEMMA SmallNumber ==
  ASSUME NEW i \in -128..127
  PROVE  i \in Int
OBVIOUS

(* The first places of a sequence that is continued.                       *)
LEMMA FirstPlaces ==
  ASSUME NEW a \in Nat, NEW b \in Nat
  PROVE  \A k \in 1..a : k \in 1..a + b /\ k <= a
OBVIOUS

(* The number of a parameter is that of none, of an argument, or of a      *)
(* default, and of one of these only.                                      *)
LEMMA Places ==
  ASSUME NEW i \in Int, NEW a \in Nat, NEW b \in Nat
  PROVE  /\ i + 1 <= 0 => i < 0 /\ i + 1 \notin 1..a /\ i + 1 \notin a + 1..b
         /\ i + 1 \in 1..a => ~(i + 1 <= 0) /\ ~(i < 0) /\ i + 1 \notin a + 1..b
         /\ i + 1 \in a + 1..b
              => ~(i + 1 <= 0) /\ ~(i < 0) /\ i + 1 \notin 1..a /\ i + 1 \in 1..b
OBVIOUS

(* Of the defaults, an element prepares one at most.                       *)
PreparedOne(e, old, new) ==
  /\ Len(new) = Len(old)
  /\ \A n \in 1..Len(old) :
       new[n] = old[n] \/ (n = e.num + 1 /\ new[n] = Prepared(e.option, old[n]))

(* One element: the filling goes on, and its defaults are prepared.        *)
LEMMA OneElement ==
  ASSUME NEW s \in Filling, NEW e \in Element, NEW args, HaveTexts(args),
         NEW t, t = WithElement(s, e, args)
  PROVE  /\ t \in Filling
         /\ PreparedOne(e, s.defaults, t.defaults)
         /\ t.ok => /\ s.ok
                    /\ e.num < 0 => t.text = s.text \o e.before
                    /\ ~(e.num < 0) =>
                         /\ e.num + 1 \in 1..Len(args) \/ e.num + 1 \in 1..Len(s.defaults)
                         /\ t.text = (s.text \o e.before)
                                     \o Shown(e.option, Standing(e, args, s.defaults))
<1> DEFINE n == e.num + 1
           text == s.text \o e.before
<1>1. /\ s.text \in Seq(Characters) /\ s.defaults \in Seq(Value) /\ s.ok \in BOOLEAN
      /\ s = [text |-> s.text, defaults |-> s.defaults, ok |-> s.ok]
  BY DEF Filling
<1>2. e.num \in -128..127 /\ e.before \in Seq(Characters)
  BY DEF Element
<1>3. text \in Seq(Characters)
  BY <1>1, <1>2, ConcatProperties
<1>4. /\ n <= 0 => e.num < 0 /\ n \notin 1..Len(args)
                   /\ n \notin Len(args) + 1..Len(s.defaults)
      /\ n \in 1..Len(args) => ~(n <= 0) /\ ~(e.num < 0)
                               /\ n \notin Len(args) + 1..Len(s.defaults)
      /\ n \in Len(args) + 1..Len(s.defaults)
           => ~(n <= 0) /\ ~(e.num < 0) /\ n \notin 1..Len(args)
              /\ n \in 1..Len(s.defaults)
  <2>1. Len(args) \in Nat
    BY DEF HaveTexts
  <2>2. Len(s.defaults) \in Nat
    BY <1>1, LenProperties
  <2>3. e.num \in Int
    BY <1>2, SmallNumber
  <2> QED BY <2>1, <2>2, <2>3, Places
<1>5. CASE ~s.ok
  <2>1. t = s
    BY <1>5, Zenon DEF WithElement
  <2> QED BY <1>5, <2>1 DEF PreparedOne
<1>6. CASE s.ok /\ n <= 0
  <2>1. t = [s EXCEPT !.text = text]
    BY <1>4, <1>6, Zenon DEF WithElement
  <2>2. /\ t.text = text /\ t.defaults = s.defaults /\ t.ok = s.ok /\ t \in Filling
    BY <1>1, <1>3, <2>1 DEF Filling
  <2> QED BY <1>4, <1>6, <2>2 DEF PreparedOne
<1>7. CASE s.ok /\ n \in 1..Len(args)
  <2>1. ~(n <= 0) /\ ~(e.num < 0) /\ n \notin Len(args) + 1..Len(s.defaults)
    BY <1>4, <1>7
  <2>2. t = [s EXCEPT !.text = text \o Shown(e.option, args[n])]
    BY <1>7, <2>1, Zenon DEF WithElement
  <2>3. Shown(e.option, args[n]) \in Seq(Characters)
    BY <1>7, CharactersFit, ShownType DEF HaveTexts
  <2>4. text \o Shown(e.option, args[n]) \in Seq(Characters)
    BY <1>3, <2>3, ConcatProperties
  <2>5. /\ t.text = text \o Shown(e.option, args[n])
        /\ t.defaults = s.defaults /\ t.ok = s.ok /\ t \in Filling
    BY <1>1, <2>2, <2>4 DEF Filling
  <2>6. Standing(e, args, s.defaults) = args[n]
    BY <1>7 DEF Standing
  <2> QED BY <1>7, <2>1, <2>5, <2>6 DEF PreparedOne
<1>8. CASE s.ok /\ n \in Len(args) + 1..Len(s.defaults)
  <2>1. /\ ~(n <= 0) /\ ~(e.num < 0) /\ n \notin 1..Len(args)
        /\ n \in 1..Len(s.defaults)
    BY <1>4, <1>8
  <2> DEFINE new == [s.defaults EXCEPT ![n] = Prepared(e.option, s.defaults[n])]
  <2>2. t = [s EXCEPT !.text = text \o Shown(e.option, s.defaults[n]),
                      !.defaults[n] = Prepared(e.option, @)]
    BY <1>8, <2>1, Zenon DEF WithElement
  <2>3. PICK v : v = s.defaults[n]
    OBVIOUS
  <2>4. /\ Shown(e.option, s.defaults[n]) \in Seq(Characters)
        /\ Prepared(e.option, s.defaults[n]) \in Value
    <3>1. v \in Value
      BY <1>1, <2>1, <2>3, ElementOfSeq
    <3>2. v.text \in Seq(Characters)
      BY <3>1 DEF Value
    <3>3. Shown(e.option, v) \in Seq(Characters)
      BY <3>2, CharactersFit, ShownType
    <3>4. Prepared(e.option, v) \in Value
      BY <3>1, PreparedValue
    <3> QED BY <2>3, <3>3, <3>4
  <2>5. text \o Shown(e.option, s.defaults[n]) \in Seq(Characters)
    BY <1>3, <2>4, ConcatProperties
  <2>6. /\ new \in Seq(Value) /\ Len(new) = Len(s.defaults)
        /\ \A m \in 1..Len(s.defaults) :
             new[m] = IF m = n THEN Prepared(e.option, s.defaults[n]) ELSE s.defaults[m]
    BY <1>1, <2>1, <2>4, ExceptSeq
  <2>7. t = [text |-> text \o Shown(e.option, s.defaults[n]), defaults |-> new,
             ok |-> s.ok]
    BY <1>1, <2>2
  <2> HIDE DEF new
  <2>8. /\ t.text = text \o Shown(e.option, s.defaults[n])
        /\ t.defaults = new /\ t.ok = s.ok /\ t \in Filling
    <3>1. PICK shown : shown = text \o Shown(e.option, s.defaults[n])
      OBVIOUS
    <3>2. t = [text |-> shown, defaults |-> new, ok |-> s.ok]
      BY <2>7, <3>1
    <3>3. shown \in Seq(Characters) /\ new \in Seq(Value)
      BY <2>5, <2>6, <3>1
    <3>4. t \in Filling
      BY <1>1, <3>2, <3>3 DEF Filling
    <3>5. t.text = shown /\ t.defaults = new /\ t.ok = s.ok
      BY <3>2
    <3> QED BY <3>1, <3>4, <3>5
  <2>9. Standing(e, args, s.defaults) = s.defaults[n]
    BY <2>1 DEF Standing
  <2> QED BY <1>8, <2>1, <2>6, <2>8, <2>9 DEF PreparedOne
<1>9. CASE s.ok /\ ~(n <= 0) /\ n \notin 1..Len(args)
           /\ n \notin Len(args) + 1..Len(s.defaults)
  <2>1. t = [s EXCEPT !.text = text \o <<" ERROR">>, !.ok = FALSE]
    BY <1>9, Zenon DEF WithElement
  <2>2. text \o <<" ERROR">> \in Seq(Characters)
    BY <1>3, CharactersFit, ConcatProperties
  <2>3. t.defaults = s.defaults /\ t.ok = FALSE /\ t \in Filling
    BY <1>1, <2>1, <2>2 DEF Filling
  <2> QED BY <2>3 DEF PreparedOne
<1> QED BY <1>1, <1>5, <1>6, <1>7, <1>8, <1>9

Start(defaults) == [text |-> <<>>, defaults |-> defaults, ok |-> TRUE]

(* Proc() goes through the elements one by one.                            *)
Goes(after, elems, args, defaults) ==
  /\ after[0] = Start(defaults)
  /\ \A k \in 1..Len(elems) : after[k] = WithElement(after[k - 1], elems[k], args)

(* The recursive function of Proc() exists: its steps are those of Goes.   *)
LEMMA ProcSteps ==
  ASSUME NEW elems, Len(elems) \in Nat, NEW args, NEW defaults
  PROVE  \E after : /\ Goes(after, elems, args, defaults)
                     /\ Proc(elems, args, defaults) = after[Len(elems)]
<1> DEFINE n == Len(elems)
           Solves(f, m) == f = [k \in 0..m |-> IF k = 0 THEN Start(defaults)
                                             ELSE WithElement(f[k - 1], elems[k], args)]
           S == {m \in 0..n : \E f : Solves(f, m)}
<1>1. n \in Nat
  OBVIOUS
<1>2. 0 \in S
  <2>1. \E f : Solves(f, 0)
    <3>1. Solves([k \in 0..0 |-> Start(defaults)], 0)
      OBVIOUS
    <3> HIDE DEF Solves
    <3> QED BY <3>1
  <2> HIDE DEF Solves
  <2> QED BY <1>1, <2>1
<1>3. ASSUME NEW m \in 1..n, m - 1 \in S PROVE m \in S
  <2>1. PICK f : Solves(f, m - 1)
    BY <1>3
  <2> DEFINE g == [k \in 0..m |-> IF k = 0 THEN Start(defaults)
                                  ELSE WithElement(f[k - 1], elems[k], args)]
  <2>2. ASSUME NEW k \in 0..m, k # 0 PROVE g[k - 1] = f[k - 1]
    <3>1. k - 1 \in 0..m /\ k - 1 \in 0..m - 1
      BY <1>1, <2>2
    <3>2. f[k - 1] = IF k - 1 = 0 THEN Start(defaults)
                     ELSE WithElement(f[(k - 1) - 1], elems[k - 1], args)
      BY <2>1, <3>1
    <3>3. g[k - 1] = IF k - 1 = 0 THEN Start(defaults)
                     ELSE WithElement(f[(k - 1) - 1], elems[k - 1], args)
      BY <3>1
    <3> QED BY <3>2, <3>3
  <2>3. Solves(g, m)
    <3>1. ASSUME NEW k \in 0..m
          PROVE  (IF k = 0 THEN Start(defaults) ELSE WithElement(f[k - 1], elems[k], args))
                 = (IF k = 0 THEN Start(defaults)
                    ELSE WithElement(g[k - 1], elems[k], args))
      <4> HIDE DEF g
      <4> QED BY <2>2
    <3> QED BY <3>1
  <2> HIDE DEF Solves, g
  <2> QED BY <1>1, <2>3
<1>4. \E f : Solves(f, n)
  <2>1. 0..n \subseteq S
    <3> HIDE DEF S, n
    <3> QED BY <1>1, <1>2, <1>3, Upwards
  <2>2. n \in 0..n
    BY <1>1
  <2>3. n \in S
    <3> HIDE DEF S
    <3> QED BY <2>1, <2>2
  <2> QED BY <2>3
<1> DEFINE f == CHOOSE f : Solves(f, n)
<1>5. Solves(f, n)
  BY <1>4
<1>6. Proc(elems, args, defaults) = f[n]
  BY DEF Proc, Start
<1> HIDE DEF f
<1>7. \A k \in 0..n : f[k] = IF k = 0 THEN Start(defaults)
                             ELSE WithElement(f[k - 1], elems[k], args)
  BY <1>5
<1>8. /\ f[0] = Start(defaults)
      /\ \A k \in 1..n : f[k] = WithElement(f[k - 1], elems[k], args)
  <2>1. 0 \in 0..n /\ \A k \in 1..n : k \in 0..n /\ k # 0
    BY <1>1
  <2> QED BY <1>7, <2>1
<1> QED BY <1>6, <1>8 DEF Goes

(* While it goes, every default is what it was given as, or what one of    *)
(* the elements made of that.                                              *)
LEMMA FillingKeeps ==
  ASSUME NEW elems \in Seq(Element), NEW args, HaveTexts(args),
         NEW defaults \in Seq(Value), NEW given,
         \A n \in 1..Len(defaults) :
           given[n] \in Value /\ PreparedFor(elems, given, defaults, n),
         NEW after, Goes(after, elems, args, defaults)
  PROVE  \A k \in 0..Len(elems) :
           /\ after[k] \in Filling
           /\ Len(after[k].defaults) = Len(defaults)
           /\ \A n \in 1..Len(defaults) : PreparedFor(elems, given, after[k].defaults, n)
<1> DEFINE Keeps(s) == /\ s \in Filling
                       /\ Len(s.defaults) = Len(defaults)
                       /\ \A n \in 1..Len(defaults) :
                            PreparedFor(elems, given, s.defaults, n)
           S == {k \in 0..Len(elems) : Keeps(after[k])}
<1>1. Len(elems) \in Nat
  BY LenProperties
<1>2. Keeps(after[0])
  <2>1. <<>> \in Seq(Characters)
    BY EmptySeq
  <2> QED BY <2>1 DEF Start, Filling, Goes
<1>3. ASSUME NEW k \in 1..Len(elems), Keeps(after[k - 1]) PROVE Keeps(after[k])
  <2>1. PICK s : s = after[k - 1]
    OBVIOUS
  <2>2. PICK t : t = WithElement(s, elems[k], args)
    OBVIOUS
  <2>3. Keeps(s) /\ after[k] = t /\ elems[k] \in Element
    BY <1>3, <2>1, <2>2, ElementOfSeq DEF Goes
  <2>4. t \in Filling /\ PreparedOne(elems[k], s.defaults, t.defaults)
    <3>1. PICK e : e = elems[k]
      OBVIOUS
    <3>2. e \in Element /\ s \in Filling /\ t = WithElement(s, e, args)
      BY <2>2, <2>3, <3>1
    <3>3. t \in Filling /\ PreparedOne(e, s.defaults, t.defaults)
      BY <3>2, OneElement
    <3> QED BY <3>1, <3>3
  <2>5. ASSUME NEW n \in 1..Len(defaults) PROVE PreparedFor(elems, given, t.defaults, n)
    <3>1. CASE t.defaults[n] = s.defaults[n]
      BY <2>3, <3>1 DEF PreparedFor
    <3>2. CASE /\ n = elems[k].num + 1
               /\ t.defaults[n] = Prepared(elems[k].option, s.defaults[n])
      <4>1. CASE s.defaults[n] = given[n]
        BY <3>2, <4>1 DEF PreparedFor
      <4>2. CASE s.defaults[n] # given[n]
        <5>1. PICK j \in 1..Len(elems) :
                /\ elems[j].num + 1 = n
                /\ s.defaults[n] = Prepared(elems[j].option, given[n])
          BY <2>3, <4>2 DEF PreparedFor
        <5>2. t.defaults[n] = Prepared(elems[j].option, given[n])
          <6>1. Prepared(elems[k].option, Prepared(elems[j].option, given[n]))
                = Prepared(elems[j].option, given[n])
            BY PreparedValue
          <6> QED BY <3>2, <5>1, <6>1
        <5> QED BY <5>1, <5>2 DEF PreparedFor
      <4> QED BY <4>1, <4>2
    <3> QED BY <2>3, <2>4, <3>1, <3>2 DEF PreparedOne
  <2>6. Len(t.defaults) = Len(defaults)
    BY <2>3, <2>4 DEF PreparedOne
  <2> QED BY <2>3, <2>4, <2>5, <2>6
<1>4. 0..Len(elems) \subseteq S
  <2>1. 0 \in S
    BY <1>1, <1>2
  <2>2. ASSUME NEW k \in 1..Len(elems), k - 1 \in S PROVE k \in S
    <3>1. k \in 0..Len(elems)
      BY <1>1
    <3> HIDE DEF Keeps
    <3> QED BY <1>3, <2>2, <3>1
  <2> HIDE DEF S
  <2> QED BY <1>1, <2>1, <2>2, Upwards
<1> QED BY <1>4

(* What a filled template leaves behind.                                   *)
LEMMA ProcKeeps ==
  ASSUME NEW elems \in Seq(Element), NEW args, HaveTexts(args),
         NEW defaults \in Seq(Value), NEW given,
         \A n \in 1..Len(defaults) :
           given[n] \in Value /\ PreparedFor(elems, given, defaults, n),
         NEW s, s = Proc(elems, args, defaults)
  PROVE  /\ s \in Filling
         /\ Len(s.defaults) = Len(defaults)
         /\ \A n \in 1..Len(defaults) : PreparedFor(elems, given, s.defaults, n)
<1>1. Len(elems) \in Nat /\ Len(elems) \in 0..Len(elems)
  <2>1. Len(elems) \in Nat
    BY LenProperties
  <2> QED BY <2>1
<1>2. PICK after :
        /\ Goes(after, elems, args, defaults)
        /\ Proc(elems, args, defaults) = after[Len(elems)]
  BY <1>1, ProcSteps
<1>3. \A k \in 0..Len(elems) :
        /\ after[k] \in Filling
        /\ Len(after[k].defaults) = Len(defaults)
        /\ \A n \in 1..Len(defaults) : PreparedFor(elems, given, after[k].defaults, n)
  BY <1>2, FillingKeeps
<1> QED BY <1>1, <1>2, <1>3

(* Elements with the same number have the same option.                     *)
SameOptions(elems) ==
  \A i, j \in 1..Len(elems) :
    elems[i].num = elems[j].num /\ elems[i].num >= 0 => elems[i].option = elems[j].option

(* A default is shown as the value that was given, prepared or not.        *)
LEMMA ShownAsGiven ==
  ASSUME NEW elems \in Seq(Element), SameOptions(elems), NEW k \in 1..Len(elems),
         NEW given, NEW defaults, NEW n, n = elems[k].num + 1, ~(elems[k].num < 0),
         given[n] \in Value, PreparedFor(elems, given, defaults, n)
  PROVE  Shown(elems[k].option, defaults[n]) = Shown(elems[k].option, given[n])
<1>1. CASE defaults[n] = given[n]
  BY <1>1
<1>2. CASE defaults[n] # given[n]
  <2>1. PICK j \in 1..Len(elems) :
          elems[j].num + 1 = n /\ defaults[n] = Prepared(elems[j].option, given[n])
    BY <1>2 DEF PreparedFor
  <2>2. elems[j].num \in Int /\ elems[k].num \in Int
    <3>1. elems[j] \in Element /\ elems[k] \in Element
      BY ElementOfSeq
    <3>2. elems[j].num \in -128..127 /\ elems[k].num \in -128..127
      BY <3>1 DEF Element
    <3> QED BY <3>2, SmallNumber
  <2>3. elems[j].num = elems[k].num /\ elems[j].num >= 0
    BY <2>1, <2>2
  <2>4. elems[j].option = elems[k].option
    BY <2>3 DEF SameOptions
  <2>5. Shown(elems[k].option, Prepared(elems[k].option, given[n]))
        = Shown(elems[k].option, given[n])
    BY PreparedValue
  <2> QED BY <2>1, <2>4, <2>5
<1> QED BY <1>1, <1>2

(* What each element contributes, if all its values are as given.          *)
Contribution(e, args, given) ==
  e.before \o (IF e.num < 0 THEN <<>> ELSE Shown(e.option, Standing(e, args, given)))

(* A template that is filled is its elements' contributions in a row: the  *)
(* induction on the elements behind FilledOnce.                            *)
LEMMA ProcMeant ==
  ASSUME NEW elems \in Seq(Element), elems # <<>>, SameOptions(elems),
         NEW args, HaveTexts(args), NEW defaults \in Seq(Value), NEW given,
         \A n \in 1..Len(defaults) :
           given[n] \in Value /\ PreparedFor(elems, given, defaults, n),
         Proc(elems, args, defaults).ok
  PROVE  Proc(elems, args, defaults).text
         = FlattenSeq([k \in 1..Len(elems) |-> Contribution(elems[k], args, given)])
<1> DEFINE N == Len(elems)
           parts == [k \in 1..N |-> Contribution(elems[k], args, given)]
<1>0. \A x, y, z \in Seq(Characters) : (x \o y) \o z = x \o (y \o z)
  BY ConcatAssociative
<1>1. N \in Nat /\ N # 0
  BY EmptySeq
<1>2. PICK after :
        /\ Goes(after, elems, args, defaults)
        /\ Proc(elems, args, defaults) = after[N]
  BY <1>1, ProcSteps
<1>3. \A k \in 0..N :
        /\ after[k] \in Filling
        /\ Len(after[k].defaults) = Len(defaults)
        /\ \A n \in 1..Len(defaults) : PreparedFor(elems, given, after[k].defaults, n)
  BY <1>2, FillingKeeps
<1>4. ASSUME NEW k \in 1..N, after[k].ok
      PROVE  /\ after[k - 1].ok
             /\ Contribution(elems[k], args, given) \in Seq(Characters)
             /\ after[k].text = after[k - 1].text \o Contribution(elems[k], args, given)
  <2>1. PICK s : s = after[k - 1]
    OBVIOUS
  <2>2. PICK t : t = WithElement(s, elems[k], args)
    OBVIOUS
  <2>3. PICK e : e = elems[k]
    OBVIOUS
  <2>4. k - 1 \in 0..N
    BY <1>1
  <2>5. /\ s \in Filling /\ Len(s.defaults) = Len(defaults)
        /\ \A n \in 1..Len(defaults) : PreparedFor(elems, given, s.defaults, n)
        /\ after[k] = t /\ e \in Element
    BY <1>2, <1>3, <2>1, <2>2, <2>3, <2>4, ElementOfSeq DEF Goes
  <2>6. /\ s.ok
        /\ e.num < 0 => t.text = s.text \o e.before
        /\ ~(e.num < 0) =>
             /\ e.num + 1 \in 1..Len(args) \/ e.num + 1 \in 1..Len(s.defaults)
             /\ t.text = (s.text \o e.before)
                         \o Shown(e.option, Standing(e, args, s.defaults))
    <3>1. t.ok /\ t = WithElement(s, e, args) /\ s \in Filling /\ e \in Element
      BY <1>4, <2>2, <2>3, <2>5
    <3> QED BY <3>1, OneElement
  <2>7. s.text \in Seq(Characters) /\ e.before \in Seq(Characters)
    BY <2>5 DEF Filling, Element
  <2>8. CASE e.num < 0
    <3>1. Contribution(e, args, given) = e.before
      BY <2>7, <2>8, ConcatEmptySeq DEF Contribution
    <3> QED BY <2>1, <2>3, <2>5, <2>6, <2>7, <2>8, <3>1
  <2>9. CASE ~(e.num < 0)
    <3>1. /\ Shown(e.option, Standing(e, args, s.defaults))
             = Shown(e.option, Standing(e, args, given))
          /\ Standing(e, args, given).text \in Seq(Characters)
      <4>1. CASE e.num + 1 \in 1..Len(args)
        BY <4>1 DEF Standing, HaveTexts
      <4>2. CASE e.num + 1 \notin 1..Len(args)
        <5>1. e.num + 1 \in 1..Len(defaults)
          BY <2>5, <2>6, <2>9, <4>2
        <5>2. given[e.num + 1] \in Value /\ PreparedFor(elems, given, s.defaults, e.num + 1)
          BY <2>5, <5>1
        <5>3. Shown(e.option, s.defaults[e.num + 1]) = Shown(e.option, given[e.num + 1])
          BY <2>3, <2>9, <5>2, ShownAsGiven
        <5>4. given[e.num + 1].text \in Seq(Characters)
          BY <5>2 DEF Value
        <5> QED BY <4>2, <5>3, <5>4 DEF Standing
      <4> QED BY <4>1, <4>2
    <3>2. Shown(e.option, Standing(e, args, given)) \in Seq(Characters)
      BY <3>1, CharactersFit, ShownType
    <3>3. Contribution(e, args, given)
          = e.before \o Shown(e.option, Standing(e, args, given))
      BY <2>9 DEF Contribution
    <3>4. Contribution(e, args, given) \in Seq(Characters)
      BY <2>7, <3>2, <3>3, ConcatProperties
    <3>5. t.text = (s.text \o e.before) \o Shown(e.option, Standing(e, args, given))
      BY <2>6, <2>9, <3>1
    <3>6. t.text = s.text \o Contribution(e, args, given)
      <4>1. PICK u : u = Shown(e.option, Standing(e, args, given))
        OBVIOUS
      <4>2. u \in Seq(Characters)
        BY <3>2, <4>1
      <4>3. PICK x, y : x = s.text /\ y = e.before
        OBVIOUS
      <4>4. x \in Seq(Characters) /\ y \in Seq(Characters)
        BY <2>7, <4>3
      <4>5. (x \o y) \o u = x \o (y \o u)
        BY <1>0, <4>2, <4>4
      <4>6. t.text = (x \o y) \o u
        BY <3>5, <4>1, <4>3
      <4>7. s.text \o Contribution(e, args, given) = x \o (y \o u)
        BY <3>3, <4>1, <4>3
      <4> QED BY <4>5, <4>6, <4>7
    <3> QED BY <2>1, <2>3, <2>5, <2>6, <3>4, <3>6
  <2> QED BY <2>8, <2>9
<1>5. \A k \in 0..N : after[k].ok
  <2> DEFINE S == {d \in 0..N : after[N - d].ok}
  <2>1. 0 \in S
    <3>1. 0 \in 0..N /\ N - 0 = N
      BY <1>1
    <3>2. after[N].ok
      BY <1>2
    <3> HIDE DEF N
    <3> QED BY <3>1, <3>2
  <2>2. ASSUME NEW d \in 1..N, d - 1 \in S PROVE d \in S
    <3>1. PICK k : k = N - (d - 1)
      OBVIOUS
    <3>2. k \in 1..N /\ N - d = k - 1 /\ d \in 0..N
      <4> HIDE DEF N
      <4> QED BY <1>1, <3>1
    <3>3. after[k].ok
      BY <2>2, <3>1
    <3>4. after[k - 1].ok
      BY <1>4, <3>2, <3>3
    <3> HIDE DEF N
    <3> QED BY <3>2, <3>4
  <2>3. 0..N \subseteq S
    <3> HIDE DEF S, N
    <3> QED BY <1>1, <2>1, <2>2, Upwards
  <2>4. ASSUME NEW k \in 0..N PROVE after[k].ok
    <3>1. N - k \in 0..N /\ N - (N - k) = k
      <4> HIDE DEF N
      <4> QED BY <1>1
    <3>2. N - k \in S
      BY <2>3, <3>1
    <3> HIDE DEF N
    <3> QED BY <3>1, <3>2
  <2> QED BY <2>4
<1>6. \A k \in 1..N : /\ k \in 0..N
                      /\ Contribution(elems[k], args, given) \in Seq(Characters)
                      /\ after[k].text
                         = after[k - 1].text \o Contribution(elems[k], args, given)
  <2>1. \A k \in 1..N : k \in 0..N
    <3> HIDE DEF N
    <3> QED BY <1>1
  <2> HIDE DEF N
  <2> QED BY <1>4, <1>5, <2>1
<1>7. parts \in Seq(Seq(Characters)) /\ Len(parts) = N /\ parts # <<>>
      /\ \A k \in 1..N : parts[k] = Contribution(elems[k], args, given)
  <2>1. parts \in Seq(Seq(Characters))
    <3>1. parts \in [1..N -> Seq(Characters)]
      BY <1>6
    <3> HIDE DEF N, parts
    <3> QED BY <1>1, <3>1
  <2>2. Len(parts) = N
    BY <1>1
  <2> HIDE DEF N
  <2>3. \A k \in 1..N : parts[k] = Contribution(elems[k], args, given)
    OBVIOUS
  <2> HIDE DEF parts
  <2> QED BY <1>1, <2>1, <2>2, <2>3, EmptySeq
<1> HIDE DEF parts
<1>8. PICK joined \in [1..N -> Seq(Characters)] :
        /\ joined[1] = parts[1]
        /\ \A k \in 2..N : joined[k] = joined[k - 1] \o parts[k]
        /\ FlattenSeq(parts) = joined[N]
  <2>1. PICK joined \in [1..Len(parts) -> Seq(Characters)] :
          /\ joined[1] = parts[1]
          /\ \A k \in 2..Len(parts) : joined[k] = joined[k - 1] \o parts[k]
          /\ FlattenSeq(parts) = joined[Len(parts)]
    BY <1>7, FlattenSteps
  <2> HIDE DEF N
  <2> QED BY <1>7, <2>1
<1> DEFINE S == {0} \cup {k \in 1..N : after[k].text = joined[k]}
<1>9. ASSUME NEW k \in 1..N, k - 1 \in S PROVE k \in S
  <2>1. CASE k = 1
    <3>1. after[0].text = <<>>
      BY <1>2 DEF Start, Goes
    <3>2. after[1].text = <<>> \o parts[1] /\ parts[1] \in Seq(Characters)
      <4>1. k - 1 = 0
        BY <2>1
      <4>2. after[k].text = after[k - 1].text \o parts[k] /\ parts[k] \in Seq(Characters)
        BY <1>6, <1>7
      <4> QED BY <2>1, <3>1, <4>1, <4>2
    <3>3. after[1].text = joined[1]
      BY <1>8, <3>2, ConcatEmptySeq
    <3> HIDE DEF N
    <3> QED BY <2>1, <3>3
  <2>2. CASE k # 1
    <3>1. k \in 2..N /\ k - 1 # 0
      <4> HIDE DEF N
      <4> QED BY <1>1, <2>2
    <3>2. after[k - 1].text = joined[k - 1]
      BY <1>9, <3>1
    <3>3. after[k].text = joined[k]
      BY <1>6, <1>7, <1>8, <3>1, <3>2
    <3> HIDE DEF N
    <3> QED BY <3>3
  <2> QED BY <2>1, <2>2
<1>10. 0..N \subseteq S
  <2>1. 0 \in S
    OBVIOUS
  <2> HIDE DEF S, N
  <2> QED BY <1>1, <1>9, <2>1, Upwards
<1>11. N \in 0..N
  <2> HIDE DEF N
  <2> QED BY <1>1
<1>12. after[N].text = joined[N]
  <2>1. N \in S
    <3> HIDE DEF S, N
    <3> QED BY <1>10, <1>11
  <2> HIDE DEF N
  <2> QED BY <1>1, <2>1
<1> QED BY <1>2, <1>8, <1>12 DEF parts

-----------------------------------------------------------------------------
(* Names                                                                   *)

(* The last element of a name is one of its elements.                      *)
LEMMA LastNamed ==
  ASSUME NEW E, NEW elems \in Seq(E), NEW name \in NamesOf(elems)
  PROVE  \E k \in Named(elems, name) :
           /\ \A j \in Named(elems, name) : j <= k
           /\ LastNum(elems, name) = elems[k].num
<1>1. Len(elems) \in Nat
  BY LenProperties
<1>2. Named(elems, name) \in SUBSET (1..Len(elems)) /\ Named(elems, name) # {}
  BY DEF Named, NamesOf
<1>3. \E k \in Named(elems, name) : \A j \in Named(elems, name) : j <= k
  BY <1>1, <1>2, LastPosition
<1>4. PICK k : k = CHOOSE m \in Named(elems, name) :
                     \A j \in Named(elems, name) : j <= m
  OBVIOUS
<1>5. k \in Named(elems, name) /\ \A j \in Named(elems, name) : j <= k
  BY <1>3, <1>4
<1>6. LastNum(elems, name) = elems[k].num
  BY <1>4 DEF LastNum
<1> QED BY <1>5, <1>6

(* If k is the last element of a name, the name's number is that of k.     *)
LEMMA LastNumIs ==
  ASSUME NEW E, NEW elems \in Seq(E), NEW name, NEW k \in Named(elems, name),
         \A j \in Named(elems, name) : j <= k
  PROVE  LastNum(elems, name) = elems[k].num
<1>1. name \in NamesOf(elems)
  BY DEF Named, NamesOf
<1>2. PICK i \in Named(elems, name) :
        /\ \A j \in Named(elems, name) : j <= i
        /\ LastNum(elems, name) = elems[i].num
  BY <1>1, LastNamed
<1>3. Named(elems, name) \in SUBSET (1..Len(elems)) /\ Len(elems) \in Nat
  BY LenProperties DEF Named
<1>4. i = k
  <2>1. i \in Nat /\ k \in Nat /\ i <= k /\ k <= i
    BY <1>2, <1>3
  <2> QED BY <2>1
<1> QED BY <1>2, <1>4

(* In elements that are joined, the later ones win.                        *)
LEMMA JoinedNames ==
  ASSUME NEW E, NEW elems \in Seq(E), NEW new \in Seq(E), NEW name
  PROVE  /\ name \in NamesOf(elems \o new)
              => name \in NamesOf(elems) \/ name \in NamesOf(new)
         /\ name \in NamesOf(new) => LastNum(elems \o new, name) = LastNum(new, name)
         /\ name \in NamesOf(elems) /\ name \notin NamesOf(new)
              => LastNum(elems \o new, name) = LastNum(elems, name)
<1> DEFINE a == Len(elems)
           b == Len(new)
<1>1. PICK all : all = elems \o new
  OBVIOUS
<1>2. /\ a \in Nat /\ b \in Nat /\ all \in Seq(E) /\ Len(all) = a + b
      /\ \A k \in 1..a : all[k] = elems[k]
      /\ \A k \in 1..b : all[a + k] = new[k]
  <2>1. a \in Nat /\ b \in Nat
    BY LenProperties
  <2>2. /\ all \in Seq(E) /\ Len(all) = a + b
        /\ \A k \in 1..a + b : all[k] = IF k <= a THEN elems[k] ELSE new[k - a]
    BY <1>1, ConcatProperties
  <2>3. \A k \in 1..a : k \in 1..a + b /\ k <= a
    BY <2>1
  <2>4. \A k \in 1..b : a + k \in 1..a + b /\ ~(a + k <= a) /\ (a + k) - a = k
    BY <2>1
  <2> HIDE DEF a, b
  <2> QED BY <2>1, <2>2, <2>3, <2>4
<1> HIDE DEF a, b
<1>3. \A k \in 1..a + b : k \in 1..a \/ (k - a \in 1..b /\ a + (k - a) = k)
  BY <1>2
<1>4. \A k \in Named(all, name) :
        k \in Named(elems, name) \/ (k - a \in Named(new, name) /\ a + (k - a) = k)
  BY <1>2, <1>3 DEF Named, a, b
<1>5. /\ \A k \in Named(elems, name) : k \in Named(all, name) /\ k \in 1..a
      /\ \A k \in Named(new, name) : a + k \in Named(all, name) /\ k \in 1..b
  <2>1. \A k \in 1..a : k \in 1..a + b
    BY <1>2
  <2>2. \A k \in 1..b : a + k \in 1..a + b
    BY <1>2
  <2> QED BY <1>2, <2>1, <2>2 DEF Named, a, b
<1>6. name \in NamesOf(all) <=> Named(all, name) # {}
  BY DEF NamesOf, Named
<1>7. name \in NamesOf(elems) <=> Named(elems, name) # {}
  BY DEF NamesOf, Named
<1>8. name \in NamesOf(new) <=> Named(new, name) # {}
  BY DEF NamesOf, Named
<1>9. name \in NamesOf(all) => name \in NamesOf(elems) \/ name \in NamesOf(new)
  BY <1>4, <1>6, <1>7, <1>8
<1>10. ASSUME name \in NamesOf(new) PROVE LastNum(all, name) = LastNum(new, name)
  <2>1. PICK k \in Named(new, name) :
          /\ \A j \in Named(new, name) : j <= k
          /\ LastNum(new, name) = new[k].num
    BY <1>10, LastNamed
  <2>2. a + k \in Named(all, name) /\ k \in 1..b
    BY <1>5
  <2>3. ASSUME NEW j \in Named(all, name) PROVE j <= a + k
    <3>1. CASE j \in Named(elems, name)
      <4>1. j \in 1..a
        BY <1>5, <3>1
      <4> QED BY <1>2, <2>2, <4>1
    <3>2. CASE j - a \in Named(new, name) /\ a + (j - a) = j
      <4>1. j - a <= k /\ j - a \in 1..b
        BY <1>5, <2>1, <3>2
      <4>2. PICK d : d = j - a
        OBVIOUS
      <4>3. d \in 1..b /\ d <= k /\ a + d = j
        BY <3>2, <4>1, <4>2
      <4> QED BY <1>2, <2>2, <4>3
    <3> QED BY <1>4, <3>1, <3>2
  <2>4. LastNum(all, name) = all[a + k].num
    BY <1>2, <2>2, <2>3, LastNumIs
  <2> QED BY <1>2, <2>1, <2>2, <2>4
<1>11. ASSUME name \in NamesOf(elems), name \notin NamesOf(new)
       PROVE  LastNum(all, name) = LastNum(elems, name)
  <2>1. PICK k \in Named(elems, name) :
          /\ \A j \in Named(elems, name) : j <= k
          /\ LastNum(elems, name) = elems[k].num
    BY <1>11, LastNamed
  <2>2. k \in Named(all, name) /\ k \in 1..a
    BY <1>5
  <2>3. \A j \in Named(all, name) : j <= k
    BY <1>4, <1>8, <1>11, <2>1
  <2>4. LastNum(all, name) = all[k].num
    BY <1>2, <2>2, <2>3, LastNumIs
  <2> QED BY <1>2, <2>1, <2>2, <2>4
<1> QED BY <1>1, <1>9, <1>10, <1>11

-----------------------------------------------------------------------------
(* Each way a Query changes keeps the invariant                            *)

(* The Query the program begins with.                                      *)
LEMMA EmptyInv == QueryInv(EmptyQuery)
<1>1. <<>> \in Seq(Characters) /\ <<>> \in Seq(Element) /\ <<>> \in Seq(Value)
      /\ Len(<<>>) = 0
  BY EmptySeq
<1>2. DOMAIN <<>> = {}
  OBVIOUS
<1>3. MaxElems \in Nat
  BY TemplateAssumption
<1>4. Numbering(<<>>)
  BY <1>2 DEF Numbering
<1>5. Typed(EmptyQuery)
  BY <1>1, <1>3, <1>4 DEF Typed, EmptyQuery
<1>6. TemplateKept(EmptyQuery) /\ DefaultsKept(EmptyQuery)
  BY <1>1 DEF TemplateKept, DefaultsKept, EmptyQuery
<1>7. Lead(EmptyQuery)
  BY <1>1 DEF Lead, NamesOf, EmptyQuery
<1> QED BY <1>5, <1>6, <1>7 DEF QueryInv

(* reset()                                                                 *)
LEMMA ResetInv ==
  ASSUME NEW r, QueryInv(r)
  PROVE  QueryInv(WithoutTemplate(r))
<1>1. <<>> \in Seq(Characters) /\ <<>> \in Seq(Element) /\ <<>> \in Seq(Value)
      /\ Len(<<>>) = 0
  BY EmptySeq
<1>2. MaxElems \in Nat
  BY TemplateAssumption
<1>3. Typed(r)
  BY DEF QueryInv
<1>4. PICK w : w = WithoutTemplate(r)
  OBVIOUS
<1>5. w = [buf |-> <<>>, elems |-> <<>>, nums |-> r.nums, defaults |-> <<>>,
           own |-> r.own, parentNums |-> r.parentNums, tmpl |-> <<>>,
           parses |-> 0, copied |-> FALSE]
  BY <1>3, <1>4 DEF Typed, WithoutTemplate
<1>6. Typed(w)
  BY <1>1, <1>2, <1>3, <1>5 DEF Typed
<1>7. TemplateKept(w) /\ DefaultsKept(w)
  BY <1>1, <1>5 DEF TemplateKept, DefaultsKept
<1>8. Lead(w)
  BY <1>1, <1>5 DEF Lead, NamesOf
<1> QED BY <1>4, <1>6, <1>7, <1>8 DEF QueryInv

(* Whatever leaves the template and its names alone.                       *)
LEMMA RebuiltInv ==
  ASSUME NEW r, QueryInv(r),
         NEW buf \in Seq(Characters), NEW defaults \in Seq(Value),
         NEW own \in BOOLEAN, NEW copied \in BOOLEAN,
         NEW parentNums, Numbering(parentNums),
         NEW w, w = [buf |-> buf, elems |-> r.elems, nums |-> r.nums,
                     defaults |-> defaults, own |-> own, parentNums |-> parentNums,
                     tmpl |-> r.tmpl, parses |-> r.parses, copied |-> copied],
         DefaultsKept(w)
  PROVE  QueryInv(w)
<1>1. /\ w.buf = buf /\ w.elems = r.elems /\ w.nums = r.nums /\ w.defaults = defaults
      /\ w.own = own /\ w.parentNums = parentNums /\ w.tmpl = r.tmpl
      /\ w.parses = r.parses /\ w.copied = copied
  OBVIOUS
<1>2. Typed(w)
  BY <1>1 DEF Typed, QueryInv
<1>3. TemplateKept(w)
  BY <1>1 DEF TemplateKept, QueryInv
<1>4. Lead(w)
  BY <1>1 DEF Lead, QueryInv
<1> QED BY <1>2, <1>3, <1>4 DEF QueryInv

(* The buffer alone.                                                       *)
LEMMA BufferInv ==
  ASSUME NEW r, QueryInv(r), NEW buf \in Seq(Characters)
  PROVE  QueryInv([r EXCEPT !.buf = buf])
<1>1. Typed(r) /\ DefaultsKept(r)
  BY DEF QueryInv
<1>2. PICK w : w = [r EXCEPT !.buf = buf]
  OBVIOUS
<1>3. w = [buf |-> buf, elems |-> r.elems, nums |-> r.nums,
           defaults |-> r.defaults, own |-> r.own, parentNums |-> r.parentNums,
           tmpl |-> r.tmpl, parses |-> r.parses, copied |-> r.copied]
  BY <1>1, <1>2 DEF Typed
<1>4. w.elems = r.elems /\ w.defaults = r.defaults /\ w.copied = r.copied
  BY <1>3
<1>5. DefaultsKept(w)
  BY <1>1, <1>4 DEF DefaultsKept
<1>6. /\ r.defaults \in Seq(Value) /\ r.own \in BOOLEAN /\ r.copied \in BOOLEAN
      /\ Numbering(r.parentNums)
  BY <1>1 DEF Typed
<1>7. QueryInv(w)
  BY <1>3, <1>5, <1>6, RebuiltInv
<1> QED BY <1>2, <1>7

(* parse()                                                                 *)
LEMMA ParseInv ==
  ASSUME NEW r, QueryInv(r), NEW new, new = Parse(r.buf),
         Len(r.elems) + Len(new) <= MaxElems,
         \A k \in DOMAIN new : new[k].named => new[k].num >= 0
  PROVE  QueryInv([r EXCEPT !.elems = @ \o new,
                            !.nums = Numbers(@, new),
                            !.tmpl = IF r.parses = 0 THEN r.buf ELSE @,
                            !.parses = IF @ < 2 THEN @ + 1 ELSE @])
<1> DEFINE elems == r.elems \o new
           nums == Numbers(r.nums, new)
           tmpl == IF r.parses = 0 THEN r.buf ELSE r.tmpl
           parses == IF r.parses < 2 THEN r.parses + 1 ELSE r.parses
           w == [r EXCEPT !.elems = @ \o new,
                          !.nums = Numbers(@, new),
                          !.tmpl = IF r.parses = 0 THEN r.buf ELSE @,
                          !.parses = IF @ < 2 THEN @ + 1 ELSE @]
<1>1. Typed(r) /\ TemplateKept(r) /\ DefaultsKept(r) /\ Lead(r)
  BY DEF QueryInv
<1>2. /\ r.buf \in Seq(Characters) /\ r.tmpl \in Seq(Characters)
      /\ r.elems \in Seq(Element) /\ Numbering(r.nums) /\ r.parses \in 0..2
  BY <1>1 DEF Typed
<1>3. new \in Seq(Element) /\ new # <<>>
  <2>1. new \in Elements(Characters)
    BY <1>2, CharactersFit, ParseType
  <2> QED BY <2>1, CharactersFit DEF Elements
<1>4. /\ elems \in Seq(Element) /\ Len(elems) = Len(r.elems) + Len(new)
      /\ elems # <<>>
      /\ \A k \in 1..Len(r.elems) : k \in 1..Len(elems) /\ elems[k] = r.elems[k]
  <2>1. Len(r.elems) \in Nat /\ Len(new) \in Nat
    BY <1>2, <1>3, LenProperties
  <2>2. /\ elems \in Seq(Element) /\ Len(elems) = Len(r.elems) + Len(new)
        /\ \A k \in 1..Len(r.elems) + Len(new) :
             elems[k] = IF k <= Len(r.elems) THEN r.elems[k] ELSE new[k - Len(r.elems)]
    <3>1. PICK old : old = r.elems
      OBVIOUS
    <3>2. old \in Seq(Element) /\ new \in Seq(Element)
      BY <1>2, <1>3, <3>1
    <3>3. /\ old \o new \in Seq(Element) /\ Len(old \o new) = Len(old) + Len(new)
          /\ \A k \in 1..Len(old) + Len(new) :
               (old \o new)[k] = IF k <= Len(old) THEN old[k] ELSE new[k - Len(old)]
      BY <3>2, ConcatProperties
    <3> QED BY <3>1, <3>3
  <2>3. elems # <<>>
    BY <1>2, <1>3, ConcatEqualIffEmpty
  <2>4. \A k \in 1..Len(r.elems) :
          k \in 1..Len(r.elems) + Len(new) /\ k <= Len(r.elems)
    BY <2>1, FirstPlaces
  <2> QED BY <2>2, <2>3, <2>4
<1>5. w = [buf |-> r.buf, elems |-> elems, nums |-> nums, defaults |-> r.defaults,
           own |-> r.own, parentNums |-> r.parentNums, tmpl |-> tmpl,
           parses |-> parses, copied |-> r.copied]
  <2>1. w = [r EXCEPT !.elems = elems, !.nums = nums, !.tmpl = tmpl, !.parses = parses]
    OBVIOUS
  <2> HIDE DEF w, elems, nums, tmpl, parses
  <2>2. r = [buf |-> r.buf, elems |-> r.elems, nums |-> r.nums, defaults |-> r.defaults,
             own |-> r.own, parentNums |-> r.parentNums, tmpl |-> r.tmpl,
             parses |-> r.parses, copied |-> r.copied]
    BY <1>1 DEF Typed
  <2> QED BY <2>1, <2>2
<1>6. tmpl \in Seq(Characters)
  BY <1>2
<1>7. /\ parses \in 0..2 /\ parses # 0
      /\ parses = 1 => r.parses = 0
  BY <1>2
<1>8. nums = [name \in DOMAIN r.nums \cup NamesOf(new) |->
                IF name \in NamesOf(new) THEN LastNum(new, name) ELSE r.nums[name]]
  BY DEF Numbers
<1>9. Numbering(nums)
  <2>1. ASSUME NEW name \in NamesOf(new)
        PROVE  name \in Seq(Characters) /\ LastNum(new, name) \in 0..127
    <3>1. PICK k \in Named(new, name) : LastNum(new, name) = new[k].num
      BY <1>3, LastNamed
    <3>2. k \in 1..Len(new) /\ new[k].named /\ new[k].name = name
      BY DEF Named
    <3>3. new[k] \in Element /\ k \in DOMAIN new
      BY <1>3, <3>2, ElementOfSeq, LenProperties
    <3>4. new[k].num \in -128..127 /\ name \in Seq(Characters)
      BY <3>2, <3>3 DEF Element
    <3>5. new[k].num >= 0
      BY <3>2, <3>3
    <3>6. new[k].num \in 0..127
      <4>1. PICK i : i = new[k].num
        OBVIOUS
      <4>2. i \in -128..127 /\ i >= 0
        BY <3>4, <3>5, <4>1
      <4>3. i \in 0..127
        BY <4>2
      <4> QED BY <4>1, <4>3
    <3> QED BY <3>1, <3>4, <3>6
  <2>2. \A name \in DOMAIN r.nums : name \in Seq(Characters) /\ r.nums[name] \in 0..127
    BY <1>2 DEF Numbering
  <2> QED BY <1>8, <2>1, <2>2 DEF Numbering
<1> HIDE DEF w, elems, nums, tmpl, parses
<1>10. /\ w.buf = r.buf /\ w.elems = elems /\ w.nums = nums /\ w.defaults = r.defaults
       /\ w.own = r.own /\ w.parentNums = r.parentNums /\ w.tmpl = tmpl
       /\ w.parses = parses /\ w.copied = r.copied
  BY <1>5
<1>11. Typed(w)
  BY <1>1, <1>4, <1>5, <1>6, <1>7, <1>9, <1>10 DEF Typed
<1>12. TemplateKept(w)
  <2>1. w.parses # 0 /\ w.elems # <<>>
    BY <1>4, <1>7, <1>10
  <2>2. ASSUME w.parses = 1 PROVE w.elems = Parse(w.tmpl)
    <3>1. r.parses = 0
      BY <1>7, <1>10, <2>2
    <3>2. r.elems = <<>> /\ w.tmpl = r.buf
      BY <1>1, <1>10, <3>1 DEF TemplateKept, tmpl
    <3>3. w.elems = new
      BY <1>3, <1>10, <3>2, ConcatEmptySeq DEF elems
    <3> QED BY <3>2, <3>3
  <2> QED BY <2>1, <2>2 DEF TemplateKept
<1>13. DefaultsKept(w)
  <2>1. ASSUME NEW given, NEW n, PreparedFor(r.elems, given, r.defaults, n)
        PROVE  PreparedFor(elems, given, r.defaults, n)
    BY <1>4, <2>1 DEF PreparedFor
  <2>2. ~r.copied =>
          \A n \in 1..Len(r.defaults) :
            PreparedFor(elems, AsGiven(r.defaults), r.defaults, n)
    BY <1>1, <2>1 DEF DefaultsKept
  <2> QED BY <1>10, <2>2 DEF DefaultsKept
<1>14. Lead(w)
  <2> SUFFICES ASSUME NEW name \in NamesOf(elems)
               PROVE  name \in DOMAIN nums /\ nums[name] = LastNum(elems, name)
    BY <1>10 DEF Lead
  <2>1. CASE name \in NamesOf(new)
    <3>1. LastNum(elems, name) = LastNum(new, name)
      BY <1>2, <1>3, <2>1, JoinedNames DEF elems
    <3> QED BY <1>8, <2>1, <3>1
  <2>2. CASE name \notin NamesOf(new)
    <3>1. name \in NamesOf(r.elems)
      BY <1>2, <1>3, <2>2, JoinedNames DEF elems
    <3>2. LastNum(elems, name) = LastNum(r.elems, name)
      BY <1>2, <1>3, <2>2, <3>1, JoinedNames DEF elems
    <3>3. name \in DOMAIN r.nums /\ r.nums[name] = LastNum(r.elems, name)
      BY <1>1, <3>1 DEF Lead
    <3> QED BY <1>8, <2>2, <3>2, <3>3
  <2> QED BY <2>1, <2>2
<1>15. QueryInv(w)
  BY <1>11, <1>12, <1>13, <1>14 DEF QueryInv
<1> QED BY <1>15 DEF w

(* A value that is not processed yet is a value.                           *)
LEMMA FreshType ==
  ASSUME NEW v \in Values \cup {EmptyText}
  PROVE  Fresh(v) \in Value /\ Fresh(v).orig = v /\ Fresh(v).processed = FALSE
<1>1. v \in [text : Seq(Characters), quote : BOOLEAN, escape : BOOLEAN, null : BOOLEAN]
  <2>1. CASE v \in Values
    BY <2>1, TemplateAssumption
  <2>2. CASE v = EmptyText
    <3>1. <<>> \in Seq(Characters)
      BY EmptySeq
    <3> QED BY <2>2, <3>1 DEF EmptyText, Text
  <2> QED BY <2>1, <2>2
<1>2. Fresh(v) = [text |-> v.text, quote |-> v.quote, escape |-> v.escape,
                  null |-> v.null, processed |-> FALSE, orig |-> v]
  BY DEF Fresh
<1>3. /\ v.text \in Seq(Characters) /\ v.quote \in BOOLEAN /\ v.escape \in BOOLEAN
      /\ v.null \in BOOLEAN
  BY <1>1
<1> QED BY <1>2, <1>3 DEF Value

(* The values the defaults were given as.                                  *)
LEMMA GivenType ==
  ASSUME NEW defaults \in Seq(Value), NEW n \in 1..Len(defaults)
  PROVE  /\ AsGiven(defaults)[n] = Fresh(defaults[n].orig)
         /\ AsGiven(defaults)[n] \in Value
         /\ AsGiven(defaults)[n].orig = defaults[n].orig
<1>1. defaults[n] \in Value /\ n \in Nat
  BY ElementOfSeq
<1>2. defaults[n].orig \in Values \cup {EmptyText}
  BY <1>1 DEF Value
<1>3. AsGiven(defaults)[n] = Fresh(defaults[n].orig)
  BY <1>1 DEF AsGiven
<1> QED BY <1>2, <1>3, FreshType

(* Defaults that a filling has left behind in r.                           *)
Left(r, defaults) ==
  /\ defaults \in Seq(Value) /\ Len(defaults) = Len(r.defaults)
  /\ ~r.copied => \A n \in 1..Len(r.defaults) :
                    PreparedFor(r.elems, AsGiven(r.defaults), defaults, n)

(* Filling the template leaves defaults as the invariant wants them.       *)
LEMMA ProcLeaves ==
  ASSUME NEW r, QueryInv(r), NEW args, HaveTexts(args), NEW defaults, Left(r, defaults),
         NEW s, s = Proc(r.elems, args, defaults)
  PROVE  s \in Filling /\ Left(r, s.defaults)
<1>1. /\ r.elems \in Seq(Element) /\ r.defaults \in Seq(Value)
      /\ defaults \in Seq(Value) /\ Len(defaults) = Len(r.defaults)
  BY DEF QueryInv, Typed, Left
<1>2. CASE ~r.copied
  <2>1. \A n \in 1..Len(defaults) :
          /\ AsGiven(r.defaults)[n] \in Value
          /\ PreparedFor(r.elems, AsGiven(r.defaults), defaults, n)
    BY <1>1, <1>2, GivenType DEF Left
  <2>2. PICK given : given = AsGiven(r.defaults)
    OBVIOUS
  <2>3. /\ s \in Filling /\ Len(s.defaults) = Len(defaults)
        /\ \A n \in 1..Len(defaults) : PreparedFor(r.elems, given, s.defaults, n)
    <3>1. \A n \in 1..Len(defaults) :
            given[n] \in Value /\ PreparedFor(r.elems, given, defaults, n)
      BY <2>1, <2>2
    <3> QED BY <1>1, <3>1, ProcKeeps
  <2>4. s.defaults \in Seq(Value)
    BY <2>3 DEF Filling
  <2> QED BY <1>1, <2>2, <2>3, <2>4 DEF Left
<1>3. CASE r.copied
  <2>1. \A n \in 1..Len(defaults) :
          defaults[n] \in Value /\ PreparedFor(r.elems, defaults, defaults, n)
    BY <1>1, ElementOfSeq DEF PreparedFor
  <2>2. s \in Filling /\ Len(s.defaults) = Len(defaults)
    BY <1>1, <2>1, ProcKeeps
  <2>3. s.defaults \in Seq(Value)
    BY <2>2 DEF Filling
  <2> QED BY <1>1, <1>3, <2>2, <2>3 DEF Left
<1> QED BY <1>2, <1>3

(* So does str(), of a template or not.                                    *)
LEMMA StrLeaves ==
  ASSUME NEW r, QueryInv(r), NEW args, HaveTexts(args), NEW s, s = Str(r, args)
  PROVE  s \in Filling /\ Left(r, s.defaults)
<1>1. Left(r, r.defaults)
  BY DEF QueryInv, Typed, DefaultsKept, Left
<1>2. CASE r.elems = <<>>
  <2>1. s = [text |-> r.buf, defaults |-> r.defaults, ok |-> TRUE]
    BY <1>2 DEF Str
  <2>2. r.buf \in Seq(Characters) /\ r.defaults \in Seq(Value)
    BY DEF QueryInv, Typed
  <2>3. s \in Filling
    BY <2>1, <2>2 DEF Filling
  <2> QED BY <1>1, <2>1, <2>3
<1>3. CASE r.elems # <<>>
  <2>1. s = Proc(r.elems, args, r.defaults)
    BY <1>3 DEF Str
  <2> QED BY <1>1, <2>1, ProcLeaves
<1> QED BY <1>2, <1>3

(* So does what execute(str, length), store() and use() do with the lone   *)
(* parameter.                                                              *)
LEMMA TakenLeaves ==
  ASSUME NEW r, QueryInv(r), NEW s \in Filling, Left(r, s.defaults), NEW processing
  PROVE  Taken(r, s, processing) \in Filling /\ Left(r, Taken(r, s, processing).defaults)
<1>1. PICK args : args = <<Fresh(Text(s.text))>>
  OBVIOUS
<1>2. HaveTexts(args)
  <2>1. s.text \in Seq(Characters)
    BY DEF Filling
  <2>2. Fresh(Text(s.text)).text = s.text
    BY DEF Fresh, Text
  <2>3. Len(args) = 1 /\ args[1].text = s.text
    BY <1>1, <2>2
  <2> QED BY <2>1, <2>3 DEF HaveTexts
<1>3. PICK t : t = Proc(r.elems, args, s.defaults)
  OBVIOUS
<1>4. t \in Filling /\ Left(r, t.defaults)
  BY <1>2, <1>3, ProcLeaves
<1>5. Taken(r, s, processing) = t \/ Taken(r, s, processing) = s
  BY <1>1, <1>3 DEF Taken
<1> QED BY <1>4, <1>5

(* The Query after a filling.                                              *)
LEMMA LeftInv ==
  ASSUME NEW r, QueryInv(r), NEW buf \in Seq(Characters),
         NEW defaults, Left(r, defaults)
  PROVE  QueryInv([r EXCEPT !.defaults = defaults, !.buf = buf])
<1>1. Typed(r)
  BY DEF QueryInv
<1>2. PICK w : w = [r EXCEPT !.defaults = defaults, !.buf = buf]
  OBVIOUS
<1>3. w = [buf |-> buf, elems |-> r.elems, nums |-> r.nums,
           defaults |-> defaults, own |-> r.own, parentNums |-> r.parentNums,
           tmpl |-> r.tmpl, parses |-> r.parses, copied |-> r.copied]
  BY <1>1, <1>2 DEF Typed
<1>4. w.elems = r.elems /\ w.defaults = defaults /\ w.copied = r.copied
  BY <1>3
<1>5. /\ r.own \in BOOLEAN /\ r.copied \in BOOLEAN /\ Numbering(r.parentNums)
      /\ r.defaults \in Seq(Value)
  BY <1>1 DEF Typed
<1>6. defaults \in Seq(Value) /\ Len(defaults) = Len(r.defaults)
  BY DEF Left
<1>7. DefaultsKept(w)
  <2> SUFFICES ASSUME ~r.copied, NEW n \in 1..Len(defaults)
               PROVE  PreparedFor(r.elems, AsGiven(defaults), defaults, n)
    BY <1>4 DEF DefaultsKept
  <2>1. PreparedFor(r.elems, AsGiven(r.defaults), defaults, n)
    BY <1>6 DEF Left
  <2>2. /\ AsGiven(r.defaults)[n] \in Value
        /\ AsGiven(r.defaults)[n] = Fresh(r.defaults[n].orig)
        /\ AsGiven(r.defaults)[n].orig = r.defaults[n].orig
    BY <1>5, <1>6, GivenType
  <2>3. defaults[n].orig = AsGiven(r.defaults)[n].orig
    <3>1. CASE defaults[n] = AsGiven(r.defaults)[n]
      BY <3>1
    <3>2. CASE defaults[n] # AsGiven(r.defaults)[n]
      <4>1. PICK k \in 1..Len(r.elems) :
              defaults[n] = Prepared(r.elems[k].option, AsGiven(r.defaults)[n])
        BY <2>1, <3>2 DEF PreparedFor
      <4> QED BY <2>2, <4>1, PreparedValue
    <3> QED BY <3>1, <3>2
  <2>4. AsGiven(defaults)[n] = AsGiven(r.defaults)[n]
    BY <1>6, <2>2, <2>3, GivenType
  <2> QED BY <2>1, <2>4 DEF PreparedFor
<1>8. QueryInv(w)
  BY <1>3, <1>5, <1>6, <1>7, RebuiltInv
<1> QED BY <1>2, <1>8

(* A copy of values is a list of values, and the same if none of them is   *)
(* processed.                                                              *)
LEMMA CopiedValues ==
  ASSUME NEW values \in Seq(Value)
  PROVE  /\ Copied(values) \in Seq(Value) /\ Len(Copied(values)) = Len(values)
         /\ \A n \in 1..Len(values) : Copied(values)[n].orig = values[n].orig
         /\ ~AnyProcessed(values) => Copied(values) = values
<1>1. Len(values) \in Nat /\ \A n \in 1..Len(values) : values[n] \in Value
  BY LenProperties, ElementOfSeq
<1>2. \A n \in 1..Len(values) : [values[n] EXCEPT !.processed = FALSE] \in Value
  BY <1>1 DEF Value
<1>3. Copied(values) \in [1..Len(values) -> Value]
  BY <1>2 DEF Copied
<1>4. Copied(values) \in Seq(Value) /\ Len(Copied(values)) = Len(values)
  BY <1>1, <1>3
<1>5. \A n \in 1..Len(values) : Copied(values)[n].orig = values[n].orig
  BY <1>1 DEF Copied, Value
<1>6. ASSUME ~AnyProcessed(values) PROVE Copied(values) = values
  <2>1. \A n \in 1..Len(values) : values[n].processed = FALSE
    BY <1>1, <1>6 DEF AnyProcessed, Value
  <2>2. \A n \in 1..Len(values) : [values[n] EXCEPT !.processed = FALSE] = values[n]
    BY <1>1, <2>1 DEF Value
  <2>3. \A n \in 1..Len(values) : Copied(values)[n] = values[n]
    BY <2>2 DEF Copied
  <2> QED BY <1>4, <2>3, SeqEqual
<1> QED BY <1>4, <1>5, <1>6

(* The copy constructor and the assignment.                                *)
LEMMA CopyInv ==
  ASSUME NEW r, QueryInv(r), NEW text \in Seq(Characters)
  PROVE  QueryInv([r EXCEPT !.buf = text \o @,
                            !.defaults = Copied(@),
                            !.copied = @ \/ AnyProcessed(r.defaults),
                            !.own = FALSE,
                            !.parentNums = IF r.own THEN r.nums ELSE @])
<1> DEFINE w == [r EXCEPT !.buf = text \o @,
                          !.defaults = Copied(@),
                          !.copied = @ \/ AnyProcessed(r.defaults),
                          !.own = FALSE,
                          !.parentNums = IF r.own THEN r.nums ELSE @]
<1>1. Typed(r) /\ DefaultsKept(r)
  BY DEF QueryInv
<1>2. PICK buf : buf = text \o r.buf
  OBVIOUS
<1>3. PICK defaults : defaults = Copied(r.defaults)
  OBVIOUS
<1>4. PICK copied : copied = (r.copied \/ AnyProcessed(r.defaults))
  OBVIOUS
<1>5. PICK parentNums : parentNums = IF r.own THEN r.nums ELSE r.parentNums
  OBVIOUS
<1>6. w = [r EXCEPT !.buf = buf, !.defaults = defaults, !.copied = copied,
                    !.own = FALSE, !.parentNums = parentNums]
  BY <1>2, <1>3, <1>4, <1>5
<1> HIDE DEF w
<1>7. w = [buf |-> buf, elems |-> r.elems, nums |-> r.nums,
           defaults |-> defaults, own |-> FALSE, parentNums |-> parentNums,
           tmpl |-> r.tmpl, parses |-> r.parses, copied |-> copied]
  BY <1>1, <1>6 DEF Typed
<1>8. w.elems = r.elems /\ w.defaults = defaults /\ w.copied = copied
  BY <1>7
<1>9. /\ r.buf \in Seq(Characters) /\ r.defaults \in Seq(Value)
      /\ Numbering(r.nums) /\ Numbering(r.parentNums)
  BY <1>1 DEF Typed
<1>10. buf \in Seq(Characters)
  BY <1>2, <1>9, ConcatProperties
<1>11. defaults \in Seq(Value)
  BY <1>3, <1>9, CopiedValues
<1>12. copied \in BOOLEAN
  BY <1>4
<1>13. Numbering(parentNums)
  BY <1>5, <1>9
<1>14. DefaultsKept(w)
  <2>1. CASE AnyProcessed(r.defaults) \/ r.copied
    BY <1>4, <1>8, <2>1 DEF DefaultsKept
  <2>2. CASE ~AnyProcessed(r.defaults) /\ ~r.copied
    <3>1. defaults = r.defaults
      BY <1>3, <1>9, <2>2, CopiedValues
    <3> QED BY <1>1, <1>8, <2>2, <3>1 DEF DefaultsKept
  <2> QED BY <2>1, <2>2
<1>15. FALSE \in BOOLEAN
  OBVIOUS
<1>16. QueryInv(w)
  BY <1>7, <1>10, <1>11, <1>12, <1>13, <1>14, <1>15, RebuiltInv
<1> QED BY <1>16 DEF w

(* The list of defaults with one set anew.                                 *)
SetAt(size, old, n, v) ==
  [i \in 1..size |-> IF i = n THEN Fresh(v)
                     ELSE IF i <= Len(old) THEN old[i] ELSE Fresh(EmptyText)]

(* A default that is set, or filled up with, is as given; the others are   *)
(* as they were.                                                           *)
LEMMA SetAtKeeps ==
  ASSUME NEW old \in Seq(Value), NEW size \in Nat, Len(old) <= size,
         NEW n \in 1..size, NEW v \in Values, NEW new, new = SetAt(size, old, n, v)
  PROVE  /\ new \in Seq(Value) /\ Len(new) = size
         /\ \A i \in 1..size : \/ new[i] = AsGiven(new)[i]
                               \/ /\ i \in 1..Len(old) /\ new[i] = old[i]
                                  /\ AsGiven(new)[i] = AsGiven(old)[i]
<1>1. Len(old) \in Nat /\ \A i \in 1..Len(old) : old[i] \in Value
  BY LenProperties, ElementOfSeq
<1>2. /\ Fresh(v) \in Value /\ Fresh(v).orig = v
      /\ Fresh(EmptyText) \in Value /\ Fresh(EmptyText).orig = EmptyText
  BY FreshType
<1>3. \A i \in 1..size : \/ new[i] = Fresh(v)
                         \/ i \in 1..Len(old) /\ new[i] = old[i]
                         \/ new[i] = Fresh(EmptyText)
  BY <1>1 DEF SetAt
<1>4. new \in [1..size -> Value]
  <2>1. \A i \in 1..size : new[i] \in Value
    BY <1>1, <1>2, <1>3
  <2>2. new = [i \in 1..size |-> new[i]]
    BY DEF SetAt
  <2> QED BY <2>1, <2>2
<1>5. new \in Seq(Value) /\ Len(new) = size
  BY <1>4
<1>6. ASSUME NEW i \in 1..size
      PROVE  \/ new[i] = AsGiven(new)[i]
             \/ /\ i \in 1..Len(old) /\ new[i] = old[i]
                /\ AsGiven(new)[i] = AsGiven(old)[i]
  <2>1. AsGiven(new)[i] = Fresh(new[i].orig)
    BY <1>5, GivenType
  <2>2. CASE new[i] = Fresh(v)
    BY <1>2, <2>1, <2>2
  <2>3. CASE new[i] = Fresh(EmptyText)
    BY <1>2, <2>1, <2>3
  <2>4. CASE i \in 1..Len(old) /\ new[i] = old[i]
    <3>1. AsGiven(old)[i] = Fresh(old[i].orig)
      BY <2>4, GivenType
    <3> QED BY <2>1, <2>4, <3>1
  <2> QED BY <1>3, <2>2, <2>3, <2>4
<1> QED BY <1>5, <1>6

(* template_defaults[n] = v                                                *)
LEMMA DefaultInv ==
  ASSUME NEW r, QueryInv(r), NEW n \in Nat \ {0}, NEW v \in Values,
         NEW w \in WithDefault(r, n, v)
  PROVE  QueryInv(w)
<1>1. Typed(r) /\ DefaultsKept(r)
  BY DEF QueryInv
<1>2. /\ r.buf \in Seq(Characters) /\ r.defaults \in Seq(Value)
      /\ r.own \in BOOLEAN /\ r.copied \in BOOLEAN /\ Numbering(r.parentNums)
  BY <1>1 DEF Typed
<1>3. PICK size : size = IF n > Len(r.defaults) THEN n ELSE Len(r.defaults)
  OBVIOUS
<1>4. size \in Nat /\ Len(r.defaults) <= size /\ n \in 1..size
  <2>1. Len(r.defaults) \in Nat
    BY <1>2, LenProperties
  <2> QED BY <1>3, <2>1
<1>5. CASE w = [r EXCEPT !.defaults = SetAt(size, r.defaults, n, v)]
  <2>1. PICK defaults : defaults = SetAt(size, r.defaults, n, v)
    OBVIOUS
  <2>2. /\ defaults \in Seq(Value) /\ Len(defaults) = size
        /\ \A i \in 1..size :
             \/ defaults[i] = AsGiven(defaults)[i]
             \/ /\ i \in 1..Len(r.defaults) /\ defaults[i] = r.defaults[i]
                /\ AsGiven(defaults)[i] = AsGiven(r.defaults)[i]
    BY <1>2, <1>4, <2>1, SetAtKeeps
  <2>3. w = [buf |-> r.buf, elems |-> r.elems, nums |-> r.nums,
             defaults |-> defaults, own |-> r.own, parentNums |-> r.parentNums,
             tmpl |-> r.tmpl, parses |-> r.parses, copied |-> r.copied]
    BY <1>1, <1>5, <2>1 DEF Typed
  <2>4. w.elems = r.elems /\ w.defaults = defaults /\ w.copied = r.copied
    BY <2>3
  <2>5. DefaultsKept(w)
    BY <1>1, <2>2, <2>4 DEF DefaultsKept, PreparedFor
  <2> QED BY <1>2, <2>2, <2>3, <2>5, RebuiltInv
<1>6. CASE w = [r EXCEPT !.defaults = SetAt(size, Copied(r.defaults), n, v),
                         !.copied = r.copied \/ AnyProcessed(r.defaults)]
  <2>1. PICK old : old = Copied(r.defaults)
    OBVIOUS
  <2>2. PICK defaults : defaults = SetAt(size, old, n, v)
    OBVIOUS
  <2>3. PICK copied : copied = (r.copied \/ AnyProcessed(r.defaults))
    OBVIOUS
  <2>4. /\ old \in Seq(Value) /\ Len(old) = Len(r.defaults)
        /\ ~AnyProcessed(r.defaults) => old = r.defaults
    BY <1>2, <2>1, CopiedValues
  <2>5. /\ defaults \in Seq(Value) /\ Len(defaults) = size
        /\ \A i \in 1..size :
             \/ defaults[i] = AsGiven(defaults)[i]
             \/ /\ i \in 1..Len(old) /\ defaults[i] = old[i]
                /\ AsGiven(defaults)[i] = AsGiven(old)[i]
    BY <1>4, <2>2, <2>4, SetAtKeeps
  <2>6. w = [buf |-> r.buf, elems |-> r.elems, nums |-> r.nums,
             defaults |-> defaults, own |-> r.own, parentNums |-> r.parentNums,
             tmpl |-> r.tmpl, parses |-> r.parses, copied |-> copied]
    BY <1>1, <1>6, <2>1, <2>2, <2>3 DEF Typed
  <2>7. w.elems = r.elems /\ w.defaults = defaults /\ w.copied = copied
    BY <2>6
  <2>8. DefaultsKept(w)
    <3>1. CASE copied
      BY <2>7, <3>1 DEF DefaultsKept
    <3>2. CASE ~copied
      <4>1. ~r.copied /\ old = r.defaults
        BY <2>3, <2>4, <3>2
      <4>2. \A i \in 1..Len(r.defaults) :
              PreparedFor(r.elems, AsGiven(r.defaults), r.defaults, i)
        BY <1>1, <4>1 DEF DefaultsKept
      <4>3. \A i \in 1..size :
              \/ defaults[i] = AsGiven(defaults)[i]
              \/ /\ i \in 1..Len(r.defaults) /\ defaults[i] = r.defaults[i]
                 /\ AsGiven(defaults)[i] = AsGiven(r.defaults)[i]
        BY <2>5, <4>1
      <4>4. \A i \in 1..size : PreparedFor(r.elems, AsGiven(defaults), defaults, i)
        BY <4>2, <4>3 DEF PreparedFor
      <4> QED BY <2>5, <2>7, <4>4 DEF DefaultsKept
    <3> QED BY <3>1, <3>2
  <2>9. copied \in BOOLEAN
    BY <2>3
  <2> QED BY <1>2, <2>5, <2>6, <2>8, <2>9, RebuiltInv
<1> QED BY <1>3, <1>5, <1>6 DEF WithDefault, SetAt

-----------------------------------------------------------------------------
(* What is sent                                                            *)

(* The arguments the model enumerates have texts.                          *)
LEMMA ArgsTexts ==
  /\ \A args \in Args : HaveTexts(args)
  /\ HaveTexts(<<>>)
  /\ \A v \in Values : HaveTexts(<<Fresh(v)>>) /\ HaveTexts(<<AsString(v)>>)
<1>1. \A v \in Values : Fresh(v) \in Value /\ Fresh(v).text \in Seq(Characters)
  <2>1. \A v \in Values : Fresh(v) \in Value
    BY FreshType
  <2> QED BY <2>1 DEF Value
<1>2. ASSUME NEW args \in Args PROVE HaveTexts(args)
  <2>1. PICK n \in 1..MaxArgs : args \in [1..n -> {Fresh(v) : v \in Values}]
    BY <1>2 DEF Args
  <2>2. n \in Nat
    <3>1. MaxArgs \in Nat
      BY TemplateAssumption
    <3> QED BY <3>1
  <2>3. args \in [1..n -> Value] /\ \A i \in 1..n : args[i].text \in Seq(Characters)
    BY <1>1, <2>1
  <2>4. Len(args) = n
    BY <2>2, <2>3
  <2> QED BY <2>2, <2>3, <2>4 DEF HaveTexts
<1>3. HaveTexts(<<>>)
  BY EmptySeq DEF HaveTexts
<1>4. ASSUME NEW value, value.text \in Seq(Characters) PROVE HaveTexts(<<value>>)
  <2>1. Len(<<value>>) = 1 /\ <<value>>[1] = value
    OBVIOUS
  <2> QED BY <1>4, <2>1 DEF HaveTexts
<1>5. ASSUME NEW v \in Values PROVE AsString(v).text = Fresh(v).text
  BY DEF AsString, Fresh, Text
<1>6. ASSUME NEW v \in Values PROVE HaveTexts(<<Fresh(v)>>) /\ HaveTexts(<<AsString(v)>>)
  <2>1. Fresh(v).text \in Seq(Characters) /\ AsString(v).text \in Seq(Characters)
    BY <1>1, <1>5
  <2> QED BY <1>4, <2>1
<1> QED BY <1>2, <1>3, <1>6

(* The contribution of an element is what Meant() says of it.              *)
LEMMA ContributionMeant ==
  ASSUME NEW e \in Element, NEW args, HaveTexts(args), NEW defaults
  PROVE  Contribution(e, args, AsGiven(defaults))
         = e.before
           \o (IF e.num < 0 THEN <<>>
               ELSE Shown(e.option, Given(args, defaults, e.num + 1)))
<1>1. CASE e.num < 0
  BY <1>1 DEF Contribution
<1>2. CASE ~(e.num < 0)
  <2>1. PICK n : n = e.num + 1
    OBVIOUS
  <2>2. n \in Nat /\ n >= 1
    <3>1. e.num \in -128..127
      BY DEF Element
    <3>2. PICK i : i = e.num
      OBVIOUS
    <3>3. i \in -128..127 /\ ~(i < 0) /\ n = i + 1
      BY <1>2, <2>1, <3>1, <3>2
    <3> QED BY <3>3
  <2>3. Len(args) \in Nat
    BY DEF HaveTexts
  <2>4. n \in 1..Len(args) <=> n <= Len(args)
    BY <2>2, <2>3
  <2>5. AsGiven(defaults)[n] = Fresh(defaults[n].orig)
    BY <2>2 DEF AsGiven
  <2>6. Standing(e, args, AsGiven(defaults)) = Given(args, defaults, n)
    BY <2>1, <2>4, <2>5 DEF Standing, Given
  <2> QED BY <1>2, <2>1, <2>6 DEF Contribution
<1> QED BY <1>1, <1>2

(* The text of a Query that is Regular is what its template means.         *)
LEMMA StrMeant ==
  ASSUME NEW r, QueryInv(r), Regular(r), NEW args, HaveTexts(args), Str(r, args).ok
  PROVE  Str(r, args).text = Meant(r, args)
<1>1. r.elems \in Seq(Element) /\ r.defaults \in Seq(Value)
  BY DEF QueryInv, Typed
<1>2. r.parses = 1 /\ ~r.copied /\ SameOptions(r.elems)
  BY DEF Regular, OneOption, SameOptions
<1>3. r.elems # <<>> /\ r.elems = Parse(r.tmpl)
  <2>1. (r.parses = 0 <=> r.elems = <<>>) /\ (r.parses = 1 => r.elems = Parse(r.tmpl))
    BY DEF QueryInv, TemplateKept
  <2>2. r.parses # 0
    BY <1>2
  <2> QED BY <1>2, <2>1, <2>2
<1>4. Str(r, args) = Proc(r.elems, args, r.defaults)
  BY <1>3 DEF Str
<1>5. \A n \in 1..Len(r.defaults) :
        /\ AsGiven(r.defaults)[n] \in Value
        /\ PreparedFor(r.elems, AsGiven(r.defaults), r.defaults, n)
  BY <1>1, <1>2, GivenType DEF QueryInv, DefaultsKept
<1>6. PICK given : given = AsGiven(r.defaults)
  OBVIOUS
<1>7. Proc(r.elems, args, r.defaults).text
      = FlattenSeq([k \in 1..Len(r.elems) |-> Contribution(r.elems[k], args, given)])
  <2>1. \A n \in 1..Len(r.defaults) :
          given[n] \in Value /\ PreparedFor(r.elems, given, r.defaults, n)
    BY <1>5, <1>6
  <2>2. PICK elems : elems = r.elems
    OBVIOUS
  <2>3. PICK defaults : defaults = r.defaults
    OBVIOUS
  <2>4. /\ elems \in Seq(Element) /\ elems # <<>> /\ SameOptions(elems)
        /\ defaults \in Seq(Value) /\ Proc(elems, args, defaults).ok
    BY <1>1, <1>2, <1>3, <1>4, <2>2, <2>3
  <2>5. Proc(elems, args, defaults).text
        = FlattenSeq([k \in 1..Len(elems) |-> Contribution(elems[k], args, given)])
    BY <2>1, <2>2, <2>3, <2>4, ProcMeant
  <2> QED BY <2>2, <2>3, <2>5
<1>8. \A k \in 1..Len(r.elems) :
        Contribution(r.elems[k], args, given)
        = r.elems[k].before
          \o (IF r.elems[k].num < 0 THEN <<>>
              ELSE Shown(r.elems[k].option, Given(args, r.defaults, r.elems[k].num + 1)))
  <2> TAKE k \in 1..Len(r.elems)
  <2>1. PICK e : e = r.elems[k]
    OBVIOUS
  <2>2. e \in Element
    BY <1>1, <2>1, ElementOfSeq
  <2>3. Contribution(e, args, AsGiven(r.defaults))
        = e.before \o (IF e.num < 0 THEN <<>>
                       ELSE Shown(e.option, Given(args, r.defaults, e.num + 1)))
    BY <2>2, ContributionMeant
  <2> QED BY <1>6, <2>1, <2>3
<1>9. Meant(r, args)
      = FlattenSeq([k \in 1..Len(r.elems) |->
          r.elems[k].before
          \o (IF r.elems[k].num < 0 THEN <<>>
              ELSE Shown(r.elems[k].option,
                         Given(args, r.defaults, r.elems[k].num + 1)))])
  BY <1>3 DEF Meant
<1>10. [k \in 1..Len(r.elems) |-> Contribution(r.elems[k], args, given)]
       = [k \in 1..Len(r.elems) |->
            r.elems[k].before
            \o (IF r.elems[k].num < 0 THEN <<>>
                ELSE Shown(r.elems[k].option,
                           Given(args, r.defaults, r.elems[k].num + 1)))]
  BY <1>8
<1> QED BY <1>4, <1>7, <1>9, <1>10

(* A call that fills the template keeps the invariant, if it sends what    *)
(* the template means.                                                     *)
LEMMA SentInv ==
  ASSUME Inv, NEW call \in Calls, NEW s \in Filling, Left(query, s.defaults),
         NEW expected, NEW regular, Sent(call, s, expected, regular),
         s.ok /\ regular /\ ~(call \in {"storein", "storein_params"} /\ LoneParameter(query))
           => s.text = expected
  PROVE  Inv'
<1>1. QueryInv(query)
  BY DEF Inv
<1>2. PICK buf : buf = IF query.elems = <<>> THEN query.buf ELSE s.text
  OBVIOUS
<1>3. buf \in Seq(Characters)
  <2>1. query.buf \in Seq(Characters) /\ s.text \in Seq(Characters)
    BY <1>1 DEF QueryInv, Typed, Filling
  <2> QED BY <1>2, <2>1
<1>4. PICK r : r = [query EXCEPT !.defaults = s.defaults,
                                 !.buf = IF query.elems = <<>> THEN @ ELSE s.text]
  OBVIOUS
<1>5. r = [query EXCEPT !.defaults = s.defaults, !.buf = buf]
  BY <1>2, <1>4
<1>6. QueryInv(r)
  <2>1. PICK defaults : defaults = s.defaults
    OBVIOUS
  <2>2. r = [query EXCEPT !.defaults = defaults, !.buf = buf] /\ Left(query, defaults)
    BY <1>5, <2>1
  <2> QED BY <1>1, <1>3, <2>2, LeftInv
<1>7. QueryInv(WithoutTemplate(r))
  BY <1>6, ResetInv
<1>8. CASE ~s.ok
  <2>1. query' = r /\ last' = NoCall
    BY <1>4, <1>8 DEF Sent, Put
  <2>2. QueryInv(query')
    BY <1>6, <2>1
  <2>3. last'.call = "none" /\ last'.regular = FALSE
    BY <2>1 DEF NoCall
  <2> QED BY <2>2, <2>3 DEF Inv, FilledOnce
<1>9. CASE s.ok
  <2>1. /\ query' = r \/ query' = WithoutTemplate(r)
        /\ last' = [call |-> call, sent |-> s.text, expected |-> expected,
                    regular |-> regular, lone |-> LoneParameter(query)]
    <3>1. LoneParameter(r) = LoneParameter(query)
      <4>1. r.elems = query.elems
        BY <1>1, <1>5 DEF QueryInv, Typed
      <4> QED BY <4>1 DEF LoneParameter
    <3> QED BY <1>4, <1>9, <3>1, Zenon DEF Sent, Put
  <2>2. QueryInv(query')
    BY <1>6, <1>7, <2>1
  <2>3. /\ last'.call = call /\ last'.sent = s.text /\ last'.expected = expected
        /\ last'.regular = regular /\ last'.lone = LoneParameter(query)
    BY <2>1
  <2> QED BY <1>9, <2>2, <2>3 DEF Inv, FilledOnce
<1> QED BY <1>8, <1>9

(* No statement is sent.                                                   *)
LEMMA QuietInv ==
  ASSUME QueryInv(query'), last' = NoCall
  PROVE  Inv'
<1>1. last'.call = "none" /\ last'.regular = FALSE
  BY DEF NoCall
<1> QED BY <1>1 DEF Inv, FilledOnce

-----------------------------------------------------------------------------
(* The operations, and the invariant of the specification                  *)

(* q << text                                                               *)
LEMMA WriteInv ==
  ASSUME Inv, NEW t \in Templates, Write(t)
  PROVE  Inv'
<1>1. t \in Seq(Characters)
  BY TemplateAssumption
<1>2. QueryInv(query) /\ query' = [query EXCEPT !.buf = t] /\ last' = NoCall
  BY DEF Inv, Write, Put
<1>3. QueryInv(query')
  BY <1>1, <1>2, BufferInv
<1> QED BY <1>2, <1>3, QuietInv

(* The copy constructor and operator=                                      *)
LEMMA CopyToInv ==
  ASSUME Inv, NEW text \in Seq(Characters), CopyTo(text)
  PROVE  Inv'
<1>1. /\ QueryInv(query) /\ last' = NoCall
      /\ query' = [query EXCEPT !.buf = text \o @,
                                !.defaults = Copied(@),
                                !.copied = @ \/ AnyProcessed(query.defaults),
                                !.own = FALSE,
                                !.parentNums = IF query.own THEN query.nums ELSE @]
  BY DEF Inv, CopyTo, Put
<1>2. QueryInv(query')
  BY <1>1, CopyInv
<1> QED BY <1>1, <1>2, QuietInv

(* parse()                                                                 *)
LEMMA ParseTextInv ==
  ASSUME Inv, ParseText
  PROVE  Inv'
<1>1. PICK new : new = Parse(query.buf)
  OBVIOUS
<1>2. /\ Len(query.elems) + Len(new) <= MaxElems
      /\ \A k \in DOMAIN new : new[k].named => new[k].num >= 0
      /\ query' = [query EXCEPT !.elems = @ \o new,
                                !.nums = Numbers(@, new),
                                !.tmpl = IF query.parses = 0 THEN query.buf ELSE @,
                                !.parses = IF @ < 2 THEN @ + 1 ELSE @]
      /\ last' = NoCall
  BY <1>1 DEF ParseText, Put
<1>3. QueryInv(query)
  BY DEF Inv
<1>4. QueryInv(query')
  BY <1>1, <1>2, <1>3, ParseInv
<1> QED BY <1>2, <1>4, QuietInv

(* str()                                                                   *)
LEMMA BuildInv ==
  ASSUME Inv, Build
  PROVE  Inv'
<1>1. PICK s : s = Str(query, <<>>)
  OBVIOUS
<1>2. QueryInv(query)
  BY DEF Inv
<1>3. s \in Filling /\ Left(query, s.defaults)
  BY <1>1, <1>2, ArgsTexts, StrLeaves
<1>4. PICK buf : buf = IF query.elems = <<>> THEN query.buf ELSE s.text
  OBVIOUS
<1>5. buf \in Seq(Characters)
  <2>1. query.buf \in Seq(Characters) /\ s.text \in Seq(Characters)
    BY <1>2, <1>3 DEF QueryInv, Typed, Filling
  <2> QED BY <1>4, <2>1
<1>6. PICK defaults : defaults = s.defaults
  OBVIOUS
<1>7. query' = [query EXCEPT !.defaults = defaults, !.buf = buf] /\ last' = NoCall
  BY <1>1, <1>4, <1>6 DEF Build, Put
<1>8. QueryInv(query')
  BY <1>2, <1>3, <1>5, <1>6, <1>7, LeftInv
<1> QED BY <1>7, <1>8, QuietInv

(* template_defaults[n] = v                                                *)
LEMMA SetDefaultInv ==
  ASSUME Inv, NEW n \in Nat \ {0}, NEW v \in Values,
         \E r \in WithDefault(query, n, v) : Put(r), last' = NoCall
  PROVE  Inv'
<1>1. query' \in WithDefault(query, n, v)
  BY DEF Put
<1>2. QueryInv(query')
  BY <1>1, DefaultInv DEF Inv
<1> QED BY <1>2, QuietInv

(* template_defaults["name"] = v                                           *)
LEMMA SetNamedInv ==
  ASSUME Inv, NEW name, NEW v \in Values, SetNamed(name, v)
  PROVE  Inv'
<1>1. Numbering(query.nums) /\ Numbering(query.parentNums)
  BY DEF Inv, QueryInv, Typed
<1>2. PICK known : known = IF query.own THEN query.nums ELSE query.parentNums
  OBVIOUS
<1>3. PICK n : n = IF name \in DOMAIN known THEN known[name] ELSE 0
  OBVIOUS
<1>4. Numbering(known)
  BY <1>1, <1>2
<1>5. n \in 0..127
  <2>1. \A x \in DOMAIN known : known[x] \in 0..127
    BY <1>4 DEF Numbering
  <2>2. 0 \in 0..127
    OBVIOUS
  <2> QED BY <1>3, <2>1, <2>2
<1>6. n + 1 \in Nat \ {0}
  BY <1>5
<1>7. (\E r \in WithDefault(query, n + 1, v) : Put(r)) /\ last' = NoCall
  BY <1>2, <1>3 DEF SetNamed
<1>8. PICK m : m = n + 1
  OBVIOUS
<1>9. m \in Nat \ {0} /\ (\E r \in WithDefault(query, m, v) : Put(r))
  BY <1>6, <1>7, <1>8
<1> QED BY <1>7, <1>9, SetDefaultInv

(* What execute() and the others send is what the template means.          *)
LEMMA FilledInv ==
  ASSUME Inv, NEW call \in Calls, NEW args, HaveTexts(args),
         NEW s, s = Str(query, args),
         Sent(call, s, MeantNow(args, s), Regular(query))
  PROVE  Inv'
<1>1. QueryInv(query)
  BY DEF Inv
<1>2. s \in Filling /\ Left(query, s.defaults)
  BY <1>1, StrLeaves
<1>3. ASSUME s.ok, Regular(query) PROVE s.text = MeantNow(args, s)
  <2>1. s.text = Meant(query, args)
    BY <1>1, <1>3, StrMeant
  <2> QED BY <1>3, <2>1 DEF MeantNow
<1> QED BY <1>2, <1>3, SentInv

(* A lone parameter gets the filled template in storein(): what is sent is *)
(* not what the template means.                                            *)
LEMMA StoreinInv ==
  ASSUME Inv, NEW call \in {"storein", "storein_params"}, NEW args, HaveTexts(args),
         NEW s, s = FilledStorein(query, args),
         Sent(call, s, MeantNow(args, s), Regular(query))
  PROVE  Inv'
<1>1. QueryInv(query) /\ call \in Calls
  BY DEF Inv, Calls
<1>2. CASE ~LoneParameter(query)
  <2>1. s = Str(query, args)
    BY <1>2 DEF FilledStorein, Taken
  <2> QED BY <1>1, <2>1, FilledInv
<1>3. CASE LoneParameter(query)
  <2>1. PICK t : t = Str(query, args)
    OBVIOUS
  <2>2. t \in Filling /\ Left(query, t.defaults)
    BY <1>1, <2>1, StrLeaves
  <2>3. s = Taken(query, t, FALSE)
    BY <2>1 DEF FilledStorein
  <2>4. s \in Filling /\ Left(query, s.defaults)
    BY <1>1, <2>2, <2>3, TakenLeaves
  <2> QED BY <1>1, <1>3, <2>4, SentInv
<1> QED BY <1>2, <1>3

(* A lone argument, in whatever way the call takes it, or the statement.   *)
LEMMA CallArgumentInv ==
  ASSUME Inv, NEW call \in Calls, NEW v, NEW arg, NEW args, args = <<arg>>, HaveTexts(args),
         NEW s, LoneParameter(query) => s = Str(query, args),
         ~LoneParameter(query) => s.text = v.text,
         CallArgument(call, v, s, arg)
  PROVE  Inv'
<1>1. CASE LoneParameter(query)
  <2>1. Sent(call, s, MeantNow(args, s), Regular(query))
    BY <1>1 DEF CallArgument
  <2> QED BY <1>1, <2>1, FilledInv
<1>2. CASE ~LoneParameter(query)
  <2>1. /\ query' = query \/ query' = WithoutTemplate(query)
        /\ last' = [call |-> call, sent |-> s.text, expected |-> v.text,
                    regular |-> TRUE, lone |-> FALSE]
    BY <1>2, Zenon DEF CallArgument, Put
  <2>2. QueryInv(query')
    BY <2>1, ResetInv DEF Inv
  <2>3. last'.call = call /\ last'.sent = last'.expected
    BY <1>2, <2>1
  <2> QED BY <2>2, <2>3 DEF Inv, FilledOnce
<1> QED BY <1>1, <1>2

(* execute(a)                                                              *)
LEMMA CallOneInv ==
  ASSUME Inv, NEW v \in Values, CallOne(v)
  PROVE  Inv'
<1>1. PICK arg : arg = Fresh(v)
  OBVIOUS
<1>2. PICK args : args = <<arg>>
  OBVIOUS
<1>3. PICK s : s = FilledOne(query, v)
  OBVIOUS
<1>4. PICK call : call = "one"
  OBVIOUS
<1>5. HaveTexts(args) /\ call \in Calls /\ CallArgument(call, v, s, arg)
  BY <1>1, <1>2, <1>3, <1>4, ArgsTexts DEF CallOne, Calls
<1>6. LoneParameter(query) => s = Str(query, args)
  BY <1>1, <1>2, <1>3 DEF FilledOne, Taken
<1>7. ~LoneParameter(query) => s.text = v.text
  BY <1>3 DEF FilledOne, Statement
<1> QED BY <1>2, <1>5, <1>6, <1>7, CallArgumentInv

(* store(a), use(a), storein(c, a): the lone parameter is the string of    *)
(* the characters of a.                                                    *)
LEMMA CallTextInv ==
  ASSUME Inv, NEW v \in Values, CallText(v)
  PROVE  Inv'
<1>1. PICK arg : arg = AsString(v)
  OBVIOUS
<1>2. PICK args : args = <<arg>>
  OBVIOUS
<1>3. PICK s : s = FilledText(query, v)
  OBVIOUS
<1>4. PICK call : call = "text"
  OBVIOUS
<1>5. HaveTexts(args) /\ call \in Calls /\ CallArgument(call, v, s, arg)
  BY <1>1, <1>2, <1>3, <1>4, ArgsTexts DEF CallText, Calls
<1>6. ASSUME LoneParameter(query) PROVE s = Str(query, args)
  <2>1. query.elems # <<>>
    BY <1>6 DEF LoneParameter
  <2>2. /\ Statement(query, v).text = v.text /\ Statement(query, v).ok
        /\ Statement(query, v).defaults = query.defaults
    BY DEF Statement
  <2>3. s = Proc(query.elems, args, query.defaults)
    BY <1>1, <1>2, <1>3, <1>6, <2>2 DEF FilledText, Taken, AsString
  <2> QED BY <2>1, <2>3 DEF Str
<1>7. ~LoneParameter(query) => s.text = v.text
  BY <1>3 DEF FilledText, Taken, Statement
<1> QED BY <1>2, <1>5, <1>6, <1>7, CallArgumentInv

(* Every step keeps the invariant.                                         *)
LEMMA NextInv ==
  ASSUME Inv, [Next]_vars
  PROVE  Inv'
<1>1. \A t \in Templates : t \in Seq(Characters)
  BY TemplateAssumption
<1>2. ASSUME NEW t \in Templates, Write(t) PROVE Inv'
  BY <1>2, WriteInv
<1>3. ASSUME NEW t \in Templates, AssignQuery(t) PROVE Inv'
  BY <1>1, <1>3, CopyToInv DEF AssignQuery
<1>4. CASE ParseText
  BY <1>4, ParseTextInv
<1>5. CASE Reset
  <2>1. QueryInv(query) /\ query' = WithoutTemplate(query) /\ last' = NoCall
    BY <1>5 DEF Inv, Reset, Put
  <2>2. QueryInv(query')
    BY <2>1, ResetInv
  <2> QED BY <2>1, <2>2, QuietInv
<1>6. CASE Build
  BY <1>6, BuildInv
<1>7. CASE CopyQuery
  <2>1. <<>> \in Seq(Characters)
    BY EmptySeq
  <2> QED BY <1>7, <2>1, CopyToInv DEF CopyQuery
<1>8. ASSUME NEW v \in Values, NEW n \in 1..MaxArgs, SetDefault(n, v) PROVE Inv'
  <2>1. MaxArgs \in Nat
    BY TemplateAssumption
  <2>2. n \in Nat \ {0}
    BY <2>1
  <2> QED BY <1>8, <2>2, SetDefaultInv DEF SetDefault
<1>9. ASSUME NEW v \in Values, NEW name \in Names, SetNamed(name, v) PROVE Inv'
  BY <1>9, SetNamedInv
<1>10. ASSUME NEW v \in Values, CallOne(v) \/ CallText(v) PROVE Inv'
  BY <1>10, CallOneInv, CallTextInv
<1>11. ASSUME NEW args PROVE Filled(query, args) = Str(query, args)
  BY DEF Filled, Taken
<1>12. CASE CallDefault
  <2>1. PICK s : s = Str(query, <<>>)
    OBVIOUS
  <2>2. PICK call : call = "default"
    OBVIOUS
  <2>3. call \in Calls /\ Sent(call, s, MeantNow(<<>>, s), Regular(query))
    BY <1>11, <1>12, <2>1, <2>2 DEF CallDefault, Calls
  <2> QED BY <2>1, <2>3, ArgsTexts, FilledInv
<1>13. ASSUME NEW args \in Args, CallParams(args) PROVE Inv'
  <2>1. PICK s : s = Str(query, args)
    OBVIOUS
  <2>2. PICK call : call = "params"
    OBVIOUS
  <2>3. call \in Calls /\ Sent(call, s, MeantNow(args, s), Regular(query))
    BY <1>11, <1>13, <2>1, <2>2 DEF CallParams, Calls
  <2> QED BY <2>1, <2>3, ArgsTexts, FilledInv
<1>14. CASE CallStorein
  <2>1. PICK s : s = FilledStorein(query, <<>>)
    OBVIOUS
  <2>2. PICK call : call = "storein"
    OBVIOUS
  <2>3. /\ call \in {"storein", "storein_params"}
        /\ Sent(call, s, MeantNow(<<>>, s), Regular(query))
    BY <1>14, <2>1, <2>2 DEF CallStorein
  <2> QED BY <2>1, <2>3, ArgsTexts, StoreinInv
<1>15. ASSUME NEW args \in Args, CallStoreinParams(args) PROVE Inv'
  <2>1. PICK s : s = FilledStorein(query, args)
    OBVIOUS
  <2>2. PICK call : call = "storein_params"
    OBVIOUS
  <2>3. /\ call \in {"storein", "storein_params"}
        /\ Sent(call, s, MeantNow(args, s), Regular(query))
    BY <1>15, <2>1, <2>2 DEF CallStoreinParams
  <2> QED BY <2>1, <2>3, ArgsTexts, StoreinInv
<1>16. CASE UNCHANGED vars
  BY <1>16 DEF Inv, FilledOnce, vars
<1> QED BY <1>2, <1>3, <1>4, <1>5, <1>6, <1>7, <1>8, <1>9, <1>10, <1>12, <1>13, <1>14,
           <1>15, <1>16 DEF Next

(* In every behaviour of a template query, for whatever characters,        *)
(* templates, values and names, and however many elements and arguments,   *)
(* the invariant holds.                                                    *)
THEOREM Invariance == Spec => []Inv
<1>1. Init => Inv
  <2>1. ASSUME Init PROVE Inv
    <3>1. QueryInv(query)
      BY <2>1, EmptyInv DEF Init
    <3>2. last.call = "none" /\ last.regular = FALSE
      BY <2>1 DEF Init, NoCall
    <3> QED BY <3>1, <3>2 DEF Inv, FilledOnce
  <2> QED BY <2>1
<1>2. Inv /\ [Next]_vars => Inv'
  BY NextInv
<1> QED BY <1>1, <1>2, PTL DEF Spec

(* The type invariant: texts stay texts of the characters the templates    *)
(* and values are made of, numbers stay signed chars, and the names that   *)
(* were parsed are never out of the range of a number.                     *)
THEOREM TypeCorrect == Spec => []TypeOK
<1>1. Inv => TypeOK
  BY DEF Inv, QueryInv, Typed, TypeOK
<1> QED BY <1>1, Invariance, PTL

(* However often a template is filled (pprepare(), is_processed_,          *)
(* AutoFlag), the statement sent has each value quoted and escaped exactly *)
(* once: in the way of its type, or, if it is the lone argument of         *)
(* store(a), use(a) or storein(c, a), as the string of its characters.     *)
THEOREM FillsOnce == Spec => []FilledOnce
<1>1. Inv => FilledOnce
  BY DEF Inv
<1> QED BY <1>1, Invariance, PTL

(* A name of the template leads to the parameter of the last element that  *)
(* has it, whatever templates the Query had before reset().                *)
THEOREM NamesAlwaysLead == Spec => []NamesLead
<1>1. Inv => NamesLead
  BY DEF Inv, QueryInv, Lead, NamesLead
<1> QED BY <1>1, Invariance, PTL
=============================================================================
