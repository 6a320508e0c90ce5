--------------------------- MODULE KeywordsProofs ---------------------------
(***************************************************************************)
(* Proofs about Keywords, for every collection of files, every limit and   *)
(* every query: the tables of a file that is done count exactly its words,  *)
(* the stemmer stays inside the word, and what a query asks for is found.   *)
(*                                                                         *)
(* The invariant is IInv.  It says where the line under way lies in its     *)
(* file (Lines), which word of it is in the buffer and what is left of its  *)
(* stemming (WordHeld), and that the tables hold the number of the words    *)
(* that have been settled so far (Tallied), those of a last line that does  *)
(* not end once more when that line is handled again.                       *)
(***************************************************************************)
EXTENDS Keywords, Integers, FiniteSetTheorems, SequenceTheorems, TLAPS

-----------------------------------------------------------------------------
(* The stemmer stays inside the word *)

\* The characters of a word, as read or in lower case.
Glyph == STRING \cup {tolower(c) : c \in STRING} \cup {"e", "i", "z"}

LEMMA LowerType ==
    ASSUME NEW w \in Seq(STRING)
    PROVE  Lower(w) \in Seq(Glyph) /\ Len(Lower(w)) = Len(w)
  <1>1. Len(w) \in Nat /\ \A n \in 1..Len(w) : w[n] \in STRING
    OBVIOUS
  <1>2. \A n \in 1..Len(w) : tolower(w[n]) \in Glyph
    BY <1>1 DEF Glyph
  <1>3. [n \in 1..Len(w) |-> tolower(w[n])] \in [1..Len(w) -> Glyph]
    BY <1>2
  <1>4. \A f \in [1..Len(w) -> Glyph] : f \in Seq(Glyph) /\ Len(f) = Len(w)
    BY <1>1
  <1> QED BY <1>3, <1>4 DEF Lower

LEMMA AreGlyphs == "e" \in Glyph /\ "i" \in Glyph /\ "z" \in Glyph
  BY DEF Glyph

\* What cutting and spelling leave are words.
LEMMA CutType ==
    ASSUME NEW w \in Seq(Glyph), NEW n \in Nat, n <= Len(w)
    PROVE  Cut(w, n) \in Seq(Glyph) /\ Len(Cut(w, n)) = Len(w) - n
  BY DEF Cut

LEMMA SpelledType ==
    ASSUME NEW x \in Seq(STRING) PROVE x \in Seq(Glyph) /\ Len(x) \in Nat
  BY DEF Glyph

\* Something with a measure has a vowel and a consonant.
LEMMA MeasureLength ==
    ASSUME NEW w \in Seq(Glyph), Measure(w) > 0
    PROVE  Len(w) >= 2
  <1> DEFINE P == {n \in 2..Len(w) : ~Consonant(w)[n - 1] /\ Consonant(w)[n]}
  <1>1. Cardinality(P) > 0
    BY DEF Measure
  <1>2. P # {}
    <2> HIDE DEF P
    <2> SUFFICES ASSUME P = {} PROVE FALSE
      OBVIOUS
    <2>1. Cardinality({}) = 0
      BY FS_EmptySet
    <2> QED BY <1>1, <2>1
  <1> QED BY <1>2

LEMMA MeasureType ==
    ASSUME NEW w \in Seq(Glyph) PROVE Measure(w) \in Nat
  <1> DEFINE P == {n \in 2..Len(w) : ~Consonant(w)[n - 1] /\ Consonant(w)[n]}
  <1>1. IsFiniteSet(P)
    <2>1. IsFiniteSet(2..Len(w))
      BY FS_Interval
    <2> QED BY <2>1, FS_Subset
  <1>2. Cardinality(P) \in Nat
    <2> HIDE DEF P
    <2> QED BY <1>1, FS_CardinalityType
  <1> QED BY <1>2 DEF Measure

\* So has something with a vowel in it at least one letter.
LEMMA VowelLength ==
    ASSUME NEW w \in Seq(Glyph), VowelInStem(w)
    PROVE  Len(w) >= 1
  BY DEF VowelInStem

\* A rule leaves at least two letters, and no more than there were.
LEMMA ReplaceLength ==
    ASSUME NEW table, NEW w \in Seq(Glyph), Len(w) >= 2,
           \A r \in table :
             /\ Spelled(r[1]) \in Seq(STRING) /\ Spelled(r[2]) \in Seq(STRING)
             /\ Len(Spelled(r[2])) <= Len(Spelled(r[1]))
    PROVE  /\ Replace(table, w) \in Seq(Glyph)
           /\ Len(Replace(table, w)) \in 2..Len(w)
  <1> DEFINE apt == {r \in Fitting(table, w) : Measure(Before(w, r)) > 0}
  <1>1. CASE apt = {}
    BY <1>1 DEF Replace
  <1>2. CASE apt # {}
    <2> DEFINE r == CHOOSE q \in apt : TRUE
    <2>1. r \in apt
      BY <1>2
    <2> HIDE DEF r
    <2>2. r \in table /\ Ends(w, r[1]) /\ Measure(Before(w, r)) > 0
      BY <2>1 DEF Fitting
    <2> DEFINE x == Spelled(r[1])  y == Spelled(r[2])
    <2>3. x \in Seq(Glyph) /\ y \in Seq(Glyph) /\ Len(x) \in Nat /\ Len(y) \in Nat
      BY <2>2, SpelledType
    <2>4. Len(y) <= Len(x) /\ Len(x) <= Len(w)
      BY <2>2 DEF Ends
    <2>5. Replace(table, w) = Before(w, r) \o y
      BY <1>2 DEF Replace, r
    <2>6. Before(w, r) = Cut(w, Len(x))
      BY DEF Before
    <2> HIDE DEF x, y
    <2>7. Before(w, r) \in Seq(Glyph) /\ Len(Before(w, r)) = Len(w) - Len(x)
      BY <2>3, <2>4, <2>6, CutType
    <2>8. Len(Before(w, r)) >= 2
      BY <2>2, <2>7, MeasureLength
    <2> HIDE DEF apt
    <2> QED BY <2>3, <2>4, <2>5, <2>7, <2>8
  <1> QED BY <1>1, <1>2

\* Each step, on a word that is long enough for it.
LEMMA WithoutPluralLength ==
    ASSUME NEW w \in Seq(Glyph), Len(w) >= 3
    PROVE  WithoutPlural(w) \in Seq(Glyph) /\ Len(WithoutPlural(w)) \in 1..Len(w)
  <1>1. Cut(w, 1) \in Seq(Glyph) /\ Len(Cut(w, 1)) = Len(w) - 1
    BY CutType
  <1>2. Cut(w, 2) \in Seq(Glyph) /\ Len(Cut(w, 2)) = Len(w) - 2
    BY CutType
  <1> QED BY <1>1, <1>2 DEF WithoutPlural

LEMMA RepairedLength ==
    ASSUME NEW w \in Seq(Glyph), Len(w) >= 1
    PROVE  Repaired(w) \in Seq(Glyph) /\ Len(Repaired(w)) \in 1..Len(w) + 1
  <1>1. "e" \in Glyph
    BY AreGlyphs
  <1>2. Append(w, "e") \in Seq(Glyph) /\ Len(Append(w, "e")) = Len(w) + 1
    BY <1>1
  <1>3. Cut(w, 1) \in Seq(Glyph) /\ Len(Cut(w, 1)) = Len(w) - 1
    BY CutType
  <1>4. DoubleC(w) => Len(w) >= 2
    BY DEF DoubleC
  <1> QED BY <1>2, <1>3, <1>4 DEF Repaired

\* -ed or -ing goes only if a vowel stands before it.
LEMMA SuffixCut ==
    ASSUME NEW v \in Seq(Glyph), NEW n \in {2, 3}, VowelInStem(Cut(v, n))
    PROVE  /\ Repaired(Cut(v, n)) \in Seq(Glyph)
           /\ Len(Repaired(Cut(v, n))) \in 1..Len(v)
  <1> DEFINE u == Cut(v, n)
  <1>1. n <= Len(v)
    <2> SUFFICES ASSUME ~(n <= Len(v)) PROVE FALSE
      OBVIOUS
    <2>1. u \in Seq(Glyph) /\ Len(u) = 0
      BY DEF Cut
    <2> HIDE DEF u
    <2>2. Len(u) >= 1
      <3>1. VowelInStem(u)
        BY DEF u
      <3> QED BY <2>1, <3>1, VowelLength
    <2> QED BY <2>1, <2>2
  <1>2. u \in Seq(Glyph) /\ Len(u) = Len(v) - n
    BY <1>1, CutType
  <1>3. VowelInStem(u)
    OBVIOUS
  <1> HIDE DEF u
  <1>4. Len(u) >= 1
    BY <1>2, <1>3, VowelLength
  <1>5. Repaired(u) \in Seq(Glyph) /\ Len(Repaired(u)) \in 1..Len(u) + 1
    BY <1>2, <1>4, RepairedLength
  <1>6. Repaired(u) \in Seq(Glyph) /\ Len(Repaired(u)) \in 1..Len(v)
    BY <1>2, <1>4, <1>5
  <1> QED BY <1>6 DEF u

LEMMA Step1abLength ==
    ASSUME NEW w \in Seq(Glyph), Len(w) >= 3
    PROVE  Step1ab(w) \in Seq(Glyph) /\ Len(Step1ab(w)) \in 1..Len(w)
  <1> DEFINE v == WithoutPlural(w)
             Past == Ends(v, "ed") /\ VowelInStem(Cut(v, 2))
             Gerund == Ends(v, "ing") /\ VowelInStem(Cut(v, 3))
  <1>1. v \in Seq(Glyph) /\ Len(v) \in 1..Len(w)
    BY WithoutPluralLength
  <1>2. Step1ab(w) =
          IF Ends(v, "eed") THEN IF Measure(Cut(v, 3)) > 0 THEN Cut(v, 1) ELSE v
          ELSE IF Past THEN Repaired(Cut(v, 2))
          ELSE IF Gerund THEN Repaired(Cut(v, 3)) ELSE v
    BY DEF Step1ab
  <1> HIDE DEF v
  <1>3. CASE Ends(v, "eed") /\ Measure(Cut(v, 3)) > 0
    <2> DEFINE u == Cut(v, 3)
    <2>1. Len(v) >= 2
      <3> SUFFICES ASSUME ~(Len(v) >= 2) PROVE FALSE
        BY <1>1
      <3>1. u \in Seq(Glyph) /\ Len(u) = 0
        BY <1>1 DEF Cut
      <3>2. Measure(u) > 0
        BY <1>3
      <3> HIDE DEF u
      <3>3. Len(u) >= 2
        BY <3>1, <3>2, MeasureLength
      <3> QED BY <3>1, <3>3
    <2>2. Cut(v, 1) \in Seq(Glyph) /\ Len(Cut(v, 1)) = Len(v) - 1
      BY <1>1, <2>1, CutType
    <2> QED BY <1>1, <1>2, <1>3, <2>1, <2>2
  <1>4. CASE ~Ends(v, "eed") /\ Past
    <2>1. /\ Repaired(Cut(v, 2)) \in Seq(Glyph)
          /\ Len(Repaired(Cut(v, 2))) \in 1..Len(v)
      BY <1>1, <1>4, SuffixCut
    <2> QED BY <1>1, <1>2, <1>4, <2>1
  <1>5. CASE ~Ends(v, "eed") /\ ~Past /\ Gerund
    <2>1. /\ Repaired(Cut(v, 3)) \in Seq(Glyph)
          /\ Len(Repaired(Cut(v, 3))) \in 1..Len(v)
      BY <1>1, <1>5, SuffixCut
    <2>2. Step1ab(w) = Repaired(Cut(v, 3))
      BY <1>2, <1>5
    <2> QED BY <1>1, <2>1, <2>2
  <1>6. CASE \/ Ends(v, "eed") /\ ~(Measure(Cut(v, 3)) > 0)
             \/ ~Ends(v, "eed") /\ ~Past /\ ~Gerund
    <2>1. Step1ab(w) = v
      BY <1>2, <1>6
    <2> QED BY <1>1, <2>1
  <1> QED BY <1>3, <1>4, <1>5, <1>6

LEMMA Step1cLength ==
    ASSUME NEW w \in Seq(Glyph), Len(w) >= 2
    PROVE  Step1c(w) \in Seq(Glyph) /\ Len(Step1c(w)) = Len(w)
  <1>1. Cut(w, 1) \in Seq(Glyph) /\ Len(Cut(w, 1)) = Len(w) - 1
    BY CutType
  <1>2. /\ Append(Cut(w, 1), "i") \in Seq(Glyph)
        /\ Len(Append(Cut(w, 1), "i")) = Len(w)
    BY <1>1, AreGlyphs
  <1> QED BY <1>2 DEF Step1c

LEMMA Step2Length ==
    ASSUME NEW w \in Seq(Glyph), Len(w) >= 2
    PROVE  Step2(w) \in Seq(Glyph) /\ Len(Step2(w)) \in 2..Len(w)
  <1>1. \A r \in Suffixes2 :
             /\ Spelled(r[1]) \in Seq(STRING) /\ Spelled(r[2]) \in Seq(STRING)
             /\ Len(Spelled(r[2])) <= Len(Spelled(r[1]))
    BY RulesAssumption
  <1> QED BY <1>1, ReplaceLength DEF Step2

LEMMA Step3Length ==
    ASSUME NEW w \in Seq(Glyph), Len(w) >= 2
    PROVE  Step3(w) \in Seq(Glyph) /\ Len(Step3(w)) \in 2..Len(w)
  <1>1. \A r \in Suffixes3 :
             /\ Spelled(r[1]) \in Seq(STRING) /\ Spelled(r[2]) \in Seq(STRING)
             /\ Len(Spelled(r[2])) <= Len(Spelled(r[1]))
    BY RulesAssumption
  <1> QED BY <1>1, ReplaceLength DEF Step3

LEMMA Step4Length ==
    ASSUME NEW w \in Seq(Glyph), Len(w) >= 2
    PROVE  Step4(w) \in Seq(Glyph) /\ Len(Step4(w)) \in 2..Len(w)
  <1> DEFINE apt == {r \in Fitting(Suffixes4, w) :
                       LET stem == Before(w, r) IN
                         /\ r[1] = "ion" => stem # <<>> /\ LastChar(stem) \in {"s", "t"}
                         /\ Measure(stem) > 1}
             r == CHOOSE q \in apt : TRUE
  <1>1. Step4(w) = IF apt = {} THEN w ELSE Before(w, r)
    BY DEF Step4
  <1>2. CASE apt # {}
    <2>1. r \in apt
      BY <1>2
    <2> HIDE DEF r
    <2>2. r \in Suffixes4 /\ Ends(w, r[1]) /\ Measure(Before(w, r)) > 1
      BY <2>1 DEF Fitting
    <2> DEFINE x == Spelled(r[1])
    <2>3. x \in Seq(Glyph) /\ Len(x) \in Nat
      BY <2>2, RulesAssumption, SpelledType
    <2>4. Len(x) <= Len(w)
      BY <2>2 DEF Ends
    <2>5. Before(w, r) = Cut(w, Len(x))
      BY DEF Before
    <2> HIDE DEF x
    <2>6. Before(w, r) \in Seq(Glyph) /\ Len(Before(w, r)) = Len(w) - Len(x)
      BY <2>3, <2>4, <2>5, CutType
    <2>7. Measure(Before(w, r)) > 0
      <3>1. Measure(Before(w, r)) > 1 => Measure(Before(w, r)) > 0
        BY <2>6, MeasureType
      <3> QED BY <2>2, <3>1
    <2>8. Len(Before(w, r)) >= 2
      BY <2>6, <2>7, MeasureLength
    <2> HIDE DEF apt
    <2> QED BY <1>1, <1>2, <2>3, <2>6, <2>8
  <1> HIDE DEF apt
  <1> QED BY <1>1, <1>2

LEMMA Step5Length ==
    ASSUME NEW w \in Seq(Glyph), Len(w) >= 2
    PROVE  Step5(w) \in Seq(Glyph) /\ Len(Step5(w)) \in 1..Len(w)
  <1> DEFINE a == Measure(w)
             v == IF LastChar(w) = "e" /\ (a > 1 \/ (a = 1 /\ ~CVC(Cut(w, 1))))
                  THEN Cut(w, 1) ELSE w
  <1>1. v \in Seq(Glyph) /\ Len(v) \in 1..Len(w)
    <2>1. Cut(w, 1) \in Seq(Glyph) /\ Len(Cut(w, 1)) = Len(w) - 1
      BY CutType
    <2>2. v \in {w, Cut(w, 1)}
      OBVIOUS
    <2> HIDE DEF v
    <2> QED BY <2>1, <2>2
  <1>2. Step5(w) = IF LastChar(v) = "l" /\ DoubleC(v) /\ a > 1 THEN Cut(v, 1) ELSE v
    BY DEF Step5
  <1> HIDE DEF v
  <1>3. CASE DoubleC(v)
    <2>1. Len(v) >= 2
      BY <1>3 DEF DoubleC
    <2>2. Cut(v, 1) \in Seq(Glyph) /\ Len(Cut(v, 1)) = Len(v) - 1
      BY <1>1, <2>1, CutType
    <2> QED BY <1>1, <1>2, <2>1, <2>2
  <1>4. CASE ~DoubleC(v)
    BY <1>1, <1>2, <1>4
  <1> QED BY <1>3, <1>4
-----------------------------------------------------------------------------
(* Files and articles *)

\* No two of the items that the extractors look for are the same.
LEMMA Distinct ==
    /\ EndOfLine \in Separators /\ EndOfLine \notin Marks /\ EndOfLine # DocEnd
    /\ Marks \subseteq Separators /\ DocEnd \in Marks
    /\ <<>> \notin Separators /\ <<>> # DocEnd
  BY DEF EndOfLine, Separators, Marks, DocEnd, DocBegin, Blank

\* A readable file is a sequence of words and separators, none of them empty.
LEMMA ReadableType ==
    ASSUME NEW file, Readable(file)
    PROVE  /\ file \in Seq(Item) /\ Len(file) \in Nat
           /\ \A n \in 1..Len(file) : file[n] \in Seq(STRING) /\ Len(file[n]) > 0
           /\ \A n \in 1..Len(file) - 1 : MayTouch(file[n], file[n + 1])
  <1>1. \A i \in Item : i \in Seq(STRING) /\ Len(i) > 0
    BY DEF Item
  <1>2. file \in Seq(Item)
    BY DEF Readable
  <1>3. \A n \in 1..Len(file) : file[n] \in Item
    BY <1>2
  <1> QED BY <1>1, <1>2, <1>3 DEF Readable

\* The article at an item: one, and one more behind each end of an article.
LEMMA ArticleType ==
    ASSUME NEW file, NEW n \in Nat
    PROVE  /\ ArticleOf(file, "wiki", n) \in Nat
           /\ ArticleOf(file, "wiki", n) >= 1
           /\ ArticleOf(file, "wiki", 0) = 1
  <1> DEFINE P(k) == {m \in 1..k : file[m] = DocEnd}
  <1>1. IsFiniteSet(P(n))
    <2>1. IsFiniteSet(1..n)
      BY FS_Interval
    <2> QED BY <2>1, FS_Subset
  <1>2. Cardinality(P(n)) \in Nat
    <2> HIDE DEF P
    <2> QED BY <1>1, FS_CardinalityType
  <1>3. P(0) = {}
    OBVIOUS
  <1>4. Cardinality(P(0)) = 0
    BY <1>3, FS_EmptySet
  <1> QED BY <1>2, <1>4 DEF ArticleOf

LEMMA ArticleSame ==
    ASSUME NEW file, NEW m \in Nat, NEW n \in Nat, m <= n,
           \A k \in m + 1..n : file[k] # DocEnd
    PROVE  ArticleOf(file, "wiki", n) = ArticleOf(file, "wiki", m)
  <1>1. {k \in 1..n : file[k] = DocEnd} = {k \in 1..m : file[k] = DocEnd}
    OBVIOUS
  <1> QED BY <1>1 DEF ArticleOf

LEMMA ArticleNext ==
    ASSUME NEW file, NEW n \in Nat, file[n + 1] = DocEnd
    PROVE  ArticleOf(file, "wiki", n + 1) = ArticleOf(file, "wiki", n) + 1
  <1> DEFINE P(k) == {m \in 1..k : file[m] = DocEnd}
  <1>1. P(n + 1) = P(n) \cup {n + 1} /\ n + 1 \notin P(n)
    OBVIOUS
  <1>2. IsFiniteSet(P(n))
    <2>1. IsFiniteSet(1..n)
      BY FS_Interval
    <2> QED BY <2>1, FS_Subset
  <1>3. Cardinality(P(n)) \in Nat
    <2> HIDE DEF P
    <2> QED BY <1>2, FS_CardinalityType
  <1>4. Cardinality(P(n + 1)) = Cardinality(P(n)) + 1
    <2> HIDE DEF P
    <2> QED BY <1>1, <1>2, FS_AddElement
  <1>5. /\ ArticleOf(file, "wiki", n + 1) = 1 + Cardinality(P(n + 1))
        /\ ArticleOf(file, "wiki", n) = 1 + Cardinality(P(n))
    BY DEF ArticleOf
  <1> DEFINE c == Cardinality(P(n))  d == Cardinality(P(n + 1))
  <1>6. c \in Nat /\ d = c + 1
    BY <1>3, <1>4
  <1>7. ArticleOf(file, "wiki", n + 1) = 1 + d /\ ArticleOf(file, "wiki", n) = 1 + c
    BY <1>5
  <1> HIDE DEF c, d
  <1> QED BY <1>6, <1>7

LEMMA ArticleGrows ==
    ASSUME NEW file, NEW m \in Nat, NEW n \in Nat, m <= n
    PROVE  ArticleOf(file, "wiki", m) <= ArticleOf(file, "wiki", n)
  <1> DEFINE P(k) == {i \in 1..k : file[i] = DocEnd}
  <1>1. IsFiniteSet(P(n)) /\ P(m) \subseteq P(n)
    <2>1. IsFiniteSet(1..n)
      BY FS_Interval
    <2> QED BY <2>1, FS_Subset
  <1>2. /\ Cardinality(P(m)) <= Cardinality(P(n))
        /\ Cardinality(P(m)) \in Nat /\ Cardinality(P(n)) \in Nat
    <2> HIDE DEF P
    <2> QED BY <1>1, FS_Subset, FS_CardinalityType
  <1>3. /\ ArticleOf(file, "wiki", m) = 1 + Cardinality(P(m))
        /\ ArticleOf(file, "wiki", n) = 1 + Cardinality(P(n))
    BY DEF ArticleOf
  <1> DEFINE c == Cardinality(P(m))  d == Cardinality(P(n))
  <1>4. c \in Nat /\ d \in Nat /\ c <= d
    BY <1>2
  <1>5. ArticleOf(file, "wiki", m) = 1 + c /\ ArticleOf(file, "wiki", n) = 1 + d
    BY <1>3
  <1> HIDE DEF c, d
  <1> QED BY <1>4, <1>5
-----------------------------------------------------------------------------
(* The invariant *)

\* For each article, words and how often they occur.
Tables == UNION {[T -> Nat] : T \in SUBSET Seq(Glyph)}

Testing ==
    pc \in {"test", "step1ab", "step1c", "step2", "step3", "step4", "step5", "count"}
Reading == pc = "scan" \/ Testing

Typed ==
    /\ collection \in Collections
    /\ nrDocs \in Nat
    /\ fileNo \in 1..Len(collection.files)
    /\ pc \in {"open", "scan", "done", "end", "exit"} \/ Testing
    /\ taken \in Nat /\ start \in Nat /\ end \in Nat /\ at \in Nat
    /\ eof \in BOOLEAN /\ isFinished \in BOOLEAN
    /\ s \in Seq(Glyph) /\ word \in Seq(Glyph)
    /\ articles \in Seq(Tables) /\ index \in Seq(Tables)

\* What `line` holds, when getline has read so many items: no end of a line, and
\* nothing but the mark if it begins with one.  Articles have been begun at each
\* mark, and once more at one that is handled twice.
OneLine ==
    /\ \A n \in start + 1..end : File[n] # EndOfLine
    /\ start = end \/ start = 0 \/ File[start] = EndOfLine
    /\ eof => start < end /\ end = Len(File) /\ taken = Len(File)
    /\ ~eof => \/ end = 0 /\ taken = 0
               \/ taken = end + 1 /\ File[taken] = EndOfLine
    /\ isFinished => taken = Len(File) /\ (eof \/ start = end)
    /\ start < end /\ File[start + 1] \in Marks => at = end /\ end = start + 1
    /\ Len(articles) = ArticleOf(File, Type, end)
         + (IF isFinished /\ start < end /\ File[end] = DocEnd THEN 1 ELSE 0)

Lines ==
    Reading =>
      /\ start <= at /\ at <= end /\ end <= Len(File) /\ taken <= Len(File)
      /\ ~Wiki => start = 0 /\ end = Len(File) /\ ~isFinished /\ Len(articles) = 1
      /\ Wiki => OneLine

\* The position of the word that is tested, stemmed and counted, and the word.
Cur == IF Wiki THEN at - 1 ELSE at
InHand == Lower(File[Cur])

\* What is left of the stemmer leads to the stem.
Stemmed ==
    /\ pc = "step1ab" => word = InHand /\ Len(word) > 2
    /\ pc = "step1c" => Stem(InHand) = Step5(Step4(Step3(Step2(Step1c(word)))))
    /\ pc = "step2" => Stem(InHand) = Step5(Step4(Step3(Step2(word))))
    /\ pc = "step3" => Stem(InHand) = Step5(Step4(Step3(word)))
    /\ pc = "step4" => Stem(InHand) = Step5(Step4(word))
    /\ pc = "step5" => Stem(InHand) = Step5(word)
    /\ pc = "count" => Stem(InHand) = word
    /\ pc \in {"step1c", "step2", "step3", "step4", "step5"} => Len(word) > 1
    /\ Len(word) \in 1..Len(InHand)

\* The buffer is empty between words, but for a word of an article that the
\* next character will end; a word in hand is in the buffer.
Held ==
    /\ Cur \in start + 1..end /\ File[Cur] \notin Separators
    /\ Wiki => File[at] \in Separators /\ at <= end
    /\ s = InHand \/ (Len(InHand) > INC /\ s = InHand \o <<"z">>)
    /\ pc = "test" => word = InHand
    /\ pc # "test" => InHand \notin StopWords /\ Stemmed

WordHeld ==
    /\ pc = "scan" =>
         s = IF Wiki /\ at > start /\ File[at] \notin Separators
             THEN Lower(File[at]) ELSE <<>>
    /\ Testing => Held

\* The words that were counted, those of the second time apart; what the tables
\* hold is their number, for each article and stem.
Settled == IF Testing THEN Cur - 1 ELSE Cur
Firsts == {n \in Counted(File, Type) : isFinished \/ n <= Settled}
Seconds == {n \in CountedTwice(File, Type) : isFinished /\ n <= Settled}

StemAt(file, n) == Stem(Lower(file[n]))
StemsOf(file, type) == {StemAt(file, n) : n \in Counted(file, type)}
Number(file, type, P, a, t) ==
    Cardinality({n \in P : ArticleOf(file, type, n) = a /\ StemAt(file, n) = t})
Table(file, type, A, B, f, a) ==
    /\ \A t \in DOMAIN f : t \in StemsOf(file, type) /\ f[t] > 0
    /\ \A t \in StemsOf(file, type) :
         Number(file, type, A, a, t) + Number(file, type, B, a, t)
           = IF t \in DOMAIN f THEN f[t] ELSE 0
AllTables(file, type, A, B, tables) ==
    \A a \in 1..Len(tables) : Table(file, type, A, B, tables[a], a)
Tallied == Reading => AllTables(File, Type, Firsts, Seconds, articles)

\* Each counted word of a file that is done is in the index.
InIndex(f) ==
    \A n \in Counted(collection.files[f], Type) :
      \E d \in 1..Len(index) : StemAt(collection.files[f], n) \in DOMAIN index[d]
Indexed ==
    /\ \A f \in 1..fileNo - 1 : InIndex(f)
    /\ pc = "end" => InIndex(fileNo)

\* What all of the steps within a file keep.
Scanned == Typed /\ Lines /\ WordHeld /\ Tallied
IInv == Scanned /\ CountsExact /\ Indexed

-----------------------------------------------------------------------------
(* Counting *)

LEMMA NumberType ==
    ASSUME NEW file, NEW type, NEW P, IsFiniteSet(P), NEW a, NEW t
    PROVE  Number(file, type, P, a, t) \in Nat
  <1> DEFINE Q == {n \in P : ArticleOf(file, type, n) = a /\ StemAt(file, n) = t}
  <1>1. IsFiniteSet(Q)
    BY FS_Subset
  <1>2. Cardinality(Q) \in Nat
    <2> HIDE DEF Q
    <2> QED BY <1>1, FS_CardinalityType
  <1> QED BY <1>2 DEF Number

\* None of an article that has not been begun.
LEMMA NumberNone ==
    ASSUME NEW file, NEW type, NEW P, NEW a, NEW t,
           \A n \in P : ArticleOf(file, type, n) # a
    PROVE  Number(file, type, P, a, t) = 0
  <1>1. {n \in P : ArticleOf(file, type, n) = a /\ StemAt(file, n) = t} = {}
    OBVIOUS
  <1> QED BY <1>1, FS_EmptySet DEF Number

\* One more position is one more for its article and stem.
LEMMA NumberAdds ==
    ASSUME NEW file, NEW type, NEW P, IsFiniteSet(P), NEW k, k \notin P, NEW a, NEW t
    PROVE  Number(file, type, P \cup {k}, a, t) =
             Number(file, type, P, a, t)
             + IF ArticleOf(file, type, k) = a /\ StemAt(file, k) = t THEN 1 ELSE 0
  <1> DEFINE Q(R) == {n \in R : ArticleOf(file, type, n) = a /\ StemAt(file, n) = t}
             q == Q(P)
             r == Q(P \cup {k})
  <1>1. IsFiniteSet(q) /\ k \notin q
    BY FS_Subset
  <1>2. Number(file, type, P, a, t) = Cardinality(q)
    BY DEF Number
  <1>3. Number(file, type, P \cup {k}, a, t) = Cardinality(r)
    BY DEF Number
  <1>4. CASE ArticleOf(file, type, k) = a /\ StemAt(file, k) = t
    <2>1. r = q \cup {k}
      BY <1>4
    <2> HIDE DEF q, r
    <2>2. Cardinality(r) = Cardinality(q) + 1
      BY <1>1, <2>1, FS_AddElement
    <2> QED BY <1>2, <1>3, <1>4, <2>2
  <1>5. CASE ~(ArticleOf(file, type, k) = a /\ StemAt(file, k) = t)
    <2>1. r = q
      BY <1>5
    <2> HIDE DEF q, r
    <2>2. Cardinality(q) \in Nat
      BY <1>1, FS_CardinalityType
    <2> QED BY <1>2, <1>3, <1>5, <2>1, <2>2
  <1> QED BY <1>4, <1>5

\* An article that is begun has no words.
LEMMA TablesAppend ==
    ASSUME NEW file, NEW type, NEW A, NEW B, NEW tables \in Seq(Tables),
           AllTables(file, type, A, B, tables),
           \A n \in A \cup B : ArticleOf(file, type, n) # Len(tables) + 1
    PROVE  AllTables(file, type, A, B, Append(tables, NoWords))
  <1> DEFINE more == Append(tables, NoWords)
  <1>1. /\ Len(more) = Len(tables) + 1 /\ Len(tables) \in Nat
        /\ \A a \in 1..Len(tables) : more[a] = tables[a]
        /\ more[Len(tables) + 1] = NoWords
    OBVIOUS
  <1> HIDE DEF more
  <1>2. DOMAIN NoWords = {}
    BY DEF NoWords
  <1>3. Table(file, type, A, B, NoWords, Len(tables) + 1)
    <2> SUFFICES ASSUME NEW t \in StemsOf(file, type)
                 PROVE  Number(file, type, A, Len(tables) + 1, t)
                          + Number(file, type, B, Len(tables) + 1, t) = 0
      BY <1>2 DEF Table
    <2>1. /\ Number(file, type, A, Len(tables) + 1, t) = 0
          /\ Number(file, type, B, Len(tables) + 1, t) = 0
      BY NumberNone
    <2> QED BY <2>1
  <1>4. \A a \in 1..Len(more) : Table(file, type, A, B, more[a], a)
    <2> TAKE a \in 1..Len(more)
    <2>1. a \in 1..Len(tables) \/ a = Len(tables) + 1
      BY <1>1
    <2> QED BY <1>1, <1>3, <2>1 DEF AllTables
  <1> QED BY <1>4 DEF AllTables, more

\* One more occurrence of a stem in the last article.
LEMMA TablesCount ==
    ASSUME NEW file, NEW type, NEW A, NEW B, NEW A2, NEW B2, NEW k,
           IsFiniteSet(A), IsFiniteSet(B),
           \/ k \notin A /\ A2 = A \cup {k} /\ B2 = B
           \/ k \notin B /\ B2 = B \cup {k} /\ A2 = A,
           k \in Counted(file, type),
           NEW tables \in Seq(Tables), Len(tables) > 0,
           ArticleOf(file, type, k) = Len(tables),
           AllTables(file, type, A, B, tables)
    PROVE  AllTables(file, type, A2, B2,
             [tables EXCEPT ![Len(tables)] = OneMore(@, StemAt(file, k))])
  <1> DEFINE l == Len(tables)
             w == StemAt(file, k)
             more == [tables EXCEPT ![l] = OneMore(@, w)]
             Sum(a, t) == Number(file, type, A, a, t) + Number(file, type, B, a, t)
  <1>1. /\ l \in Nat /\ l \in 1..l /\ Len(more) = l
        /\ \A a \in 1..l : a # l => more[a] = tables[a]
        /\ more[l] = OneMore(tables[l], w)
    OBVIOUS
  <1>2. \A a, t : /\ Number(file, type, A, a, t) \in Nat
                  /\ Number(file, type, B, a, t) \in Nat
    BY NumberType
  <1>3. ASSUME NEW a, NEW t
        PROVE  Number(file, type, A2, a, t) + Number(file, type, B2, a, t)
                 = Sum(a, t) + IF l = a /\ w = t THEN 1 ELSE 0
    <2> DEFINE one == IF l = a /\ w = t THEN 1 ELSE 0
               x == Number(file, type, A, a, t)
               y == Number(file, type, B, a, t)
    <2>1. x \in Nat /\ y \in Nat /\ one \in Nat
      BY <1>2
    <2>2. CASE k \notin A /\ A2 = A \cup {k} /\ B2 = B
      <3>1. Number(file, type, A2, a, t) = x + one
        BY <2>2, NumberAdds
      <3>2. Number(file, type, B2, a, t) = y
        BY <2>2
      <3> HIDE DEF x, y, one
      <3>3. Number(file, type, A2, a, t) + Number(file, type, B2, a, t) = (x + y) + one
        BY <2>1, <3>1, <3>2
      <3> QED BY <3>3 DEF x, y, one
    <2>3. CASE k \notin B /\ B2 = B \cup {k} /\ A2 = A
      <3>1. Number(file, type, B2, a, t) = y + one
        BY <2>3, NumberAdds
      <3>2. Number(file, type, A2, a, t) = x
        BY <2>3
      <3> HIDE DEF x, y, one
      <3>3. Number(file, type, A2, a, t) + Number(file, type, B2, a, t) = (x + y) + one
        BY <2>1, <3>1, <3>2
      <3> QED BY <3>3 DEF x, y, one
    <2> QED BY <2>2, <2>3
  <1>4. w \in StemsOf(file, type)
    BY DEF StemsOf
  <1>5. \A a, t : Sum(a, t) \in Nat
    BY <1>2
  <1> HIDE DEF w, Sum, more
  <1>6. ASSUME NEW a \in 1..l, NEW f, f = tables[a], NEW g, g = more[a]
        PROVE  Table(file, type, A2, B2, g, a)
    <2>1. /\ \A t \in DOMAIN f : t \in StemsOf(file, type) /\ f[t] > 0
          /\ \A t \in StemsOf(file, type) : Sum(a, t) = IF t \in DOMAIN f THEN f[t] ELSE 0
      <3>1. Table(file, type, A, B, f, a)
        BY <1>1, <1>6 DEF AllTables
      <3> QED BY <3>1 DEF Table, Sum
    <2>2. CASE a # l
      <3>1. g = f
        BY <1>1, <1>6, <2>2
      <3>2. \A t : Number(file, type, A2, a, t) + Number(file, type, B2, a, t) = Sum(a, t)
        BY <1>3, <1>5, <2>2
      <3> QED BY <2>1, <3>1, <3>2 DEF Table
    <2>3. CASE a = l
      <3>1. g = OneMore(f, w)
        BY <1>1, <1>6, <2>3
      <3>2. /\ DOMAIN g = DOMAIN f \cup {w}
            /\ \A t \in DOMAIN g :
                 g[t] = (IF t \in DOMAIN f THEN f[t] ELSE 0) + (IF t = w THEN 1 ELSE 0)
        BY <3>1 DEF OneMore
      <3>3. \A t \in DOMAIN f : f[t] \in Nat
        BY <1>5, <2>1
      <3>4. ASSUME NEW t \in DOMAIN g
            PROVE  t \in StemsOf(file, type) /\ g[t] > 0
        <4>1. CASE t \in DOMAIN f
          BY <2>1, <3>2, <3>3, <4>1
        <4>2. CASE t \notin DOMAIN f
          BY <1>4, <3>2, <4>2
        <4> QED BY <4>1, <4>2
      <3>5. ASSUME NEW t \in StemsOf(file, type)
            PROVE  Number(file, type, A2, a, t) + Number(file, type, B2, a, t)
                     = IF t \in DOMAIN g THEN g[t] ELSE 0
        <4>1. Number(file, type, A2, a, t) + Number(file, type, B2, a, t)
                = Sum(a, t) + IF w = t THEN 1 ELSE 0
          BY <1>3, <2>3
        <4>2. Sum(a, t) = IF t \in DOMAIN f THEN f[t] ELSE 0
          BY <2>1
        <4>3. CASE t \in DOMAIN g
          BY <3>2, <4>1, <4>2, <4>3
        <4>4. CASE t \notin DOMAIN g
          <5>1. t # w /\ t \notin DOMAIN f
            BY <3>2, <4>4
          <5> QED BY <4>1, <4>2, <4>4, <5>1
        <4> QED BY <4>3, <4>4
      <3> QED BY <3>4, <3>5 DEF Table
    <2> QED BY <2>2, <2>3
  <1>7. \A a \in 1..Len(more) : Table(file, type, A2, B2, more[a], a)
    BY <1>1, <1>6
  <1> QED BY <1>7 DEF AllTables, more, w
-----------------------------------------------------------------------------
(* The file under way *)

LEMMA FileFacts ==
    ASSUME Typed
    PROVE  /\ Type \in {"normal", "wiki"}
           /\ File \in Seq(Item) /\ Len(File) \in Nat
           /\ \A n \in 1..Len(File) : File[n] \in Seq(STRING) /\ Len(File[n]) > 0
           /\ \A n \in 1..Len(File) - 1 : MayTouch(File[n], File[n + 1])
           /\ ~Wiki => \A n \in 1..Len(File) : File[n] \notin Marks
  <1>1. /\ collection.type \in {"normal", "wiki"}
        /\ \A f \in 1..Len(collection.files) :
             /\ Readable(collection.files[f])
             /\ collection.type = "normal" =>
                  \A n \in 1..Len(collection.files[f]) : collection.files[f][n] \notin Marks
    BY CollectionsAssumption DEF Typed
  <1>2. Readable(File)
    BY <1>1 DEF Typed, File
  <1>3. ~Wiki => \A n \in 1..Len(File) : File[n] \notin Marks
    BY <1>1 DEF Typed, File, Wiki, Type
  <1> QED BY <1>1, <1>2, <1>3, ReadableType DEF Type

LEMMA CountedWords ==
    ASSUME NEW file, NEW type
    PROVE  /\ CountedTwice(file, type) \subseteq Counted(file, type)
           /\ Counted(file, type) \subseteq Words(file)
           /\ Words(file) \subseteq 1..Len(file)
  BY DEF Counted, CountedTwice, Words

LEMMA SettledSets ==
    ASSUME Typed
    PROVE  /\ IsFiniteSet(Firsts) /\ Firsts \subseteq Counted(File, Type)
           /\ IsFiniteSet(Seconds) /\ Seconds \subseteq CountedTwice(File, Type)
           /\ Cur \in Int /\ Settled \in Int
  <1>1. Len(File) \in Nat
    BY FileFacts
  <1>2. IsFiniteSet(1..Len(File))
    BY <1>1, FS_Interval
  <1>3. Firsts \subseteq Counted(File, Type) /\ Seconds \subseteq CountedTwice(File, Type)
    BY DEF Firsts, Seconds
  <1>4. Firsts \subseteq 1..Len(File) /\ Seconds \subseteq 1..Len(File)
    BY <1>3, CountedWords
  <1>5. Cur \in Int /\ Settled \in Int
    BY DEF Typed, Cur, Settled
  <1> QED BY <1>2, <1>3, <1>4, <1>5, FS_Subset

\* What is settled changes only with a word that is counted.
LEMMA SameSettled ==
    ASSUME collection' = collection, fileNo' = fileNo, isFinished' = isFinished,
           \A n \in Counted(File, Type) : n <= Settled <=> n <= Settled'
    PROVE  Firsts' = Firsts /\ Seconds' = Seconds
  <1>1. File' = File /\ Type' = Type
    BY DEF File, Type
  <1>2. Firsts' = {n \in Counted(File, Type) : isFinished \/ n <= Settled'}
    BY <1>1 DEF Firsts, Counted, Words
  <1>3. Seconds' = {n \in CountedTwice(File, Type) : isFinished /\ n <= Settled'}
    BY <1>1 DEF Seconds, CountedTwice, Counted, Words
  <1> QED BY <1>2, <1>3, CountedWords DEF Firsts, Seconds

LEMMA TalliedSame ==
    ASSUME collection' = collection, fileNo' = fileNo, isFinished' = isFinished,
           \A n \in Counted(File, Type) : n <= Settled <=> n <= Settled',
           articles' = articles, Reading, Tallied
    PROVE  Tallied'
  <1>1. File' = File /\ Type' = Type
    BY DEF File, Type
  <1>2. Firsts' = Firsts /\ Seconds' = Seconds
    BY SameSettled
  <1>3. AllTables(File, Type, Firsts, Seconds, articles)
    BY DEF Tallied
  <1>4. AllTables(File', Type', Firsts', Seconds', articles')
    BY <1>1, <1>2, <1>3
  <1> QED BY <1>4 DEF Tallied

\* A mark is all of its line, and words are in the article that is under way.
LEMMA MarksAlone ==
    ASSUME Typed, Lines, Reading, Wiki, NEW m \in start + 1..end, File[m] \in Marks
    PROVE  m = start + 1 /\ end = start + 1 /\ at = end
  <1> USE DEF Typed
  <1>1. OneLine /\ end <= Len(File)
    BY DEF Lines
  <1>2. m = start + 1
    <2> SUFFICES ASSUME m # start + 1 PROVE FALSE
      OBVIOUS
    <2>1. m - 1 \in start + 1..end /\ m - 1 \in 1..Len(File) - 1 /\ (m - 1) + 1 = m
      BY <1>1, FileFacts
    <2>2. MayTouch(File[m - 1], File[m])
      BY <2>1, FileFacts
    <2>3. File[m - 1] = EndOfLine
      BY <2>2 DEF MayTouch
    <2> QED BY <1>1, <2>1, <2>3 DEF OneLine
  <1>3. start < end
    OBVIOUS
  <1> QED BY <1>1, <1>2, <1>3 DEF OneLine

LEMMA WordsArticle ==
    ASSUME Typed, Lines, Reading, NEW k \in start + 1..end, File[k] \notin Separators
    PROVE  ArticleOf(File, Type, k) = Len(articles)
  <1> USE DEF Typed
  <1>1. CASE ~Wiki
    BY <1>1 DEF Lines, ArticleOf, Wiki
  <1>2. CASE Wiki
    <2>1. Type = "wiki" /\ OneLine
      BY <1>2 DEF Wiki, Lines
    <2>2. \A m \in start + 1..end : File[m] \notin Marks
      <3> SUFFICES ASSUME NEW m \in start + 1..end, File[m] \in Marks PROVE FALSE
        OBVIOUS
      <3>1. k = m
        BY <1>2, MarksAlone
      <3> QED BY <3>1, Distinct
    <2>3. \A m \in k + 1..end : File[m] # DocEnd
      BY <2>2, Distinct
    <2>4. ArticleOf(File, Type, end) = ArticleOf(File, Type, k)
      BY <2>1, <2>3, ArticleSame
    <2>5. File[end] # DocEnd
      BY <2>2, Distinct
    <2>6. ArticleOf(File, Type, end) \in Nat
      BY <2>1, ArticleType
    <2>7. Len(articles) = ArticleOf(File, Type, end)
      BY <2>1, <2>5, <2>6 DEF OneLine
    <2> QED BY <2>4, <2>7
  <1> QED BY <1>1, <1>2
-----------------------------------------------------------------------------
(* The steps *)

\* What a step within a file leaves alone.
SameFile == collection' = collection /\ nrDocs' = nrDocs /\ fileNo' = fileNo
SameLine == taken' = taken /\ eof' = eof /\ start' = start /\ end' = end
              /\ isFinished' = isFinished

LEMMA NoWordsType == NoWords \in Tables
  <1>1. NoWords \in [{} -> Nat]
    BY DEF NoWords
  <1> QED BY <1>1 DEF Tables

LEMMA OpenFailsScans ==
    ASSUME IInv, OpenFails
    PROVE  Scanned'
  <1> USE DEF OpenFails, inputVars, fileVars
  <1>1. Typed'
    BY DEF IInv, Scanned, Typed, Testing
  <1>2. ~Reading' /\ ~Testing' /\ pc' # "scan"
    BY DEF Reading, Testing
  <1>3. Lines' /\ WordHeld' /\ Tallied'
    BY <1>2 DEF Lines, WordHeld, Tallied
  <1> QED BY <1>1, <1>3 DEF Scanned

LEMMA OpenFileScans ==
    ASSUME IInv, OpenFile
    PROVE  Scanned'
  <1> USE DEF SameFile
  <1>1. /\ SameFile /\ articles' = <<NoWords>>
        /\ taken' = 0 /\ eof' = FALSE /\ isFinished' = FALSE /\ start' = 0 /\ at' = 0
        /\ end' = (IF Wiki THEN 0 ELSE Len(File))
        /\ s' = <<>> /\ pc' = "scan" /\ word' = word /\ index' = index
    BY DEF OpenFile, inputVars
  <1>2. Typed
    BY DEF IInv, Scanned
  <1>3. File' = File /\ Type' = Type /\ Wiki' = Wiki
    BY <1>1 DEF File, Type, Wiki
  <1>4. Len(File) \in Nat
    BY <1>2, FileFacts
  <1>5. articles' \in Seq(Tables) /\ Len(articles') = 1 /\ articles'[1] = NoWords
    BY <1>1, NoWordsType
  <1>6. Typed'
    <2>1. s' \in Seq(Glyph) /\ end' \in Nat
      BY <1>1, <1>4
    <2>2. /\ collection' = collection /\ nrDocs' = nrDocs /\ fileNo' = fileNo
          /\ taken' = 0 /\ eof' = FALSE /\ isFinished' = FALSE /\ start' = 0 /\ at' = 0
          /\ pc' = "scan" /\ word' = word /\ index' = index
      BY <1>1
    <2> QED BY <1>2, <1>5, <2>1, <2>2 DEF Typed
  <1>7. Wiki => ArticleOf(File, Type, 0) = 1
    BY ArticleType DEF Wiki
  <1>8. Lines'
    <2>1. CASE Wiki
      BY <1>1, <1>3, <1>4, <1>5, <1>7, <2>1 DEF Lines, OneLine
    <2>2. CASE ~Wiki
      BY <1>1, <1>3, <1>4, <1>5, <2>2 DEF Lines
    <2> QED BY <2>1, <2>2
  <1>9. WordHeld'
    BY <1>1 DEF WordHeld, Testing
  <1>10. Tallied'
    <2>1. ~isFinished' /\ Settled' <= 0
      BY <1>1 DEF Settled, Cur, Testing
    <2>2. Firsts' = {} /\ Seconds' = {}
      <3>1. \A n \in Counted(File', Type') : n \in 1..Len(File')
        BY CountedWords, <1>3
      <3>2. Settled' \in Int
        BY <1>1 DEF Settled, Cur, Testing
      <3>3. \A n \in Counted(File', Type') : ~(n <= Settled')
        BY <1>3, <1>4, <2>1, <3>1, <3>2
      <3>4. Firsts' = {n \in Counted(File', Type') : isFinished' \/ n <= Settled'}
        BY DEF Firsts, Counted, Words
      <3>5. Seconds' \subseteq {n \in CountedTwice(File', Type') : isFinished'}
        BY DEF Seconds, CountedTwice, Counted, Words
      <3> QED BY <2>1, <3>3, <3>4, <3>5
    <2>3. Table(File', Type', {}, {}, NoWords, 1)
      <3>1. DOMAIN NoWords = {}
        BY DEF NoWords
      <3>2. \A t : Number(File', Type', {}, 1, t) = 0
        BY NumberNone
      <3> QED BY <3>1, <3>2 DEF Table
    <2>4. AllTables(File', Type', Firsts', Seconds', articles')
      BY <1>5, <2>2, <2>3 DEF AllTables
    <2> QED BY <2>4 DEF Tallied
  <1> QED BY <1>6, <1>8, <1>9, <1>10 DEF Scanned

\* The step of one word, or of the item that follows it.
LEMMA ReadWordScans ==
    ASSUME Scanned, ReadWord
    PROVE  Scanned'
  <1>1. Typed /\ Lines /\ WordHeld /\ Tallied /\ Reading
    BY DEF Scanned, ReadWord, Reading
  <1> DEFINE w == Lower(File[at + 1])
  <1>2. PICK tail \in IF ~Wiki /\ Len(w) > INC THEN {<<>>, <<"z">>} ELSE {<<>>} :
          s' = Overwritten(w) \o tail
    BY DEF ReadWord
  <1>3. /\ SameFile /\ SameLine /\ articles' = articles /\ index' = index
        /\ at' = at + 1 /\ word' = w /\ pc' = (IF Wiki THEN "scan" ELSE "test")
        /\ pc = "scan" /\ at < end /\ File[at + 1] \notin Separators
    BY DEF ReadWord, SameFile, SameLine, inputVars, fileVars
  <1> HIDE DEF w
  <1>4. File' = File /\ Type' = Type /\ Wiki' = Wiki
    BY <1>3 DEF File, Type, Wiki, SameFile
  <1>5. /\ start <= at /\ end <= Len(File) /\ Len(File) \in Nat
        /\ start \in Nat /\ at \in Nat /\ end \in Nat /\ at + 1 \in 1..Len(File)
    BY <1>1, <1>3, FileFacts DEF Typed, Lines
  <1>6. w \in Seq(Glyph) /\ Len(w) > 0
    BY <1>1, <1>5, FileFacts, LowerType DEF w
  \* The item before is no word, so that it has been handled and temp is empty.
  <1>7. /\ at \notin Words(File) \/ ~Wiki
        /\ s = <<>>
    <2>1. CASE ~Wiki
      BY <1>1, <1>3, <2>1 DEF WordHeld
    <2>2. CASE Wiki
      <3>1. at \notin Words(File)
        <4> SUFFICES ASSUME at \in 1..Len(File), File[at] \notin Separators PROVE FALSE
          BY DEF Words
        <4>1. MayTouch(File[at], File[at + 1])
          BY <1>1, <1>5, FileFacts
        <4> QED BY <1>3, <4>1 DEF MayTouch
      <3>2. ~(at > start /\ File[at] \notin Separators)
        BY <1>5, <3>1 DEF Words
      <3> QED BY <1>1, <1>3, <3>1, <3>2 DEF WordHeld
    <2> QED BY <2>1, <2>2
  <1>8. Overwritten(w) = w
    <2>1. SubSeq(<<>>, Len(w) + 1, 0) = <<>>
      BY <1>6
    <2> QED BY <1>6, <1>7, <2>1 DEF Overwritten
  <1>9. /\ s' = w \o tail /\ tail \in Seq(Glyph)
        /\ tail = <<>> \/ (~Wiki /\ Len(w) > INC /\ tail = <<"z">>)
    <2>1. <<>> \in Seq(Glyph) /\ <<"z">> \in Seq(Glyph)
      BY AreGlyphs
    <2> QED BY <1>2, <1>8, <2>1
  <1>10. s' \in Seq(Glyph) /\ (tail = <<>> => s' = w)
    BY <1>6, <1>9
  <1>11. Typed'
    BY <1>1, <1>3, <1>5, <1>6, <1>10 DEF Typed, SameFile, SameLine, Testing
  <1>12. Lines'
    <2>1. CASE Wiki
      BY <1>1, <1>3, <1>4, <1>5, <2>1 DEF Lines, OneLine, SameLine, Reading
    <2>2. CASE ~Wiki
      BY <1>1, <1>3, <1>4, <1>5, <2>2 DEF Lines, SameLine, Reading
    <2> QED BY <2>1, <2>2
  <1>13. WordHeld'
    <2>1. CASE Wiki
      <3>1. pc' = "scan" /\ ~Testing' /\ s' = w /\ at' = at + 1
        BY <1>3, <1>9, <1>10, <2>1 DEF Testing
      <3>2. s' = Lower(File'[at']) /\ at' > start' /\ File'[at'] \notin Separators
        BY <1>3, <1>4, <1>5, <3>1 DEF w, SameLine
      <3> QED BY <1>4, <2>1, <3>1, <3>2 DEF WordHeld
    <2>2. CASE ~Wiki
      <3>1. pc' = "test" /\ Cur' = at + 1 /\ InHand' = w
        BY <1>3, <1>4, <2>2 DEF Cur, InHand, w
      <3>2. s' = InHand' \/ (Len(InHand') > INC /\ s' = InHand' \o <<"z">>)
        BY <1>9, <1>10, <3>1
      <3>3. /\ Cur' \in start' + 1..end' /\ File'[Cur'] \notin Separators /\ ~Wiki'
            /\ word' = InHand' /\ pc' = "test"
        BY <1>3, <1>4, <1>5, <2>2, <3>1 DEF SameLine
      <3>4. Held'
        BY <3>2, <3>3 DEF Held
      <3> QED BY <3>1, <3>4 DEF WordHeld
    <2> QED BY <2>1, <2>2
  <1>14. \A n \in Counted(File, Type) : n <= Settled <=> n <= Settled'
    <2>1. CASE Wiki
      <3>1. Settled = at - 1 /\ Settled' = at
        BY <1>3, <1>4, <1>5, <2>1 DEF Settled, Cur, Testing
      <3>2. \A n \in Counted(File, Type) : n \in Nat /\ n # at
        BY <1>5, <1>7, <2>1, CountedWords
      <3> QED BY <1>5, <3>1, <3>2
    <2>2. CASE ~Wiki
      <3>1. Settled = at /\ Settled' = at
        BY <1>3, <1>4, <1>5, <2>2 DEF Settled, Cur, Testing
      <3> QED BY <3>1
    <2> QED BY <2>1, <2>2
  <1>15. Tallied'
    BY <1>1, <1>3, <1>14, TalliedSame DEF SameFile, SameLine
  <1> QED BY <1>11, <1>12, <1>13, <1>15 DEF Scanned

LEMMA ReadSeparatorScans ==
    ASSUME Scanned, ReadSeparator
    PROVE  Scanned'
  <1>1. Typed /\ Lines /\ WordHeld /\ Tallied /\ Reading
    BY DEF Scanned, ReadSeparator, Reading
  <1>2. /\ SameFile /\ SameLine /\ articles' = articles /\ index' = index
        /\ at' = at + 1 /\ s' = s
        /\ pc = "scan" /\ at < end /\ File[at + 1] \in Separators
        /\ IF Wiki /\ s # <<>> THEN pc' = "test" /\ word' = s
                               ELSE pc' = pc /\ word' = word
    BY DEF ReadSeparator, SameFile, SameLine, inputVars, fileVars
  <1>3. File' = File /\ Type' = Type /\ Wiki' = Wiki
    BY <1>2 DEF File, Type, Wiki, SameFile
  <1>4. /\ start <= at /\ end <= Len(File) /\ Len(File) \in Nat
        /\ start \in Nat /\ at \in Nat /\ end \in Nat /\ at + 1 \in 1..Len(File)
    BY <1>1, <1>2, FileFacts DEF Typed, Lines
  <1>5. pc' \in {"scan", "test"} /\ (pc' = "test" <=> Wiki /\ s # <<>>)
    BY <1>2
  \* A word that is in temp is that of the item before.
  <1>6. Wiki /\ s # <<>> =>
           at > start /\ File[at] \notin Separators /\ s = Lower(File[at])
    BY <1>1, <1>2 DEF WordHeld
  <1>7. Wiki /\ s = <<>> => at \notin Words(File)
    <2> SUFFICES ASSUME Wiki, s = <<>>, at \in Words(File) PROVE FALSE
      OBVIOUS
    <2>1. at \in 1..Len(File) /\ File[at] \notin Separators
      BY DEF Words
    <2>2. at > start
      <3> SUFFICES ASSUME at = start PROVE FALSE
        BY <1>4
      <3>1. start # end /\ start # 0 /\ OneLine
        BY <1>1, <1>2, <1>4, <2>1 DEF Lines
      <3>2. File[at] = EndOfLine
        BY <3>1 DEF OneLine
      <3> QED BY <2>1, <3>2, Distinct
    <2>3. s = Lower(File[at])
      BY <1>1, <1>2, <2>1, <2>2 DEF WordHeld
    <2>4. Len(Lower(File[at])) > 0
      BY <1>1, <2>1, FileFacts, LowerType
    <2> QED BY <2>3, <2>4
  <1>8. Typed'
    BY <1>1, <1>2, <1>4 DEF Typed, SameFile, SameLine, Testing
  <1>9. Lines'
    <2>1. CASE Wiki
      BY <1>1, <1>2, <1>3, <1>4, <2>1 DEF Lines, OneLine, SameLine, Reading
    <2>2. CASE ~Wiki
      BY <1>1, <1>2, <1>3, <1>4, <2>2 DEF Lines, SameLine, Reading
    <2> QED BY <2>1, <2>2
  <1>10. WordHeld'
    <2>1. CASE Wiki /\ s # <<>>
      <3>1. pc' = "test" /\ Cur' = at /\ InHand' = s /\ word' = s
        BY <1>2, <1>3, <1>4, <1>6, <2>1 DEF Cur, InHand
      <3>2. /\ Cur' \in start' + 1..end' /\ File'[Cur'] \notin Separators
            /\ File'[at'] \in Separators /\ at' <= end'
            /\ s' = InHand' /\ word' = InHand'
        BY <1>2, <1>3, <1>4, <1>6, <2>1, <3>1 DEF SameLine
      <3>3. Held'
        BY <3>1, <3>2 DEF Held
      <3> QED BY <3>1, <3>3 DEF WordHeld
    <2>2. CASE ~(Wiki /\ s # <<>>)
      <3>1. pc' = "scan" /\ ~Testing'
        BY <1>2, <2>2 DEF Testing
      <3>2. s = <<>>
        BY <1>1, <1>2, <2>2 DEF WordHeld
      <3>3. s' = <<>> /\ File'[at'] \in Separators
        BY <1>2, <1>3, <3>2
      <3> QED BY <3>1, <3>3 DEF WordHeld
    <2> QED BY <2>1, <2>2
  <1>11. \A n \in Counted(File, Type) : n <= Settled <=> n <= Settled'
    <2>1. CASE Wiki /\ s # <<>>
      <3>1. Settled = at - 1 /\ Settled' = at - 1
        BY <1>2, <1>3, <1>4, <1>5, <2>1 DEF Settled, Cur, Testing
      <3> QED BY <3>1
    <2>2. CASE Wiki /\ s = <<>>
      <3>1. Settled = at - 1 /\ Settled' = at
        BY <1>2, <1>3, <1>4, <1>5, <2>2 DEF Settled, Cur, Testing
      <3>2. \A n \in Counted(File, Type) : n \in Nat /\ n # at
        BY <1>4, <1>7, <2>2, CountedWords
      <3> QED BY <1>4, <3>1, <3>2
    <2>3. CASE ~Wiki
      <3>1. Settled = at /\ Settled' = at + 1
        BY <1>2, <1>3, <1>4, <1>5, <2>3 DEF Settled, Cur, Testing
      <3>2. \A n \in Counted(File, Type) : n \in Nat /\ n # at + 1
        BY <1>2, <1>4, CountedWords DEF Words
      <3> QED BY <1>4, <3>1, <3>2
    <2> QED BY <2>1, <2>2, <2>3
  <1>12. Tallied'
    BY <1>1, <1>2, <1>11, TalliedSame DEF SameFile, SameLine
  <1> QED BY <1>8, <1>9, <1>10, <1>12 DEF Scanned

\* What a step of the test and of the stemmer leaves alone.
SameWord ==
    /\ SameFile /\ SameLine /\ at' = at /\ s' = s /\ articles' = articles
    /\ index' = index

\* Such a step, from a word in hand to a word in hand.
LEMMA HeldScans ==
    ASSUME Scanned, Testing, SameWord,
           pc' \in {"step1ab", "step1c", "step2", "step3", "step4", "step5", "count"},
           word' \in Seq(Glyph), InHand \notin StopWords, Stemmed'
    PROVE  Scanned'
  <1>1. Typed /\ Lines /\ WordHeld /\ Tallied /\ Reading
    BY DEF Scanned, Reading
  <1>2. File' = File /\ Type' = Type /\ Wiki' = Wiki
    BY DEF File, Type, Wiki, SameFile, SameWord
  <1>3. /\ Cur' = Cur /\ InHand' = InHand /\ Testing' /\ pc' # "test" /\ pc' # "scan"
        /\ Settled' = Settled
    BY <1>2 DEF SameWord, Cur, InHand, Testing, Settled
  <1>4. Typed'
    BY <1>1 DEF Typed, SameFile, SameLine, SameWord, Testing
  <1>5. Lines'
    <2>1. CASE Wiki
      BY <1>1, <1>2, <2>1 DEF Lines, OneLine, SameLine, SameWord, Reading
    <2>2. CASE ~Wiki
      BY <1>1, <1>2, <2>2 DEF Lines, SameLine, SameWord, Reading
    <2> QED BY <2>1, <2>2
  <1>6. WordHeld'
    <2>1. Held
      BY <1>1 DEF WordHeld
    <2>2. Held'
      BY <1>2, <1>3, <2>1 DEF Held, SameWord, SameLine
    <2> QED BY <1>3, <2>2 DEF WordHeld
  <1>7. Tallied'
    BY <1>1, <1>3, TalliedSame DEF SameFile, SameLine, SameWord
  <1> QED BY <1>4, <1>5, <1>6, <1>7 DEF Scanned

\* The word in hand, and where it stands.
LEMMA InHandFacts ==
    ASSUME Scanned, Testing
    PROVE  /\ Cur \in 1..Len(File) /\ Cur \in Nat /\ InHand \in Seq(Glyph)
           /\ Len(InHand) > 0 /\ Len(InHand) \in Nat
           /\ s \in StopWords <=> InHand \in StopWords
           /\ Held /\ Typed
  <1>1. Typed /\ Lines /\ Held /\ Reading
    BY DEF Scanned, Reading, WordHeld
  <1>2. Cur \in 1..Len(File)
    BY <1>1, FileFacts DEF Held, Lines, Typed
  <1>3. File[Cur] \in Seq(STRING) /\ Len(File[Cur]) > 0 /\ Len(File) \in Nat
    BY <1>1, <1>2, FileFacts
  <1>4. InHand \in Seq(Glyph) /\ Len(InHand) > 0 /\ Len(InHand) \in Nat
    BY <1>3, LowerType DEF InHand
  <1>5. s \in StopWords <=> InHand \in StopWords
    <2>1. CASE s = InHand
      BY <2>1
    <2>2. CASE Len(InHand) > INC /\ s = InHand \o <<"z">>
      <3>1. Len(s) = Len(InHand) + 1
        BY <1>4, <2>2, AreGlyphs
      <3>2. INC \in Nat /\ ~(Len(InHand) <= INC) /\ ~(Len(s) <= INC)
        BY <1>4, <2>2, <3>1 DEF INC
      <3> QED BY <3>2, StopWordsAssumption
    <2> QED BY <1>1, <2>1, <2>2 DEF Held
  <1> QED BY <1>1, <1>2, <1>3, <1>4, <1>5

\* A word in hand is done with: a stop word, or one that was counted.
LEMMA WordDone ==
    ASSUME Scanned, Testing, SameFile, SameLine, at' = at, word' = word, index' = index,
           pc' = "scan", s' = <<>>, articles' \in Seq(Tables),
           Len(articles') = Len(articles),
           AllTables(File, Type, Firsts', Seconds', articles')
    PROVE  Scanned'
  <1>1. Typed /\ Lines /\ Held /\ Reading
    BY DEF Scanned, Reading, WordHeld
  <1>2. File' = File /\ Type' = Type /\ Wiki' = Wiki
    BY DEF File, Type, Wiki, SameFile
  <1>3. Typed'
    <2>1. s' \in Seq(Glyph)
      OBVIOUS
    <2> QED BY <1>1, <2>1 DEF Typed, SameFile, SameLine
  <1>4. Lines'
    <2>1. CASE Wiki
      BY <1>1, <1>2, <2>1 DEF Lines, OneLine, SameLine, Reading
    <2>2. CASE ~Wiki
      BY <1>1, <1>2, <2>2 DEF Lines, SameLine, Reading
    <2> QED BY <2>1, <2>2
  <1>5. WordHeld'
    <2>1. Wiki' => File'[at'] \in Separators
      BY <1>1, <1>2 DEF Held
    <2>2. ~Testing'
      BY DEF Testing
    <2> QED BY <2>1, <2>2 DEF WordHeld
  <1>6. Tallied'
    BY <1>2 DEF Tallied
  <1> QED BY <1>3, <1>4, <1>5, <1>6 DEF Scanned

LEMMA TestStopWordScans ==
    ASSUME Scanned, TestStopWord
    PROVE  Scanned'
  <1>1. /\ SameFile /\ SameLine /\ articles' = articles /\ index' = index
        /\ at' = at /\ word' = word /\ pc = "test" /\ Testing
    BY DEF TestStopWord, SameFile, SameLine, inputVars, fileVars, Testing
  <1>2. /\ Cur \in 1..Len(File) /\ Cur \in Nat /\ InHand \in Seq(Glyph)
        /\ Len(InHand) > 0 /\ Len(InHand) \in Nat
        /\ s \in StopWords <=> InHand \in StopWords
        /\ Held /\ Typed
    BY <1>1, InHandFacts
  <1>3. word = InHand
    BY <1>1, <1>2 DEF Held
  <1>4. CASE s \in StopWords
    <2>1. pc' = "scan" /\ s' = <<>>
      BY <1>4 DEF TestStopWord
    <2>2. File' = File /\ Type' = Type /\ Wiki' = Wiki
      BY <1>1 DEF File, Type, Wiki, SameFile
    <2>3. Settled = Cur - 1 /\ Settled' = Cur
      BY <1>1, <2>1, <2>2 DEF Settled, Cur, Testing
    <2>4. \A n \in Counted(File, Type) : n \in Nat /\ n # Cur
      <3>1. Cur \notin Counted(File, Type)
        BY <1>2, <1>4 DEF Counted, InHand
      <3>2. Len(File) \in Nat
        BY <1>2, FileFacts
      <3> QED BY <3>1, <3>2, CountedWords
    <2>5. \A n \in Counted(File, Type) : n <= Settled <=> n <= Settled'
      BY <1>2, <2>3, <2>4
    <2>6. Firsts' = Firsts /\ Seconds' = Seconds
      BY <1>1, <2>5, SameSettled DEF SameFile, SameLine
    <2>7. AllTables(File, Type, Firsts', Seconds', articles')
      BY <1>1, <2>6 DEF Scanned, Tallied, Reading
    <2>8. articles' \in Seq(Tables) /\ Len(articles') = Len(articles)
      BY <1>1, <1>2 DEF Typed
    <2> QED BY <1>1, <2>1, <2>7, <2>8, WordDone
  <1>5. CASE s \notin StopWords
    <2>1. s' = s /\ pc' = (IF Len(word) <= 2 THEN "count" ELSE "step1ab")
      BY <1>5 DEF TestStopWord
    <2>2. InHand' = InHand
      BY <1>1 DEF InHand, Cur, File, Type, Wiki, SameFile
    <2>3. Stemmed'
      <3>1. CASE Len(word) <= 2
        <4>1. Stem(InHand) = InHand
          BY <1>3, <3>1 DEF Stem
        <4>2. pc' = "count" /\ word' = InHand'
          BY <1>1, <1>3, <2>1, <2>2, <3>1
        <4>3. Len(word') \in 1..Len(InHand')
          BY <1>2, <2>2, <4>2
        <4> QED BY <2>2, <4>1, <4>2, <4>3 DEF Stemmed
      <3>2. CASE ~(Len(word) <= 2)
        <4>1. pc' = "step1ab" /\ word' = InHand'
          BY <1>1, <1>3, <2>1, <2>2, <3>2
        <4>2. Len(word') \in 1..Len(InHand') /\ Len(word') > 2
          BY <1>2, <1>3, <2>2, <3>2, <4>1
        <4> QED BY <4>1, <4>2 DEF Stemmed
      <3> QED BY <3>1, <3>2
    <2>4. /\ word' \in Seq(Glyph) /\ InHand \notin StopWords /\ SameWord
          /\ pc' \in {"step1ab", "step1c", "step2", "step3", "step4", "step5", "count"}
      BY <1>1, <1>2, <1>3, <1>5, <2>1 DEF SameWord
    <2> QED BY <1>1, <2>3, <2>4, HeldScans
  <1> QED BY <1>4, <1>5

LEMMA StemmingScans ==
    ASSUME Scanned, Stemming
    PROVE  Scanned'
  <1>1. /\ Testing /\ pc # "test" /\ pc # "count" /\ SameWord
        /\ pc' \in {"step1ab", "step1c", "step2", "step3", "step4", "step5", "count"}
    BY DEF Stemming, StemStep, SameWord, SameFile, SameLine, inputVars, fileVars, Testing
  <1>2. /\ InHand \in Seq(Glyph) /\ Len(InHand) \in Nat
        /\ InHand \notin StopWords /\ Stemmed /\ Typed
    BY <1>1, InHandFacts DEF Held
  <1>3. InHand' = InHand
    BY <1>1 DEF InHand, Cur, File, Type, Wiki, SameFile, SameWord
  <1>4. word \in Seq(Glyph) /\ Len(word) \in 1..Len(InHand)
    BY <1>2 DEF Typed, Stemmed
  <1>5. word' \in Seq(Glyph) /\ Stemmed'
    <2>1. CASE pc = "step1ab"
      <3> DEFINE w == Step1ab(word)
      <3>1. word' = w /\ pc' = IF Len(w) > 1 THEN "step1c" ELSE "count"
        BY <2>1 DEF Stemming, StemStep
      <3>2. word = InHand /\ Len(word) > 2
        BY <1>2, <2>1 DEF Stemmed
      <3>3. w \in Seq(Glyph) /\ Len(w) \in 1..Len(word)
        BY <1>4, <3>2, Step1abLength
      <3>4. Stem(InHand) = IF Len(w) > 1 THEN Step5(Step4(Step3(Step2(Step1c(w))))) ELSE w
        BY <1>4, <3>2 DEF Stem
      <3>5. Len(w) \in 1..Len(InHand)
        BY <1>4, <3>3
      <3> HIDE DEF w
      <3>6. CASE Len(w) > 1
        BY <1>3, <3>1, <3>3, <3>4, <3>5, <3>6 DEF Stemmed
      <3>7. CASE ~(Len(w) > 1)
        BY <1>3, <3>1, <3>3, <3>4, <3>5, <3>7 DEF Stemmed
      <3> QED BY <3>6, <3>7
    <2>2. CASE pc = "step1c"
      <3>1. word' = Step1c(word) /\ pc' = "step2"
        BY <2>2 DEF Stemming, StemStep
      <3>2. /\ Len(word) > 1
            /\ Stem(InHand) = Step5(Step4(Step3(Step2(Step1c(word)))))
        BY <1>2, <2>2 DEF Stemmed
      <3>3. Step1c(word) \in Seq(Glyph) /\ Len(Step1c(word)) = Len(word)
        BY <1>4, <3>2, Step1cLength
      <3> QED BY <1>3, <1>4, <3>1, <3>2, <3>3 DEF Stemmed
    <2>3. CASE pc = "step2"
      <3>1. word' = Step2(word) /\ pc' = "step3"
        BY <2>3 DEF Stemming, StemStep
      <3>2. Len(word) > 1 /\ Stem(InHand) = Step5(Step4(Step3(Step2(word))))
        BY <1>2, <2>3 DEF Stemmed
      <3>3. Step2(word) \in Seq(Glyph) /\ Len(Step2(word)) \in 2..Len(word)
        BY <1>4, <3>2, Step2Length
      <3> QED BY <1>2, <1>3, <1>4, <3>1, <3>2, <3>3 DEF Stemmed
    <2>4. CASE pc = "step3"
      <3>1. word' = Step3(word) /\ pc' = "step4"
        BY <2>4 DEF Stemming, StemStep
      <3>2. Len(word) > 1 /\ Stem(InHand) = Step5(Step4(Step3(word)))
        BY <1>2, <2>4 DEF Stemmed
      <3>3. Step3(word) \in Seq(Glyph) /\ Len(Step3(word)) \in 2..Len(word)
        BY <1>4, <3>2, Step3Length
      <3> QED BY <1>2, <1>3, <1>4, <3>1, <3>2, <3>3 DEF Stemmed
    <2>5. CASE pc = "step4"
      <3>1. word' = Step4(word) /\ pc' = "step5"
        BY <2>5 DEF Stemming, StemStep
      <3>2. Len(word) > 1 /\ Stem(InHand) = Step5(Step4(word))
        BY <1>2, <2>5 DEF Stemmed
      <3>3. Step4(word) \in Seq(Glyph) /\ Len(Step4(word)) \in 2..Len(word)
        BY <1>4, <3>2, Step4Length
      <3> QED BY <1>2, <1>3, <1>4, <3>1, <3>2, <3>3 DEF Stemmed
    <2>6. CASE pc = "step5"
      <3>1. word' = Step5(word) /\ pc' = "count"
        BY <2>6 DEF Stemming, StemStep
      <3>2. Len(word) > 1 /\ Stem(InHand) = Step5(word)
        BY <1>2, <2>6 DEF Stemmed
      <3>3. Step5(word) \in Seq(Glyph) /\ Len(Step5(word)) \in 1..Len(word)
        BY <1>4, <3>2, Step5Length
      <3> QED BY <1>2, <1>3, <1>4, <3>1, <3>2, <3>3 DEF Stemmed
    <2> QED BY <1>1, <2>1, <2>2, <2>3, <2>4, <2>5, <2>6 DEF Testing
  <1> QED BY <1>1, <1>2, <1>5, HeldScans

\* The position in hand is one that is to be counted, and in the article under way.
LEMMA HandCounted ==
    ASSUME Scanned, Testing, InHand \notin StopWords
    PROVE  /\ Cur \in Counted(File, Type)
           /\ isFinished => Cur \in CountedTwice(File, Type)
           /\ ArticleOf(File, Type, Cur) = Len(articles)
           /\ Len(articles) > 0
  <1>1. Typed /\ Lines /\ Held /\ Reading
    BY DEF Scanned, Reading, WordHeld
  <1>2. Cur \in 1..Len(File) /\ Len(File) \in Nat
    BY <1>1, InHandFacts, FileFacts
  <1>3. Cur \in start + 1..end /\ File[Cur] \notin Separators
    BY <1>1 DEF Held
  <1>4. /\ start \in Nat /\ end \in Nat /\ at \in Nat /\ isFinished \in BOOLEAN
        /\ end <= Len(File)
    BY <1>1 DEF Typed, Lines
  <1>5. ArticleOf(File, Type, Cur) = Len(articles)
    BY <1>1, <1>3, WordsArticle
  <1>6. Type = "wiki" => /\ Cur + 1 = at /\ at <= end
                         /\ \A m \in start + 1..end : File[m] # EndOfLine
    BY <1>1, <1>4 DEF Wiki, Held, Cur, Lines, OneLine
  <1>7. Type = "wiki" => Cur < Len(File) /\ File[Cur + 1] # EndOfLine
    BY <1>2, <1>3, <1>4, <1>6
  <1>8. Cur \in Counted(File, Type)
    BY <1>2, <1>3, <1>7 DEF Counted, Words, InHand
  <1>9. ASSUME isFinished PROVE Cur \in CountedTwice(File, Type)
    <2>1. Type = "wiki" /\ OneLine
      BY <1>1, <1>9 DEF Lines, Wiki
    <2>2. eof /\ end = Len(File)
      <3>1. start # end
        BY <1>3, <1>4
      <3> QED BY <1>9, <2>1, <3>1 DEF OneLine
    <2>3. \A m \in Cur..Len(File) : File[m] # EndOfLine
      BY <1>3, <1>4, <1>6, <2>1, <2>2
    <2> QED BY <1>8, <2>1, <2>3 DEF CountedTwice
  <1>10. Len(articles) > 0
    <2>1. CASE ~Wiki
      BY <1>1, <2>1 DEF Lines
    <2>2. CASE Wiki
      <3>1. ArticleOf(File, Type, Cur) >= 1
        BY <1>2, <2>2, ArticleType DEF Wiki
      <3> QED BY <1>5, <3>1
    <2> QED BY <2>1, <2>2
  <1> QED BY <1>5, <1>8, <1>9, <1>10

LEMMA OneMoreType ==
    ASSUME NEW f \in Tables, NEW w \in Seq(Glyph)
    PROVE  OneMore(f, w) \in Tables
  <1>1. PICK T \in SUBSET Seq(Glyph) : f \in [T -> Nat]
    BY DEF Tables
  <1>2. OneMore(f, w) \in [T \cup {w} -> Nat]
    BY <1>1 DEF OneMore
  <1> QED BY <1>1, <1>2 DEF Tables

LEMMA CountScans ==
    ASSUME Scanned, Count
    PROVE  Scanned'
  <1>1. /\ SameFile /\ SameLine /\ at' = at /\ word' = word /\ index' = index
        /\ pc = "count" /\ pc' = "scan" /\ s' = <<>> /\ Testing
        /\ articles' = [articles EXCEPT ![Len(articles)] = OneMore(@, word)]
    BY DEF Count, SameFile, SameLine, inputVars, fileVars, Testing
  <1>2. /\ Cur \in Nat /\ InHand \notin StopWords /\ Typed
        /\ word = StemAt(File, Cur)
    BY <1>1, InHandFacts DEF Held, Stemmed, StemAt, InHand
  <1>3. /\ Cur \in Counted(File, Type)
        /\ isFinished => Cur \in CountedTwice(File, Type)
        /\ ArticleOf(File, Type, Cur) = Len(articles)
        /\ Len(articles) > 0
    BY <1>1, <1>2, HandCounted
  <1>4. File' = File /\ Type' = Type /\ Wiki' = Wiki
    BY <1>1 DEF File, Type, Wiki, SameFile
  <1>5. Settled = Cur - 1 /\ Settled' = Cur
    BY <1>1, <1>4 DEF Settled, Cur, Testing
  <1>6. \A n \in Counted(File, Type) : n \in Nat
    <2>1. Len(File) \in Nat
      BY <1>2, FileFacts
    <2> QED BY <2>1, CountedWords
  <1>7. /\ Firsts' = {n \in Counted(File, Type) : isFinished \/ n <= Cur}
        /\ Seconds' = {n \in CountedTwice(File, Type) : isFinished /\ n <= Cur}
    BY <1>1, <1>4, <1>5 DEF Firsts, Seconds, SameLine, Counted, CountedTwice, Words
  <1>8. /\ Firsts = {n \in Counted(File, Type) : isFinished \/ n <= Cur - 1}
        /\ Seconds = {n \in CountedTwice(File, Type) : isFinished /\ n <= Cur - 1}
    BY <1>5 DEF Firsts, Seconds
  <1>9. \/ Cur \notin Firsts /\ Firsts' = Firsts \cup {Cur} /\ Seconds' = Seconds
        \/ Cur \notin Seconds /\ Seconds' = Seconds \cup {Cur} /\ Firsts' = Firsts
    <2>1. CASE isFinished
      <3>1. Firsts' = Firsts
        BY <1>7, <1>8, <2>1
      <3>2. \A n \in CountedTwice(File, Type) : n \in Nat
        BY <1>6, CountedWords
      <3>3. Cur \notin Seconds /\ Seconds' = Seconds \cup {Cur}
        BY <1>2, <1>3, <1>7, <1>8, <2>1, <3>2
      <3> QED BY <3>1, <3>3
    <2>2. CASE ~isFinished
      <3>1. Seconds' = Seconds
        BY <1>7, <1>8, <2>2
      <3>2. /\ Firsts = {n \in Counted(File, Type) : n <= Cur - 1}
            /\ Firsts' = {n \in Counted(File, Type) : n <= Cur}
        BY <1>7, <1>8, <2>2
      <3>3. Cur \notin Firsts
        BY <1>2, <3>2
      <3>4. \A n \in Counted(File, Type) : n <= Cur <=> n <= Cur - 1 \/ n = Cur
        BY <1>2, <1>6
      <3>5. Firsts' = Firsts \cup {Cur}
        BY <1>3, <3>2, <3>4
      <3> QED BY <3>1, <3>3, <3>5
    <2> QED BY <2>1, <2>2
  <1>10. articles \in Seq(Tables) /\ word \in Seq(Glyph)
    BY <1>2 DEF Typed
  <1>11. articles' \in Seq(Tables) /\ Len(articles') = Len(articles)
    <2>1. OneMore(articles[Len(articles)], word) \in Tables
      BY <1>3, <1>10, OneMoreType
    <2>2. Len(articles) \in 1..Len(articles)
      BY <1>3, <1>10
    <2> QED BY <1>1, <1>10, <2>1, <2>2, ExceptSeq
  <1>12. AllTables(File, Type, Firsts, Seconds, articles)
    BY <1>1 DEF Scanned, Tallied, Reading
  <1>13. IsFiniteSet(Firsts) /\ IsFiniteSet(Seconds)
    BY <1>2, SettledSets
  <1>14. AllTables(File, Type, Firsts', Seconds',
           [articles EXCEPT ![Len(articles)] = OneMore(@, StemAt(File, Cur))])
    BY <1>3, <1>9, <1>10, <1>12, <1>13, TablesCount
  <1>15. AllTables(File, Type, Firsts', Seconds', articles')
    BY <1>1, <1>2, <1>14
  <1> QED BY <1>1, <1>11, <1>15, WordDone
-----------------------------------------------------------------------------
(* Lines *)

\* Between two lines: where the file was counted to.
LEMMA AtLineEnd ==
    ASSUME Scanned, pc = "scan", Wiki, at = end, ~isFinished
    PROVE  /\ Typed /\ Lines /\ Tallied /\ Reading /\ OneLine /\ Type = "wiki"
           /\ Settled = end - 1 /\ Len(articles) = ArticleOf(File, "wiki", end)
           /\ start \in Nat /\ end \in Nat /\ taken \in Nat /\ Len(File) \in Nat
           /\ start <= end /\ end <= Len(File) /\ taken <= Len(File)
           /\ Firsts = {n \in Counted(File, "wiki") : n <= end - 1}
           /\ Seconds = {}
           /\ \A n \in Counted(File, "wiki") :
                /\ n \in Nat /\ n >= 1 /\ n < Len(File)
                /\ File[n + 1] # EndOfLine /\ File[n] \notin Separators
  <1>1. Typed /\ Lines /\ Tallied /\ Reading /\ OneLine /\ Type = "wiki"
    BY DEF Scanned, Reading, Lines, Wiki
  <1>2. /\ start \in Nat /\ end \in Nat /\ taken \in Nat /\ Len(File) \in Nat
        /\ start <= end /\ end <= Len(File) /\ taken <= Len(File)
    BY <1>1, FileFacts DEF Typed, Lines
  <1>3. Settled = end - 1
    BY DEF Settled, Testing, Cur
  <1>4. Len(articles) = ArticleOf(File, "wiki", end)
    <2>1. ArticleOf(File, "wiki", end) \in Nat
      BY <1>2, ArticleType
    <2> QED BY <1>1, <2>1 DEF OneLine
  <1>5. Firsts = {n \in Counted(File, "wiki") : n <= end - 1} /\ Seconds = {}
    BY <1>1, <1>3 DEF Firsts, Seconds
  <1>6. \A n \in Counted(File, "wiki") :
          /\ n \in Nat /\ n >= 1 /\ n < Len(File)
          /\ File[n + 1] # EndOfLine /\ File[n] \notin Separators
    BY <1>2 DEF Counted, Words
  <1> QED BY <1>1, <1>2, <1>3, <1>4, <1>5, <1>6

\* The line that was taken does not change what has been counted.
LEMMA LineTaken ==
    ASSUME Scanned, pc = "scan", pc' = "scan", Wiki, at = end, ~isFinished, SameFile,
           word' = word, index' = index, taken' \in Nat, eof' \in BOOLEAN,
           isFinished' \in BOOLEAN, NEW b \in Nat, NEW e \in Nat, TakeLine(b, e),
           Lines', Firsts' = Firsts, Seconds' = Seconds
    PROVE  Scanned'
  <1> DEFINE first == IF b < e THEN File[b + 1] ELSE <<>>
  <1>1. /\ start' = b /\ end' = e /\ s' = <<>>
        /\ articles' = (IF first = DocEnd THEN Append(articles, NoWords) ELSE articles)
        /\ at' = IF first \in Marks THEN e ELSE b
    BY DEF TakeLine
  <1> HIDE DEF first
  <1>2. /\ Typed /\ Tallied /\ Reading /\ Type = "wiki" /\ end \in Nat
        /\ Len(articles) = ArticleOf(File, "wiki", end)
        /\ Firsts = {n \in Counted(File, "wiki") : n <= end - 1} /\ Seconds = {}
        /\ \A n \in Counted(File, "wiki") : n \in Nat
    BY AtLineEnd
  <1>3. File' = File /\ Type' = Type /\ Wiki'
    BY DEF File, Type, Wiki, SameFile
  <1>4. Typed'
    <2>1. s' \in Seq(Glyph) /\ at' \in Nat
      BY <1>1
    <2>2. articles' \in Seq(Tables)
      <3>1. articles \in Seq(Tables)
        BY <1>2 DEF Typed
      <3>2. Append(articles, NoWords) \in Seq(Tables)
        BY <3>1, NoWordsType
      <3> QED BY <1>1, <3>1, <3>2
    <2> QED BY <1>1, <1>2, <2>1, <2>2 DEF Typed, SameFile
  <1>5. WordHeld'
    <2>1. ~Testing'
      BY DEF Testing
    <2>2. ~(at' > start' /\ File'[at'] \notin Separators)
      <3> SUFFICES ASSUME at' > start' PROVE File'[at'] \in Separators
        OBVIOUS
      <3>1. first \in Marks /\ at' = e
        BY <1>1
      <3>2. first = File[b + 1] /\ b < e
        BY <3>1, Distinct DEF first, Marks, DocBegin, DocEnd
      <3>3. OneLine'
        BY <1>3 DEF Lines, Reading
      <3>4. e = b + 1
        BY <1>1, <1>3, <3>1, <3>2, <3>3 DEF OneLine
      <3> QED BY <1>3, <3>1, <3>2, <3>4, Distinct
    <2> QED BY <1>1, <2>1, <2>2 DEF WordHeld
  <1>6. Tallied'
    <2>1. AllTables(File, Type, Firsts, Seconds, articles) /\ articles \in Seq(Tables)
      BY <1>2 DEF Tallied, Typed
    <2>2. \A n \in Firsts \cup Seconds : ArticleOf(File, Type, n) # Len(articles) + 1
      <3> SUFFICES ASSUME NEW n \in Firsts
                   PROVE  ArticleOf(File, Type, n) # Len(articles) + 1
        BY <1>2
      <3>1. n \in Nat /\ n <= end
        BY <1>2
      <3>2. /\ ArticleOf(File, "wiki", n) <= ArticleOf(File, "wiki", end)
            /\ ArticleOf(File, "wiki", n) \in Nat /\ ArticleOf(File, "wiki", end) \in Nat
        BY <1>2, <3>1, ArticleGrows, ArticleType
      <3> QED BY <1>2, <3>2
    <2>3. AllTables(File, Type, Firsts, Seconds, Append(articles, NoWords))
      BY <2>1, <2>2, TablesAppend
    <2>4. AllTables(File, Type, Firsts, Seconds, articles')
      BY <1>1, <2>1, <2>3
    <2> QED BY <1>3, <2>4 DEF Tallied
  <1> QED BY <1>4, <1>5, <1>6 DEF Scanned

LEMMA GetLineScans ==
    ASSUME Scanned, GetLine
    PROVE  Scanned'
  <1>1. /\ SameFile /\ pc = "scan" /\ pc' = "scan" /\ Wiki /\ at = end
        /\ taken < Len(File) /\ isFinished' = isFinished
        /\ word' = word /\ index' = index
    BY DEF GetLine, SameFile, inputVars
  <1>2. Typed /\ OneLine
    BY <1>1 DEF Scanned, Lines, Reading
  <1>3. ~isFinished /\ ~eof
    BY <1>1, <1>2 DEF OneLine, Typed
  <1>4. /\ Type = "wiki" /\ Len(articles) = ArticleOf(File, "wiki", end)
        /\ start \in Nat /\ end \in Nat /\ taken \in Nat /\ Len(File) \in Nat
        /\ Firsts = {n \in Counted(File, "wiki") : n <= end - 1} /\ Seconds = {}
        /\ \A n \in Counted(File, "wiki") :
             /\ n \in Nat /\ n >= 1 /\ n < Len(File)
             /\ File[n + 1] # EndOfLine /\ File[n] \notin Separators
    BY <1>1, <1>3, AtLineEnd
  \* The line before ended where this one begins.
  <1>5. (end = 0 /\ taken = 0) \/ (taken = end + 1 /\ File[taken] = EndOfLine)
    BY <1>2, <1>3 DEF OneLine
  <1>6. PICK e \in taken..Len(File) :
          /\ TakeLine(taken, e)
          /\ \A n \in taken + 1..e : File[n] # EndOfLine
          /\ \/ eof' = TRUE /\ taken < e /\ e = Len(File) /\ taken' = Len(File)
             \/ /\ eof' = FALSE /\ taken' = e + 1 /\ e + 1 <= Len(File)
                /\ File[e + 1] = EndOfLine
    <2> DEFINE ends == {n \in taken + 1..Len(File) : File[n] = EndOfLine}
    <2>1. CASE ends = {}
      <3>1. TakeLine(taken, Len(File)) /\ taken' = Len(File) /\ eof' = TRUE
        BY <2>1 DEF GetLine
      <3>2. \A n \in taken + 1..Len(File) : File[n] # EndOfLine
        BY <2>1
      <3>3. Len(File) \in taken..Len(File)
        BY <1>1, <1>4
      <3> QED BY <1>1, <3>1, <3>2, <3>3
    <2>2. CASE ends # {}
      <3>1. PICK n \in ends :
              /\ \A m \in ends : n <= m
              /\ TakeLine(taken, n - 1) /\ taken' = n /\ eof' = FALSE
        BY <2>2 DEF GetLine
      <3>2. /\ n - 1 \in taken..Len(File) /\ n = (n - 1) + 1 /\ n <= Len(File)
            /\ File[n] = EndOfLine
        BY <1>4
      <3>3. \A m \in taken + 1..n - 1 : File[m] # EndOfLine
        <4> SUFFICES ASSUME NEW m \in taken + 1..n - 1, File[m] = EndOfLine PROVE FALSE
          OBVIOUS
        <4>1. m \in ends
          BY <1>4, <3>2
        <4> QED BY <1>4, <3>1, <3>2, <4>1
      <3> QED BY <3>1, <3>2, <3>3
    <2> QED BY <2>1, <2>2
  <1>7. File' = File /\ Type' = Type /\ Wiki'
    BY <1>1 DEF File, Type, Wiki, SameFile
  <1> DEFINE first == IF taken < e THEN File[taken + 1] ELSE <<>>
  <1>8. /\ start' = taken /\ end' = e /\ e \in Nat /\ e <= Len(File) /\ taken <= e
        /\ articles' = (IF first = DocEnd THEN Append(articles, NoWords) ELSE articles)
        /\ at' = IF first \in Marks THEN e ELSE taken
    BY <1>4, <1>6 DEF TakeLine
  <1> HIDE DEF first
  \* A mark is all of its line.
  <1>9. ASSUME NEW m \in taken + 1..e, File[m] \in Marks
        PROVE  m = taken + 1 /\ e = taken + 1
    <2>1. m = taken + 1
      <3> SUFFICES ASSUME m # taken + 1 PROVE FALSE
        OBVIOUS
      <3>1. /\ m - 1 \in taken + 1..e /\ m - 1 \in 1..Len(File) - 1 /\ (m - 1) + 1 = m
        BY <1>4, <1>8
      <3>2. MayTouch(File[m - 1], File[m])
        BY <1>2, <3>1, FileFacts
      <3> QED BY <1>6, <3>1, <3>2, <1>9 DEF MayTouch
    <2>2. e = taken + 1
      <3> SUFFICES ASSUME e # taken + 1 PROVE FALSE
        OBVIOUS
      <3>1. m \in 1..Len(File) - 1 /\ m + 1 \in taken + 1..e
        BY <1>4, <1>8, <2>1
      <3>2. MayTouch(File[m], File[m + 1])
        BY <1>2, <3>1, FileFacts
      <3> QED BY <1>6, <1>9, <3>1, <3>2 DEF MayTouch
    <2> QED BY <2>1, <2>2
  <1>10. first \in Marks => at' = e /\ e = taken + 1 /\ first = File[e]
    <2> SUFFICES ASSUME first \in Marks PROVE e = taken + 1 /\ first = File[e]
      BY <1>8
    <2>1. taken < e /\ first = File[taken + 1]
      BY Distinct DEF first, Marks, DocBegin, DocEnd
    <2>2. taken + 1 \in taken + 1..e
      BY <1>4, <1>8, <2>1
    <2> QED BY <1>9, <2>1, <2>2
  <1>11. Len(articles') = ArticleOf(File, "wiki", e)
    <2>1. ArticleOf(File, "wiki", taken) = Len(articles)
      <3>1. \A k \in end + 1..taken : File[k] # DocEnd
        BY <1>4, <1>5, Distinct
      <3> QED BY <1>4, <1>5, <3>1, ArticleSame
    <2>2. CASE first = DocEnd
      <3>1. e = taken + 1 /\ File[taken + 1] = DocEnd
        BY <1>10, <2>2, Distinct
      <3>2. ArticleOf(File, "wiki", e) = Len(articles) + 1
        BY <1>4, <2>1, <3>1, ArticleNext
      <3> QED BY <1>2, <1>8, <2>2, <3>2 DEF Typed
    <2>3. CASE first # DocEnd
      <3>1. \A k \in taken + 1..e : File[k] # DocEnd
        <4> SUFFICES ASSUME NEW k \in taken + 1..e, File[k] = DocEnd PROVE FALSE
          OBVIOUS
        <4>1. k = taken + 1 /\ taken < e
          BY <1>4, <1>8, <1>9, Distinct
        <4> QED BY <2>3, <4>1 DEF first
      <3> QED BY <1>4, <1>8, <2>1, <2>3, <3>1, ArticleSame
    <2> QED BY <2>2, <2>3
  <1>12. OneLine'
    <2>1. start' = end' \/ start' = 0 \/ File'[start'] = EndOfLine
      BY <1>5, <1>7, <1>8
    <2>2. eof' => start' < end' /\ end' = Len(File') /\ taken' = Len(File')
      BY <1>6, <1>7, <1>8
    <2>3. ~eof' => taken' = end' + 1 /\ File'[taken'] = EndOfLine
      BY <1>6, <1>7, <1>8
    <2>4. start' < end' /\ File'[start' + 1] \in Marks => at' = end' /\ end' = start' + 1
      <3>1. taken < e => first = File[taken + 1]
        BY DEF first
      <3> QED BY <1>7, <1>8, <1>10, <3>1
    <2>5. \A n \in start' + 1..end' : File'[n] # EndOfLine
      BY <1>6, <1>7, <1>8
    <2>6. Len(articles') = ArticleOf(File', Type', end') + 0
      <3>1. ArticleOf(File, "wiki", e) \in Nat
        BY <1>8, ArticleType
      <3> QED BY <1>4, <1>7, <1>8, <1>11, <3>1
    <2> QED BY <1>1, <1>3, <2>1, <2>2, <2>3, <2>4, <2>5, <2>6 DEF OneLine
  <1>13. Lines'
    <2>1. taken' <= Len(File)
      BY <1>4, <1>6
    <2>2. start' <= at' /\ at' <= end'
      BY <1>4, <1>8
    <2> QED BY <1>7, <1>8, <1>12, <2>1, <2>2 DEF Lines
  <1>14. Firsts' = Firsts /\ Seconds' = Seconds
    <2>1. Settled = end - 1 /\ Settled' = at' - 1
      BY <1>1, <1>7 DEF Settled, Cur, Testing
    <2>2. ASSUME NEW n \in Counted(File, Type)
          PROVE  n <= end - 1 <=> n <= at' - 1
      <3>1. n \in Nat /\ n >= 1 /\ File[n + 1] # EndOfLine /\ File[n] \notin Separators
        BY <1>4
      <3>2. n # taken /\ n # end
        BY <1>4, <1>5, <3>1, Distinct
      <3>3. n <= end - 1 <=> n <= taken - 1
        BY <1>4, <1>5, <3>1, <3>2
      <3>4. at' = taken \/ at' = taken + 1
        BY <1>8, <1>10
      <3> QED BY <1>4, <3>1, <3>2, <3>3, <3>4
    <2> QED BY <1>1, <2>1, <2>2, SameSettled DEF SameFile
  <1> QED
    <2>1. taken' \in Nat
      BY <1>4, <1>6, <1>8
    <2>2. eof' \in BOOLEAN
      BY <1>6
    <2>3. isFinished' \in BOOLEAN
      BY <1>1, <1>2 DEF Typed
    <2> QED BY <1>1, <1>3, <1>4, <1>6, <1>8, <1>13, <1>14, <2>1, <2>2, <2>3, LineTaken

LEMMA GetLineFailsScans ==
    ASSUME Scanned, GetLineFails
    PROVE  Scanned'
  <1> DEFINE b == IF eof THEN start ELSE end
  <1>1. /\ SameFile /\ pc = "scan" /\ pc' = "scan" /\ Wiki /\ at = end
        /\ taken = Len(File) /\ ~isFinished /\ isFinished' = TRUE
        /\ taken' = taken /\ eof' = eof /\ word' = word /\ index' = index
        /\ TakeLine(b, end)
    BY DEF GetLineFails, SameFile, inputVars
  <1>2. Typed /\ Lines /\ Reading /\ OneLine
    BY <1>1, AtLineEnd
  <1>3. /\ Type = "wiki" /\ Len(articles) = ArticleOf(File, "wiki", end)
        /\ start \in Nat /\ end \in Nat /\ taken \in Nat /\ Len(File) \in Nat
        /\ start <= end /\ end <= Len(File)
        /\ Firsts = {n \in Counted(File, "wiki") : n <= end - 1} /\ Seconds = {}
        /\ \A n \in Counted(File, "wiki") :
             /\ n \in Nat /\ n >= 1 /\ n < Len(File)
             /\ File[n + 1] # EndOfLine /\ File[n] \notin Separators
    BY <1>1, AtLineEnd
  <1>4. File' = File /\ Type' = Type /\ Wiki'
    BY <1>1 DEF File, Type, Wiki, SameFile
  <1>5. eof \in BOOLEAN /\ (eof => b = start) /\ (~eof => b = end)
    BY <1>2 DEF Typed
  <1>6. b \in Nat /\ b <= end /\ start <= b
    BY <1>3, <1>5
  <1>7. /\ \A n \in start + 1..end : File[n] # EndOfLine
        /\ b = end \/ b = 0 \/ File[b] = EndOfLine
        /\ eof => b < end /\ end = Len(File)
        /\ ~eof => \/ end = 0 /\ taken = 0
                   \/ taken = end + 1 /\ File[taken] = EndOfLine
        /\ start < end /\ File[start + 1] \in Marks => end = start + 1
    BY <1>2, <1>3, <1>5 DEF OneLine
  <1> DEFINE first == IF b < end THEN File[b + 1] ELSE <<>>
  <1>8. /\ start' = b /\ end' = end
        /\ articles' = (IF first = DocEnd THEN Append(articles, NoWords) ELSE articles)
        /\ at' = IF first \in Marks THEN end ELSE b
    BY <1>1 DEF TakeLine
  <1> HIDE DEF b
  <1>9. b < end => eof /\ b = start /\ first = File[start + 1]
    BY <1>3, <1>5, <1>6
  <1>10. ~(b < end) => first = <<>>
    OBVIOUS
  <1> HIDE DEF first
  <1>11. first \in Marks => b < end /\ at' = end /\ end = start + 1 /\ b = start
    BY <1>3, <1>7, <1>8, <1>9, <1>10, Distinct DEF Marks, DocBegin, DocEnd
  <1>12. first = DocEnd <=> b < end /\ File[end] = DocEnd
    <2>1. ASSUME first = DocEnd PROVE b < end /\ File[end] = DocEnd
      BY <1>9, <1>11, <2>1, Distinct
    <2>2. ASSUME b < end, File[end] = DocEnd PROVE first = DocEnd
      <3>1. end \in start + 1..end /\ File[end] \in Marks
        BY <1>3, <1>6, <2>2, Distinct
      <3>2. end = start + 1
        BY <1>1, <1>2, <3>1, MarksAlone
      <3> QED BY <1>9, <2>2, <3>2
    <2> QED BY <2>1, <2>2
  <1>13. OneLine'
    <2>1. \A n \in start' + 1..end' : File'[n] # EndOfLine
      BY <1>3, <1>4, <1>6, <1>7, <1>8
    <2>2. start' = end' \/ start' = 0 \/ File'[start'] = EndOfLine
      BY <1>4, <1>7, <1>8
    <2>3. /\ eof' => start' < end' /\ end' = Len(File') /\ taken' = Len(File')
          /\ ~eof' => \/ end' = 0 /\ taken' = 0
                      \/ taken' = end' + 1 /\ File'[taken'] = EndOfLine
          /\ isFinished' => taken' = Len(File') /\ (eof' \/ start' = end')
      BY <1>1, <1>4, <1>5, <1>7, <1>8
    <2>4. start' < end' /\ File'[start' + 1] \in Marks => at' = end' /\ end' = start' + 1
      BY <1>4, <1>8, <1>9, <1>11
    <2>5. Len(articles') = ArticleOf(File', Type', end')
            + (IF isFinished' /\ start' < end' /\ File'[end'] = DocEnd THEN 1 ELSE 0)
      <3>1. ArticleOf(File, "wiki", end) \in Nat
        BY <1>3, ArticleType
      <3>2. Len(Append(articles, NoWords)) = Len(articles) + 1
        BY <1>2 DEF Typed
      <3>3. CASE first = DocEnd
        BY <1>1, <1>3, <1>4, <1>8, <1>12, <3>1, <3>2, <3>3
      <3>4. CASE first # DocEnd
        BY <1>3, <1>4, <1>8, <1>12, <3>1, <3>4
      <3> QED BY <3>3, <3>4
    <2> QED BY <2>1, <2>2, <2>3, <2>4, <2>5 DEF OneLine
  <1>14. Lines'
    <2>1. start' <= at' /\ at' <= end'
      BY <1>3, <1>6, <1>8
    <2> QED BY <1>1, <1>3, <1>4, <1>8, <1>13, <2>1 DEF Lines
  <1>15. Firsts' = Firsts
    <2>1. \A n \in Counted(File, "wiki") : n <= end - 1
      BY <1>1, <1>3, <1>5, <1>7
    <2>2. Firsts' = Counted(File, "wiki")
      BY <1>1, <1>3, <1>4 DEF Firsts, Counted, Words
    <2> QED BY <1>3, <2>1, <2>2
  \* A word of which the line does not end is not before the beginning of the line.
  <1>16. Seconds' = {}
    <2>1. Settled' = at' - 1
      BY <1>1, <1>4 DEF Settled, Cur, Testing
    <2>2. \A n \in Seconds' : /\ n \in CountedTwice(File, "wiki") /\ n <= at' - 1
      BY <1>3, <1>4, <2>1 DEF Seconds, CountedTwice, Counted, Words
    <2> SUFFICES ASSUME NEW n \in Seconds' PROVE FALSE
      OBVIOUS
    <2>3. /\ n \in Nat /\ n >= 1 /\ n < Len(File) /\ File[n + 1] # EndOfLine
          /\ \A m \in n..Len(File) : File[m] # EndOfLine
      <3>1. n \in Counted(File, "wiki") /\ \A m \in n..Len(File) : File[m] # EndOfLine
        BY <2>2 DEF CountedTwice
      <3> QED BY <1>3, <3>1
    <2>4. eof
      <3> SUFFICES ASSUME ~eof PROVE FALSE
        OBVIOUS
      <3>1. File[Len(File)] = EndOfLine
        BY <1>1, <1>3, <1>7, <2>3
      <3> QED BY <1>3, <2>3, <3>1
    <2>5. n <= start
      <3>1. at' = start \/ at' = start + 1
        BY <1>5, <1>8, <1>11, <2>4
      <3> QED BY <1>3, <2>2, <2>3, <3>1
    <2>6. b = start /\ start < end /\ end = Len(File)
      BY <1>5, <1>7, <2>4
    <2>7. File[start] = EndOfLine
      BY <1>3, <1>7, <2>3, <2>5, <2>6
    <2> QED BY <1>3, <2>3, <2>5, <2>6, <2>7
  <1> QED
    <2>1. taken' \in Nat /\ eof' \in BOOLEAN /\ isFinished' \in BOOLEAN
      BY <1>1, <1>3, <1>5
    <2> QED BY <1>1, <1>3, <1>6, <1>14, <1>15, <1>16, <2>1, LineTaken
-----------------------------------------------------------------------------
(* Files *)

\* What is to be said of the tables of a file that is done.
Exact ==
    /\ Len(articles) = ArticleOf(File, Type, Len(File))
                       + (IF Wiki /\ File # <<>> /\ File[Len(File)] = DocEnd
                          THEN 1 ELSE 0)
    /\ AllTables(File, Type, Counted(File, Type), CountedTwice(File, Type), articles)

LEMMA ExactIs == (pc = "done" => Exact) <=> CountsExact
  <1>1. \A a, t : Occurrences(File, Type, a, t)
                    = Number(File, Type, Counted(File, Type), a, t)
                        + Number(File, Type, CountedTwice(File, Type), a, t)
    BY DEF Occurrences, Number, StemAt
  <1>2. StemsOf(File, Type) = {Stem(Lower(File[n])) : n \in Counted(File, Type)}
    BY DEF StemsOf, StemAt
  <1> QED BY <1>1, <1>2 DEF Exact, CountsExact, AllTables, Table

\* At the end of a file everything has been counted.
LEMMA FileDoneExact ==
    ASSUME Scanned, FileDone
    PROVE  Exact
  <1>1. pc = "scan" /\ at = end /\ (Wiki => isFinished)
    BY DEF FileDone
  <1>2. Typed /\ Lines /\ Tallied /\ Reading
    BY <1>1 DEF Scanned, Reading
  <1>3. /\ start \in Nat /\ end \in Nat /\ taken \in Nat /\ Len(File) \in Nat
        /\ start <= end /\ end <= Len(File) /\ taken <= Len(File)
        /\ File \in Seq(Item) /\ isFinished \in BOOLEAN /\ eof \in BOOLEAN
    BY <1>2, FileFacts DEF Typed, Lines
  <1>4. AllTables(File, Type, Firsts, Seconds, articles)
    BY <1>2 DEF Tallied
  <1>5. \A n \in Counted(File, Type) : n \in 1..Len(File)
    BY CountedWords
  <1>6. CASE ~Wiki
    <2>1. end = Len(File) /\ ~isFinished /\ Len(articles) = 1
      BY <1>2, <1>6 DEF Lines
    <2>2. Settled = end
      BY <1>1, <1>6 DEF Settled, Cur, Testing
    <2>3. Firsts = Counted(File, Type)
      BY <1>3, <1>5, <2>1, <2>2 DEF Firsts
    <2>4. Seconds = {} /\ CountedTwice(File, Type) = {}
      BY <1>6, <2>1 DEF Seconds, CountedTwice, Wiki
    <2>5. ArticleOf(File, Type, Len(File)) = 1
      BY <1>6 DEF ArticleOf, Wiki
    <2> QED BY <1>4, <1>6, <2>1, <2>3, <2>4, <2>5 DEF Exact
  <1>7. CASE Wiki
    <2>1. isFinished /\ OneLine /\ Type = "wiki" /\ Settled = end - 1
      BY <1>1, <1>2, <1>7 DEF Lines, Wiki, Settled, Cur, Testing
    <2>2. Firsts = Counted(File, Type)
      BY <2>1 DEF Firsts
    <2>3. Seconds = {n \in CountedTwice(File, Type) : n <= end - 1}
      BY <2>1 DEF Seconds
    <2>4. \A n \in CountedTwice(File, Type) :
            n \in 1..Len(File) /\ n < Len(File) /\ \A m \in n..Len(File) : File[m] # EndOfLine
      BY <1>5, <2>1 DEF CountedTwice, Counted
    <2>5. ArticleOf(File, "wiki", end) \in Nat
      BY <1>3, ArticleType
    <2>6. CASE eof
      <3>1. start < end /\ end = Len(File)
        BY <2>1, <2>6 DEF OneLine
      <3>2. Seconds = CountedTwice(File, Type)
        BY <1>3, <2>3, <2>4, <3>1
      <3>3. File # <<>>
        BY <1>3, <3>1
      <3>4. Len(articles) = ArticleOf(File, Type, Len(File))
                              + (IF File[Len(File)] = DocEnd THEN 1 ELSE 0)
        BY <2>1, <3>1 DEF OneLine
      <3> QED BY <1>4, <1>7, <2>2, <3>2, <3>3, <3>4 DEF Exact
    <2>7. CASE ~eof
      <3>1. start = end /\ taken = Len(File)
        BY <2>1, <2>7 DEF OneLine
      <3>2. Len(articles) = ArticleOf(File, Type, end)
        BY <1>3, <2>1, <2>5, <3>1 DEF OneLine
      <3>3. \/ end = 0 /\ Len(File) = 0
            \/ Len(File) = end + 1 /\ File[Len(File)] = EndOfLine
        BY <2>1, <2>7, <3>1 DEF OneLine
      <3>4. CountedTwice(File, Type) = {}
        <4> SUFFICES ASSUME NEW n \in CountedTwice(File, Type) PROVE FALSE
          OBVIOUS
        <4>1. n \in 1..Len(File) /\ \A m \in n..Len(File) : File[m] # EndOfLine
          BY <2>4
        <4> QED BY <1>3, <3>3, <4>1
      <3>5. Seconds = {}
        BY <2>3, <3>4
      <3>6. ~(File # <<>> /\ File[Len(File)] = DocEnd)
        BY <1>3, <3>3, Distinct
      <3>7. ArticleOf(File, Type, Len(File)) = ArticleOf(File, Type, end)
        <4>1. \A k \in end + 1..Len(File) : File[k] # DocEnd
          BY <1>3, <3>3, Distinct
        <4> QED BY <1>3, <2>1, <4>1, ArticleSame
      <3>8. Len(articles) = ArticleOf(File, Type, Len(File)) + 0
        BY <2>1, <2>5, <3>2, <3>7
      <3> QED BY <1>4, <2>2, <3>4, <3>5, <3>6, <3>8 DEF Exact
    <2> QED BY <1>3, <2>6, <2>7
  <1> QED BY <1>6, <1>7

LEMMA FileDoneKeeps ==
    ASSUME IInv, FileDone
    PROVE  IInv'
  <1>1. /\ SameFile /\ SameLine /\ pc = "scan" /\ pc' = "done"
        /\ at' = at /\ s' = s /\ word' = word /\ articles' = articles /\ index' = index
    BY DEF FileDone, SameFile, SameLine, inputVars, fileVars
  <1>2. Scanned /\ Typed /\ Indexed
    BY DEF IInv, Scanned
  <1>3. Scanned'
    <2>1. Typed'
      BY <1>1, <1>2 DEF Typed, SameFile, SameLine
    <2>2. ~Reading' /\ ~Testing' /\ pc' # "scan"
      BY <1>1 DEF Reading, Testing
    <2> QED BY <2>1, <2>2 DEF Scanned, Lines, WordHeld, Tallied
  <1>4. Exact'
    <2>1. Exact
      BY <1>2, FileDoneExact
    <2>2. File' = File /\ Type' = Type /\ Wiki' = Wiki
      BY <1>1 DEF File, Type, Wiki, SameFile
    <2> QED BY <1>1, <2>1, <2>2 DEF Exact
  <1>5. Indexed'
    BY <1>1, <1>2 DEF Indexed, InIndex, SameFile, Type
  <1>6. CountsExact'
    BY <1>4, ExactIs, PTL
  <1> QED BY <1>3, <1>5, <1>6 DEF IInv

\* A word that is counted is in the table of its article.
LEMMA ExactFinds ==
    ASSUME Typed, Exact, NEW n \in Counted(File, Type)
    PROVE  \E a \in 1..Len(articles) : StemAt(File, n) \in DOMAIN articles[a]
  <1> DEFINE a == ArticleOf(File, Type, n)
             t == StemAt(File, n)
             C == Counted(File, Type)
             D == CountedTwice(File, Type)
  <1>1. Len(File) \in Nat /\ n \in 1..Len(File) /\ Type \in {"normal", "wiki"}
    BY FileFacts, CountedWords
  <1>2. a \in 1..Len(articles)
    <2>1. CASE Type = "wiki"
      <3>1. /\ a \in Nat /\ a >= 1 /\ a <= ArticleOf(File, "wiki", Len(File))
            /\ ArticleOf(File, "wiki", Len(File)) \in Nat
        BY <1>1, <2>1, ArticleType, ArticleGrows
      <3>2. Len(articles) >= ArticleOf(File, "wiki", Len(File)) /\ Len(articles) \in Nat
        BY <2>1, <3>1 DEF Exact, Typed
      <3> HIDE DEF a
      <3> QED BY <3>1, <3>2
    <2>2. CASE Type = "normal"
      <3>1. a = 1 /\ ArticleOf(File, Type, Len(File)) = 1
        BY <2>2 DEF ArticleOf
      <3>2. Len(articles) = 1
        BY <2>2, <3>1 DEF Exact, Wiki
      <3> QED BY <3>1, <3>2
    <2> QED BY <1>1, <2>1, <2>2
  <1>3. IsFiniteSet(C) /\ IsFiniteSet(D)
    <2>1. IsFiniteSet(1..Len(File))
      BY <1>1, FS_Interval
    <2>2. C \subseteq 1..Len(File) /\ D \subseteq 1..Len(File)
      BY CountedWords
    <2> QED BY <2>1, <2>2, FS_Subset
  <1>4. Number(File, Type, C, a, t) \in Nat /\ Number(File, Type, D, a, t) \in Nat
    BY <1>3, NumberType
  <1>5. Number(File, Type, C, a, t) # 0
    <2> DEFINE Q == {m \in C : ArticleOf(File, Type, m) = a /\ StemAt(File, m) = t}
    <2>1. n \in Q /\ IsFiniteSet(Q)
      BY <1>3, FS_Subset
    <2>2. Cardinality(Q) # 0
      <3> HIDE DEF Q
      <3> QED BY <2>1, FS_EmptySet
    <2> QED BY <2>2 DEF Number
  <1>6. Table(File, Type, C, D, articles[a], a) /\ t \in StemsOf(File, Type)
    BY <1>2 DEF Exact, AllTables, StemsOf
  <1>7. Number(File, Type, C, a, t) + Number(File, Type, D, a, t)
          = IF t \in DOMAIN articles[a] THEN articles[a][t] ELSE 0
    BY <1>6 DEF Table
  <1>8. t \in DOMAIN articles[a]
    <2> HIDE DEF a, t, C, D
    <2> QED BY <1>4, <1>5, <1>7
  <1> QED BY <1>2, <1>8

LEMMA AddDocumentsKeeps ==
    ASSUME IInv, AddDocuments
    PROVE  IInv'
  <1>1. /\ collection' = collection /\ nrDocs' = nrDocs /\ SameLine
        /\ at' = at /\ s' = s /\ word' = word /\ articles' = articles
        /\ pc = "done" /\ index' = index \o articles
        /\ \/ pc' = "end" /\ fileNo' = fileNo
           \/ pc' = "open" /\ fileNo' = fileNo + 1 /\ fileNo # Len(collection.files)
    BY DEF AddDocuments, SameLine, inputVars
  <1>2. Typed /\ CountsExact /\ Indexed /\ Exact
    BY <1>1, ExactIs DEF IInv, Scanned
  <1>3. articles \in Seq(Tables) /\ index \in Seq(Tables)
    BY <1>2 DEF Typed
  <1>4. Len(collection.files) \in Nat /\ fileNo \in 1..Len(collection.files)
    BY <1>2, CollectionsAssumption DEF Typed
  <1>5. /\ index' \in Seq(Tables) /\ Len(index') = Len(index) + Len(articles)
        /\ \A d \in 1..Len(index) : index'[d] = index[d]
        /\ \A d \in 1..Len(articles) : index'[Len(index) + d] = articles[d]
    BY <1>1, <1>3
  <1>6. Scanned'
    <2>1. Typed'
      BY <1>1, <1>2, <1>4, <1>5 DEF Typed, SameLine
    <2>2. ~Reading' /\ ~Testing' /\ pc' # "scan"
      BY <1>1 DEF Reading, Testing
    <2> QED BY <2>1, <2>2 DEF Scanned, Lines, WordHeld, Tallied
  <1>7. CountsExact'
    BY <1>1 DEF CountsExact
  <1>8. Type' = Type
    BY <1>1 DEF Type
  <1>9. \A f : InIndex(f) => InIndex(f)'
    <2> SUFFICES ASSUME NEW f, InIndex(f), NEW n \in Counted(collection.files[f], Type)
                 PROVE  \E d \in 1..Len(index') :
                          StemAt(collection.files[f], n) \in DOMAIN index'[d]
      BY <1>1, <1>8 DEF InIndex
    <2>1. PICK d \in 1..Len(index) : StemAt(collection.files[f], n) \in DOMAIN index[d]
      BY DEF InIndex
    <2>2. d \in 1..Len(index')
      BY <1>3, <1>5
    <2> QED BY <1>5, <2>1, <2>2
  <1>10. \A f : f = fileNo => InIndex(f)'
    <2> SUFFICES ASSUME NEW n \in Counted(File, Type)
                 PROVE  \E d \in 1..Len(index') : StemAt(File, n) \in DOMAIN index'[d]
      BY <1>1, <1>8 DEF InIndex, File
    <2>1. PICK a \in 1..Len(articles) : StemAt(File, n) \in DOMAIN articles[a]
      BY <1>2, ExactFinds
    <2>2. Len(index) + a \in 1..Len(index')
      BY <1>3, <1>5
    <2> QED BY <1>5, <2>1, <2>2
  <1>11. \A f \in 1..fileNo : InIndex(f)'
    BY <1>2, <1>4, <1>9, <1>10 DEF Indexed
  <1>12. Indexed'
    BY <1>1, <1>4, <1>11 DEF Indexed
  <1> QED BY <1>6, <1>7, <1>12 DEF IInv

\* The steps within a file leave the index alone.
LEMMA WithinFile ==
    ASSUME IInv, Scanned', SameFile, index' = index, pc # "end", pc' \notin {"done", "end"}
    PROVE  IInv'
  <1>1. CountsExact'
    BY DEF CountsExact
  <1>2. Indexed'
    BY DEF IInv, Indexed, InIndex, SameFile, Type
  <1> QED BY <1>1, <1>2 DEF IInv

LEMMA InitKeywords == Init => IInv
  <1> SUFFICES ASSUME Init PROVE IInv
    OBVIOUS
  <1> USE DEF Init
  <1>1. /\ collection.files \in Seq({collection.files[f] : f \in DOMAIN collection.files})
        /\ collection.files # <<>>
    BY CollectionsAssumption
  <1>2. 1 \in 1..Len(collection.files)
    <2> DEFINE F == collection.files
    <2>1. \A S : F \in Seq(S) /\ F # <<>> => 1 \in 1..Len(F)
      <3> HIDE DEF F
      <3> QED OBVIOUS
    <2> QED BY <1>1, <2>1
  <1>3. nrDocs \in Nat
    BY LimitsAssumption
  <1>4. <<>> \in Seq(Glyph) /\ <<>> \in Seq(Tables)
    OBVIOUS
  <1>5. Typed
    BY <1>2, <1>3, <1>4 DEF Typed
  <1>6. ~Reading /\ ~Testing /\ pc # "scan"
    BY DEF Reading, Testing
  <1>7. Scanned
    BY <1>5, <1>6 DEF Scanned, Lines, WordHeld, Tallied
  <1>8. CountsExact /\ Indexed
    BY DEF CountsExact, Indexed
  <1> QED BY <1>7, <1>8 DEF IInv

LEMMA StutterKeeps ==
    ASSUME IInv, UNCHANGED vars
    PROVE  IInv'
  <1> USE DEF vars, inputVars, fileVars
  <1>1. Typed' /\ Lines'
    BY DEF IInv, Scanned, Typed, Lines, OneLine, Reading, Testing, File, Type, Wiki
  <1>2. WordHeld'
    BY DEF IInv, Scanned, WordHeld, Held, Stemmed, InHand, Cur, Testing, File, Type, Wiki
  <1>3. Tallied' /\ Indexed'
    BY DEF IInv, Scanned, Tallied, Reading, Testing, Firsts, Seconds, Settled, Cur,
           Indexed, InIndex, File, Type, Wiki
  <1>4. CountsExact'
    BY DEF IInv, CountsExact, File, Type, Wiki
  <1> QED BY <1>1, <1>2, <1>3, <1>4 DEF IInv, Scanned

LEMMA NextKeeps == IInv /\ [Next]_vars => IInv'
  <1> SUFFICES ASSUME IInv, [Next]_vars PROVE IInv'
    OBVIOUS
  <1>1. Scanned
    BY DEF IInv
  <1>2. CASE OpenFile
    <2>1. SameFile /\ index' = index /\ pc = "open" /\ pc' = "scan"
      BY <1>2 DEF OpenFile, SameFile, inputVars
    <2> QED BY <1>2, <2>1, OpenFileScans, WithinFile
  <1>3. CASE GetLine
    <2>1. SameFile /\ index' = index /\ pc = "scan" /\ pc' = "scan"
      BY <1>3 DEF GetLine, SameFile, inputVars
    <2> QED BY <1>1, <1>3, <2>1, GetLineScans, WithinFile
  <1>4. CASE GetLineFails
    <2>1. SameFile /\ index' = index /\ pc = "scan" /\ pc' = "scan"
      BY <1>4 DEF GetLineFails, SameFile, inputVars
    <2> QED BY <1>1, <1>4, <2>1, GetLineFailsScans, WithinFile
  <1>5. CASE ReadWord
    <2>1. SameFile /\ index' = index /\ pc = "scan" /\ pc' \in {"scan", "test"}
      BY <1>5 DEF ReadWord, SameFile, inputVars, fileVars
    <2> QED BY <1>1, <1>5, <2>1, ReadWordScans, WithinFile
  <1>6. CASE ReadSeparator
    <2>1. SameFile /\ index' = index /\ pc = "scan" /\ pc' \in {"scan", "test"}
      BY <1>6 DEF ReadSeparator, SameFile, inputVars, fileVars
    <2> QED BY <1>1, <1>6, <2>1, ReadSeparatorScans, WithinFile
  <1>7. CASE TestStopWord
    <2>1. /\ SameFile /\ index' = index /\ pc = "test"
          /\ pc' \in {"scan", "count", "step1ab"}
      BY <1>7 DEF TestStopWord, SameFile, inputVars, fileVars
    <2> QED BY <1>1, <1>7, <2>1, TestStopWordScans, WithinFile
  <1>8. CASE Stemming
    <2>1. SameFile /\ index' = index /\ pc # "end" /\ pc' \notin {"done", "end"}
      BY <1>8 DEF Stemming, StemStep, SameFile, inputVars, fileVars
    <2> QED BY <1>1, <1>8, <2>1, StemmingScans, WithinFile
  <1>9. CASE Count
    <2>1. SameFile /\ index' = index /\ pc = "count" /\ pc' = "scan"
      BY <1>9 DEF Count, SameFile, inputVars, fileVars
    <2> QED BY <1>1, <1>9, <2>1, CountScans, WithinFile
  <1>10. CASE FileDone
    BY <1>10, FileDoneKeeps
  <1>11. CASE AddDocuments
    BY <1>11, AddDocumentsKeeps
  <1>12. CASE UNCHANGED vars
    BY <1>12, StutterKeeps
  <1>13. CASE OpenFails
    <2>1. SameFile /\ index' = index /\ pc = "open" /\ pc' = "exit"
      BY <1>13 DEF OpenFails, SameFile, inputVars, fileVars
    <2> QED BY <1>13, <2>1, OpenFailsScans, WithinFile
  <1> QED BY <1>2, <1>3, <1>4, <1>5, <1>6, <1>7, <1>8, <1>9, <1>10, <1>11, <1>12, <1>13
          DEF Next

LEMMA KeywordsInvariance == Spec => []IInv
  BY InitKeywords, NextKeeps, PTL DEF Spec

\* However the files are divided into lines and articles, whatever a word left in
\* the buffer and whether or not the last line ends, each table of a file that is
\* done holds exactly the words it should, as often as it should
\* (EnglishAnalyzer::extractUniqueKeywords and extractUniqueKeywords_wiki).
THEOREM CountsAreExact == Spec => []CountsExact
  <1>1. IInv => CountsExact
    BY DEF IInv
  <1> QED BY <1>1, KeywordsInvariance, PTL

\* Stemming never makes a word longer than what is in the buffer, never leaves
\* less than a letter, and no step is taken with fewer letters than it looks at
\* (stem() and its steps in PorterStemmer.c).
THEOREM StemsInPlace == Spec => []StemInPlace
  <1>1. IInv => StemInPlace
    <2> SUFFICES ASSUME IInv PROVE StemInPlace
      OBVIOUS
    <2>1. CASE Testing /\ pc # "test"
      <3>1. /\ Stemmed /\ Len(InHand) \in Nat /\ InHand \in Seq(Glyph)
            /\ s = InHand \/ (Len(InHand) > INC /\ s = InHand \o <<"z">>)
            /\ s \in Seq(Glyph) /\ word \in Seq(Glyph)
        BY <2>1, InHandFacts DEF IInv, Held, Typed
      <3>2. Len(s) \in Nat /\ Len(s) >= Len(InHand)
        BY <3>1, AreGlyphs
      <3>3. Len(word) \in 1..Len(InHand)
        BY <3>1 DEF Stemmed
      <3>4. Len(word) \in 1..Len(s)
        BY <3>1, <3>2, <3>3
      <3>5. /\ pc = "step1ab" => Len(word) >= 3
            /\ pc \in {"step1c", "step2", "step3", "step4", "step5"} => Len(word) >= 2
        BY <3>1, <3>3 DEF Stemmed
      <3> QED BY <3>4, <3>5 DEF StemInPlace
    <2>2. CASE ~(Testing /\ pc # "test")
      BY <2>2 DEF StemInPlace, Testing
    <2> QED BY <2>1, <2>2
  <1> QED BY <1>1, KeywordsInvariance, PTL
-----------------------------------------------------------------------------
(* The words of a query *)

\* For its Recursion and Induction; its names and those of Keywords overlap.
E == INSTANCE EvaluatorProofs

\* What ends a word of a query.
Enders == Operators \cup {Blank}
Tokens == [type : Seq(STRING) \cup {WORD_TOKEN}, word : Seq(Glyph)]

\* A word that is not done with is the last token, and no operator is awaited
\* a second time.
ReadStates ==
    {st \in [tokens : Seq(Tokens), inWord : BOOLEAN, twice : Seq(STRING)] :
       st.inWord = TRUE => st.twice = <<>> /\ Len(st.tokens) > 0}

\* What ends a word leaves the tokens or adds one.
LEMMA ReadEnder ==
    ASSUME NEW st \in ReadStates, NEW item \in Item, item \in Enders,
           NEW r, r = ReadItem(st, item)
    PROVE  /\ r \in ReadStates /\ r.inWord = FALSE
           /\ r.tokens = st.tokens \/ \E e \in Tokens : r.tokens = Append(st.tokens, e)
  <1>1. /\ st.tokens \in Seq(Tokens) /\ st.inWord \in BOOLEAN /\ st.twice \in Seq(STRING)
        /\ st = [tokens |-> st.tokens, inWord |-> st.inWord, twice |-> st.twice]
        /\ st.twice # <<>> => st.inWord = FALSE
    BY DEF ReadStates
  <1>2. item \in Seq(STRING) /\ item # <<>> /\ <<>> \in Seq(STRING)
    BY DEF Item
  <1>3. CASE item = Blank
    <2>1. r = [tokens |-> st.tokens, inWord |-> FALSE, twice |-> <<>>]
      BY <1>1, <1>3 DEF ReadItem
    <2> QED BY <1>1, <1>2, <2>1 DEF ReadStates
  <1>4. CASE item # Blank /\ item = st.twice
    <2>1. r = [tokens |-> st.tokens, inWord |-> st.inWord, twice |-> <<>>]
      BY <1>1, <1>4 DEF ReadItem, Enders
    <2>2. st.inWord = FALSE
      BY <1>1, <1>2, <1>4
    <2> QED BY <1>1, <1>2, <2>1, <2>2 DEF ReadStates
  <1>5. CASE item # Blank /\ item # st.twice
    <2> DEFINE e == [type |-> item, word |-> <<>>]
               again == IF item \in {<<"&">>, <<"|">>} THEN item ELSE <<>>
               more == Append(st.tokens, e)
    <2>1. r = [tokens |-> more, inWord |-> FALSE, twice |-> again]
      BY <1>5 DEF ReadItem, Enders
    <2>2. e \in Tokens
      BY <1>2 DEF Tokens
    <2>3. again \in Seq(STRING)
      BY <1>2
    <2> HIDE DEF e, again
    <2>4. more \in Seq(Tokens)
      BY <1>1, <2>2
    <2>5. r \in ReadStates /\ r.inWord = FALSE /\ r.tokens = Append(st.tokens, e)
      BY <2>1, <2>3, <2>4 DEF ReadStates
    <2> QED BY <2>2, <2>5
  <1> QED BY <1>3, <1>4, <1>5

\* A word after what ends words is a token of its own.
LEMMA WordBegins ==
    ASSUME NEW st \in ReadStates, NEW item \in Item, item \notin Enders,
           st.inWord = FALSE, NEW r, r = ReadItem(st, item)
    PROVE  /\ r \in ReadStates /\ r.inWord = TRUE
           /\ r.tokens = Append(st.tokens, [type |-> WORD_TOKEN, word |-> Lower(item)])
  <1> DEFINE w == Lower(item)
             e == [type |-> WORD_TOKEN, word |-> w]
             more == Append(st.tokens, e)
  <1>1. st.tokens \in Seq(Tokens) /\ <<>> \in Seq(STRING)
    BY DEF ReadStates
  <1>2. w \in Seq(Glyph)
    <2>1. item \in Seq(STRING)
      BY DEF Item
    <2> QED BY <2>1, LowerType
  <1>3. r = [tokens |-> more, inWord |-> TRUE, twice |-> <<>>]
    BY DEF ReadItem, Enders
  <1>4. e \in Tokens
    BY <1>2 DEF Tokens
  <1>5. more \in Seq(Tokens) /\ Len(more) > 0
    BY <1>1, <1>4
  <1> HIDE DEF more
  <1>6. r \in ReadStates /\ r.inWord = TRUE /\ r.tokens = more
    BY <1>1, <1>3, <1>5 DEF ReadStates
  <1> QED BY <1>6 DEF more

\* Otherwise it is the rest of the last one.
LEMMA WordGoesOn ==
    ASSUME NEW st \in ReadStates, NEW item \in Item, item \notin Enders,
           st.inWord = TRUE, NEW r, r = ReadItem(st, item)
    PROVE  /\ r \in ReadStates /\ r.inWord = TRUE /\ Len(r.tokens) = Len(st.tokens)
           /\ \A k \in 1..Len(st.tokens) - 1 : r.tokens[k] = st.tokens[k]
  <1> DEFINE n == Len(st.tokens)
             w == Lower(item)
             e == [st.tokens[n] EXCEPT !.word = @ \o w]
             more == [st.tokens EXCEPT ![n] = e]
  <1>1. st.tokens \in Seq(Tokens) /\ n > 0 /\ <<>> \in Seq(STRING)
    BY DEF ReadStates
  <1>2. w \in Seq(Glyph)
    <2>1. item \in Seq(STRING)
      BY DEF Item
    <2> QED BY <2>1, LowerType
  <1>3. r = [tokens |-> more, inWord |-> TRUE, twice |-> <<>>]
    BY DEF ReadItem, Enders
  <1>4. n \in 1..Len(st.tokens) /\ st.tokens[n] \in Tokens
    BY <1>1
  <1>5. e \in Tokens
    <2> HIDE DEF w
    <2>1. st.tokens[n].word \o w \in Seq(Glyph)
      BY <1>2, <1>4 DEF Tokens
    <2> QED BY <1>4, <2>1 DEF Tokens
  <1> HIDE DEF e
  <1>6. /\ more \in Seq(Tokens) /\ Len(more) = n
        /\ \A k \in 1..n : more[k] = IF k = n THEN e ELSE st.tokens[k]
    BY <1>1, <1>4, <1>5, ExceptSeq
  <1> HIDE DEF more
  <1>7. r \in ReadStates /\ r.inWord = TRUE /\ r.tokens = more
    BY <1>1, <1>3, <1>6 DEF ReadStates
  <1> QED BY <1>1, <1>6, <1>7

\* What has been read after each item follows from what was read before it.
LEMMA ReadSteps ==
    ASSUME NEW query \in Seq(Item), NEW read, read = ReadItems(query)
    PROVE  /\ \A i \in 0..Len(query) : read[i] \in ReadStates
           /\ \A i \in 1..Len(query) : read[i] = ReadItem(read[i - 1], query[i])
           /\ read[0].inWord = FALSE
  <1> DEFINE n == Len(query)
             nothing == [tokens |-> <<>>, inWord |-> FALSE, twice |-> <<>>]
             F == [p \in (1..n) \X ReadStates |-> ReadItem(p[2], query[p[1]])]
  <1>1. n \in Nat /\ \A i \in 1..n : query[i] \in Item
    OBVIOUS
  <1>2. \A st \in ReadStates, item \in Item : ReadItem(st, item) \in ReadStates
    <2> SUFFICES ASSUME NEW st \in ReadStates, NEW item \in Item
                 PROVE  ReadItem(st, item) \in ReadStates
      OBVIOUS
    <2>1. st.inWord = FALSE \/ st.inWord = TRUE
      BY DEF ReadStates
    <2> QED BY <2>1, ReadEnder, WordBegins, WordGoesOn, Zenon
  <1>3. nothing \in ReadStates /\ nothing.inWord = FALSE
    <2>1. <<>> \in Seq(Tokens) /\ <<>> \in Seq(STRING)
      OBVIOUS
    <2> QED BY <2>1 DEF ReadStates
  <1>4. F \in [(1..n) \X ReadStates -> ReadStates]
    BY <1>1, <1>2
  <1>5. \A i \in 1..n, st \in ReadStates : F[<<i, st>>] = ReadItem(st, query[i])
    OBVIOUS
  <1> HIDE DEF F, nothing, n
  <1>6. PICK f \in [0..n -> ReadStates] :
          \A i \in 0..n : f[i] = IF i = 0 THEN nothing ELSE F[<<i, f[i - 1]>>]
    <2>1. \E f \in [0..n -> ReadStates] : E!Recursive(f, n, nothing, F)
      BY <1>1, <1>3, <1>4, E!Recursion
    <2> QED BY <2>1 DEF E!Recursive
  <1>7. f = [i \in 0..n |-> IF i = 0 THEN nothing ELSE ReadItem(f[i - 1], query[i])]
    <2>1. ASSUME NEW i \in 0..n, i # 0
          PROVE  f[i] = ReadItem(f[i - 1], query[i])
      <3>1. i - 1 \in 0..n /\ i \in 1..n
        BY <1>1, <2>1
      <3> QED BY <1>5, <1>6, <2>1, <3>1
    <2> QED BY <1>6, <2>1
  <1>8. read = [i \in 0..n |-> IF i = 0 THEN nothing ELSE ReadItem(read[i - 1], query[i])]
    BY <1>7 DEF ReadItems, nothing, n
  <1>9. /\ read[0] = nothing
        /\ \A i \in 1..n : read[i] = ReadItem(read[i - 1], query[i])
    <2>1. 0 \in 0..n
      BY <1>1
    <2>2. \A i \in 1..n : i \in 0..n /\ i # 0
      BY <1>1
    <2> QED BY <1>8, <2>1, <2>2
  <1>10. \A i \in 0..n : read[i] \in ReadStates
    <2> DEFINE T == {i \in 0..n : read[i] \in ReadStates}
    <2>1. 0 \in T
      BY <1>1, <1>3, <1>9
    <2>2. ASSUME NEW i \in 0..n - 1, i \in T
          PROVE  i + 1 \in T
      <3>1. /\ i + 1 \in 1..n /\ i + 1 \in 0..n
            /\ (i + 1) - 1 = i /\ read[i] \in ReadStates
        BY <1>1, <2>2
      <3>2. read[i + 1] = ReadItem(read[i], query[i + 1])
        BY <1>9, <3>1
      <3> QED BY <1>1, <1>2, <3>1, <3>2
    <2> HIDE DEF T
    <2>3. \A i \in 0..n : i \in T
      BY <1>1, <2>1, <2>2, E!Induction
    <2> QED BY <2>3 DEF T
  <1> QED BY <1>3, <1>9, <1>10 DEF n

\* A word that stands by itself is a token, and stays one.
LEMMA WordAlone ==
    ASSUME NEW query \in Seq(Item), NEW q \in 1..Len(query), ByItself(query, q),
           NEW read, read = ReadItems(query)
    PROVE  LET last == read[Len(query)].tokens
           IN  \E k \in 1..Len(last) :
                 last[k] = [type |-> WORD_TOKEN, word |-> Lower(query[q])]
  <1> DEFINE w == [type |-> WORD_TOKEN, word |-> Lower(query[q])]
             n == Len(query)
  <1>1. n \in Nat /\ \A i \in 1..n : query[i] \in Item
    OBVIOUS
  <1>2. /\ \A i \in 0..n : read[i] \in ReadStates
        /\ \A i \in 1..n : read[i] = ReadItem(read[i - 1], query[i])
        /\ read[0].inWord = FALSE
    BY ReadSteps
  <1> HIDE DEF n
  <1>3. /\ query[q] \notin Enders
        /\ q > 1 => query[q - 1] \in Enders
        /\ q < n => query[q + 1] \in Enders
    BY <1>1 DEF ByItself, Enders, n
  <1>4. q \in 1..n /\ q - 1 \in 0..n
    BY <1>1 DEF n
  <1>5. read[q - 1].inWord = FALSE
    <2>1. CASE q = 1
      BY <1>2, <2>1
    <2>2. CASE q > 1
      <3>1. q - 1 \in 1..n /\ (q - 1) - 1 \in 0..n
        BY <1>1, <1>4, <2>2
      <3> QED BY <1>1, <1>2, <1>3, <2>2, <3>1, ReadEnder
    <2>3. q = 1 \/ q > 1
      BY <1>1, <1>4
    <2> QED BY <2>1, <2>2, <2>3, Zenon
  <1> DEFINE k == Len(read[q - 1].tokens) + 1
  <1>6. \A i \in 0..n : read[i].tokens \in Seq(Tokens) /\ read[i].inWord \in BOOLEAN
    BY <1>2 DEF ReadStates
  <1>7. read[q].tokens = Append(read[q - 1].tokens, w) /\ read[q].inWord = TRUE
    <2>1. /\ read[q - 1] \in ReadStates /\ query[q] \in Item
          /\ read[q] = ReadItem(read[q - 1], query[q])
      BY <1>1, <1>2, <1>4
    <2> DEFINE st == read[q - 1]
               r == read[q]
    <2>2. st \in ReadStates /\ query[q] \in Item /\ st.inWord = FALSE
      BY <1>5, <2>1
    <2>3. query[q] \notin Enders /\ r = ReadItem(st, query[q])
      BY <1>3, <2>1
    <2> HIDE DEF st, r
    <2>4. r.tokens = Append(st.tokens, w) /\ r.inWord = TRUE
      BY <2>2, <2>3, WordBegins
    <2> QED BY <2>4 DEF st, r
  <1>8. k \in Nat /\ k >= 1 /\ Len(read[q].tokens) = k /\ read[q].tokens[k] = w
    <2> DEFINE before == read[q - 1].tokens
    <2>1. before \in Seq(Tokens)
      BY <1>4, <1>6
    <2> HIDE DEF before, w
    <2>2. /\ Len(before) \in Nat /\ Len(Append(before, w)) = Len(before) + 1
          /\ Append(before, w)[Len(before) + 1] = w
      BY <2>1
    <2> QED BY <1>7, <2>2 DEF before
  <1> HIDE DEF k, w
  <1> DEFINE Kept(i) == /\ Len(read[i].tokens) >= k /\ read[i].tokens[k] = w
                        /\ i > q => read[i].inWord = FALSE \/ Len(read[i].tokens) > k
             T == {j \in 0..n - q : Kept(q + j)}
  <1>9. 0 \in T
    BY <1>1, <1>4, <1>8
  <1>10. ASSUME NEW j \in 0..(n - q) - 1, j \in T
         PROVE  j + 1 \in T
    <2> DEFINE i == q + j
    <2>1. /\ i + 1 \in 1..n /\ i \in 0..n /\ (i + 1) - 1 = i /\ i >= q
          /\ j + 1 \in 0..n - q /\ q + (j + 1) = i + 1 /\ (i > q \/ i + 1 = q + 1)
      BY <1>1, <1>4
    <2>2. Kept(i)
      BY <1>10
    <2> HIDE DEF i
    <2> DEFINE st == read[i]
               r == read[i + 1]
    <2>3. /\ st \in ReadStates /\ r = ReadItem(st, query[i + 1])
          /\ st.tokens \in Seq(Tokens) /\ st.inWord \in BOOLEAN /\ query[i + 1] \in Item
      BY <1>1, <1>2, <1>6, <2>1
    <2>4. Len(st.tokens) >= k /\ st.tokens[k] = w /\ Len(st.tokens) \in Nat
      BY <2>2, <2>3
    <2>5. i > q => st.inWord = FALSE \/ Len(st.tokens) > k
      BY <2>2
    <2> HIDE DEF st, r
    <2>6. \A e : /\ Len(Append(st.tokens, e)) = Len(st.tokens) + 1
                 /\ Append(st.tokens, e)[k] = w
      BY <1>8, <2>3, <2>4
    <2>7. CASE query[i + 1] \in Enders
      <3>1. /\ r.inWord = FALSE
            /\ r.tokens = st.tokens \/ \E e \in Tokens : r.tokens = Append(st.tokens, e)
        BY <2>3, <2>7, ReadEnder
      <3>2. Len(r.tokens) >= k /\ r.tokens[k] = w
        BY <1>8, <2>4, <2>6, <3>1
      <3>3. Kept(i + 1)
        BY <3>1, <3>2 DEF r
      <3> QED BY <2>1, <3>3
    <2>8. CASE query[i + 1] \notin Enders
      <3>1. i > q
        BY <1>1, <1>3, <1>4, <2>1, <2>8
      <3>2. CASE st.inWord = FALSE
        <4>1. r.tokens = Append(st.tokens, [type |-> WORD_TOKEN, word |-> Lower(query[i + 1])])
          BY <2>3, <2>8, <3>2, WordBegins
        <4>2. Len(r.tokens) > k /\ r.tokens[k] = w
          BY <1>8, <2>4, <2>6, <4>1
        <4>3. Kept(i + 1)
          BY <1>8, <4>2 DEF r
        <4> QED BY <2>1, <4>3
      <3>3. CASE st.inWord = TRUE
        <4>1. /\ Len(r.tokens) = Len(st.tokens)
              /\ \A m \in 1..Len(st.tokens) - 1 : r.tokens[m] = st.tokens[m]
          BY <2>3, <2>8, <3>3, WordGoesOn
        <4>2. Len(st.tokens) > k
          BY <2>5, <3>1, <3>3
        <4>3. k \in 1..Len(st.tokens) - 1
          BY <1>8, <2>4, <4>2
        <4>4. Len(r.tokens) > k /\ r.tokens[k] = w
          BY <2>4, <4>1, <4>2, <4>3
        <4>5. Kept(i + 1)
          BY <1>8, <2>4, <4>1, <4>4 DEF r
        <4> QED BY <2>1, <4>5
      <3> QED BY <2>3, <3>2, <3>3
    <2> QED BY <2>7, <2>8
  <1>11. \A j \in 0..n - q : j \in T
    <2>1. n - q \in Nat
      BY <1>1, <1>4
    <2> HIDE DEF T
    <2> QED BY <1>9, <1>10, <2>1, E!Induction
  <1>12. Kept(n)
    <2>1. n - q \in 0..n - q /\ q + (n - q) = n
      BY <1>1, <1>4
    <2> QED BY <1>11, <2>1
  <1>13. k \in 1..Len(read[n].tokens) /\ read[n].tokens[k] = w
    <2>1. Len(read[n].tokens) \in Nat
      BY <1>1, <1>6
    <2> QED BY <1>8, <1>12, <2>1
  <1> QED BY <1>13 DEF n, w

\* A word of a query that stands by itself is found, however it is written, if a
\* text has it (QueryParser::tokenize, and bisen_update for the documents).
THEOREM QueriesFind == Spec => []QueryWordsFound
  <1>1. IInv => QueryWordsFound
    <2> SUFFICES ASSUME IInv, pc = "end", NEW query \in Queries, NEW f \in 1..fileNo,
                        NEW n \in Counted(collection.files[f], Type),
                        NEW q \in 1..Len(query), ByItself(query, q),
                        Lower(query[q]) = Lower(collection.files[f][n])
                 PROVE  \E token \in {Tokenize(query)[k] : k \in DOMAIN Tokenize(query)},
                           d \in 1..Len(index) :
                          /\ token = [type |-> WORD_TOKEN,
                                      word |-> Stem(Lower(collection.files[f][n]))]
                          /\ token.word \in DOMAIN index[d]
      BY DEF QueryWordsFound
    <2> DEFINE t == StemAt(collection.files[f], n)
               w == [type |-> WORD_TOKEN, word |-> Lower(query[q])]
               tokens == ReadItems(query)[Len(query)].tokens
    <2>1. PICK d \in 1..Len(index) : t \in DOMAIN index[d]
      <3>1. fileNo \in Nat
        BY DEF IInv, Scanned, Typed
      <3>2. InIndex(f)
        BY <3>1 DEF IInv, Indexed
      <3> QED BY <3>2 DEF InIndex
    <2>2. query \in Seq(Item)
      BY QueriesAssumption
    <2>3. PICK k \in 1..Len(tokens) : tokens[k] = w
      BY <2>2, WordAlone
    <2>4. k \in DOMAIN Tokenize(query)
      BY DEF Tokenize
    <2>5. Tokenize(query)[k] = [w EXCEPT !.word = Stem(@)]
      BY <2>3 DEF Tokenize
    <2>6. Tokenize(query)[k] = [type |-> WORD_TOKEN, word |-> t]
      BY <2>5 DEF StemAt
    <2> QED BY <2>1, <2>4, <2>6 DEF StemAt
  <1> QED BY <1>1, KeywordsInvariance, PTL
=============================================================================
