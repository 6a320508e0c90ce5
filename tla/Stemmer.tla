------------------------------ MODULE Stemmer ------------------------------
(***************************************************************************)
(* The stemmer of Client/rbisen/PorterStemmer.c, as operators on words.    *)
(* A word is the sequence of the characters b[k0..k]: a step that sets k    *)
(* or calls setto() returns the word that results, and what stands before a *)
(* suffix that was found, b[k0..j], is an argument.  Characters are strings *)
(* of length one, and suffixes are written as strings.                      *)
(*                                                                         *)
(* The C code chooses a group of suffixes by the last letter or the last    *)
(* but one and takes the first of the group that fits.  Within each group   *)
(* a suffix stands before those that it ends with, so that this is the      *)
(* longest of the table that fits.                                          *)
(***************************************************************************)
EXTENDS Naturals, Sequences, FiniteSets

\* A string as the sequence of its characters.
Spelled(string) == [n \in 1 .. Len(string) |-> SubSeq(string, n, n)]

LastChar(w) == w[Len(w)]
Ends(w, suffix) ==
  LET x == Spelled(suffix) IN
  Len(x) <= Len(w) /\ SubSeq(w, Len(w) - Len(x) + 1, Len(w)) = x
Cut(w, n) == SubSeq(w, 1, Len(w) - n)

\* cons(): which letters of w are consonants; y is one at the beginning of a
\* word and after a vowel.
Consonant(w) ==
  LET c[n \in 1 .. Len(w)] ==
        IF w[n] = "y" THEN n = 1 \/ ~c[n - 1]
                        ELSE w[n] \notin {"a", "e", "i", "o", "u"}
  IN c

\* m(): how often a vowel is followed by a consonant.
Measure(w) ==
  LET c == Consonant(w) IN Cardinality({n \in 2 .. Len(w) : ~c[n - 1] /\ c[n]})

VowelInStem(w) == \E n \in 1 .. Len(w) : ~Consonant(w)[n]

DoubleC(w) ==
  Len(w) >= 2 /\ w[Len(w) - 1] = LastChar(w) /\ Consonant(w)[Len(w)]

CVC(w) ==
  /\ Len(w) >= 3
  /\ LET n == Len(w) IN Consonant(w)[n] /\ ~Consonant(w)[n - 1] /\ Consonant(w)[n - 2]
  /\ LastChar(w) \notin {"w", "x", "y"}

\* The rules of a table that fit: at most one, that with the longest suffix.
Fitting(table, w) ==
  {r \in table : /\ Ends(w, r[1])
                 /\ \A q \in table :
                      Ends(w, q[1]) => Len(Spelled(q[1])) <= Len(Spelled(r[1]))}

\* What stands before the suffix of a rule that fits.
Before(w, r) == Cut(w, Len(Spelled(r[1])))

\* r(): the suffix is replaced if something with a measure stands before it.
Replace(table, w) ==
  LET apt == {r \in Fitting(table, w) : Measure(Before(w, r)) > 0} IN
  IF apt = {} THEN w ELSE LET r == CHOOSE q \in apt : TRUE IN
                            Before(w, r) \o Spelled(r[2])
-----------------------------------------------------------------------------
\* Plurals.  w has at least three letters.
WithoutPlural(w) ==
  IF LastChar(w) # "s" THEN w
  ELSE IF Ends(w, "sses") THEN Cut(w, 2)
  ELSE IF Ends(w, "ies") THEN Cut(w, 2)
  ELSE IF w[Len(w) - 1] # "s" THEN Cut(w, 1) ELSE w

\* Mutant of Repaired: a double consonant stays.
RepairedKeepsDouble(w) ==
  IF \E s \in {"at", "bl", "iz"} : Ends(w, s) THEN Append(w, "e")
  ELSE IF Measure(w) = 1 /\ CVC(w) THEN Append(w, "e") ELSE w

\* What is left after -ed or -ing, as a word.
Repaired(w) ==
  IF \E s \in {"at", "bl", "iz"} : Ends(w, s) THEN Append(w, "e")
  ELSE IF DoubleC(w)
       THEN IF LastChar(w) \in {"l", "s", "z"} THEN w ELSE Cut(w, 1)
  ELSE IF Measure(w) = 1 /\ CVC(w) THEN Append(w, "e") ELSE w

Step1ab(word) ==
  LET w == WithoutPlural(word)
      past == Ends(w, "ed") /\ VowelInStem(Cut(w, 2))
      gerund == Ends(w, "ing") /\ VowelInStem(Cut(w, 3))
  IN IF Ends(w, "eed") THEN IF Measure(Cut(w, 3)) > 0 THEN Cut(w, 1) ELSE w
     ELSE IF past THEN Repaired(Cut(w, 2))
     ELSE IF gerund THEN Repaired(Cut(w, 3)) ELSE w

Step1c(w) ==
  IF Ends(w, "y") /\ VowelInStem(Cut(w, 1)) THEN Append(Cut(w, 1), "i") ELSE w

Suffixes2 ==
  { <<"ational", "ate">>, <<"tional", "tion">>, <<"enci", "ence">>,
    <<"anci", "ance">>, <<"izer", "ize">>, <<"bli", "ble">>, <<"alli", "al">>,
    <<"entli", "ent">>, <<"eli", "e">>, <<"ousli", "ous">>,
    <<"ization", "ize">>, <<"ation", "ate">>, <<"ator", "ate">>,
    <<"alism", "al">>, <<"iveness", "ive">>, <<"fulness", "ful">>,
    <<"ousness", "ous">>, <<"aliti", "al">>, <<"iviti", "ive">>,
    <<"biliti", "ble">>, <<"logi", "log">> }

Step2(w) == Replace(Suffixes2, w)

Suffixes3 ==
  { <<"icate", "ic">>, <<"ative", "">>, <<"alize", "al">>, <<"iciti", "ic">>,
    <<"ical", "ic">>, <<"ful", "">>, <<"ness", "">> }

Step3(w) == Replace(Suffixes3, w)

Suffixes4 ==
  { <<s>> : s \in {"al", "ance", "ence", "er", "ic", "able", "ible", "ant",
                   "ement", "ment", "ent", "ion", "ou", "ism", "ate", "iti",
                   "ous", "ive", "ize"} }

\* Suffixes are words, and no rule makes a word longer.
ASSUME RulesAssumption ==
  /\ \A r \in Suffixes2 \cup Suffixes3 :
       /\ Spelled(r[1]) \in Seq(STRING) /\ Spelled(r[2]) \in Seq(STRING)
       /\ Len(Spelled(r[2])) <= Len(Spelled(r[1]))
  /\ \A r \in Suffixes4 : Spelled(r[1]) \in Seq(STRING)

\* -ion goes only after s or t.
Step4(w) ==
  LET apt == {r \in Fitting(Suffixes4, w) :
                LET stem == Before(w, r) IN
                  /\ r[1] = "ion" => stem # <<>> /\ LastChar(stem) \in {"s", "t"}
                  /\ Measure(stem) > 1}
  IN IF apt = {} THEN w
     ELSE Before(w, CHOOSE q \in apt : TRUE)

\* The measure is that of the word with its e: a vowel at the end adds nothing.
Step5(w) ==
  LET a == Measure(w)
      v == IF LastChar(w) = "e" /\ (a > 1 \/ (a = 1 /\ ~CVC(Cut(w, 1))))
           THEN Cut(w, 1) ELSE w
  IN IF LastChar(v) = "l" /\ DoubleC(v) /\ a > 1 THEN Cut(v, 1) ELSE v

\* stem(): all of it, for a word of which nothing is to be seen in between.
Stem(w) ==
  IF Len(w) <= 2 THEN w
  ELSE LET v == Step1ab(w) IN
       IF Len(v) > 1 THEN Step5(Step4(Step3(Step2(Step1c(v))))) ELSE v
=============================================================================
