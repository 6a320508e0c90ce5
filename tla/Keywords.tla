------------------------------ MODULE Keywords ------------------------------
(***************************************************************************)
(* From files to the words of documents (Client/rbisen/EnglishAnalyzer.cpp *)
(* and the loop of bisen_update over the files), and from a query to the    *)
(* word that is looked up (QueryParser::tokenize).                         *)
(*                                                                         *)
(* A file is what it consists of, its items: words, single other characters *)
(* and ends of lines, each a sequence of characters.  A line that begins    *)
(* with "<doc " or "</doc" is one item, for the rest of it is not looked at. *)
(***************************************************************************)
EXTENDS Stemmer

CONSTANTS
  Collections,  \* bound: what bisen_update may be given, see MCKeywords
  Limits,       \* bound: values of nr_docs
  Queries       \* queries that are asked, each a sequence of items

\* The characters that are not alphanumeric, or items of their own.
Blank == <<" ">>
EndOfLine == <<"\n">>
DocBegin == <<"<", "d", "o", "c", " ">>
DocEnd == <<"<", "/", "d", "o", "c">>
Marks == {DocBegin, DocEnd}
Separators == {Blank, EndOfLine} \cup Marks
Item == Seq(STRING) \ {<<>>}

\* Words end where another item begins, and a mark is all of a line.
MayTouch(v, w) ==
  /\ v \in Separators \/ w \in Separators
  /\ v \in Marks => w = EndOfLine
  /\ w \in Marks => v = EndOfLine
Readable(file) ==
  file \in Seq(Item) /\ \A n \in 1 .. Len(file) - 1 : MayTouch(file[n], file[n + 1])

\* bisen_doc_type, and the files.  A normal file has no marks.
ASSUME CollectionsAssumption ==
  \A c \in Collections :
    /\ c.type \in {"normal", "wiki"}
    /\ c.files \in Seq({c.files[f] : f \in DOMAIN c.files}) \ {<<>>}
    /\ \A f \in 1 .. Len(c.files) :
         /\ Readable(c.files[f])
         /\ c.type = "normal" => \A n \in 1 .. Len(c.files[f]) : c.files[f][n] \notin Marks
ASSUME LimitsAssumption == Limits \subseteq Nat
ASSUME QueriesAssumption == Queries \subseteq Seq(Item)

\* The buffer s is made of so many characters.
INC == 50

\* The words that are not counted, as the constructor fills them in.
StopWordsAToE ==
  { "a", "able", "about", "above", "according", "accordingly", "across",
    "actually", "after", "afterwards", "again", "against", "all", "allow",
    "allows", "almost", "alone", "along", "already", "also", "although",
    "always", "am", "among", "amongst", "an", "and", "another", "any",
    "anybody", "anyhow", "anyone", "anything", "anyway", "anyways", "anywhere",
    "apart", "appear", "appreciate", "appropriate", "are", "around", "as",
    "aside", "ask", "asking", "associated", "at", "available", "away",
    "awfully", "b", "be", "became", "because", "become", "becomes", "becoming",
    "been", "before", "beforehand", "behind", "being", "believe", "below",
    "beside", "besides", "best", "better", "between", "beyond", "both",
    "brief", "but", "by", "c", "came", "can", "cannot", "cant", "cause",
    "causes", "certain", "certainly", "changes", "clearly", "co", "com",
    "come", "comes", "concerning", "consequently", "consider", "considering",
    "contain", "containing", "contains", "corresponding", "could", "course",
    "currently", "d", "definitely", "described", "despite", "did", "different",
    "do", "does", "doing", "done", "down", "downwards", "during", "e", "each",
    "edu", "eg", "eight", "either", "else", "elsewhere", "enough", "entirely",
    "especially", "et", "etc", "even", "ever", "every", "everybody",
    "everyone", "everything", "everywhere", "ex", "exactly", "example",
    "except" }

StopWordsFToM ==
  { "f", "far", "few", "fifth", "first", "five", "followed", "following",
    "follows", "for", "former", "formerly", "forth", "four", "from", "further",
    "furthermore", "g", "get", "gets", "getting", "given", "gives", "go",
    "goes", "going", "gone", "got", "gotten", "greetings", "h", "had",
    "happens", "hardly", "has", "have", "having", "he", "hello", "help",
    "hence", "her", "here", "hereafter", "hereby", "herein", "hereupon",
    "hers", "herself", "hi", "him", "himself", "his", "hither", "hopefully",
    "how", "howbeit", "however", "i", "ie", "if", "ignored", "immediate", "in",
    "inasmuch", "inc", "indeed", "indicate", "indicated", "indicates", "inner",
    "insofar", "instead", "into", "inward", "is", "it", "its", "itself", "j",
    "just", "k", "keep", "keeps", "kept", "know", "knows", "known", "l",
    "last", "lately", "later", "latter", "latterly", "least", "less", "lest",
    "let", "like", "liked", "likely", "little", "ll", "look", "looking",
    "looks", "ltd", "m", "mainly", "many", "may", "maybe", "me", "mean",
    "meanwhile", "merely", "might", "more", "moreover", "most", "mostly",
    "much", "must", "my", "myself" }

StopWordsNToS ==
  { "n", "name", "namely", "nd", "near", "nearly", "necessary", "need",
    "needs", "neither", "never", "nevertheless", "new", "next", "nine", "no",
    "nobody", "non", "none", "noone", "nor", "normally", "not", "nothing",
    "novel", "now", "nowhere", "o", "obviously", "of", "off", "often", "oh",
    "ok", "okay", "old", "on", "once", "one", "ones", "only", "onto", "or",
    "other", "others", "otherwise", "ought", "our", "ours", "ourselves", "out",
    "outside", "over", "overall", "own", "p", "particular", "particularly",
    "per", "perhaps", "placed", "please", "plus", "possible", "presumably",
    "probably", "provides", "q", "que", "quite", "qv", "r", "rather", "rd",
    "re", "really", "reasonably", "regarding", "regardless", "regards",
    "relatively", "respectively", "right", "s", "said", "same", "saw", "say",
    "saying", "says", "second", "secondly", "see", "seeing", "seem", "seemed",
    "seeming", "seems", "seen", "self", "selves", "sensible", "sent",
    "serious", "seriously", "seven", "several", "shall", "she", "should",
    "since", "six", "so", "some", "somebody", "somehow", "someone",
    "something", "sometime", "sometimes", "somewhat", "somewhere", "soon",
    "sorry", "specified", "specify", "specifying", "still", "sub", "such",
    "sup", "sure" }

StopWordsTToZ ==
  { "t", "take", "taken", "tell", "tends", "th", "than", "thank", "thanks",
    "thanx", "that", "thats", "the", "their", "theirs", "them", "themselves",
    "then", "thence", "there", "thereafter", "thereby", "therefore", "therein",
    "theres", "thereupon", "these", "they", "think", "third", "this",
    "thorough", "thoroughly", "those", "though", "three", "through",
    "throughout", "thru", "thus", "to", "together", "too", "took", "toward",
    "towards", "tried", "tries", "truly", "try", "trying", "twice", "two", "u",
    "un", "under", "unfortunately", "unless", "unlikely", "until", "unto",
    "up", "upon", "us", "use", "used", "useful", "uses", "using", "usually",
    "uucp", "v", "value", "various", "ve", "very", "via", "viz", "vs", "w",
    "want", "wants", "was", "way", "we", "welcome", "well", "went", "were",
    "what", "whatever", "when", "whence", "whenever", "where", "whereafter",
    "whereas", "whereby", "wherein", "whereupon", "wherever", "whether",
    "which", "while", "whither", "who", "whoever", "whole", "whom", "whose",
    "why", "will", "willing", "wish", "with", "within", "without", "wonder",
    "would", "would", "x", "y", "yes", "yet", "you", "your", "yours",
    "yourself", "yourselves", "z", "zero" }

StopWords ==
  {Spelled(w) : w \in StopWordsAToE \cup StopWordsFToM \cup StopWordsNToS
                        \cup StopWordsTToZ}

\* A stop word fits the buffer.
ASSUME StopWordsAssumption == \A w \in StopWords : Len(w) <= INC

VARIABLES
  collection,   \* doc_type and doc_paths
  nrDocs,       \* nr_docs: stop when so many documents were added; 0: never
  fileNo,       \* the file of doc_paths under way
  pc,           \* where the client is
  taken,        \* how many items of the file getline has read
  eof,          \* getline has met the end of the file
  start, end,   \* line is what follows the first `start` items, up to number `end`;
                \* in a normal file, the whole of it
  isFinished,
  at,           \* the number of the item that was scanned last
  s,            \* the buffer s, or temp, up to its first zero
  word,         \* b[k0..k] of the stemmer
  articles,     \* word_map: for each article the words and how often they occur
  index         \* the documents of the bulks so far: position n has the id n-1

inputVars == <<collection, nrDocs>>
fileVars == <<fileNo, taken, eof, start, end, isFinished>>
vars == <<inputVars, fileVars, pc, at, s, word, articles, index>>

Type == collection.type
Wiki == Type = "wiki"
File == collection.files[fileNo]
NoWords == [t \in {} |-> 0]

Init ==
  /\ collection \in Collections
  /\ nrDocs \in Limits
  /\ fileNo = 1
  /\ pc = "open"
  /\ taken = 0 /\ eof = FALSE
  /\ start = 0 /\ end = 0 /\ isFinished = FALSE
  /\ at = 0 /\ s = <<>> /\ word = <<>>
  /\ articles = <<>> /\ index = <<>>
-----------------------------------------------------------------------------
Upper == Spelled("ABCDEFGHIJKLMNOPQRSTUVWXYZ")
Letters == Spelled("abcdefghijklmnopqrstuvwxyz")
tolower(c) == IF \E n \in 1 .. 26 : Upper[n] = c
              THEN Letters[CHOOSE n \in 1 .. 26 : Upper[n] = c] ELSE c

\* w with all its characters in lower case.
Lower(w) == [n \in 1 .. Len(w) |-> tolower(w[n])]

\* The buffer after w was written to its beginning.
Overwritten(w) == w \o SubSeq(s, Len(w) + 1, Len(s))

OpenFile ==
  /\ pc = "open"
  /\ articles' = <<NoWords>>
  /\ taken' = 0 /\ eof' = FALSE /\ isFinished' = FALSE
  /\ start' = 0 /\ at' = 0
  /\ end' = IF Wiki THEN 0 ELSE Len(File)
  /\ s' = <<>>
  /\ pc' = "scan"
  /\ UNCHANGED <<inputVars, fileNo, word, index>>

\* What cannot be opened ends the client: by exit(1) in a wiki collection, else in
\* getc(), which gets no file.
OpenFails ==
  /\ pc = "open"
  /\ pc' = "exit"
  /\ UNCHANGED <<inputVars, fileVars, at, s, word, articles, index>>

\* What becomes of the line that getline has left: items b + 1 to e.
TakeLine(b, e) ==
  LET first == IF b < e THEN File[b + 1] ELSE <<>> IN
  /\ start' = b /\ end' = e
  /\ articles' = IF first = DocEnd THEN Append(articles, NoWords) ELSE articles
  /\ at' = IF first \in Marks THEN e ELSE b
  /\ s' = <<>>

GetLine ==
  /\ pc = "scan" /\ Wiki
  /\ at = end
  /\ taken < Len(File)
  /\ LET ends == {n \in taken + 1 .. Len(File) : File[n] = EndOfLine} IN
       IF ends = {}
       THEN TakeLine(taken, Len(File)) /\ taken' = Len(File) /\ eof' = TRUE
       ELSE \E n \in ends :
              /\ \A m \in ends : n <= m
              /\ TakeLine(taken, n - 1) /\ taken' = n /\ eof' = FALSE
  /\ UNCHANGED <<inputVars, fileNo, pc, isFinished, word, index>>

\* getline fails, and what `line` holds is handled once more: nothing, unless
\* the last getline had met the end of the file; then `line` is not cleared.
GetLineFails ==
  /\ pc = "scan" /\ Wiki
  /\ at = end /\ taken = Len(File)
  /\ ~isFinished
  /\ isFinished' = TRUE
  /\ TakeLine(IF eof THEN start ELSE end, end)
  /\ UNCHANGED <<inputVars, fileNo, pc, taken, eof, word, index>>

\* A word of a normal file is tested as soon as it has been read.  One that does
\* not fit is followed by bytes that nobody has set (increase_s).
ReadWord ==
  /\ pc = "scan"
  /\ at < end /\ File[at + 1] \notin Separators
  /\ LET w == Lower(File[at + 1]) IN
       \E tail \in IF ~Wiki /\ Len(w) > INC THEN {<<>>, <<"z">>} ELSE {<<>>} :
         /\ s' = Overwritten(w) \o tail
         /\ word' = w
  /\ at' = at + 1
  /\ pc' = IF Wiki THEN "scan" ELSE "test"
  /\ UNCHANGED <<inputVars, fileVars, articles, index>>

\* A word of an article is tested at the character that follows it; there is none
\* after the last word of a line, which is dropped with temp.
ReadSeparator ==
  /\ pc = "scan"
  /\ at < end /\ File[at + 1] \in Separators
  /\ at' = at + 1
  /\ IF Wiki /\ s # <<>> THEN pc' = "test" /\ word' = s
                         ELSE UNCHANGED <<pc, word>>
  /\ UNCHANGED <<inputVars, fileVars, s, articles, index>>

\* stem() returns at once for a word of one or two letters.
TestStopWord ==
  /\ pc = "test"
  /\ IF s \in StopWords
     THEN pc' = "scan" /\ s' = <<>>
     ELSE /\ pc' = IF Len(word) <= 2 THEN "count" ELSE "step1ab"
          /\ UNCHANGED s
  /\ UNCHANGED <<inputVars, fileVars, at, word, articles, index>>

\* One step of stem().
StemStep(from, result, to) ==
  /\ pc = from
  /\ word' = result
  /\ pc' = to
  /\ UNCHANGED <<inputVars, fileVars, at, s, articles, index>>

\* Mutant of Stemming: the test k > k0 after step1ab is missing.
StemmingUntested ==
  \/ pc = "step1ab" /\ StemStep("step1ab", Step1ab(word), "step1c")
  \/ pc = "step1c" /\ StemStep("step1c", Step1c(word), "step2")
  \/ pc = "step2" /\ StemStep("step2", Step2(word), "step3")
  \/ pc = "step3" /\ StemStep("step3", Step3(word), "step4")
  \/ pc = "step4" /\ StemStep("step4", Step4(word), "step5")
  \/ pc = "step5" /\ StemStep("step5", Step5(word), "count")

Stemming ==
  \/ /\ pc = "step1ab"
     /\ LET w == Step1ab(word) IN
          StemStep("step1ab", w, IF Len(w) > 1 THEN "step1c" ELSE "count")
  \/ pc = "step1c" /\ StemStep("step1c", Step1c(word), "step2")
  \/ pc = "step2" /\ StemStep("step2", Step2(word), "step3")
  \/ pc = "step3" /\ StemStep("step3", Step3(word), "step4")
  \/ pc = "step4" /\ StemStep("step4", Step4(word), "step5")
  \/ pc = "step5" /\ StemStep("step5", Step5(word), "count")

\* word_map after one more occurrence of w.
OneMore(words, w) ==
  [t \in DOMAIN words \cup {w} |->
     (IF t \in DOMAIN words THEN words[t] ELSE 0) + (IF t = w THEN 1 ELSE 0)]

\* Mutant of Count: the buffer is not cleared.
CountKeepsBuffer ==
  /\ pc = "count"
  /\ articles' = [articles EXCEPT ![Len(articles)] = OneMore(@, word)]
  /\ pc' = "scan"
  /\ UNCHANGED <<inputVars, fileVars, at, s, word, index>>

Count ==
  /\ pc = "count"
  /\ articles' = [articles EXCEPT ![Len(articles)] = OneMore(@, word)]
  /\ s' = <<>>
  /\ pc' = "scan"
  /\ UNCHANGED <<inputVars, fileVars, at, word, index>>

FileDone ==
  /\ pc = "scan"
  /\ at = end
  /\ Wiki => isFinished
  /\ pc' = "done"
  /\ UNCHANGED <<inputVars, fileVars, at, s, word, articles, index>>

\* One bulk: each article becomes a document, and the next file is taken unless
\* there are enough documents.
AddDocuments ==
  /\ pc = "done"
  /\ index' = index \o articles
  /\ IF fileNo = Len(collection.files) \/ (nrDocs > 0 /\ Len(index') >= nrDocs)
     THEN pc' = "end" /\ UNCHANGED fileNo
     ELSE pc' = "open" /\ fileNo' = fileNo + 1
  /\ UNCHANGED <<inputVars, taken, eof, start, end, isFinished, at, s, word, articles>>

Next ==
  \/ OpenFile \/ OpenFails
  \/ GetLine \/ GetLineFails
  \/ ReadWord \/ ReadSeparator
  \/ TestStopWord \/ Stemming \/ Count
  \/ FileDone \/ AddDocuments

Spec == Init /\ [][Next]_vars
-----------------------------------------------------------------------------
(* The words of a query.                                                   *)

Operators == {<<"&">>, <<"|">>, <<"!">>, <<"(">>, <<")">>}
WORD_TOKEN == <<"w">>

\* Mutant of Tokenize: a word is not put in lower case.
TokenizeAsIs(query) ==
  [n \in {m \in 1 .. Len(query) : query[m] \notin Operators \cup {Blank}} |->
     [type |-> WORD_TOKEN, word |-> Stem(query[n])]]

\* A query consists of words, operators, blanks and other characters.  A word
\* goes on until a blank or an operator, and && and || count as & and |.
ReadItem(done, item) ==
  LET n == Len(done.tokens) IN
  IF item = Blank THEN [done EXCEPT !.inWord = FALSE, !.twice = <<>>]
  ELSE IF item \in Operators
  THEN IF item = done.twice
       THEN [done EXCEPT !.twice = <<>>]
       ELSE [tokens |-> Append(done.tokens, [type |-> item, word |-> <<>>]),
             inWord |-> FALSE,
             twice |-> IF item \in {<<"&">>, <<"|">>} THEN item ELSE <<>>]
  ELSE [tokens |-> IF done.inWord
                   THEN [done.tokens EXCEPT ![n].word = @ \o Lower(item)]
                   ELSE Append(done.tokens,
                               [type |-> WORD_TOKEN, word |-> Lower(item)]),
        inWord |-> TRUE, twice |-> <<>>]

\* The tokens after so many items of the query, not yet stemmed.
ReadItems(query) ==
  LET read[n \in 0 .. Len(query)] ==
        IF n = 0 THEN [tokens |-> <<>>, inWord |-> FALSE, twice |-> <<>>]
        ELSE ReadItem(read[n - 1], query[n])
  IN read

Tokenize(query) ==
  LET tokens == ReadItems(query)[Len(query)].tokens IN
  [n \in 1 .. Len(tokens) |->
     IF tokens[n].type = WORD_TOKEN THEN [tokens[n] EXCEPT !.word = Stem(@)]
                                    ELSE tokens[n]]
-----------------------------------------------------------------------------
Words(file) == {n \in 1 .. Len(file) : file[n] \notin Separators}

\* The positions of the words that are counted, by what stands in the file: all
\* of a normal file, those that something follows in their line of a wiki file.
Counted(file, type) ==
  {n \in Words(file) :
     /\ Lower(file[n]) \notin StopWords
     /\ type = "wiki" => n < Len(file) /\ file[n + 1] # EndOfLine}

\* Those of a last line that does not end, which are counted twice.
CountedTwice(file, type) ==
  {n \in Counted(file, type) :
     type = "wiki" /\ \A m \in n .. Len(file) : file[m] # EndOfLine}

ArticleOf(file, type, n) ==
  IF type = "wiki" THEN 1 + Cardinality({m \in 1 .. n : file[m] = DocEnd}) ELSE 1

Occurrences(file, type, a, t) ==
  LET here(P) == {n \in P : /\ ArticleOf(file, type, n) = a
                            /\ Stem(Lower(file[n])) = t}
  IN Cardinality(here(Counted(file, type))) + Cardinality(here(CountedTwice(file, type)))

\* The documents of a file are its articles and one without words after the last
\* </doc>; two if that line does not end.  Their words are the stems of those of
\* the text but the stop words and, in a wiki file, the last word of each line;
\* whatever was in the buffer before, and however long a word is.
CountsExact ==
  pc = "done" =>
    /\ Len(articles) = ArticleOf(File, Type, Len(File))
                       + (IF Wiki /\ File # <<>> /\ File[Len(File)] = DocEnd
                          THEN 1 ELSE 0)
    /\ \A a \in 1 .. Len(articles) :
         LET stems == {Stem(Lower(File[n])) : n \in Counted(File, Type)} IN
         /\ \A t \in DOMAIN articles[a] : t \in stems /\ articles[a][t] > 0
         /\ \A t \in stems :
              Occurrences(File, Type, a, t) =
                IF t \in DOMAIN articles[a] THEN articles[a][t] ELSE 0

\* "Stemming never increases word length", and no step reads a letter before the
\* word: step1ab looks at the last three letters, step2 and step4 at the last but
\* one.
StemInPlace ==
  /\ pc = "step1ab" => Len(word) >= 3
  /\ pc \in {"step1c", "step2", "step3", "step4", "step5"} => Len(word) >= 2
  /\ pc \in {"step1c", "step2", "step3", "step4", "step5", "count"} =>
       Len(word) \in 1 .. Len(s)

\* What the comment before step1ab says it makes of a word.
Examples ==
  [caresses |-> "caress", ponies |-> "poni", ties |-> "ti", caress |-> "caress",
   cats |-> "cat", feed |-> "feed", agreed |-> "agree", disabled |-> "disable",
   matting |-> "mat", mating |-> "mate", meeting |-> "meet", milling |-> "mill",
   messing |-> "mess", meetings |-> "meet"]
AsDocumented ==
  pc = "step1c" =>
    \A e \in DOMAIN Examples : s = Spelled(e) => word = Spelled(Examples[e])

\* A word of a query that stands by itself, however written, finds a document if
\* the text of an article has it, other than as the last word of a line, and if
\* it is no stop word.
ByItself(query, n) ==
  \A p \in {n - 1, n, n + 1} \cap 1 .. Len(query) :
    query[p] \in Operators \cup {Blank} <=> p # n
QueryWordsFound ==
  pc = "end" =>
    \A query \in Queries, f \in 1 .. fileNo :
      \A n \in Counted(collection.files[f], Type), q \in 1 .. Len(query) :
        /\ ByItself(query, q)
        /\ Lower(query[q]) = Lower(collection.files[f][n])
        => \E token \in {Tokenize(query)[k] : k \in DOMAIN Tokenize(query)},
              d \in 1 .. Len(index) :
             /\ token = [type |-> WORD_TOKEN,
                         word |-> Stem(Lower(collection.files[f][n]))]
             /\ token.word \in DOMAIN index[d]
=============================================================================
