----------------------------- MODULE MCKeywords -----------------------------
(* Texts and queries for Keywords: every word of a vocabulary that meets each *)
(* rule of the stemmer, alone; and files of every shape, of a few words.      *)
EXTENDS Keywords

Endings ==
  {r[1] : r \in Suffixes2 \cup Suffixes3 \cup Suffixes4}
    \cup {"", "s", "sses", "ies", "eed", "ed", "ing", "ated", "bled", "izing",
          "tting", "lled", "y", "e", "ll", "lle"}

\* Beginnings of measure 0, 1 and more, with y as vowel and as consonant.
Beginnings == {"", "i", "y", "tr", "ho", "sky", "toy", "hop", "adopt", "commun"}

Vocabulary ==
  {b \o x : b \in Beginnings, x \in Endings} \ {""}

\* A word that does not fit the buffer, and a short one in capitals.
LongWord ==
  Spelled("pneumonoultramicroscopicsilicovolcanoconiosisesquipedalians")
Cats == Spelled("Cats")
The == Spelled("the")

Single == {[type |-> "normal", files |-> << <<Spelled(w)>> >>] :
             w \in Vocabulary \cup DOMAIN Examples}
          \cup {[type |-> "normal", files |-> << <<LongWord>> >>]}

\* Items in any order in which they may touch.
Texts(items, n) ==
  {t \in UNION {[1 .. k -> items] : k \in 0 .. n} : Readable(t)}

Plain == {[type |-> "normal", files |-> <<t>>] :
            t \in Texts({Cats, The, Spelled("Catting"), Blank}, 5)}
WikiFiles == {[type |-> "wiki", files |-> <<t>>] :
                t \in Texts({Cats, The, Blank, EndOfLine, DocBegin, DocEnd}, 6)}
Several == {[type |-> ty, files |-> <<t, u>>] :
              ty \in {"wiki", "normal"},
              t \in {<<Spelled("hopes"), Blank, LongWord, Blank>>, <<>>},
              u \in {<<Spelled("hop"), Blank>>, <<LongWord>>}}

MCCollections == Single \cup Plain \cup WikiFiles \cup Several
MCQueries ==
  { <<Spelled("cats")>>,
    <<Spelled("CATS"), Blank, <<"&">>, <<"&">>, The>>,
    << <<"(">>, Cats, <<"|">>, Spelled("hoped"), <<")">> >>,
    << <<"!">>, Spelled("hope"), <<"&">>, Spelled("cats")>>,
    <<Spelled("cats"), <<"-">>, Spelled("hopes")>> }
=============================================================================
