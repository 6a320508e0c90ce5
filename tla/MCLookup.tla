------------------------------ MODULE MCLookup ------------------------------
(* Postings and queries for Lookup: words "a", "b" and "c" of three documents, *)
(* c of all of them.                                                           *)
EXTENDS Lookup

P(d, f) == [doc |-> d, freq |-> f]
MCWords == {"a", "b", "c"}
Index(a, b, c) == [w \in MCWords |-> IF w = "a" THEN a ELSE IF w = "b" THEN b ELSE c]
MCPostings ==
  { Index(<<P(0, 1), P(2, 2)>>, <<P(1, 1)>>, <<>>),
    Index(<<P(1, 2), P(2, 1)>>, <<>>, <<P(0, 2), P(1, 1), P(2, 3)>>) }
MCQueries ==
  { <<"a">>, <<"b">>, <<"c">>, <<"a", "b", "|">>, <<"a", "a", "!", "&">>,
    <<"b", "!">>, <<"c", "a", "&">>, <<"a", "b">>, <<"a", "&">> }
\* Labels of two words, and of two postings of one, have the same hash.
MCCrc32(l) == l[2] % 2
TwoWords == { <<"a", "b", "|">> }
=============================================================================
