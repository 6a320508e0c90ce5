------------------------------ MODULE MCBisen -------------------------------
(***************************************************************************)
(* Values for the constants of Bisen.  With two words the queries below    *)
(* are, in RPN: a word, a conjunction, a disjunction with a negation, the  *)
(* negation of a disjunction, and what shunting_yard makes of "!!a".       *)
(***************************************************************************)
EXTENDS BisenInvariant

MCQueries ==
    { <<"a">>,
      <<"a", "b", "&">>,
      <<"a", "!", "b", "|">>,
      <<"!", "a", "!">> }

MCFewQueries ==
    { <<"b">>, <<"a", "b", "!", "&">> }
=============================================================================
