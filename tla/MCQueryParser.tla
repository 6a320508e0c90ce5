--------------------------- MODULE MCQueryParser ----------------------------
(***************************************************************************)
(* Values for the constants of QueryParser: every sequence of up to        *)
(* MaxTokens tokens, and every query of the grammar of up to MaxQuery      *)
(* tokens.                                                                 *)
(***************************************************************************)
EXTENDS QueryParser

CONSTANT MaxTokens

MCInputs ==
    UNION {[1..n -> Words \cup Symbols] : n \in 0..MaxTokens}
        \cup {e[1] : e \in UNION {Nested[n] : n \in 0..MaxQuery}}
=============================================================================
