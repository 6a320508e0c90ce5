---------------------------- MODULE BooleanQuery ----------------------------
(***************************************************************************)
(* What a boolean query in reverse Polish notation means for ONE document: *)
(* the reference that SearchStore answers by.  Nothing here knows of       *)
(* vectors of documents.                                                   *)
(***************************************************************************)
EXTENDS Integers, Sequences

(***************************************************************************)
(* What a token makes of the truth values that are left to be combined,    *)
(* for a document with this set of words.                                  *)
(***************************************************************************)
Combine(token, s, words) ==
    LET n == Len(s)
        Under(k) == SubSeq(s, 1, n - k)
    IN  CASE token = "&" -> Append(Under(2), s[n] /\ s[n - 1])
          [] token = "|" -> Append(Under(2), s[n] \/ s[n - 1])
          [] token = "!" -> Append(Under(1), ~s[n])
          [] OTHER -> Append(s, token \in words)

\* Truth(...)[i] is what is left after i tokens.
Truth(rpn, words) ==
    LET truth[i \in 0..Len(rpn)] ==
            IF i = 0 THEN <<>> ELSE Combine(rpn[i], truth[i - 1], words)
    IN  truth

\* Does a document with this set of words satisfy the query?
Holds(rpn, words) == Truth(rpn, words)[Len(rpn)][1]

\* How many operands a token takes.
Needs(token) ==
    IF token \in {"&", "|"} THEN 2 ELSE IF token = "!" THEN 1 ELSE 0

\* How many values are left to be combined after i tokens.
Depth(rpn) ==
    LET depth[i \in 0..Len(rpn)] ==
            IF i = 0 THEN 0 ELSE depth[i - 1] - Needs(rpn[i]) + 1
    IN  depth

(***************************************************************************)
(* Does every operator find its operands, and is one value left?  Only     *)
(* such a query has an answer.                                             *)
(***************************************************************************)
WellFormed(rpn) ==
    /\ \A i \in DOMAIN rpn : Depth(rpn)[i - 1] >= Needs(rpn[i])
    /\ Depth(rpn)[Len(rpn)] = 1
=============================================================================
