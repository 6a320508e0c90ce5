--------------------------- MODULE QueryEvaluator ---------------------------
(***************************************************************************)
(* evaluate() of Search/src/rbisen/QueryEvaluator.cpp: a query in reverse  *)
(* Polish notation, run on a stack of document vectors.  A query is a      *)
(* sequence whose elements are words and the three operators.              *)
(***************************************************************************)
EXTENDS VecInt

Operators == {"&", "|", "!"}

\* outside_util::exit(-1) was called
Exited == [ok |-> FALSE, stack |-> <<>>]

\* Mutant of EvalToken: the check of the operands of '!' is that of '&'.
EvalToken_NotNeedsTwo(st, token, vec, ndocs) ==
    LET n == Len(st.stack)
        Push(base, v) == [ok |-> TRUE, stack |-> Append(base, v)]
    IN  CASE ~st.ok -> st
          [] st.ok /\ token \in Operators /\ n < 2 -> Exited
          [] st.ok /\ token = "&" /\ n >= 2 ->
                Push(SubSeq(st.stack, 1, n - 2),
                     Intersection(st.stack[n], st.stack[n - 1], ndocs))
          [] st.ok /\ token = "|" /\ n >= 2 ->
                Push(SubSeq(st.stack, 1, n - 2),
                     Union(st.stack[n], st.stack[n - 1], ndocs))
          [] st.ok /\ token = "!" /\ n >= 2 ->
                Push(SubSeq(st.stack, 1, n - 1),
                     Complement(st.stack[n], ndocs))
          [] OTHER -> Push(st.stack, vec)

(***************************************************************************)
(* One iteration of the token loop.  `vec` is tkn.docs when the token is a *)
(* word.  The last element of the stack is its top, popped first.          *)
(***************************************************************************)
EvalToken(st, token, vec, ndocs) ==
    LET n == Len(st.stack)
        Push(base, v) == [ok |-> TRUE, stack |-> Append(base, v)]
        Under(k) == SubSeq(st.stack, 1, n - k)
        Binary(op(_, _, _)) ==
            IF n < 2 THEN Exited
            ELSE Push(Under(2), op(st.stack[n], st.stack[n - 1], ndocs))
    IN  CASE ~st.ok -> st
          [] st.ok /\ token = "&" -> Binary(Intersection)
          [] st.ok /\ token = "|" -> Binary(Union)
          [] st.ok /\ token = "!" ->
                IF n < 1 THEN Exited
                ELSE Push(Under(1), Complement(st.stack[n], ndocs))
          [] OTHER -> Push(st.stack, vec)

\* The token loop: vecs[i] is the vector of the i-th token, Run(...)[i] the
\* state of the stack after i tokens.
Run(rpn, vecs, ndocs) ==
    LET run[i \in 0..Len(rpn)] ==
            IF i = 0 THEN [ok |-> TRUE, stack |-> <<>>]
            ELSE EvalToken(run[i - 1], rpn[i], vecs[i], ndocs)
    IN  run

(***************************************************************************)
(* The whole of evaluate().  The result is a failure when an operand was   *)
(* missing or when other than one vector is left.                          *)
(***************************************************************************)
Evaluate(rpn, vecs, ndocs) ==
    LET end == Run(rpn, vecs, ndocs)[Len(rpn)]
    IN  IF end.ok /\ Len(end.stack) = 1
        THEN [ok |-> TRUE, docs |-> end.stack[1]]
        ELSE [ok |-> FALSE, docs |-> <<>>]
=============================================================================
