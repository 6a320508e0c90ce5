------------------------------ MODULE VecToken ------------------------------
(* The growing vector of tokens of Search/src/rbisen/util/vec_token.cpp.      *)
EXTENDS Naturals, Sequences

\* vt_init: an array of max_size elements, none of them used.
VtInit(maxSize, zero) == [counter |-> 0, array |-> [i \in 1 .. maxSize |-> zero]]

\* A new array of twice the size; the old one is freed.
VtGrow(v, zero) ==
  [v EXCEPT !.array = [i \in 1 .. 2 * Len(@) |-> IF i <= Len(@) THEN @[i] ELSE zero]]

VtPushBack(v, e, zero) ==
  LET w == IF v.counter = Len(v.array) THEN VtGrow(v, zero) ELSE v IN
  [counter |-> w.counter + 1, array |-> [w.array EXCEPT ![w.counter + 1] = e]]

\* The elements in use.
VtTokens(v) == SubSeq(v.array, 1, v.counter)
=============================================================================
