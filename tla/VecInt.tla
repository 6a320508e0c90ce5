------------------------------- MODULE VecInt -------------------------------
(***************************************************************************)
(* The vectors of document ids the IEE computes with                       *)
(* (Search/src/rbisen/util/vec_int.cpp).  A vec_int is the sequence of the *)
(* elements pushed so far; the set operations on it go through `count`, an *)
(* array of one unsigned char per document that is shared by all of them.  *)
(***************************************************************************)
EXTENDS Integers, Sequences, FiniteSets

\* count[] is an array of unsigned char.
CountRange == 256

\* The documents in a vector.
Elements(v) == {v[i] : i \in DOMAIN v}

\* How often d occurs among the first i elements of v.
Occurrences(v, i, d) == Cardinality({j \in 1..i : v[j] = d})

(***************************************************************************)
(* count[d] once every element of a has set it to 1 and the first i        *)
(* elements of b have each incremented it.                                 *)
(***************************************************************************)
Count(a, b, i, d) ==
    ((IF d \in Elements(a) THEN 1 ELSE 0) + Occurrences(b, i, d)) % CountRange

\* How often an increment of b took count[] to exactly c.
Hits(a, b, c) == Cardinality({i \in DOMAIN b : Count(a, b, i, b[i]) = c})

(***************************************************************************)
(* The scan `for i in 0..ndocs-1` that pushes the selected documents into  *)
(* a vector of the given capacity: vi_push_back drops what does not fit.   *)
(* Scan(...)[n] is the vector once the first n documents were looked at.   *)
(***************************************************************************)
Scan(ndocs, selected, capacity) ==
    LET scan[n \in 0..ndocs] ==
            IF n = 0 THEN <<>>
            ELSE LET v == scan[n - 1]
                 IN  IF n - 1 \in selected /\ Len(v) < capacity
                     THEN Append(v, n - 1) ELSE v
    IN  scan

Collect(ndocs, selected, capacity) ==
    Scan(ndocs, selected, capacity)[ndocs]

\* vi_vec_union
Union(a, b, ndocs) ==
    Collect(ndocs, {d \in 0..ndocs - 1 : Count(a, b, Len(b), d) > 0},
            Len(a) + Hits(a, b, 1))

\* vi_vec_intersection
Intersection(a, b, ndocs) ==
    Collect(ndocs, {d \in 0..ndocs - 1 : Count(a, b, Len(b), d) = 2},
            Hits(a, b, 2))

\* Mutant of Complement: the result is one slot short.
Complement_ShortByOne(v, ndocs) ==
    Collect(ndocs, (0..ndocs - 1) \ Elements(v),
            IF Len(v) < ndocs THEN ndocs - Len(v) - 1 ELSE ndocs)

(***************************************************************************)
(* get_not_docs (QueryEvaluator.cpp): every element of v takes one slot    *)
(* off the capacity of the result, one that occurs twice takes two.  The   *)
(* capacity is unsigned: when v is longer than ndocs it wraps to more than *)
(* any vector needs.                                                       *)
(***************************************************************************)
Complement(v, ndocs) ==
    Collect(ndocs, (0..ndocs - 1) \ Elements(v),
            IF Len(v) <= ndocs THEN ndocs - Len(v) ELSE ndocs)
=============================================================================
