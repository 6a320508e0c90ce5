---------------------------- MODULE SearchStore -----------------------------
(***************************************************************************)
(* What BISEN promises the program that links SseClient: a store of        *)
(* documents, each a set of words and numbered from 0 in the order they    *)
(* were added, and boolean queries over them.  A query is answered with    *)
(* the documents that satisfy it, or with Threshold of them when more do.  *)
(* Nothing here knows of counters, labels, batches, enclaves or sockets.   *)
(***************************************************************************)
EXTENDS BooleanQuery, FiniteSets

CONSTANTS Words,      \* the keywords
          Queries,    \* the queries, in reverse Polish notation
          Threshold,  \* how many documents an answer holds at most
          NoQuery,    \* no query is being asked
          NoAnswer    \* no query was answered since the last one was asked

VARIABLES docs,       \* the documents: docs[i] is the set of words of i
          pending,    \* the query being asked
          answer      \* the last answer

storeVars == <<docs, pending, answer>>
-----------------------------------------------------------------------------
Matches(rpn) == {d \in DOMAIN docs : Holds(rpn, docs[d])}

IsAnswer(S, rpn) ==
    LET all == Matches(rpn)
    IN  /\ S \subseteq all
        /\ \/ S = all /\ Cardinality(all) <= Threshold
           \/ Cardinality(all) > Threshold /\ Cardinality(S) = Threshold

NoDocs == [d \in {} |-> {}]
-----------------------------------------------------------------------------
Init ==
    /\ docs = NoDocs
    /\ pending = NoQuery
    /\ answer = NoAnswer

\* A document is added: it gets the next number.
Add(words) ==
    LET id == Cardinality(DOMAIN docs)
    IN  /\ pending = NoQuery
        /\ docs' = [d \in DOMAIN docs \cup {id} |->
                        IF d = id THEN words ELSE docs[d]]
        /\ UNCHANGED <<pending, answer>>

Ask(q) ==
    /\ pending = NoQuery
    /\ pending' = q
    /\ answer' = NoAnswer
    /\ UNCHANGED docs

Answer ==
    /\ pending # NoQuery
    /\ WellFormed(pending)
    /\ \E S \in SUBSET Matches(pending) :
          /\ IsAnswer(S, pending)
          /\ answer' = <<S>>
    /\ pending' = NoQuery
    /\ UNCHANGED docs

\* The program dies; what it was asking is forgotten.
Abandon ==
    /\ pending' = NoQuery
    /\ UNCHANGED <<docs, answer>>

\* A new program starts with an empty store.
Restart ==
    /\ pending = NoQuery
    /\ docs' = NoDocs
    /\ answer' = NoAnswer
    /\ UNCHANGED pending

Next ==
    \/ \E words \in SUBSET Words : Add(words)
    \/ \E q \in Queries : Ask(q)
    \/ Answer
    \/ Abandon
    \/ Restart

Spec == Init /\ [][Next]_storeVars
=============================================================================
