---------------------------- MODULE QueryParser -----------------------------
(***************************************************************************)
(* shunting_yard() of Client/rbisen/QueryParser.cpp: the tokens of a       *)
(* boolean query, in the order the user wrote them, are put into reverse   *)
(* Polish notation with a stack of operators.  One action is one iteration *)
(* of one of its loops.                                                    *)
(*                                                                         *)
(* What tokenize() can return is the constant Inputs.  The same module     *)
(* states what a query means, from the rules of its notation and not from  *)
(* the algorithm: `!` binds tighter than `&`, and `&` tighter than `|`.    *)
(***************************************************************************)
EXTENDS QueryEvaluator

CONSTANTS
    Words,    \* the words a query may hold
    Inputs,   \* the token sequences shunting_yard is called with
    MaxQuery  \* bound: the longest queries of the grammar looked at

Symbols == Operators \cup {"(", ")"}

ASSUME ParserAssumption ==
    /\ Words \cap Symbols = {}
    /\ Inputs \subseteq Seq(Words \cup Symbols)
    /\ MaxQuery \in Nat

VARIABLES
    infix,      \* infix_query
    i,          \* the loop index, from 1
    operators,  \* the stack of operators, its top last
    output,     \* output
    outcome     \* how the call ended, or "parsing"

vars == <<infix, i, operators, output, outcome>>

\* Mutant of precedence: `&` and `|` take each other's place.
precedence_Swapped(op) ==
    CASE op = "!" -> 3
      [] op = "|" -> 2
      [] op = "&" -> 1
      [] OTHER    -> -1

precedence(op) ==
    CASE op = "!" -> 3
      [] op = "&" -> 2
      [] op = "|" -> 1
      [] OTHER    -> -1

Top == operators[Len(operators)]
Pop == operators' = SubSeq(operators, 1, Len(operators) - 1)

TopPrecedence == IF operators = <<>> THEN -1 ELSE precedence(Top)

\* Mutant of BindsFirst: `>` for `>=`.
BindsFirst_Strictly(op) == TopPrecedence > precedence(op)

\* while (curr_precedence >= precedence(tkn.type))
BindsFirst(op) == TopPrecedence >= precedence(op)

AtToken(tokens) ==
    /\ outcome = "parsing"
    /\ i \in DOMAIN infix
    /\ infix[i] \in tokens

Init ==
    /\ infix \in Inputs
    /\ i = 1
    /\ operators = <<>>
    /\ output = <<>>
    /\ outcome = "parsing"

Word ==
    /\ AtToken(Words)
    /\ output' = Append(output, infix[i])
    /\ i' = i + 1
    /\ UNCHANGED <<infix, operators, outcome>>

PopHigher ==
    /\ AtToken(Operators)
    /\ BindsFirst(infix[i])
    /\ output' = Append(output, Top)
    /\ Pop
    /\ UNCHANGED <<infix, i, outcome>>

PushOperator ==
    /\ AtToken(Operators)
    /\ ~BindsFirst(infix[i])
    /\ operators' = Append(operators, infix[i])
    /\ i' = i + 1
    /\ UNCHANGED <<infix, output, outcome>>

Open ==
    /\ AtToken({"("})
    /\ operators' = Append(operators, "(")
    /\ i' = i + 1
    /\ UNCHANGED <<infix, output, outcome>>

(***************************************************************************)
(* while (operators.top() != '('): when the last operator was popped, the  *)
(* parenthesis has no match and invalid_argument is thrown.  Nobody        *)
(* catches it.                                                             *)
(***************************************************************************)
PopToOpen ==
    /\ AtToken({")"})
    /\ operators # <<>>
    /\ Top # "("
    /\ output' = Append(output, Top)
    /\ Pop
    /\ outcome' = IF Len(operators) = 1 THEN "exception" ELSE outcome
    /\ UNCHANGED <<infix, i>>

\* Mutant of Close: what is popped is not looked at, and the operator under
\* the parenthesis goes with it.
Close_Two ==
    /\ AtToken({")"})
    /\ operators # <<>>
    /\ Top = "("
    /\ operators' = SubSeq(operators, 1, Len(operators) - 2)
    /\ i' = i + 1
    /\ UNCHANGED <<infix, output, outcome>>

Close ==
    /\ AtToken({")"})
    /\ operators # <<>>
    /\ Top = "("
    /\ Pop
    /\ i' = i + 1
    /\ UNCHANGED <<infix, output, outcome>>

(***************************************************************************)
(* operators.top() of an empty stack: anything may happen from here on.    *)
(* Which of it is left open, the call is over as far as this module goes.  *)
(***************************************************************************)
TopOfNothing ==
    /\ AtToken({")"})
    /\ operators = <<>>
    /\ outcome' = "undefined"
    /\ UNCHANGED <<infix, i, operators, output>>

\* Mutant of PopRest: a parenthesis left over is dropped in silence.
PopRest_Lenient ==
    /\ outcome = "parsing"
    /\ i > Len(infix)
    /\ operators # <<>>
    /\ Pop
    /\ output' = IF Top = "(" THEN output ELSE Append(output, Top)
    /\ UNCHANGED <<infix, i, outcome>>

\* Mutant of PopRest: a parenthesis left over is put out like an operator.
PopRest_Unchecked ==
    /\ outcome = "parsing"
    /\ i > Len(infix)
    /\ operators # <<>>
    /\ Pop
    /\ output' = Append(output, Top)
    /\ UNCHANGED <<infix, i, outcome>>

\* while (!operators.empty()), after the tokens
PopRest ==
    /\ outcome = "parsing"
    /\ i > Len(infix)
    /\ operators # <<>>
    /\ Pop
    /\ \/ /\ Top = "("
          /\ outcome' = "exception"
          /\ UNCHANGED output
       \/ /\ Top # "("
          /\ output' = Append(output, Top)
          /\ UNCHANGED outcome
    /\ UNCHANGED <<infix, i>>

Return ==
    /\ outcome = "parsing"
    /\ i > Len(infix)
    /\ operators = <<>>
    /\ outcome' = "done"
    /\ UNCHANGED <<infix, i, operators, output>>

Next ==
    \/ Word
    \/ PopHigher
    \/ PushOperator
    \/ Open
    \/ PopToOpen
    \/ Close
    \/ TopOfNothing
    \/ PopRest
    \/ Return

Spec == Init /\ [][Next]_vars
-----------------------------------------------------------------------------
(* What a query means *)

Documents == SUBSET Words

Negation(e) == <<<<"!">> \o e[1], Documents \ e[2]>>
Both(e, f) == <<e[1] \o <<"&">> \o f[1], e[2] \cap f[2]>>
Either(e, f) == <<e[1] \o <<"|">> \o f[1], e[2] \cup f[2]>>

(***************************************************************************)
(* The queries of n tokens, each as <<tokens, truth>>: truth is the set of *)
(* the documents (sets of words) that satisfy it.  An atom is a word or a  *)
(* query in parentheses, a literal is an atom or its negation, a term is a *)
(* conjunction of literals, a query a disjunction of terms.  If nested is  *)
(* TRUE a negation may be negated without parentheses.  lang[k] are those  *)
(* of k tokens, for k < n.                                                 *)
(***************************************************************************)
Sentences(lang, n, nested) ==
    LET atom == {<<<<w>>, {d \in Documents : w \in d}>> :
                    w \in {v \in Words : n = 1}}
                \cup {<<<<"(">> \o e[1] \o <<")">>, e[2]>> :
                        e \in IF n > 2 THEN lang[n - 2].query ELSE {}}
        below == lang[n - 1]
        literal == atom \cup {Negation(e) :
                        e \in IF nested THEN below.literal ELSE below.atom}
        term == literal \cup UNION
            {{Both(e, f) : e \in lang[k].term, f \in lang[n - 1 - k].literal} :
                k \in 1..n - 2}
    IN  [atom |-> atom, literal |-> literal, term |-> term,
         query |-> term \cup UNION
            {{Either(e, f) : e \in lang[k].query, f \in lang[n - 1 - k].term} :
                k \in 1..n - 2}]

NoSentences == [atom |-> {}, literal |-> {}, term |-> {}, query |-> {}]

\* Those of at most n tokens; the table is filled from the shorter ones on.
Shorter(max, nested) ==
    LET table[n \in 0..max] ==
            IF n = 0 THEN [k \in 0..max |-> NoSentences]
            ELSE LET lang == table[n - 1]
                 IN  [lang EXCEPT ![n] = Sentences(lang, n, nested)]
    IN  table

Language(max, nested) == Shorter(max, nested)[max]

\* The queries of each length up to max.
Grammar(max, nested) ==
    LET lang == Language(max, nested) IN [n \in 0..max |-> lang[n].query]

(***************************************************************************)
(* Does the IEE, given this RPN and an index of every document there can   *)
(* be, answer with the documents that satisfy the query?  `numbered` is    *)
(* the documents in the order of their ids.                                *)
(***************************************************************************)
Answers(rpn, truth, numbered) ==
    LET ids == 0..Len(numbered) - 1
        Posting(w) == Collect(Len(numbered),
                              {d \in ids : w \in numbered[d + 1]},
                              Len(numbered))
        vecs == [k \in DOMAIN rpn |->
                    IF rpn[k] \in Operators THEN <<>> ELSE Posting(rpn[k])]
        result == Evaluate(rpn, vecs, Len(numbered))
    IN  /\ result.ok
        /\ Elements(result.docs) = {d \in ids : numbered[d + 1] \in truth}
-----------------------------------------------------------------------------
(* What a state can be *)

TypeOK ==
    /\ infix \in Seq(Words \cup Symbols)
    /\ i \in 1..Len(infix) + 1
    /\ operators \in Seq(Operators \cup {"("})
    /\ output \in Seq(Words \cup Operators)
    /\ outcome \in {"parsing", "done", "exception", "undefined"}
-----------------------------------------------------------------------------
(* What the algorithm promises *)

(***************************************************************************)
(* Between parentheses the operators on the stack bind tighter and tighter *)
(* from the bottom to the top, two equal ones never meet: an operator that *)
(* binds looser than one below it would be applied to the wrong operands.  *)
(***************************************************************************)
StackOrdered ==
    \A k \in 1..Len(operators) - 1 :
        operators[k + 1] # "(" =>
            precedence(operators[k]) < precedence(operators[k + 1])

(***************************************************************************)
(* Every word and operator read so far is in the output or on the stack,   *)
(* as often as it was read: popping neither loses nor repeats one.         *)
(***************************************************************************)
NothingDropped ==
    \A t \in Words \cup Operators :
        Occurrences(output, Len(output), t)
            + Occurrences(operators, Len(operators), t)
          = Occurrences(infix, i - 1, t)

\* No parenthesis of q is closed before it is opened, and all are closed.
Balanced(q) ==
    /\ \A n \in 0..Len(q) : Occurrences(q, n, ")") <= Occurrences(q, n, "(")
    /\ Occurrences(q, Len(q), ")") = Occurrences(q, Len(q), "(")

(***************************************************************************)
(* The call returns exactly for the queries whose parentheses match.  Only *)
(* the others end in an exception, or in the top of an empty stack.        *)
(***************************************************************************)
ReturnsIfBalanced ==
    /\ outcome = "done" => Balanced(infix)
    /\ outcome \in {"exception", "undefined"} => ~Balanced(infix)

\* The queries with their meaning, evaluated once by TLC.
Plain == Grammar(MaxQuery, FALSE)
Nested == Grammar(MaxQuery, TRUE)

\* The documents there can be, in some order.
Numbered ==
    CHOOSE s \in [1..Cardinality(Documents) -> Documents] :
        Elements(s) = Documents

MeansWhatItSays(grammar) ==
    outcome # "parsing" /\ Len(infix) <= MaxQuery =>
        \A e \in grammar[Len(infix)] :
            e[1] = infix => /\ outcome = "done"
                            /\ Answers(output, e[2], Numbered)

(***************************************************************************)
(* A query of the grammar is parsed, and what the IEE computes from the    *)
(* result is the set of documents that satisfy the query.  A negation that *)
(* is negated again has parentheses around it, as every negation of a      *)
(* composed query has in isen.cfg.                                         *)
(***************************************************************************)
MeaningKept == MeansWhatItSays(Plain)

(***************************************************************************)
(* The same for all queries, "!!a" included: SseClient::search says it     *)
(* applies "the shunting yard algorithm" (SseClient.cpp:139), by which a   *)
(* prefix operator waits for its operand.                                  *)
(***************************************************************************)
NegationsNest == MeansWhatItSays(Nested)
=============================================================================
