------------------------- MODULE QueryParserProofs --------------------------
(***************************************************************************)
(* Proofs about QueryParser, for all words and all inputs: the types, the  *)
(* order of the operators on the stack, that no token is lost, which       *)
(* inputs make shunting_yard return, and that what the IEE computes from   *)
(* its result is what the query means.                                     *)
(*                                                                         *)
(* The last of these goes along the grammar and not along the steps of the *)
(* algorithm.  The call is taken as a function of its state (Step), and    *)
(* Leads says that its steps go from one state to another.  Reads says     *)
(* what the call does with a phrase wherever it stands in the input: the   *)
(* tokens it puts out, followed by the operators it leaves on the stack,   *)
(* denote the meaning of the phrase.  There is one lemma per production of *)
(* the grammar, and the table of all phrases is built from them.           *)
(***************************************************************************)
EXTENDS QueryParser, EvaluatorProofs

(***************************************************************************)
(* The parentheses on the stack are those opened and not yet closed, and   *)
(* none was closed that was not open.                                      *)
(***************************************************************************)
OpenCounted ==
    outcome = "parsing" =>
        /\ Occurrences(operators, Len(operators), "(")
             + Occurrences(infix, i - 1, ")")
           = Occurrences(infix, i - 1, "(")
        /\ \A n \in 0..i - 1 :
              Occurrences(infix, n, ")") <= Occurrences(infix, n, "(")

-----------------------------------------------------------------------------
(* Counting: Occurrences of VecInt *)

\* How often d occurs is a number.
LEMMA OccurrencesType ==
    ASSUME NEW v, NEW n \in Nat, NEW d PROVE Occurrences(v, n, d) \in Nat
  <1>1. IsFiniteSet(1..n)
    BY FS_Interval
  <1>2. IsFiniteSet({j \in 1..n : v[j] = d})
    BY <1>1, FS_Subset
  <1> QED BY <1>2, FS_CardinalityType DEF Occurrences

\* Among no elements nothing occurs.
LEMMA OccurrencesNone == ASSUME NEW v, NEW d PROVE Occurrences(v, 0, d) = 0
  <1>1. {j \in 1..0 : v[j] = d} = {}
    OBVIOUS
  <1> QED BY <1>1, FS_EmptySet DEF Occurrences

\* One element more counts if it is d.
LEMMA OccurrencesNext ==
    ASSUME NEW v, NEW n \in Nat, NEW d
    PROVE  Occurrences(v, n + 1, d)
             = Occurrences(v, n, d) + (IF v[n + 1] = d THEN 1 ELSE 0)
  <1> DEFINE S == {j \in 1..n : v[j] = d}
             T == {j \in 1..n + 1 : v[j] = d}
  <1>1. IsFiniteSet(1..n)
    BY FS_Interval
  <1>2. IsFiniteSet(S)
    BY <1>1, FS_Subset
  <1>3. n + 1 \notin S
    OBVIOUS
  <1>4. Cardinality(S) \in Nat
    BY <1>2, FS_CardinalityType
  <1>5. CASE v[n + 1] = d
    <2>1. T = S \cup {n + 1}
      BY <1>5
    <2> QED BY <1>2, <1>3, <1>4, <1>5, <2>1, FS_AddElement DEF Occurrences
  <1>6. CASE v[n + 1] # d
    <2>1. T = S
      BY <1>6
    <2> QED BY <1>4, <1>6, <2>1 DEF Occurrences
  <1> QED BY <1>5, <1>6

\* Only the first n elements count.
LEMMA OccurrencesSame ==
    ASSUME NEW u, NEW v, NEW n \in Nat, NEW d, \A j \in 1..n : u[j] = v[j]
    PROVE  Occurrences(u, n, d) = Occurrences(v, n, d)
  <1>1. {j \in 1..n : u[j] = d} = {j \in 1..n : v[j] = d}
    OBVIOUS
  <1> QED BY <1>1 DEF Occurrences

\* What Append does to a count.
LEMMA OccurrencesAppend ==
    ASSUME NEW S, NEW s \in Seq(S), NEW e \in S, NEW d
    PROVE  Occurrences(Append(s, e), Len(Append(s, e)), d)
             = Occurrences(s, Len(s), d) + (IF e = d THEN 1 ELSE 0)
  <1> DEFINE t == Append(s, e)
  <1>1. /\ Len(s) \in Nat
        /\ Len(t) = Len(s) + 1
        /\ t[Len(s) + 1] = e
        /\ \A j \in 1..Len(s) : t[j] = s[j]
    BY AppendProperties
  <1>2. Occurrences(t, Len(s), d) = Occurrences(s, Len(s), d)
    <2> HIDE DEF t
    <2> QED BY <1>1, OccurrencesSame
  <1>3. Occurrences(t, Len(s) + 1, d)
          = Occurrences(t, Len(s), d) + (IF t[Len(s) + 1] = d THEN 1 ELSE 0)
    <2>1. Len(s) \in Nat
      BY <1>1
    <2> HIDE DEF t
    <2> QED BY <2>1, OccurrencesNext
  <1> QED BY <1>1, <1>2, <1>3

\* What is left when the top of a stack is popped.
LEMMA Popped ==
    ASSUME NEW S, NEW s \in Seq(S), s # <<>>
    PROVE  LET rest == SubSeq(s, 1, Len(s) - 1)
           IN  /\ Len(s) \in Nat \ {0}
               /\ s[Len(s)] \in S
               /\ rest \in Seq(S)
               /\ Len(rest) = Len(s) - 1
               /\ \A j \in 1..Len(s) - 1 : rest[j] = s[j]
  <1>1. Len(s) \in Nat \ {0}
    BY EmptySeq
  <1>2. s[Len(s)] \in S
    BY <1>1
  <1> QED BY <1>1, <1>2, SubSeqProperties

\* What popping does to a count.
LEMMA OccurrencesPopped ==
    ASSUME NEW S, NEW s \in Seq(S), s # <<>>, NEW d
    PROVE  LET rest == SubSeq(s, 1, Len(s) - 1)
           IN  Occurrences(s, Len(s), d)
                 = Occurrences(rest, Len(rest), d)
                     + (IF s[Len(s)] = d THEN 1 ELSE 0)
  <1> DEFINE rest == SubSeq(s, 1, Len(s) - 1)
             n == Len(s) - 1
  <1>1. /\ n \in Nat
        /\ Len(s) = n + 1
        /\ Len(rest) = n
        /\ \A j \in 1..n : rest[j] = s[j]
    BY Popped
  <1>2. Occurrences(rest, n, d) = Occurrences(s, n, d)
    <2> HIDE DEF rest, n
    <2> QED BY <1>1, OccurrencesSame
  <1>3. Occurrences(s, n + 1, d)
          = Occurrences(s, n, d) + (IF s[n + 1] = d THEN 1 ELSE 0)
    BY <1>1, OccurrencesNext
  <1> QED BY <1>1, <1>2, <1>3
-----------------------------------------------------------------------------
(* The stack *)

\* Precedences are numbers, that of an operator is not that of "(".
LEMMA PrecedenceType ==
    /\ \A op \in Operators \cup {"("} : precedence(op) \in Int
    /\ \A op \in Operators : precedence(op) > 0
    /\ precedence("(") = -1
  BY DEF precedence, Operators

\* PopHigher pops an operator: there is one, and it is no parenthesis.
LEMMA PoppedHigher ==
    ASSUME TypeOK, PopHigher
    PROVE  operators # <<>> /\ Top \in Operators
  <1>1. infix[i] \in Operators /\ TopPrecedence >= precedence(infix[i])
    BY DEF PopHigher, BindsFirst, AtToken
  <1>2. precedence(infix[i]) > 0
    BY <1>1, PrecedenceType
  <1>3. operators # <<>>
    BY <1>1, <1>2 DEF TopPrecedence, Operators, precedence
  <1>4. Top \in Operators \cup {"("}
    BY <1>3, Popped DEF TypeOK, Top
  <1>5. TopPrecedence = precedence(Top)
    BY <1>3 DEF TopPrecedence
  <1>6. Top # "("
    BY <1>1, <1>2, <1>5, PrecedenceType DEF precedence, Operators
  <1> QED BY <1>3, <1>4, <1>6

\* What is popped is taken off the end of operators.
LEMMA PoppedOperators ==
    ASSUME TypeOK, operators # <<>>, Pop
    PROVE  /\ operators' \in Seq(Operators \cup {"("})
           /\ Len(operators) \in Nat \ {0}
           /\ Len(operators') = Len(operators) - 1
           /\ \A j \in 1..Len(operators') : operators'[j] = operators[j]
           /\ Top \in Operators \cup {"("}
           /\ \A t : Occurrences(operators, Len(operators), t)
                    = Occurrences(operators', Len(operators'), t)
                        + (IF Top = t THEN 1 ELSE 0)
  <1>1. operators \in Seq(Operators \cup {"("})
    BY DEF TypeOK
  <1>2. ASSUME NEW t
        PROVE  Occurrences(operators, Len(operators), t)
                 = Occurrences(operators', Len(operators'), t)
                     + (IF Top = t THEN 1 ELSE 0)
    BY <1>1, OccurrencesPopped DEF Pop, Top
  <1> QED BY <1>1, <1>2, Popped DEF Pop, Top

\* What is pushed comes behind the last of operators.
LEMMA PushedOperators ==
    ASSUME TypeOK, NEW e \in Operators \cup {"("},
           operators' = Append(operators, e)
    PROVE  /\ operators' \in Seq(Operators \cup {"("})
           /\ Len(operators) \in Nat
           /\ Len(operators') = Len(operators) + 1
           /\ operators'[Len(operators) + 1] = e
           /\ \A j \in 1..Len(operators) : operators'[j] = operators[j]
           /\ \A t : Occurrences(operators', Len(operators'), t)
                    = Occurrences(operators, Len(operators), t)
                        + (IF e = t THEN 1 ELSE 0)
  <1>1. operators \in Seq(Operators \cup {"("})
    BY DEF TypeOK
  <1>2. ASSUME NEW t
        PROVE  Occurrences(operators', Len(operators'), t)
                 = Occurrences(operators, Len(operators), t)
                     + (IF e = t THEN 1 ELSE 0)
    BY <1>1, OccurrencesAppend
  <1> QED BY <1>1, <1>2

\* What is put out comes behind the rest of the output.
LEMMA PutOut ==
    ASSUME TypeOK, NEW e \in Words \cup Operators,
           output' = Append(output, e)
    PROVE  /\ output' \in Seq(Words \cup Operators)
           /\ \A t : Occurrences(output', Len(output'), t)
                    = Occurrences(output, Len(output), t)
                        + (IF e = t THEN 1 ELSE 0)
  <1>1. output \in Seq(Words \cup Operators)
    BY DEF TypeOK
  <1>2. ASSUME NEW t
        PROVE  Occurrences(output', Len(output'), t)
                 = Occurrences(output, Len(output), t)
                     + (IF e = t THEN 1 ELSE 0)
    BY <1>1, OccurrencesAppend
  <1> QED BY <1>1, <1>2

\* A token is read: it counts among those before the next index.
LEMMA ReadToken ==
    ASSUME TypeOK, NEW tokens, AtToken(tokens)
    PROVE  /\ infix[i] \in tokens
           /\ i \in 1..Len(infix)
           /\ Len(infix) \in Nat
           /\ \A t : /\ Occurrences(infix, i - 1, t) \in Nat
                    /\ Occurrences(infix, i, t)
                         = Occurrences(infix, i - 1, t)
                             + (IF infix[i] = t THEN 1 ELSE 0)
  <1>1. i \in DOMAIN infix /\ infix \in Seq(Words \cup Symbols)
    BY DEF TypeOK, AtToken
  <1>2. i \in 1..Len(infix) /\ Len(infix) \in Nat
    BY <1>1
  <1>3. infix[i] \in tokens
    BY DEF AtToken
  <1>4. i - 1 \in Nat /\ (i - 1) + 1 = i
    BY <1>2
  <1>5. ASSUME NEW t
        PROVE  /\ Occurrences(infix, i - 1, t) \in Nat
               /\ Occurrences(infix, i, t)
                    = Occurrences(infix, i - 1, t)
                        + (IF infix[i] = t THEN 1 ELSE 0)
    <2>1. Occurrences(infix, (i - 1) + 1, t)
            = Occurrences(infix, i - 1, t)
                + (IF infix[(i - 1) + 1] = t THEN 1 ELSE 0)
      BY <1>4, OccurrencesNext
    <2> QED BY <1>4, <2>1, OccurrencesType
  <1> QED BY <1>2, <1>3, <1>5
-----------------------------------------------------------------------------
(* Types *)

\* Every step keeps the types.
LEMMA NextType == ASSUME TypeOK, [Next]_vars PROVE TypeOK'
  <1>0. /\ infix \in Seq(Words \cup Symbols)
        /\ i \in 1..Len(infix) + 1
        /\ Len(infix) \in Nat
        /\ operators \in Seq(Operators \cup {"("})
        /\ output \in Seq(Words \cup Operators)
        /\ outcome \in {"parsing", "done", "exception", "undefined"}
    BY DEF TypeOK
  <1>1. CASE Word
    BY <1>0, <1>1, ReadToken, PutOut DEF Word, AtToken, TypeOK
  <1>2. CASE PopHigher
    BY <1>0, <1>2, PoppedHigher, PoppedOperators, PutOut DEF PopHigher, TypeOK
  <1>3. CASE PushOperator
    BY <1>0, <1>3, ReadToken, PushedOperators
       DEF PushOperator, AtToken, TypeOK
  <1>4. CASE Open
    BY <1>0, <1>4, ReadToken, PushedOperators DEF Open, AtToken, TypeOK
  <1>5. CASE PopToOpen
    BY <1>0, <1>5, PoppedOperators, PutOut DEF PopToOpen, TypeOK
  <1>6. CASE Close
    BY <1>0, <1>6, ReadToken, PoppedOperators DEF Close, AtToken, TypeOK
  <1>7. CASE TopOfNothing
    BY <1>0, <1>7 DEF TopOfNothing, TypeOK
  <1>8. CASE PopRest
    BY <1>0, <1>8, PoppedOperators, PutOut DEF PopRest, TypeOK
  <1>9. CASE Return
    BY <1>0, <1>9 DEF Return, TypeOK
  <1>10. CASE UNCHANGED vars
    BY <1>0, <1>10 DEF vars, TypeOK
  <1> QED BY <1>1, <1>2, <1>3, <1>4, <1>5, <1>6, <1>7, <1>8, <1>9, <1>10
          DEF Next

\* The call starts with the right types.
LEMMA InitType == Init => TypeOK
  BY ParserAssumption DEF Init, TypeOK

\* The output of shunting_yard holds words and operators only, its stack
\* operators and "(", whatever the query.
THEOREM ParserTypeCorrect == Spec => []TypeOK
  BY InitType, NextType, PTL DEF Spec
-----------------------------------------------------------------------------
(* The order on the stack *)

\* Popping leaves the rest of the stack in order.
LEMMA PopKeepsOrder ==
    ASSUME TypeOK, StackOrdered, operators # <<>>, Pop PROVE StackOrdered'
  <1> SUFFICES ASSUME NEW k \in 1..Len(operators') - 1,
                      operators'[k + 1] # "("
               PROVE  precedence(operators'[k])
                        < precedence(operators'[k + 1])
    BY DEF StackOrdered, precedence
  <1>1. /\ k \in 1..Len(operators) - 1
        /\ operators'[k] = operators[k]
        /\ operators'[k + 1] = operators[k + 1]
    BY PoppedOperators
  <1> QED BY <1>1 DEF StackOrdered

\* Pushing a token above a top that binds looser keeps the order, pushing a
\* parenthesis always does.
LEMMA PushKeepsOrder ==
    ASSUME TypeOK, StackOrdered, NEW e \in Operators \cup {"("},
           operators' = Append(operators, e),
           e = "(" \/ ~BindsFirst(e)
    PROVE  StackOrdered'
  <1> SUFFICES ASSUME NEW k \in 1..Len(operators') - 1,
                      operators'[k + 1] # "("
               PROVE  precedence(operators'[k])
                        < precedence(operators'[k + 1])
    BY DEF StackOrdered, precedence
  <1>1. /\ Len(operators) \in Nat
        /\ k \in 1..Len(operators)
        /\ operators'[k] = operators[k]
        /\ k < Len(operators) => operators'[k + 1] = operators[k + 1]
        /\ operators'[Len(operators) + 1] = e
    BY PushedOperators
  <1>2. CASE k < Len(operators)
    BY <1>1, <1>2 DEF StackOrdered
  <1>3. CASE k = Len(operators)
    <2>1. operators # <<>>
      BY <1>1, <1>3
    <2>2. TopPrecedence = precedence(operators[k])
      BY <1>3, <2>1 DEF TopPrecedence, Top
    <2>3. /\ precedence(operators[k]) \in Int
          /\ precedence(e) \in Int
      BY <1>1, <1>3, PrecedenceType DEF TypeOK
    <2> QED BY <1>1, <1>3, <2>2, <2>3 DEF BindsFirst
  <1> QED BY <1>1, <1>2, <1>3

\* Every step keeps the order.
LEMMA NextOrder ==
    ASSUME TypeOK, StackOrdered, [Next]_vars PROVE StackOrdered'
  <1>1. CASE PopHigher
    BY <1>1, PoppedHigher, PopKeepsOrder DEF PopHigher
  <1>2. CASE PushOperator
    BY <1>2, PushKeepsOrder DEF PushOperator, AtToken
  <1>3. CASE Open
    BY <1>3, PushKeepsOrder DEF Open
  <1>4. CASE PopToOpen
    BY <1>4, PopKeepsOrder DEF PopToOpen
  <1>5. CASE Close
    BY <1>5, PopKeepsOrder DEF Close
  <1>6. CASE PopRest
    BY <1>6, PopKeepsOrder DEF PopRest
  <1>7. CASE UNCHANGED operators
    BY <1>7 DEF StackOrdered
  <1> QED BY <1>1, <1>2, <1>3, <1>4, <1>5, <1>6, <1>7
          DEF Next, Word, TopOfNothing, Return, vars

\* Between parentheses the operators on the stack bind strictly tighter from
\* the bottom to the top.
THEOREM OperatorsOrdered == Spec => []StackOrdered
  <1>1. Init => StackOrdered
    BY DEF Init, StackOrdered
  <1> QED BY <1>1, InitType, NextType, NextOrder, PTL DEF Spec
-----------------------------------------------------------------------------
(* No token is lost *)

\* Every step keeps the count of every word and operator.
LEMMA NextDropsNothing ==
    ASSUME TypeOK, NothingDropped, [Next]_vars PROVE NothingDropped'
  <1> SUFFICES ASSUME NEW t \in Words \cup Operators
               PROVE  Occurrences(output', Len(output'), t)
                        + Occurrences(operators', Len(operators'), t)
                      = Occurrences(infix', i' - 1, t)
    BY DEF NothingDropped, Occurrences
  <1>0. /\ Occurrences(output, Len(output), t) \in Nat
        /\ Occurrences(operators, Len(operators), t) \in Nat
        /\ Occurrences(operators', Len(operators'), t) \in Nat
        /\ Occurrences(infix, i - 1, t) \in Nat
        /\ Occurrences(output, Len(output), t)
             + Occurrences(operators, Len(operators), t)
           = Occurrences(infix, i - 1, t)
    <2>1. /\ Len(output) \in Nat
          /\ Len(operators) \in Nat
          /\ i - 1 \in Nat
      BY DEF TypeOK
    <2>2. Len(operators') \in Nat
      BY NextType DEF TypeOK
    <2> QED BY <2>1, <2>2, OccurrencesType DEF NothingDropped
  <1>1. t # "(" /\ t # ")"
    BY ParserAssumption DEF Symbols, Operators
  <1>2. i \in Nat /\ (i + 1) - 1 = i
    BY DEF TypeOK
  <1>3. CASE Word
    <2>1. AtToken(Words) /\ output' = Append(output, infix[i])
      BY <1>3 DEF Word
    <2>2. infix[i] \in Words \cup Operators
      BY <2>1, ReadToken
    <2> QED BY <1>0, <1>2, <1>3, <2>1, <2>2, ReadToken, PutOut DEF Word
  <1>4. CASE PopHigher
    <2>1. operators # <<>> /\ Top \in Words \cup Operators /\ Pop
                           /\ output' = Append(output, Top)
      BY <1>4, PoppedHigher DEF PopHigher
    <2>2. Occurrences(operators, Len(operators), t)
            = Occurrences(operators', Len(operators'), t)
                + (IF Top = t THEN 1 ELSE 0)
      BY <2>1, PoppedOperators
    <2>3. Occurrences(output', Len(output'), t)
            = Occurrences(output, Len(output), t)
                + (IF Top = t THEN 1 ELSE 0)
      BY <2>1, PutOut
    <2>4. infix' = infix /\ i' = i
      BY <1>4 DEF PopHigher
    <2> QED BY <1>0, <2>2, <2>3, <2>4
  <1>5. CASE PushOperator
    <2>1. AtToken(Operators) /\ operators' = Append(operators, infix[i])
      BY <1>5 DEF PushOperator
    <2>2. infix[i] \in Operators \cup {"("}
      BY <2>1, ReadToken
    <2>3. Occurrences(operators', Len(operators'), t)
            = Occurrences(operators, Len(operators), t)
                + (IF infix[i] = t THEN 1 ELSE 0)
      BY <2>1, <2>2, PushedOperators
    <2>4. Occurrences(infix, i, t)
            = Occurrences(infix, i - 1, t) + (IF infix[i] = t THEN 1 ELSE 0)
      BY <2>1, ReadToken
    <2>5. infix' = infix /\ i' = i + 1 /\ output' = output
      BY <1>5 DEF PushOperator
    <2> QED BY <1>0, <1>2, <2>3, <2>4, <2>5
  <1>6. CASE Open
    <2>1. AtToken({"("}) /\ operators' = Append(operators, "(")
      BY <1>6 DEF Open
    <2>2. infix[i] = "("
      BY <2>1, ReadToken
    <2> QED BY <1>0, <1>1, <1>2, <1>6, <2>1, <2>2, ReadToken, PushedOperators
            DEF Open
  <1>7. CASE PopToOpen
    <2>1. operators # <<>> /\ Pop /\ output' = Append(output, Top)
      BY <1>7 DEF PopToOpen
    <2>2. Top \in Words \cup Operators
      BY <1>7, <2>1, PoppedOperators DEF PopToOpen
    <2> QED BY <1>0, <1>7, <2>1, <2>2, PoppedOperators, PutOut DEF PopToOpen
  <1>8. CASE Close
    <2>1. AtToken({")"}) /\ operators # <<>> /\ Pop /\ Top = "("
      BY <1>8 DEF Close
    <2>2. infix[i] = ")"
      BY <2>1, ReadToken
    <2> QED BY <1>0, <1>1, <1>2, <1>8, <2>1, <2>2, ReadToken, PoppedOperators
            DEF Close
  <1>9. CASE PopRest
    BY <1>0, <1>1, <1>9, PoppedOperators, PutOut DEF PopRest
  <1>10. CASE UNCHANGED <<infix, i, operators, output>>
    BY <1>0, <1>10
  <1> QED BY <1>3, <1>4, <1>5, <1>6, <1>7, <1>8, <1>9, <1>10
          DEF Next, TopOfNothing, Return, vars

\* Every word and operator read is in the output or on the stack, as often
\* as it was read.
THEOREM TokensKept == Spec => []NothingDropped
  <1>1. Init => NothingDropped
    BY OccurrencesNone, ParserAssumption DEF Init, NothingDropped
  <1> QED BY <1>1, InitType, NextType, NextDropsNothing, PTL DEF Spec
-----------------------------------------------------------------------------
(* Parentheses *)

\* While the call goes on, a step that reads a token other than a
\* parenthesis, or pops an operator, keeps the count of the open ones.
LEMMA NextCounts ==
    ASSUME TypeOK, OpenCounted, [Next]_vars PROVE OpenCounted'
  <1> SUFFICES ASSUME outcome' = "parsing"
               PROVE  /\ Occurrences(operators', Len(operators'), "(")
                           + Occurrences(infix', i' - 1, ")")
                         = Occurrences(infix', i' - 1, "(")
                      /\ \A n \in 0..i' - 1 :
                            Occurrences(infix', n, ")")
                              <= Occurrences(infix', n, "(")
    BY DEF OpenCounted, Occurrences
  <1> DEFINE opened(n) == Occurrences(infix, n, "(")
             closed(n) == Occurrences(infix, n, ")")
             stacked == Occurrences(operators, Len(operators), "(")
  <1>1. /\ i - 1 \in Nat
        /\ (i + 1) - 1 = i
        /\ Len(operators) \in Nat
        /\ Len(operators') \in Nat
    BY NextType DEF TypeOK
  <1>2. /\ stacked \in Nat
        /\ opened(i - 1) \in Nat
        /\ closed(i - 1) \in Nat
        /\ Occurrences(operators', Len(operators'), "(") \in Nat
    BY <1>1, OccurrencesType
  <1>3. outcome = "parsing"
    BY DEF Next, Word, PopHigher, PushOperator, Open, PopToOpen, Close,
           TopOfNothing, PopRest, Return, AtToken, vars
  <1>4. /\ stacked + closed(i - 1) = opened(i - 1)
        /\ \A n \in 0..i - 1 : closed(n) <= opened(n)
    BY <1>3 DEF OpenCounted
  <1>5. /\ "(" # ")"
        /\ "(" \notin Words \cup Operators
        /\ ")" \notin Words \cup Operators
    BY ParserAssumption DEF Symbols, Operators
  \* Reading a token that leaves closed(i) <= opened(i)
  <1>6. ASSUME NEW tokens, AtToken(tokens), infix' = infix, i' = i + 1,
               Occurrences(operators', Len(operators'), "(") + closed(i)
                 = opened(i)
        PROVE  /\ Occurrences(operators', Len(operators'), "(")
                    + Occurrences(infix', i' - 1, ")")
                  = Occurrences(infix', i' - 1, "(")
               /\ \A n \in 0..i' - 1 :
                     Occurrences(infix', n, ")")
                       <= Occurrences(infix', n, "(")
    <2>1. i \in Nat \ {0} /\ opened(i) \in Nat /\ closed(i) \in Nat
      BY <1>1, <1>6, OccurrencesType
    <2>2. closed(i) <= opened(i)
      BY <1>2, <1>6, <2>1
    <2>3. \A n \in 0..i : n \in 0..i - 1 \/ n = i
      BY <2>1
    <2>4. \A n \in 0..i : closed(n) <= opened(n)
      BY <1>4, <2>2, <2>3
    <2> QED BY <1>1, <1>6, <2>4
  \* Popping an operator
  <1>7. ASSUME operators # <<>>, Pop, Top # "(", infix' = infix, i' = i
        PROVE  /\ Occurrences(operators', Len(operators'), "(")
                    + Occurrences(infix', i' - 1, ")")
                  = Occurrences(infix', i' - 1, "(")
               /\ \A n \in 0..i' - 1 :
                     Occurrences(infix', n, ")")
                       <= Occurrences(infix', n, "(")
    <2>1. Occurrences(operators', Len(operators'), "(") = stacked
      BY <1>2, <1>7, PoppedOperators
    <2> QED BY <1>4, <1>7, <2>1
  <1>8. CASE Word
    <2>1. AtToken(Words) /\ infix' = infix /\ i' = i + 1
                         /\ operators' = operators
      BY <1>8 DEF Word
    <2>2. opened(i) = opened(i - 1) /\ closed(i) = closed(i - 1)
      BY <1>2, <1>5, <2>1, ReadToken
    <2> QED BY <1>4, <1>6, <2>1, <2>2
  <1>9. CASE PopHigher
    <2>1. operators # <<>> /\ Top # "("
      BY <1>5, <1>9, PoppedHigher
    <2> QED BY <1>7, <1>9, <2>1 DEF PopHigher
  <1>10. CASE PushOperator
    <2>1. AtToken(Operators) /\ infix' = infix /\ i' = i + 1
                             /\ operators' = Append(operators, infix[i])
      BY <1>10 DEF PushOperator
    <2>2. infix[i] \in Operators
      BY <2>1 DEF AtToken
    <2>3. opened(i) = opened(i - 1) /\ closed(i) = closed(i - 1)
      BY <1>2, <1>5, <2>1, <2>2, ReadToken
    <2>4. Occurrences(operators', Len(operators'), "(") = stacked
      BY <1>2, <1>5, <2>1, <2>2, PushedOperators
    <2> QED BY <1>4, <1>6, <2>1, <2>3, <2>4
  <1>11. CASE Open
    <2>1. AtToken({"("}) /\ infix' = infix /\ i' = i + 1
                         /\ operators' = Append(operators, "(")
      BY <1>11 DEF Open
    <2>2. opened(i) = opened(i - 1) + 1 /\ closed(i) = closed(i - 1)
      BY <1>2, <1>5, <2>1, ReadToken
    <2>3. Occurrences(operators', Len(operators'), "(") = stacked + 1
      BY <1>2, <2>1, PushedOperators
    <2> QED BY <1>2, <1>4, <1>6, <2>1, <2>2, <2>3
  <1>12. CASE PopToOpen
    BY <1>7, <1>12 DEF PopToOpen
  <1>13. CASE Close
    <2>1. AtToken({")"}) /\ infix' = infix /\ i' = i + 1
                         /\ operators # <<>> /\ Top = "(" /\ Pop
      BY <1>13 DEF Close
    <2>2. opened(i) = opened(i - 1) /\ closed(i) = closed(i - 1) + 1
      BY <1>2, <1>5, <2>1, ReadToken
    <2>3. stacked = Occurrences(operators', Len(operators'), "(") + 1
      BY <1>2, <2>1, PoppedOperators
    <2> QED BY <1>2, <1>4, <1>6, <2>1, <2>2, <2>3
  <1>14. CASE PopRest
    BY <1>7, <1>14 DEF PopRest
  <1>15. CASE UNCHANGED vars
    BY <1>4, <1>15 DEF vars
  <1> QED BY <1>8, <1>9, <1>10, <1>11, <1>12, <1>13, <1>14, <1>15
          DEF Next, TopOfNothing, Return

\* A stack without parentheses, when ")" is read, means that one too many is
\* closed.
LEMMA ClosedTooOften ==
    ASSUME TypeOK, OpenCounted, AtToken({")"}),
           Occurrences(operators, Len(operators), "(") = 0
    PROVE  ~Balanced(infix)
  <1>1. /\ Occurrences(infix, i, ")") = Occurrences(infix, i - 1, ")") + 1
        /\ Occurrences(infix, i, "(") = Occurrences(infix, i - 1, "(")
        /\ Occurrences(infix, i - 1, "(") \in Nat
        /\ Occurrences(infix, i - 1, ")") \in Nat
        /\ i \in 0..Len(infix)
    BY ReadToken
  <1>2. Occurrences(infix, i - 1, ")") = Occurrences(infix, i - 1, "(")
    BY <1>1 DEF OpenCounted, AtToken
  <1>3. ~(Occurrences(infix, i, ")") <= Occurrences(infix, i, "("))
    BY <1>1, <1>2
  <1> QED BY <1>1, <1>3 DEF Balanced

\* The call ends as the parentheses say.
LEMMA NextReturns ==
    ASSUME TypeOK, OpenCounted, ReturnsIfBalanced, [Next]_vars
    PROVE  ReturnsIfBalanced'
  <1>1. infix' = infix
    BY DEF Next, Word, PopHigher, PushOperator, Open, PopToOpen, Close,
           TopOfNothing, PopRest, Return, vars
  <1>2. CASE outcome' = outcome
    BY <1>1, <1>2 DEF ReturnsIfBalanced
  <1>3. CASE PopToOpen /\ outcome' # outcome
    <2>1. /\ AtToken({")"})
          /\ operators # <<>>
          /\ Top # "("
          /\ Pop
          /\ Len(operators) = 1
          /\ outcome' = "exception"
      BY <1>3 DEF PopToOpen
    <2>2. Len(operators') = 0
      BY <2>1, PoppedOperators
    <2>3. Occurrences(operators', Len(operators'), "(") = 0
      BY <2>2, OccurrencesNone
    <2>4. Occurrences(operators, Len(operators), "(") = 0
      BY <2>1, <2>3, PoppedOperators
    <2> QED BY <1>1, <2>1, <2>4, ClosedTooOften DEF ReturnsIfBalanced
  <1>4. CASE TopOfNothing
    <2>1. /\ AtToken({")"})
          /\ Len(operators) = 0
          /\ outcome' = "undefined"
      BY <1>4 DEF TopOfNothing
    <2>2. Occurrences(operators, Len(operators), "(") = 0
      BY <2>1, OccurrencesNone
    <2> QED BY <1>1, <2>1, <2>2, ClosedTooOften DEF ReturnsIfBalanced
  <1>5. ASSUME outcome = "parsing", i > Len(infix)
        PROVE  /\ i - 1 = Len(infix)
               /\ \A n \in 0..Len(infix) :
                     Occurrences(infix, n, ")") <= Occurrences(infix, n, "(")
               /\ Occurrences(operators, Len(operators), "(")
                    + Occurrences(infix, Len(infix), ")")
                  = Occurrences(infix, Len(infix), "(")
               /\ Occurrences(infix, Len(infix), ")") \in Nat
               /\ Occurrences(infix, Len(infix), "(") \in Nat
               /\ Occurrences(operators, Len(operators), "(") \in Nat
    <2>1. i - 1 = Len(infix) /\ Len(infix) \in Nat /\ Len(operators) \in Nat
      BY <1>5 DEF TypeOK
    <2> QED BY <1>5, <2>1, OccurrencesType DEF OpenCounted
  <1>6. CASE PopRest /\ outcome' # outcome
    <2>1. /\ outcome = "parsing"
          /\ i > Len(infix)
          /\ operators # <<>>
          /\ Top = "("
          /\ Pop
          /\ outcome' = "exception"
      BY <1>6 DEF PopRest
    <2>2. /\ Len(operators') \in Nat
          /\ Occurrences(operators, Len(operators), "(")
               = Occurrences(operators', Len(operators'), "(") + 1
      BY <2>1, PoppedOperators
    <2>3. Occurrences(operators', Len(operators'), "(") \in Nat
      BY <2>2, OccurrencesType
    <2>4. Occurrences(infix, Len(infix), ")")
            # Occurrences(infix, Len(infix), "(")
      BY <1>5, <2>1, <2>2, <2>3
    <2> QED BY <1>1, <2>1, <2>4 DEF ReturnsIfBalanced, Balanced
  <1>7. CASE Return
    <2>1. /\ outcome = "parsing"
          /\ i > Len(infix)
          /\ Len(operators) = 0
          /\ outcome' = "done"
      BY <1>7 DEF Return
    <2>2. Occurrences(operators, Len(operators), "(") = 0
      BY <2>1, OccurrencesNone
    <2> QED BY <1>1, <1>5, <2>1, <2>2 DEF ReturnsIfBalanced, Balanced
  <1> QED BY <1>2, <1>3, <1>4, <1>6, <1>7
          DEF Next, Word, PopHigher, PushOperator, Open, Close, vars

\* shunting_yard returns only for queries whose parentheses match, and ends
\* in an exception or at the top of an empty stack only for the others.
THEOREM BalancedReturn == Spec => []ReturnsIfBalanced
  <1>1. Init => OpenCounted /\ ReturnsIfBalanced
    BY OccurrencesNone DEF Init, OpenCounted, ReturnsIfBalanced
  <1> QED BY <1>1, InitType, NextType, NextCounts, NextReturns, PTL DEF Spec
-----------------------------------------------------------------------------
(* What a sequence of tokens does to the values of a reverse Polish query *)

Tokens == Words \cup Operators

\* Operators are no words.
LEMMA TokensDisjoint ==
    /\ \A t \in Tokens : t \in Operators \/ (t \in Words /\ t \notin Operators)
    /\ Operators \subseteq Tokens
    /\ Words \cap Operators = {}
  BY ParserAssumption DEF Tokens, Symbols

\* A token more leaves the first ones as they were.
LEMMA PrefixKept ==
    ASSUME NEW q \in Seq(Tokens), NEW t \in Tokens, NEW d,
           NEW j \in 0..Len(q)
    PROVE  /\ Depth(Append(q, t))[j] = Depth(q)[j]
           /\ Truth(Append(q, t), d)[j] = Truth(q, d)[j]
  <1> DEFINE r == Append(q, t)
             T == {k \in 0..Len(q) : /\ Depth(r)[k] = Depth(q)[k]
                                     /\ Truth(r, d)[k] = Truth(q, d)[k]}
  <1>1. /\ Len(q) \in Nat /\ Len(r) = Len(q) + 1
        /\ \A k \in 1..Len(q) : r[k] = q[k]
    BY AppendProperties
  <1>2. /\ Depth(q)[0] = 0 /\ Depth(r)[0] = 0
        /\ \A k \in 1..Len(q) :
              Depth(q)[k] = Depth(q)[k - 1] - Needs(q[k]) + 1
        /\ \A k \in 1..Len(r) :
              Depth(r)[k] = Depth(r)[k - 1] - Needs(r[k]) + 1
    <2> HIDE DEF r
    <2>1. Len(r) \in Nat
      BY <1>1
    <2> QED BY <1>1, <2>1, DepthSteps
  <1>3. /\ Truth(q, d)[0] = <<>> /\ Truth(r, d)[0] = <<>>
        /\ \A k \in 1..Len(q) :
              Truth(q, d)[k] = Combine(q[k], Truth(q, d)[k - 1], d)
        /\ \A k \in 1..Len(r) :
              Truth(r, d)[k] = Combine(r[k], Truth(r, d)[k - 1], d)
    <2> HIDE DEF r
    <2>1. Len(r) \in Nat
      BY <1>1
    <2> QED BY <1>1, <2>1, TruthSteps
  <1> HIDE DEF r
  <1>4. 0 \in T
    BY <1>1, <1>2, <1>3
  <1>5. ASSUME NEW k \in 0..Len(q) - 1, k \in T
        PROVE  k + 1 \in T
    <2>1. /\ k + 1 \in 1..Len(q) /\ k + 1 \in 1..Len(r) /\ (k + 1) - 1 = k
          /\ k + 1 \in 0..Len(q)
      BY <1>1
    <2>2. Depth(r)[k] = Depth(q)[k] /\ Truth(r, d)[k] = Truth(q, d)[k]
      BY <1>5
    <2>3. Depth(r)[k + 1] = Depth(q)[k + 1]
      BY <1>1, <1>2, <2>1, <2>2
    <2>4. Truth(r, d)[k + 1] = Truth(q, d)[k + 1]
      BY <1>1, <1>3, <2>1, <2>2
    <2> QED BY <2>1, <2>3, <2>4
  <1> HIDE DEF T
  <1>6. \A k \in 0..Len(q) : k \in T
    BY <1>1, <1>4, <1>5, Induction
  <1> QED BY <1>6 DEF T, r

\* Have all tokens of q found their operands?
AllFed(q) == Fed(q, Len(q))

\* How many values q leaves, and which for a document.
Height(q) == Depth(q)[Len(q)]
Values(q, d) == Truth(q, d)[Len(q)]

\* What a token more does.
LEMMA TokenAdded ==
    ASSUME NEW q \in Seq(Tokens), NEW t \in Tokens
    PROVE  /\ AllFed(Append(q, t)) <=> AllFed(q) /\ Height(q) >= Needs(t)
           /\ Height(Append(q, t)) = Height(q) - Needs(t) + 1
           /\ \A d : Values(Append(q, t), d) = Combine(t, Values(q, d), d)
  <1> DEFINE r == Append(q, t)
             n == Len(q)
  <1>1. /\ n \in Nat /\ Len(r) = n + 1 /\ r[n + 1] = t /\ (n + 1) - 1 = n
        /\ \A k \in 1..n : r[k] = q[k]
        /\ n \in 0..n /\ n + 1 \in 1..n + 1
        /\ \A k \in 1..n : k - 1 \in 0..n
    BY AppendProperties
  <1>2. \A j \in 0..n : Depth(r)[j] = Depth(q)[j]
    BY PrefixKept
  <1>3. \A d : Truth(r, d)[n] = Truth(q, d)[n]
    BY <1>1, PrefixKept
  <1> HIDE DEF r, n
  <1>4. /\ \A k \in 1..n + 1 : Depth(r)[k] = Depth(r)[k - 1] - Needs(r[k]) + 1
        /\ \A d : \A k \in 1..n + 1 :
              Truth(r, d)[k] = Combine(r[k], Truth(r, d)[k - 1], d)
    <2>1. Len(r) \in Nat
      BY <1>1
    <2>2. ASSUME NEW d
          PROVE  \A k \in 1..Len(r) :
                    Truth(r, d)[k] = Combine(r[k], Truth(r, d)[k - 1], d)
      BY <2>1, TruthSteps
    <2> QED BY <1>1, <2>1, <2>2, DepthSteps
  <1>5. AllFed(r) <=> AllFed(q) /\ Height(q) >= Needs(t)
    <2>1. \A j \in 1..n + 1 : j \in 1..n \/ j = n + 1
      BY <1>1
    <2>2. 1..n \subseteq 1..n + 1
      BY <1>1
    <2>3. \A j \in 1..n : Depth(r)[j - 1] >= Needs(r[j])
                            <=> Depth(q)[j - 1] >= Needs(q[j])
      BY <1>1, <1>2
    <2>4. Depth(r)[(n + 1) - 1] >= Needs(r[n + 1]) <=> Height(q) >= Needs(t)
      BY <1>1, <1>2 DEF Height, n
    <2> QED BY <1>1, <2>1, <2>2, <2>3, <2>4 DEF AllFed, Fed, n
  <1>6. Height(r) = Height(q) - Needs(t) + 1
    BY <1>1, <1>2, <1>4 DEF Height, n
  <1>7. \A d : Values(r, d) = Combine(t, Values(q, d), d)
    BY <1>1, <1>3, <1>4 DEF Values, n
  <1> QED BY <1>5, <1>6, <1>7 DEF r

\* Values are truth values, and their number is one.
LEMMA ValuesType ==
    ASSUME NEW q \in Seq(Tokens)
    PROVE  /\ Height(q) \in Int
           /\ AllFed(q) => Height(q) >= 0
           /\ \A d : Values(q, d) \in Seq(BOOLEAN)
  <1>1. Len(q) \in Nat /\ Len(q) \in 0..Len(q)
    OBVIOUS
  <1>2. /\ Depth(q)[0] = 0
        /\ \A k \in 0..Len(q) : Depth(q)[k] \in Int
        /\ \A k \in 1..Len(q) :
              Depth(q)[k] = Depth(q)[k - 1] - Needs(q[k]) + 1
    BY <1>1, DepthSteps
  <1>3. AllFed(q) => Height(q) >= 0
    <2>1. CASE Len(q) = 0
      BY <1>2, <2>1 DEF Height
    <2>2. CASE Len(q) # 0
      <3>1. Len(q) \in 1..Len(q) /\ Len(q) - 1 \in 0..Len(q)
        BY <1>1, <2>2
      <3>2. Needs(q[Len(q)]) \in Int
        BY DEF Needs
      <3>3. /\ Depth(q)[Len(q)] = Depth(q)[Len(q) - 1] - Needs(q[Len(q)]) + 1
            /\ Depth(q)[Len(q) - 1] \in Int
        BY <1>2, <3>1
      <3>4. AllFed(q) => Depth(q)[Len(q) - 1] >= Needs(q[Len(q)])
        BY <3>1 DEF AllFed, Fed
      <3> QED BY <3>2, <3>3, <3>4 DEF Height
    <2> QED BY <2>1, <2>2
  <1>4. \A d : Values(q, d) \in Seq(BOOLEAN)
    BY <1>1, TruthSteps DEF Values
  <1> QED BY <1>1, <1>2, <1>3, <1>4 DEF Height

\* What the operators make of values that were appended.
LEMMA OperandsCombined ==
    ASSUME NEW s \in Seq(BOOLEAN), NEW a \in BOOLEAN, NEW b \in BOOLEAN,
           NEW words
    PROVE  /\ Combine("!", Append(s, a), words) = Append(s, ~a)
           /\ Combine("&", Append(Append(s, a), b), words) = Append(s, b /\ a)
           /\ Combine("|", Append(Append(s, a), b), words) = Append(s, b \/ a)
  <1> DEFINE s1 == Append(s, a)
             s2 == Append(s1, b)
             n == Len(s)
  <1>1. /\ n \in Nat /\ s1 \in Seq(BOOLEAN) /\ Len(s1) = n + 1
        /\ s1[n + 1] = a
        /\ \A k \in 1..n : s1[k] = s[k]
    BY AppendProperties
  <1> HIDE DEF s1
  <1>2. /\ Len(s2) = n + 2
        /\ s2[n + 2] = b /\ s2[n + 1] = a
        /\ \A k \in 1..n : s2[k] = s[k]
    <2>1. /\ Len(s2) = Len(s1) + 1
          /\ s2[Len(s1) + 1] = b
          /\ \A k \in 1..Len(s1) : s2[k] = s1[k]
      BY <1>1, AppendProperties
    <2>2. (n + 1) + 1 = n + 2 /\ n + 1 \in 1..n + 1 /\ 1..n \subseteq 1..n + 1
      BY <1>1
    <2> QED BY <1>1, <2>1, <2>2
  <1> HIDE DEF s2
  <1>3. ASSUME NEW r, NEW m, \A k \in 1..n : r[k] = s[k], m = n
        PROVE  SubSeq(r, 1, m) = s
    <2>1. \A k \in 1..n : r[k] \in BOOLEAN
      BY <1>3
    <2>2. /\ SubSeq(r, 1, n) \in Seq(BOOLEAN)
          /\ Len(SubSeq(r, 1, n)) = n
          /\ \A k \in 1..n : SubSeq(r, 1, n)[k] = r[k]
      BY <1>1, <2>1, SubSeqProperties
    <2> QED BY <1>3, <2>2, SeqEqual
  <1>4. /\ SubSeq(s1, 1, Len(s1) - 1) = s
        /\ SubSeq(s2, 1, Len(s2) - 2) = s
    <2>1. Len(s1) - 1 = n /\ Len(s2) - 2 = n
      BY <1>1, <1>2
    <2> QED BY <1>1, <1>2, <1>3, <2>1
  <1>5. s1[Len(s1)] = a /\ s2[Len(s2)] = b /\ s2[Len(s2) - 1] = a
    <2>1. Len(s2) - 1 = n + 1
      BY <1>1, <1>2
    <2> QED BY <1>1, <1>2, <2>1
  <1>6. Combine("!", s1, words) = Append(s, ~a)
    <2>1. Combine("!", s1, words)
            = Append(SubSeq(s1, 1, Len(s1) - 1), ~s1[Len(s1)])
      BY DEF Combine
    <2> QED BY ONLY <1>4, <1>5, <2>1
  <1>7. Combine("&", s2, words) = Append(s, b /\ a)
    <2>1. Combine("&", s2, words)
            = Append(SubSeq(s2, 1, Len(s2) - 2), s2[Len(s2)] /\ s2[Len(s2) - 1])
      BY DEF Combine
    <2> QED BY ONLY <1>4, <1>5, <2>1
  <1>8. Combine("|", s2, words) = Append(s, b \/ a)
    <2>1. Combine("|", s2, words)
            = Append(SubSeq(s2, 1, Len(s2) - 2), s2[Len(s2)] \/ s2[Len(s2) - 1])
      BY DEF Combine
    <2> QED BY ONLY <1>4, <1>5, <2>1
  <1> QED BY <1>6, <1>7, <1>8 DEF s1, s2

(***************************************************************************)
(* Behind any tokens that have found their operands, r leaves one value    *)
(* more: for each document, whether it is in T.                            *)
(***************************************************************************)
Denotes(r, T) ==
    /\ r \in Seq(Tokens)
    /\ \A p \in Seq(Tokens) : AllFed(p) =>
          /\ AllFed(p \o r)
          /\ Height(p \o r) = Height(p) + 1
          /\ \A d \in Documents :
                Values(p \o r, d) = Append(Values(p, d), d \in T)

\* A word.
LEMMA DenotesWord ==
    ASSUME NEW w \in Words PROVE Denotes(<<w>>, {d \in Documents : w \in d})
  <1>1. w \in Tokens /\ w \notin Operators /\ <<w>> \in Seq(Tokens)
    BY TokensDisjoint DEF Tokens
  <1>2. /\ Needs(w) = 0
        /\ \A s, d : Combine(w, s, d) = Append(s, w \in d)
    BY <1>1 DEF Needs, Combine, Operators
  <1>3. ASSUME NEW p \in Seq(Tokens), AllFed(p)
        PROVE  /\ AllFed(p \o <<w>>)
               /\ Height(p \o <<w>>) = Height(p) + 1
               /\ \A d \in Documents :
                     Values(p \o <<w>>, d)
                       = Append(Values(p, d), d \in {e \in Documents : w \in e})
    <2>1. p \o <<w>> = Append(p, w)
      BY <1>1, AppendIsConcat
    <2>2. /\ AllFed(Append(p, w)) <=> AllFed(p) /\ Height(p) >= 0
          /\ Height(Append(p, w)) = Height(p) - 0 + 1
          /\ \A d : Values(Append(p, w), d) = Combine(w, Values(p, d), d)
      BY <1>1, <1>2, TokenAdded
    <2>3. Height(p) \in Int /\ Height(p) >= 0
      BY <1>3, ValuesType
    <2>4. ASSUME NEW d \in Documents
          PROVE  Append(Values(p, d), w \in d)
                   = Append(Values(p, d), d \in {e \in Documents : w \in e})
      <3>1. (w \in d) = (d \in {e \in Documents : w \in e})
        OBVIOUS
      <3> QED BY ONLY <3>1
    <2>5. Height(p) - 0 + 1 = Height(p) + 1
      BY <2>3
    <2> QED BY <1>2, <1>3, <2>1, <2>2, <2>3, <2>4, <2>5
  <1> QED BY <1>1, <1>3 DEF Denotes

\* A negation.
LEMMA DenotesNegation ==
    ASSUME NEW r, NEW T, Denotes(r, T)
    PROVE  Denotes(r \o <<"!">>, Documents \ T)
  <1>1. "!" \in Tokens /\ <<"!">> \in Seq(Tokens) /\ Needs("!") = 1
    BY DEF Tokens, Operators, Needs
  <1>2. r \in Seq(Tokens) /\ r \o <<"!">> \in Seq(Tokens)
    BY <1>1, ConcatProperties DEF Denotes
  <1>3. ASSUME NEW p \in Seq(Tokens), AllFed(p)
        PROVE  /\ AllFed(p \o (r \o <<"!">>))
               /\ Height(p \o (r \o <<"!">>)) = Height(p) + 1
               /\ \A d \in Documents :
                     Values(p \o (r \o <<"!">>), d)
                       = Append(Values(p, d), d \in Documents \ T)
    <2> DEFINE q == p \o r
    <2>1. /\ q \in Seq(Tokens) /\ AllFed(q) /\ Height(q) = Height(p) + 1
          /\ \A d \in Documents : Values(q, d) = Append(Values(p, d), d \in T)
      BY <1>2, <1>3, ConcatProperties DEF Denotes
    <2> HIDE DEF q
    <2>2. p \o (r \o <<"!">>) = Append(q, "!")
      <3>1. p \o (r \o <<"!">>) = q \o <<"!">>
        BY <1>1, <1>2, ConcatAssociative DEF q
      <3> QED BY <1>1, <2>1, <3>1, AppendIsConcat
    <2>3. /\ AllFed(Append(q, "!")) <=> AllFed(q) /\ Height(q) >= 1
          /\ Height(Append(q, "!")) = Height(q) - 1 + 1
          /\ \A d : Values(Append(q, "!"), d) = Combine("!", Values(q, d), d)
      BY <1>1, <2>1, TokenAdded
    <2>4. /\ Height(p) \in Int /\ Height(p) >= 0
          /\ \A d : Values(p, d) \in Seq(BOOLEAN)
      BY <1>3, ValuesType
    <2>5. ASSUME NEW d \in Documents
          PROVE  Combine("!", Values(q, d), d)
                   = Append(Values(p, d), d \in Documents \ T)
      <3> DEFINE a == d \in T
      <3>0. a \in BOOLEAN
        OBVIOUS
      <3> HIDE DEF a
      <3>1. Combine("!", Append(Values(p, d), a), d) = Append(Values(p, d), ~a)
        BY <2>4, <3>0, OperandsCombined
      <3>2. (~a) = (d \in Documents \ T)
        BY DEF a
      <3>3. Values(q, d) = Append(Values(p, d), a)
        BY <2>1 DEF a
      <3> QED BY ONLY <3>1, <3>2, <3>3
    <2>6. Height(q) >= 1 /\ Height(q) - 1 + 1 = Height(p) + 1
      BY <2>1, <2>4
    <2> QED BY <2>1, <2>2, <2>3, <2>5, <2>6
  <1> QED BY <1>2, <1>3 DEF Denotes

\* A conjunction or a disjunction.
LEMMA DenotesBinary ==
    ASSUME NEW r1, NEW T1, Denotes(r1, T1), NEW r2, NEW T2, Denotes(r2, T2)
    PROVE  /\ Denotes((r1 \o r2) \o <<"&">>, T1 \cap T2)
           /\ Denotes((r1 \o r2) \o <<"|">>, T1 \cup T2)
  <1>1. /\ r1 \in Seq(Tokens) /\ r2 \in Seq(Tokens) /\ r1 \o r2 \in Seq(Tokens)
        /\ \A op \in Operators : op \in Tokens /\ <<op>> \in Seq(Tokens)
        /\ "&" \in Operators /\ "|" \in Operators
        /\ Needs("&") = 2 /\ Needs("|") = 2
    BY ConcatProperties DEF Denotes, Tokens, Needs, Operators
  <1>2. ASSUME NEW p \in Seq(Tokens), AllFed(p), NEW op \in {"&", "|"}
        PROVE  /\ AllFed(p \o ((r1 \o r2) \o <<op>>))
               /\ Height(p \o ((r1 \o r2) \o <<op>>)) = Height(p) + 1
               /\ \A d \in Documents :
                     Values(p \o ((r1 \o r2) \o <<op>>), d)
                       = Combine(op, Append(Append(Values(p, d), d \in T1),
                                            d \in T2), d)
    <2> DEFINE q1 == p \o r1
               q2 == q1 \o r2
    <2>1. /\ q1 \in Seq(Tokens) /\ AllFed(q1) /\ Height(q1) = Height(p) + 1
          /\ \A d \in Documents : Values(q1, d) = Append(Values(p, d), d \in T1)
      BY <1>1, <1>2, ConcatProperties DEF Denotes
    <2> HIDE DEF q1
    <2>2. /\ q2 \in Seq(Tokens) /\ AllFed(q2) /\ Height(q2) = Height(q1) + 1
          /\ \A d \in Documents : Values(q2, d) = Append(Values(q1, d), d \in T2)
      BY <1>1, <2>1, ConcatProperties DEF Denotes
    <2> HIDE DEF q2
    <2>3. p \o ((r1 \o r2) \o <<op>>) = Append(q2, op)
      <3>1. <<op>> \in Seq(Tokens) /\ op \in Tokens
        BY <1>1
      <3>2. p \o ((r1 \o r2) \o <<op>>) = (p \o (r1 \o r2)) \o <<op>>
        BY <1>1, <3>1, ConcatAssociative
      <3>3. p \o (r1 \o r2) = q2
        BY <1>1, ConcatAssociative DEF q1, q2
      <3> QED BY <2>2, <3>1, <3>2, <3>3, AppendIsConcat
    <2>4. /\ AllFed(Append(q2, op)) <=> AllFed(q2) /\ Height(q2) >= 2
          /\ Height(Append(q2, op)) = Height(q2) - 2 + 1
          /\ \A d : Values(Append(q2, op), d) = Combine(op, Values(q2, d), d)
      <3>1. op \in Tokens /\ Needs(op) = 2
        BY <1>1
      <3> QED BY <2>2, <3>1, TokenAdded
    <2>5. Height(p) \in Int /\ Height(p) >= 0
      BY <1>2, ValuesType
    <2>6. Height(q2) >= 2 /\ Height(q2) - 2 + 1 = Height(p) + 1
      BY <2>1, <2>2, <2>5
    <2> QED BY <2>1, <2>2, <2>3, <2>4, <2>6
  <1>3. ASSUME NEW p \in Seq(Tokens), NEW d \in Documents
        PROVE  /\ Combine("&", Append(Append(Values(p, d), d \in T1), d \in T2), d)
                    = Append(Values(p, d), d \in T1 \cap T2)
               /\ Combine("|", Append(Append(Values(p, d), d \in T1), d \in T2), d)
                    = Append(Values(p, d), d \in T1 \cup T2)
    <2> DEFINE a == d \in T1
               b == d \in T2
    <2>1. a \in BOOLEAN /\ b \in BOOLEAN /\ Values(p, d) \in Seq(BOOLEAN)
      BY ValuesType
    <2>2. (b /\ a) = (d \in T1 \cap T2) /\ (b \/ a) = (d \in T1 \cup T2)
      OBVIOUS
    <2> HIDE DEF a, b
    <2>3. /\ Combine("&", Append(Append(Values(p, d), a), b), d)
               = Append(Values(p, d), b /\ a)
          /\ Combine("|", Append(Append(Values(p, d), a), b), d)
               = Append(Values(p, d), b \/ a)
      BY <2>1, OperandsCombined
    <2>4. /\ Combine("&", Append(Append(Values(p, d), a), b), d)
               = Append(Values(p, d), d \in T1 \cap T2)
          /\ Combine("|", Append(Append(Values(p, d), a), b), d)
               = Append(Values(p, d), d \in T1 \cup T2)
      BY ONLY <2>2, <2>3
    <2> QED BY <2>4 DEF a, b
  <1>4. /\ (r1 \o r2) \o <<"&">> \in Seq(Tokens)
        /\ (r1 \o r2) \o <<"|">> \in Seq(Tokens)
    BY <1>1, ConcatProperties
  <1>5. Denotes((r1 \o r2) \o <<"&">>, T1 \cap T2)
    BY <1>2, <1>3, <1>4 DEF Denotes
  <1>6. Denotes((r1 \o r2) \o <<"|">>, T1 \cup T2)
    BY <1>2, <1>3, <1>4 DEF Denotes
  <1> QED BY <1>5, <1>6

\* By itself, r is a query that the documents in T satisfy.
LEMMA DenotesQuery ==
    ASSUME NEW r, NEW T, Denotes(r, T)
    PROVE  /\ r \in Seq(Tokens)
           /\ WellFormed(r)
           /\ \A d \in Documents : Holds(r, d) <=> d \in T
  <1>1. r \in Seq(Tokens) /\ <<>> \in Seq(Tokens) /\ <<>> \o r = r
    BY ConcatEmptySeq DEF Denotes
  <1>2. AllFed(<<>>) /\ Height(<<>>) = 0 /\ \A d : Values(<<>>, d) = <<>>
    <2>1. Len(<<>>) = 0
      OBVIOUS
    <2>2. Depth(<<>>)[0] = 0 /\ \A d : Truth(<<>>, d)[0] = <<>>
      BY <2>1, DepthSteps, TruthSteps
    <2> QED BY <2>1, <2>2 DEF AllFed, Fed, Height, Values
  <1>3. /\ AllFed(r) /\ Height(r) = 1
        /\ \A d \in Documents : Values(r, d) = Append(<<>>, d \in T)
    <2>1. /\ AllFed(<<>> \o r) /\ Height(<<>> \o r) = Height(<<>>) + 1
          /\ \A d \in Documents :
                Values(<<>> \o r, d) = Append(Values(<<>>, d), d \in T)
      BY <1>1, <1>2 DEF Denotes
    <2>2. 0 + 1 = 1
      OBVIOUS
    <2> QED BY <1>1, <1>2, <2>1, <2>2
  <1>4. WellFormed(r)
    BY <1>1, <1>3 DEF WellFormed, AllFed, Fed, Height
  <1>5. ASSUME NEW d \in Documents PROVE Holds(r, d) <=> d \in T
    <2> DEFINE a == d \in T
    <2>1. a \in BOOLEAN /\ Holds(r, d) = Append(<<>>, a)[1]
      BY <1>3 DEF Holds, Values
    <2> HIDE DEF a
    <2>2. Append(<<>>, a)[1] = a
      <3>1. <<>> \in Seq(BOOLEAN) /\ Len(<<>>) = 0
        OBVIOUS
      <3>2. Append(<<>>, a)[Len(<<>>) + 1] = a
        BY <2>1, <3>1, AppendProperties
      <3> QED BY <3>1, <3>2
    <2>3. Holds(r, d) = a
      BY <2>1, <2>2
    <2> QED BY <2>3 DEF a
  <1> QED BY <1>1, <1>4, <1>5

-----------------------------------------------------------------------------
(* The call as a function of its state *)

(***************************************************************************)
(* A state of the call.  Step is what the loops of shunting_yard do to it, *)
(* for the input q; NextIsStep says that Next does the same.               *)
(***************************************************************************)
Stacked == Operators \cup {"("}

Configs == [at : Nat, ops : Seq(Stacked), out : Seq(Tokens),
            end : {"parsing", "done", "exception", "undefined"}]

Conf(a, s, o) == [at |-> a, ops |-> s, out |-> o, end |-> "parsing"]
Ends(c, how) == [at |-> c.at, ops |-> c.ops, out |-> c.out, end |-> how]

TopOf(s) == s[Len(s)]
Under(s) == SubSeq(s, 1, Len(s) - 1)
TopBinds(s) == IF s = <<>> THEN -1 ELSE precedence(TopOf(s))

\* The top of the stack is put out.
Popping(c) == Conf(c.at, Under(c.ops), Append(c.out, TopOf(c.ops)))

AtOperator(t, c) ==
    IF TopBinds(c.ops) >= precedence(t) THEN Popping(c)
    ELSE Conf(c.at + 1, Append(c.ops, t), c.out)

AtClose(c) ==
    IF c.ops = <<>> THEN Ends(c, "undefined")
    ELSE IF TopOf(c.ops) = "(" THEN Conf(c.at + 1, Under(c.ops), c.out)
    ELSE IF Len(c.ops) = 1 THEN Ends(Popping(c), "exception")
    ELSE Popping(c)

AtEnd(c) ==
    IF c.ops = <<>> THEN Ends(c, "done")
    ELSE IF TopOf(c.ops) = "("
         THEN [at |-> c.at, ops |-> Under(c.ops), out |-> c.out,
               end |-> "exception"]
    ELSE Popping(c)

Step(q, c) ==
    IF c.at \notin 1..Len(q) THEN AtEnd(c)
    ELSE IF q[c.at] \in Words THEN Conf(c.at + 1, c.ops, Append(c.out, q[c.at]))
    ELSE IF q[c.at] \in Operators THEN AtOperator(q[c.at], c)
    ELSE IF q[c.at] = "(" THEN Conf(c.at + 1, Append(c.ops, "("), c.out)
    ELSE AtClose(c)

\* The state of the module's variables.
Now == [at |-> i, ops |-> operators, out |-> output, end |-> outcome]

\* The classes of tokens do not meet.
LEMMA SymbolsDisjoint ==
    /\ \A w \in Words : w \notin Operators /\ w # "(" /\ w # ")"
    /\ \A op \in Operators : op \notin Words /\ op # "(" /\ op # ")"
    /\ "(" \notin Words \cup Operators /\ ")" \notin Words \cup Operators
    /\ \A t \in Words \cup Symbols :
          t \in Words \/ t \in Operators \/ t = "(" \/ t = ")"
  BY ParserAssumption DEF Symbols, Operators

\* Each action of the module is a step.
LEMMA NextIsStep ==
    ASSUME TypeOK, Next
    PROVE  infix' = infix /\ outcome = "parsing" /\ Now' = Step(infix, Now)
  <1>1. /\ infix' = infix /\ outcome = "parsing"
        /\ Now' = [at |-> i', ops |-> operators', out |-> output',
                   end |-> outcome']
    BY DEF Now, Next, Word, PopHigher, PushOperator, Open, PopToOpen, Close,
           TopOfNothing, PopRest, Return, AtToken
  <1>2. /\ Now.at = i /\ Now.ops = operators /\ Now.out = output
        /\ TopOf(operators) = Top
        /\ TopBinds(operators) = TopPrecedence
        /\ Now.end = "parsing"
    BY <1>1 DEF Now, TopOf, Top, TopBinds, TopPrecedence
  <1>3. /\ infix \in Seq(Words \cup Symbols)
        /\ i \in 1..Len(infix) + 1
        /\ Len(infix) \in Nat
        /\ i \in DOMAIN infix <=> i \in 1..Len(infix)
        /\ i > Len(infix) <=> i \notin 1..Len(infix)
    BY DEF TypeOK
  <1> DEFINE next == [at |-> i', ops |-> operators', out |-> output',
                      end |-> outcome']
  <1>4. CASE Word
    <2>1. i \in 1..Len(infix) /\ infix[i] \in Words
      BY <1>3, <1>4 DEF Word, AtToken
    <2>2. Step(infix, Now) = Conf(i + 1, operators, Append(output, infix[i]))
      BY <1>2, <2>1 DEF Step
    <2> QED BY <1>1, <1>4, <2>2 DEF Word, Conf
  <1>5. CASE PopHigher \/ PushOperator
    <2>1. i \in 1..Len(infix) /\ infix[i] \in Operators /\ infix[i] \notin Words
      BY <1>3, <1>5, SymbolsDisjoint DEF PopHigher, PushOperator, AtToken
    <2>2. Step(infix, Now) = AtOperator(infix[i], Now)
      BY <1>2, <2>1 DEF Step
    <2>3. CASE PopHigher
      BY <1>1, <1>2, <2>2, <2>3
         DEF PopHigher, BindsFirst, AtOperator, Popping, Conf, Pop, Under
    <2>4. CASE PushOperator
      BY <1>1, <1>2, <2>2, <2>4 DEF PushOperator, BindsFirst, AtOperator, Conf
    <2> QED BY <1>5, <2>3, <2>4
  <1>6. CASE Open
    <2>1. i \in 1..Len(infix) /\ infix[i] = "("
      BY <1>3, <1>6 DEF Open, AtToken
    <2>2. Step(infix, Now) = Conf(i + 1, Append(operators, "("), output)
      BY <1>2, <2>1, SymbolsDisjoint DEF Step
    <2> QED BY <1>1, <1>6, <2>2 DEF Open, Conf
  <1>7. CASE PopToOpen \/ Close \/ TopOfNothing
    <2>1. i \in 1..Len(infix) /\ infix[i] = ")"
      BY <1>3, <1>7 DEF PopToOpen, Close, TopOfNothing, AtToken
    <2>2. Step(infix, Now) = AtClose(Now)
      BY <1>2, <2>1, SymbolsDisjoint DEF Step
    <2>3. CASE PopToOpen
      BY <1>1, <1>2, <2>2, <2>3
         DEF PopToOpen, AtClose, Popping, Ends, Conf, Pop, Under
    <2>4. CASE Close
      BY <1>1, <1>2, <2>2, <2>4 DEF Close, AtClose, Conf, Pop, Under, AtToken
    <2>5. CASE TopOfNothing
      BY <1>1, <1>2, <2>2, <2>5 DEF TopOfNothing, AtClose, Ends
    <2> QED BY <1>7, <2>3, <2>4, <2>5
  <1>8. CASE PopRest \/ Return
    <2>1. i \notin 1..Len(infix)
      BY <1>3, <1>8 DEF PopRest, Return
    <2>2. Step(infix, Now) = AtEnd(Now)
      BY <1>2, <2>1 DEF Step
    <2>3. CASE PopRest
      BY <1>1, <1>2, <2>2, <2>3 DEF PopRest, AtEnd, Popping, Conf, Pop, Under
    <2>4. CASE Return
      BY <1>1, <1>2, <2>2, <2>4 DEF Return, AtEnd, Ends
    <2> QED BY <1>8, <2>3, <2>4
  <1> QED BY <1>1, <1>4, <1>5, <1>6, <1>7, <1>8 DEF Next

-----------------------------------------------------------------------------
(* From one state of the call to a later one *)

\* With the state after a step X holds the state before it.
Backward(q, X) ==
    \A b \in Configs : b.end = "parsing" /\ Step(q, b) \in X => b \in X

\* The steps from c arrive at d.
Leads(q, c, d) ==
    /\ c \in Configs /\ d \in Configs
    /\ \A X \in SUBSET Configs : d \in X /\ Backward(q, X) => c \in X

\* No step, one more step, and a single step lead where they should.
LEMMA LeadsSelf == ASSUME NEW q, NEW c \in Configs PROVE Leads(q, c, c)
  BY DEF Leads

LEMMA LeadsFurther ==
    ASSUME NEW q, NEW c, NEW d, NEW e, Leads(q, c, d), Leads(q, d, e)
    PROVE  Leads(q, c, e)
  BY DEF Leads

LEMMA LeadsStep ==
    ASSUME NEW q, NEW c \in Configs, c.end = "parsing", NEW d \in Configs,
           d = Step(q, c)
    PROVE  Leads(q, c, d)
  BY DEF Leads, Backward

\* A call that has ended has arrived.
LEMMA LeadsEnd ==
    ASSUME NEW q, NEW c, NEW d, Leads(q, c, d), c.end # "parsing"
    PROVE  c = d
  <1> DEFINE X == {b \in Configs : b.end = "parsing" \/ b = d}
  <1>1. d \in X /\ X \in SUBSET Configs
    BY DEF Leads
  <1>2. Backward(q, X)
    BY DEF Backward
  <1>3. c \in X
    <2> HIDE DEF X
    <2> QED BY <1>1, <1>2 DEF Leads
  <1> QED BY <1>3

\* A step on the way to the end of the call stays on the way.
LEMMA LeadsOn ==
    ASSUME NEW q, NEW c, NEW d, Leads(q, c, d),
           c.end = "parsing", d.end # "parsing",
           Step(q, c) \in Configs
    PROVE  Leads(q, Step(q, c), d)
  <1>1. c \in Configs /\ d \in Configs /\ c # d
    BY DEF Leads
  <1>2. ASSUME NEW X \in SUBSET Configs, d \in X, Backward(q, X)
        PROVE  Step(q, c) \in X
    <2> SUFFICES ASSUME Step(q, c) \notin X PROVE FALSE
      OBVIOUS
    <2> DEFINE Y == X \ {c}
    <2>1. Y \in SUBSET Configs /\ d \in Y
      BY <1>1, <1>2
    <2>2. Backward(q, Y)
      <3> SUFFICES ASSUME NEW b \in Configs, b.end = "parsing",
                          Step(q, b) \in Y
                   PROVE  b \in Y
        BY DEF Backward
      <3>1. b \in X
        BY <1>2 DEF Backward
      <3>2. b # c
        OBVIOUS
      <3> QED BY <3>1, <3>2
    <2>3. c \in Y
      <3> HIDE DEF Y
      <3> QED BY <2>1, <2>2 DEF Leads
    <2> QED BY <2>3
  <1> QED BY <1>1, <1>2 DEF Leads
-----------------------------------------------------------------------------
(* Operators that are popped *)

\* s from its top to its bottom.
Reversed(s) == [k \in 1..Len(s) |-> s[Len(s) + 1 - k]]

LEMMA ReversedType ==
    ASSUME NEW S, NEW s \in Seq(S)
    PROVE  Reversed(s) \in Seq(S) /\ Len(Reversed(s)) = Len(s)
  <1>1. Len(s) \in Nat /\ \A k \in 1..Len(s) : s[Len(s) + 1 - k] \in S
    <2> SUFFICES ASSUME NEW k \in 1..Len(s) PROVE s[Len(s) + 1 - k] \in S
      OBVIOUS
    <2>1. Len(s) + 1 - k \in 1..Len(s)
      OBVIOUS
    <2> QED BY <2>1
  <1>2. Reversed(s) \in [1..Len(s) -> S]
    BY <1>1 DEF Reversed
  <1> QED BY <1>1, <1>2

\* The bottom comes last.
LEMMA ReversedBottom ==
    ASSUME NEW S, NEW s \in Seq(S), NEW e \in S
    PROVE  Reversed(<<e>> \o s) = Reversed(s) \o <<e>>
  <1> DEFINE t == <<e>> \o s
             n == Len(s)
  <1>1. /\ n \in Nat /\ <<e>> \in Seq(S) /\ Len(<<e>>) = 1 /\ <<e>>[1] = e
    OBVIOUS
  <1>2. /\ t \in Seq(S) /\ Len(t) = n + 1
        /\ t[1] = e
        /\ \A k \in 2..n + 1 : t[k] = s[k - 1]
    <2>1. /\ t \in Seq(S) /\ Len(t) = 1 + n
          /\ \A k \in 1..1 + n : t[k] = IF k <= 1 THEN <<e>>[k] ELSE s[k - 1]
      BY <1>1, ConcatProperties
    <2> HIDE DEF t
    <2> QED BY <1>1, <2>1
  <1>3. /\ Reversed(s) \in Seq(S) /\ Len(Reversed(s)) = n
        /\ Reversed(t) \in Seq(S) /\ Len(Reversed(t)) = n + 1
    <2> HIDE DEF t
    <2> QED BY <1>2, ReversedType
  <1>4. /\ Reversed(s) \o <<e>> \in Seq(S)
        /\ Len(Reversed(s) \o <<e>>) = n + 1
        /\ \A k \in 1..n + 1 :
              (Reversed(s) \o <<e>>)[k]
                = IF k <= n THEN Reversed(s)[k] ELSE <<e>>[k - n]
    BY <1>1, <1>3, ConcatProperties
  <1>5. ASSUME NEW k \in 1..n + 1
        PROVE  Reversed(t)[k] = (Reversed(s) \o <<e>>)[k]
    <2>1. Reversed(t)[k] = t[n + 2 - k]
      <3> HIDE DEF t
      <3>1. (n + 1) + 1 - k = n + 2 - k
        BY <1>1
      <3> QED BY <1>2, <3>1 DEF Reversed
    <2>2. CASE k <= n
      <3>1. n + 2 - k \in 2..n + 1 /\ (n + 2 - k) - 1 = n + 1 - k /\ k \in 1..n
        BY <1>1, <2>2
      <3>2. Reversed(s)[k] = s[n + 1 - k]
        BY <3>1 DEF Reversed
      <3> QED BY <1>2, <1>4, <2>1, <2>2, <3>1, <3>2
    <2>3. CASE k = n + 1
      <3>1. n + 2 - k = 1 /\ k - n = 1 /\ ~(k <= n)
        BY <1>1, <2>3
      <3> QED BY <1>1, <1>2, <1>4, <2>1, <3>1
    <2>4. k <= n \/ k = n + 1
      BY <1>1
    <2> HIDE DEF t
    <2> QED BY <2>2, <2>3, <2>4
  <1> HIDE DEF t
  <1>6. Reversed(t) = Reversed(s) \o <<e>>
    BY <1>3, <1>4, <1>5, SeqEqual
  <1> QED BY <1>6 DEF t

LEMMA ReversedNone == Reversed(<<>>) = <<>>
  <1>1. <<>> \in Seq({}) /\ Len(<<>>) = 0
    OBVIOUS
  <1>2. Reversed(<<>>) \in Seq({}) /\ Len(Reversed(<<>>)) = 0
    BY <1>1, ReversedType
  <1> QED BY <1>2, EmptySeq

\* It does not matter which two of three are joined first.
LEMMA StackJoined ==
    \A t, u, v \in Seq(Stacked) : (t \o u) \o v = t \o (u \o v)
  BY ConcatAssociative

\* Concatenation of the tokens of a query is associative.
LEMMA TokensJoined ==
    \A t, u, v \in Seq(Tokens) : (t \o u) \o v = t \o (u \o v)
  BY ConcatAssociative

\* What is behind s on the stack does not move when the top is popped.
LEMMA TopPopped ==
    ASSUME NEW S, NEW s \in Seq(S), NEW e \in S
    PROVE  /\ Append(s, e) # <<>> /\ Append(s, e) \in Seq(S)
           /\ TopOf(Append(s, e)) = e
           /\ Under(Append(s, e)) = s
           /\ Len(Append(s, e)) = Len(s) + 1
  <1> DEFINE t == Append(s, e)
             n == Len(s)
  <1>1. /\ n \in Nat /\ Len(t) = n + 1 /\ t[n + 1] = e /\ t # <<>>
        /\ t \in Seq(S)
        /\ \A k \in 1..n : t[k] = s[k]
    BY AppendProperties
  <1> HIDE DEF t
  <1>2. /\ SubSeq(t, 1, n) \in Seq(S)
        /\ Len(SubSeq(t, 1, n)) = n
        /\ \A k \in 1..n : SubSeq(t, 1, n)[k] = t[k]
    BY <1>1, SubSeqProperties
  <1>3. SubSeq(t, 1, n) = s
    BY <1>1, <1>2, SeqEqual
  <1>4. Len(t) - 1 = n
    BY <1>1
  <1> QED BY <1>1, <1>3, <1>4 DEF t, TopOf, Under

\* Is the operator op put out by the token that is next, on top of a stack
\* of n elements?
PopsAt(q, a, op, n) ==
    \/ a \notin 1..Len(q)
    \/ /\ a \in 1..Len(q)
       /\ \/ q[a] \in Operators /\ precedence(op) >= precedence(q[a])
          \/ q[a] = ")" /\ n > 1

\* One that is comes off the stack.
LEMMA PopStep ==
    ASSUME NEW q, Len(q) \in Nat, NEW a \in Nat,
           NEW s \in Seq(Stacked), NEW op \in Operators, NEW o \in Seq(Tokens),
           PopsAt(q, a, op, Len(s) + 1)
    PROVE  Leads(q, Conf(a, Append(s, op), o), Conf(a, s, Append(o, op)))
  <1> DEFINE c == Conf(a, Append(s, op), o)
             d == Conf(a, s, Append(o, op))
  <1>1. op \in Stacked /\ op \in Tokens /\ op # "("
    BY SymbolsDisjoint DEF Stacked, Tokens
  <1>2. /\ Append(s, op) # <<>> /\ Append(s, op) \in Seq(Stacked)
        /\ TopOf(Append(s, op)) = op
        /\ Under(Append(s, op)) = s
        /\ Len(Append(s, op)) = Len(s) + 1
    BY <1>1, TopPopped
  <1>3. Append(o, op) \in Seq(Tokens)
    BY <1>1
  <1>4. c \in Configs /\ d \in Configs /\ c.end = "parsing"
    BY <1>2, <1>3 DEF Configs, Conf
  <1>5. /\ c.at = a /\ c.ops = Append(s, op) /\ c.out = o
        /\ Popping(c) = d
        /\ TopBinds(c.ops) = precedence(op)
    BY <1>2 DEF Conf, Popping, TopBinds
  <1> HIDE DEF c, d
  <1>6. Step(q, c) = d
    <2>1. CASE a \notin 1..Len(q)
      BY <1>1, <1>2, <1>5, <2>1 DEF Step, AtEnd
    <2>2. CASE a \in 1..Len(q) /\ q[a] \in Operators
      <3>1. precedence(op) >= precedence(q[a]) /\ q[a] \notin Words
        BY <2>2, SymbolsDisjoint DEF PopsAt
      <3> QED BY <1>5, <2>2, <3>1 DEF Step, AtOperator
    <2>3. CASE a \in 1..Len(q) /\ q[a] = ")"
      <3>1. /\ q[a] \notin Words /\ q[a] \notin Operators /\ q[a] # "("
            /\ Len(s) + 1 > 1
        BY <2>3, SymbolsDisjoint DEF PopsAt
      <3> QED BY <1>1, <1>2, <1>5, <2>3, <3>1 DEF Step, AtClose
    <2> QED BY <2>1, <2>2, <2>3 DEF PopsAt
  <1>7. Leads(q, c, d)
    BY <1>4, <1>6, LeadsStep
  <1> QED BY <1>7 DEF c, d

\* And so do all of them, one after the other.
LEMMA AllPopped ==
    ASSUME NEW q, Len(q) \in Nat, NEW a \in Nat,
           NEW s \in Seq(Stacked), NEW m \in Seq(Operators),
           NEW o \in Seq(Tokens),
           \A k \in 1..Len(m) : PopsAt(q, a, m[k], Len(s) + k)
    PROVE  Leads(q, Conf(a, s \o m, o), Conf(a, s, o \o Reversed(m)))
  <1> DEFINE n == Len(m)
             r == Reversed(m)
             Ops(k) == s \o SubSeq(m, 1, n - k)
             Out(k) == o \o SubSeq(r, 1, k)
             T == {k \in 0..n : Leads(q, Conf(a, s \o m, o),
                                         Conf(a, Ops(k), Out(k)))}
  <1>1. /\ n \in Nat /\ Len(s) \in Nat
        /\ \A k \in 1..n : m[k] \in Operators
        /\ m \in Seq(Stacked) /\ m \in Seq(Tokens)
    <2>1. Operators \subseteq Stacked /\ Operators \subseteq Tokens
      BY DEF Stacked, Tokens
    <2> QED BY <2>1, SeqMonotonic
  <1>2. r \in Seq(Tokens) /\ Len(r) = n /\ \A k \in 1..n : r[k] = m[n + 1 - k]
    <2>1. r \in Seq(Tokens) /\ Len(r) = n
      BY <1>1, ReversedType
    <2>2. \A k \in 1..n : r[k] = m[n + 1 - k]
      BY DEF Reversed
    <2> QED BY <2>1, <2>2
  <1> HIDE DEF r, n
  <1>3. ASSUME NEW k \in 0..n
        PROVE  /\ SubSeq(m, 1, n - k) \in Seq(Stacked)
               /\ Len(SubSeq(m, 1, n - k)) = n - k
               /\ SubSeq(r, 1, k) \in Seq(Tokens)
    <2>1. \A j \in 1..n - k : m[j] \in Stacked
      BY <1>1 DEF Stacked
    <2>2. n - k \in Int /\ (1 <= n - k => (n - k) - 1 + 1 = n - k)
                        /\ (~(1 <= n - k) => n - k = 0)
      BY <1>1
    <2>3. \A j \in 1..k : r[j] \in Tokens
      BY <1>1, <1>2
    <2> QED BY <2>1, <2>2, <2>3, SubSeqProperties
  <1>4. ASSUME NEW k \in 0..n
        PROVE  Ops(k) \in Seq(Stacked) /\ Out(k) \in Seq(Tokens)
    <2>1. /\ SubSeq(m, 1, n - k) \in Seq(Stacked)
          /\ SubSeq(r, 1, k) \in Seq(Tokens)
      BY <1>3
    <2> QED BY <2>1, ConcatProperties
  <1>5. Ops(0) = s \o m /\ Out(0) = o /\ Ops(n) = s /\ Out(n) = o \o r
    <2>1. n - 0 = n /\ n - n = 0
      BY <1>1
    <2>2. SubSeq(m, 1, n) = m /\ SubSeq(r, 1, n) = r
      BY <1>1, <1>2, SubSeqFull DEF n
    <2>3. SubSeq(m, 1, 0) = <<>> /\ SubSeq(r, 1, 0) = <<>>
      BY SubSeqEmpty
    <2>4. s \o <<>> = s /\ o \o <<>> = o
      BY ConcatEmptySeq
    <2> QED BY <2>1, <2>2, <2>3, <2>4
  <1>6. 0 \in T
    <2>1. Conf(a, s \o m, o) \in Configs
      <3>1. s \o m \in Seq(Stacked)
        BY <1>1, ConcatProperties
      <3> QED BY <3>1 DEF Conf, Configs
    <2>2. Leads(q, Conf(a, s \o m, o), Conf(a, s \o m, o))
      BY <2>1, LeadsSelf
    <2>3. 0 \in 0..n
      BY <1>1
    <2> QED BY <1>5, <2>2, <2>3
  <1>7. ASSUME NEW k \in 0..n - 1, k \in T
        PROVE  k + 1 \in T
    <2>1. /\ k \in 0..n /\ k + 1 \in 0..n /\ k + 1 \in 1..n /\ n - k \in 1..n
          /\ n - (k + 1) = (n - k) - 1
          /\ (k + 1) - 1 = k /\ n + 1 - (k + 1) = n - k
          /\ (n - (k + 1)) + 1 = n - k
      BY <1>1
    <2> DEFINE op == m[n - k]
               s1 == Ops(k + 1)
    <2>2. op \in Operators /\ op \in Stacked /\ op \in Tokens
      BY <1>1, <2>1 DEF Stacked, Tokens
    <2>3. Ops(k) = Append(s1, op) /\ Len(s1) + 1 = Len(s) + (n - k)
      <3>1. SubSeq(m, 1, n - k) = SubSeq(m, 1, n - (k + 1)) \o <<op>>
        <4>1. 1 \in 1..n
          BY <1>1, <2>1
        <4>2. SubSeq(m, 1, n - k) = SubSeq(m, 1, (n - k) - 1) \o <<m[n - k]>>
          BY <1>1, <2>1, <4>1, SubSeqRecursiveSecond DEF n
        <4> QED BY <2>1, <4>2
      <3>2. /\ SubSeq(m, 1, n - (k + 1)) \in Seq(Stacked)
            /\ Len(SubSeq(m, 1, n - (k + 1))) = n - (k + 1)
            /\ <<op>> \in Seq(Stacked)
        BY <1>3, <2>1, <2>2
      <3>3. s \o (SubSeq(m, 1, n - (k + 1)) \o <<op>>) = s1 \o <<op>>
        <4> DEFINE u == SubSeq(m, 1, n - (k + 1))
                   v == <<op>>
        <4>1. s \in Seq(Stacked) /\ u \in Seq(Stacked) /\ v \in Seq(Stacked)
          BY <3>2
        <4> HIDE DEF u, v
        <4>2. (s \o u) \o v = s \o (u \o v)
          BY <4>1, StackJoined
        <4> QED BY <4>2 DEF u, v
      <3>4. s1 \in Seq(Stacked) /\ Len(s1) = Len(s) + (n - (k + 1))
        BY <3>2, ConcatProperties
      <3>5. s1 \o <<op>> = Append(s1, op)
        BY <2>2, <3>4, AppendIsConcat
      <3>6. Len(s1) + 1 = Len(s) + (n - k)
        BY <1>1, <2>1, <3>4
      <3> QED BY <3>1, <3>3, <3>5, <3>6
    <2>4. Append(Out(k), op) = Out(k + 1)
      <3>1. r[k + 1] = op
        BY <1>2, <2>1
      <3>2. SubSeq(r, 1, k + 1) = SubSeq(r, 1, k) \o <<r[k + 1]>>
        <4>1. 1 \in 1..n /\ k + 1 \in 1..n
          BY <1>1, <2>1
        <4>2. SubSeq(r, 1, k + 1) = SubSeq(r, 1, (k + 1) - 1) \o <<r[k + 1]>>
          BY <1>2, <4>1, SubSeqRecursiveSecond
        <4> QED BY <2>1, <4>2
      <3>3. SubSeq(r, 1, k) \in Seq(Tokens) /\ <<op>> \in Seq(Tokens)
        BY <1>3, <2>1, <2>2
      <3>4. o \o (SubSeq(r, 1, k) \o <<op>>) = Out(k) \o <<op>>
        <4> DEFINE u == SubSeq(r, 1, k)
                   v == <<op>>
        <4>1. o \in Seq(Tokens) /\ u \in Seq(Tokens) /\ v \in Seq(Tokens)
          BY <3>3
        <4> HIDE DEF u, v
        <4>2. (o \o u) \o v = o \o (u \o v)
          BY <4>1, ConcatAssociative
        <4> QED BY <4>2 DEF u, v
      <3>5. Out(k) \in Seq(Tokens)
        BY <1>4, <2>1
      <3>6. Out(k) \o <<op>> = Append(Out(k), op)
        BY <2>2, <3>5, AppendIsConcat
      <3> QED BY <3>1, <3>2, <3>4, <3>6
    <2>5. s1 \in Seq(Stacked) /\ Out(k) \in Seq(Tokens)
      BY <1>4, <2>1
    <2>6. PopsAt(q, a, op, Len(s1) + 1)
      BY <2>1, <2>3 DEF n
    <2>7. Leads(q, Conf(a, s \o m, o), Conf(a, Append(s1, op), Out(k)))
      BY <1>7, <2>3
    <2> HIDE DEF s1, op, Out
    <2>8. Leads(q, Conf(a, Append(s1, op), Out(k)),
                   Conf(a, s1, Append(Out(k), op)))
      BY <2>2, <2>5, <2>6, PopStep
    <2>9. Leads(q, Conf(a, s \o m, o), Conf(a, s1, Out(k + 1)))
      BY <2>4, <2>7, <2>8, LeadsFurther
    <2> QED BY <2>1, <2>9 DEF s1, Out
  <1>8. n \in T
    <2> HIDE DEF T
    <2>1. \A k \in 0..n : k \in T
      BY <1>1, <1>6, <1>7, Induction
    <2> QED BY <1>1, <2>1
  <1> QED BY <1>5, <1>8 DEF r


-----------------------------------------------------------------------------
(* The single steps *)

\* What is on top of the stack counts.
LEMMA TopBindsType ==
    ASSUME NEW s \in Seq(Stacked)
    PROVE  /\ TopBinds(s) \in Int
           /\ \A e \in Stacked : /\ s \o <<e>> \in Seq(Stacked)
                                 /\ s \o <<e>> = Append(s, e)
                                 /\ TopBinds(s \o <<e>>) = precedence(e)
  <1>1. TopBinds(s) \in Int
    <2>1. CASE s = <<>>
      BY <2>1 DEF TopBinds
    <2>2. CASE s # <<>>
      <3>1. Len(s) \in 1..Len(s)
        BY <2>2, EmptySeq
      <3>2. s[Len(s)] \in Stacked
        BY <3>1, ElementOfSeq
      <3> QED BY <2>2, <3>2, PrecedenceType DEF TopBinds, TopOf, precedence
    <2> QED BY <2>1, <2>2
  <1>2. ASSUME NEW e \in Stacked
        PROVE  /\ s \o <<e>> \in Seq(Stacked)
               /\ s \o <<e>> = Append(s, e)
               /\ TopBinds(s \o <<e>>) = precedence(e)
    <2>1. s \o <<e>> = Append(s, e)
      BY AppendIsConcat
    <2>2. /\ Append(s, e) # <<>> /\ Append(s, e) \in Seq(Stacked)
          /\ TopOf(Append(s, e)) = e
      BY TopPopped
    <2> QED BY <2>1, <2>2 DEF TopBinds
  <1> QED BY <1>1, <1>2

\* A word is put out.
LEMMA WordStep ==
    ASSUME NEW q, NEW a \in Nat, a \in 1..Len(q), q[a] \in Words,
           NEW s \in Seq(Stacked), NEW o \in Seq(Tokens)
    PROVE  Leads(q, Conf(a, s, o), Conf(a + 1, s, o \o <<q[a]>>))
  <1>1. q[a] \in Tokens /\ a + 1 \in Nat
    BY DEF Tokens
  <1>2. /\ o \o <<q[a]>> = Append(o, q[a])
        /\ Append(o, q[a]) \in Seq(Tokens)
    BY <1>1, AppendIsConcat, AppendProperties
  <1> DEFINE c == Conf(a, s, o)
             d == Conf(a + 1, s, Append(o, q[a]))
  <1>3. /\ c \in Configs /\ d \in Configs /\ c.end = "parsing"
        /\ c.at = a /\ c.ops = s /\ c.out = o
    BY <1>1, <1>2 DEF Conf, Configs
  <1> HIDE DEF c
  <1>4. Step(q, c) = d
    BY <1>3 DEF Step
  <1>5. Leads(q, c, d)
    <2> HIDE DEF d
    <2> QED BY <1>3, <1>4, LeadsStep
  <1> QED BY <1>2, <1>5 DEF c

\* An operator that binds tighter than the top is pushed.
LEMMA PushStep ==
    ASSUME NEW q, NEW a \in Nat, a \in 1..Len(q), q[a] \in Operators,
           NEW s \in Seq(Stacked), NEW o \in Seq(Tokens),
           TopBinds(s) < precedence(q[a])
    PROVE  Leads(q, Conf(a, s, o), Conf(a + 1, s \o <<q[a]>>, o))
  <1>1. q[a] \in Stacked /\ a + 1 \in Nat /\ q[a] \notin Words
    BY SymbolsDisjoint DEF Stacked
  <1>2. s \o <<q[a]>> = Append(s, q[a]) /\ Append(s, q[a]) \in Seq(Stacked)
    BY <1>1, TopBindsType
  <1> DEFINE c == Conf(a, s, o)
             d == Conf(a + 1, Append(s, q[a]), o)
  <1>3. /\ c \in Configs /\ d \in Configs /\ c.end = "parsing"
        /\ c.at = a /\ c.ops = s /\ c.out = o
    BY <1>1, <1>2 DEF Conf, Configs
  <1>4. ~(TopBinds(s) >= precedence(q[a]))
    BY TopBindsType, PrecedenceType
  <1> HIDE DEF c
  <1>5. Step(q, c) = d
    BY <1>1, <1>3, <1>4 DEF Step, AtOperator
  <1>6. Leads(q, c, d)
    <2> HIDE DEF d
    <2> QED BY <1>3, <1>5, LeadsStep
  <1> QED BY <1>2, <1>6 DEF c

\* A parenthesis that opens is pushed.
LEMMA OpenStep ==
    ASSUME NEW q, NEW a \in Nat, a \in 1..Len(q), q[a] = "(",
           NEW s \in Seq(Stacked), NEW o \in Seq(Tokens)
    PROVE  Leads(q, Conf(a, s, o), Conf(a + 1, s \o <<"(">>, o))
  <1>1. /\ "(" \in Stacked /\ a + 1 \in Nat
        /\ q[a] \notin Words /\ q[a] \notin Operators
    BY SymbolsDisjoint DEF Stacked
  <1>2. s \o <<"(">> = Append(s, "(") /\ Append(s, "(") \in Seq(Stacked)
    BY <1>1, TopBindsType
  <1> DEFINE c == Conf(a, s, o)
             d == Conf(a + 1, Append(s, "("), o)
  <1>3. /\ c \in Configs /\ d \in Configs /\ c.end = "parsing"
        /\ c.at = a /\ c.ops = s /\ c.out = o
    BY <1>1, <1>2 DEF Conf, Configs
  <1> HIDE DEF c
  <1>4. Step(q, c) = d
    BY <1>1, <1>3 DEF Step
  <1>5. Leads(q, c, d)
    <2> HIDE DEF d
    <2> QED BY <1>3, <1>4, LeadsStep
  <1> QED BY <1>2, <1>5 DEF c

\* The one that closes it takes it off.
LEMMA CloseStep ==
    ASSUME NEW q, NEW a \in Nat, a \in 1..Len(q), q[a] = ")",
           NEW s \in Seq(Stacked), NEW o \in Seq(Tokens)
    PROVE  Leads(q, Conf(a, s \o <<"(">>, o), Conf(a + 1, s, o))
  <1>1. /\ "(" \in Stacked /\ a + 1 \in Nat
        /\ q[a] \notin Words /\ q[a] \notin Operators /\ q[a] # "("
    BY SymbolsDisjoint DEF Stacked
  <1> DEFINE t == s \o <<"(">>
             c == Conf(a, t, o)
             d == Conf(a + 1, s, o)
  <1>2. /\ t \in Seq(Stacked) /\ t # <<>> /\ TopOf(t) = "(" /\ Under(t) = s
    <2>1. t = Append(s, "(")
      BY <1>1, TopBindsType
    <2> HIDE DEF t
    <2> QED BY <1>1, <2>1, TopPopped
  <1> HIDE DEF t
  <1>3. /\ c \in Configs /\ d \in Configs /\ c.end = "parsing"
        /\ c.at = a /\ c.ops = t /\ c.out = o
    BY <1>1, <1>2 DEF Conf, Configs
  <1> HIDE DEF c
  <1>4. Step(q, c) = d
    BY <1>1, <1>2, <1>3 DEF Step, AtClose
  <1>5. Leads(q, c, d)
    <2> HIDE DEF d
    <2> QED BY <1>3, <1>4, LeadsStep
  <1> QED BY <1>5 DEF c, t

\* With no operators left, the call returns.
LEMMA EndStep ==
    ASSUME NEW q, NEW a \in Nat, a \notin 1..Len(q), NEW o \in Seq(Tokens)
    PROVE  Leads(q, Conf(a, <<>>, o), Ends(Conf(a, <<>>, o), "done"))
  <1> DEFINE none == <<>>
             c == Conf(a, none, o)
             d == Ends(c, "done")
  <1>1. none \in Seq(Stacked) /\ none = <<>>
    BY EmptySeq
  <1> HIDE DEF none
  <1>2. /\ c \in Configs /\ c.end = "parsing"
        /\ c.at = a /\ c.ops = none /\ c.out = o
    BY <1>1 DEF Conf, Configs
  <1> HIDE DEF c
  <1>3. d \in Configs
    BY <1>1, <1>2 DEF Configs, Ends
  <1>4. Step(q, c) = d
    BY <1>1, <1>2 DEF Step, AtEnd
  <1>5. Leads(q, c, d)
    <2> HIDE DEF d
    <2> QED BY <1>2, <1>3, <1>4, LeadsStep
  <1> QED BY <1>5 DEF c, none

-----------------------------------------------------------------------------
(* How the phrases of the grammar are read *)

Spelled == Words \cup Symbols

\* The operators that bind at least as tight as `level`.
AtLeast(level) == {op \in Operators : precedence(op) >= level}

\* The input q goes on with the phrase t after its first a tokens.
At(q, a, t) ==
    \A k \in 1..Len(t) : a + k \in 1..Len(q) /\ q[a + k] = t[k]

(***************************************************************************)
(* The phrase t is read with the meaning T: wherever it stands, if what is *)
(* on the stack binds looser than `level`, reading it puts out r and       *)
(* leaves m on the stack, operators of that level, and r and then m from   *)
(* its top denote T.                                                       *)
(***************************************************************************)
ReadFrom(q, a, s, o, t, T, level) ==
    \E m \in Seq(AtLeast(level)), r \in Seq(Tokens) :
        /\ Denotes(r \o Reversed(m), T)
        /\ Leads(q, Conf(a + 1, s, o), Conf(a + Len(t) + 1, s \o m, o \o r))

Reads(t, T, level) ==
    /\ t \in Seq(Spelled)
    /\ \A q \in Seq(Spelled), a \in Nat, s \in Seq(Stacked), o \in Seq(Tokens) :
          At(q, a, t) /\ TopBinds(s) < level
            => ReadFrom(q, a, s, o, t, T, level)

\* Operators of a level are on the stack like all operators.
LEMMA AtLeastType ==
    ASSUME NEW level, NEW m \in Seq(AtLeast(level))
    PROVE  /\ m \in Seq(Operators) /\ m \in Seq(Stacked) /\ m \in Seq(Tokens)
           /\ Reversed(m) \in Seq(Tokens)
           /\ \A k \in 1..Len(m) :
                 m[k] \in Operators /\ precedence(m[k]) >= level
  <1>1. /\ AtLeast(level) \subseteq Operators
        /\ Operators \subseteq Stacked /\ Operators \subseteq Tokens
    BY DEF AtLeast, Stacked, Tokens
  <1>2. m \in Seq(Operators)
    BY <1>1, SeqMonotonic
  <1>3. m \in Seq(Stacked) /\ m \in Seq(Tokens)
    BY <1>1, <1>2, SeqMonotonic
  <1>4. Reversed(m) \in Seq(Tokens)
    BY <1>3, ReversedType
  <1>5. \A k \in 1..Len(m) : m[k] \in AtLeast(level)
    BY ElementOfSeq
  <1> QED BY <1>2, <1>3, <1>4, <1>5 DEF AtLeast

\* What is of a level is of the one below.
LEMMA AtLeastNext ==
    \A level \in Nat : AtLeast(level + 1) \subseteq AtLeast(level)
  BY PrecedenceType DEF AtLeast

\* A phrase made of two: each is where it has to be.
LEMMA AtParts ==
    ASSUME NEW t \in Seq(Spelled), NEW u \in Seq(Spelled), NEW q, NEW a \in Nat,
           At(q, a, t \o u)
    PROVE  At(q, a, t) /\ At(q, a + Len(t), u)
  <1> DEFINE tu == t \o u
             m == Len(t)
             n == Len(u)
  <1>1. m \in Nat /\ n \in Nat
    OBVIOUS
  <1>2. /\ Len(tu) = m + n
        /\ \A k \in 1..m + n : tu[k] = IF k <= m THEN t[k] ELSE u[k - m]
    BY ConcatProperties
  <1> HIDE DEF tu, m, n
  <1>3. \A k \in 1..m + n : a + k \in 1..Len(q) /\ q[a + k] = tu[k]
    BY <1>2 DEF At, tu
  <1>4. ASSUME NEW k \in 1..m
        PROVE  a + k \in 1..Len(q) /\ q[a + k] = t[k]
    <2>1. k \in 1..m + n /\ k <= m
      BY <1>1
    <2> QED BY <1>2, <1>3, <2>1
  <1>5. ASSUME NEW k \in 1..n
        PROVE  (a + m) + k \in 1..Len(q) /\ q[(a + m) + k] = u[k]
    <2>1. /\ m + k \in 1..m + n /\ ~(m + k <= m)
          /\ (m + k) - m = k /\ a + (m + k) = (a + m) + k
      BY <1>1
    <2> QED BY <1>2, <1>3, <2>1
  <1> QED BY <1>4, <1>5 DEF At, m, n

\* A phrase of one token.
LEMMA AtOne ==
    ASSUME NEW e \in Spelled, NEW q, NEW a \in Nat, At(q, a, <<e>>)
    PROVE  /\ a + 1 \in 1..Len(q) /\ q[a + 1] = e
           /\ <<e>> \in Seq(Spelled) /\ Len(<<e>>) = 1
  <1>1. <<e>> \in Seq(Spelled) /\ Len(<<e>>) = 1 /\ <<e>>[1] = e /\ 1 \in 1..1
    OBVIOUS
  <1> QED BY <1>1 DEF At

\* A word, after anything.
LEMMA ReadsWord ==
    ASSUME NEW w \in Words
    PROVE  Reads(<<w>>, {d \in Documents : w \in d}, 4)
  <1> DEFINE t == <<w>>
             T == {d \in Documents : w \in d}
             none == <<>>
  <1>1. w \in Spelled /\ w \in Tokens /\ t \in Seq(Spelled) /\ t \in Seq(Tokens)
    BY DEF Spelled, Tokens
  <1>2. ASSUME NEW q \in Seq(Spelled), NEW a \in Nat,
               NEW s \in Seq(Stacked), NEW o \in Seq(Tokens), At(q, a, t)
        PROVE  ReadFrom(q, a, s, o, t, T, 4)
    <2>1. a + 1 \in 1..Len(q) /\ q[a + 1] = w /\ Len(t) = 1 /\ a + 1 \in Nat
      BY <1>1, <1>2, AtOne
    <2>2. Leads(q, Conf(a + 1, s, o), Conf((a + 1) + 1, s, o \o t))
      <3>1. Leads(q, Conf(a + 1, s, o), Conf((a + 1) + 1, s, o \o <<q[a + 1]>>))
        BY <2>1, WordStep
      <3> QED BY <2>1, <3>1
    <2>3. none \in Seq(AtLeast(4)) /\ s \o none = s
      BY EmptySeq, ConcatEmptySeq
    <2>4. t \o Reversed(none) = t
      BY <1>1, ReversedNone, ConcatEmptySeq
    <2>5. Denotes(t, T)
      BY DenotesWord
    <2>6. (a + 1) + 1 = a + Len(t) + 1
      BY <2>1
    <2> HIDE DEF t, T, none
    <2> QED BY <1>1, <2>2, <2>3, <2>4, <2>5, <2>6 DEF ReadFrom
  <1> HIDE DEF t, T
  <1>3. Reads(t, T, 4)
    BY <1>1, <1>2 DEF Reads
  <1> QED BY <1>3 DEF t, T

\* What is read of a tighter level is read of a looser one.
LEMMA ReadsWeaker ==
    ASSUME NEW level \in Nat, NEW t, NEW T, Reads(t, T, level + 1)
    PROVE  Reads(t, T, level)
  <1>1. t \in Seq(Spelled)
    BY DEF Reads
  <1>2. AtLeast(level + 1) \subseteq AtLeast(level)
    BY AtLeastNext
  <1>3. ASSUME NEW q \in Seq(Spelled), NEW a \in Nat,
               NEW s \in Seq(Stacked), NEW o \in Seq(Tokens), At(q, a, t),
               TopBinds(s) < level
        PROVE  ReadFrom(q, a, s, o, t, T, level)
    <2>1. TopBinds(s) < level + 1
      BY <1>3, TopBindsType
    <2>2. ReadFrom(q, a, s, o, t, T, level + 1)
      BY <1>3, <2>1 DEF Reads
    <2>3. \A m \in Seq(AtLeast(level + 1)) : m \in Seq(AtLeast(level))
      BY <1>2, SeqMonotonic
    <2> QED BY <2>2, <2>3 DEF ReadFrom
  <1> QED BY <1>1, <1>3 DEF Reads

\* A negation of what is read after anything.
LEMMA ReadsNegation ==
    ASSUME NEW u, NEW T, Reads(u, T, 4)
    PROVE  Reads(<<"!">> \o u, Documents \ T, 3)
  <1> DEFINE e == <<"!">>
             t == e \o u
             not == Documents \ T
  <1>1. /\ e \in Seq(Spelled) /\ "!" \in Spelled /\ "!" \in Operators
        /\ "!" \in Stacked /\ precedence("!") = 3
        /\ e \in Seq(Tokens) /\ e \in Seq(AtLeast(3)) /\ "!" \in AtLeast(3)
    BY DEF Spelled, Symbols, Operators, Stacked, precedence, Tokens, AtLeast
  <1>2. u \in Seq(Spelled)
    BY DEF Reads
  <1>3. t \in Seq(Spelled) /\ Len(e) = 1 /\ Len(t) = 1 + Len(u) /\ Len(u) \in Nat
    BY <1>1, <1>2, ConcatProperties
  <1>4. ASSUME NEW q \in Seq(Spelled), NEW a \in Nat,
               NEW s \in Seq(Stacked), NEW o \in Seq(Tokens), At(q, a, t),
               TopBinds(s) < 3
        PROVE  ReadFrom(q, a, s, o, t, not, 3)
    <2> DEFINE s1 == s \o e
    <2>1. At(q, a, e) /\ At(q, a + 1, u)
      BY <1>1, <1>2, <1>3, <1>4, AtParts
    <2>2. a + 1 \in 1..Len(q) /\ q[a + 1] = "!" /\ a + 1 \in Nat
      BY <1>1, <2>1, AtOne
    <2>3. s1 \in Seq(Stacked) /\ TopBinds(s1) = 3
      BY <1>1, TopBindsType
    <2>4. Leads(q, Conf(a + 1, s, o), Conf((a + 1) + 1, s1, o))
      <3>1. Leads(q, Conf(a + 1, s, o), Conf((a + 1) + 1, s \o <<q[a + 1]>>, o))
        BY <1>1, <1>4, <2>2, PushStep
      <3> QED BY <2>2, <3>1
    <2> HIDE DEF s1
    <2>5. ReadFrom(q, a + 1, s1, o, u, T, 4)
      BY <2>1, <2>2, <2>3 DEF Reads
    <2>6. PICK m \in Seq(AtLeast(4)), r \in Seq(Tokens) :
             /\ Denotes(r \o Reversed(m), T)
             /\ Leads(q, Conf((a + 1) + 1, s1, o),
                         Conf((a + 1) + Len(u) + 1, s1 \o m, o \o r))
      BY <2>5 DEF ReadFrom
    <2> DEFINE n == e \o m
    <2>7. /\ m \in Seq(AtLeast(3)) /\ m \in Seq(Stacked)
          /\ Reversed(m) \in Seq(Tokens)
      <3>1. AtLeast(4) \subseteq AtLeast(3)
        BY AtLeastNext, 3 + 1 = 4
      <3> QED BY <3>1, SeqMonotonic, AtLeastType
    <2>8. n \in Seq(AtLeast(3))
      BY <1>1, <2>7, ConcatProperties
    <2>9. s1 \o m = s \o n
      <3>1. e \in Seq(Stacked)
        BY <1>1
      <3> HIDE DEF e
      <3> QED BY <2>7, <3>1, StackJoined DEF s1
    <2>10. Denotes(r \o Reversed(n), not)
      <3>1. Reversed(n) = Reversed(m) \o e
        BY <1>1, <2>7, ReversedBottom
      <3>2. r \o (Reversed(m) \o e) = (r \o Reversed(m)) \o e
        <4> HIDE DEF e
        <4> QED BY <1>1, <2>7, TokensJoined
      <3>3. Denotes((r \o Reversed(m)) \o e, not)
        BY <2>6, DenotesNegation
      <3> QED BY <3>1, <3>2, <3>3
    <2>11. (a + 1) + Len(u) + 1 = a + Len(t) + 1
      BY <1>3
    <2>12. Leads(q, Conf(a + 1, s, o), Conf(a + Len(t) + 1, s \o n, o \o r))
      <3> HIDE DEF n, t
      <3> QED BY <2>4, <2>6, <2>9, <2>11, LeadsFurther
    <2> HIDE DEF n, t, not
    <2> QED BY <2>8, <2>10, <2>12 DEF ReadFrom
  <1> HIDE DEF t, not
  <1>5. Reads(t, not, 3)
    BY <1>3, <1>4 DEF Reads
  <1> QED BY <1>5 DEF t, not

\* What & and | mean.
Meant(op, T, U) == IF op = "&" THEN T \cap U ELSE T \cup U

\* The second operand may be taken apart.
LEMMA DenotesParts ==
    ASSUME NEW op \in {"&", "|"},
           NEW x \in Seq(Tokens), NEW T1, Denotes(x, T1),
           NEW r \in Seq(Tokens), NEW w \in Seq(Tokens), NEW T2,
           Denotes(r \o w, T2)
    PROVE  Denotes((x \o r) \o (w \o <<op>>), Meant(op, T1, T2))
  <1> DEFINE e == <<op>>
             y == x \o r
  <1>1. e \in Seq(Tokens)
    BY DEF Tokens, Operators
  <1>2. y \in Seq(Tokens)
    BY ConcatProperties
  <1>3. y \o w = x \o (r \o w)
    BY TokensJoined
  <1> HIDE DEF e, y
  <1>4. y \o (w \o e) = (y \o w) \o e
    BY <1>1, <1>2, TokensJoined
  <1>5. Denotes((x \o (r \o w)) \o e, Meant(op, T1, T2))
    <2> DEFINE u == r \o w
    <2>1. Denotes(u, T2)
      OBVIOUS
    <2> HIDE DEF u
    <2>2. /\ Denotes((x \o u) \o <<"&">>, T1 \cap T2)
          /\ Denotes((x \o u) \o <<"|">>, T1 \cup T2)
      BY <2>1, DenotesBinary
    <2> QED BY <2>2 DEF Meant, e, u
  <1> QED BY <1>3, <1>4, <1>5 DEF e, y

\* A conjunction or a disjunction: what stands behind the operator has to
\* bind tighter, what stands before it need not.
LEMMA ReadsBinary ==
    ASSUME NEW op \in {"&", "|"},
           NEW t1, NEW T1, Reads(t1, T1, precedence(op)),
           NEW t2, NEW T2, Reads(t2, T2, precedence(op) + 1)
    PROVE  Reads((t1 \o <<op>>) \o t2, Meant(op, T1, T2), precedence(op))
  <1> DEFINE e == <<op>>
             t0 == t1 \o e
             t == t0 \o t2
             T == Meant(op, T1, T2)
             p == precedence(op)
  <1>1. /\ e \in Seq(Spelled) /\ op \in Spelled /\ op \in Operators
        /\ op \in Stacked /\ p \in Nat
        /\ e \in Seq(Tokens) /\ e \in Seq(AtLeast(p)) /\ op \in AtLeast(p)
        /\ e \in Seq(Stacked) /\ Len(e) = 1
    BY PrecedenceType
       DEF Spelled, Symbols, Operators, Stacked, Tokens, AtLeast
  <1>2. /\ t1 \in Seq(Spelled) /\ t2 \in Seq(Spelled)
        /\ Len(t1) \in Nat /\ Len(t2) \in Nat
    BY DEF Reads
  <1> HIDE DEF p
  <1>3. /\ t0 \in Seq(Spelled) /\ Len(t0) = Len(t1) + 1
        /\ t \in Seq(Spelled) /\ Len(t) = Len(t1) + 1 + Len(t2)
    <2>1. t0 \in Seq(Spelled) /\ Len(t0) = Len(t1) + 1
      BY <1>1, <1>2, ConcatProperties
    <2> HIDE DEF t0
    <2> QED BY <1>2, <2>1, ConcatProperties
  <1> HIDE DEF e
  <1>4. ASSUME NEW q \in Seq(Spelled), NEW a \in Nat,
               NEW s \in Seq(Stacked), NEW o \in Seq(Tokens), At(q, a, t),
               TopBinds(s) < p
        PROVE  ReadFrom(q, a, s, o, t, T, p)
    <2> DEFINE b == a + Len(t1) + 1
               s1 == s \o e
    <2>1. /\ At(q, a, t1) /\ At(q, a + Len(t1), e) /\ At(q, b, t2)
          /\ b \in Nat /\ a + Len(t1) \in Nat /\ (a + Len(t1)) + 1 = b
      <3>1. At(q, a, t0) /\ At(q, a + Len(t0), t2)
        <4> HIDE DEF t0
        <4> QED BY <1>2, <1>3, <1>4, AtParts
      <3>2. At(q, a, t1) /\ At(q, a + Len(t1), e)
        BY <1>1, <1>2, <3>1, AtParts
      <3>3. a + Len(t0) = b
        BY <1>2, <1>3
      <3> QED BY <1>2, <3>1, <3>2, <3>3
    <2>2. b \in 1..Len(q) /\ q[b] = op
      <3>1. (a + Len(t1)) + 1 \in 1..Len(q) /\ q[(a + Len(t1)) + 1] = op
        BY <1>1, <2>1, AtOne DEF e
      <3> QED BY <2>1, <3>1
    <2>3. s1 \in Seq(Stacked) /\ TopBinds(s1) = p
      BY <1>1, TopBindsType DEF e, p
    <2>4. PICK m1 \in Seq(AtLeast(p)), r1 \in Seq(Tokens) :
             /\ Denotes(r1 \o Reversed(m1), T1)
             /\ Leads(q, Conf(a + 1, s, o), Conf(b, s \o m1, o \o r1))
      BY <1>4, <2>1 DEF Reads, ReadFrom, p
    <2>5. /\ m1 \in Seq(Operators) /\ Reversed(m1) \in Seq(Tokens)
          /\ \A k \in 1..Len(m1) :
                m1[k] \in Operators /\ precedence(m1[k]) >= p
      BY <2>4, AtLeastType
    <2> HIDE DEF b, s1
    <2> DEFINE x1 == r1 \o Reversed(m1)
               o1 == o \o r1
               o2 == o \o x1
    <2>6. /\ o1 \in Seq(Tokens) /\ x1 \in Seq(Tokens) /\ o2 \in Seq(Tokens)
          /\ o1 \o Reversed(m1) = o2
      <3>1. o1 \in Seq(Tokens) /\ x1 \in Seq(Tokens)
        BY <2>5, ConcatProperties
      <3>2. o1 \o Reversed(m1) = o2
        BY <2>5, TokensJoined
      <3> HIDE DEF x1
      <3>3. o2 \in Seq(Tokens)
        BY <3>1, ConcatProperties
      <3> QED BY <3>1, <3>2, <3>3
    <2>7. Leads(q, Conf(b, s \o m1, o1), Conf(b, s, o2))
      <3>1. \A k \in 1..Len(m1) : PopsAt(q, b, m1[k], Len(s) + k)
        BY <1>1, <2>2, <2>5 DEF PopsAt, p
      <3>2. Len(q) \in Nat
        OBVIOUS
      <3> HIDE DEF o1, o2
      <3>3. Leads(q, Conf(b, s \o m1, o1), Conf(b, s, o1 \o Reversed(m1)))
        BY <2>1, <2>5, <2>6, <3>1, <3>2, AllPopped
      <3> QED BY <2>6, <3>3
    <2> HIDE DEF o2, x1
    <2>8. Leads(q, Conf(b, s, o2), Conf(b + 1, s1, o2))
      <3>1. Leads(q, Conf(b, s, o2), Conf(b + 1, s \o <<q[b]>>, o2))
        BY <1>1, <1>4, <2>1, <2>2, <2>6, PushStep DEF p
      <3> QED BY <2>2, <3>1 DEF s1, e
    <2>9. PICK m2 \in Seq(AtLeast(p + 1)), r2 \in Seq(Tokens) :
             /\ Denotes(r2 \o Reversed(m2), T2)
             /\ Leads(q, Conf(b + 1, s1, o2),
                         Conf(b + Len(t2) + 1, s1 \o m2, o2 \o r2))
      <3>1. TopBinds(s1) < p + 1
        BY <1>1, <2>3
      <3> QED BY <2>1, <2>3, <2>6, <3>1 DEF Reads, ReadFrom, p
    <2> DEFINE m == e \o m2
               r == x1 \o r2
               x2 == r2 \o Reversed(m2)
    <2>10. /\ m2 \in Seq(AtLeast(p)) /\ m2 \in Seq(Stacked)
           /\ Reversed(m2) \in Seq(Tokens)
      <3>1. AtLeast(p + 1) \subseteq AtLeast(p)
        BY <1>1, AtLeastNext
      <3> QED BY <3>1, SeqMonotonic, AtLeastType
    <2>11. m \in Seq(AtLeast(p)) /\ r \in Seq(Tokens) /\ x2 \in Seq(Tokens)
      BY <1>1, <2>6, <2>10, ConcatProperties
    <2>12. s1 \o m2 = s \o m
      BY <1>1, <2>10, StackJoined DEF s1
    <2>13. o2 \o r2 = o \o r
      <3> DEFINE u == x1
                 v == r2
      <3>1. o \in Seq(Tokens) /\ u \in Seq(Tokens) /\ v \in Seq(Tokens)
        BY <2>6
      <3> HIDE DEF u, v
      <3>2. (o \o u) \o v = o \o (u \o v)
        BY <3>1, TokensJoined
      <3> QED BY <3>2 DEF o2, u, v
    <2>14. Denotes(r \o Reversed(m), T)
      <3>1. Reversed(m) = Reversed(m2) \o e
        BY <1>1, <2>10, ReversedBottom DEF e
      <3>2. Denotes(x1, T1) /\ Denotes(x2, T2)
        BY <2>4, <2>9 DEF x1
      <3>3. Denotes((x1 \o r2) \o (Reversed(m2) \o <<op>>), Meant(op, T1, T2))
        BY <2>6, <2>10, <3>2, DenotesParts
      <3> QED BY <3>1, <3>3 DEF e
    <2>15. b + Len(t2) + 1 = a + Len(t) + 1
      BY <1>2, <1>3 DEF b
    <2> HIDE DEF m, r, t, T, o1
    <2>16. Leads(q, Conf(b, s \o m1, o1), Conf(b + 1, s1, o2))
      BY <2>7, <2>8, LeadsFurther
    <2>17. Leads(q, Conf(b, s \o m1, o1), Conf(a + Len(t) + 1, s \o m, o \o r))
      BY <2>9, <2>12, <2>13, <2>15, <2>16, LeadsFurther
    <2>18. Leads(q, Conf(a + 1, s, o), Conf(b, s \o m1, o1))
      BY <2>4 DEF o1
    <2>19. Leads(q, Conf(a + 1, s, o), Conf(a + Len(t) + 1, s \o m, o \o r))
      BY <2>17, <2>18, LeadsFurther
    <2> QED BY <2>11, <2>14, <2>19 DEF ReadFrom
  <1> HIDE DEF t, T
  <1>5. Reads(t, T, p)
    BY <1>3, <1>4 DEF Reads
  <1> QED BY <1>5 DEF t, T, p, t0, e

\* A query in parentheses, after anything.
LEMMA ReadsParens ==
    ASSUME NEW u, NEW T, Reads(u, T, 1)
    PROVE  Reads((<<"(">> \o u) \o <<")">>, T, 4)
  <1> DEFINE e == <<"(">>
             f == <<")">>
             t0 == e \o u
             t == t0 \o f
  <1>1. /\ e \in Seq(Spelled) /\ "(" \in Spelled /\ "(" \in Stacked
        /\ f \in Seq(Spelled) /\ ")" \in Spelled
        /\ precedence("(") = -1
    BY DEF Spelled, Symbols, Stacked, precedence
  <1>2. u \in Seq(Spelled) /\ Len(u) \in Nat
    BY DEF Reads
  <1>3. /\ t0 \in Seq(Spelled) /\ Len(t0) = 1 + Len(u) /\ Len(e) = 1
        /\ t \in Seq(Spelled) /\ Len(t) = Len(u) + 2
    <2>1. /\ t0 \in Seq(Spelled) /\ Len(t0) = 1 + Len(u)
          /\ Len(e) = 1 /\ Len(f) = 1
      BY <1>1, <1>2, ConcatProperties
    <2> HIDE DEF t0, f, e
    <2>2. t0 \in Seq(Spelled) /\ f \in Seq(Spelled)
      BY <1>1, <2>1
    <2>3. t \in Seq(Spelled) /\ Len(t) = Len(t0) + Len(f)
      BY <2>2, ConcatProperties
    <2>4. (1 + Len(u)) + 1 = Len(u) + 2
      BY <1>2
    <2> QED BY <2>1, <2>3, <2>4
  <1> HIDE DEF e, f
  <1>4. ASSUME NEW q \in Seq(Spelled), NEW a \in Nat,
               NEW s \in Seq(Stacked), NEW o \in Seq(Tokens), At(q, a, t)
        PROVE  ReadFrom(q, a, s, o, t, T, 4)
    <2> DEFINE b == a + 1 + Len(u)
               s1 == s \o e
               none == <<>>
    <2>1. /\ At(q, a, e) /\ At(q, a + 1, u) /\ At(q, b, f)
          /\ a + 1 \in Nat /\ b \in Nat
      <3>1. At(q, a, t0) /\ At(q, a + Len(t0), f)
        <4> HIDE DEF t0
        <4> QED BY <1>1, <1>3, <1>4, AtParts
      <3>2. At(q, a, e) /\ At(q, a + Len(e), u)
        BY <1>1, <1>2, <3>1, AtParts
      <3>3. a + Len(t0) = b
        BY <1>2, <1>3
      <3> QED BY <1>2, <1>3, <3>1, <3>2, <3>3
    <2>2. a + 1 \in 1..Len(q) /\ q[a + 1] = "("
      BY <1>1, <2>1, AtOne DEF e
    <2>3. b + 1 \in 1..Len(q) /\ q[b + 1] = ")" /\ b + 1 \in Nat
      BY <1>1, <2>1, AtOne DEF f
    <2>4. s1 \in Seq(Stacked) /\ TopBinds(s1) = -1 /\ Len(s1) = Len(s) + 1
      <3>1. s1 \in Seq(Stacked) /\ TopBinds(s1) = -1 /\ s1 = Append(s, "(")
        BY <1>1, TopBindsType DEF e
      <3> QED BY <1>1, <3>1, TopPopped
    <2>5. Leads(q, Conf(a + 1, s, o), Conf((a + 1) + 1, s1, o))
      BY <2>1, <2>2, OpenStep DEF e
    <2> HIDE DEF b, s1
    <2>6. PICK m \in Seq(AtLeast(1)), r \in Seq(Tokens) :
             /\ Denotes(r \o Reversed(m), T)
             /\ Leads(q, Conf((a + 1) + 1, s1, o),
                         Conf((a + 1) + Len(u) + 1, s1 \o m, o \o r))
      <3>1. TopBinds(s1) < 1
        BY <2>4
      <3> QED BY <2>1, <2>4, <3>1 DEF Reads, ReadFrom
    <2>7. (a + 1) + Len(u) + 1 = b + 1 /\ (b + 1) + 1 = a + Len(t) + 1
      BY <1>2, <1>3 DEF b
    <2> HIDE DEF t
    <2> DEFINE x == r \o Reversed(m)
               o1 == o \o r
    <2>8. m \in Seq(Operators) /\ Reversed(m) \in Seq(Tokens)
      BY AtLeastType
    <2>9. x \in Seq(Tokens) /\ o1 \in Seq(Tokens)
      BY <2>8, ConcatProperties
    <2>10. o1 \o Reversed(m) = o \o x
      BY <2>8, TokensJoined
    <2>11. o \o x \in Seq(Tokens)
      <3> HIDE DEF x
      <3> QED BY <2>9, ConcatProperties
    <2> HIDE DEF x
    <2>12. Leads(q, Conf(b + 1, s1 \o m, o1), Conf(b + 1, s1, o \o x))
      <3>1. ASSUME NEW k \in 1..Len(m)
            PROVE  PopsAt(q, b + 1, m[k], Len(s1) + k)
        <4>1. Len(s) \in Nat /\ Len(m) \in Nat
          OBVIOUS
        <4>2. Len(s1) + k > 1
          BY <2>4, <4>1
        <4> QED BY <2>3, <4>2 DEF PopsAt
      <3>2. Len(q) \in Nat
        OBVIOUS
      <3> HIDE DEF o1
      <3>3. Leads(q, Conf(b + 1, s1 \o m, o1),
                     Conf(b + 1, s1, o1 \o Reversed(m)))
        BY <2>3, <2>4, <2>8, <2>9, <3>1, <3>2, AllPopped
      <3> QED BY <2>10, <3>3
    <2>13. Leads(q, Conf(b + 1, s1, o \o x), Conf((b + 1) + 1, s, o \o x))
      <3> DEFINE y == o \o x
      <3>1. y \in Seq(Tokens)
        BY <2>11
      <3> HIDE DEF y
      <3>2. Leads(q, Conf(b + 1, s \o <<"(">>, y), Conf((b + 1) + 1, s, y))
        BY <2>3, <3>1, CloseStep
      <3> QED BY <3>2 DEF y, s1, e
    <2>14. Leads(q, Conf(a + 1, s, o), Conf(b + 1, s1 \o m, o1))
      BY <2>5, <2>6, <2>7, LeadsFurther
    <2>15. Leads(q, Conf(a + 1, s, o), Conf(a + Len(t) + 1, s, o \o x))
      <3>1. Leads(q, Conf(a + 1, s, o), Conf(b + 1, s1, o \o x))
        BY <2>12, <2>14, LeadsFurther
      <3> QED BY <2>7, <2>13, <3>1, LeadsFurther
    <2>16. none \in Seq(AtLeast(4)) /\ s \o none = s
      BY EmptySeq, ConcatEmptySeq
    <2>17. Denotes(x \o Reversed(none), T)
      BY <2>6, <2>9, ReversedNone, ConcatEmptySeq DEF x
    <2> HIDE DEF none
    <2> QED BY <2>9, <2>15, <2>16, <2>17 DEF ReadFrom
  <1> HIDE DEF t
  <1>5. Reads(t, T, 4)
    BY <1>3, <1>4 DEF Reads
  <1> QED BY <1>5 DEF t, t0, e, f

\* A whole input that is read is put out with its meaning.
LEMMA ReadsInput ==
    ASSUME NEW q, NEW T, Reads(q, T, 1)
    PROVE  \E d \in Configs : /\ Leads(q, Conf(1, <<>>, <<>>), d)
                              /\ d.end = "done"
                              /\ Denotes(d.out, T)
  <1> DEFINE none == <<>>
             b == Len(q) + 1
  <1>1. q \in Seq(Spelled) /\ Len(q) \in Nat /\ 0 \in Nat
    BY DEF Reads
  <1>2. At(q, 0, q)
    BY <1>1 DEF At
  <1>3. /\ none \in Seq(Stacked) /\ none \in Seq(Tokens)
        /\ TopBinds(none) < 1 /\ none = <<>> /\ Len(none) = 0
    BY EmptySeq DEF TopBinds
  <1> HIDE DEF none
  <1>4. PICK m \in Seq(AtLeast(1)), r \in Seq(Tokens) :
           /\ Denotes(r \o Reversed(m), T)
           /\ Leads(q, Conf(0 + 1, none, none),
                       Conf(0 + Len(q) + 1, none \o m, none \o r))
    BY <1>1, <1>2, <1>3 DEF Reads, ReadFrom
  <1>5. 0 + 1 = 1 /\ 0 + Len(q) + 1 = b /\ b \in Nat /\ b \notin 1..Len(q)
    BY <1>1
  <1> HIDE DEF b
  <1> DEFINE x == r \o Reversed(m)
  <1>6. m \in Seq(Operators) /\ Reversed(m) \in Seq(Tokens)
    BY AtLeastType
  <1>7. x \in Seq(Tokens) /\ none \o r = r
    BY <1>3, <1>6, ConcatProperties, ConcatEmptySeq
  <1> HIDE DEF x
  <1>8. Leads(q, Conf(b, none \o m, r), Conf(b, none, x))
    <2>1. \A k \in 1..Len(m) : PopsAt(q, b, m[k], Len(none) + k)
      BY <1>5 DEF PopsAt
    <2> QED BY <1>1, <1>3, <1>5, <1>6, <2>1, AllPopped DEF x
  <1>9. Leads(q, Conf(b, none, x), Ends(Conf(b, none, x), "done"))
    BY <1>3, <1>5, <1>7, EndStep
  <1> DEFINE d == Ends(Conf(b, none, x), "done")
  <1>10. d.end = "done" /\ d.out = x
    BY DEF Ends, Conf
  <1> HIDE DEF d
  <1>11. Leads(q, Conf(1, none, none), Conf(b, none \o m, r))
    BY <1>4, <1>5, <1>7
  <1>12. Leads(q, Conf(1, none, none), d)
    <2>1. Leads(q, Conf(1, none, none), Conf(b, none, x))
      BY <1>8, <1>11, LeadsFurther
    <2> QED BY <1>9, <2>1, LeadsFurther DEF d
  <1>13. d \in Configs
    BY <1>12 DEF Leads
  <1>14. Denotes(d.out, T)
    BY <1>4, <1>10 DEF x
  <1> QED BY <1>3, <1>10, <1>12, <1>13, <1>14

-----------------------------------------------------------------------------
(* The queries of the grammar are read *)

\* The phrases that are read when what is on the stack binds looser.
Readable(level) ==
    {e \in Seq(Spelled) \X SUBSET Documents : Reads(e[1], e[2], level)}

\* Phrases of one length, each read at the level of its kind.
Sound == [atom : SUBSET Readable(4), literal : SUBSET Readable(3),
          term : SUBSET Readable(2), query : SUBSET Readable(1)]

\* A readable phrase is a pair.
LEMMA ReadableType ==
    ASSUME NEW level, NEW e \in Readable(level)
    PROVE  /\ Reads(e[1], e[2], level)
           /\ e[1] \in Seq(Spelled) /\ e[2] \in SUBSET Documents
  BY DEF Readable

\* The converse: what a pair must be to be in Readable.
LEMMA IsReadable ==
    ASSUME NEW level, NEW t, NEW T \in SUBSET Documents, Reads(t, T, level)
    PROVE  <<t, T>> \in Readable(level)
  BY DEF Readable, Reads

\* What is readable at a level is readable at the one below.
LEMMA ReadableBelow ==
    ASSUME NEW level \in Nat
    PROVE  Readable(level + 1) \subseteq Readable(level)
  <1> SUFFICES ASSUME NEW e \in Readable(level + 1) PROVE e \in Readable(level)
    OBVIOUS
  <1>1. Reads(e[1], e[2], level)
    BY ReadableType, ReadsWeaker
  <1> QED BY <1>1 DEF Readable

\* The productions of the grammar.
LEMMA Productions ==
    /\ \A w \in Words :
          <<<<w>>, {d \in Documents : w \in d}>> \in Readable(4)
    /\ \A e \in Readable(1) :
          <<<<"(">> \o e[1] \o <<")">>, e[2]>> \in Readable(4)
    /\ \A e \in Readable(4) : Negation(e) \in Readable(3)
    /\ \A e \in Readable(2), f \in Readable(3) : Both(e, f) \in Readable(2)
    /\ \A e \in Readable(1), f \in Readable(2) : Either(e, f) \in Readable(1)
  <1>1. ASSUME NEW w \in Words
        PROVE  <<<<w>>, {d \in Documents : w \in d}>> \in Readable(4)
    <2>1. Reads(<<w>>, {d \in Documents : w \in d}, 4)
      BY ReadsWord
    <2>2. {d \in Documents : w \in d} \in SUBSET Documents
      OBVIOUS
    <2> QED BY <2>1, <2>2, IsReadable
  <1>2. ASSUME NEW e \in Readable(1)
        PROVE  <<<<"(">> \o e[1] \o <<")">>, e[2]>> \in Readable(4)
    <2>1. Reads(e[1], e[2], 1) /\ e[2] \in SUBSET Documents
      BY ReadableType
    <2>2. Reads((<<"(">> \o e[1]) \o <<")">>, e[2], 4)
      BY <2>1, ReadsParens
    <2> QED BY <2>1, <2>2, IsReadable
  <1>3. ASSUME NEW e \in Readable(4)
        PROVE  Negation(e) \in Readable(3)
    <2>1. Reads(e[1], e[2], 4)
      BY ReadableType
    <2>2. Reads(<<"!">> \o e[1], Documents \ e[2], 3)
      BY <2>1, ReadsNegation
    <2>3. Documents \ e[2] \in SUBSET Documents
      OBVIOUS
    <2> QED BY <2>2, <2>3, IsReadable DEF Negation
  <1>4. ASSUME NEW e \in Readable(2), NEW f \in Readable(3)
        PROVE  Both(e, f) \in Readable(2)
    <2>1. /\ Reads(e[1], e[2], 2) /\ Reads(f[1], f[2], 3)
          /\ e[2] \in SUBSET Documents /\ f[2] \in SUBSET Documents
      BY ReadableType
    <2>2. precedence("&") = 2 /\ precedence("&") + 1 = 3 /\ "&" \in {"&", "|"}
      BY DEF precedence
    <2>3. Reads((e[1] \o <<"&">>) \o f[1], Meant("&", e[2], f[2]),
                precedence("&"))
      BY <2>1, <2>2, ReadsBinary
    <2>4. Meant("&", e[2], f[2]) = e[2] \cap f[2]
      BY DEF Meant
    <2>5. e[2] \cap f[2] \in SUBSET Documents
      BY <2>1
    <2> QED BY <2>2, <2>3, <2>4, <2>5, IsReadable DEF Both
  <1>5. ASSUME NEW e \in Readable(1), NEW f \in Readable(2)
        PROVE  Either(e, f) \in Readable(1)
    <2>1. /\ Reads(e[1], e[2], 1) /\ Reads(f[1], f[2], 2)
          /\ e[2] \in SUBSET Documents /\ f[2] \in SUBSET Documents
      BY ReadableType
    <2>2. precedence("|") = 1 /\ precedence("|") + 1 = 2 /\ "|" \in {"&", "|"}
      BY DEF precedence
    <2>3. Reads((e[1] \o <<"|">>) \o f[1], Meant("|", e[2], f[2]),
                precedence("|"))
      BY <2>1, <2>2, ReadsBinary
    <2>4. Meant("|", e[2], f[2]) = e[2] \cup f[2]
      BY DEF Meant
    <2>5. e[2] \cup f[2] \in SUBSET Documents
      BY <2>1
    <2> QED BY <2>2, <2>3, <2>4, <2>5, IsReadable DEF Either
  <1> QED BY <1>1, <1>2, <1>3, <1>4, <1>5

\* From readable shorter phrases, readable phrases of n tokens are made.
LEMMA SentencesSound ==
    ASSUME NEW max \in Nat, NEW lang \in [0..max -> Sound], NEW n \in 1..max
    PROVE  Sentences(lang, n, FALSE) \in Sound
  <1> DEFINE atom == {<<<<w>>, {d \in Documents : w \in d}>> :
                         w \in {v \in Words : n = 1}}
                     \cup {<<<<"(">> \o e[1] \o <<")">>, e[2]>> :
                             e \in IF n > 2 THEN lang[n - 2].query ELSE {}}
             literal == atom \cup {Negation(e) : e \in lang[n - 1].atom}
             both(k) == {Both(e, f) : e \in lang[k].term,
                                      f \in lang[n - 1 - k].literal}
             term == literal \cup UNION {both(k) : k \in 1..n - 2}
             either(k) == {Either(e, f) : e \in lang[k].query,
                                          f \in lang[n - 1 - k].term}
             query == term \cup UNION {either(k) : k \in 1..n - 2}
  <1>1. Sentences(lang, n, FALSE)
          = [atom |-> atom, literal |-> literal, term |-> term, query |-> query]
    BY DEF Sentences
  <1>2. \A k \in 0..max :
           /\ lang[k].atom \subseteq Readable(4)
           /\ lang[k].literal \subseteq Readable(3)
           /\ lang[k].term \subseteq Readable(2)
           /\ lang[k].query \subseteq Readable(1)
    <2> TAKE k \in 0..max
    <2>1. lang[k] \in Sound
      OBVIOUS
    <2> QED BY <2>1 DEF Sound
  <1>3. /\ n - 1 \in 0..max
        /\ n > 2 => n - 2 \in 0..max
        /\ \A k \in 1..n - 2 : k \in 0..max /\ n - 1 - k \in 0..max
    OBVIOUS
  <1>4. atom \subseteq Readable(4)
    BY <1>2, <1>3, Productions
  <1> HIDE DEF atom
  <1>5. literal \subseteq Readable(3)
    <2>1. 3 \in Nat /\ 3 + 1 = 4
      OBVIOUS
    <2>2. atom \subseteq Readable(3)
      BY <1>4, <2>1, ReadableBelow
    <2> QED BY <1>2, <1>3, <2>2, Productions
  <1> HIDE DEF literal
  <1>6. term \subseteq Readable(2)
    <2>1. 2 \in Nat /\ 2 + 1 = 3
      OBVIOUS
    <2>2. literal \subseteq Readable(2)
      BY <1>5, <2>1, ReadableBelow
    <2>3. ASSUME NEW k \in 1..n - 2 PROVE both(k) \subseteq Readable(2)
      BY <1>2, <1>3, Productions
    <2> HIDE DEF both
    <2> QED BY <2>2, <2>3
  <1> HIDE DEF term
  <1>7. query \subseteq Readable(1)
    <2>1. 1 \in Nat /\ 1 + 1 = 2
      OBVIOUS
    <2>2. term \subseteq Readable(1)
      BY <1>6, <2>1, ReadableBelow
    <2>3. ASSUME NEW k \in 1..n - 2 PROVE either(k) \subseteq Readable(1)
      BY <1>2, <1>3, Productions
    <2> HIDE DEF either
    <2> QED BY <2>2, <2>3
  <1> HIDE DEF query
  <1>8. [atom |-> atom, literal |-> literal, term |-> term, query |-> query]
          \in Sound
    BY <1>4, <1>5, <1>6, <1>7 DEF Sound
  <1> QED BY <1>1, <1>8

\* The table of the phrases satisfies the equation it is defined by.
LEMMA ShorterSound ==
    ASSUME NEW max \in Nat
    PROVE  Shorter(max, FALSE)[max] \in [0..max -> Sound]
  <1> DEFINE S == [0..max -> Sound]
             none == [k \in 0..max |-> NoSentences]
             F == [p \in (1..max) \X S |->
                     [p[2] EXCEPT ![p[1]] = Sentences(p[2], p[1], FALSE)]]
  <1>1. none \in S
    <2>1. NoSentences \in Sound
      BY DEF NoSentences, Sound
    <2> QED BY <2>1
  <1>2. /\ F \in [(1..max) \X S -> S]
        /\ \A n \in 1..max, lang \in S :
              F[<<n, lang>>] = [lang EXCEPT ![n] = Sentences(lang, n, FALSE)]
    <2>1. ASSUME NEW n \in 1..max, NEW lang \in S
          PROVE  [lang EXCEPT ![n] = Sentences(lang, n, FALSE)] \in S
      <3>1. Sentences(lang, n, FALSE) \in Sound
        BY SentencesSound
      <3> QED BY <3>1
    <2> HIDE DEF S
    <2> QED BY <2>1
  <1> HIDE DEF F, none, S
  <1>3. PICK f \in [0..max -> S] :
           \A j \in 0..max : f[j] = IF j = 0 THEN none ELSE F[<<j, f[j - 1]>>]
    <2>1. \E f \in [0..max -> S] : Recursive(f, max, none, F)
      BY <1>1, <1>2, Recursion
    <2> QED BY <2>1 DEF Recursive
  <1>4. f = [n \in 0..max |->
               IF n = 0 THEN none
               ELSE LET lang == f[n - 1]
                    IN  [lang EXCEPT ![n] = Sentences(lang, n, FALSE)]]
    <2>1. ASSUME NEW n \in 0..max, n # 0
          PROVE  f[n] = [f[n - 1] EXCEPT ![n] = Sentences(f[n - 1], n, FALSE)]
      <3>1. n - 1 \in 0..max /\ n \in 1..max
        BY <2>1
      <3> QED BY <1>2, <1>3, <2>1, <3>1
    <2> QED BY <1>3, <2>1
  <1> DEFINE table == Shorter(max, FALSE)
  <1>5. table = [n \in 0..max |->
                   IF n = 0 THEN none
                   ELSE LET lang == table[n - 1]
                        IN  [lang EXCEPT ![n] = Sentences(lang, n, FALSE)]]
    BY <1>4 DEF Shorter, none
  <1> HIDE DEF table
  <1> DEFINE T == {n \in 0..max : table[n] \in S}
  <1>6. 0 \in T
    <2>1. 0 \in 0..max
      OBVIOUS
    <2> QED BY <1>1, <1>5, <2>1
  <1>7. ASSUME NEW n \in 0..max - 1, n \in T
        PROVE  n + 1 \in T
    <2>1. n + 1 \in 0..max /\ n + 1 \in 1..max /\ (n + 1) - 1 = n /\ n + 1 # 0
      OBVIOUS
    <2> DEFINE lang == table[n]
    <2>2. lang \in S
      BY <1>7
    <2>3. table[n + 1] = [lang EXCEPT ![n + 1] = Sentences(lang, n + 1, FALSE)]
      BY <1>5, <2>1
    <2> HIDE DEF lang
    <2>4. F[<<n + 1, lang>>] \in S
      BY <1>2, <2>1, <2>2
    <2>5. table[n + 1] = F[<<n + 1, lang>>]
      BY <1>2, <2>1, <2>2, <2>3
    <2> QED BY <2>1, <2>4, <2>5
  <1>8. max \in T
    <2> HIDE DEF T
    <2>1. \A n \in 0..max : n \in T
      BY <1>6, <1>7, Induction
    <2> QED BY <2>1
  <1> QED BY <1>8 DEF table, S

\* Every query of the grammar is read.
LEMMA PlainReads ==
    ASSUME NEW n \in 0..MaxQuery, NEW e \in Plain[n]
    PROVE  Reads(e[1], e[2], 1) /\ e[2] \in SUBSET Documents
  <1> DEFINE lang == Language(MaxQuery, FALSE)
  <1>1. lang \in [0..MaxQuery -> Sound]
    BY ParserAssumption, ShorterSound DEF Language
  <1>2. Plain[n] = lang[n].query
    BY DEF Plain, Grammar
  <1> HIDE DEF lang
  <1>3. lang[n] \in Sound
    BY <1>1
  <1>4. e \in Readable(1)
    BY <1>2, <1>3 DEF Sound
  <1> QED BY <1>4, ReadableType

-----------------------------------------------------------------------------
(* What the IEE answers *)

(***************************************************************************)
(* An RPN that denotes T makes the IEE answer, whatever documents it has   *)
(* indexed and under whatever ids, with those that are in T.               *)
(***************************************************************************)
LEMMA DenotesAnswers ==
    ASSUME NEW rpn, NEW T, Denotes(rpn, T), NEW numbered \in Seq(Documents)
    PROVE  Answers(rpn, T, numbered)
  <1> DEFINE nd == Len(numbered)
             ids == 0..nd - 1
             held == [d \in ids |-> numbered[d + 1]]
             Posting(w) == Collect(nd, {d \in ids : w \in numbered[d + 1]}, nd)
             vecs == [k \in DOMAIN rpn |->
                         IF rpn[k] \in Operators THEN <<>> ELSE Posting(rpn[k])]
             result == Evaluate(rpn, vecs, nd)
  <1>1. nd \in Nat /\ \A d \in ids : numbered[d + 1] \in Documents
    <2>1. \A d \in ids : d + 1 \in 1..nd
      OBVIOUS
    <2> QED BY <2>1
  <1>2. /\ rpn \in Seq(Tokens) /\ WellFormed(rpn)
        /\ \A d \in Documents : Holds(rpn, d) <=> d \in T
    BY DenotesQuery
  <1>3. Len(rpn) \in Nat /\ DOMAIN rpn = 1..Len(rpn)
    BY <1>2
  <1> HIDE DEF nd
  <1>4. ASSUME NEW w
        PROVE  Lists(Posting(w), With(w, held, nd)) /\ Posting(w) \in Seq(Int)
    <2> DEFINE sel == {d \in ids : w \in numbered[d + 1]}
    <2>1. sel \in SUBSET (0..nd - 1)
      OBVIOUS
    <2>2. Cardinality(sel) <= nd /\ nd \in Int
      <3>1. IsFiniteSet(0..nd - 1) /\ Cardinality(0..nd - 1) = nd
        BY <1>1, FS_Interval
      <3> HIDE DEF sel
      <3>2. Cardinality(sel) <= Cardinality(0..nd - 1)
        BY <2>1, <3>1, FS_Subset
      <3> QED BY <1>1, <3>1, <3>2
    <2>3. sel = With(w, held, nd)
      BY DEF With
    <2> HIDE DEF sel
    <2>4. Lists(Collect(nd, sel, nd), sel)
      BY <1>1, <2>1, <2>2, CollectLists
    <2> QED BY <2>3, <2>4 DEF sel, Lists
  <1>5. IsInput(rpn, vecs, held, nd)
    <2>1. ASSUME NEW k \in 1..Len(rpn)
          PROVE  /\ vecs[k] \in Seq(Int)
                 /\ rpn[k] \notin Operators =>
                       Lists(vecs[k], With(rpn[k], held, nd))
      <3>1. vecs[k] = IF rpn[k] \in Operators THEN <<>> ELSE Posting(rpn[k])
        BY <1>3
      <3>2. <<>> \in Seq(Int)
        OBVIOUS
      <3> HIDE DEF vecs, Posting, held
      <3> QED BY <1>4, <3>1, <3>2
    <2> HIDE DEF vecs, held
    <2> QED BY <1>1, <1>3, <2>1 DEF IsInput
  <1>6. /\ result.ok
        /\ Lists(result.docs, {d \in ids : Holds(rpn, held[d])})
    <2> HIDE DEF vecs, held
    <2> QED BY <1>2, <1>5, EvaluateExact
  <1>7. {d \in ids : Holds(rpn, held[d])} = {d \in ids : numbered[d + 1] \in T}
    BY <1>1, <1>2
  <1>8. Elements(result.docs) = {d \in ids : numbered[d + 1] \in T}
    <2> HIDE DEF result
    <2> QED BY <1>6, <1>7 DEF Lists
  <1> QED BY <1>6, <1>8 DEF Answers, nd

\* If the words are finitely many, the documents can be numbered.
LEMMA NumberedType ==
    ASSUME IsFiniteSet(Words) PROVE Numbered \in Seq(Documents)
  <1> DEFINE n == Cardinality(Documents)
  <1>1. IsFiniteSet(Documents)
    BY FS_SUBSET DEF Documents
  <1>2. n \in Nat
    BY <1>1, FS_CardinalityType
  <1>3. \E s \in [1..n -> Documents] : Elements(s) = Documents
    <2>1. PICK s \in Bijection(1..n, Documents) : TRUE
      <3>1. ExistsBijection(1..n, Documents)
        BY <1>1, FS_NatBijection, FS_CountingElements
      <3> QED BY <3>1 DEF ExistsBijection
    <2>2. s \in [1..n -> Documents] /\ \A d \in Documents : \E k \in 1..n : s[k] = d
      BY <2>1 DEF Bijection, Injection, Surjection
    <2>3. Elements(s) = Documents
      BY <2>2 DEF Elements
    <2> QED BY <2>2, <2>3
  <1>4. Numbered \in [1..n -> Documents]
    BY <1>3 DEF Numbered
  <1> QED BY <1>2, <1>4

-----------------------------------------------------------------------------
(* The meaning of a query is kept *)

(***************************************************************************)
(* From the present state on, the call arrives at a return whose output    *)
(* denotes what the input means.                                           *)
(***************************************************************************)
WillDenote ==
    \A T \in SUBSET Documents :
        Reads(infix, T, 1) =>
            \E d \in Configs : /\ Leads(infix, Now, d)
                               /\ d.end = "done"
                               /\ Denotes(d.out, T)

\* It holds when the call begins, by the grammar.
LEMMA InitWillDenote == ASSUME Init PROVE WillDenote
  <1>1. Now = Conf(1, <<>>, <<>>)
    BY DEF Init, Now, Conf
  <1> QED BY <1>1, ReadsInput DEF WillDenote

\* Each step of the call stays on the way.
LEMMA NextWillDenote ==
    ASSUME TypeOK, TypeOK', WillDenote, [Next]_vars
    PROVE  WillDenote'
  <1>1. CASE Next
    <2>1. infix' = infix /\ outcome = "parsing" /\ Now' = Step(infix, Now)
      BY <1>1, NextIsStep
    <2>2. Now' \in Configs
      <3>1. Operators \cup {"("} = Stacked /\ Words \cup Operators = Tokens
        BY DEF Stacked, Tokens
      <3>2. i' \in Nat
        BY DEF TypeOK
      <3> QED BY <3>1, <3>2 DEF TypeOK, Now, Configs
    <2>3. ASSUME NEW T \in SUBSET Documents, Reads(infix, T, 1)
          PROVE  \E d \in Configs : /\ Leads(infix, Now', d)
                                    /\ d.end = "done"
                                    /\ Denotes(d.out, T)
      <3>1. PICK d \in Configs : /\ Leads(infix, Now, d)
                                 /\ d.end = "done"
                                 /\ Denotes(d.out, T)
        BY <2>3 DEF WillDenote
      <3>2. Now.end = "parsing"
        BY <2>1 DEF Now
      <3>3. Leads(infix, Step(infix, Now), d)
        BY <2>1, <2>2, <3>1, <3>2, LeadsOn
      <3> QED BY <2>1, <3>1, <3>3
    <2> QED BY <2>1, <2>3 DEF WillDenote
  <1>2. CASE UNCHANGED vars
    BY <1>2 DEF vars, WillDenote, Now
  <1> QED BY <1>1, <1>2

(***************************************************************************)
(* A query of the grammar is parsed, and whatever documents an IEE has     *)
(* indexed and under whatever ids, it answers the result with those that   *)
(* satisfy the query.                                                      *)
(***************************************************************************)
AnsweredEverywhere ==
    outcome # "parsing" /\ Len(infix) <= MaxQuery =>
        \A e \in Plain[Len(infix)] :
            e[1] = infix =>
                /\ outcome = "done"
                /\ \A numbered \in Seq(Documents) :
                      Answers(output, e[2], numbered)

\* At the end of the call it has arrived.
LEMMA DenotedAnswered ==
    ASSUME TypeOK, WillDenote PROVE AnsweredEverywhere
  <1> SUFFICES ASSUME outcome # "parsing", Len(infix) <= MaxQuery,
                      NEW e \in Plain[Len(infix)], e[1] = infix
               PROVE  /\ outcome = "done"
                      /\ \A numbered \in Seq(Documents) :
                            Answers(output, e[2], numbered)
    BY DEF AnsweredEverywhere
  <1>1. Len(infix) \in 0..MaxQuery
    BY ParserAssumption DEF TypeOK
  <1>2. Reads(infix, e[2], 1) /\ e[2] \in SUBSET Documents
    BY <1>1, PlainReads
  <1>3. PICK d \in Configs : /\ Leads(infix, Now, d)
                             /\ d.end = "done"
                             /\ Denotes(d.out, e[2])
    BY <1>2 DEF WillDenote
  <1>4. Now = d
    <2>1. Now.end # "parsing"
      BY DEF Now
    <2> QED BY <1>3, <2>1, LeadsEnd
  <1>5. outcome = "done" /\ Denotes(output, e[2])
    BY <1>3, <1>4 DEF Now
  <1> QED BY <1>5, DenotesAnswers

(***************************************************************************)
(* For all words and queries of any length: shunting_yard() and evaluate() *)
(* together compute what a query of the grammar means.                     *)
(***************************************************************************)
THEOREM QueriesAnswered == Spec => []AnsweredEverywhere
  <1>1. Init => WillDenote
    BY InitWillDenote
  <1>2. TypeOK /\ TypeOK' /\ WillDenote /\ [Next]_vars => WillDenote'
    BY NextWillDenote
  <1>3. TypeOK /\ WillDenote => AnsweredEverywhere
    BY DenotedAnswered
  <1> QED BY <1>1, <1>2, <1>3, ParserTypeCorrect, PTL DEF Spec

(***************************************************************************)
(* MeaningKept, which looks at one index of all documents there can be:    *)
(* there is one if the words are finitely many.                            *)
(***************************************************************************)
THEOREM MeaningIsKept == IsFiniteSet(Words) => (Spec => []MeaningKept)
  <1> SUFFICES ASSUME IsFiniteSet(Words) PROVE Spec => []MeaningKept
    OBVIOUS
  <1>1. AnsweredEverywhere => MeaningKept
    BY NumberedType DEF AnsweredEverywhere, MeaningKept, MeansWhatItSays
  <1> QED BY <1>1, QueriesAnswered, PTL
=============================================================================
