---------------------------- MODULE LookupProofs ----------------------------
(***************************************************************************)
(* Theorems about Lookup, for any words, postings, queries and batch sizes  *)
(* and each kind of storage: every posting of the query is asked for once,  *)
(* and the vectors the formula is evaluated on are what the client added.   *)
(*                                                                         *)
(* The order of the argument: the token vector is a prefix of the request    *)
(* (Parsed), the labels are a permutation of what the loops have passed      *)
(* (Shuffled), what comes back is an entry the client had added or garbage   *)
(* (Answered), and what has been verified is in its place (Fetched).         *)
(***************************************************************************)
EXTENDS Lookup, EvaluatorProofs

Value == [doc : Int, freq : Int]
TokenSet == Words \cup Operators
Answer == {Entry(l) : l \in Labels} \cup {Garbage}

Types ==
  /\ postings \in [Words -> Seq(Value)]
  /\ msg \in Seq(TokenSet)
  /\ token \in Nat \ {0}
  /\ nth \in Nat
  /\ labels \in Seq(Nat \X Nat)
  /\ labelPos \in 0 .. Len(labels)

\* Until the request has been read there is nothing to ask for.
Early == {"connect", "init", "add", "down", "parse"}
USE DEF Early

Vector(S) ==
  {v \in [counter : Nat, array : Seq(S)] : Len(v.array) > 0 /\ v.counter <= Len(v.array)}

Parsed ==
  /\ query \in Vector(TokenSet \cup {"0"})
  /\ query.counter <= Len(msg)
  /\ \A i \in 1 .. query.counter : query.array[i] = msg[i]
  /\ pc \notin Early => query.counter = Len(msg)

Vectors ==
  /\ docs \in Seq(Seq(Value))
  /\ Len(docs) = query.counter
  /\ \A t \in 1 .. Len(docs) : msg[t] \in Words => Len(docs[t]) = Counter(msg[t])

\* The loops of the shuffle have passed counter c of token t.
Passed(t, c) ==
  /\ t \in 1 .. Len(msg) /\ msg[t] \in Words /\ c \in Nat
  /\ c < IF t < token THEN Counter(msg[t]) ELSE IF t = token THEN nth ELSE 0

Shuffled ==
  /\ pc \in Early => token = 1 /\ nth = 0 /\ labels = <<>>
  /\ pc \in Early \cup {"shuffle"} => labelPos = 0
  /\ pc \notin Early \cup {"shuffle"} => token = Len(msg) + 1
  /\ \A a, b \in 1 .. Len(labels) : labels[a] = labels[b] => a = b
  /\ \A t, c \in Nat : Passed(t, c) <=> \E a \in 1 .. Len(labels) : labels[a] = <<t, c>>

Answered ==
  /\ held \subseteq Labels
  /\ answers \in Seq(Answer)
  /\ pc = "verify" => Len(answers) = Len(Batch)

Fetched ==
  /\ \A a \in 1 .. labelPos : \A t \in 1 .. Len(docs) : \A c \in 1 .. Len(docs[t]) :
       labels[a] = <<t, c - 1>> => docs[t][c] = postings[msg[t]][c]
  /\ pc \in {"score", "done"} => labelPos = Len(labels)

IInv == Types /\ Parsed /\ Vectors /\ Shuffled /\ Answered /\ Fetched
-----------------------------------------------------------------------------
(* The vector of tokens.                                                   *)

\* SubSeq(query.array, 1, counter) is a prefix of the request.
LEMMA TokensPrefix ==
  ASSUME Types, Parsed
  PROVE  /\ Tokens \in Seq(TokenSet)
         /\ Len(Tokens) = query.counter
         /\ \A i \in 1 .. query.counter : Tokens[i] = msg[i]
         /\ query.counter = Len(msg) => Tokens = msg
<1> DEFINE n == query.counter
<1>1. n \in Nat /\ query.array \in Seq(TokenSet \cup {"0"}) /\ n <= Len(msg)
  BY DEF Parsed, Vector
<1>2. \A i \in 1 .. n : query.array[i] \in TokenSet
  <2>1. msg \in Seq(TokenSet) /\ Len(msg) \in Nat
    BY DEF Types
  <2>2. \A i \in 1 .. n : i \in 1 .. Len(msg) /\ query.array[i] = msg[i]
    BY <1>1, <2>1 DEF Parsed
  <2> QED BY <2>1, <2>2
<1>3. /\ SubSeq(query.array, 1, n) \in Seq(TokenSet)
      /\ Len(SubSeq(query.array, 1, n)) = n
      /\ \A i \in 1 .. n : SubSeq(query.array, 1, n)[i] = query.array[i]
  <2>1. 1 \in Int /\ n \in Int /\ n - 1 + 1 = n /\ (1 > n => n = 0)
    BY <1>1
  <2>2. /\ SubSeq(query.array, 1, n) \in Seq(TokenSet)
        /\ Len(SubSeq(query.array, 1, n)) = IF 1 <= n THEN n - 1 + 1 ELSE 0
        /\ \A i \in 1 .. n - 1 + 1 : SubSeq(query.array, 1, n)[i] = query.array[1 + i - 1]
    <3> HIDE DEF n
    <3> QED BY <1>2, <2>1, SubSeqProperties
  <2>3. \A i \in 1 .. n : 1 + i - 1 = i
    BY <1>1
  <2> QED BY <2>1, <2>2, <2>3
<1>4. \A i \in 1 .. n : Tokens[i] = msg[i]
  BY <1>3 DEF Parsed, Tokens, VtTokens
<1>5. n = Len(msg) => Tokens = msg
  <2> SUFFICES ASSUME n = Len(msg) PROVE Tokens = msg
    OBVIOUS
  <2>1. Tokens \in Seq(TokenSet) /\ Len(Tokens) = Len(msg)
    BY <1>3 DEF Tokens, VtTokens
  <2>2. msg \in Seq(TokenSet)
    BY DEF Types
  <2>3. \A i \in 1 .. Len(Tokens) : Tokens[i] = msg[i]
    BY <1>4, <2>1
  <2> QED BY <2>1, <2>2, <2>3, SeqEqual
<1> QED BY <1>3, <1>4, <1>5 DEF Tokens, VtTokens

\* vt_push_back keeps what is in the vector, whether or not it has to grow.
LEMMA PushBack ==
  ASSUME NEW S, NEW zero \in S, NEW e \in S,
         NEW v \in Vector(S)
  PROVE  /\ VtPushBack(v, e, zero) \in Vector(S)
         /\ VtPushBack(v, e, zero).counter = v.counter + 1
         /\ \A i \in 1 .. v.counter : VtPushBack(v, e, zero).array[i] = v.array[i]
         /\ VtPushBack(v, e, zero).array[v.counter + 1] = e
<1> USE DEF Vector
<1> DEFINE u == IF v.counter = Len(v.array) THEN VtGrow(v, zero) ELSE v
<1>1. /\ u.counter = v.counter
      /\ u.array \in Seq(S)
      /\ u.counter < Len(u.array)
      /\ \A i \in 1 .. v.counter : u.array[i] = v.array[i]
  <2>1. CASE v.counter # Len(v.array)
    BY <2>1
  <2>2. CASE v.counter = Len(v.array)
    <3> DEFINE g == [i \in 1 .. 2 * Len(v.array) |->
                       IF i <= Len(v.array) THEN v.array[i] ELSE zero]
    <3>1. Len(v.array) \in Nat
      OBVIOUS
    <3>2. g \in Seq(S) /\ Len(g) = 2 * Len(v.array)
      BY <3>1
    <3>3. \A i \in 1 .. Len(v.array) : g[i] = v.array[i]
      BY <3>1
    <3>4. u.counter = v.counter /\ u.array = g
      BY <2>2 DEF VtGrow
    <3> HIDE DEF g, u
    <3> QED BY <2>2, <3>1, <3>2, <3>3, <3>4
  <2> QED BY <2>1, <2>2
<1>2. VtPushBack(v, e, zero)
        = [counter |-> u.counter + 1, array |-> [u.array EXCEPT ![u.counter + 1] = e]]
  BY DEF VtPushBack
<1> HIDE DEF u
<1>3. u.counter + 1 \in 1 .. Len(u.array) /\ u.counter \in Nat
  BY <1>1
<1>4. LET a == [u.array EXCEPT ![u.counter + 1] = e] IN
      /\ a \in Seq(S) /\ Len(a) = Len(u.array)
      /\ \A j \in 1 .. Len(u.array) : a[j] = IF j = u.counter + 1 THEN e ELSE u.array[j]
  BY <1>1, <1>3, ExceptSeq
<1> QED BY <1>1, <1>2, <1>3, <1>4

\* A batch is a part of the labels that starts at labelPos.
LEMMA BatchOfLabels ==
  ASSUME Types
  PROVE  /\ Len(Batch) \in Nat /\ DOMAIN Batch = 1 .. Len(Batch)
         /\ labelPos + Len(Batch) <= Len(labels)
         /\ \A n \in 1 .. Len(Batch) : Batch[n] = labels[labelPos + n]
<1> DEFINE end == IF Len(labels) - labelPos < BatchSearch THEN Len(labels)
                                                       ELSE labelPos + BatchSearch
           m == labelPos + 1
<1>1. /\ labels \in Seq(Nat \X Nat) /\ labelPos \in Nat /\ Len(labels) \in Nat
      /\ labelPos <= Len(labels) /\ BatchSearch \in Nat
  BY SizesAssumption DEF Types
<1>2. end \in Nat /\ labelPos <= end /\ end <= Len(labels) /\ m \in Int
  BY <1>1
<1>3. Batch = SubSeq(labels, m, end)
  BY DEF Batch
<1> HIDE DEF end
<1>4. \A i \in m .. end : labels[i] \in Nat \X Nat
  BY <1>1, <1>2
<1>5. /\ SubSeq(labels, m, end) \in Seq(Nat \X Nat)
      /\ Len(SubSeq(labels, m, end)) = IF m <= end THEN end - m + 1 ELSE 0
      /\ \A i \in 1 .. end - m + 1 : SubSeq(labels, m, end)[i] = labels[m + i - 1]
  <2> HIDE DEF m
  <2> QED BY <1>2, <1>4, SubSeqProperties
<1>6. Len(Batch) = end - labelPos
  BY <1>1, <1>2, <1>3, <1>5
<1> QED BY <1>1, <1>2, <1>3, <1>5, <1>6
-----------------------------------------------------------------------------
(* The labels.                                                             *)

\* The label that PlacedAt puts in is added, the others stay, if not where they were.
LEMMA Placing ==
  ASSUME NEW S, labels \in Seq(S), NEW l \in S,
         \A a, b \in 1 .. Len(labels) : labels[a] = labels[b] => a = b,
         \A a \in 1 .. Len(labels) : labels[a] # l
  PROVE  LET s == PlacedAt(0, l) IN
         /\ s \in Seq(S)
         /\ \A a, b \in 1 .. Len(s) : s[a] = s[b] => a = b
         /\ \A a \in 1 .. Len(s) : s[a] = l \/ \E b \in 1 .. Len(labels) : s[a] = labels[b]
         /\ \E a \in 1 .. Len(s) : s[a] = l
         /\ \A b \in 1 .. Len(labels) : \E a \in 1 .. Len(s) : s[a] = labels[b]
<1>1. CASE Len(labels) = 0
  <2>1. PlacedAt(0, l) = Append(labels, l)
    BY <1>1 DEF PlacedAt
  <2>2. /\ Append(labels, l) \in Seq(S) /\ Len(Append(labels, l)) = 1
        /\ Append(labels, l)[1] = l
    BY <1>1, AppendProperties
  <2> DEFINE s == Append(labels, l)
  <2> HIDE DEF s
  <2>3. s \in Seq(S) /\ Len(s) = 1 /\ s[1] = l /\ PlacedAt(0, l) = s
    BY <2>1, <2>2 DEF s
  <2>4. /\ \A a \in 1 .. 1 : a = 1
        /\ \A b \in 1 .. 0 : FALSE
        /\ 1 \in 1 .. 1
    OBVIOUS
  <2> QED BY <1>1, <2>3, <2>4
<1>2. CASE Len(labels) # 0
  <2> DEFINE n == Len(labels)
             e == [labels EXCEPT ![1] = l]
             s == Append(e, labels[1])
  <2>1. n \in Nat /\ 1 \in 1 .. n /\ labels[1] \in S
    BY <1>2
  <2>2. e \in Seq(S) /\ Len(e) = n /\ \A j \in 1 .. n : e[j] = IF j = 1 THEN l ELSE labels[j]
    BY <2>1, ExceptSeq
  <2>3. PlacedAt(0, l) = s
    BY <1>2 DEF PlacedAt
  <2> HIDE DEF e
  <2>4. /\ s \in Seq(S) /\ Len(s) = n + 1 /\ s[n + 1] = labels[1]
        /\ \A j \in 1 .. n : s[j] = e[j]
    BY <2>1, <2>2, AppendProperties
  <2> HIDE DEF s, n
  <2>5. s[1] = l /\ \A j \in 2 .. n : s[j] = labels[j]
    BY <2>1, <2>2, <2>4
  <2>6. \A a \in 1 .. n + 1 : a = 1 \/ a = n + 1 \/ a \in 2 .. n
    BY <2>1
  <2>7. /\ \A a, b \in 1 .. n : labels[a] = labels[b] => a = b
        /\ \A a \in 1 .. n : labels[a] # l
        /\ 1 \in 1 .. n + 1 /\ n + 1 \in 1 .. n + 1
        /\ \A j \in 2 .. n : j \in 1 .. n /\ j \in 1 .. n + 1 /\ j # 1
    BY <2>1 DEF n
  <2>8. \A a, b \in 1 .. n + 1 : s[a] = s[b] => a = b
    BY <2>1, <2>4, <2>5, <2>6, <2>7
  <2>9. \A a \in 1 .. n + 1 : s[a] = l \/ \E b \in 1 .. n : s[a] = labels[b]
    BY <2>1, <2>4, <2>5, <2>6, <2>7
  <2>10. \A b \in 1 .. n : \E a \in 1 .. n + 1 : s[a] = labels[b]
    <3> SUFFICES ASSUME NEW b \in 1 .. n PROVE \E a \in 1 .. n + 1 : s[a] = labels[b]
      OBVIOUS
    <3>1. CASE b = 1
      BY <2>4, <2>7, <3>1
    <3>2. CASE b # 1
      <4>1. b \in 2 .. n
        BY <2>1, <3>2
      <4> QED BY <2>5, <2>7, <4>1
    <3> QED BY <3>1, <3>2
  <2>11. \E a \in 1 .. n + 1 : s[a] = l
    BY <2>5, <2>7
  <2> QED BY <2>3, <2>4, <2>8, <2>9, <2>10, <2>11 DEF n
<1> QED BY <1>1, <1>2
-----------------------------------------------------------------------------
(* The invariant.                                                          *)

LEMMA Initially == Init => IInv
<1> SUFFICES ASSUME Init PROVE IInv
  OBVIOUS
<1> USE DEF Init
<1>1. Types
  <2>1. postings \in [Words -> Seq([doc : 0 .. NDocs - 1, freq : Nat])]
    BY PostingsAssumption
  <2>2. Seq([doc : 0 .. NDocs - 1, freq : Nat]) \subseteq Seq(Value)
    <3> DEFINE Added == [doc : 0 .. NDocs - 1, freq : Nat]
    <3>1. Added \subseteq Value
      BY SizesAssumption DEF Value
    <3> HIDE DEF Added
    <3>2. \A s \in Seq(Added) : s \in Seq(Value)
      BY <3>1, SeqMonotonic
    <3> QED BY <3>2 DEF Added
  <2>3. postings \in [Words -> Seq(Value)]
    BY <2>1, <2>2
  <2>4. msg \in Seq(TokenSet)
    BY QueriesAssumption DEF TokenSet
  <2> QED BY <2>3, <2>4 DEF Types
<1>2. Parsed
  <2>1. [i \in 1 .. MaxQueryTokens |-> "0"] \in Seq(TokenSet \cup {"0"})
    BY SizesAssumption
  <2>2. Len([i \in 1 .. MaxQueryTokens |-> "0"]) = MaxQueryTokens
    BY SizesAssumption
  <2>3. Len(msg) \in Nat
    BY QueriesAssumption
  <2> QED BY <2>1, <2>2, <2>3, SizesAssumption DEF Parsed, Vector, VtInit
<1>3. Vectors
  BY DEF Vectors, VtInit
<1>4. Shuffled
  <2>1. \A t, c \in Nat : ~Passed(t, c)
    BY QueriesAssumption DEF Passed
  <2> QED BY <2>1 DEF Shuffled
<1>5. Answered /\ Fetched
  BY DEF Answered, Fetched
<1> QED BY <1>1, <1>2, <1>3, <1>4, <1>5 DEF IInv
-----------------------------------------------------------------------------
(* The steps.                                                              *)

\* An answer is a record with a label and a posting; the label of one that is not
\* garbage names the posting.
LEMMA Answers ==
  ASSUME Types, NEW r \in Answer
  PROVE  /\ r.posting \in Value
         /\ \A w, c : r.label = <<w, c>> => r.posting = postings[w][c + 1]
<1>1. CASE r = Garbage
  <2>1. r.label = <<>> /\ r.posting = Unset
    BY <1>1 DEF Garbage
  <2>2. \A w, c : <<>> # <<w, c>>
    OBVIOUS
  <2>3. Unset \in Value
    BY DEF Unset, Value
  <2> QED BY <2>1, <2>2, <2>3
<1>2. CASE r # Garbage
  <2>1. PICK l \in Labels : r = Entry(l)
    BY <1>2 DEF Answer
  <2>2. PICK w \in Words, c \in Nat : l = <<w, c>> /\ c < Counter(w) /\ Counter(w) \in Nat
    BY DEF Labels, Types, Counter
  <2>3. r.label = <<w, c>> /\ r.posting = postings[w][c + 1]
    BY <2>1, <2>2 DEF Entry, Sealed
  <2>4. postings[w] \in Seq(Value) /\ c + 1 \in 1 .. Len(postings[w])
    BY <2>2 DEF Types, Counter
  <2>5. postings[w][c + 1] \in Value
    BY <2>4
  <2> QED BY <2>3, <2>5
<1> QED BY <1>1, <1>2

\* A batch of postings on its way into the storage; what is lost does not get there.
LEMMA AddBatchStep == IInv /\ AddBatch => IInv'
<1> SUFFICES ASSUME IInv, AddBatch PROVE IInv'
  OBVIOUS
<1>1. held' \subseteq Labels
  BY DEF IInv, Answered, AddBatch
<1> USE DEF IInv, AddBatch, inputVars, labelVars, fetchVars
<1>2. Types' /\ Parsed' /\ Vectors'
  BY DEF Types, Parsed, Vectors, Counter
<1>3. Shuffled' /\ Fetched'
  BY DEF Shuffled, Fetched, Passed, Counter
<1>4. Labels' = Labels /\ Answer' = Answer
  BY DEF Labels, Answer, Entry, Sealed, Counter
<1>5. Answered'
  BY <1>1, <1>4 DEF Answered
<1> QED BY <1>2, <1>3, <1>5

\* A token goes into the vector of tokens, which may have to grow for it.
LEMMA ParseTokenStep == IInv /\ ParseToken => IInv'
<1> SUFFICES ASSUME IInv, ParseToken PROVE IInv'
  OBVIOUS
<1> DEFINE n == query.counter
           e == msg[n + 1]
           new == IF e \in Words THEN [i \in 1 .. Counter(e) |-> Unset] ELSE <<>>
<1> USE DEF IInv
<1>1. /\ pc = "parse" /\ pc' = pc /\ n < Len(msg)
      /\ query' = VtPushBack(query, e, "0") /\ docs' = Append(docs, new)
      /\ UNCHANGED <<inputVars, storeVars, labelVars, fetchVars, rankVars>>
  BY DEF ParseToken
<1>2. n \in Nat /\ n + 1 \in 1 .. Len(msg) /\ e \in TokenSet /\ Len(msg) \in Nat
  BY <1>1 DEF Parsed, Vector, Types
<1>3. Types'
  BY <1>1 DEF Types, inputVars, labelVars, fetchVars
<1>4. /\ query' \in Vector(TokenSet \cup {"0"})
      /\ query'.counter = n + 1
      /\ \A i \in 1 .. n : query'.array[i] = query.array[i]
      /\ query'.array[n + 1] = e
  <2> DEFINE S == TokenSet \cup {"0"}
  <2>1. "0" \in S /\ e \in S /\ query \in Vector(S)
    BY <1>2 DEF Parsed
  <2> HIDE DEF S, e
  <2>2. query' = VtPushBack(query, e, "0")
    BY <1>1
  <2>3. /\ VtPushBack(query, e, "0") \in Vector(S)
        /\ VtPushBack(query, e, "0").counter = query.counter + 1
        /\ \A i \in 1 .. query.counter :
             VtPushBack(query, e, "0").array[i] = query.array[i]
        /\ VtPushBack(query, e, "0").array[query.counter + 1] = e
    BY <2>1, PushBack
  <2> QED BY <2>2, <2>3 DEF S
<1>5. \A i \in 1 .. n + 1 : i = n + 1 \/ i \in 1 .. n
  BY <1>2
<1>6. Parsed'
  BY <1>1, <1>2, <1>4, <1>5 DEF Parsed, inputVars
<1>7. new \in Seq(Value) /\ (e \in Words => Len(new) = Counter(e))
  <2>1. Unset \in Value
    BY DEF Unset, Value
  <2>2. e \in Words => Counter(e) \in Nat
    BY DEF Counter, Types
  <2> QED BY <2>1, <2>2
<1> HIDE DEF new
<1>8. /\ docs \in Seq(Seq(Value)) /\ Len(docs) = n
      /\ Append(docs, new) \in Seq(Seq(Value)) /\ Len(Append(docs, new)) = n + 1
      /\ Append(docs, new)[n + 1] = new
      /\ \A t \in 1 .. n : Append(docs, new)[t] = docs[t]
  BY <1>7, AppendProperties DEF Vectors
<1>9. Vectors'
  BY <1>1, <1>4, <1>5, <1>7, <1>8 DEF Vectors, Counter, inputVars
<1>10. Shuffled'
  BY <1>1 DEF Shuffled, Passed, Counter, inputVars, labelVars, fetchVars
<1>11. Answered'
  BY <1>1 DEF Answered, Labels, Answer, Entry, Sealed, Counter, inputVars, storeVars, fetchVars
<1>12. Fetched'
  BY <1>1 DEF Fetched, Shuffled, fetchVars
<1> QED BY <1>3, <1>6, <1>9, <1>10, <1>11, <1>12

\* A label goes into the list, and the one that was first goes to its end.
LEMMA PlaceLabelStep == IInv /\ PlaceLabel => IInv'
<1> SUFFICES ASSUME IInv, PlaceLabel PROVE IInv'
  OBVIOUS
<1> DEFINE l == <<token, nth>>
<1> USE DEF IInv
<1>1. /\ pc = "shuffle" /\ pc' = pc /\ labels' = PlacedAt(0, l) /\ nth' = nth + 1
      /\ UNCHANGED <<inputVars, storeVars, query, docs, token, fetchVars, rankVars>>
  BY DEF PlaceLabel
<1>2. /\ token \in Nat \ {0} /\ nth \in Nat /\ token \in 1 .. Len(msg) /\ Len(msg) \in Nat
      /\ msg[token] \in Words /\ nth < Counter(msg[token])
  <2>1. query.counter = Len(msg)
    BY <1>1 DEF Parsed
  <2> QED BY <2>1, TokensPrefix DEF PlaceLabel, Types
<1>3. \A a \in 1 .. Len(labels) : labels[a] # l
  <2> SUFFICES ASSUME NEW a \in 1 .. Len(labels), labels[a] = l PROVE FALSE
    OBVIOUS
  <2>1. Passed(token, nth)
    BY <1>2 DEF Shuffled
  <2> QED BY <1>2, <2>1 DEF Passed
<1>4. l \in Nat \X Nat /\ labels \in Seq(Nat \X Nat)
  BY <1>2 DEF Types
<1>5. \A a, b \in 1 .. Len(labels) : labels[a] = labels[b] => a = b
  BY DEF Shuffled
<1> HIDE DEF l
<1>6. /\ labels' \in Seq(Nat \X Nat)
      /\ \A a, b \in 1 .. Len(labels') : labels'[a] = labels'[b] => a = b
      /\ \A a \in 1 .. Len(labels') :
           labels'[a] = l \/ \E b \in 1 .. Len(labels) : labels'[a] = labels[b]
      /\ \E a \in 1 .. Len(labels') : labels'[a] = l
      /\ \A b \in 1 .. Len(labels) : \E a \in 1 .. Len(labels') : labels'[a] = labels[b]
  <2> DEFINE s == PlacedAt(0, l)
  <2>1. /\ s \in Seq(Nat \X Nat)
        /\ \A a, b \in 1 .. Len(s) : s[a] = s[b] => a = b
        /\ \A a \in 1 .. Len(s) : s[a] = l \/ \E b \in 1 .. Len(labels) : s[a] = labels[b]
        /\ \E a \in 1 .. Len(s) : s[a] = l
        /\ \A b \in 1 .. Len(labels) : \E a \in 1 .. Len(s) : s[a] = labels[b]
    BY <1>3, <1>4, <1>5, Placing
  <2>2. labels' = s
    BY <1>1
  <2> HIDE DEF s
  <2> QED BY <2>1, <2>2
<1>7. \A t, c \in Nat : Passed(t, c)' <=> Passed(t, c) \/ <<t, c>> = l
  <2> SUFFICES ASSUME NEW t \in Nat, NEW c \in Nat
               PROVE  Passed(t, c)' <=> Passed(t, c) \/ (t = token /\ c = nth)
    BY DEF l
  <2> QED BY <1>1, <1>2 DEF Passed, Counter, inputVars
<1>8. labelPos = 0 /\ labelPos' = 0
  BY <1>1 DEF Shuffled, fetchVars
<1>9. Types'
  BY <1>1, <1>2, <1>6, <1>8 DEF Types, inputVars
<1>10. Parsed' /\ Vectors'
  BY <1>1 DEF Parsed, Vectors, Counter, inputVars
<1>11. \A t, c \in Nat : Passed(t, c)' <=> \E a \in 1 .. Len(labels') : labels'[a] = <<t, c>>
  <2> SUFFICES ASSUME NEW t \in Nat, NEW c \in Nat
               PROVE  Passed(t, c)' <=> \E a \in 1 .. Len(labels') : labels'[a] = <<t, c>>
    OBVIOUS
  <2>1. Passed(t, c) <=> \E b \in 1 .. Len(labels) : labels[b] = <<t, c>>
    BY DEF Shuffled
  <2>2. Passed(t, c)' <=> Passed(t, c) \/ <<t, c>> = l
    BY <1>7
  <2> DEFINE x == <<t, c>>
  <2> HIDE DEF x
  <2>3. (\E b \in 1 .. Len(labels) : labels[b] = x) \/ x = l
          <=> \E a \in 1 .. Len(labels') : labels'[a] = x
    <3>1. ASSUME NEW b \in 1 .. Len(labels), labels[b] = x
          PROVE  \E a \in 1 .. Len(labels') : labels'[a] = x
      BY <1>6, <3>1
    <3>2. ASSUME NEW a \in 1 .. Len(labels'), labels'[a] = x
          PROVE  (\E b \in 1 .. Len(labels) : labels[b] = x) \/ x = l
      BY <1>6, <3>2
    <3>3. x = l => \E a \in 1 .. Len(labels') : labels'[a] = x
      BY <1>6
    <3> QED BY <3>1, <3>2, <3>3
  <2> QED BY <2>1, <2>2, <2>3 DEF x
<1>12. Shuffled'
  BY <1>1, <1>6, <1>8, <1>11 DEF Shuffled
<1>13. Answered'
  BY <1>1 DEF Answered, Labels, Answer, Entry, Sealed, Counter, inputVars, storeVars, fetchVars
<1>14. Fetched'
  BY <1>1, <1>8 DEF Fetched
<1> QED BY <1>9, <1>10, <1>12, <1>13, <1>14

\* The next token: its labels come after all those of the one before.
LEMMA NextTokenStep == IInv /\ NextToken => IInv'
<1> SUFFICES ASSUME IInv, NextToken PROVE IInv'
  OBVIOUS
<1> USE DEF IInv
<1>1. /\ pc = "shuffle" /\ pc' = pc /\ token' = token + 1 /\ nth' = 0
      /\ UNCHANGED <<inputVars, storeVars, query, docs, labels, fetchVars, rankVars>>
  BY DEF NextToken
<1>2. /\ token \in Nat \ {0} /\ nth \in Nat /\ token \in 1 .. Len(msg) /\ Len(msg) \in Nat
      /\ msg[token] \in Words => nth = Counter(msg[token])
  <2>1. query.counter = Len(msg)
    BY <1>1 DEF Parsed
  <2> QED BY <2>1, TokensPrefix DEF NextToken, Types
<1>3. \A t, c : Passed(t, c)' <=> Passed(t, c)
  <2> SUFFICES ASSUME NEW t, NEW c PROVE Passed(t, c)' <=> Passed(t, c)
    OBVIOUS
  <2>1. CASE t \in 1 .. Len(msg) /\ msg[t] \in Words /\ c \in Nat
    <3>1. CASE t < token
      BY <1>1, <1>2, <2>1, <3>1 DEF Passed, Counter, inputVars
    <3>2. CASE t = token
      BY <1>1, <1>2, <2>1, <3>2 DEF Passed, Counter, inputVars
    <3>3. CASE t > token
      BY <1>1, <1>2, <2>1, <3>3 DEF Passed, Counter, inputVars
    <3> QED BY <1>2, <2>1, <3>1, <3>2, <3>3
  <2>2. CASE ~(t \in 1 .. Len(msg) /\ msg[t] \in Words /\ c \in Nat)
    BY <1>1, <2>2 DEF Passed, inputVars
  <2> QED BY <2>1, <2>2
<1>4. Types'
  BY <1>1, <1>2 DEF Types, inputVars, fetchVars
<1>5. Parsed' /\ Vectors'
  BY <1>1 DEF Parsed, Vectors, Counter, inputVars
<1>6. Shuffled'
  BY <1>1, <1>3 DEF Shuffled, fetchVars
<1>7. Answered'
  BY <1>1 DEF Answered, Labels, Answer, Entry, Sealed, Counter, inputVars, storeVars, fetchVars
<1>8. Fetched'
  BY <1>1 DEF Fetched, inputVars, fetchVars
<1> QED BY <1>4, <1>5, <1>6, <1>7, <1>8

\* One answer of the storage service.
LEMMA SelectStep == IInv /\ Select => IInv'
<1> SUFFICES ASSUME IInv, Select PROVE IInv'
  OBVIOUS
<1> USE DEF IInv
<1>1. /\ pc = "select" /\ pc' \in {"select", "storeExit"}
      /\ UNCHANGED <<inputVars, storeVars, query, docs, labelVars, labelPos, rankVars>>
      /\ (\E r \in {Entry(l) : l \in held} \cup {Garbage} : answers' = Append(answers, r))
           \/ UNCHANGED answers
  BY DEF Select, SelectFromMap, Find, SelectFromCassandra, SelectUnprepared,
     SelectFromRedis
<1>2. {Entry(l) : l \in held} \cup {Garbage} \subseteq Answer
  BY DEF Answered, Answer
<1>3. answers' \in Seq(Answer)
  <2>1. answers \in Seq(Answer)
    BY DEF Answered
  <2>2. \A r \in Answer : Append(answers, r) \in Seq(Answer)
    BY <2>1
  <2> QED BY <1>1, <1>2, <2>1, <2>2
<1>4. Labels' = Labels /\ Answer' = Answer
  BY <1>1 DEF Labels, Answer, Entry, Sealed, Counter, inputVars
<1>5. Answered'
  BY <1>1, <1>3, <1>4 DEF Answered, storeVars
<1>6. Types' /\ Parsed' /\ Vectors'
  BY <1>1 DEF Types, Parsed, Vectors, Counter, inputVars, labelVars
<1>7. \A t, c : Passed(t, c)' <=> Passed(t, c)
  BY <1>1 DEF Passed, Counter, inputVars, labelVars
<1>8. Shuffled'
  <2>1. labels' = labels /\ token' = token /\ labelPos' = labelPos /\ msg' = msg
    BY <1>1 DEF labelVars, inputVars
  <2>2. /\ \A a, b \in 1 .. Len(labels') : labels'[a] = labels'[b] => a = b
        /\ \A t, c \in Nat :
             Passed(t, c)' <=> \E a \in 1 .. Len(labels') : labels'[a] = <<t, c>>
    BY <1>7, <2>1 DEF Shuffled
  <2> QED BY <1>1, <2>1, <2>2 DEF Shuffled
<1>9. Fetched'
  BY <1>1 DEF Fetched, inputVars, labelVars
<1> QED BY <1>5, <1>6, <1>8, <1>9

\* Verified answers go to the places of their labels, and no other place is touched.
LEMMA ReceiveStep == IInv /\ Receive => IInv'
<1> SUFFICES ASSUME IInv, Receive PROVE IInv'
  OBVIOUS
<1> DEFINE Hit(t, c) == \E n \in DOMAIN Batch : Batch[n] = <<t, c - 1>>
           Chosen(t, c) == CHOOSE n \in DOMAIN Batch : Batch[n] = <<t, c - 1>>
           Cell(t, c) == IF Hit(t, c) THEN answers[Chosen(t, c)].posting ELSE docs[t][c]
<1> USE DEF IInv
<1>1. /\ pc = "verify" /\ pc' = "request"
      /\ \A n \in DOMAIN Batch : Genuine(n)
      /\ docs' = [t \in DOMAIN docs |-> [c \in DOMAIN docs[t] |-> Cell(t, c)]]
      /\ labelPos' = labelPos + Len(Batch)
      /\ UNCHANGED <<inputVars, storeVars, query, labelVars, answers, rankVars>>
  BY DEF Receive
<1>2. /\ Len(Batch) \in Nat /\ DOMAIN Batch = 1 .. Len(Batch)
      /\ labelPos + Len(Batch) <= Len(labels)
      /\ \A n \in 1 .. Len(Batch) : Batch[n] = labels[labelPos + n]
      /\ labelPos \in 0 .. Len(labels) /\ Len(labels) \in Nat
  <2>1. labelPos \in 0 .. Len(labels) /\ Len(labels) \in Nat
    BY DEF Types
  <2> QED BY <2>1, BatchOfLabels
<1>3. /\ answers \in Seq(Answer)
      /\ \A n \in DOMAIN Batch : answers[n] \in Answer
  <2>1. answers \in Seq(Answer) /\ Len(answers) = Len(Batch)
    BY <1>1 DEF Answered
  <2> QED BY <1>2, <2>1
<1>4. \A t, c : Hit(t, c) => Chosen(t, c) \in DOMAIN Batch /\ Batch[Chosen(t, c)] = <<t, c - 1>>
  OBVIOUS
<1> HIDE DEF Hit, Chosen
<1>5. /\ docs \in Seq(Seq(Value)) /\ Len(docs) = query.counter /\ Len(docs) \in Nat
      /\ DOMAIN docs = 1 .. Len(docs)
      /\ \A t \in 1 .. Len(docs) : /\ docs[t] \in Seq(Value) /\ Len(docs[t]) \in Nat
                                   /\ DOMAIN docs[t] = 1 .. Len(docs[t])
                                   /\ \A c \in 1 .. Len(docs[t]) : docs[t][c] \in Value
  BY DEF Vectors
<1>6. \A t \in 1 .. Len(docs) : \A c \in 1 .. Len(docs[t]) : Cell(t, c) \in Value
  BY <1>3, <1>4, <1>5, Answers
<1> HIDE DEF Cell
<1>7. \A t \in 1 .. Len(docs) :
        /\ [c \in 1 .. Len(docs[t]) |-> Cell(t, c)] \in Seq(Value)
        /\ Len([c \in 1 .. Len(docs[t]) |-> Cell(t, c)]) = Len(docs[t])
  BY <1>5, <1>6
<1>8. docs' = [t \in 1 .. Len(docs) |-> [c \in 1 .. Len(docs[t]) |-> Cell(t, c)]]
  BY <1>1, <1>5
<1>9. /\ docs' \in Seq(Seq(Value)) /\ Len(docs') = Len(docs)
      /\ \A t \in 1 .. Len(docs) : /\ Len(docs'[t]) = Len(docs[t])
                                   /\ \A c \in 1 .. Len(docs[t]) : docs'[t][c] = Cell(t, c)
  <2>1. docs' \in Seq(Seq(Value)) /\ Len(docs') = Len(docs)
    <3> DEFINE Row(t) == [c \in 1 .. Len(docs[t]) |-> Cell(t, c)]
    <3>1. \A t \in 1 .. Len(docs) : Row(t) \in Seq(Value)
      BY <1>7
    <3>2. docs' = [t \in 1 .. Len(docs) |-> Row(t)]
      BY <1>8
    <3> DEFINE T == Seq(Value)
    <3>3. \A t \in 1 .. Len(docs) : Row(t) \in T
      BY <3>1
    <3> HIDE DEF Row, T
    <3>4. docs' \in Seq(T) /\ Len(docs') = Len(docs)
      BY <1>5, <3>2, <3>3
    <3> QED BY <3>4 DEF T
  <2>2. ASSUME NEW t \in 1 .. Len(docs)
        PROVE  docs'[t] = [c \in 1 .. Len(docs[t]) |-> Cell(t, c)]
    BY <1>8
  <2> QED BY <1>7, <2>1, <2>2
<1>10. Vectors'
  BY <1>1, <1>5, <1>9 DEF Vectors, Counter, inputVars
<1>11. Types'
  <2>1. labelPos' \in 0 .. Len(labels)
    BY <1>1, <1>2
  <2> QED BY <1>1, <2>1 DEF Types, inputVars, labelVars
<1>12. ASSUME NEW a \in 1 .. labelPos', NEW t \in 1 .. Len(docs'),
              NEW c \in 1 .. Len(docs'[t]), labels[a] = <<t, c - 1>>
       PROVE  docs'[t][c] = postings[msg[t]][c]
  <2>1. /\ t \in 1 .. Len(docs) /\ c \in 1 .. Len(docs[t]) /\ docs'[t][c] = Cell(t, c)
        /\ a \in 1 .. Len(labels)
    BY <1>1, <1>2, <1>9
  <2>2. CASE a \in 1 .. labelPos
    <3>1. ~Hit(t, c)
      <4> SUFFICES ASSUME NEW n \in DOMAIN Batch, Batch[n] = <<t, c - 1>> PROVE FALSE
        BY DEF Hit
      <4>1. labelPos + n \in 1 .. Len(labels) /\ labels[labelPos + n] = labels[a]
        BY <1>2, <1>12
      <4>2. labelPos + n = a
        BY <2>1, <4>1 DEF Shuffled
      <4> QED BY <1>2, <2>2, <4>2
    <3> QED BY <1>12, <2>1, <2>2, <3>1 DEF Fetched, Cell
  <2>3. CASE a \notin 1 .. labelPos
    <3>1. a - labelPos \in 1 .. Len(Batch) /\ labelPos + (a - labelPos) = a
      BY <1>1, <1>2, <2>3
    <3>2. Hit(t, c)
      BY <1>2, <1>12, <3>1 DEF Hit
    <3> DEFINE n == Chosen(t, c)
    <3>3. n \in DOMAIN Batch /\ Batch[n] = <<t, c - 1>>
      BY <1>4, <3>2
    <3>4. Label(Batch[n]) = <<msg[t], c - 1>>
      BY <1>5, <2>1, <3>3, TokensPrefix DEF Label, Hmac
    <3>5. answers[n] \in Answer /\ answers[n].label = <<msg[t], c - 1>>
      BY <1>1, <1>3, <3>3, <3>4 DEF Genuine
    <3> HIDE DEF n
    <3>6. answers[n].posting = postings[msg[t]][c - 1 + 1]
      BY <3>5, Answers
    <3>7. c - 1 + 1 = c
      BY <1>5, <2>1
    <3> QED BY <2>1, <3>2, <3>6, <3>7 DEF Cell, n
  <2> QED BY <2>2, <2>3
<1>13. Fetched'
  <2>1. labels' = labels /\ msg' = msg /\ postings' = postings
    BY <1>1 DEF labelVars, inputVars
  <2>2. \A a \in 1 .. labelPos' : \A t \in 1 .. Len(docs') : \A c \in 1 .. Len(docs'[t]) :
          labels[a] = <<t, c - 1>> => docs'[t][c] = postings[msg[t]][c]
    BY <1>12
  <2>3. pc' \notin {"score", "done"}
    BY <1>1
  <2> QED BY <2>1, <2>2, <2>3 DEF Fetched
<1>14. Parsed' /\ Shuffled'
  <2>1. Parsed'
    BY <1>1 DEF Parsed, inputVars
  <2>2. \A t, c : Passed(t, c)' <=> Passed(t, c)
    BY <1>1 DEF Passed, Counter, inputVars, labelVars
  <2>3. labels' = labels /\ msg' = msg /\ token' = token
    BY <1>1 DEF labelVars, inputVars
  <2>4. Shuffled'
    BY <1>1, <2>2, <2>3 DEF Shuffled
  <2> QED BY <2>1, <2>4
<1>15. Labels' = Labels /\ Answer' = Answer
  BY <1>1 DEF Labels, Answer, Entry, Sealed, Counter, inputVars
<1>16. Answered'
  BY <1>1, <1>15 DEF Answered, storeVars
<1> QED BY <1>10, <1>11, <1>13, <1>14, <1>16

\* The steps that only move on.
LEMMA OtherSteps ==
  ASSUME IInv,
         \/ ConnectBackend \/ InitIndex \/ AddToRedisEnds
         \/ StartSearch \/ ParseEnd \/ ShuffleEnd \/ SendBatch \/ SelectEnd \/ Refuse
         \/ EvaluateQuery \/ ScoreDocument \/ Reply \/ UNCHANGED vars
  PROVE  IInv'
<1> USE DEF IInv
<1>1. /\ UNCHANGED <<inputVars, storeVars, query, docs, labelVars, labelPos>>
      /\ UNCHANGED answers \/ answers' = <<>>
  BY DEF ConnectBackend, InitIndex, AddToRedisEnds,
     StartSearch, ParseEnd, ShuffleEnd, SendBatch, SelectEnd, Refuse, EvaluateQuery,
         ScoreDocument, Reply, vars, storeVars, fetchVars
<1>2. \/ UNCHANGED pc
      \/ pc = "connect" /\ pc' \in {"init", "down"}
      \/ pc = "init" /\ pc' \in {"add", "down"}
      \/ pc = "add" /\ pc' \in {"parse", "down"}
      \/ pc = "parse" /\ pc' = "shuffle" /\ query.counter = Len(msg)
      \/ pc = "shuffle" /\ pc' = "request" /\ token = Len(Tokens) + 1
      \/ pc = "request" /\ pc' = "select"
      \/ pc = "select" /\ pc' = "storeExit"
      \/ pc = "select" /\ pc' = "verify" /\ Len(answers) = Len(Batch) /\ UNCHANGED answers
      \/ pc = "verify" /\ pc' = "exit"
      \/ pc = "request" /\ pc' \in {"score", "exit"} /\ labelPos = Len(labels)
      \/ pc = "score" /\ pc' = "done"
  BY DEF ConnectBackend, InitIndex, AddToRedisEnds,
     StartSearch, ParseEnd, ShuffleEnd, SendBatch, SelectEnd, Refuse, EvaluateQuery,
         ScoreDocument, Reply, vars, fetchVars
<1>3. (pc = "verify" /\ UNCHANGED pc) => UNCHANGED answers
  BY DEF ConnectBackend, InitIndex, AddToRedisEnds,
     StartSearch, ParseEnd, ShuffleEnd, SendBatch, SelectEnd, Refuse, EvaluateQuery,
         ScoreDocument, Reply, vars, fetchVars
<1>4. pc = "shuffle" => Len(Tokens) = Len(msg)
  BY TokensPrefix DEF Parsed
<1>5. Types' /\ Parsed' /\ Vectors'
  BY <1>1, <1>2 DEF Types, Parsed, Vectors, Counter, inputVars, labelVars
<1>6. \A t, c : Passed(t, c)' <=> Passed(t, c)
  BY <1>1 DEF Passed, Counter, inputVars, labelVars
<1>7. Shuffled'
  <2>1. /\ labels' = labels /\ token' = token /\ nth' = nth /\ msg' = msg
        /\ labelPos' = labelPos
    BY <1>1 DEF labelVars, inputVars
  <2>2. /\ \A a, b \in 1 .. Len(labels') : labels'[a] = labels'[b] => a = b
        /\ \A t, c \in Nat :
             Passed(t, c)' <=> \E a \in 1 .. Len(labels') : labels'[a] = <<t, c>>
    BY <1>6, <2>1 DEF Shuffled
  <2>3. /\ pc' \in Early => pc \in Early
        /\ pc' \in Early \cup {"shuffle"} => pc \in Early \cup {"shuffle"}
        /\ pc' \notin Early \cup {"shuffle"}
             => pc \notin Early \cup {"shuffle"} \/ token = Len(msg) + 1
    BY <1>2, <1>4
  <2> QED BY <2>1, <2>2, <2>3 DEF Shuffled
<1>8. Fetched'
  BY <1>1, <1>2 DEF Fetched, inputVars, labelVars
<1>9. Labels' = Labels /\ Answer' = Answer /\ Batch' = Batch
  BY <1>1 DEF Labels, Answer, Entry, Sealed, Counter, Batch, inputVars, labelVars
<1>10. answers' \in Seq(Answer) /\ held' = held
  <2>1. answers \in Seq(Answer) /\ <<>> \in Seq(Answer)
    BY DEF Answered
  <2> HIDE DEF IInv
  <2> QED BY <1>1, <2>1 DEF storeVars
<1>11. Answered'
  BY <1>2, <1>3, <1>9, <1>10 DEF Answered
<1> QED BY <1>5, <1>7, <1>8, <1>11

LEMMA Step == IInv /\ [Next]_vars => IInv'
<1> SUFFICES ASSUME IInv, [Next]_vars PROVE IInv'
  OBVIOUS
<1>1. CASE AddBatch
  BY <1>1, AddBatchStep
<1>2. CASE ParseToken
  BY <1>2, ParseTokenStep
<1>3. CASE PlaceLabel
  BY <1>3, PlaceLabelStep
<1>4. CASE NextToken
  BY <1>4, NextTokenStep
<1>5. CASE Select
  BY <1>5, SelectStep
<1>6. CASE Receive
  BY <1>6, ReceiveStep
<1>7. CASE \/ ConnectBackend \/ InitIndex \/ AddToRedisEnds
         \/ StartSearch \/ ParseEnd \/ ShuffleEnd \/ SendBatch \/ SelectEnd \/ Refuse
           \/ EvaluateQuery \/ ScoreDocument \/ Reply \/ UNCHANGED vars
  BY <1>7, OtherSteps
<1> QED BY <1>1, <1>2, <1>3, <1>4, <1>5, <1>6, <1>7 DEF Next
-----------------------------------------------------------------------------
(* What follows from the invariant.                                        *)

LEMMA OnceFromInv == IInv => EachLabelOnce
<1> SUFFICES ASSUME IInv PROVE EachLabelOnce
  OBVIOUS
<1> USE DEF IInv
<1>1. labels \in Seq(Nat \X Nat) /\ DOMAIN labels = 1 .. Len(labels)
  BY DEF Types
<1>2. token \in Nat \ {0} /\ nth \in Nat /\ Len(msg) \in Nat
  BY DEF Types
<1>3. /\ Len(Tokens) \in Nat /\ Len(Tokens) <= Len(msg)
      /\ \A t \in 1 .. Len(Tokens) : Tokens[t] = msg[t] /\ t \in 1 .. Len(msg)
      /\ \A t \in 1 .. Len(Tokens) : msg[t] \in Words => Counter(msg[t]) \in Nat
  BY <1>2, TokensPrefix DEF Parsed, Types, Counter, Vector
<1>4. \A t, c : <<t, c>> \in Placed <=> t \in 1 .. Len(Tokens) /\ Passed(t, c)
  <2> SUFFICES ASSUME NEW t, NEW c
               PROVE  <<t, c>> \in Placed <=> t \in 1 .. Len(Tokens) /\ Passed(t, c)
    OBVIOUS
  <2>1. <<t, c>> \in Placed
          <=> t \in 1 .. Len(Tokens) /\ Tokens[t] \in Words /\ c \in PlacedOf(t)
    BY DEF Placed
  <2>2. CASE t \in 1 .. Len(Tokens) /\ msg[t] \in Words
    <3>1. c \in PlacedOf(t)
            <=> c \in Nat /\ c < IF t < token THEN Counter(msg[t])
                                 ELSE IF t = token THEN nth ELSE 0
      BY <1>2, <1>3, <2>2 DEF PlacedOf
    <3> QED BY <1>3, <2>1, <2>2, <3>1 DEF Passed
  <2>3. CASE ~(t \in 1 .. Len(Tokens) /\ msg[t] \in Words)
    BY <1>3, <2>1, <2>3 DEF Passed
  <2> QED BY <2>2, <2>3
<1>5. \A t, c : Passed(t, c) => t \in 1 .. Len(Tokens)
  <2>1. CASE pc \in Early
    BY <1>2, <2>1 DEF Shuffled, Passed
  <2>2. CASE pc \notin Early
    BY <1>3, <2>2, TokensPrefix DEF Parsed, Passed
  <2> QED BY <2>1, <2>2
<1>6. \A x \in Placed : \E t, c : x = <<t, c>>
  BY DEF Placed
<1>7. ASSUME NEW a \in 1 .. Len(labels) PROVE labels[a] \in Placed
  <2>1. PICK t \in Nat, c \in Nat : labels[a] = <<t, c>>
    BY <1>1
  <2>2. Passed(t, c)
    BY <2>1 DEF Shuffled
  <2> QED BY <1>4, <1>5, <2>1, <2>2
<1>8. ASSUME NEW x \in Placed PROVE \E a \in 1 .. Len(labels) : x = labels[a]
  <2>1. PICK t, c : x = <<t, c>>
    BY <1>6
  <2>2. Passed(t, c) /\ t \in Nat /\ c \in Nat
    BY <1>4, <2>1 DEF Passed
  <2> QED BY <2>1, <2>2 DEF Shuffled
<1>9. {labels[a] : a \in 1 .. Len(labels)} = Placed
  BY <1>7, <1>8
<1>10. \A a, b \in 1 .. Len(labels) : labels[a] = labels[b] => a = b
  BY DEF Shuffled
<1> QED BY <1>1, <1>9, <1>10 DEF EachLabelOnce

\* Once all labels have been asked for, the vectors are what the client added.
LEMMA ExactWhenFetched ==
  ASSUME IInv, pc \in {"request", "score", "done"}, labelPos = Len(labels)
  PROVE  /\ Tokens = msg /\ Len(docs) = Len(msg)
         /\ \A t \in WordTokens : docs[t] = postings[msg[t]]
<1> USE DEF IInv
<1>1. query.counter = Len(msg) /\ Tokens = msg /\ Len(msg) \in Nat
  BY TokensPrefix DEF Parsed, Types
<1>2. ASSUME NEW t \in WordTokens PROVE docs[t] = postings[msg[t]]
  <2>1. /\ t \in 1 .. Len(msg) /\ t \in 1 .. Len(docs) /\ msg[t] \in Words
        /\ Len(docs[t]) = Counter(msg[t]) /\ docs[t] \in Seq(Value)
    BY <1>1 DEF WordTokens, Vectors
  <2>2. postings[msg[t]] \in Seq(Value) /\ Counter(msg[t]) = Len(postings[msg[t]])
    BY <2>1 DEF Types, Counter
  <2>3. ASSUME NEW c \in 1 .. Len(docs[t]) PROVE docs[t][c] = postings[msg[t]][c]
    <3>1. token = Len(msg) + 1
      BY DEF Shuffled
    <3>2. t \in Nat /\ c - 1 \in Nat /\ t < token /\ c - 1 < Counter(msg[t])
      BY <1>1, <2>1, <2>2, <3>1
    <3>3. Passed(t, c - 1)
      BY <2>1, <3>2 DEF Passed
    <3>4. PICK a \in 1 .. Len(labels) : labels[a] = <<t, c - 1>>
      BY <3>2, <3>3 DEF Shuffled
    <3>5. a \in 1 .. labelPos
      BY <3>4 DEF Fetched
    <3> QED BY <2>1, <3>4, <3>5 DEF Fetched
  <2> QED BY <2>1, <2>2, <2>3, SeqEqual
<1> QED BY <1>1, <1>2 DEF Vectors

LEMMA ExactFromInv == IInv => VectorsExact
BY ExactWhenFetched DEF VectorsExact, IInv, Fetched
-----------------------------------------------------------------------------
(* The theorems.                                                           *)

\* The invariant holds in every state of every search: what the loops have passed is
\* in the list of labels, and what has been verified is in its place (search, lines
\* 295 to 455 of SseIee.cpp).
THEOREM Inductive == Spec => []IInv
BY Initially, Step, PTL DEF Spec

\* Each posting of each word of the query is asked for, once, whatever the order the
\* shuffle of search() leaves the labels in.
THEOREM LabelsOnce == Spec => []EachLabelOnce
BY Inductive, OnceFromInv, PTL

\* The formula is evaluated on the postings that the client added, and on no others,
\* whichever storage the service is built with and whatever it answers.
THEOREM VectorsAreExact == Spec => []VectorsExact
BY Inductive, ExactFromInv, PTL
-----------------------------------------------------------------------------
(* The answer.                                                             *)

\* What the client added, and what it asks.
Given == postings \in Postings /\ msg \in Queries

\* A map never answers with anything but the entry of the label asked for.
Faithful ==
  pc \in {"select", "verify"} /\ backend = "map" =>
    \A n \in DOMAIN answers : Genuine(n)

\* The scores of a query of one word are those of its postings, one by one.
Scored ==
  /\ pc \notin {"score", "done"} => scores = <<>>
  /\ pc \in {"score", "done"} /\ Len(msg) = 1 =>
       /\ msg[1] \in Words /\ response = Documents(1)
       /\ scores \in Seq(Int) /\ Len(scores) <= Len(response)
       /\ \A n \in 1 .. Len(scores) : scores[n] = docs[1][n].freq * Idf(1)

\* An entry of the batch is not the one of its label.
Mismatch == \E n \in DOMAIN Batch : ~Genuine(n)

Satisfying == {d \in 0 .. NDocs - 1 : Holds(msg, WordsOf(d))}
Judged ==
  /\ pc \in {"score", "done"} => WellFormed(msg) /\ Lists(response, Satisfying)
  /\ pc = "exit" /\ WellFormed(msg) => backend # "map" /\ Mismatch

AInv == IInv /\ Given /\ Faithful /\ Judged /\ Scored /\ BestFirst

\* The postings of a word are documents of the client, none of them twice.
LEMMA PostingsList ==
  ASSUME IInv, Given, NEW w \in Words, NEW v \in Seq(Value), v = postings[w]
  PROVE  Lists([c \in DOMAIN v |-> v[c].doc], {d \in 0 .. NDocs - 1 : w \in WordsOf(d)})
<1> DEFINE u == [c \in DOMAIN v |-> v[c].doc]
           Posting == [doc : 0 .. NDocs - 1, freq : Nat]
<1>1. postings \in [Words -> Seq(Posting)]
  BY PostingsAssumption DEF Given
<1>2. v \in Seq(Posting) /\ DOMAIN v = 1 .. Len(v)
  <2> HIDE DEF Posting
  <2> QED BY <1>1
<1>3. \A c \in 1 .. Len(v) : v[c].doc \in 0 .. NDocs - 1
  <2>1. \A c \in 1 .. Len(v) : v[c] \in Posting
    <3> HIDE DEF Posting
    <3> QED BY <1>2
  <2> QED BY <2>1
<1> HIDE DEF Posting
<1>4. DOMAIN u = 1 .. Len(v) /\ Len(v) \in Nat
      /\ \A c \in 1 .. Len(v) : u[c] = v[c].doc
  BY <1>2
<1>5. u \in Seq(Int)
  <2>1. u \in [1 .. Len(v) -> Int]
    BY <1>2, <1>3, SizesAssumption
  <2> HIDE DEF u
  <2> QED BY <1>4, <2>1
<1>6. Elements(u) = {d \in 0 .. NDocs - 1 : w \in WordsOf(d)}
  <2>1. ASSUME NEW d PROVE d \in Elements(u) <=> \E c \in 1 .. Len(v) : d = v[c].doc
    BY <1>4 DEF Elements
  <2>2. ASSUME NEW d PROVE w \in WordsOf(d) <=> \E c \in 1 .. Len(v) : v[c].doc = d
    BY <1>2 DEF WordsOf
  <2> HIDE DEF u
  <2> QED BY <1>3, <2>1, <2>2
<1>7. \A a, b \in DOMAIN u : u[a] = u[b] => a = b
  <2>1. \A a, b \in DOMAIN v : v[a].doc = v[b].doc => a = b
    BY DocumentsAssumption DEF Given
  <2> QED BY <1>2, <1>4, <2>1
<1> HIDE DEF u
<1>8. Lists(u, {d \in 0 .. NDocs - 1 : w \in WordsOf(d)})
  BY <1>5, <1>6, <1>7 DEF Lists
<1> QED BY <1>8 DEF u

WordSets == [d \in 0 .. NDocs - 1 |-> WordsOf(d)]
DocumentVectors == [t \in DOMAIN docs |-> Documents(t)]

\* The formula is evaluated on the request and its exact vectors.
LEMMA FormulaInput ==
  ASSUME IInv, Given, pc = "request", labelPos = Len(labels)
  PROVE  IsInput(msg, DocumentVectors, WordSets, NDocs)
<1>1. /\ Tokens = msg /\ Len(docs) = Len(msg)
      /\ \A t \in WordTokens : docs[t] = postings[msg[t]]
  BY ExactWhenFetched
<1>2. msg \in Seq(TokenSet) /\ docs \in Seq(Seq(Value))
  BY DEF IInv, Types, Vectors
<1>3. Len(msg) \in Nat /\ DOMAIN msg = 1 .. Len(msg) /\ DOMAIN docs = 1 .. Len(msg)
  BY <1>1, <1>2
<1>4. ASSUME NEW t \in 1 .. Len(msg)
      PROVE  /\ DocumentVectors[t] \in Seq(Int)
             /\ msg[t] \notin Operators =>
                  Lists(DocumentVectors[t], With(msg[t], WordSets, NDocs))
  <2>1. DocumentVectors[t] = Documents(t) /\ docs[t] \in Seq(Value)
    BY <1>2, <1>3 DEF DocumentVectors
  <2>2. Documents(t) \in Seq(Int)
    <3> DEFINE v == docs[t]
               u == [c \in DOMAIN v |-> v[c].doc]
    <3>1. v \in Seq(Value) /\ Len(v) \in Nat /\ DOMAIN v = 1 .. Len(v)
      BY <2>1
    <3>2. \A c \in 1 .. Len(v) : v[c].doc \in Int
      <4>1. \A c \in 1 .. Len(v) : v[c] \in Value
        <5> HIDE DEF v
        <5> QED BY <3>1
      <4> QED BY <4>1 DEF Value
    <3>3. u \in [1 .. Len(v) -> Int]
      BY <3>1, <3>2
    <3>4. Documents(t) = u
      BY DEF Documents
    <3> HIDE DEF u, v
    <3> QED BY <3>1, <3>3, <3>4
  <2>3. ASSUME msg[t] \notin Operators
        PROVE  Lists(Documents(t), With(msg[t], WordSets, NDocs))
    <3>1. msg[t] \in Words /\ t \in WordTokens
      BY <1>1, <1>2, <1>3, <2>3 DEF TokenSet, WordTokens
    <3>2. docs[t] = postings[msg[t]]
      BY <1>1, <3>1
    <3>3. Lists([c \in DOMAIN docs[t] |-> docs[t][c].doc],
                {d \in 0 .. NDocs - 1 : msg[t] \in WordsOf(d)})
      BY <2>1, <3>1, <3>2, PostingsList
    <3>4. With(msg[t], WordSets, NDocs) = {d \in 0 .. NDocs - 1 : msg[t] \in WordsOf(d)}
      BY DEF With, WordSets
    <3> QED BY <3>3, <3>4 DEF Documents
  <2> QED BY <2>1, <2>2, <2>3
<1> QED BY <1>3, <1>4, SizesAssumption DEF IsInput

\* So the formula goes through exactly if the query is well-formed, and finds the
\* documents that satisfy it.
LEMMA FormulaExact ==
  ASSUME IInv, Given, EvaluateQuery
  PROVE  /\ pc' = IF WellFormed(msg) THEN "score" ELSE "exit"
         /\ WellFormed(msg) => Lists(response', Satisfying)
<1> DEFINE result == Evaluate(msg, DocumentVectors, NDocs)
<1>1. pc = "request" /\ labelPos = Len(labels)
  BY DEF EvaluateQuery
<1>2. Tokens = msg
  BY <1>1, ExactWhenFetched
<1>3. /\ response' = result.docs
      /\ pc' = IF result.ok THEN "score" ELSE "exit"
  BY <1>2 DEF EvaluateQuery, DocumentVectors
<1>4. /\ result.ok <=> WellFormed(msg)
      /\ result.ok =>
           Lists(result.docs, {d \in 0 .. NDocs - 1 : Holds(msg, WordSets[d])})
  BY <1>1, FormulaInput, EvaluateExact
<1>5. {d \in 0 .. NDocs - 1 : Holds(msg, WordSets[d])} = Satisfying
  BY DEF Satisfying, WordSets
<1> HIDE DEF result
<1> QED BY <1>3, <1>4, <1>5

\* A query of one token is well-formed if it is a word; the answer is its vector.
LEMMA OneWord ==
  ASSUME NEW nd \in Nat, NEW rpn \in Seq(TokenSet), Len(rpn) = 1, NEW vecs,
         vecs[1] \in Seq(Int), Evaluate(rpn, vecs, nd).ok
  PROVE  rpn[1] \in Words /\ Evaluate(rpn, vecs, nd).docs = vecs[1]
<1> DEFINE run == Run(rpn, vecs, nd)
           start == [ok |-> TRUE, stack |-> <<>>]
<1>1. run[0] = start /\ run[1] = EvalToken(run[0], rpn[1], vecs[1], nd)
  <2>1. /\ run[0] = [ok |-> TRUE, stack |-> <<>>]
        /\ \A i \in 0 .. Len(rpn) : run[i] \in StackStates
        /\ \A i \in 1 .. Len(rpn) : run[i] = EvalToken(run[i - 1], rpn[i], vecs[i], nd)
    <3>1. \A i \in 1 .. Len(rpn) : vecs[i] \in Seq(Int)
      OBVIOUS
    <3>2. Len(rpn) \in Nat
      OBVIOUS
    <3> QED BY ONLY <3>1, <3>2, RunSteps, nd \in Nat
  <2> HIDE DEF run
  <2>2. 1 \in 1 .. Len(rpn) /\ 1 - 1 = 0
    OBVIOUS
  <2> QED BY <2>1, <2>2
<1>2. run[1].ok /\ Evaluate(rpn, vecs, nd).docs = run[1].stack[1]
  BY DEF Evaluate
<1>3. start \in StackStates /\ start.ok /\ start.stack = <<>> /\ Len(start.stack) = 0
  BY DEF StackStates
<1> HIDE DEF run, start
<1>4. rpn[1] \notin Operators
  <2> SUFFICES ASSUME rpn[1] \in Operators PROVE FALSE
    OBVIOUS
  <2>1. EvalToken(start, rpn[1], vecs[1], nd) = Exited
    BY <1>3 DEF EvalToken, Operators
  <2> QED BY <1>1, <1>2, <2>1 DEF Exited
<1>5. run[1] = [ok |-> TRUE, stack |-> Append(<<>>, vecs[1])]
  <2>1. EvalToken(start, rpn[1], vecs[1], nd)
          = [ok |-> TRUE, stack |-> Append(start.stack, vecs[1])]
    BY <1>3, <1>4 DEF EvalToken, Operators
  <2> QED BY <1>1, <1>3, <2>1
<1>6. rpn[1] \in TokenSet
  <2>1. 1 \in 1 .. Len(rpn) /\ DOMAIN rpn = 1 .. Len(rpn)
    OBVIOUS
  <2> QED BY ONLY <2>1, rpn \in Seq(TokenSet)
<1> QED BY <1>2, <1>4, <1>5, <1>6 DEF TokenSet

\* What the search is for does not change.
LEMMA GivenStep == Given /\ [Next]_vars => Given'
<1>1. [Next]_vars => UNCHANGED <<postings, msg, backend>>
  BY DEF Next, ConnectBackend, InitIndex, AddBatch, AddToRedisEnds, StartSearch,
     ParseToken, ParseEnd, PlaceLabel, NextToken, ShuffleEnd, SendBatch, Select,
     SelectEnd, Receive, Refuse, EvaluateQuery, ScoreDocument, Reply, vars, inputVars
<1> QED BY <1>1 DEF Given

\* A map answers with the entry of the label asked for, or not at all.
LEMMA FaithfulStep == IInv /\ Faithful /\ [Next]_vars => Faithful'
<1> SUFFICES ASSUME IInv, Faithful, [Next]_vars, pc' \in {"select", "verify"},
                    backend' = "map", NEW n \in DOMAIN answers'
             PROVE  Genuine(n)'
  BY DEF Faithful
<1>1. answers \in Seq(Answer)
  BY DEF IInv, Answered
<1>2. ASSUME UNCHANGED <<backend, query, labels, labelPos, answers>>,
             pc \in {"select", "verify"}
      PROVE  Genuine(n)'
  <2>1. Genuine(n)
    BY <1>2 DEF Faithful
  <2> QED BY <1>2, <2>1 DEF Genuine, Label, Hmac, Tokens, VtTokens, Batch
<1>3. CASE SendBatch
  BY <1>3 DEF SendBatch
<1>4. CASE Select
  <2> DEFINE k == Len(answers) + 1
             l == Label(Batch[k])
  <2>1. /\ pc = "select" /\ backend = backend'
        /\ UNCHANGED <<query, labels, labelPos>>
    BY <1>4 DEF Select, inputVars, labelVars
  <2>2. Label(Batch[n])' = Label(Batch[n])
    BY <2>1 DEF Label, Hmac, Tokens, VtTokens, Batch
  <2>3. answers' = Append(answers, Entry(l))
    <3>1. SelectFromMap(l)
      BY <1>4, <2>1 DEF Select
    <3>2. pc' = "select"
      BY <3>1, <2>1 DEF SelectFromMap
    <3> QED BY <3>1, <3>2 DEF SelectFromMap, Find, VoidEqual
  <2>4. Entry(l).label = l
    BY DEF Entry, Sealed
  <2> HIDE DEF l
  <2>5. CASE n = k
    <3>1. answers'[n] = Entry(l)
      BY <1>1, <2>3, <2>5
    <3> QED BY <2>2, <2>4, <2>5, <3>1 DEF Genuine, l
  <2>6. CASE n # k
    <3>1. n \in DOMAIN answers /\ answers'[n] = answers[n]
      BY <1>1, <2>3, <2>6
    <3>2. Genuine(n)
      BY <2>1, <3>1 DEF Faithful
    <3> QED BY <2>2, <3>1, <3>2 DEF Genuine
  <2> QED BY <2>5, <2>6
<1>5. CASE SelectEnd
  BY <1>2, <1>5 DEF SelectEnd, inputVars, labelVars, fetchVars
<1>6. CASE UNCHANGED vars
  BY <1>2, <1>6 DEF vars, inputVars, labelVars, fetchVars
<1>7. ~(ConnectBackend \/ InitIndex \/ AddBatch \/ AddToRedisEnds \/ StartSearch
          \/ ParseToken \/ ParseEnd \/ PlaceLabel \/ NextToken \/ ShuffleEnd
          \/ Receive \/ Refuse \/ EvaluateQuery \/ ScoreDocument \/ Reply)
  BY DEF ConnectBackend, InitIndex, AddBatch, AddToRedisEnds, StartSearch,
     ParseToken, ParseEnd, PlaceLabel, NextToken, ShuffleEnd, Receive, Refuse,
     EvaluateQuery, ScoreDocument, Reply
<1> QED BY <1>3, <1>4, <1>5, <1>6, <1>7 DEF Next

\* Which steps leave the answer alone.
LEMMA AnswerKept ==
  ASSUME [Next]_vars, ~EvaluateQuery, ~ScoreDocument, ~Reply
  PROVE  /\ UNCHANGED <<postings, msg, backend, response, scores, reply>>
         /\ pc' \in {"score", "done"} => UNCHANGED <<pc, docs>>
         /\ pc \in {"score", "done"} => pc' = pc
         /\ pc' = "exit" =>
              /\ UNCHANGED <<query, labels, labelPos, answers>>
              /\ pc = "exit" \/ Refuse
BY DEF Next, ConnectBackend, InitIndex, AddBatch, AddToRedisEnds, StartSearch,
   ParseToken, ParseEnd, PlaceLabel, NextToken, ShuffleEnd, SendBatch, Select,
   SelectFromMap, SelectFromCassandra, SelectUnprepared, SelectFromRedis,
   SelectEnd, Receive, Refuse, vars, inputVars, labelVars, fetchVars, rankVars

\* A map is never refused.
LEMMA RefusedNoMap == ASSUME IInv, Faithful, Refuse PROVE backend # "map"
<1>1. PICK n \in DOMAIN Batch : ~Genuine(n)
  BY DEF Refuse
<1>2. pc = "verify" /\ Len(answers) = Len(Batch)
  BY DEF Refuse, IInv, Answered
<1>3. n \in DOMAIN answers
  <2>1. answers \in Seq(Answer) /\ DOMAIN answers = 1 .. Len(answers)
    BY DEF IInv, Answered
  <2>2. labels \in Seq(Nat \X Nat) /\ labelPos \in Nat /\ Len(labels) \in Nat
    BY DEF IInv, Types
  <2>3. DOMAIN Batch = 1 .. Len(Batch)
    BY <2>2, SizesAssumption DEF Batch
  <2> QED BY <1>2, <2>1, <2>3
<1> QED BY <1>1, <1>2, <1>3 DEF Faithful

LEMMA JudgedStep ==
  IInv /\ Given /\ Faithful /\ Judged /\ [Next]_vars => Judged'
<1> SUFFICES ASSUME IInv, Given, Faithful, Judged, [Next]_vars PROVE Judged'
  OBVIOUS
<1>1. ASSUME UNCHANGED <<postings, msg>>
      PROVE  Satisfying' = Satisfying
  BY <1>1 DEF Satisfying, WordsOf
<1>2. CASE EvaluateQuery
  <2>1. UNCHANGED <<postings, msg, backend>>
    BY <1>2 DEF EvaluateQuery, inputVars
  <2>2. Satisfying' = Satisfying
    BY <1>1, <2>1
  <2>3. pc' = (IF WellFormed(msg) THEN "score" ELSE "exit")
        /\ (WellFormed(msg) => Lists(response', Satisfying))
    BY <1>2, FormulaExact
  <2> QED BY <2>1, <2>2, <2>3 DEF Judged
<1>3. CASE ScoreDocument \/ Reply
  <2>1. UNCHANGED <<postings, msg, response>> /\ pc = "score" /\ pc' # "exit"
    BY <1>3 DEF ScoreDocument, Reply, inputVars
  <2> QED BY <1>1, <2>1 DEF Judged
<1>4. CASE ~EvaluateQuery /\ ~ScoreDocument /\ ~Reply
  <2>1. /\ UNCHANGED <<postings, msg, backend, response>>
        /\ pc' \in {"score", "done"} => pc' = pc
        /\ pc' = "exit" =>
             /\ UNCHANGED <<query, labels, labelPos, answers>>
             /\ pc = "exit" \/ Refuse
    BY <1>4, AnswerKept
  <2>2. ASSUME UNCHANGED <<query, labels, labelPos, answers>> PROVE Mismatch' <=> Mismatch
    BY <2>2 DEF Mismatch, Genuine, Label, Hmac, Tokens, VtTokens, Batch
  <2>3. ASSUME Refuse PROVE backend # "map" /\ Mismatch
    BY <2>3, RefusedNoMap DEF Refuse, Mismatch
  <2> QED BY <1>1, <2>1, <2>2, <2>3 DEF Judged
<1> QED BY <1>2, <1>3, <1>4

\* A sum over one index.
LEMMA SumOne == ASSUME NEW x, NEW n \in Int PROVE Sum([t \in {x} |-> n], {x}) = n
<1> DEFINE f == [t \in {x} |-> n]
           next(g) == [s \in SUBSET {x} |->
                         IF s = {} THEN 0
                         ELSE LET y == CHOOSE y \in s : TRUE IN f[y] + g[s \ {y}]]
           iter == CHOOSE g : g = next(g)
           sum == [s \in SUBSET {x} |-> IF s = {} THEN 0 ELSE n]
<1>1. (CHOOSE y \in {x} : TRUE) = x
  OBVIOUS
<1>2. sum = next(sum)
  <2>1. \A s \in SUBSET {x} : s = {} \/ s = {x}
    OBVIOUS
  <2>2. ASSUME NEW s \in SUBSET {x}
        PROVE  sum[s] = IF s = {} THEN 0
                        ELSE LET y == CHOOSE y \in s : TRUE IN f[y] + sum[s \ {y}]
    <3>1. CASE s = {}
      BY <3>1
    <3>2. CASE s = {x}
      <4>1. {x} \ {x} = {} /\ {} \in SUBSET {x} /\ {x} # {}
        OBVIOUS
      <4>2. sum[{}] = 0 /\ f[x] = n
        BY <4>1
      <4> QED BY <1>1, <3>2, <4>1, <4>2
    <3> QED BY <2>1, <3>1, <3>2
  <2> QED BY <2>2
<1>3. iter = next(iter)
  <2> HIDE DEF next
  <2> QED BY <1>2
<1>4. iter[{x}] = f[x] + iter[{}]
  <2>1. {x} \in SUBSET {x} /\ {x} # {} /\ {x} \ {x} = {}
    OBVIOUS
  <2>2. next(iter)[{x}] = f[x] + iter[{}]
    <3> HIDE DEF iter, f
    <3> QED BY <1>1, <2>1
  <2> HIDE DEF next, iter
  <2> QED BY <1>3, <2>2
<1>5. iter[{}] = 0
  <2>1. next(iter)[{}] = 0
    <3> HIDE DEF iter, f
    <3> QED OBVIOUS
  <2> HIDE DEF next, iter
  <2> QED BY <1>3, <2>1
<1>6. Sum(f, {x}) = iter[{x}]
  BY DEF Sum, FoldFunctionOnSet, MapThenFoldSet
<1> HIDE DEF iter
<1> QED BY <1>4, <1>5, <1>6

\* What is known of a query of one word once its formula has been evaluated.
LEMMA OneWordFacts ==
  ASSUME IInv, Judged, Scored, pc \in {"score", "done"}, Len(msg) = 1
  PROVE  /\ WordTokens = {1} /\ Tokens = msg
         /\ docs[1] \in Seq(Value) /\ Len(docs[1]) \in Nat /\ Idf(1) \in Int
         /\ response \in Seq(Int) /\ Len(response) = Len(docs[1])
         /\ \A n \in 1 .. Len(docs[1]) :
              docs[1][n].freq \in Int /\ response[n] = docs[1][n].doc
         /\ \A a, b \in 1 .. Len(docs[1]) : response[a] = response[b] => a = b
<1>1. /\ Tokens = msg /\ Len(docs) = Len(msg)
      /\ docs \in Seq(Seq(Value)) /\ msg \in Seq(TokenSet)
  BY ExactWhenFetched DEF IInv, Fetched, Types, Vectors
<1>2. DOMAIN docs = {1} /\ docs[1] \in Seq(Value)
  BY <1>1
<1>3. WordTokens = {1}
  BY <1>1, <1>2 DEF Scored, WordTokens
<1>4. Len(docs[1]) \in Nat /\ DOMAIN docs[1] = 1 .. Len(docs[1])
      /\ \A n \in 1 .. Len(docs[1]) : docs[1][n] \in Value
  BY <1>2
<1>5. Idf(1) \in Int
  BY <1>4, SizesAssumption DEF Idf
<1>6. /\ response \in Seq(Int)
      /\ \A a, b \in DOMAIN response : response[a] = response[b] => a = b
  BY DEF Judged, Lists
<1>7. response = Documents(1)
  BY DEF Scored
<1>8. DOMAIN response = DOMAIN docs[1]
      /\ \A n \in DOMAIN docs[1] : response[n] = docs[1][n].doc
  BY <1>7 DEF Documents
<1>9. Len(response) = Len(docs[1])
  <2>1. DOMAIN response = 1 .. Len(response) /\ Len(response) \in Nat
    BY <1>6
  <2> QED BY <1>4, <1>8, <2>1
<1> QED BY <1>1, <1>2, <1>3, <1>4, <1>5, <1>6, <1>8, <1>9 DEF Value

\* The formula of one word is its vector.
LEMMA FirstScored ==
  ASSUME IInv, Given, Scored, EvaluateQuery PROVE Scored'
<1>1. /\ pc = "request" /\ labelPos = Len(labels) /\ UNCHANGED <<docs, msg, scores>>
      /\ scores = <<>> /\ pc' \in {"score", "exit"}
  BY DEF EvaluateQuery, inputVars, Scored
<1>2. Tokens = msg /\ msg \in Seq(TokenSet) /\ Len(msg) \in Nat
  BY <1>1, ExactWhenFetched DEF IInv, Types
<1> SUFFICES ASSUME pc' = "score", Len(msg) = 1
             PROVE  /\ msg[1] \in Words /\ response' = Documents(1)'
                    /\ Len(scores) <= Len(response')
  BY <1>1 DEF Scored
<1>3. /\ Evaluate(msg, DocumentVectors, NDocs).ok
      /\ response' = Evaluate(msg, DocumentVectors, NDocs).docs
  BY <1>2 DEF EvaluateQuery, DocumentVectors
<1>4. DocumentVectors[1] \in Seq(Int)
  <2>1. 1 \in 1 .. Len(msg)
    OBVIOUS
  <2> QED BY <1>1, <2>1, FormulaInput DEF IsInput
<1>5. msg[1] \in Words /\ response' = DocumentVectors[1]
  BY <1>2, <1>3, <1>4, OneWord, SizesAssumption
<1>6. DocumentVectors[1] = Documents(1)
  <2>1. Len(docs) = 1 /\ docs \in Seq(Seq(Value))
    BY <1>1, ExactWhenFetched DEF IInv, Vectors
  <2> QED BY <2>1 DEF DocumentVectors
<1>7. Documents(1)' = Documents(1)
  BY <1>1 DEF Documents
<1>8. Len(response') \in Nat
  BY <1>4, <1>5
<1> QED BY <1>1, <1>5, <1>6, <1>7, <1>8

\* calc_tfidf finds each document of the answer where it is in the word's vector.
LEMMA NextScored ==
  ASSUME IInv, Judged, Scored, ScoreDocument PROVE Scored'
<1>1. /\ pc = "score" /\ pc' = pc /\ Len(scores) < Len(response)
      /\ UNCHANGED <<docs, msg, response>>
  BY DEF ScoreDocument, inputVars
<1> SUFFICES ASSUME Len(msg) = 1
             PROVE  /\ msg[1] \in Words /\ response = Documents(1)
                    /\ scores' \in Seq(Int) /\ Len(scores') <= Len(response)
                    /\ \A n \in 1 .. Len(scores') :
                         scores'[n] = docs[1][n].freq * Idf(1)
  <2>1. Documents(1)' = Documents(1) /\ Idf(1)' = Idf(1)
    BY <1>1 DEF Documents, Idf
  <2> QED BY <1>1, <2>1 DEF Scored
<1> DEFINE k == Len(scores) + 1
           d == response[k]
           score == docs[1][k].freq * Idf(1)
<1>2. /\ WordTokens = {1} /\ Tokens = msg
      /\ docs[1] \in Seq(Value) /\ Len(docs[1]) \in Nat /\ Idf(1) \in Int
      /\ response \in Seq(Int) /\ Len(response) = Len(docs[1])
      /\ \A n \in 1 .. Len(docs[1]) :
           docs[1][n].freq \in Int /\ response[n] = docs[1][n].doc
      /\ \A a, b \in 1 .. Len(docs[1]) : response[a] = response[b] => a = b
  BY <1>1, OneWordFacts
<1>3. scores \in Seq(Int) /\ k \in 1 .. Len(docs[1])
  BY <1>1, <1>2 DEF Scored
<1>4. Positions(1, d) = {k}
  <2>1. \A c \in 1 .. Len(docs[1]) : docs[1][c].doc = d <=> c = k
    BY <1>2, <1>3
  <2>2. Positions(1, d)
          = {IF \E c \in 1 .. Len(docs[1]) : docs[1][c].doc = d
             THEN CHOOSE c \in 1 .. Len(docs[1]) :
                    /\ docs[1][c].doc = d
                    /\ \A b \in 1 .. c - 1 : docs[1][b].doc # d
             ELSE 0}
    <3>1. Tokens = msg
      BY <1>2
    <3>2. ~(Len(Tokens) > 1)
      BY ONLY <3>1, Len(msg) = 1
    <3> HIDE DEF d
    <3> QED BY <3>2 DEF Positions
  <2> DEFINE First(c) == /\ docs[1][c].doc = d
                         /\ \A b \in 1 .. c - 1 : docs[1][b].doc # d
  <2>3. First(k)
    <3>1. \A b \in 1 .. k - 1 : b \in 1 .. Len(docs[1]) /\ b # k
      BY <1>2, <1>3
    <3> QED BY <1>3, <2>1, <3>1
  <2>4. \A c \in 1 .. Len(docs[1]) : First(c) => c = k
    BY <2>1
  <2>5. (CHOOSE c \in 1 .. Len(docs[1]) : First(c)) = k
    <3> HIDE DEF First, k
    <3> QED BY <1>3, <2>3, <2>4
  <2> QED BY <1>3, <2>1, <2>2, <2>5
<1>5. PICK p \in [WordTokens -> UNION {Positions(t, d) : t \in WordTokens}] :
         /\ \A t \in WordTokens : p[t] \in Positions(t, d)
         /\ scores' = Append(scores, Sum([t \in WordTokens |-> Share(t, p[t])],
                                         WordTokens))
  BY DEF ScoreDocument
<1>6. p[1] = k
  BY <1>2, <1>4, <1>5
<1>7. Share(1, p[1]) = score /\ score \in Int
  <2>1. k # 0
    BY <1>3
  <2> QED BY <1>2, <1>3, <1>6, <2>1 DEF Share
<1>8. [t \in WordTokens |-> Share(t, p[t])] = [t \in {1} |-> score]
  BY <1>2, <1>7
<1> HIDE DEF score
<1>9. Sum([t \in WordTokens |-> Share(t, p[t])], WordTokens) = score
  BY <1>2, <1>7, <1>8, SumOne
<1>10. scores' = Append(scores, score)
  BY <1>5, <1>9
<1>11. /\ scores' \in Seq(Int) /\ Len(scores') = k
       /\ \A n \in 1 .. Len(scores) : scores'[n] = scores[n]
       /\ scores'[k] = score
  BY <1>3, <1>7, <1>10
<1>12. ASSUME NEW n \in 1 .. k PROVE scores'[n] = docs[1][n].freq * Idf(1)
  <2>1. CASE n = k
    BY <1>11, <2>1 DEF score
  <2>2. CASE n # k
    <3>1. n \in 1 .. Len(scores)
      BY <1>3, <2>2
    <3> QED BY <1>1, <1>11, <3>1 DEF Scored
  <2> QED BY <2>1, <2>2
<1> QED BY <1>1, <1>2, <1>3, <1>11, <1>12 DEF Scored

LEMMA ScoredStep ==
  IInv /\ Given /\ Judged /\ Scored /\ [Next]_vars => Scored'
<1> SUFFICES ASSUME IInv, Given, Judged, Scored, [Next]_vars PROVE Scored'
  OBVIOUS
<1>1. ASSUME UNCHANGED <<docs, msg, response, scores>>,
             pc \in {"score", "done"}, pc' \in {"score", "done"}
      PROVE  Scored'
  <2>1. Documents(1)' = Documents(1) /\ Idf(1)' = Idf(1)
    BY <1>1 DEF Documents, Idf
  <2> QED BY <1>1, <2>1 DEF Scored
<1>2. CASE Reply
  <2>1. UNCHANGED <<docs, msg, response, scores>> /\ pc = "score" /\ pc' = "done"
    BY <1>2 DEF Reply, inputVars
  <2> QED BY <1>1, <2>1
<1>3. CASE ~EvaluateQuery /\ ~ScoreDocument /\ ~Reply
  <2>1. /\ UNCHANGED <<msg, response, scores>>
        /\ pc' \in {"score", "done"} => UNCHANGED <<pc, docs>>
        /\ pc \in {"score", "done"} => pc' = pc
    BY <1>3, AnswerKept
  <2>2. CASE pc' \in {"score", "done"}
    BY <1>1, <2>1, <2>2
  <2>3. CASE pc' \notin {"score", "done"}
    BY <2>1, <2>3 DEF Scored
  <2> QED BY <2>2, <2>3
<1> QED BY <1>2, <1>3, FirstScored, NextScored

Ordered(r, p, k) == [n \in 1 .. AtMost(Len(r), k) |-> r[p[n]]]

\* The reply is a piece of a permutation of the answer.
LEMMA ReplyLists ==
  ASSUME NEW r, NEW D, Lists(r, D), NEW k \in Nat,
         NEW p \in [1 .. Len(r) -> 1 .. Len(r)], IsInjective(p),
         NEW q, q = Ordered(r, p, k)
  PROVE  /\ Len(q) = AtMost(Len(r), k) /\ DOMAIN q = 1 .. AtMost(Len(r), k)
         /\ Elements(q) \subseteq Elements(r)
         /\ Cardinality(Elements(q)) = Len(q)
<1> DEFINE m == AtMost(Len(r), k)
           listed == Elements(q)
<1>1. /\ r \in Seq(Int) /\ Len(r) \in Nat /\ DOMAIN r = 1 .. Len(r)
      /\ \A a, b \in DOMAIN r : r[a] = r[b] => a = b
  BY DEF Lists
<1>2. m \in Nat /\ m <= Len(r)
  BY <1>1 DEF AtMost
<1>3. \A n \in 1 .. m : n \in DOMAIN p /\ p[n] \in DOMAIN r
  BY <1>1, <1>2
<1>4. q \in Seq(Int) /\ Len(q) = m /\ DOMAIN q = 1 .. m
  <2>1. q \in [1 .. m -> Int]
    <3>1. \A n \in 1 .. m : r[p[n]] \in Int
      BY <1>1, <1>3
    <3> HIDE DEF m
    <3> QED BY <3>1 DEF m, Ordered
  <2> HIDE DEF m
  <2> QED BY ONLY <1>2, <2>1
<1>5. \A n \in 1 .. m : q[n] = r[p[n]]
  BY DEF Ordered
<1>6. listed \subseteq Elements(r)
  BY <1>3, <1>4, <1>5 DEF Elements
<1>7. \A a, b \in DOMAIN q : q[a] = q[b] => a = b
  BY <1>1, <1>3, <1>4, <1>5 DEF IsInjective
<1>8. Lists(q, listed)
  <2> HIDE DEF m
  <2> QED BY <1>4, <1>7 DEF Lists, Elements
<1>9. Cardinality(listed) = Len(q)
  <2> HIDE DEF listed
  <2> QED BY <1>8, ListsLength
<1> QED BY <1>4, <1>6, <1>9

\* A permutation leaves nothing out.
LEMMA Permutation ==
  ASSUME NEW n \in Nat, NEW p \in [1 .. n -> 1 .. n], IsInjective(p)
  PROVE  \A i \in 1 .. n : \E a \in 1 .. n : p[a] = i
<1>1. IsFiniteSet(1 .. n)
  BY FS_Interval
<1>2. p \in Injection(1 .. n, 1 .. n)
  BY DEF Injection, IsInjective
<1>3. p \in Surjection(1 .. n, 1 .. n)
  BY <1>1, <1>2, FS_Injection
<1> QED BY <1>3 DEF Surjection

\* For a query of one word a better document is one with a higher score.
LEMMA BetterScore ==
  ASSUME IInv, Judged, Scored, pc = "score", Len(msg) = 1,
         Len(scores) = Len(response),
         NEW i \in 1 .. Len(response), NEW j \in 1 .. Len(response),
         scores[i] >= scores[j]
  PROVE  ~Better(response[j], response[i])
<1>1. /\ docs[1] \in Seq(Value) /\ Len(docs[1]) \in Nat /\ Idf(1) \in Int
      /\ Len(response) = Len(docs[1])
      /\ \A n \in 1 .. Len(docs[1]) :
           docs[1][n].freq \in Int /\ response[n] = docs[1][n].doc
      /\ \A a, b \in 1 .. Len(docs[1]) : response[a] = response[b] => a = b
  BY OneWordFacts
<1>2. scores[i] \in Int /\ scores[j] \in Int
      /\ scores[i] = docs[1][i].freq * Idf(1) /\ scores[j] = docs[1][j].freq * Idf(1)
  <2>1. scores \in Seq(Int) /\ \A n \in 1 .. Len(scores) :
          scores[n] = docs[1][n].freq * Idf(1)
    BY DEF Scored
  <2> QED BY <2>1
<1> SUFFICES ASSUME NEW a \in 1 .. Len(docs[1]), NEW b \in 1 .. Len(docs[1]),
                    docs[1][a].doc = response[j], docs[1][b].doc = response[i]
             PROVE  ~(docs[1][a].freq * Idf(1) > docs[1][b].freq * Idf(1))
  <2>1. DOMAIN docs[1] = 1 .. Len(docs[1])
    BY <1>1
  <2> QED BY <1>1, <2>1 DEF Better
<1>3. a = j /\ b = i
  BY <1>1
<1>4. ~(scores[j] > scores[i])
  BY <1>2
<1> QED BY <1>2, <1>3, <1>4

\* qsort and the cut at the threshold leave the best documents in order.
LEMMA BestStep ==
  IInv /\ Judged /\ Scored /\ BestFirst /\ [Next]_vars => BestFirst'
<1> SUFFICES ASSUME IInv, Judged, Scored, BestFirst, [Next]_vars, pc' = "done"
             PROVE  BestFirst'
  BY DEF BestFirst
<1>1. CASE Reply
  <2>1. /\ pc = "score" /\ Len(scores) = Len(response)
        /\ UNCHANGED <<docs, msg, response>>
    BY <1>1 DEF Reply, inputVars
  <2>2. PICK p \in [1 .. Len(response) -> 1 .. Len(response)] :
          /\ \A a, b \in DOMAIN p : p[a] = p[b] => a = b
          /\ Sorted(p)
          /\ reply' = [n \in 1 .. AtMost(Len(response), Threshold) |-> response[p[n]]]
    BY <1>1 DEF Reply
  <2> DEFINE m == AtMost(Len(response), Threshold)
             listed == Elements(reply')
  <2>3. Lists(response, Satisfying)
    BY <2>1 DEF Judged
  <2>4. Len(response) \in Nat /\ DOMAIN response = 1 .. Len(response)
    BY <2>3 DEF Lists
  <2>5. /\ Len(reply') = m /\ DOMAIN reply' = 1 .. m
        /\ listed \subseteq Elements(response)
        /\ Cardinality(listed) = Len(reply')
    <3>1. Threshold \in Nat
      BY SizesAssumption
    <3>2. IsInjective(p)
      BY <2>2 DEF IsInjective
    <3>3. reply' = Ordered(response, p, Threshold)
      BY <2>2 DEF Ordered
    <3> QED BY ONLY <2>3, <3>1, <3>2, <3>3, ReplyLists,
                    p \in [1 .. Len(response) -> 1 .. Len(response)]
  <2>6. \A n \in 1 .. m : /\ n \in 1 .. Len(response) /\ p[n] \in 1 .. Len(response)
                          /\ reply'[n] = response[p[n]]
    <3>1. \A n \in 1 .. m : n \in 1 .. Len(response)
      BY <2>4, SizesAssumption DEF AtMost
    <3> QED BY <2>2, <3>1
  <2>7. \A a, b \in 1 .. Len(response) : a < b => scores[p[a]] >= scores[p[b]]
    BY <2>2 DEF Sorted
  <2>8. ASSUME Len(msg) = 1, NEW a \in 1 .. m, NEW b \in 1 .. Len(response), a < b
        PROVE  ~Better(response[p[b]], reply'[a])
    <3>1. p[a] \in 1 .. Len(response) /\ p[b] \in 1 .. Len(response)
          /\ scores[p[a]] >= scores[p[b]] /\ reply'[a] = response[p[a]]
      BY <2>2, <2>6, <2>7, <2>8
    <3> QED BY <2>1, <2>8, <3>1, BetterScore
  <2>9. ASSUME Len(msg) = 1, NEW a \in 1 .. m, NEW b \in 1 .. m, a < b
        PROVE  ~Better(reply'[b], reply'[a])
    BY <2>6, <2>8, <2>9
  <2>10. ASSUME Len(msg) = 1, NEW d \in Elements(response) \ listed, NEW e \in listed
         PROVE  ~Better(d, e)
    <3>1. PICK i \in 1 .. Len(response) : d = response[i]
      BY <2>4 DEF Elements
    <3>2. PICK b \in 1 .. Len(response) : p[b] = i
      <4>1. IsInjective(p)
        BY <2>2 DEF IsInjective
      <4> DEFINE n == Len(response)
      <4>2. n \in Nat /\ p \in [1 .. n -> 1 .. n]
        BY <2>4
      <4> HIDE DEF n
      <4>3. \A c \in 1 .. n : \E a \in 1 .. n : p[a] = c
        BY ONLY <4>1, <4>2, Permutation
      <4> QED BY <4>3 DEF n
    <3>3. PICK a \in 1 .. m : e = reply'[a]
      BY <2>5 DEF Elements
    <3>4. b \notin 1 .. m
      BY <2>5, <2>6, <3>1, <3>2 DEF Elements
    <3>5. a < b
      <4>1. m \in Int
        BY <2>4, SizesAssumption DEF AtMost
      <4> HIDE DEF m
      <4> QED BY <2>4, <3>4, <4>1
    <3> QED BY <2>8, <2>10, <3>1, <3>2, <3>3, <3>5
  <2>11. \A d, e : Better(d, e)' <=> Better(d, e)
    BY <2>1 DEF Better, Idf
  <2> HIDE DEF m
  <2> QED BY <2>1, <2>5, <2>9, <2>10, <2>11 DEF BestFirst, Elements, m
<1>2. CASE ~Reply
  <2>1. UNCHANGED <<docs, msg, response, reply>> /\ pc = "done"
    <3>1. ~EvaluateQuery /\ ~ScoreDocument
      BY DEF EvaluateQuery, ScoreDocument
    <3> QED BY <1>2, <3>1, AnswerKept
  <2>2. \A d, e : Better(d, e)' <=> Better(d, e)
    BY <2>1 DEF Better, Idf
  <2> QED BY <2>1, <2>2 DEF BestFirst
<1> QED BY <1>1, <1>2

\* The invariant of the answer.
LEMMA AnswerInvariant == Spec => []AInv
<1>1. Init => AInv
  <2> SUFFICES ASSUME Init PROVE AInv
    OBVIOUS
  <2>1. IInv
    BY Initially
  <2>2. Given /\ Faithful /\ Judged /\ Scored /\ BestFirst
    BY DEF Init, Given, Faithful, Judged, Scored, BestFirst
  <2> QED BY <2>1, <2>2 DEF AInv
<1>2. AInv /\ [Next]_vars => AInv'
  BY Step, GivenStep, FaithfulStep, JudgedStep, ScoredStep, BestStep DEF AInv
<1> QED BY <1>1, <1>2, PTL DEF Spec

\* A search is answered with the documents that satisfy the query or not at all,
\* whatever the storage service has lost; and no well-formed query ends the IEE but
\* where a database, or the text of its error, took the place of an entry that was asked
\* for: never over a map (the two exits of search and get_docs_from_server).
THEOREM AnswersAreExact == Spec => []AnswerExact
<1>1. AInv => AnswerExact
  BY DEF AInv, AnswerExact, Judged, Mismatch, Lists, Satisfying
<1> QED BY <1>1, AnswerInvariant, PTL

\* The reply holds as many documents of the answer as the threshold allows, none
\* twice, and for a query of one word the best of them, best first, for any numbers
\* of documents and frequencies (calc_tfidf and qsort).
THEOREM RepliesAreBest == Spec => []BestFirst
<1>1. AInv => BestFirst
  BY DEF AInv
<1> QED BY <1>1, AnswerInvariant, PTL
=============================================================================
