------------------------------- MODULE Lookup -------------------------------
(***************************************************************************)
(* One search, from the batches in which its postings were added to the    *)
(* ranked reply (search, get_docs_from_server, calc_idf and calc_tfidf of   *)
(* Search/src/rbisen/SseIee.cpp), over each of the three kinds of storage   *)
(* that StorageService/SseServer.cpp can be built with: a map in memory,    *)
(* Cassandra (cassie.cpp) and Redis.                                       *)
(*                                                                         *)
(* A label is a pair of a word and a counter; an entry is what decrypts to  *)
(* the label it was sealed for, a document and a frequency.                *)
(***************************************************************************)
EXTENDS QueryEvaluator, BooleanQuery, VecToken, Functions

CONSTANTS
  Words,        \* words of the index
  Postings,     \* bound: for each word, its postings in the order of their counters
  Queries,      \* bound: queries in reverse polish notation
  Backends,     \* bound: subset of {"map", "cassandra", "redis"}
  NDocs,        \* documents of the client
  MaxQueryTokens,   \* MAX_QUERY_TOKENS
  BatchAdd,     \* MAX_BATCH_UPDATE
  BatchSearch,  \* MAX_BATCH_SEARCH
  Threshold,    \* threshold: 10
  Crc32(_)      \* tcrc32: some function of the bytes of a label

ASSUME QueriesAssumption ==
  /\ Words \cap Operators = {}
  /\ Queries \subseteq Seq(Words \cup Operators)
ASSUME PostingsAssumption ==
  Postings \subseteq [Words -> Seq([doc : 0 .. NDocs - 1, freq : Nat])]
\* add_new_document counts a word once in a document.
ASSUME DocumentsAssumption ==
  \A p \in Postings : \A w \in Words : \A a, b \in DOMAIN p[w] :
    p[w][a].doc = p[w][b].doc => a = b
ASSUME SizesAssumption ==
  /\ NDocs \in Nat /\ Threshold \in Nat
  /\ MaxQueryTokens \in Nat \ {0}
  /\ BatchAdd \in Nat \ {0} /\ BatchSearch \in Nat \ {0}

VARIABLES
  backend,      \* STORAGE
  postings,     \* what the client added
  msg,          \* the tokens of the request
  held,         \* labels the storage holds
  added,        \* postings sent to the storage so far
  pc,           \* "down": the storage service ended before the request
  query,        \* the vec_token of search()
  docs,         \* docs and doc_frequencies of each token
  token, nth,   \* i and j of the loops over tokens and their labels
  labels,       \* labels: <<token, counter>>
  labelPos,     \* label_pos
  answers,      \* buffer of the storage service
  response,     \* response_docs
  scores,       \* the scores of the documents of response, as far as computed
  reply         \* results_buffer after qsort, up to the threshold

inputVars == <<backend, postings, msg>>
storeVars == <<held, added>>
labelVars == <<token, nth, labels>>
fetchVars == <<labelPos, answers>>
rankVars == <<response, scores, reply>>
vars == <<inputVars, storeVars, pc, query, docs, labelVars, fetchVars, rankVars>>

Counter(w) == Len(postings[w])

\* hmac_sha256 with a key: a collision is left out.
Hmac(word, counter) == <<word, counter>>

\* What encrypt() makes of a label and a posting, and decrypt() returns.
Sealed(label, posting) == [label |-> label, posting |-> posting]

Entry(l) == Sealed(l, postings[l[1]][l[2] + 1])
Unset == [doc |-> -1, freq |-> -1]      \* uninitialised memory
Garbage == [label |-> <<>>, posting |-> Unset]
Tokens == VtTokens(query)

\* The labels in the order in which the client sent the postings.
Labels ==
  LET words == {w \in Words : Counter(w) > 0} IN
  UNION {{w} \X (0 .. Counter(w) - 1) : w \in words}

Init ==
  /\ backend \in Backends
  /\ postings \in Postings
  /\ msg \in Queries
  /\ held = {} /\ added = {}
  /\ pc = "connect"
  /\ query = VtInit(MaxQueryTokens, "0")
  /\ docs = <<>>
  /\ token = 1 /\ nth = 0 /\ labels = <<>>
  /\ labelPos = 0 /\ answers = <<>>
  /\ response = <<>> /\ scores = <<>> /\ reply = <<>>
-----------------------------------------------------------------------------
(* The storage service: main(), OP_UEE_INIT and OP_UEE_ADD.                  *)

\* Cassandra has to be there; that Redis is not is noticed when it is used.
ConnectBackend ==
  /\ pc = "connect"
  /\ \/ pc' = "init"
     \/ backend = "cassandra" /\ pc' = "down"
  /\ UNCHANGED <<inputVars, storeVars, query, docs, labelVars, fetchVars, rankVars>>

\* The index is empty before: dropping its entries changes nothing.  A table that
\* Cassandra did not create makes it lose every batch.
InitIndex ==
  /\ pc = "init"
  /\ \/ pc' = "add"
     \/ backend = "redis" /\ pc' = "down"
  /\ UNCHANGED <<inputVars, storeVars, query, docs, labelVars, fetchVars, rankVars>>

\* What is lost if prepare_insert_into_batch() fails: nothing is sent.
LostUnprepared(batch) == {batch}

\* Of a logged batch all or nothing.
LostInBatch(batch) == {{}, batch}

\* What of a batch may be lost without notice: nothing of it in a map; in Redis each
\* SET by itself.
Losses(batch) ==
  CASE backend = "map" -> {{}}
    [] backend = "cassandra" -> LostUnprepared(batch) \cup LostInBatch(batch)
    [] backend = "redis" -> SUBSET batch

AddBatch ==
  /\ pc = "add"
  /\ added # Labels
  /\ \E batch \in SUBSET (Labels \ added) :
       /\ \/ Cardinality(batch) = BatchAdd
          \/ batch = Labels \ added /\ Cardinality(batch) < BatchAdd
       /\ added' = added \cup batch
       /\ \E lost \in Losses(batch) : held' = held \cup (batch \ lost)
  /\ UNCHANGED <<inputVars, pc, query, docs, labelVars, fetchVars, rankVars>>

\* redisGetReply() fails and leaves the reply it is to free unset.
AddToRedisEnds ==
  /\ pc = "add"
  /\ added # Labels
  /\ backend = "redis"
  /\ pc' = "down"
  /\ UNCHANGED <<inputVars, storeVars, query, docs, labelVars, fetchVars, rankVars>>
-----------------------------------------------------------------------------
(* The IEE: the request.                                                   *)

StartSearch ==
  /\ pc = "add"
  /\ added = Labels
  /\ pc' = "parse"
  /\ UNCHANGED <<inputVars, storeVars, query, docs, labelVars, fetchVars, rankVars>>

\* A word gets vectors for as many documents as the client has counted.
ParseToken ==
  /\ pc = "parse"
  /\ query.counter < Len(msg)
  /\ LET t == msg[query.counter + 1] IN
       /\ query' = VtPushBack(query, t, "0")
       /\ docs' = Append(docs, IF t \in Words THEN [n \in 1 .. Counter(t) |-> Unset]
                                              ELSE <<>>)
  /\ UNCHANGED <<inputVars, storeVars, pc, labelVars, fetchVars, rankVars>>

ParseEnd ==
  /\ pc = "parse"
  /\ query.counter = Len(msg)
  /\ pc' = "shuffle"
  /\ UNCHANGED <<inputVars, storeVars, query, docs, labelVars, fetchVars, rankVars>>

\* Mutant of PlacedAt: the label that was at r is lost.
PlacedAtOver(r, l) ==
  IF r = Len(labels) THEN Append(labels, l)
                     ELSE Append([labels EXCEPT ![r + 1] = l], l)

\* The label that was at r makes way for l and goes to the end.
PlacedAt(r, l) ==
  IF r = Len(labels) THEN Append(labels, l)
                     ELSE Append([labels EXCEPT ![r + 1] = l], labels[r + 1])

\* One round of the loop over the labels of a token; r is 0 each time.
PlaceLabel ==
  /\ pc = "shuffle"
  /\ token <= Len(Tokens)
  /\ Tokens[token] \in Words
  /\ nth < Counter(Tokens[token])
  /\ labels' = PlacedAt(0, <<token, nth>>)
  /\ nth' = nth + 1
  /\ UNCHANGED <<inputVars, storeVars, pc, query, docs, token, fetchVars, rankVars>>

NextToken ==
  /\ pc = "shuffle"
  /\ token <= Len(Tokens)
  /\ Tokens[token] \in Words => nth = Counter(Tokens[token])
  /\ token' = token + 1
  /\ nth' = 0
  /\ UNCHANGED <<inputVars, storeVars, pc, query, docs, labels, fetchVars, rankVars>>

ShuffleEnd ==
  /\ pc = "shuffle"
  /\ token = Len(Tokens) + 1
  /\ pc' = "request"
  /\ UNCHANGED <<inputVars, storeVars, query, docs, labelVars, fetchVars, rankVars>>
-----------------------------------------------------------------------------
(* The IEE asks in batches, the storage service answers: OP_UEE_SEARCH.     *)

Batch ==
  SubSeq(labels, labelPos + 1,
         IF Len(labels) - labelPos < BatchSearch THEN Len(labels)
                                                 ELSE labelPos + BatchSearch)
Label(request) == Hmac(Tokens[request[1]], request[2])

SendBatch ==
  /\ pc = "request"
  /\ labelPos < Len(labels)
  /\ answers' = <<>>
  /\ pc' = "select"
  /\ UNCHANGED <<inputVars, storeVars, query, docs, labelVars, labelPos, rankVars>>

\* The CRC-32 of a label, mixed; other labels may have the same.
VoidHash(l) == Crc32(l)

\* memcmp() of two labels.
VoidEqual(k, l) == k = l

\* The key of the map that l is looked up under.
Find(l) == {k \in held : VoidHash(k) = VoidHash(l) /\ VoidEqual(k, l)}

\* A label that is not in the map ends the storage service.
SelectFromMap(l) ==
  \/ \E k \in Find(l) : answers' = Append(answers, Entry(k)) /\ UNCHANGED pc
  \/ Find(l) = {} /\ pc' = "storeExit" /\ UNCHANGED answers

\* A statement that cannot be prepared: the one of the label before is freed again,
\* which may end the process.
SelectUnprepared ==
  /\ answers # <<>>
  /\ pc' = "storeExit"
  /\ UNCHANGED answers

\* res is the service's own only at first: after a success it is memory of a result
\* that has been freed, after an error or if there is no row what it was before.
\* Reading what was freed may end the process.
SelectFromCassandra(l) ==
  \/ /\ \E res \in {Entry(x) : x \in held} \cup {Garbage} :
          answers' = Append(answers, res)
     /\ UNCHANGED pc
  \/ SelectUnprepared
  \/ held # {} /\ pc' = "storeExit" /\ UNCHANGED answers

\* Whatever the reply is, its string is copied: the text of an error (Redis is still
\* loading, wants a password, ...) like an entry.  No reply, or one without a string,
\* is read all the same, which ends the process.
SelectFromRedis(l) ==
  \/ l \in held /\ answers' = Append(answers, Entry(l)) /\ UNCHANGED pc
  \/ answers' = Append(answers, Garbage) /\ UNCHANGED pc
  \/ pc' = "storeExit" /\ UNCHANGED answers

Select ==
  /\ pc = "select"
  /\ Len(answers) < Len(Batch)
  /\ LET l == Label(Batch[Len(answers) + 1]) IN
       \/ backend = "map" /\ SelectFromMap(l)
       \/ backend = "cassandra" /\ SelectFromCassandra(l)
       \/ backend = "redis" /\ SelectFromRedis(l)
  /\ UNCHANGED <<inputVars, storeVars, query, docs, labelVars, labelPos, rankVars>>

\* free(res), where res may be memory of a result: the process may end.
SelectEnd ==
  /\ pc = "select"
  /\ Len(answers) = Len(Batch)
  /\ \/ pc' = "verify"
     \/ backend = "cassandra" /\ pc' = "storeExit"
  /\ UNCHANGED <<inputVars, storeVars, query, docs, labelVars, fetchVars, rankVars>>

\* Mutant of Genuine: nothing is verified.
GenuineAlways(n) == TRUE

\* The label in an entry is the one asked for.
Genuine(n) == answers[n].label = Label(Batch[n])

\* Into the vectors of the token that the label belongs to.
Receive ==
  /\ pc = "verify"
  /\ \A n \in DOMAIN Batch : Genuine(n)
  /\ docs' = [t \in DOMAIN docs |->
                [c \in DOMAIN docs[t] |->
                   IF \E n \in DOMAIN Batch : Batch[n] = <<t, c - 1>>
                   THEN answers[CHOOSE n \in DOMAIN Batch : Batch[n] = <<t, c - 1>>].posting
                   ELSE docs[t][c]]]
  /\ labelPos' = labelPos + Len(Batch)
  /\ pc' = "request"
  /\ UNCHANGED <<inputVars, storeVars, query, labelVars, answers, rankVars>>

\* "Label verification doesn't match! Exit"
Refuse ==
  /\ pc = "verify"
  /\ \E n \in DOMAIN Batch : ~Genuine(n)
  /\ pc' = "exit"
  /\ UNCHANGED <<inputVars, storeVars, query, docs, labelVars, fetchVars, rankVars>>
-----------------------------------------------------------------------------
(* The IEE: the answer.                                                    *)

Documents(t) == [c \in DOMAIN docs[t] |-> docs[t][c].doc]

EvaluateQuery ==
  /\ pc = "request"
  /\ labelPos = Len(labels)
  /\ LET result == Evaluate(Tokens, [t \in DOMAIN docs |-> Documents(t)], NDocs) IN
       /\ response' = result.docs
       /\ pc' = IF result.ok THEN "score" ELSE "exit"
  /\ UNCHANGED <<inputVars, storeVars, query, docs, labelVars, fetchVars, scores, reply>>

\* log10(total_docs / nr_docs) falls with nr_docs and is 0 if all documents have
\* the word; this is such a function in whole numbers.
Idf(t) == IF Len(docs[t]) = 0 THEN 0 ELSE NDocs - Len(docs[t])

\* What vi_index_of may return for document d.  evaluate() has freed the vector
\* of each word that an operator was applied to.
Positions(t, d) ==
  LET n == Len(docs[t]) IN
  IF Len(Tokens) > 1 THEN 0 .. n
  ELSE {IF \E c \in 1 .. n : docs[t][c].doc = d
        THEN CHOOSE c \in 1 .. n : /\ docs[t][c].doc = d
                                   /\ \A b \in 1 .. c - 1 : docs[t][b].doc # d
        ELSE 0}

\* What a token adds to the score of a document whose position was found to be p;
\* position 0 stands for -1, not found.
Share(t, p) == IF p = 0 THEN 0 ELSE docs[t][p].freq * Idf(t)

Sum(f, S) == FoldFunctionOnSet(LAMBDA a, b : a + b, 0, f, S)
WordTokens == {t \in DOMAIN docs : Tokens[t] \in Words}

\* One round of the loop of calc_tfidf.
ScoreDocument ==
  /\ pc = "score"
  /\ Len(scores) < Len(response)
  /\ LET d == response[Len(scores) + 1] IN
       \E p \in [WordTokens -> UNION {Positions(t, d) : t \in WordTokens}] :
         /\ \A t \in WordTokens : p[t] \in Positions(t, d)
         /\ scores' = Append(scores, Sum([t \in WordTokens |-> Share(t, p[t])],
                                         WordTokens))
  /\ UNCHANGED <<inputVars, storeVars, pc, query, docs, labelVars, fetchVars,
                 response, reply>>

AtMost(n, m) == IF n > m THEN m ELSE n

\* Mutant of Sorted: the comparison is turned round.
SortedUp(p) == \A a, b \in DOMAIN p : a < b => scores[p[a]] <= scores[p[b]]

\* compare_results_rbisen: highest first; equal ones in any order.
Sorted(p) == \A a, b \in DOMAIN p : a < b => scores[p[a]] >= scores[p[b]]

Reply ==
  /\ pc = "score"
  /\ Len(scores) = Len(response)
  /\ \E p \in [1 .. Len(response) -> 1 .. Len(response)] :
       /\ \A a, b \in DOMAIN p : p[a] = p[b] => a = b
       /\ Sorted(p)
       /\ reply' = [n \in 1 .. AtMost(Len(response), Threshold) |-> response[p[n]]]
  /\ pc' = "done"
  /\ UNCHANGED <<inputVars, storeVars, query, docs, labelVars, fetchVars,
                 response, scores>>
-----------------------------------------------------------------------------
Next ==
  \/ ConnectBackend \/ InitIndex \/ AddBatch \/ AddToRedisEnds \/ StartSearch
  \/ ParseToken \/ ParseEnd
  \/ PlaceLabel \/ NextToken \/ ShuffleEnd
  \/ SendBatch \/ Select \/ SelectEnd \/ Receive \/ Refuse
  \/ EvaluateQuery \/ ScoreDocument \/ Reply

Spec == Init /\ [][Next]_vars
-----------------------------------------------------------------------------
\* However the labels are moved about before they are asked for, each posting of
\* each word of the query is asked for, once.
PlacedOf(t) ==
  0 .. (IF t < token THEN Counter(Tokens[t]) ELSE IF t = token THEN nth ELSE 0) - 1
Placed ==
  UNION {{t} \X PlacedOf(t) : t \in {u \in 1 .. Len(Tokens) : Tokens[u] \in Words}}
EachLabelOnce ==
  /\ \A a, b \in DOMAIN labels : labels[a] = labels[b] => a = b
  /\ {labels[a] : a \in DOMAIN labels} = Placed

\* What the boolean formula is evaluated on is what the client added: no posting is
\* missing, none is at the place of another, whatever the storage service lost,
\* whatever it answers, and however the labels are cut into batches.
VectorsExact ==
  pc \in {"score", "done"} =>
    /\ Tokens = msg
    /\ \A t \in WordTokens : docs[t] = postings[msg[t]]

WordsOf(d) == {w \in Words : \E c \in DOMAIN postings[w] : postings[w][c].doc = d}

\* A search that gets as far as a reply has found the documents that satisfy the
\* query, whatever the storage service lost and answered.  One that ends the IEE was
\* for a query that is not well-formed, or the storage, which was no map, has answered
\* with something else than the entry asked for.
AnswerExact ==
  /\ pc \in {"score", "done"} =>
       /\ WellFormed(msg)
       /\ Elements(response) = {d \in 0 .. NDocs - 1 : Holds(msg, WordsOf(d))}
  /\ pc = "exit" /\ WellFormed(msg) =>
       backend # "map" /\ \E n \in DOMAIN Batch : ~Genuine(n)

\* d has a higher score than e, for a query of one word.
Better(d, e) ==
  \E a, b \in DOMAIN docs[1] :
    /\ docs[1][a].doc = d /\ docs[1][b].doc = e
    /\ docs[1][a].freq * Idf(1) > docs[1][b].freq * Idf(1)

\* The reply is the threshold best documents, best first, for a query of one word;
\* for any other, as many documents of the answer, none twice.
BestFirst ==
  pc = "done" =>
    LET listed == {reply[n] : n \in DOMAIN reply} IN
    /\ Len(reply) = AtMost(Len(response), Threshold)
    /\ Cardinality(listed) = Len(reply)
    /\ listed \subseteq Elements(response)
    /\ Len(msg) = 1 =>
         /\ \A a, b \in DOMAIN reply : a < b => ~Better(reply[b], reply[a])
         /\ \A d \in Elements(response) \ listed, e \in listed : ~Better(d, e)

\* "for each response doc, iterate over all terms and find who uses them": the
\* score of a document is the sum over the words of the query that it has.
Score(d) ==
  LET has(t) == {c \in DOMAIN docs[t] : docs[t][c].doc = d}
      share(t) == IF has(t) = {} THEN 0
                  ELSE docs[t][CHOOSE c \in has(t) : TRUE].freq * Idf(t)
  IN Sum([t \in WordTokens |-> share(t)], WordTokens)
ScoresComplete == \A n \in DOMAIN scores : scores[n] = Score(response[n])
=============================================================================
