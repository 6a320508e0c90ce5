---------------------------- MODULE BisenSafety -----------------------------
(***************************************************************************)
(* The proofs of the safety properties of Bisen, and that it implements    *)
(* SearchStore: whatever a client is answered is what the store it stands   *)
(* for would answer.                                                       *)
(*                                                                         *)
(* Types first: what every action keeps, whatever the streams hold.        *)
(* TypeOK is not inductive on its own; TypeInv adds who waits for whom     *)
(* (Phases), that no word is counted in more documents than there are      *)
(* (Counted) and that the labels outstanding are the query's (Wanted).     *)
(* Then IInv of BisenInvariant, which is inductive when every client       *)
(* starts with drained streams.                                            *)
(*                                                                         *)
(* With it evaluate() is given the postings of the query's words, and       *)
(* EvaluatorProofs says what it makes of them.  StoreInv carries the answer *)
(* from the IEE to the client; then every step of Bisen is a step of        *)
(* SearchStore or leaves its variables alone.                              *)
(***************************************************************************)
EXTENDS BisenInvariant, EvaluatorProofs, FiniteSetTheorems, SequenceTheorems, TLAPS

\* An open socket is one of the connections.
LEMMA SockFacts ==
    ASSUME TypeOK, sock # 0 PROVE sock \in Conns
  BY BisenAssumption DEF TypeOK, Conns, BisenAssumption

\* The messages without content are messages to the storage service.
LEMMA SmallMsgs ==
    /\ [op |-> "init"] \in StoreMsg
    /\ [op |-> "record"] \in StoreMsg
    /\ [op |-> "dump"] \in StoreMsg
  BY DEF StoreMsg

\* A send to a connection keeps the type of the streams.
LEMMA SendType ==
    ASSUME TypeOK, NEW c \in Conns, NEW m \in StoreMsg,
           toStore' = [toStore EXCEPT ![c] = Append(@, m)]
    PROVE  toStore' \in [Conns -> Seq(StoreMsg)]
  BY DEF TypeOK

\* process_client reads a message, and the rest of the stream keeps its type.
LEMMA ReadType ==
    ASSUME TypeOK, NEW c \in Conns, NEW op, Reads(c, op)
    PROVE  /\ toStore' \in [Conns -> Seq(StoreMsg)]
           /\ Head(toStore[c]) \in StoreMsg
  <1>1. toStore[c] \in Seq(StoreMsg) /\ toStore[c] # <<>>
    BY DEF TypeOK, Reads
  <1>2. Tail(toStore[c]) \in Seq(StoreMsg) /\ Head(toStore[c]) \in StoreMsg
    BY <1>1
  <1> QED BY <1>2 DEF TypeOK, Reads

\* Everything the client sends is a request.
LEMMA RequestTypes ==
    /\ NoReq \in Requests
    /\ SetupReq \in Requests
    /\ BenchReq \in Requests
    /\ \A ms \in Seq(AddMsg) : [op |-> "bulk", msgs |-> ms] \in Requests
    /\ \A q \in Queries, f \in [Words -> 0..MaxDocs], n \in 0..MaxDocs :
          [op |-> "search", rpn |-> q, counter |-> f, nDocs |-> n] \in Requests
  BY DEF Requests, NoReq, SetupReq, BenchReq

\* What a request holds follows from its opcode.
LEMMA RequestKinds ==
    ASSUME NEW r \in Requests
    PROVE  /\ r.op = "bulk" => r.msgs \in Seq(AddMsg)
           /\ r.op = "search" => /\ r.rpn \in Queries
                                 /\ r.counter \in [Words -> 0..MaxDocs]
                                 /\ r.nDocs \in 0..MaxDocs
           /\ r.op = "none" => r = NoReq
           /\ r.op \in {"none", "setup", "bench", "bulk", "search"}
  BY DEF Requests, NoReq

\* The label of a slot of the query under way is a label.
LEMMA LabelTypes ==
    ASSUME req \in Requests, req.op = "search", NEW s \in SlotsOf(req)
    PROVE  s \in Slots /\ LabelOf(req, s) \in Labels
  <1>1. /\ req.rpn \in Queries
        /\ req.rpn \in Seq(Words \cup Operators)
    BY RequestKinds, BisenAssumption DEF BisenAssumption
  <1>2. s \in Slots /\ s[1] \in DOMAIN req.rpn /\ s[2] \in DocIds
    BY DEF SlotsOf, Slots
  <1>3. req.rpn[s[1]] \in Words
    BY <1>1, <1>2 DEF SlotsOf, IsWord
  <1> QED BY <1>2, <1>3 DEF LabelOf, Labels

\* A verified response has an entry for every slot of the batch.
LEMMA EntryFor ==
    ASSUME NEW r \in Entries, Verified(r), NEW s \in batch
    PROVE  LET e == CHOOSE x \in r : x[1] = s
           IN  /\ e \in r
               /\ e[1] = s
               /\ e[2] = LabelOf(req, s)
               /\ e[3] \in DocIds \cup {NoDoc}
  <1>1. <<s, LabelOf(req, s)>> \in {<<x[1], x[2]>> : x \in r}
    BY DEF Verified
  <1>2. PICK x \in r : <<x[1], x[2]>> = <<s, LabelOf(req, s)>>
    BY <1>1
  <1> DEFINE e == CHOOSE y \in r : y[1] = s
  <1>3. e \in r /\ e[1] = s
    BY <1>2
  <1>4. <<e[1], e[2]>> \in {<<t, LabelOf(req, t)>> : t \in batch}
    BY <1>3 DEF Verified
  <1>5. e[2] = LabelOf(req, s)
    BY <1>3, <1>4
  <1>6. e[3] \in DocIds \cup {NoDoc}
    BY <1>3 DEF Entries
  <1> QED BY <1>3, <1>5, <1>6

\* The types hold initially.
LEMMA TypeInvInit == ASSUME Init PROVE TypeInv
  <1>1. /\ W \in [Words -> 0..MaxDocs] /\ nDocs \in 0..MaxDocs
        /\ sock \in 0..MaxConns
    BY BisenAssumption DEF BisenAssumption, Init
  <1>2. docs \in [0..nDocs - 1 -> SUBSET Words]
    BY DEF Init, NoDocs
  <1>3. req \in Requests
    BY RequestTypes DEF Init
  <1>4. answer.op = "none" /\ rep.op = "none"
    BY DEF Init, NoReply
  <1>5. got \in [Slots -> DocIds \cup {NoDoc}]
    BY DEF Init, NoSlots
  <1>6. index \in [Labels -> DocIds \cup {NoDoc}]
    BY DEF Init
  <1>7. toStore \in [Conns -> Seq(StoreMsg)]
    BY DEF Init
  <1>8. toIee \in [Conns -> Seq(Entries)]
    BY DEF Init
  <1>9. TypeOK
    <2>1. bulk \in Seq(AddMsg) /\ work \in Seq(AddMsg)
      BY DEF Init
    <2>2. /\ clPc \in {"new", "ready", "bulk", "await", "dead"}
          /\ asked \in Queries \cup {<<>>}
          /\ ieePc \in {"idle", "update", "search", "wait"}
          /\ ieeExit = "no" /\ storeExit = "no"
          /\ want = {} /\ batch = {} /\ closed = {} /\ hasRecord \in BOOLEAN
      BY DEF Init
    <2> QED BY <1>1, <1>2, <1>3, <1>4, <1>5, <1>6, <1>7, <1>8, <2>1, <2>2
            DEF TypeOK
  <1>10. Phases /\ Counted /\ Wanted
    BY DEF Init, Phases, Counted, Wanted, NoReq, NoReply
  <1> QED BY <1>9, <1>10 DEF TypeInv
-----------------------------------------------------------------------------
\* Every action of the client keeps the types: in particular
\* add_new_document sends counters that are below the number of documents.
LEMMA ClientTypes ==
    ASSUME TypeInv, ClientNext PROVE TypeInv'
  <1> USE DEF TypeInv
  <1>1. CASE ClientSetup
    BY <1>1, RequestTypes
       DEF ClientSetup, Request, TypeOK, Phases, Counted, Wanted, SetupReq,
           NoReq, NoReply, ieeVars, storeVars, SlotsOf
  <1>2. ASSUME NEW words \in SUBSET Words, AddNewDocument(words)
        PROVE  TypeInv'
    <2> USE <1>2
    <2>1. /\ nDocs \in 0..MaxDocs - 1 /\ nDocs' = nDocs + 1
          /\ nDocs' \in 0..MaxDocs
      <3>1. nDocs \in 0..MaxDocs
        BY DEF TypeOK
      <3>2. nDocs < MaxDocs /\ nDocs' = nDocs + 1
        BY DEF AddNewDocument
      <3> QED BY <3>1, <3>2, BisenAssumption DEF BisenAssumption
    <2>2. W' \in [Words -> 0..MaxDocs] /\ Counted'
      <3>1. /\ W \in [Words -> 0..MaxDocs]
            /\ \A w \in Words : W[w] <= nDocs
        BY DEF TypeOK, Counted
      <3>2. W' = [w \in Words |-> IF w \in words THEN W[w] + 1 ELSE W[w]]
        BY DEF AddNewDocument
      <3>3. \A w \in Words : W'[w] \in 0..MaxDocs /\ W'[w] <= nDocs'
        BY <2>1, <3>1, <3>2, BisenAssumption DEF BisenAssumption
      <3> QED BY <3>2, <3>3 DEF Counted
    <2>3. \A w \in Words : W[w] \in DocIds
      <3>1. \A w \in Words : W[w] \in 0..MaxDocs /\ W[w] <= nDocs
        BY DEF TypeOK, Counted
      <3> QED BY <2>1, <3>1, BisenAssumption DEF BisenAssumption, DocIds
    <2>4. {<<w, W[w]>> : w \in words} \in SUBSET Labels
      BY <2>3 DEF Labels
    <2>5. bulk' \in Seq(AddMsg)
      <3>1. [doc |-> nDocs, labels |-> {<<w, W[w]>> : w \in words}] \in AddMsg
        BY <2>1, <2>4 DEF AddMsg, DocIds
      <3> QED BY <3>1 DEF AddNewDocument, TypeOK
    <2>6. docs' \in [0..nDocs' - 1 -> SUBSET Words]
      <3>1. 0..nDocs' - 1 = 0..nDocs
        BY <2>1
      <3>2. \A d \in 0..nDocs : d # nDocs => d \in 0..nDocs - 1
        BY <2>1
      <3> QED BY <3>1, <3>2 DEF AddNewDocument, TypeOK
    <2>7. TypeOK'
      BY <2>1, <2>2, <2>5, <2>6
         DEF AddNewDocument, TypeOK, ieeVars, storeVars
    <2>8. Phases' /\ Wanted'
      BY DEF AddNewDocument, TypeOK, Phases, Wanted, ieeVars, NoReq
    <2> QED BY <2>2, <2>7, <2>8
  <1>3. CASE ClientSendBulk
    <2>1. TypeOK'
      BY <1>3, RequestTypes
         DEF ClientSendBulk, Request, TypeOK, ieeVars, storeVars
    <2>2. Phases' /\ Counted' /\ Wanted'
      BY <1>3
         DEF ClientSendBulk, Request, TypeOK, Phases, Counted, Wanted, NoReq,
             NoReply, ieeVars
    <2> QED BY <2>1, <2>2
  <1>4. ASSUME NEW q \in Queries, ClientSearch(q) PROVE TypeInv'
    <2>1. TypeOK'
      BY <1>4, RequestTypes
         DEF ClientSearch, Request, TypeOK, ieeVars, storeVars, NoReply
    <2>2. Phases' /\ Counted' /\ Wanted'
      BY <1>4
         DEF ClientSearch, Request, TypeOK, Phases, Counted, Wanted, NoReq,
             NoReply, ieeVars
    <2> QED BY <2>1, <2>2
  <1>5. CASE ClientDumpBench
    <2>1. TypeOK'
      BY <1>5, RequestTypes
         DEF ClientDumpBench, Request, TypeOK, ieeVars, storeVars
    <2>2. Phases' /\ Counted' /\ Wanted'
      BY <1>5
         DEF ClientDumpBench, Request, TypeOK, Phases, Counted, Wanted, NoReq,
             NoReply, BenchReq, ieeVars
    <2> QED BY <2>1, <2>2
  <1>6. CASE ClientReceive
    <2>1. TypeOK'
      BY <1>6 DEF ClientReceive, TypeOK, ieeVars, storeVars, NoReply
    <2>2. Phases' /\ Counted' /\ Wanted'
      BY <1>6
         DEF ClientReceive, TypeOK, Phases, Counted, Wanted, NoReq, NoReply,
             ieeVars, SlotsOf
    <2> QED BY <2>1, <2>2
  <1>7. CASE ClientEnd
    <2>1. TypeOK'
      BY <1>7 DEF ClientEnd, TypeOK, ieeVars, storeVars, NoReply
    <2>2. Phases' /\ Counted' /\ Wanted'
      BY <1>7
         DEF ClientEnd, TypeOK, Phases, Counted, Wanted, NoReq, NoReply,
             ieeVars, SlotsOf
    <2> QED BY <2>1, <2>2
  <1>8. CASE ClientRestart
    <2>1. /\ W' \in [Words -> 0..MaxDocs] /\ nDocs' \in 0..MaxDocs
          /\ docs' \in [0..nDocs' - 1 -> SUBSET Words]
      BY <1>8, BisenAssumption
         DEF BisenAssumption, ClientRestart, NoDocs
    <2>2. TypeOK'
      BY <1>8, <2>1 DEF ClientRestart, TypeOK, ieeVars, storeVars, NoReply
    <2>3. Phases' /\ Counted' /\ Wanted'
      BY <1>8
         DEF ClientRestart, TypeOK, Phases, Counted, Wanted, NoReq, NoReply,
             ieeVars, SlotsOf
    <2> QED BY <2>2, <2>3
  <1> QED BY <1>1, <1>2, <1>3, <1>4, <1>5, <1>6, <1>7, <1>8 DEF ClientNext
-----------------------------------------------------------------------------
\* Every action of the IEE keeps the types: in particular the labels that
\* get_docs_from_server asks for are labels, and so are the documents it stores.
LEMMA IeeTypes ==
    ASSUME TypeInv, IeeNext PROVE TypeInv'
  <1> USE DEF TypeInv
  <1>1. CASE IeeTruncated
    <2>1. TypeOK'
      BY <1>1, RequestTypes
         DEF IeeTruncated, TypeOK, clientVars, storeVars
    <2>2. Phases' /\ Counted' /\ Wanted'
      BY <1>1
         DEF IeeTruncated, TypeOK, Phases, Counted, Wanted, NoReq, clientVars
    <2> QED BY <2>1, <2>2
  <1>2. CASE IeeSetup
    <2>1. sock' \in 0..MaxConns /\ sock' \in Conns /\ sock' # 0
      <3>1. sock \in 0..MaxConns /\ sock < MaxConns /\ sock' = sock + 1
        BY <1>2 DEF IeeSetup, TypeOK
      <3> QED BY <3>1, BisenAssumption DEF BisenAssumption, Conns
    <2>2. toStore' \in [Conns -> Seq(StoreMsg)]
      <3>1. toStore' = [toStore EXCEPT ![sock'] = Append(@, [op |-> "init"])]
        BY <1>2 DEF IeeSetup
      <3> QED BY <2>1, <3>1, SmallMsgs, SendType
    <2>3. TypeOK'
      <3>1. /\ req' \in Requests /\ ieePc' = "idle"
            /\ rep' = rep \/ rep' = OkReply
            /\ ieeExit' = ieeExit \/ ieeExit' \in {"no", "peer_lost"}
        BY <1>2, RequestTypes DEF IeeSetup, Reply
      <3>2. /\ rep'.op \in {"none", "ok", "empty", "docs"}
            /\ ieeExit' \in {"no", "peer_lost", "label_mismatch",
                             "malformed_query", "socket"}
        BY <3>1 DEF OkReply, TypeOK
      <3> QED BY <1>2, <2>1, <2>2, <3>1, <3>2
              DEF IeeSetup, TypeOK, clientVars, storeVars
    <2>4. Phases' /\ Counted' /\ Wanted'
      BY <1>2, <2>1
         DEF IeeSetup, Reply, TypeOK, Phases, Counted, Wanted, NoReq, OkReply,
             NoReply, clientVars
    <2> QED BY <2>3, <2>4
  <1>3. CASE IeeBulk
    <2>1. TypeOK'
      BY <1>3, RequestKinds DEF IeeBulk, TypeOK, clientVars, storeVars
    <2>2. Phases' /\ Counted' /\ Wanted'
      BY <1>3
         DEF IeeBulk, TypeOK, Phases, Counted, Wanted, NoReq, clientVars
    <2> QED BY <2>1, <2>2
  <1>4. CASE IeeSendBatch
    <2>1. PICK B \in SUBSET Head(work).labels :
             /\ Send([op |-> "add", doc |-> Head(work).doc, labels |-> B])
             /\ work' = [work EXCEPT ![1] = [doc |-> @.doc,
                                             labels |-> @.labels \ B]]
      BY <1>4 DEF IeeSendBatch
    <2>2. work \in Seq(AddMsg) /\ work # <<>> /\ work[1] \in AddMsg
          /\ Head(work) = work[1]
      BY <1>4 DEF IeeSendBatch, TypeOK
    <2>3. [op |-> "add", doc |-> Head(work).doc, labels |-> B] \in StoreMsg
      BY <2>2 DEF AddMsg, StoreMsg
    <2>4. [doc |-> work[1].doc, labels |-> work[1].labels \ B] \in AddMsg
      BY <2>2 DEF AddMsg
    <2>5. work' \in Seq(AddMsg)
      BY <2>1, <2>2, <2>4
    <2>6. sock # 0
      BY <1>4, <2>2 DEF Phases
    <2>7. toStore' \in [Conns -> Seq(StoreMsg)]
      BY <2>1, <2>3, <2>6, SockFacts, SendType DEF Send
    <2>8. TypeOK'
      BY <1>4, <2>5, <2>7 DEF IeeSendBatch, TypeOK, clientVars, storeVars
    <2>9. Phases' /\ Counted' /\ Wanted'
      BY <1>4 DEF IeeSendBatch, Phases, Counted, Wanted, clientVars, SlotsOf
    <2> QED BY <2>8, <2>9
  <1>5. CASE IeeNextMessage
    <2>1. work' \in Seq(AddMsg)
      BY <1>5 DEF IeeNextMessage, TypeOK
    <2>2. TypeOK'
      BY <1>5, <2>1 DEF IeeNextMessage, TypeOK, clientVars, storeVars
    <2>3. Phases' /\ Counted' /\ Wanted'
      BY <1>5 DEF IeeNextMessage, Phases, Counted, Wanted, clientVars, SlotsOf
    <2> QED BY <2>2, <2>3
  <1>6. CASE IeeBulkDone
    <2>1. TypeOK'
      BY <1>6, RequestTypes
         DEF IeeBulkDone, Reply, OkReply, TypeOK, clientVars, storeVars
    <2>2. Phases' /\ Counted' /\ Wanted'
      BY <1>6
         DEF IeeBulkDone, Reply, TypeOK, Phases, Counted, Wanted, NoReq,
             OkReply, NoReply, clientVars
    <2> QED BY <2>1, <2>2
  <1>7. CASE IeeSearch
    <2>1. sock # 0
      BY <1>7 DEF IeeSearch, Phases
    <2>2. toStore' \in [Conns -> Seq(StoreMsg)]
      BY <1>7, <2>1, SmallMsgs, SockFacts, SendType DEF IeeSearch, Send
    <2>3. SlotsOf(req) \in SUBSET Slots
      BY DEF SlotsOf
    <2>4. got' \in [Slots -> DocIds \cup {NoDoc}]
      BY <1>7 DEF IeeSearch, NoSlots
    <2>5. TypeOK'
      BY <1>7, <2>2, <2>3, <2>4
         DEF IeeSearch, TypeOK, clientVars, storeVars
    <2>6. Phases' /\ Counted'
      BY <1>7 DEF IeeSearch, Phases, Counted, NoReq, clientVars
    <2>7. Wanted'
      BY <1>7 DEF IeeSearch, Wanted, SlotsOf
    <2> QED BY <2>5, <2>6, <2>7
  <1>8. CASE IeeSendLabels
    <2>1. PICK B \in SUBSET want :
             /\ batch' = B
             /\ Send([op |-> "search",
                      labels |-> {<<s, LabelOf(req, s)>> : s \in B}])
      BY <1>8 DEF IeeSendLabels
    <2>2. req.op = "search" /\ sock # 0 /\ want \subseteq SlotsOf(req)
      BY <1>8 DEF IeeSendLabels, Phases, Wanted
    <2>3. \A s \in B : s \in Slots /\ LabelOf(req, s) \in Labels
      BY <2>2, LabelTypes DEF SlotsOf, TypeOK
    <2>4. [op |-> "search", labels |-> {<<s, LabelOf(req, s)>> : s \in B}]
            \in StoreMsg
      <3>1. {<<s, LabelOf(req, s)>> : s \in B} \in SUBSET (Slots \X Labels)
        BY <2>3
      <3> QED BY <3>1 DEF StoreMsg
    <2>5. toStore' \in [Conns -> Seq(StoreMsg)]
      BY <2>1, <2>2, <2>4, SockFacts, SendType DEF Send
    <2>6. TypeOK'
      BY <1>8, <2>1, <2>5 DEF IeeSendLabels, TypeOK, clientVars, storeVars
    <2>7. Phases' /\ Counted'
      BY <1>8 DEF IeeSendLabels, Phases, Counted, clientVars
    <2>8. Wanted'
      BY <1>8, <2>1 DEF IeeSendLabels, Wanted, SlotsOf
    <2> QED BY <2>6, <2>7, <2>8
  <1>9. CASE IeeReceive
    <2>1. req.op = "search" /\ sock \in Conns
      BY <1>9, SockFacts DEF IeeReceive, Phases
    <2>2. toIee' \in [Conns -> Seq(Entries)] /\ Head(toIee[sock]) \in Entries
      <3>1. toIee[sock] \in Seq(Entries) /\ toIee[sock] # <<>>
        BY <1>9, <2>1 DEF IeeReceive, TypeOK
      <3>2. /\ Tail(toIee[sock]) \in Seq(Entries)
            /\ Head(toIee[sock]) \in Entries
        BY <3>1
      <3> QED BY <1>9, <3>2 DEF IeeReceive, TypeOK
    <2>3. CASE ~Verified(Head(toIee[sock]))
      <3>1. TypeOK'
        BY <1>9, <2>2, <2>3
           DEF IeeReceive, Exit, TypeOK, clientVars, storeVars
      <3>2. Phases' /\ Counted' /\ Wanted'
        BY <1>9, <2>3
           DEF IeeReceive, Exit, Phases, Counted, Wanted, clientVars, SlotsOf
      <3> QED BY <3>1, <3>2
    <2>4. CASE Verified(Head(toIee[sock]))
      <3> DEFINE r == Head(toIee[sock])
      <3>1. got' = [s \in Slots |-> IF s \in batch
                                    THEN (CHOOSE e \in r : e[1] = s)[3]
                                    ELSE got[s]]
            /\ want' = want \ batch /\ batch' = {} /\ ieePc' = "search"
            /\ UNCHANGED <<ieeExit, req>>
        BY <1>9, <2>4 DEF IeeReceive
      <3>2. \A s \in batch : (CHOOSE e \in r : e[1] = s)[3]
                                \in DocIds \cup {NoDoc}
        BY <2>2, <2>4, EntryFor
      <3>3. got' \in [Slots -> DocIds \cup {NoDoc}]
        BY <3>1, <3>2 DEF TypeOK
      <3>4. TypeOK'
        BY <1>9, <2>2, <3>1, <3>3
           DEF IeeReceive, TypeOK, clientVars, storeVars
      <3>5. Phases' /\ Counted' /\ Wanted'
        BY <1>9, <2>1, <3>1
           DEF IeeReceive, Phases, Counted, Wanted, clientVars, SlotsOf
      <3> QED BY <3>4, <3>5
    <2> QED BY <2>3, <2>4
  <1>10. CASE IeeEvaluate
    <2>1. CASE /\ Exit("malformed_query")
               /\ UNCHANGED <<req, rep, ieePc, got>>
      <3>1. TypeOK'
        BY <1>10, <2>1
           DEF IeeEvaluate, Exit, TypeOK, clientVars, storeVars
      <3>2. Phases' /\ Counted' /\ Wanted'
        BY <1>10, <2>1
           DEF IeeEvaluate, Phases, Counted, Wanted, clientVars, SlotsOf
      <3> QED BY <3>1, <3>2
    <2>2. ASSUME NEW best,
                 Reply([op |-> "docs", docs |-> best]), got' = NoSlots
          PROVE  TypeInv'
      <3>1. /\ req' = NoReq /\ ieePc' = "idle"
            /\ ieeExit' = ieeExit \/ ieeExit' \in {"no", "peer_lost"}
            /\ \/ clPc = "await" /\ rep' = [op |-> "docs", docs |-> best]
               \/ clPc = "dead" /\ rep' = rep
        BY <2>2 DEF Reply
      <3>2. rep'.op \in {"none", "ok", "empty", "docs"}
        BY <3>1 DEF TypeOK
      <3>3. got' \in [Slots -> DocIds \cup {NoDoc}]
        BY <2>2 DEF NoSlots
      <3>4. TypeOK'
        BY <1>10, <3>2, <3>1, <3>3, RequestTypes
           DEF IeeEvaluate, TypeOK, clientVars, storeVars
      <3>5. Phases' /\ Counted' /\ Wanted'
        BY <1>10, <3>1
           DEF IeeEvaluate, TypeOK, Phases, Counted, Wanted, NoReq, NoReply,
               clientVars
      <3> QED BY <3>4, <3>5
    <2> QED BY <1>10, <2>1, <2>2 DEF IeeEvaluate
  <1>11. CASE IeeDumpBench
    <2>1. sock # 0
      BY <1>11 DEF IeeDumpBench, Phases
    <2>2. toStore' \in [Conns -> Seq(StoreMsg)]
      BY <1>11, <2>1, SmallMsgs, SockFacts, SendType DEF IeeDumpBench, Send
    <2>3. TypeOK'
      BY <1>11, <2>2, RequestTypes
         DEF IeeDumpBench, Reply, EmptyReply, TypeOK, clientVars, storeVars
    <2>4. Phases' /\ Counted' /\ Wanted'
      BY <1>11, <2>1
         DEF IeeDumpBench, Reply, EmptyReply, TypeOK, Phases, Counted, Wanted,
             NoReq, NoReply, clientVars
    <2> QED BY <2>3, <2>4
  <1>12. CASE IeeSocketError
    <2>1. TypeOK'
      BY <1>12 DEF IeeSocketError, Exit, TypeOK, clientVars, storeVars
    <2>2. Phases' /\ Counted' /\ Wanted'
      BY <1>12
         DEF IeeSocketError, Phases, Counted, Wanted, clientVars, SlotsOf
    <2> QED BY <2>1, <2>2
  <1> QED
    BY <1>1, <1>2, <1>3, <1>4, <1>5, <1>6, <1>7, <1>8, <1>9, <1>10, <1>11,
       <1>12 DEF IeeNext

\* Every action of a storage thread keeps the types.
LEMMA StoreTypes ==
    ASSUME TypeInv, NEW c \in Conns, StoreNext(c) PROVE TypeInv'
  <1> USE DEF TypeInv
  <1>1. \A op : Reads(c, op) => /\ toStore' \in [Conns -> Seq(StoreMsg)]
                                /\ Head(toStore[c]) \in StoreMsg
    BY ReadType
  <1>2. UNCHANGED <<clientVars, req, rep, ieeVars>>
    BY DEF StoreNext, StoreInit, StoreAdd, StoreRecord, StoreSearch,
           StoreDumpBench, StoreReadClosed
  <1>3. Phases' /\ Counted' /\ Wanted'
    BY <1>2 DEF Phases, Counted, Wanted, clientVars, ieeVars, SlotsOf
  <1>4. SUFFICES /\ toStore' \in [Conns -> Seq(StoreMsg)]
                 /\ toIee' \in [Conns -> Seq(Entries)]
                 /\ closed' \in SUBSET Conns
                 /\ index' \in [Labels -> DocIds \cup {NoDoc}]
                 /\ hasRecord' \in BOOLEAN
                 /\ storeExit' \in {"no", "no_record", "label_not_found",
                                    "closed_socket"}
    BY <1>2, <1>3 DEF TypeOK, clientVars, ieeVars
  <1>5. CASE StoreInit(c)
    BY <1>1, <1>5 DEF StoreInit, TypeOK, storeVars
  <1>6. CASE StoreAdd(c)
    <2>1. Head(toStore[c]).op = "add" /\ Head(toStore[c]) \in StoreMsg
      BY <1>1, <1>6 DEF StoreAdd, Reads
    <2>2. Head(toStore[c]).doc \in DocIds
      BY <2>1 DEF StoreMsg
    <2>3. index' \in [Labels -> DocIds \cup {NoDoc}]
      BY <1>6, <2>2 DEF StoreAdd, TypeOK
    <2> QED BY <1>1, <1>6, <2>3 DEF StoreAdd, TypeOK
  <1>7. CASE StoreRecord(c)
    BY <1>1, <1>7 DEF StoreRecord, TypeOK
  <1>8. CASE StoreSearch(c)
    <2> DEFINE m == Head(toStore[c])
               answered == {<<p[1], p[2], index[p[2]]>> : p \in m.labels}
    <2>1. m.op = "search" /\ m \in StoreMsg
      BY <1>1, <1>8 DEF StoreSearch, Reads
    <2>2. m.labels \in SUBSET (Slots \X Labels)
      BY <2>1 DEF StoreMsg
    <2>3. answered \in Entries
      <3>1. \A p \in m.labels : /\ p[1] \in Slots /\ p[2] \in Labels
                                /\ index[p[2]] \in DocIds \cup {NoDoc}
        BY <2>2 DEF TypeOK
      <3> QED BY <3>1 DEF Entries
    <2>4. \/ toIee' = toIee
          \/ toIee' = [toIee EXCEPT ![c] = Append(@, answered)]
      BY <1>8 DEF StoreSearch
    <2>5. toIee' \in [Conns -> Seq(Entries)]
      <3>1. toIee \in [Conns -> Seq(Entries)]
        BY DEF TypeOK
      <3>2. Append(toIee[c], answered) \in Seq(Entries)
        BY <2>3, <3>1
      <3> QED BY <2>4, <3>1, <3>2
    <2> QED BY <1>1, <1>8, <2>5 DEF StoreSearch, TypeOK
  <1>9. CASE StoreDumpBench(c)
    BY <1>1, <1>9 DEF StoreDumpBench, TypeOK
  <1>10. CASE StoreReadClosed(c)
    BY <1>10 DEF StoreReadClosed, TypeOK
  <1> QED
    BY <1>5, <1>6, <1>7, <1>8, <1>9, <1>10 DEF StoreNext

(***************************************************************************)
(* Whatever the client, the IEE and the storage service do, and whenever a *)
(* client dies or the next one starts, every variable keeps its type: no   *)
(* counter or document number leaves its range, every label asked for is   *)
(* one of the query's, and every response can be laid out in its slots.    *)
(***************************************************************************)
THEOREM TypeCorrect == Spec => []TypeOK
  <1>1. Init => TypeInv
    BY TypeInvInit
  <1>2. TypeInv /\ [Next]_vars => TypeInv'
    <2> SUFFICES ASSUME TypeInv, [Next]_vars PROVE TypeInv'
      OBVIOUS
    <2>1. CASE UNCHANGED vars
      BY <2>1 DEF vars, clientVars, ieeVars, storeVars, TypeInv, TypeOK,
                  Phases, Counted, Wanted, SlotsOf
    <2> QED BY <2>1, ClientTypes, IeeTypes, StoreTypes DEF Next
  <1>3. TypeInv => TypeOK
    BY DEF TypeInv
  <1> QED BY <1>1, <1>2, <1>3, PTL DEF Spec
-----------------------------------------------------------------------------
(* Sequences as the set of their elements *)

\* The empty sequence has no elements.
LEMMA ElementsEmpty == Elements(<<>>) = {}
  BY DEF Elements

\* Append adds one element.
LEMMA ElementsAppend ==
    ASSUME NEW S, NEW s \in Seq(S), NEW m \in S
    PROVE  Elements(Append(s, m)) = Elements(s) \cup {m}
  <1>1. /\ DOMAIN Append(s, m) = 1..Len(s) + 1
        /\ DOMAIN s = 1..Len(s) /\ Len(s) \in Nat
        /\ \A i \in 1..Len(s) : Append(s, m)[i] = s[i]
        /\ Append(s, m)[Len(s) + 1] = m
    OBVIOUS
  <1>2. Elements(Append(s, m)) \subseteq Elements(s) \cup {m}
    <2>1. \A i \in 1..Len(s) + 1 : i \in 1..Len(s) \/ i = Len(s) + 1
      BY <1>1
    <2> QED BY <1>1, <2>1 DEF Elements
  <1>3. Elements(s) \cup {m} \subseteq Elements(Append(s, m))
    <2>1. \A i \in 1..Len(s) : i \in 1..Len(s) + 1
      BY <1>1
    <2>2. Len(s) + 1 \in 1..Len(s) + 1
      BY <1>1
    <2> QED BY <1>1, <2>1, <2>2 DEF Elements
  <1> QED BY <1>2, <1>3

\* Head and Tail hold all elements between them.
LEMMA ElementsTail ==
    ASSUME NEW S, NEW s \in Seq(S), s # <<>>
    PROVE  Elements(s) = {Head(s)} \cup Elements(Tail(s))
  <1>1. /\ Len(s) \in Nat \ {0} /\ DOMAIN s = 1..Len(s)
        /\ DOMAIN Tail(s) = 1..Len(s) - 1
        /\ \A i \in 1..Len(s) - 1 : Tail(s)[i] = s[i + 1]
        /\ Head(s) = s[1]
    OBVIOUS
  <1>2. \A i \in 1..Len(s) : i = 1 \/ (i - 1 \in 1..Len(s) - 1 /\ (i - 1) + 1 = i)
    BY <1>1
  <1>3. Elements(s) \subseteq {Head(s)} \cup Elements(Tail(s))
    <2>1. ASSUME NEW i \in 1..Len(s), i # 1
          PROVE  s[i] \in Elements(Tail(s))
      <3>1. i - 1 \in DOMAIN Tail(s) /\ Tail(s)[i - 1] = s[i]
        BY <1>1, <1>2, <2>1
      <3> QED BY <3>1 DEF Elements
    <2> QED BY <1>1, <2>1 DEF Elements
  <1>4. {Head(s)} \cup Elements(Tail(s)) \subseteq Elements(s)
    <2>1. \A i \in 1..Len(s) - 1 : i + 1 \in 1..Len(s)
      BY <1>1
    <2>2. 1 \in 1..Len(s)
      BY <1>1
    <2> QED BY <1>1, <2>1, <2>2 DEF Elements
  <1> QED BY <1>3, <1>4

\* What is in the streams after a send: one message more, at the end of c's.
LEMMA SendEffect ==
    ASSUME TypeOK, NEW c \in Conns, NEW m \in StoreMsg,
           toStore' = [toStore EXCEPT ![c] = Append(@, m)]
    PROVE  /\ \A k \in Conns : k # c => toStore'[k] = toStore[k]
           /\ toStore[c] \in Seq(StoreMsg)
           /\ Len(toStore[c]) \in Nat
           /\ DOMAIN toStore[c] = 1..Len(toStore[c])
           /\ Len(toStore'[c]) = Len(toStore[c]) + 1
           /\ DOMAIN toStore'[c] = 1..Len(toStore[c]) + 1
           /\ \A i \in 1..Len(toStore[c]) : toStore'[c][i] = toStore[c][i]
           /\ toStore'[c][Len(toStore[c]) + 1] = m
           /\ Elements(toStore'[c]) = Elements(toStore[c]) \cup {m}
  <1>1. toStore[c] \in Seq(StoreMsg) /\ toStore'[c] = Append(toStore[c], m)
    BY DEF TypeOK
  <1>2. \A k \in Conns : k # c => toStore'[k] = toStore[k]
    BY DEF TypeOK
  <1>3. Elements(toStore'[c]) = Elements(toStore[c]) \cup {m}
    BY <1>1, ElementsAppend
  <1> QED BY <1>1, <1>2, <1>3

\* What is in the streams after a read: one message less, at the head of c's.
LEMMA ReadEffect ==
    ASSUME TypeOK, NEW c \in Conns, NEW op, Reads(c, op)
    PROVE  /\ \A k \in Conns : k # c => toStore'[k] = toStore[k]
           /\ toStore[c] \in Seq(StoreMsg)
           /\ toStore[c] # <<>>
           /\ Len(toStore[c]) \in Nat \ {0}
           /\ DOMAIN toStore[c] = 1..Len(toStore[c])
           /\ DOMAIN toStore'[c] = 1..Len(toStore[c]) - 1
           /\ Len(toStore'[c]) = Len(toStore[c]) - 1
           /\ \A i \in 1..Len(toStore[c]) - 1 : toStore'[c][i] = toStore[c][i + 1]
           /\ Head(toStore[c]) = toStore[c][1]
           /\ Head(toStore[c]).op = op
           /\ Elements(toStore[c]) = {Head(toStore[c])} \cup Elements(toStore'[c])
  <1>1. /\ toStore[c] \in Seq(StoreMsg) /\ toStore[c] # <<>>
        /\ toStore'[c] = Tail(toStore[c])
        /\ Head(toStore[c]).op = op
    BY DEF TypeOK, Reads
  <1>2. \A k \in Conns : k # c => toStore'[k] = toStore[k]
    BY DEF TypeOK, Reads
  <1>3. Elements(toStore[c]) = {Head(toStore[c])} \cup Elements(toStore'[c])
    BY <1>1, ElementsTail
  <1> QED BY <1>1, <1>2, <1>3

-----------------------------------------------------------------------------
(* Ranks *)

\* A rank depends on the earlier documents only.
LEMMA RankInStable ==
    ASSUME NEW D, NEW E, NEW n \in Nat, \A e \in 0..n - 1 : E[e] = D[e],
           NEW w, NEW d \in 0..n
    PROVE  RankIn(E, w, d) = RankIn(D, w, d)
  <1>1. \A e \in 0..d - 1 : e \in 0..n - 1
    OBVIOUS
  <1>2. {e \in 0..d - 1 : w \in E[e]} = {e \in 0..d - 1 : w \in D[e]}
    BY <1>1
  <1> QED BY <1>2 DEF RankIn

\* A rank is a number.
LEMMA RankInNat ==
    ASSUME NEW D, NEW w, NEW d \in Nat
    PROVE  RankIn(D, w, d) \in Nat
  <1>1. IsFiniteSet(0..d - 1)
    BY FS_Interval
  <1>2. IsFiniteSet({e \in 0..d - 1 : w \in D[e]})
    BY <1>1, FS_Subset
  <1> QED BY <1>2, FS_CardinalityType DEF RankIn

\* The next rank is one more when the document holds the word.
LEMMA RankInNext ==
    ASSUME NEW D, NEW w, NEW d \in Nat
    PROVE  RankIn(D, w, d + 1) = RankIn(D, w, d) + (IF w \in D[d] THEN 1 ELSE 0)
  <1> DEFINE S == {e \in 0..d - 1 : w \in D[e]}
             T == {e \in 0..(d + 1) - 1 : w \in D[e]}
  <1>1. IsFiniteSet(S)
    <2>1. IsFiniteSet(0..d - 1)
      BY FS_Interval
    <2> QED BY <2>1, FS_Subset
  <1>2. \A e : e \in 0..(d + 1) - 1 <=> e \in 0..d - 1 \/ e = d
    OBVIOUS
  <1>3. d \notin S
    OBVIOUS
  <1>6. RankIn(D, w, d + 1) = Cardinality(T) /\ RankIn(D, w, d) = Cardinality(S)
    BY DEF RankIn
  <1>4. CASE w \in D[d]
    <2>1. T = S \cup {d}
      BY <1>2, <1>4
    <2>2. Cardinality(S \cup {d}) = Cardinality(S) + 1
      BY <1>1, <1>3, FS_AddElement
    <2> HIDE DEF S, T
    <2> QED BY <1>4, <1>6, <2>1, <2>2
  <1>5. CASE w \notin D[d]
    <2>1. T = S
      BY <1>2, <1>5
    <2>2. Cardinality(S) \in Nat
      BY <1>1, FS_CardinalityType
    <2> HIDE DEF S, T
    <2> QED BY <1>5, <1>6, <2>1, <2>2
  <1> QED BY <1>4, <1>5
-----------------------------------------------------------------------------
(* The client's actions *)

\* The numbering is about the client's variables only.
LEMMA RankedKept ==
    ASSUME Ranked, UNCHANGED <<W, nDocs, docs>> PROVE Ranked'
  BY DEF Ranked, Rank

\* A client that asks for nothing: the IEE is idle, and no look-up, response
\* or benchmark message is under way.
LEMMA IdleClient ==
    ASSUME IInv, clPc \in {"new", "ready", "bulk"}
    PROVE  /\ req = NoReq /\ rep = NoReply /\ ieePc = "idle"
           /\ req.op = "none" /\ work = <<>>
           /\ \A c \in Conns : toIee[c] = <<>>
           /\ InRequest = {}
           /\ \A c \in Conns : \A m \in Elements(toStore[c]) :
                 m.op # "dump"
           /\ \A c \in Conns : \A i \in DOMAIN toStore[c] :
                 toStore[c][i].op # "search"
  BY DEF IInv, TypeInv, Phases, Responses, NoReq, NoReply, EmptyReply,
         InRequest, Records, Streams

\* The setup request keeps the invariant.
LEMMA SetupSafe == ASSUME IInv, ClientSetup PROVE IInv'
  <1> USE DEF ClientSetup, Request
  <1>1. TypeInv'
    BY ClientTypes DEF IInv, ClientNext
  <1>2. Ranked'
    BY RankedKept DEF IInv
  <1>3. AddsSound'
    BY IdleClient
       DEF IInv, AddsSound, InRequest, InStreams, Sound, IsPosting, SetupReq,
           ieeVars
  <1>4. NothingLost'
    BY IdleClient
       DEF IInv, NothingLost, OnItsWay, InRequest, InStreams, Stored, Rank,
           SetupReq, ieeVars, storeVars
  <1>5. Streams'
    BY IdleClient DEF IInv, Streams, ieeVars
  <1>6. Records'
    BY IdleClient DEF IInv, Records, ieeVars, storeVars
  <1>7. Responses' /\ Progress'
    BY IdleClient DEF IInv, Responses, Progress, ieeVars
  <1>8. SearchIsServed' /\ ResponsesMatch'
    BY DEF IInv, SearchIsServed, ResponsesMatch, ieeVars, storeVars
  <1> QED BY <1>1, <1>2, <1>3, <1>4, <1>5, <1>6, <1>7, <1>8 DEF IInv

\* Sending the bulk keeps the invariant: its messages are now the request's.
LEMMA SendBulkSafe == ASSUME IInv, ClientSendBulk PROVE IInv'
  <1> USE DEF ClientSendBulk, Request
  <1>1. TypeInv'
    BY ClientTypes DEF IInv, ClientNext
  <1>2. Ranked'
    BY RankedKept DEF IInv
  <1>3. InRequest' = Elements(bulk) /\ Elements(bulk') = {}
    BY ElementsEmpty DEF InRequest
  <1>4. AddsSound'
    BY <1>3, IdleClient
       DEF IInv, AddsSound, InStreams, Sound, IsPosting, ieeVars
  <1>5. NothingLost'
    BY <1>3, IdleClient
       DEF IInv, NothingLost, OnItsWay, InStreams, Stored, Rank, ieeVars,
           storeVars
  <1>6. Streams'
    BY IdleClient DEF IInv, Streams, ieeVars
  <1>7. Records'
    BY IdleClient DEF IInv, Records, ieeVars, storeVars
  <1>8. Responses' /\ Progress'
    BY IdleClient DEF IInv, Responses, Progress, ieeVars
  <1>9. SearchIsServed' /\ ResponsesMatch'
    BY DEF IInv, SearchIsServed, ResponsesMatch, ieeVars, storeVars
  <1> QED BY <1>1, <1>2, <1>4, <1>5, <1>6, <1>7, <1>8, <1>9 DEF IInv

\* Sending a query keeps the invariant.
LEMMA SearchSafe ==
    ASSUME IInv, NEW q \in Queries, ClientSearch(q) PROVE IInv'
  <1> USE DEF ClientSearch, Request
  <1>1. TypeInv'
    BY ClientTypes DEF IInv, ClientNext
  <1>2. Ranked'
    BY RankedKept DEF IInv
  <1>3. InRequest' = {}
    BY DEF InRequest
  <1>4. AddsSound'
    BY <1>3, IdleClient
       DEF IInv, AddsSound, InStreams, Sound, IsPosting, ieeVars
  <1>5. NothingLost'
    BY <1>3, IdleClient
       DEF IInv, NothingLost, OnItsWay, InStreams, Stored, Rank, ieeVars,
           storeVars
  <1>6. Streams'
    BY IdleClient DEF IInv, Streams, ieeVars
  <1>7. Records'
    BY IdleClient DEF IInv, Records, ieeVars, storeVars
  <1>8. Responses' /\ Progress'
    BY IdleClient DEF IInv, Responses, Progress, ieeVars
  <1>9. SearchIsServed' /\ ResponsesMatch'
    BY DEF IInv, SearchIsServed, ResponsesMatch, ieeVars, storeVars
  <1> QED BY <1>1, <1>2, <1>4, <1>5, <1>6, <1>7, <1>8, <1>9 DEF IInv

\* Asking for the benchmark keeps the invariant.
LEMMA DumpRequestSafe == ASSUME IInv, ClientDumpBench PROVE IInv'
  <1> USE DEF ClientDumpBench, Request
  <1>1. TypeInv'
    BY ClientTypes DEF IInv, ClientNext
  <1>2. Ranked'
    BY RankedKept DEF IInv
  <1>3. InRequest' = {}
    BY DEF InRequest, BenchReq
  <1>4. AddsSound'
    BY <1>3, IdleClient
       DEF IInv, AddsSound, InStreams, Sound, IsPosting, ieeVars
  <1>5. NothingLost'
    BY <1>3, IdleClient
       DEF IInv, NothingLost, OnItsWay, InStreams, Stored, Rank, ieeVars,
           storeVars
  <1>6. Streams'
    BY IdleClient DEF IInv, Streams, BenchReq, ieeVars
  <1>7. Records'
    BY IdleClient DEF IInv, Records, ieeVars, storeVars
  <1>8. Responses' /\ Progress'
    BY IdleClient DEF IInv, Responses, Progress, ieeVars
  <1>9. SearchIsServed' /\ ResponsesMatch'
    BY DEF IInv, SearchIsServed, ResponsesMatch, ieeVars, storeVars
  <1> QED BY <1>1, <1>2, <1>4, <1>5, <1>6, <1>7, <1>8, <1>9 DEF IInv

\* Reading a reply keeps the invariant.
LEMMA ReceiveSafe == ASSUME IInv, ClientReceive PROVE IInv'
  <1> USE DEF ClientReceive
  <1>1. TypeInv'
    BY ClientTypes DEF IInv, ClientNext
  <1>2. Ranked'
    BY RankedKept DEF IInv
  <1>3. /\ req = NoReq /\ req.op = "none" /\ ieePc = "idle"
        /\ InRequest = {} /\ InRequest' = {}
    BY DEF IInv, TypeInv, Phases, NoReq, InRequest
  <1>4. AddsSound'
    BY <1>3 DEF IInv, AddsSound, InStreams, Sound, IsPosting, ieeVars
  <1>5. NothingLost'
    BY <1>3
       DEF IInv, NothingLost, OnItsWay, InStreams, Stored, Rank, ieeVars,
           storeVars
  <1>6. Streams'
    BY <1>3 DEF IInv, Streams, ieeVars
  <1>7. Records'
    BY <1>3 DEF IInv, Records, ieeVars, storeVars
  <1>8. Responses' /\ Progress'
    BY <1>3 DEF IInv, Responses, Progress, ieeVars
  <1>9. SearchIsServed' /\ ResponsesMatch'
    BY DEF IInv, SearchIsServed, ResponsesMatch, ieeVars, storeVars
  <1> QED BY <1>1, <1>2, <1>4, <1>5, <1>6, <1>7, <1>8, <1>9 DEF IInv

\* The death of the client keeps the invariant: what it had not sent is not
\* asked for by a query under way.
LEMMA EndSafe == ASSUME IInv, ClientEnd PROVE IInv'
  <1> USE DEF ClientEnd
  <1>1. TypeInv'
    BY ClientTypes DEF IInv, ClientNext
  <1>2. Ranked'
    BY RankedKept DEF IInv
  <1>3. InRequest' = InRequest /\ Elements(bulk') = {}
    BY ElementsEmpty DEF InRequest
  <1>4. AddsSound'
    BY <1>3 DEF IInv, AddsSound, InStreams, Sound, IsPosting, ieeVars
  <1>5. NothingLost'
    <2>1. req.op = "search" => bulk = <<>>
      BY DEF IInv, TypeInv, Phases, NoReq
    <2> QED
      BY <1>3, <2>1, ElementsEmpty
         DEF IInv, NothingLost, OnItsWay, InStreams, Stored, Rank, ieeVars,
             storeVars
  <1>6. Streams'
    BY DEF IInv, Streams, LabelOf, ieeVars
  <1>7. Records'
    BY DEF IInv, Records, ieeVars, storeVars
  <1>8. Responses' /\ Progress'
    BY DEF IInv, Responses, Verified, Progress, IsPosting, SlotsOf, LabelOf,
           ieeVars
  <1>9. SearchIsServed' /\ ResponsesMatch'
    BY DEF IInv, SearchIsServed, ResponsesMatch, ieeVars, storeVars
  <1> QED BY <1>1, <1>2, <1>4, <1>5, <1>6, <1>7, <1>8, <1>9 DEF IInv

\* A new client keeps the invariant when the streams are drained.
LEMMA RestartSafe ==
    ASSUME IInv, DrainBeforeRestart, ClientRestart PROVE IInv'
  <1> USE DEF ClientRestart, Drained
  <1>1. TypeInv'
    BY ClientTypes DEF IInv, ClientNext
  <1>2. Ranked'
    <2>1. \A w \in Words : W'[w] = 0
      OBVIOUS
    <2>2. \A w : RankIn(docs', w, 0) = 0
      <3>1. \A w : {e \in 0..0 - 1 : w \in docs'[e]} = {}
        OBVIOUS
      <3> QED BY <3>1, FS_EmptySet DEF RankIn
    <2> QED BY <2>1, <2>2 DEF Ranked, Rank
  <1>3. /\ req.op = "none" /\ ieePc = "idle" /\ work = <<>> /\ bulk = <<>>
        /\ \A c \in Conns : toStore[c] = <<>>
    BY DEF IInv, TypeInv, Phases, NoReq
  <1>4. InRequest' = {} /\ InStreams' = {}
    BY <1>3, ElementsEmpty DEF InRequest, InStreams
  <1>5. AddsSound'
    BY <1>3, <1>4, ElementsEmpty DEF AddsSound, ieeVars
  <1>6. NothingLost'
    BY DEF NothingLost
  <1>7. Streams'
    BY <1>3 DEF Streams, ieeVars
  <1>8. Records'
    BY <1>3, ElementsEmpty DEF Records, ieeVars, storeVars
  <1>9. Responses' /\ Progress'
    BY <1>3 DEF IInv, Responses, Progress, ieeVars
  <1>10. SearchIsServed' /\ ResponsesMatch'
    BY DEF IInv, SearchIsServed, ResponsesMatch, ieeVars, storeVars
  <1> QED BY <1>1, <1>2, <1>5, <1>6, <1>7, <1>8, <1>9, <1>10 DEF IInv

\* A document more: the ranks of the earlier ones stay, and the new one's are
\* the counters, which is what add_new_document sends.
LEMMA AddedRanks ==
    ASSUME IInv, NEW words \in SUBSET Words, AddNewDocument(words)
    PROVE  /\ nDocs \in Nat /\ nDocs' = nDocs + 1
           /\ docs'[nDocs] = words
           /\ \A d \in 0..nDocs - 1 : docs'[d] = docs[d]
           /\ \A w, d : d \in 0..nDocs => RankIn(docs', w, d) = RankIn(docs, w, d)
           /\ \A w \in Words : /\ W[w] = RankIn(docs, w, nDocs)
                               /\ W[w] \in Nat
                               /\ W'[w] = W[w] + (IF w \in words THEN 1 ELSE 0)
                               /\ W'[w] = RankIn(docs', w, nDocs')
  <1>1. nDocs \in Nat /\ nDocs' = nDocs + 1
    BY DEF IInv, TypeInv, TypeOK, AddNewDocument
  <1>2. docs' = [d \in 0..nDocs |-> IF d = nDocs THEN words ELSE docs[d]]
    BY DEF AddNewDocument
  <1>3. docs'[nDocs] = words
    BY <1>1, <1>2
  <1>4. \A d \in 0..nDocs - 1 : docs'[d] = docs[d]
    BY <1>1, <1>2
  <1>5. ASSUME NEW w, NEW d \in 0..nDocs
        PROVE  RankIn(docs', w, d) = RankIn(docs, w, d)
    BY <1>1, <1>4, RankInStable
  <1>6. ASSUME NEW w \in Words
        PROVE  /\ W[w] = RankIn(docs, w, nDocs)
               /\ W[w] \in Nat
               /\ W'[w] = W[w] + (IF w \in words THEN 1 ELSE 0)
               /\ W'[w] = RankIn(docs', w, nDocs')
    <2>1. W[w] = RankIn(docs, w, nDocs)
      BY DEF IInv, Ranked, Rank
    <2>2. W[w] \in Nat
      BY <1>1, <2>1, RankInNat
    <2>3. W'[w] = W[w] + (IF w \in words THEN 1 ELSE 0)
      BY <2>2 DEF AddNewDocument
    <2>4. RankIn(docs', w, nDocs') =
            RankIn(docs', w, nDocs) + (IF w \in docs'[nDocs] THEN 1 ELSE 0)
      BY <1>1, RankInNext
    <2>5. RankIn(docs', w, nDocs) = RankIn(docs, w, nDocs)
      BY <1>1, <1>5
    <2> QED BY <1>3, <2>1, <2>2, <2>3, <2>4, <2>5
  <1> QED BY <1>1, <1>3, <1>4, <1>5, <1>6

\* What was a posting before a document was added still is one.
LEMMA AddedPostings ==
    ASSUME IInv, NEW words \in SUBSET Words, AddNewDocument(words), NEW l, NEW d
    PROVE  IsPosting(l, d) => PostingIn(docs', nDocs', l, d)
  <1>1. SUFFICES ASSUME IsPosting(l, d) PROVE PostingIn(docs', nDocs', l, d)
    OBVIOUS
  <1>2. /\ d \in 0..nDocs - 1 /\ l[1] \in docs[d]
        /\ l[2] = RankIn(docs, l[1], d)
    BY <1>1 DEF IsPosting, PostingIn
  <1>3. d \in 0..nDocs /\ d \in 0..nDocs' - 1
    BY <1>2, AddedRanks
  <1> QED BY <1>2, <1>3, AddedRanks DEF PostingIn

\* The counters number the postings after a document was added.
LEMMA AddedRanked ==
    ASSUME IInv, NEW words \in SUBSET Words, AddNewDocument(words)
    PROVE  Ranked'
  <1> DEFINE R(w, d) == RankIn(docs', w, d)
  <1>1. /\ nDocs \in Nat /\ nDocs' = nDocs + 1 /\ 0..nDocs' - 1 = 0..nDocs
        /\ \A d \in 0..nDocs : d = nDocs \/ d \in 0..nDocs - 1
        /\ docs'[nDocs] = words
    BY AddedRanks
  <1>2. ASSUME NEW w \in Words, NEW d \in 0..nDocs - 1, w \in docs'[d]
        PROVE  w \in docs[d] /\ R(w, d) = Rank(w, d) /\ Rank(w, d) < W[w]
    <2>1. w \in docs[d] /\ R(w, d) = Rank(w, d)
      BY <1>1, <1>2, AddedRanks DEF Rank
    <2>2. Rank(w, d) < W[w]
      BY <2>1 DEF IInv, Ranked
    <2> QED BY <2>1, <2>2
  <1>3. ASSUME NEW w \in Words
        PROVE  /\ W[w] \in Nat
               /\ W'[w] = W[w] + (IF w \in words THEN 1 ELSE 0)
               /\ R(w, nDocs) = W[w]
    BY <1>1, AddedRanks
  <1>4. \A w \in Words : W'[w] = R(w, nDocs')
    BY AddedRanks
  <1>5. \A w \in Words : \A d \in 0..nDocs' - 1 :
           w \in docs'[d] => R(w, d) < W'[w]
    <2> SUFFICES ASSUME NEW w \in Words, NEW d \in 0..nDocs, w \in docs'[d]
                 PROVE  R(w, d) < W'[w]
      BY <1>1
    <2>1. CASE d = nDocs
      BY <1>1, <1>3, <2>1
    <2>2. CASE d \in 0..nDocs - 1
      <3>1. R(w, d) = Rank(w, d) /\ Rank(w, d) < W[w] /\ Rank(w, d) \in Nat
        BY <1>2, <2>2, RankInNat DEF Rank
      <3> QED BY <1>3, <3>1
    <2> QED BY <1>1, <2>1, <2>2
  <1>6. \A w \in Words : \A c \in 0..W'[w] - 1 :
           \E d \in 0..nDocs' - 1 : w \in docs'[d] /\ R(w, d) = c
    <2> SUFFICES ASSUME NEW w \in Words, NEW c \in 0..W'[w] - 1
                 PROVE  \E d \in 0..nDocs : w \in docs'[d] /\ R(w, d) = c
      BY <1>1
    <2>1. CASE c \in 0..W[w] - 1
      <3>1. PICK d \in 0..nDocs - 1 : w \in docs[d] /\ Rank(w, d) = c
        BY <2>1 DEF IInv, Ranked
      <3>2. d \in 0..nDocs /\ w \in docs'[d] /\ R(w, d) = c
        BY <1>1, <3>1, AddedRanks DEF Rank
      <3> QED BY <3>2
    <2>2. CASE c \notin 0..W[w] - 1
      <3>1. w \in words /\ c = W[w]
        BY <1>3, <2>2
      <3> QED BY <1>1, <1>3, <3>1
    <2> QED BY <2>1, <2>2
  <1>7. \A w \in Words : \A d, e \in 0..nDocs' - 1 :
           w \in docs'[d] /\ w \in docs'[e] /\ R(w, d) = R(w, e) => d = e
    <2> SUFFICES ASSUME NEW w \in Words, NEW d \in 0..nDocs, NEW e \in 0..nDocs,
                        w \in docs'[d], w \in docs'[e], R(w, d) = R(w, e)
                 PROVE  d = e
      BY <1>1
    <2>1. CASE d \in 0..nDocs - 1 /\ e \in 0..nDocs - 1
      <3>1. /\ w \in docs[d] /\ w \in docs[e] /\ Rank(w, d) = Rank(w, e)
        BY <1>2, <2>1
      <3> QED BY <2>1, <3>1 DEF IInv, Ranked
    <2>2. ASSUME NEW a \in 0..nDocs - 1, w \in docs'[a], R(w, a) = R(w, nDocs)
          PROVE  FALSE
      <3>1. R(w, a) = Rank(w, a) /\ Rank(w, a) < W[w] /\ Rank(w, a) \in Nat
        BY <1>2, <2>2, RankInNat DEF Rank
      <3>2. R(w, nDocs) = W[w] /\ W[w] \in Nat
        BY <1>3
      <3>3. Rank(w, a) = W[w]
        BY <2>2, <3>1, <3>2
      <3>4. W[w] < W[w]
        BY <3>1, <3>3
      <3> QED BY <3>2, <3>4
    <2> QED BY <1>1, <2>1, <2>2
  <1> QED BY <1>4, <1>5, <1>6, <1>7 DEF Ranked, Rank

\* Adding a document keeps the invariant.
LEMMA AddSafe ==
    ASSUME IInv, NEW words \in SUBSET Words, AddNewDocument(words) PROVE IInv'
  <1> DEFINE m == [doc |-> nDocs, labels |-> {<<w, W[w]>> : w \in words}]
  <1>0. /\ clPc \in {"new", "ready", "bulk"} /\ clPc' = "bulk"
        /\ bulk' = Append(bulk, m)
        /\ UNCHANGED <<asked, answer, req, rep, ieeVars, toStore, toIee, storeVars>>
    BY DEF AddNewDocument
  <1>1. TypeInv'
    BY ClientTypes DEF IInv, ClientNext
  <1>2. Ranked'
    BY AddedRanked
  <1>3. Elements(bulk') = Elements(bulk) \cup {m}
    <2>1. bulk \in Seq(AddMsg)
      BY DEF IInv, TypeInv, TypeOK
    <2>2. bulk' \in Seq(AddMsg) /\ Len(bulk') = Len(bulk) + 1
          /\ bulk'[Len(bulk) + 1] = m
      BY <1>0, <1>1, <2>1 DEF TypeInv, TypeOK
    <2>3. Len(bulk) + 1 \in DOMAIN bulk'
      BY <2>1, <2>2
    <2>4. m \in AddMsg
      BY <2>2, <2>3
    <2> HIDE DEF m
    <2> QED BY <1>0, <2>1, <2>4, ElementsAppend
  <1>4. InRequest' = {} /\ InRequest = {} /\ InStreams' = InStreams
    BY <1>0, IdleClient DEF InRequest, InStreams
  <1>5. \A w \in words : PostingIn(docs', nDocs', <<w, W[w]>>, nDocs)
    <2>1. nDocs \in 0..nDocs' - 1
      BY AddedRanks
    <2> QED BY <2>1, AddedRanks DEF PostingIn
  <1>6. AddsSound'
    <2> SUFFICES ASSUME NEW x \in Elements(bulk) \cup {m} \cup Elements(work)
                                    \cup InStreams,
                        NEW l \in x.labels
                 PROVE  PostingIn(docs', nDocs', l, x.doc)
      BY <1>0, <1>3, <1>4 DEF AddsSound, Sound, IsPosting, ieeVars
    <2>1. CASE x = m
      BY <1>5, <2>1
    <2>2. CASE x # m
      <3>1. IsPosting(l, x.doc)
        BY <2>2 DEF IInv, AddsSound, Sound
      <3> QED BY <3>1, AddedPostings
    <2> QED BY <2>1, <2>2
  <1>7. NothingLost'
    <2> SUFFICES ASSUME NEW w \in Words, NEW d \in 0..nDocs' - 1, w \in docs'[d]
                 PROVE  \/ index[<<w, RankIn(docs', w, d)>>] = d
                        \/ \E x \in Elements(bulk') \cup Elements(work)
                                       \cup InStreams :
                              /\ x.doc = d
                              /\ <<w, RankIn(docs', w, d)>> \in x.labels
      BY <1>0, <1>4
         DEF NothingLost, OnItsWay, Stored, Rank, ieeVars, storeVars
    <2>1. CASE d = nDocs
      <3>1. w \in words /\ RankIn(docs', w, d) = W[w]
        BY <2>1, AddedRanks
      <3>2. m \in Elements(bulk') /\ m.doc = d /\ <<w, W[w]>> \in m.labels
        BY <1>3, <2>1, <3>1
      <3> QED BY <3>1, <3>2
    <2>2. CASE d # nDocs
      <3>1. d \in 0..nDocs - 1 /\ w \in docs[d]
            /\ RankIn(docs', w, d) = Rank(w, d)
        BY <2>2, AddedRanks DEF Rank
      <3>2. \/ Stored(w, d)
            \/ \E x \in OnItsWay : x.doc = d /\ <<w, Rank(w, d)>> \in x.labels
        BY <1>0, <3>1 DEF IInv, NothingLost
      <3> QED BY <1>3, <1>4, <3>1, <3>2 DEF OnItsWay, Stored
    <2> QED BY <2>1, <2>2
  <1>8. Streams' /\ Records' /\ Responses' /\ Progress'
    BY <1>0, IdleClient
       DEF IInv, Streams, Records, Responses, Progress, ieeVars, storeVars
  <1>9. SearchIsServed' /\ ResponsesMatch'
    BY <1>0 DEF IInv, SearchIsServed, ResponsesMatch, ieeVars, storeVars
  <1> QED BY <1>1, <1>2, <1>6, <1>7, <1>8, <1>9 DEF IInv

-----------------------------------------------------------------------------
(* The actions of the IEE *)

\* No look-up is under way unless the IEE waits for its answer.
LEMMA NoLookUp ==
    ASSUME IInv, ieePc # "wait"
    PROVE  /\ \A c \in Conns : toIee[c] = <<>>
           /\ \A c \in Conns : \A i \in DOMAIN toStore[c] :
                 toStore[c][i].op # "search"
  BY DEF IInv, Responses, Streams

\* A request is under way, so that no benchmark message is.
LEMMA NoDump ==
    ASSUME IInv, req # NoReq
    PROVE  \A c \in Conns : \A m \in Elements(toStore[c]) : m.op # "dump"
  BY DEF IInv, Records

\* What any send but that of a look-up does to the streams.
LEMMA SendStreams ==
    ASSUME IInv, sock # 0, ieePc # "wait", NEW m \in StoreMsg, Send(m),
           m.op # "search", UNCHANGED sock,
           clPc \notin {"new"}, req.op # "setup", clPc' = clPc,
           req'.op # "setup"
    PROVE  /\ Streams'
           /\ InStreams' = InStreams \cup (IF m.op = "add" THEN {m} ELSE {})
           /\ \A c \in Conns : Elements(toStore'[c]) =
                 Elements(toStore[c]) \cup (IF c = sock THEN {m} ELSE {})
  <1>1. TypeOK /\ sock \in Conns
    BY SockFacts DEF IInv, TypeInv
  <1>2. toStore' = [toStore EXCEPT ![sock] = Append(@, m)]
    BY DEF Send
  <1>3. \A c \in Conns : Elements(toStore'[c]) =
           Elements(toStore[c]) \cup (IF c = sock THEN {m} ELSE {})
    BY <1>1, <1>2, SendEffect
  <1>4. InStreams' = InStreams \cup (IF m.op = "add" THEN {m} ELSE {})
    BY <1>1, <1>3 DEF InStreams
  <1>5. \A c \in Conns : \A i \in DOMAIN toStore'[c] :
           toStore'[c][i].op # "search"
    <2> SUFFICES ASSUME NEW c \in Conns, NEW i \in DOMAIN toStore'[c]
                 PROVE  toStore'[c][i].op # "search"
      OBVIOUS
    <2>1. CASE c # sock
      BY <1>1, <1>2, <2>1, SendEffect, NoLookUp
    <2>2. CASE c = sock
      <3>1. i \in 1..Len(toStore[c]) \/ i = Len(toStore[c]) + 1
        BY <1>1, <1>2, <2>2, SendEffect
      <3> QED BY <1>1, <1>2, <2>2, <3>1, SendEffect, NoLookUp
    <2> QED BY <2>1, <2>2
  <1>6. \A c \in Conns : c # sock => toStore'[c] = <<>>
    BY <1>1, <1>2, SendEffect DEF IInv, Streams
  <1>7. Streams'
    BY <1>5, <1>6 DEF Streams
  <1> QED BY <1>3, <1>4, <1>7

\* A request that is cut off keeps the invariant.
LEMMA TruncatedSafe == ASSUME IInv, ieeExit = "no", IeeTruncated PROVE IInv'
  <1> USE DEF IeeTruncated
  <1>1. TypeInv'
    BY IeeTypes DEF IInv, IeeNext
  <1>2. Ranked'
    BY RankedKept DEF IInv, clientVars
  <1>3. InRequest' = {}
    BY DEF InRequest, NoReq
  <1>4. AddsSound'
    BY <1>3 DEF IInv, AddsSound, InStreams, Sound, IsPosting, clientVars
  <1>5. NothingLost'
    BY DEF NothingLost, NoReq, clientVars
  <1>6. Streams'
    BY NoLookUp DEF IInv, Streams, NoReq, clientVars
  <1>7. Records'
    BY DEF IInv, Records, clientVars, storeVars
  <1>8. Responses' /\ Progress'
    BY NoLookUp DEF Responses, Progress
  <1>9. SearchIsServed' /\ ResponsesMatch'
    BY DEF IInv, SearchIsServed, ResponsesMatch, storeVars
  <1> QED BY <1>1, <1>2, <1>4, <1>5, <1>6, <1>7, <1>8, <1>9 DEF IInv

\* setup() keeps the invariant: the streams were empty.
LEMMA IeeSetupSafe == ASSUME IInv, ieeExit = "no", IeeSetup PROVE IInv'
  <1> DEFINE m == [op |-> "init"]
  <1>0. /\ ieePc = "idle" /\ req.op = "setup" /\ req' = NoReq
        /\ req'.op = "none" /\ ieePc' = "idle" /\ sock' = sock + 1
        /\ clPc \in {"await", "dead"}
        /\ clPc = "await" => rep' = OkReply
        /\ clPc = "dead" => rep' = rep
        /\ ieeExit' = ieeExit \/ ieeExit' \in {"no", "peer_lost"}
        /\ toStore' = [toStore EXCEPT ![sock'] = Append(@, m)]
        /\ UNCHANGED <<clientVars, work, want, batch, got, toIee, storeVars>>
    BY DEF IeeSetup, Reply, NoReq
  <1>1. TypeInv'
    BY IeeTypes DEF IInv, IeeNext, IeeSetup
  <1>2. Ranked'
    BY <1>0, RankedKept DEF IInv, clientVars
  <1>3. TypeOK /\ sock' \in Conns /\ m \in StoreMsg
    <2>1. TypeOK /\ sock \in 0..MaxConns /\ sock < MaxConns
      BY DEF IInv, TypeInv, TypeOK, IeeSetup
    <2>2. sock' \in Conns
      BY <1>0, <2>1, BisenAssumption DEF Conns, BisenAssumption
    <2> QED BY <2>1, <2>2, SmallMsgs
  <1>4. \A c \in Conns : toStore[c] = <<>>
    BY <1>0 DEF IInv, Streams
  <1>5. /\ \A c \in Conns : c # sock' => toStore'[c] = <<>>
        /\ DOMAIN toStore'[sock'] = 1..1 /\ toStore'[sock'][1] = m
        /\ Elements(toStore'[sock']) = {m}
    <2> HIDE DEF m
    <2>1. toStore[sock'] = <<>> /\ Len(toStore[sock']) = 0
      BY <1>3, <1>4
    <2>2. /\ \A k \in Conns : k # sock' => toStore'[k] = toStore[k]
          /\ DOMAIN toStore'[sock'] = 1..Len(toStore[sock']) + 1
          /\ toStore'[sock'][Len(toStore[sock']) + 1] = m
          /\ Elements(toStore'[sock']) = Elements(toStore[sock']) \cup {m}
      BY <1>0, <1>3, SendEffect
    <2>3. Elements(toStore'[sock']) = {m}
      BY <2>1, <2>2, ElementsEmpty
    <2>4. DOMAIN toStore'[sock'] = 1..1 /\ toStore'[sock'][1] = m
      BY <2>1, <2>2
    <2> QED BY <1>4, <2>2, <2>3, <2>4
  <1>6. \A c \in Conns : Elements(toStore'[c]) \subseteq {m}
    BY <1>5, ElementsEmpty
  <1>7. InStreams' = {} /\ InStreams = {} /\ InRequest' = {} /\ InRequest = {}
    BY <1>0, <1>4, <1>6, ElementsEmpty DEF InStreams, InRequest
  <1>8. AddsSound'
    BY <1>0, <1>7 DEF IInv, AddsSound, Sound, IsPosting, clientVars
  <1>9. NothingLost'
    BY <1>0, <1>7
       DEF IInv, NothingLost, OnItsWay, Stored, Rank, clientVars, storeVars
  <1>10. Streams'
    <2>1. \A c \in Conns : \A i \in DOMAIN toStore'[c] :
             toStore'[c][i].op # "search"
      BY <1>5
    <2> QED BY <1>0, <1>5, <2>1 DEF Streams, clientVars
  <1>11. Records'
    BY <1>0, <1>6 DEF Records
  <1>12. Responses' /\ Progress'
    BY <1>0, NoLookUp DEF Responses, Progress
  <1>13. SearchIsServed' /\ ResponsesMatch'
    BY <1>0 DEF IInv, SearchIsServed, ResponsesMatch, storeVars
  <1> QED BY <1>1, <1>2, <1>8, <1>9, <1>10, <1>11, <1>12, <1>13 DEF IInv

\* Taking up a bulk request keeps the invariant.
LEMMA IeeBulkSafe == ASSUME IInv, ieeExit = "no", IeeBulk PROVE IInv'
  <1> USE DEF IeeBulk
  <1>1. TypeInv'
    BY IeeTypes DEF IInv, IeeNext
  <1>2. Ranked'
    BY RankedKept DEF IInv, clientVars
  <1>3. InRequest' = InRequest /\ Elements(work') = InRequest
        /\ Elements(work) = {}
    BY ElementsEmpty DEF IInv, TypeInv, Phases, InRequest
  <1>4. AddsSound'
    BY <1>3 DEF IInv, AddsSound, InStreams, Sound, IsPosting, clientVars
  <1>5. NothingLost'
    BY <1>3
       DEF IInv, NothingLost, OnItsWay, InStreams, Stored, Rank, clientVars,
           storeVars
  <1>6. Streams'
    BY NoLookUp DEF IInv, Streams, clientVars
  <1>7. Records'
    BY DEF IInv, Records, clientVars, storeVars
  <1>8. Responses' /\ Progress'
    BY NoLookUp DEF Responses, Progress
  <1>9. SearchIsServed' /\ ResponsesMatch'
    BY DEF IInv, SearchIsServed, ResponsesMatch, storeVars
  <1> QED BY <1>1, <1>2, <1>4, <1>5, <1>6, <1>7, <1>8, <1>9 DEF IInv

\* A batch of update() keeps the invariant: what leaves the message is in the
\* stream.
LEMMA IeeSendBatchSafe == ASSUME IInv, ieeExit = "no", IeeSendBatch PROVE IInv'
  <1>1. TypeInv'
    BY IeeTypes DEF IInv, IeeNext
  <1>2. /\ ieePc = "update" /\ ieePc' = "update" /\ work # <<>>
        /\ req.op = "bulk" /\ sock # 0 /\ req # NoReq
        /\ clPc \notin {"new"}
        /\ work \in Seq(AddMsg)
        /\ UNCHANGED <<clientVars, req, rep, ieePc, ieeExit, sock, want, batch,
                       got, toIee, storeVars>>
    BY DEF IeeSendBatch, IInv, TypeInv, TypeOK, Phases, NoReq
  <1>3. PICK B \in SUBSET Head(work).labels :
           /\ Send([op |-> "add", doc |-> Head(work).doc, labels |-> B])
           /\ work' = [work EXCEPT ![1] = [doc |-> @.doc,
                                           labels |-> @.labels \ B]]
    BY DEF IeeSendBatch
  <1> DEFINE h == Head(work)
             m == [op |-> "add", doc |-> h.doc, labels |-> B]
             rest == [doc |-> h.doc, labels |-> h.labels \ B]
  <1>4. Ranked'
    BY <1>2, RankedKept DEF IInv, clientVars
  <1>5. /\ h \in AddMsg /\ rest \in AddMsg /\ m \in StoreMsg
        /\ Elements(work) = {h} \cup Elements(Tail(work))
        /\ Elements(work') = {rest} \cup Elements(Tail(work))
    <2>1. /\ h \in AddMsg /\ h = work[1] /\ Tail(work) \in Seq(AddMsg)
          /\ Len(work) \in Nat \ {0} /\ 1 \in DOMAIN work
      BY <1>2
    <2>2. rest \in AddMsg /\ m \in StoreMsg
      BY <2>1 DEF AddMsg, StoreMsg
    <2>3. work' = [work EXCEPT ![1] = rest]
      BY <1>3, <2>1
    <2>4. /\ work' \in Seq(AddMsg) /\ work' # <<>> /\ Head(work') = rest
          /\ Tail(work') = Tail(work)
      <3> HIDE DEF rest
      <3>1. work' \in Seq(AddMsg) /\ work' # <<>> /\ Head(work') = rest
            /\ Len(work') = Len(work)
        BY <1>2, <2>1, <2>2, <2>3
      <3>2. /\ DOMAIN Tail(work') = 1..Len(work) - 1
            /\ DOMAIN Tail(work) = 1..Len(work) - 1
            /\ \A i \in 1..Len(work) - 1 : Tail(work')[i] = Tail(work)[i]
        BY <1>2, <2>1, <2>2, <2>3, <3>1
      <3>3. Tail(work') \in Seq(AddMsg) /\ Tail(work) \in Seq(AddMsg)
            /\ Len(Tail(work')) = Len(Tail(work))
        BY <1>2, <3>1
      <3> QED BY <3>1, <3>2, <3>3
    <2> HIDE DEF h, rest
    <2>5. Elements(work') = {rest} \cup Elements(Tail(work))
      BY <2>4, ElementsTail
    <2>6. Elements(work) = {h} \cup Elements(Tail(work))
      BY <1>2, ElementsTail DEF h
    <2> QED BY <2>1, <2>2, <2>5, <2>6
  <1>6. /\ Streams'
        /\ InStreams' = InStreams \cup {m}
        /\ \A c \in Conns : Elements(toStore'[c]) =
              Elements(toStore[c]) \cup (IF c = sock THEN {m} ELSE {})
    BY <1>2, <1>3, <1>5, SendStreams DEF clientVars
  <1>7. InRequest' = InRequest
    BY <1>2 DEF InRequest
  <1>8. AddsSound'
    BY <1>2, <1>5, <1>6, <1>7
       DEF IInv, AddsSound, Sound, IsPosting, clientVars
  <1>9. NothingLost'
    <2> SUFFICES ASSUME clPc # "dead" \/ req.op = "search",
                        NEW w \in Words, NEW d \in 0..nDocs - 1, w \in docs[d]
                 PROVE  \/ Stored(w, d)
                        \/ \E x \in Elements(bulk) \cup Elements(work')
                                       \cup InStreams' :
                              x.doc = d /\ <<w, Rank(w, d)>> \in x.labels
      BY <1>2
         DEF NothingLost, OnItsWay, Stored, Rank, clientVars, storeVars
    <2>1. \/ Stored(w, d)
          \/ \E x \in Elements(bulk) \cup Elements(work) \cup InStreams :
                x.doc = d /\ <<w, Rank(w, d)>> \in x.labels
      BY <1>2 DEF IInv, NothingLost, OnItsWay
    <2>2. ASSUME h.doc = d, <<w, Rank(w, d)>> \in h.labels
          PROVE  \E x \in {rest, m} : x.doc = d /\ <<w, Rank(w, d)>> \in x.labels
      BY <2>2
    <2> HIDE DEF h, m, rest
    <2> QED BY <1>5, <1>6, <2>1, <2>2
  <1>10. Records'
    <2>1. \A c \in Conns : \A x \in Elements(toStore'[c]) : x.op # "dump"
      BY <1>2, <1>6, NoDump
    <2> QED BY <1>2, <2>1 DEF Records
  <1>11. Responses' /\ Progress'
    BY <1>2, NoLookUp DEF Responses, Progress
  <1>12. SearchIsServed' /\ ResponsesMatch'
    BY <1>2 DEF IInv, SearchIsServed, ResponsesMatch, storeVars
  <1> QED BY <1>1, <1>4, <1>6, <1>8, <1>9, <1>10, <1>11, <1>12 DEF IInv

\* Going on to the next message of a bulk keeps the invariant: nothing of the
\* one before is left.
LEMMA NextMessageSafe == ASSUME IInv, ieeExit = "no", IeeNextMessage PROVE IInv'
  <1> USE DEF IeeNextMessage
  <1>1. TypeInv'
    BY IeeTypes DEF IInv, IeeNext
  <1>2. Ranked'
    BY RankedKept DEF IInv, clientVars
  <1>3. /\ InRequest' = InRequest
        /\ Elements(work) = {Head(work)} \cup Elements(work')
        /\ Head(work).labels = {}
    BY ElementsTail DEF InRequest, IInv, TypeInv, TypeOK
  <1>4. AddsSound'
    BY <1>3 DEF IInv, AddsSound, InStreams, Sound, IsPosting, clientVars
  <1>5. NothingLost'
    BY <1>3
       DEF IInv, NothingLost, OnItsWay, InStreams, Stored, Rank, clientVars,
           storeVars
  <1>6. Streams'
    BY NoLookUp DEF IInv, Streams, clientVars
  <1>7. Records'
    BY DEF IInv, Records, clientVars, storeVars
  <1>8. Responses' /\ Progress'
    BY NoLookUp DEF Responses, Progress
  <1>9. SearchIsServed' /\ ResponsesMatch'
    BY DEF IInv, SearchIsServed, ResponsesMatch, storeVars
  <1> QED BY <1>1, <1>2, <1>4, <1>5, <1>6, <1>7, <1>8, <1>9 DEF IInv

\* The reply to a bulk keeps the invariant: all of it is in the stream.
LEMMA BulkDoneSafe == ASSUME IInv, ieeExit = "no", IeeBulkDone PROVE IInv'
  <1>1. TypeInv'
    BY IeeTypes DEF IInv, IeeNext
  <1>2. /\ ieePc = "update" /\ ieePc' = "idle" /\ work = <<>>
        /\ req # NoReq /\ req' = NoReq /\ req'.op = "none"
        /\ ieeExit' = ieeExit \/ ieeExit' \in {"no", "peer_lost"}
        /\ clPc \in {"await", "dead"}
        /\ UNCHANGED <<clientVars, sock, work, want, batch, got, toStore,
                       toIee, storeVars>>
    BY DEF IeeBulkDone, Reply, NoReq, IInv, TypeInv, Phases
  <1>3. Ranked'
    BY <1>2, RankedKept DEF IInv, clientVars
  <1>4. InRequest' = {} /\ Elements(work) = {}
    BY <1>2, ElementsEmpty DEF InRequest
  <1>5. AddsSound'
    BY <1>2, <1>4
       DEF IInv, AddsSound, InStreams, Sound, IsPosting, clientVars
  <1>6. NothingLost'
    BY <1>2, <1>4
       DEF IInv, NothingLost, OnItsWay, InStreams, Stored, Rank, clientVars,
           storeVars
  <1>7. Streams'
    BY <1>2, NoLookUp DEF IInv, Streams, clientVars
  <1>8. Records'
    BY <1>2, NoDump DEF Records
  <1>9. Responses' /\ Progress'
    BY <1>2, NoLookUp DEF Responses, Progress
  <1>10. SearchIsServed' /\ ResponsesMatch'
    BY <1>2 DEF IInv, SearchIsServed, ResponsesMatch, storeVars
  <1> QED BY <1>1, <1>3, <1>5, <1>6, <1>7, <1>8, <1>9, <1>10 DEF IInv

\* The start of search() keeps the invariant: a record is under way.
LEMMA IeeSearchSafe == ASSUME IInv, ieeExit = "no", IeeSearch PROVE IInv'
  <1> DEFINE m == [op |-> "record"]
  <1>1. TypeInv'
    BY IeeTypes DEF IInv, IeeNext
  <1>2. /\ ieePc = "idle" /\ ieePc' = "search" /\ req.op = "search"
        /\ req # NoReq /\ sock # 0 /\ clPc \notin {"new"}
        /\ Send(m) /\ want' = SlotsOf(req)
        /\ UNCHANGED <<clientVars, req, rep, ieeExit, sock, work, batch, toIee,
                       storeVars>>
    BY DEF IeeSearch, IInv, TypeInv, Phases, NoReq
  <1>3. Ranked'
    BY <1>2, RankedKept DEF IInv, clientVars
  <1>4. /\ Streams'
        /\ InStreams' = InStreams
        /\ \A c \in Conns : Elements(toStore'[c]) =
              Elements(toStore[c]) \cup (IF c = sock THEN {m} ELSE {})
    BY <1>2, SmallMsgs, SendStreams DEF clientVars
  <1>5. InRequest' = {} /\ InRequest = {}
    BY <1>2 DEF InRequest
  <1>6. AddsSound'
    BY <1>2, <1>4, <1>5
       DEF IInv, AddsSound, Sound, IsPosting, clientVars
  <1>7. NothingLost'
    BY <1>2, <1>4, <1>5
       DEF IInv, NothingLost, OnItsWay, Stored, Rank, clientVars, storeVars
  <1>8. Records'
    <2>1. sock \in Conns
      BY <1>2, SockFacts DEF IInv, TypeInv
    <2>2. \A c \in Conns : \A x \in Elements(toStore'[c]) : x.op # "dump"
      BY <1>2, <1>4, NoDump
    <2>3. m \in Elements(toStore'[sock']) /\ m.op = "record"
      BY <1>2, <1>4, <2>1
    <2> QED BY <2>2, <2>3 DEF Records
  <1>9. Responses' /\ Progress'
    BY <1>2, NoLookUp DEF Responses, Progress, SlotsOf
  <1>10. SearchIsServed' /\ ResponsesMatch'
    BY <1>2 DEF IInv, SearchIsServed, ResponsesMatch, storeVars
  <1> QED BY <1>1, <1>3, <1>4, <1>6, <1>7, <1>8, <1>9, <1>10 DEF IInv

\* A batch of labels keeps the invariant: it is the last message in the stream.
LEMMA SendLabelsSafe == ASSUME IInv, ieeExit = "no", IeeSendLabels PROVE IInv'
  <1>1. TypeInv'
    BY IeeTypes DEF IInv, IeeNext
  <1>2. PICK B \in SUBSET want :
           /\ batch' = B
           /\ Send([op |-> "search",
                    labels |-> {<<s, LabelOf(req, s)>> : s \in B}])
    BY DEF IeeSendLabels
  <1> DEFINE m == [op |-> "search",
                   labels |-> {<<s, LabelOf(req, s)>> : s \in B}]
  <1>3. /\ ieePc = "search" /\ ieePc' = "wait" /\ req.op = "search"
        /\ req # NoReq /\ sock # 0
        /\ UNCHANGED <<clientVars, req, rep, ieeExit, sock, work, want, got,
                       toIee, storeVars>>
    BY DEF IeeSendLabels, IInv, TypeInv, Phases, NoReq
  <1>4. TypeOK /\ sock \in Conns
    BY <1>3, SockFacts DEF IInv, TypeInv
  <1>5. m \in StoreMsg
    <2>1. \A s \in B : s \in Slots /\ LabelOf(req, s) \in Labels
      BY <1>3, LabelTypes DEF IInv, TypeInv, Wanted, TypeOK
    <2> QED BY <2>1 DEF StoreMsg
  <1> HIDE DEF m
  <1>6. toStore' = [toStore EXCEPT ![sock] = Append(@, m)]
    BY <1>2 DEF Send, m
  <1>7. m.op = "search" /\ m.labels = {<<s, LabelOf(req, s)>> : s \in batch'}
    BY <1>2 DEF m
  <1>8. Ranked'
    BY <1>3, RankedKept DEF IInv, clientVars
  <1>9. \A c \in Conns : Elements(toStore'[c]) =
           Elements(toStore[c]) \cup (IF c = sock THEN {m} ELSE {})
    BY <1>4, <1>5, <1>6, SendEffect
  <1>10. InStreams' = InStreams /\ InRequest' = {} /\ InRequest = {}
    BY <1>3, <1>7, <1>9 DEF InStreams, InRequest
  <1>11. AddsSound'
    BY <1>3, <1>10
       DEF IInv, AddsSound, Sound, IsPosting, clientVars
  <1>12. NothingLost'
    BY <1>3, <1>10
       DEF IInv, NothingLost, OnItsWay, Stored, Rank, clientVars, storeVars
  <1>13. Streams'
    <2>1. \A c \in Conns : c # sock => toStore'[c] = <<>>
      BY <1>4, <1>5, <1>6, SendEffect DEF IInv, Streams
    <2>2. clPc' # "new" /\ req'.op # "setup"
      BY <1>3 DEF IInv, TypeInv, Phases, NoReq, clientVars
    <2>3. ASSUME NEW c \in Conns, NEW i \in DOMAIN toStore'[c],
                 toStore'[c][i].op = "search"
          PROVE  /\ i = Len(toStore'[c])
                 /\ ieePc' = "wait"
                 /\ toIee'[c] = <<>>
                 /\ toStore'[c][i].labels =
                       {<<s, LabelOf(req', s)>> : s \in batch'}
      <3>1. c = sock
        BY <1>4, <1>5, <1>6, <2>3, SendEffect, NoLookUp, <1>3
      <3>2. i \in 1..Len(toStore[c]) \/ i = Len(toStore[c]) + 1
        BY <1>4, <1>5, <1>6, <3>1, SendEffect
      <3>3. i = Len(toStore[c]) + 1 /\ toStore'[c][i] = m
        BY <1>3, <1>4, <1>5, <1>6, <2>3, <3>1, <3>2, SendEffect, NoLookUp
      <3>4. i = Len(toStore'[c])
        BY <1>4, <1>5, <1>6, <3>1, <3>3, SendEffect
      <3>5. toStore'[c][i].labels = {<<s, LabelOf(req', s)>> : s \in batch'}
        BY <1>3, <1>7, <3>3
      <3> QED BY <1>3, <3>4, <3>5, NoLookUp
    <2> QED BY <1>3, <2>1, <2>2, <2>3 DEF Streams, LabelOf
  <1>14. Records'
    <2>1. \A c \in Conns : \A x \in Elements(toStore'[c]) : x.op # "dump"
      BY <1>3, <1>7, <1>9, NoDump
    <2> QED BY <1>3, <1>4, <1>9, <2>1 DEF IInv, Records, storeVars
  <1>15. Responses' /\ Progress'
    BY <1>3, NoLookUp
       DEF IInv, Responses, Progress, SlotsOf, LabelOf, IsPosting, clientVars
  <1>16. SearchIsServed' /\ ResponsesMatch'
    BY <1>3 DEF IInv, SearchIsServed, ResponsesMatch, storeVars
  <1> QED BY <1>1, <1>8, <1>11, <1>12, <1>13, <1>14, <1>15, <1>16 DEF IInv

\* Receiving a response keeps the invariant: it passes the check of its labels.
LEMMA IeeReceiveSafe == ASSUME IInv, ieeExit = "no", IeeReceive PROVE IInv'
  <1> DEFINE r == Head(toIee[sock])
  <1>1. TypeInv'
    BY IeeTypes DEF IInv, IeeNext
  <1>2. /\ ieePc = "wait" /\ req.op = "search" /\ req # NoReq
        /\ sock \in Conns /\ toIee[sock] # <<>>
        /\ toIee \in [Conns -> Seq(Entries)]
        /\ toIee' = [toIee EXCEPT ![sock] = Tail(@)]
        /\ UNCHANGED <<clientVars, req, rep, sock, work, toStore, storeVars>>
    BY SockFacts DEF IeeReceive, IInv, TypeInv, TypeOK, Phases, NoReq
  <1>3. /\ toIee[sock] \in Seq(Entries) /\ Len(toIee[sock]) = 1
        /\ r = toIee[sock][1] /\ r \in Entries
        /\ Verified(r)
        /\ \A e \in r : IsPosting(e[2], e[3])
    <2>1. toIee[sock] \in Seq(Entries) /\ Len(toIee[sock]) = 1
          /\ r = toIee[sock][1] /\ r \in Entries
      BY <1>2 DEF IInv, Responses
    <2> QED BY <1>2, <2>1 DEF IInv, Responses
  <1>4. /\ got' = [s \in Slots |-> IF s \in batch
                                  THEN (CHOOSE e \in r : e[1] = s)[3]
                                  ELSE got[s]]
        /\ want' = want \ batch /\ batch' = {} /\ ieePc' = "search"
        /\ ieeExit' = ieeExit
    BY <1>3 DEF IeeReceive
  <1>5. \A c \in Conns : toIee'[c] = <<>>
    <2>1. Tail(toIee[sock]) = <<>>
      <3>1. ASSUME NEW s \in Seq(Entries), Len(s) = 1 PROVE Tail(s) = <<>>
        <4>1. Tail(s) \in Seq(Entries) /\ Len(Tail(s)) = 0
          BY <3>1
        <4> QED BY <4>1, EmptySeq
      <3> QED BY <1>3, <3>1
    <2>2. \A c \in Conns : c # sock => toIee[c] = <<>>
      BY DEF IInv, Responses
    <2> QED BY <1>2, <2>1, <2>2
  <1>6. \A c \in Conns : \A i \in DOMAIN toStore[c] :
           toStore[c][i].op # "search"
    BY <1>2 DEF IInv, Streams
  <1>7. Ranked'
    BY <1>2, RankedKept DEF IInv, clientVars
  <1>8. InStreams' = InStreams /\ InRequest' = {} /\ InRequest = {}
    BY <1>2 DEF InStreams, InRequest
  <1>9. AddsSound'
    BY <1>2, <1>8
       DEF IInv, AddsSound, Sound, IsPosting, clientVars
  <1>10. NothingLost'
    BY <1>2, <1>8
       DEF IInv, NothingLost, OnItsWay, Stored, Rank, clientVars, storeVars
  <1>11. Streams'
    BY <1>2, <1>6 DEF IInv, Streams, clientVars
  <1>12. Records'
    BY <1>2 DEF IInv, Records, clientVars, storeVars
  <1>13. Responses'
    BY <1>5 DEF Responses
  <1>14. Progress'
    <2> SUFFICES ASSUME NEW s \in SlotsOf(req), s \notin want \ batch
                 PROVE  IsPosting(LabelOf(req, s), got'[s])
      BY <1>2, <1>4 DEF Progress, SlotsOf, LabelOf, IsPosting, clientVars
    <2>1. s \in Slots
      BY DEF SlotsOf
    <2>2. CASE s \in batch
      <3> DEFINE e == CHOOSE x \in r : x[1] = s
      <3>1. e \in r /\ e[2] = LabelOf(req, s)
        BY <1>3, <2>2, EntryFor
      <3>2. got'[s] = e[3]
        BY <1>4, <2>1, <2>2
      <3> QED BY <1>3, <3>1, <3>2
    <2>3. CASE s \notin batch
      <3>1. got'[s] = got[s]
        BY <1>4, <2>1, <2>3
      <3> QED BY <1>2, <2>3, <3>1 DEF IInv, Progress
    <2> QED BY <2>2, <2>3
  <1>15. SearchIsServed' /\ ResponsesMatch'
    BY <1>2, <1>4 DEF IInv, SearchIsServed, ResponsesMatch, storeVars
  <1> QED BY <1>1, <1>7, <1>9, <1>10, <1>11, <1>12, <1>13, <1>14, <1>15 DEF IInv

\* The reply to a search keeps the invariant.
LEMMA EvaluateSafe == ASSUME IInv, ieeExit = "no", IeeEvaluate PROVE IInv'
  <1>1. TypeInv'
    BY IeeTypes DEF IInv, IeeNext
  <1>2. /\ ieePc = "search" /\ req.op = "search" /\ req # NoReq /\ want = {}
        /\ UNCHANGED <<clientVars, sock, work, want, batch, toStore, toIee,
                       storeVars>>
    BY DEF IeeEvaluate, IInv, TypeInv, Phases, NoReq
  <1>3. \/ /\ ieeExit' = "malformed_query"
           /\ UNCHANGED <<req, rep, ieePc, got>>
        \/ /\ req' = NoReq /\ req'.op = "none" /\ ieePc' = "idle"
           /\ ieeExit' = ieeExit \/ ieeExit' \in {"no", "peer_lost"}
           /\ clPc \in {"await", "dead"}
    <2>1. ASSUME NEW best, Reply([op |-> "docs", docs |-> best])
          PROVE  /\ req' = NoReq /\ req'.op = "none" /\ ieePc' = "idle"
                 /\ ieeExit' = ieeExit \/ ieeExit' \in {"no", "peer_lost"}
                 /\ clPc \in {"await", "dead"}
      BY <2>1 DEF Reply, NoReq
    <2> QED BY <2>1 DEF IeeEvaluate, Exit
  <1>4. Ranked'
    BY <1>2, RankedKept DEF IInv, clientVars
  <1>5. InStreams' = InStreams /\ InRequest' = {} /\ InRequest = {}
    BY <1>2, <1>3 DEF InStreams, InRequest
  <1>6. AddsSound'
    BY <1>2, <1>5
       DEF IInv, AddsSound, Sound, IsPosting, clientVars
  <1>7. NothingLost'
    BY <1>2, <1>3, <1>5
       DEF IInv, NothingLost, OnItsWay, Stored, Rank, clientVars, storeVars
  <1>8. Streams'
    BY <1>2, <1>3, NoLookUp DEF IInv, Streams, clientVars
  <1>9. Records'
    BY <1>2, <1>3, NoDump DEF IInv, Records, clientVars, storeVars
  <1>10. Responses' /\ Progress'
    BY <1>2, <1>3, NoLookUp
       DEF IInv, Responses, Progress, SlotsOf, LabelOf, IsPosting, clientVars
  <1>11. SearchIsServed' /\ ResponsesMatch'
    BY <1>2, <1>3 DEF IInv, SearchIsServed, ResponsesMatch, storeVars
  <1> QED BY <1>1, <1>4, <1>6, <1>7, <1>8, <1>9, <1>10, <1>11 DEF IInv

\* The benchmark message keeps the invariant.
LEMMA IeeDumpSafe == ASSUME IInv, ieeExit = "no", IeeDumpBench PROVE IInv'
  <1> DEFINE m == [op |-> "dump"]
  <1>1. TypeInv'
    BY IeeTypes DEF IInv, IeeNext
  <1>2. /\ ieePc = "idle" /\ ieePc' = "idle" /\ req.op = "bench"
        /\ sock # 0 /\ clPc \notin {"new"}
        /\ Send(m) /\ req' = NoReq /\ req'.op = "none"
        /\ \/ clPc = "await" /\ rep' = EmptyReply
           \/ clPc = "dead" /\ rep' = rep
        /\ ieeExit' = ieeExit \/ ieeExit' \in {"no", "peer_lost"}
        /\ UNCHANGED <<clientVars, sock, work, want, batch, got, toIee,
                       storeVars>>
    BY DEF IeeDumpBench, Reply, IInv, TypeInv, Phases, NoReq
  <1>3. Ranked'
    BY <1>2, RankedKept DEF IInv, clientVars
  <1>4. Streams' /\ InStreams' = InStreams
    BY <1>2, SmallMsgs, SendStreams DEF clientVars
  <1>5. InRequest' = {} /\ InRequest = {}
    BY <1>2 DEF InRequest
  <1>6. AddsSound'
    BY <1>2, <1>4, <1>5
       DEF IInv, AddsSound, Sound, IsPosting, clientVars
  <1>7. NothingLost'
    BY <1>2, <1>4, <1>5
       DEF IInv, NothingLost, OnItsWay, Stored, Rank, clientVars, storeVars
  <1>8. Records'
    BY <1>2 DEF Records, clientVars
  <1>9. Responses' /\ Progress'
    BY <1>2, NoLookUp DEF Responses, Progress
  <1>10. SearchIsServed' /\ ResponsesMatch'
    BY <1>2 DEF IInv, SearchIsServed, ResponsesMatch, storeVars
  <1> QED BY <1>1, <1>3, <1>4, <1>6, <1>7, <1>8, <1>9, <1>10 DEF IInv

\* An exit of the IEE keeps the invariant.
LEMMA SocketErrorSafe == ASSUME IInv, ieeExit = "no", IeeSocketError PROVE IInv'
  <1>1. TypeInv'
    BY IeeTypes DEF IInv, IeeNext
  <1>2. /\ ieeExit' = "socket"
        /\ UNCHANGED <<clientVars, req, rep, ieePc, sock, work, want, batch,
                       got, toStore, toIee, storeVars>>
    BY DEF IeeSocketError, Exit
  <1>3. Ranked'
    BY <1>2, RankedKept DEF IInv, clientVars
  <1>4. AddsSound'
    BY <1>2 DEF IInv, AddsSound, InRequest, InStreams, Sound, IsPosting,
                clientVars
  <1>5. NothingLost'
    BY <1>2
       DEF IInv, NothingLost, OnItsWay, InRequest, InStreams, Stored, Rank,
           clientVars, storeVars
  <1>6. Streams' /\ Records'
    BY <1>2 DEF IInv, Streams, Records, LabelOf, clientVars, storeVars
  <1>7. Responses' /\ Progress'
    BY <1>2
       DEF IInv, Responses, Verified, Progress, IsPosting, SlotsOf, LabelOf,
           clientVars
  <1>8. SearchIsServed' /\ ResponsesMatch'
    BY <1>2 DEF IInv, SearchIsServed, ResponsesMatch, storeVars
  <1> QED BY <1>1, <1>3, <1>4, <1>5, <1>6, <1>7, <1>8 DEF IInv

-----------------------------------------------------------------------------
(* The actions of the storage service *)

\* What reading any message but a look-up does.
LEMMA ReadStreams ==
    ASSUME IInv, NEW c \in Conns, NEW op, Reads(c, op), op # "search",
           UNCHANGED <<clientVars, req, rep, ieeVars, toIee>>
    PROVE  /\ Streams'
           /\ InStreams \subseteq InStreams'
                 \cup (IF op = "add" THEN {Head(toStore[c])} ELSE {})
           /\ InStreams' \subseteq InStreams
           /\ \A k \in Conns : Elements(toStore[k]) =
                 (IF k = c THEN {Head(toStore[c])} ELSE {})
                    \cup Elements(toStore'[k])
  <1>1. TypeOK
    BY DEF IInv, TypeInv
  <1>2. \A k \in Conns : Elements(toStore[k]) =
           (IF k = c THEN {Head(toStore[c])} ELSE {}) \cup Elements(toStore'[k])
    BY <1>1, ReadEffect
  <1>3. Head(toStore[c]).op = op
    BY <1>1, ReadEffect
  <1>4. /\ InStreams \subseteq InStreams'
              \cup (IF op = "add" THEN {Head(toStore[c])} ELSE {})
        /\ InStreams' \subseteq InStreams
    BY <1>2, <1>3 DEF InStreams
  <1>5. c = sock /\ toStore[c] # <<>>
    BY DEF IInv, Streams, Reads
  <1>6. \A k \in Conns : k # sock => toStore'[k] = <<>>
    BY <1>1, <1>5, ReadEffect DEF IInv, Streams
  <1>7. clPc # "new" /\ req.op # "setup"
    BY <1>5 DEF IInv, Streams
  <1>8. ASSUME NEW k \in Conns, NEW i \in DOMAIN toStore'[k],
               toStore'[k][i].op = "search"
        PROVE  /\ i = Len(toStore'[k]) /\ ieePc = "wait" /\ toIee[k] = <<>>
               /\ toStore'[k][i].labels =
                     {<<s, LabelOf(req, s)>> : s \in batch}
    <2>1. k = c
      BY <1>5, <1>6, <1>8
    <2>2. /\ i \in 1..Len(toStore[c]) - 1 /\ Len(toStore[c]) \in Nat
          /\ Len(toStore'[c]) = Len(toStore[c]) - 1
          /\ toStore'[c][i] = toStore[c][i + 1]
          /\ DOMAIN toStore[c] = 1..Len(toStore[c])
      BY <1>1, <2>1, ReadEffect
    <2>3. i + 1 \in DOMAIN toStore[c] /\ toStore[c][i + 1].op = "search"
      BY <1>8, <2>1, <2>2
    <2>4. /\ i + 1 = Len(toStore[c]) /\ ieePc = "wait" /\ toIee[c] = <<>>
          /\ toStore[c][i + 1].labels = {<<s, LabelOf(req, s)>> : s \in batch}
      BY <2>3 DEF IInv, Streams
    <2> QED BY <2>1, <2>2, <2>4
  <1>9. Streams'
    BY <1>6, <1>7, <1>8 DEF Streams, LabelOf, clientVars, ieeVars
  <1> QED BY <1>2, <1>4, <1>9

\* OP_UEE_INIT keeps the invariant.
LEMMA StoreInitSafe ==
    ASSUME IInv, storeExit = "no", NEW c \in Conns, StoreInit(c) PROVE IInv'
  <1>1. TypeInv'
    BY StoreTypes DEF IInv, StoreNext
  <1>2. /\ Reads(c, "init")
        /\ UNCHANGED <<clientVars, req, rep, ieeVars, toIee, storeVars>>
    BY DEF StoreInit
  <1>3. Head(toStore[c]).op = "init"
    BY <1>2 DEF Reads
  <1>4. Ranked'
    BY <1>2, RankedKept DEF IInv, clientVars
  <1>5. /\ Streams' /\ InStreams' = InStreams
        /\ \A k \in Conns : Elements(toStore[k]) =
              (IF k = c THEN {Head(toStore[c])} ELSE {}) \cup Elements(toStore'[k])
    BY <1>2, ReadStreams
  <1>6. InRequest' = InRequest
    BY <1>2 DEF InRequest
  <1>7. AddsSound'
    BY <1>2, <1>5, <1>6
       DEF IInv, AddsSound, Sound, IsPosting, clientVars, ieeVars
  <1>8. NothingLost'
    BY <1>2, <1>5, <1>6
       DEF IInv, NothingLost, OnItsWay, Stored, Rank, clientVars, ieeVars,
           storeVars
  <1>9. Records'
    <2>1. \A k \in Conns : \A x \in Elements(toStore'[k]) :
             x \in Elements(toStore[k])
      BY <1>5
    <2>2. \A x \in Elements(toStore[sock]) :
             sock \in Conns /\ x.op = "record" => x \in Elements(toStore'[sock])
      BY <1>3, <1>5
    <2>3. ieePc \in {"search", "wait"} => sock \in Conns
      BY SockFacts DEF IInv, TypeInv, Phases
    <2> QED BY <1>2, <2>1, <2>2, <2>3
            DEF IInv, Records, clientVars, ieeVars, storeVars
  <1>10. Responses' /\ Progress'
    BY <1>2
       DEF IInv, Responses, Verified, Progress, IsPosting, SlotsOf, LabelOf,
           clientVars, ieeVars
  <1>11. SearchIsServed' /\ ResponsesMatch'
    BY <1>2 DEF IInv, SearchIsServed, ResponsesMatch, storeVars, ieeVars
  <1> QED BY <1>1, <1>4, <1>5, <1>7, <1>8, <1>9, <1>10, <1>11 DEF IInv

\* A new record keeps the invariant.
LEMMA StoreRecordSafe ==
    ASSUME IInv, storeExit = "no", NEW c \in Conns, StoreRecord(c) PROVE IInv'
  <1>1. TypeInv'
    BY StoreTypes DEF IInv, StoreNext
  <1>2. /\ Reads(c, "record") /\ hasRecord' = TRUE
        /\ UNCHANGED <<clientVars, req, rep, ieeVars, toIee, closed, index,
                       storeExit>>
    BY DEF StoreRecord
  <1>3. Ranked'
    BY <1>2, RankedKept DEF IInv, clientVars
  <1>4. /\ Streams' /\ InStreams' = InStreams
        /\ \A k \in Conns : Elements(toStore[k]) =
              (IF k = c THEN {Head(toStore[c])} ELSE {}) \cup Elements(toStore'[k])
    <2>1. /\ Streams' /\ InStreams' \subseteq InStreams
          /\ InStreams \subseteq InStreams'
                \cup (IF "record" = "add" THEN {Head(toStore[c])} ELSE {})
          /\ \A k \in Conns : Elements(toStore[k]) =
                (IF k = c THEN {Head(toStore[c])} ELSE {})
                   \cup Elements(toStore'[k])
      BY <1>2, ReadStreams
    <2> QED BY <2>1
  <1>5. InRequest' = InRequest
    BY <1>2 DEF InRequest
  <1>6. AddsSound'
    BY <1>2, <1>4, <1>5
       DEF IInv, AddsSound, Sound, IsPosting, clientVars, ieeVars
  <1>7. NothingLost'
    BY <1>2, <1>4, <1>5
       DEF IInv, NothingLost, OnItsWay, Stored, Rank, clientVars, ieeVars
  <1>8. Records'
    <2>1. \A k \in Conns : \A x \in Elements(toStore'[k]) :
             x \in Elements(toStore[k])
      BY <1>4
    <2> QED BY <1>2, <2>1 DEF IInv, Records, clientVars, ieeVars
  <1>9. Responses' /\ Progress'
    BY <1>2
       DEF IInv, Responses, Verified, Progress, IsPosting, SlotsOf, LabelOf,
           clientVars, ieeVars
  <1>10. SearchIsServed' /\ ResponsesMatch'
    BY <1>2 DEF IInv, SearchIsServed, ResponsesMatch, ieeVars
  <1> QED BY <1>1, <1>3, <1>4, <1>6, <1>7, <1>8, <1>9, <1>10 DEF IInv

\* An add that is read overwrites no posting: its labels are ranks, and no two
\* documents have the same rank for a word.
LEMMA AddKeepsStored ==
    ASSUME IInv, NEW c \in Conns, StoreAdd(c),
           NEW w \in Words, NEW d \in 0..nDocs - 1, w \in docs[d]
    PROVE  LET l == <<w, Rank(w, d)>>
               m == Head(toStore[c])
           IN  /\ l \in Labels
               /\ m \in InStreams
               /\ l \in m.labels => m.doc = d
               /\ index'[l] = IF l \in m.labels THEN d ELSE index[l]
  <1> DEFINE l == <<w, Rank(w, d)>>
             m == Head(toStore[c])
  <1>1. TypeOK /\ Reads(c, "add")
    BY DEF IInv, TypeInv, StoreAdd
  <1>2. m \in InStreams
    <2>1. m \in Elements(toStore[c]) /\ m.op = "add"
      BY <1>1, ReadEffect
    <2> QED BY <2>1 DEF InStreams
  <1>3. l \in Labels
    <2>1. /\ W[w] \in 0..MaxDocs /\ nDocs \in 0..MaxDocs
          /\ Rank(w, d) < W[w] /\ d \in Nat
      BY <1>1 DEF TypeOK, IInv, Ranked
    <2>2. Rank(w, d) \in Nat
      BY <2>1, RankInNat DEF Rank
    <2>3. Rank(w, d) \in DocIds
      BY <2>1, <2>2, BisenAssumption DEF DocIds, BisenAssumption
    <2> QED BY <2>3 DEF Labels
  <1>4. l \in m.labels => m.doc = d
    <2>1. SUFFICES ASSUME l \in m.labels PROVE m.doc = d
      OBVIOUS
    <2>2. IsPosting(l, m.doc)
      BY <1>2, <2>1 DEF IInv, AddsSound, Sound
    <2>3. /\ m.doc \in 0..nDocs - 1 /\ w \in docs[m.doc]
          /\ Rank(w, d) = Rank(w, m.doc)
      BY <2>2 DEF IsPosting, PostingIn, Rank
    <2> QED BY <2>3 DEF IInv, Ranked
  <1>5. index' = [x \in Labels |-> IF x \in m.labels THEN m.doc ELSE index[x]]
    BY DEF StoreAdd
  <1>6. index'[l] = IF l \in m.labels THEN d ELSE index[l]
    <2> HIDE DEF l, m
    <2> QED BY <1>3, <1>4, <1>5
  <1> QED BY <1>2, <1>3, <1>4, <1>6

\* OP_UEE_ADD keeps the invariant: what leaves the stream is stored.
LEMMA StoreAddSafe ==
    ASSUME IInv, storeExit = "no", NEW c \in Conns, StoreAdd(c) PROVE IInv'
  <1>1. TypeInv'
    BY StoreTypes DEF IInv, StoreNext
  <1>2. /\ Reads(c, "add")
        /\ UNCHANGED <<clientVars, req, rep, ieeVars, toIee, closed, hasRecord,
                       storeExit>>
    BY DEF StoreAdd
  <1>3. Head(toStore[c]).op = "add"
    BY <1>2 DEF Reads
  <1>4. Ranked'
    BY <1>2, RankedKept DEF IInv, clientVars
  <1>5. /\ Streams' /\ InStreams' \subseteq InStreams
        /\ InStreams \subseteq InStreams' \cup {Head(toStore[c])}
        /\ \A k \in Conns : Elements(toStore[k]) =
              (IF k = c THEN {Head(toStore[c])} ELSE {}) \cup Elements(toStore'[k])
    BY <1>2, ReadStreams
  <1>6. InRequest' = InRequest
    BY <1>2 DEF InRequest
  <1>7. AddsSound'
    BY <1>2, <1>5, <1>6
       DEF IInv, AddsSound, Sound, IsPosting, clientVars, ieeVars
  <1>8. NothingLost'
    <2> SUFFICES ASSUME clPc # "dead" \/ req.op = "search",
                        NEW w \in Words, NEW d \in 0..nDocs - 1, w \in docs[d]
                 PROVE  \/ index'[<<w, Rank(w, d)>>] = d
                        \/ \E x \in OnItsWay' :
                              x.doc = d /\ <<w, Rank(w, d)>> \in x.labels
      BY <1>2 DEF NothingLost, Stored, Rank, clientVars
    <2>1. CASE <<w, Rank(w, d)>> \in Head(toStore[c]).labels
      BY <2>1, AddKeepsStored
    <2>2. CASE <<w, Rank(w, d)>> \notin Head(toStore[c]).labels
      <3>1. \/ Stored(w, d)
            \/ \E x \in OnItsWay : x.doc = d /\ <<w, Rank(w, d)>> \in x.labels
        BY DEF IInv, NothingLost
      <3>2. OnItsWay \subseteq OnItsWay' \cup {Head(toStore[c])}
        BY <1>2, <1>5, <1>6 DEF OnItsWay, clientVars, ieeVars
      <3> QED BY <2>2, <3>1, <3>2, AddKeepsStored DEF Stored
    <2> QED BY <2>1, <2>2
  <1>9. Records'
    <2>1. \A k \in Conns : \A x \in Elements(toStore'[k]) :
             x \in Elements(toStore[k])
      BY <1>5
    <2>2. \A x \in Elements(toStore[sock]) :
             sock \in Conns /\ x.op = "record" => x \in Elements(toStore'[sock])
      BY <1>3, <1>5
    <2>3. ieePc \in {"search", "wait"} => sock \in Conns
      BY SockFacts DEF IInv, TypeInv, Phases
    <2> QED BY <1>2, <2>1, <2>2, <2>3 DEF IInv, Records, clientVars, ieeVars
  <1>10. Responses' /\ Progress'
    BY <1>2
       DEF IInv, Responses, Verified, Progress, IsPosting, SlotsOf, LabelOf,
           clientVars, ieeVars
  <1>11. SearchIsServed' /\ ResponsesMatch'
    BY <1>2 DEF IInv, SearchIsServed, ResponsesMatch, ieeVars
  <1> QED BY <1>1, <1>4, <1>5, <1>7, <1>8, <1>9, <1>10, <1>11 DEF IInv

\* When a look-up is read, everything on the way to the index has arrived.
LEMMA LookUpFinds ==
    ASSUME IInv, NEW c \in Conns, Reads(c, "search")
    PROVE  LET m == Head(toStore[c])
           IN  /\ c = sock /\ ieePc = "wait" /\ toIee[c] = <<>>
               /\ m.labels = {<<s, LabelOf(req, s)>> : s \in batch}
               /\ toStore'[c] = <<>>
               /\ Elements(toStore[c]) = {m}
               /\ \A p \in m.labels : /\ index[p[2]] # NoDoc
                                      /\ IsPosting(p[2], index[p[2]])
  <1> DEFINE m == Head(toStore[c])
  <1>1. TypeOK /\ toStore[c] # <<>> /\ m = toStore[c][1] /\ m.op = "search"
        /\ 1 \in DOMAIN toStore[c] /\ Len(toStore[c]) \in Nat
    BY ReadEffect DEF IInv, TypeInv
  <1>2. /\ c = sock /\ ieePc = "wait" /\ toIee[c] = <<>>
        /\ Len(toStore[c]) = 1
        /\ m.labels = {<<s, LabelOf(req, s)>> : s \in batch}
    BY <1>1 DEF IInv, Streams
  <1>3. toStore'[c] = <<>> /\ Elements(toStore[c]) = {m}
    <2>1. toStore'[c] \in Seq(StoreMsg) /\ Len(toStore'[c]) = 0
      BY <1>1, <1>2, ReadType, ReadEffect
    <2>2. toStore'[c] = <<>>
      BY <2>1, EmptySeq
    <2> QED BY <1>1, <2>2, ReadEffect, ElementsEmpty
  <1>4. OnItsWay = {}
    <2>1. /\ req.op = "search" /\ bulk = <<>> /\ work = <<>>
      BY <1>2 DEF IInv, TypeInv, Phases, NoReq
    <2>2. \A k \in Conns : Elements(toStore[k]) \subseteq {m}
      BY <1>2, <1>3, ElementsEmpty DEF IInv, Streams
    <2>3. InStreams = {}
      BY <1>1, <2>2 DEF InStreams
    <2> QED BY <2>1, <2>3, ElementsEmpty DEF OnItsWay, InRequest
  <1>5. ASSUME NEW p \in m.labels
        PROVE  index[p[2]] # NoDoc /\ IsPosting(p[2], index[p[2]])
    <2>1. PICK s \in batch : p = <<s, LabelOf(req, s)>>
      BY <1>2, <1>5
    <2>2. /\ req.op = "search" /\ req \in Requests /\ s \in SlotsOf(req)
          /\ req.counter = W
      BY <1>2 DEF IInv, TypeInv, TypeOK, Phases, Wanted
    <2>3. LabelOf(req, s) \in Labels
      BY <2>2, LabelTypes
    <2> DEFINE w == req.rpn[s[1]]
               n == s[2]
    <2>4. p[2] = <<w, n>> /\ w \in Words /\ n \in DocIds
      BY <2>1, <2>3 DEF LabelOf, Labels
    <2>5. n \in 0..W[w] - 1
      <3>1. n < W[w]
        BY <2>2 DEF SlotsOf
      <3>2. W[w] \in 0..MaxDocs
        BY <1>1, <2>4 DEF TypeOK
      <3> QED BY <2>4, <3>1, <3>2, BisenAssumption DEF BisenAssumption, DocIds
    <2>6. PICK d \in 0..nDocs - 1 : w \in docs[d] /\ Rank(w, d) = n
      BY <2>4, <2>5 DEF IInv, Ranked
    <2>7. Stored(w, d)
      BY <1>4, <2>2, <2>4, <2>6 DEF IInv, NothingLost
    <2>8. index[p[2]] = d
      BY <2>4, <2>6, <2>7 DEF Stored
    <2>9. d # NoDoc
      <3>1. nDocs \in Nat
        BY <1>1 DEF TypeOK
      <3> QED BY <3>1 DEF NoDoc
    <2> QED BY <2>4, <2>6, <2>8, <2>9 DEF IsPosting, PostingIn, Rank
  <1> HIDE DEF m
  <1> QED BY <1>2, <1>3, <1>5 DEF m

\* OP_UEE_SEARCH keeps the invariant: all it is asked for is there.
LEMMA StoreSearchSafe ==
    ASSUME IInv, storeExit = "no", NEW c \in Conns, StoreSearch(c) PROVE IInv'
  <1> DEFINE m == Head(toStore[c])
             answered == {<<p[1], p[2], index[p[2]]>> : p \in m.labels}
  <1>1. TypeInv'
    BY StoreTypes DEF IInv, StoreNext
  <1>2. /\ TypeOK /\ Reads(c, "search")
        /\ UNCHANGED <<clientVars, req, rep, ieeVars, closed, index, hasRecord>>
    BY DEF StoreSearch, IInv, TypeInv
  <1>3. /\ c = sock /\ ieePc = "wait" /\ toIee[c] = <<>>
        /\ m.labels = {<<s, LabelOf(req, s)>> : s \in batch}
        /\ toStore'[c] = <<>>
        /\ Elements(toStore[c]) = {m}
        /\ \A p \in m.labels : /\ index[p[2]] # NoDoc
                               /\ IsPosting(p[2], index[p[2]])
    BY <1>2, LookUpFinds
  <1>4. m.op = "search"
    BY <1>2 DEF Reads
  <1>5. hasRecord
    <2>1. ~ \E x \in Elements(toStore[sock]) : x.op = "record"
      BY <1>3, <1>4
    <2> QED BY <1>3, <2>1 DEF IInv, Records
  <1>6. /\ toIee' = [toIee EXCEPT ![c] = Append(@, answered)]
        /\ storeExit' = storeExit
    BY <1>3, <1>5 DEF StoreSearch, Found
  <1>7. Ranked'
    BY <1>2, RankedKept DEF IInv, clientVars
  <1>8. \A k \in Conns : toStore'[k] = <<>>
    BY <1>2, <1>3, ReadEffect DEF IInv, Streams
  <1>9. InStreams' = {} /\ InStreams = {} /\ InRequest' = InRequest
    <2>1. \A k \in Conns : Elements(toStore[k]) \subseteq {m}
      BY <1>3, ElementsEmpty DEF IInv, Streams
    <2> QED BY <1>2, <1>4, <1>8, <2>1, ElementsEmpty DEF InStreams, InRequest
  <1>10. AddsSound'
    BY <1>2, <1>9
       DEF IInv, AddsSound, Sound, IsPosting, clientVars, ieeVars
  <1>11. NothingLost'
    BY <1>2, <1>9
       DEF IInv, NothingLost, OnItsWay, Stored, Rank, clientVars, ieeVars
  <1>12. Streams'
    BY <1>8 DEF Streams
  <1>13. Records'
    BY <1>2, <1>5, <1>8, ElementsEmpty DEF Records
  <1>14. Responses'
    <2>1. /\ toIee'[c] = Append(<<>>, answered)
          /\ \A k \in Conns : k # c => toIee'[k] = toIee[k]
      BY <1>2, <1>3, <1>6 DEF TypeOK
    <2>2. Len(toIee'[c]) = 1 /\ toIee'[c][1] = answered
      <3> HIDE DEF answered
      <3> QED BY <2>1
    <2>3. {<<e[1], e[2]>> : e \in answered}
             = {<<s, LabelOf(req, s)>> : s \in batch}
      <3>1. m.labels \in SUBSET (Slots \X Labels)
        BY <1>2, <1>4, ReadType DEF StoreMsg
      <3>2. \A p \in m.labels : p = <<p[1], p[2]>>
        BY <3>1
      <3>3. \A e : e \in answered <=>
                      \E p \in m.labels : e = <<p[1], p[2], index[p[2]]>>
        OBVIOUS
      <3> HIDE DEF m, answered
      <3>4. ASSUME NEW e \in answered PROVE <<e[1], e[2]>> \in m.labels
        <4>1. PICK p \in m.labels : e = <<p[1], p[2], index[p[2]]>>
          BY <3>3
        <4>2. e[1] = p[1] /\ e[2] = p[2]
          BY <4>1
        <4> QED BY <3>2, <4>2
      <3>5. ASSUME NEW p \in m.labels
            PROVE  \E e \in answered : <<e[1], e[2]>> = p
        <4> DEFINE e == <<p[1], p[2], index[p[2]]>>
        <4>1. e \in answered
          BY <3>3
        <4>2. e[1] = p[1] /\ e[2] = p[2]
          OBVIOUS
        <4> HIDE DEF e
        <4> QED BY <3>2, <4>1, <4>2
      <3>6. {<<e[1], e[2]>> : e \in answered} = m.labels
        BY <3>4, <3>5
      <3> QED BY <1>3, <3>6
    <2>4. \A e \in answered : IsPosting(e[2], e[3])
      BY <1>3
    <2>5. \A k \in Conns : k # c => toIee'[k] = <<>>
      BY <1>3, <2>1 DEF IInv, Responses
    <2> HIDE DEF answered
    <2> QED BY <1>2, <1>3, <2>2, <2>3, <2>4, <2>5
            DEF Responses, Verified, LabelOf, IsPosting, clientVars, ieeVars
  <1>15. Progress'
    BY <1>2
       DEF IInv, Progress, IsPosting, SlotsOf, LabelOf, clientVars, ieeVars
  <1>16. SearchIsServed' /\ ResponsesMatch'
    BY <1>2, <1>6 DEF IInv, SearchIsServed, ResponsesMatch, ieeVars
  <1> QED BY <1>1, <1>7, <1>10, <1>11, <1>12, <1>13, <1>14, <1>15, <1>16 DEF IInv

\* OP_UEE_DUMP_BENCH keeps the invariant: no search is under way.
LEMMA StoreDumpSafe ==
    ASSUME IInv, storeExit = "no", NEW c \in Conns, StoreDumpBench(c) PROVE IInv'
  <1>1. TypeInv'
    BY StoreTypes DEF IInv, StoreNext
  <1>2. /\ Reads(c, "dump")
        /\ UNCHANGED <<clientVars, req, rep, ieeVars, toIee, index, storeExit>>
    BY DEF StoreDumpBench
  <1>3. Ranked'
    BY <1>2, RankedKept DEF IInv, clientVars
  <1>4. /\ Streams' /\ InStreams' = InStreams
        /\ \A k \in Conns : Elements(toStore[k]) =
              (IF k = c THEN {Head(toStore[c])} ELSE {}) \cup Elements(toStore'[k])
    <2>1. /\ Streams' /\ InStreams' \subseteq InStreams
          /\ InStreams \subseteq InStreams'
                \cup (IF "dump" = "add" THEN {Head(toStore[c])} ELSE {})
          /\ \A k \in Conns : Elements(toStore[k]) =
                (IF k = c THEN {Head(toStore[c])} ELSE {})
                   \cup Elements(toStore'[k])
      BY <1>2, ReadStreams
    <2> QED BY <2>1
  <1>5. InRequest' = InRequest
    BY <1>2 DEF InRequest
  <1>6. AddsSound'
    BY <1>2, <1>4, <1>5
       DEF IInv, AddsSound, Sound, IsPosting, clientVars, ieeVars
  <1>7. NothingLost'
    BY <1>2, <1>4, <1>5
       DEF IInv, NothingLost, OnItsWay, Stored, Rank, clientVars, ieeVars
  <1>8. Records'
    <2>1. req = NoReq
      <3>1. Head(toStore[c]) \in Elements(toStore[c])
            /\ Head(toStore[c]).op = "dump"
        BY <1>2, <1>4 DEF Reads
      <3> QED BY <3>1 DEF IInv, Records
    <2>2. ieePc = "idle"
      BY <2>1 DEF IInv, TypeInv, Phases
    <2>3. \A k \in Conns : \A x \in Elements(toStore'[k]) :
             x \in Elements(toStore[k])
      BY <1>4
    <2> QED BY <1>2, <2>2, <2>3 DEF IInv, Records, clientVars, ieeVars
  <1>9. Responses' /\ Progress'
    BY <1>2
       DEF IInv, Responses, Verified, Progress, IsPosting, SlotsOf, LabelOf,
           clientVars, ieeVars
  <1>10. SearchIsServed' /\ ResponsesMatch'
    BY <1>2 DEF IInv, SearchIsServed, ResponsesMatch, ieeVars
  <1> QED BY <1>1, <1>3, <1>4, <1>6, <1>7, <1>8, <1>9, <1>10 DEF IInv

\* The end of the storage service keeps the invariant.
LEMMA ReadClosedSafe ==
    ASSUME IInv, storeExit = "no", NEW c \in Conns, StoreReadClosed(c) PROVE IInv'
  <1>1. TypeInv'
    BY StoreTypes DEF IInv, StoreNext
  <1>2. /\ storeExit' = "closed_socket"
        /\ UNCHANGED <<clientVars, req, rep, ieeVars, toStore, toIee, closed,
                       index, hasRecord>>
    BY DEF StoreReadClosed
  <1>3. Ranked'
    BY <1>2, RankedKept DEF IInv, clientVars
  <1>4. AddsSound'
    BY <1>2 DEF IInv, AddsSound, InRequest, InStreams, Sound, IsPosting,
                clientVars, ieeVars
  <1>5. NothingLost'
    BY <1>2
       DEF IInv, NothingLost, OnItsWay, InRequest, InStreams, Stored, Rank,
           clientVars, ieeVars
  <1>6. Streams' /\ Records'
    BY <1>2 DEF IInv, Streams, Records, LabelOf, clientVars, ieeVars
  <1>7. Responses' /\ Progress'
    BY <1>2
       DEF IInv, Responses, Verified, Progress, IsPosting, SlotsOf, LabelOf,
           clientVars, ieeVars
  <1>8. SearchIsServed' /\ ResponsesMatch'
    BY <1>2 DEF IInv, SearchIsServed, ResponsesMatch, ieeVars
  <1> QED BY <1>1, <1>3, <1>4, <1>5, <1>6, <1>7, <1>8 DEF IInv

-----------------------------------------------------------------------------
(* The theorems *)

\* The invariant holds initially.
LEMMA SafetyInit == ASSUME Init PROVE IInv
  <1>1. TypeInv
    BY TypeInvInit
  <1>2. /\ \A c \in Conns : toStore[c] = <<>> /\ toIee[c] = <<>>
        /\ bulk = <<>> /\ work = <<>> /\ req.op = "none" /\ nDocs = 0
        /\ ieePc = "idle" /\ ieeExit = "no" /\ storeExit = "no"
    BY DEF Init, NoReq
  <1>3. Ranked
    <2>1. \A w \in Words : W[w] = 0
      BY DEF Init
    <2>2. \A w : RankIn(docs, w, 0) = 0
      <3>1. \A w : {e \in 0..0 - 1 : w \in docs[e]} = {}
        OBVIOUS
      <3> QED BY <3>1, FS_EmptySet DEF RankIn
    <2> QED BY <1>2, <2>1, <2>2 DEF Ranked, Rank
  <1>4. InRequest = {} /\ InStreams = {}
    BY <1>2, ElementsEmpty DEF InRequest, InStreams
  <1>5. AddsSound
    BY <1>2, <1>4, ElementsEmpty DEF AddsSound
  <1>6. NothingLost
    BY <1>2 DEF NothingLost
  <1>7. Streams /\ Records /\ Responses /\ Progress
    BY <1>2, ElementsEmpty DEF Streams, Records, Responses, Progress
  <1>8. SearchIsServed /\ ResponsesMatch
    BY <1>2 DEF SearchIsServed, ResponsesMatch
  <1> QED BY <1>1, <1>3, <1>5, <1>6, <1>7, <1>8 DEF IInv

\* Stuttering keeps the invariant.
LEMMA SafetyStutter == ASSUME IInv, UNCHANGED vars PROVE IInv'
  <1>1. /\ UNCHANGED <<clientVars, req, rep, ieeVars, toStore, toIee, storeVars>>
    BY DEF vars
  <1>2. TypeInv'
    BY <1>1 DEF IInv, TypeInv, TypeOK, Phases, Counted, Wanted, SlotsOf,
                clientVars, ieeVars, storeVars
  <1>3. Ranked'
    BY <1>1, RankedKept DEF IInv, clientVars
  <1>4. AddsSound'
    BY <1>1 DEF IInv, AddsSound, InRequest, InStreams, Sound, IsPosting,
                clientVars, ieeVars
  <1>5. NothingLost'
    BY <1>1
       DEF IInv, NothingLost, OnItsWay, InRequest, InStreams, Stored, Rank,
           clientVars, ieeVars, storeVars
  <1>6. Streams' /\ Records'
    BY <1>1 DEF IInv, Streams, Records, LabelOf, clientVars, ieeVars, storeVars
  <1>7. Responses' /\ Progress'
    BY <1>1
       DEF IInv, Responses, Verified, Progress, IsPosting, SlotsOf, LabelOf,
           clientVars, ieeVars
  <1>8. SearchIsServed' /\ ResponsesMatch'
    BY <1>1 DEF IInv, SearchIsServed, ResponsesMatch, ieeVars, storeVars
  <1> QED BY <1>2, <1>3, <1>4, <1>5, <1>6, <1>7, <1>8 DEF IInv

\* Every step keeps the invariant.
LEMMA SafetyStep ==
    ASSUME IInv, DrainBeforeRestart, [Next]_vars PROVE IInv'
  <1>1. CASE ClientNext
    BY <1>1, SetupSafe, AddSafe, SendBulkSafe, SearchSafe, DumpRequestSafe,
       ReceiveSafe, EndSafe, RestartSafe DEF ClientNext
  <1>2. CASE IeeNext
    BY <1>2, TruncatedSafe, IeeSetupSafe, IeeBulkSafe, IeeSendBatchSafe,
       NextMessageSafe, BulkDoneSafe, IeeSearchSafe, SendLabelsSafe,
       IeeReceiveSafe, EvaluateSafe, IeeDumpSafe, SocketErrorSafe DEF IeeNext
  <1>3. ASSUME NEW c \in Conns, StoreNext(c) PROVE IInv'
    BY <1>3, StoreInitSafe, StoreAddSafe, StoreRecordSafe, StoreSearchSafe,
       StoreDumpSafe, ReadClosedSafe DEF StoreNext
  <1> QED BY <1>1, <1>2, <1>3, SafetyStutter DEF Next

(***************************************************************************)
(* The invariant that carries the safety properties: from the numbering of *)
(* a word's postings by the client, over the add messages under way, to    *)
(* the entries received.                                                   *)
(***************************************************************************)
THEOREM Safety == DrainBeforeRestart => (Spec => []IInv)
  <1> SUFFICES ASSUME DrainBeforeRestart PROVE Spec => []IInv
    OBVIOUS
  <1>1. Init => IInv
    BY SafetyInit
  <1>2. IInv /\ [Next]_vars => IInv'
    BY SafetyStep
  <1> QED BY <1>1, <1>2, PTL DEF Spec

(***************************************************************************)
(* The two exits of the storage service's look-up are never taken: a label *)
(* that is asked for is in the index, and search_results is not empty, for *)
(* any number of words, documents, batches and clients.                    *)
(***************************************************************************)
THEOREM LookUpsServed == DrainBeforeRestart => (Spec => []SearchIsServed)
  <1> SUFFICES ASSUME DrainBeforeRestart PROVE Spec => []SearchIsServed
    OBVIOUS
  <1>1. IInv => SearchIsServed
    BY DEF IInv
  <1> QED BY <1>1, Safety, PTL

(***************************************************************************)
(* The check of the labels in get_docs_from_server never fails: whatever   *)
(* the batches of a query, a response is verified against its own.         *)
(***************************************************************************)
THEOREM ResponsesVerified == DrainBeforeRestart => (Spec => []ResponsesMatch)
  <1> SUFFICES ASSUME DrainBeforeRestart PROVE Spec => []ResponsesMatch
    OBVIOUS
  <1>1. IInv => ResponsesMatch
    BY DEF IInv
  <1> QED BY <1>1, Safety, PTL

\* The vector of a word holds its documents, each once.
LEMMA VectorExact ==
    ASSUME IInv, ieePc = "search", want = {},
           NEW i \in DOMAIN req.rpn, IsWord(req.rpn[i])
    PROVE  /\ Elements(Vectors[i])
                 = {d \in 0..req.nDocs - 1 : req.rpn[i] \in docs[d]}
           /\ \A j, k \in DOMAIN Vectors[i] :
                 Vectors[i][j] = Vectors[i][k] => j = k
  <1> DEFINE w == req.rpn[i]
             v == Vectors[i]
  <1>1. /\ TypeOK /\ req \in Requests /\ req.op = "search"
        /\ req.counter = W /\ req.nDocs = nDocs
        /\ req.rpn \in Queries
    BY RequestKinds DEF IInv, TypeInv, TypeOK, Phases
  <1>2. w \in Words
    <2>1. req.rpn \in Seq(Words \cup Operators)
      BY <1>1, BisenAssumption DEF BisenAssumption
    <2> QED BY <2>1 DEF IsWord
  <1>3. /\ W[w] \in 0..MaxDocs /\ W[w] \in Nat /\ nDocs \in Nat
        /\ MaxDocs \in Nat
    BY <1>1, <1>2, BisenAssumption DEF TypeOK, BisenAssumption
  <1>4. v = [c \in 1..W[w] |-> got[<<i, c - 1>>]]
    BY <1>1 DEF Vectors
  <1>5. ASSUME NEW c \in 1..W[w]
        PROVE  /\ v[c] \in 0..nDocs - 1 /\ w \in docs[v[c]]
               /\ Rank(w, v[c]) = c - 1
    <2> DEFINE s == <<i, c - 1>>
    <2>1. s \in SlotsOf(req)
      <3>1. i \in TokenIds
        BY <1>1 DEF TokenIds
      <3>2. c - 1 \in DocIds /\ c - 1 < W[w]
        BY <1>3 DEF DocIds
      <3> QED BY <1>1, <3>1, <3>2 DEF SlotsOf, Slots
    <2>2. IsPosting(LabelOf(req, s), got[s])
      BY <2>1 DEF IInv, Progress
    <2>3. LabelOf(req, s) = <<w, c - 1>> /\ v[c] = got[s]
      BY <1>4 DEF LabelOf
    <2> HIDE DEF v, w, s
    <2> QED BY <2>2, <2>3 DEF IsPosting, PostingIn, Rank
  <1> HIDE DEF v
  <1>6. \A j, k \in DOMAIN v : v[j] = v[k] => j = k
    <2> SUFFICES ASSUME NEW j \in 1..W[w], NEW k \in 1..W[w], v[j] = v[k]
                 PROVE  j = k
      BY <1>4
    <2>1. j - 1 = k - 1
      BY <1>5
    <2> QED BY <1>3, <2>1
  <1>7. ASSUME NEW d \in 0..nDocs - 1, w \in docs[d]
        PROVE  d \in Elements(v)
    <2>1. Rank(w, d) < W[w] /\ Rank(w, d) \in Nat
      BY <1>2, <1>7, RankInNat DEF IInv, Ranked, Rank
    <2> DEFINE c == Rank(w, d) + 1
    <2>2. c \in 1..W[w] /\ c - 1 = Rank(w, d)
      BY <1>3, <2>1
    <2>3. /\ v[c] \in 0..nDocs - 1 /\ w \in docs[v[c]]
          /\ Rank(w, v[c]) = Rank(w, d)
      BY <1>5, <2>2
    <2>4. v[c] = d
      BY <1>2, <1>7, <2>3 DEF IInv, Ranked
    <2> QED BY <1>4, <2>2, <2>4 DEF Elements
  <1>8. ASSUME NEW d \in Elements(v)
        PROVE  d \in 0..nDocs - 1 /\ w \in docs[d]
    <2>1. PICK c \in 1..W[w] : d = v[c]
      BY <1>4 DEF Elements
    <2> QED BY <1>5, <2>1
  <1>9. Elements(v) = {d \in 0..req.nDocs - 1 : w \in docs[d]}
    BY <1>1, <1>7, <1>8
  <1> QED BY <1>6, <1>9 DEF v

(***************************************************************************)
(* What get_docs_from_server hands to evaluate() is exact: for each word   *)
(* of the query the documents the client added with that word, each once.  *)
(***************************************************************************)
THEOREM VectorsExact == DrainBeforeRestart => (Spec => []PostingsExact)
  <1> SUFFICES ASSUME DrainBeforeRestart PROVE Spec => []PostingsExact
    OBVIOUS
  <1>1. IInv => PostingsExact
    BY VectorExact DEF PostingsExact
  <1> QED BY <1>1, Safety, PTL

(***************************************************************************)
(* No step but the start of another client takes a posting out of the      *)
(* index or puts another document in its place.                            *)
(***************************************************************************)
THEOREM PostingsKept == DrainBeforeRestart => (Spec => PostingsStay)
  <1> SUFFICES ASSUME DrainBeforeRestart PROVE Spec => PostingsStay
    OBVIOUS
  <1> DEFINE Stay ==
        \A d \in DOMAIN docs : \A w \in docs[d] :
           Stored(w, d) /\ ~ClientRestart => index'[<<w, Rank(w, d)>>] = d
  <1>1. IInv /\ [Next]_vars => [Stay]_vars
    <2> SUFFICES ASSUME IInv, Next,
                        NEW d \in DOMAIN docs, NEW w \in docs[d], Stored(w, d)
                 PROVE  index'[<<w, Rank(w, d)>>] = d
      OBVIOUS
    <2>1. d \in 0..nDocs - 1 /\ w \in Words
      BY DEF IInv, TypeInv, TypeOK
    <2>2. ASSUME NEW c \in Conns, StoreAdd(c)
          PROVE  index'[<<w, Rank(w, d)>>] = d
      BY <2>1, <2>2, AddKeepsStored DEF Stored
    <2>3. CASE UNCHANGED index
      BY <2>3 DEF Stored
    <2>4. ASSUME NEW c \in Conns, StoreNext(c), ~StoreAdd(c)
          PROVE  UNCHANGED index
      BY <2>4 DEF StoreNext, StoreInit, StoreRecord, StoreSearch,
                  StoreDumpBench, StoreReadClosed, storeVars
    <2>5. CASE ClientNext
      BY <2>3, <2>5
         DEF ClientNext, ClientSetup, AddNewDocument, ClientSendBulk,
             ClientSearch, ClientDumpBench, ClientReceive, ClientEnd,
             ClientRestart, Drained, storeVars
    <2>6. CASE IeeNext
      BY <2>3, <2>6
         DEF IeeNext, IeeTruncated, IeeSetup, IeeBulk, IeeSendBatch,
             IeeNextMessage, IeeBulkDone, IeeSearch, IeeSendLabels,
             IeeReceive, IeeEvaluate, IeeDumpBench, IeeSocketError, storeVars
    <2> QED BY <2>2, <2>3, <2>4, <2>5, <2>6 DEF Next
  <1> QED BY <1>1, Safety, PTL DEF PostingsStay, Spec
-----------------------------------------------------------------------------
(* What the IEE answers *)

\* The store's queries mean what BooleanQuery says.
LEMMA StoreMeaning ==
    /\ \A q : Store!WellFormed(q) <=> WellFormed(q)
    /\ \A q, words : Store!Holds(q, words) = Holds(q, words)
  <1>1. \A q : Store!WellFormed(q) <=> WellFormed(q)
    BY DEF Store!WellFormed, Store!Depth, Store!Needs, WellFormed, Depth, Needs
  <1>2. \A q, words : Store!Holds(q, words) = Holds(q, words)
    BY DEF Store!Holds, Store!Truth, Store!Combine, Holds, Truth, Combine
  <1> QED BY <1>1, <1>2

\* The store counts as Bisen does.
LEMMA StoreCardinality == \A S : Store!Cardinality(S) = Cardinality(S)
  BY DEF Store!Cardinality, Cardinality

\* evaluate() is called on the query and its exact vectors.
LEMMA QueryInput ==
    ASSUME IInv, ieePc = "search", want = {}
    PROVE  IsInput(req.rpn, Vectors, docs, nDocs)
  <1> DEFINE q == req.rpn
  <1>1. /\ TypeOK /\ req \in Requests /\ req.op = "search"
        /\ req.counter = W /\ req.nDocs = nDocs
        /\ req.rpn \in Queries
    BY RequestKinds DEF IInv, TypeInv, TypeOK, Phases
  <1>2. q \in Seq(Words \cup Operators)
    BY <1>1, BisenAssumption DEF BisenAssumption
  <1>3. nDocs \in Nat
    BY <1>1, BisenAssumption DEF TypeOK, BisenAssumption
  <1>4. Len(q) \in Nat /\ DOMAIN q = 1..Len(q)
    BY <1>2
  <1>5. ASSUME NEW i \in 1..Len(q)
        PROVE  /\ Vectors[i] \in Seq(Int)
               /\ q[i] \notin Operators =>
                     Lists(Vectors[i], With(q[i], docs, nDocs))
    <2>1. CASE IsWord(q[i])
      <3>1. q[i] \in Words
        BY <1>2, <2>1 DEF IsWord
      <3>2. /\ Elements(Vectors[i]) = {d \in 0..nDocs - 1 : q[i] \in docs[d]}
            /\ \A j, k \in DOMAIN Vectors[i] :
                  Vectors[i][j] = Vectors[i][k] => j = k
        BY <1>1, <1>4, <2>1, VectorExact
      <3>3. /\ W[q[i]] \in Nat
            /\ \A c \in 1..W[q[i]] :
                  <<i, c - 1>> \in Slots => got[<<i, c - 1>>] \in Int
        BY <1>1, <3>1, BisenAssumption
           DEF TypeOK, BisenAssumption, DocIds, NoDoc
      <3>4. Vectors[i] = [c \in 1..W[q[i]] |-> got[<<i, c - 1>>]]
        BY <1>1, <1>4, <2>1 DEF Vectors
      <3>5. \A c \in 1..W[q[i]] : <<i, c - 1>> \in Slots
        <4> SUFFICES ASSUME NEW c \in 1..W[q[i]] PROVE <<i, c - 1>> \in Slots
          OBVIOUS
        <4>1. i \in TokenIds
          BY <1>1, <1>4 DEF TokenIds
        <4>2. W[q[i]] \in 0..MaxDocs
          BY <1>1, <3>1 DEF TypeOK
        <4>3. c - 1 \in DocIds
          BY <4>2, BisenAssumption DEF DocIds, BisenAssumption
        <4> QED BY <4>1, <4>3 DEF Slots
      <3>6. Vectors[i] \in Seq(Int)
        <4>1. \A c \in 1..W[q[i]] : got[<<i, c - 1>>] \in Int
          BY <3>3, <3>5
        <4> DEFINE v == Vectors[i]
                   n == W[q[i]]
        <4>2. v \in [1..n -> Int] /\ n \in Nat
          BY <3>3, <3>4, <4>1
        <4> HIDE DEF v, n
        <4> QED BY <4>2 DEF v
      <3> QED BY <3>2, <3>6 DEF Lists, With
    <2>2. CASE ~IsWord(q[i])
      <3>1. Vectors[i] = <<>>
        BY <1>4, <2>2 DEF Vectors
      <3> QED BY <2>2, <3>1 DEF IsWord
    <2> QED BY <2>1, <2>2
  <1> QED BY <1>3, <1>4, <1>5 DEF IsInput

\* The IEE's result is the store's.
LEMMA ResultExact ==
    ASSUME IInv, ieePc = "search", want = {}
    PROVE  LET result == Evaluate(req.rpn, Vectors, req.nDocs)
           IN  /\ result.ok <=> Store!WellFormed(req.rpn)
               /\ result.ok => Elements(result.docs) = Store!Matches(req.rpn)
  <1> DEFINE result == Evaluate(req.rpn, Vectors, req.nDocs)
  <1>1. req.nDocs = nDocs /\ DOMAIN docs = 0..nDocs - 1
    BY DEF IInv, TypeInv, TypeOK, Phases
  <1>2. IsInput(req.rpn, Vectors, docs, nDocs)
    BY QueryInput
  <1>3. /\ result.ok <=> WellFormed(req.rpn)
        /\ result.ok =>
              Lists(result.docs, {d \in 0..nDocs - 1 : Holds(req.rpn, docs[d])})
    BY <1>1, <1>2, EvaluateExact
  <1>4. Store!Matches(req.rpn)
          = {d \in 0..nDocs - 1 : Holds(req.rpn, docs[d])}
    BY <1>1, StoreMeaning DEF Store!Matches
  <1> HIDE DEF result
  <1>5. result.ok => Elements(result.docs) = Store!Matches(req.rpn)
    BY <1>3, <1>4 DEF Lists
  <1> QED BY <1>3, <1>5, StoreMeaning DEF result
-----------------------------------------------------------------------------
(* The answer on its way *)

\* A step that leaves the documents, the query and the reply alone keeps what
\* is known of them, if the client waits as before.
LEMMA AskingKept ==
    ASSUME Asking, UNCHANGED <<clPc, docs, asked, rep>>,
           req'.op = "search" => req' = req
    PROVE  Asking'
  <1>1. /\ Store!WellFormed(asked)' <=> Store!WellFormed(asked)
        /\ Store!IsAnswer(rep.docs, asked)' <=> Store!IsAnswer(rep.docs, asked)
    BY DEF Store!WellFormed, Store!IsAnswer, Store!Matches
  <1> QED BY <1>1 DEF Asking

\* A client that waits for nothing has been answered nothing.
LEMMA NotAsking ==
    ASSUME asked' = <<>>, rep'.op # "docs",
           clPc' = "await" => req'.op # "search"
    PROVE  Asking'
  BY DEF Asking

\* The client's actions keep Asking.
LEMMA ClientAsking == ASSUME IInv, Asking, ClientNext PROVE Asking'
  <1>1. CASE \/ ClientSetup \/ ClientSendBulk \/ ClientDumpBench
    <2>1. clPc # "await" /\ asked' = <<>> /\ rep' = rep /\ rep = NoReply
          /\ req'.op # "search"
      BY <1>1 DEF ClientSetup, ClientSendBulk, ClientDumpBench, Request,
                  SetupReq, BenchReq, Asking, IInv, TypeInv, Phases
    <2> QED BY <2>1, NotAsking DEF NoReply
  <1>2. ASSUME NEW words \in SUBSET Words, AddNewDocument(words)
        PROVE  Asking'
    <2>1. asked' = <<>> /\ rep' = NoReply /\ clPc' = "bulk"
      BY <1>2 DEF AddNewDocument, Asking, IInv, TypeInv, Phases
    <2> QED BY <2>1, NotAsking DEF NoReply
  <1>3. ASSUME NEW q \in Queries, ClientSearch(q)
        PROVE  Asking'
    <2>1. /\ clPc' = "await" /\ asked' = q /\ rep' = NoReply /\ req'.rpn = q
      BY <1>3 DEF ClientSearch, Request, IInv, TypeInv, Phases
    <2> QED BY <2>1 DEF Asking, NoReply
  <1>4. CASE \/ ClientReceive \/ ClientEnd
    <2>1. asked' = <<>> /\ rep' = NoReply /\ clPc' # "await"
      BY <1>4 DEF ClientReceive, ClientEnd
    <2> QED BY <2>1, NotAsking DEF NoReply
  <1>5. CASE ClientRestart
    <2>1. asked' = <<>> /\ rep' = NoReply /\ clPc' # "await"
      BY <1>5 DEF ClientRestart, Asking, IInv, TypeInv, Phases
    <2> QED BY <2>1, NotAsking DEF NoReply
  <1> QED BY <1>1, <1>2, <1>3, <1>4, <1>5 DEF ClientNext

\* A reply that holds no documents keeps Asking.
LEMMA PlainReply ==
    ASSUME IInv, Asking, NEW r, r.op # "docs", Reply(r),
           UNCHANGED clientVars, req # NoReq
    PROVE  Asking'
  <1>1. req'.op = "none" /\ UNCHANGED <<clPc, docs, asked>>
    BY DEF Reply, NoReq, clientVars
  <1>2. CASE clPc = "await" /\ rep' = r
    BY <1>1, <1>2 DEF Asking
  <1>3. CASE UNCHANGED rep
    BY <1>1, <1>3, AskingKept
  <1> QED BY <1>2, <1>3 DEF Reply

\* The reply to a query keeps Asking: it is the store's answer.
LEMMA AnswerAsking ==
    ASSUME IInv, Asking, IeeEvaluate PROVE Asking'
  <1> DEFINE result == Evaluate(req.rpn, Vectors, req.nDocs)
             found == Elements(result.docs)
  <1>1. ieePc = "search" /\ want = {} /\ UNCHANGED clientVars
        /\ req.op = "search"
    BY DEF IeeEvaluate, IInv, TypeInv, Phases
  <1>2. UNCHANGED <<clPc, docs, asked>>
    BY <1>1 DEF clientVars
  <1>3. /\ result.ok <=> Store!WellFormed(req.rpn)
        /\ result.ok => found = Store!Matches(req.rpn)
    BY <1>1, ResultExact
  <1>4. CASE UNCHANGED <<req, rep>>
    BY <1>2, <1>4, AskingKept
  <1>5. ASSUME result.ok, NEW best \in SUBSET found,
               \/ best = found /\ Cardinality(found) <= Threshold
               \/ Cardinality(best) = Threshold /\ Cardinality(found) > Threshold,
               Reply([op |-> "docs", docs |-> best])
        PROVE  Asking'
    <2>1. Store!IsAnswer(best, req.rpn)
      <3> HIDE DEF found, result
      <3> QED BY <1>3, <1>5, StoreCardinality DEF Store!IsAnswer
    <2>2. req'.op = "none"
      BY <1>5 DEF Reply, NoReq
    <2>3. CASE clPc = "await" /\ rep' = [op |-> "docs", docs |-> best]
      <3>1. asked = req.rpn
        BY <1>1, <2>3 DEF Asking
      <3>2. asked # <<>>
        <4>1. req.rpn \in Queries
          BY <1>1, RequestKinds DEF IInv, TypeInv, TypeOK
        <4> QED BY <3>1, <4>1, BisenAssumption DEF BisenAssumption
      <3>3. Store!WellFormed(asked) /\ Store!IsAnswer(best, asked)
        BY <1>3, <1>5, <2>1, <3>1
      <3>4. /\ Store!WellFormed(asked)'
            /\ Store!IsAnswer(rep.docs, asked)'
        <4>1. rep'.docs = best
          BY <2>3
        <4>2. Store!WellFormed(asked)' <=> Store!WellFormed(asked)
          BY <1>2 DEF Store!WellFormed
        <4>3. Store!IsAnswer(rep.docs, asked)' <=> Store!IsAnswer(best, asked)
          BY <1>2, <4>1 DEF Store!IsAnswer, Store!Matches
        <4> QED BY <3>3, <4>2, <4>3
      <3> QED BY <1>2, <2>2, <2>3, <3>2, <3>4 DEF Asking
    <2>4. CASE UNCHANGED rep
      BY <1>2, <2>2, <2>4, AskingKept
    <2> QED BY <1>5, <2>3, <2>4 DEF Reply
  <1>6. \/ UNCHANGED <<req, rep>>
        \/ /\ result.ok
           /\ \E best \in SUBSET found :
                 /\ \/ best = found /\ Cardinality(found) <= Threshold
                    \/ /\ Cardinality(best) = Threshold
                       /\ Cardinality(found) > Threshold
                 /\ Reply([op |-> "docs", docs |-> best])
    BY DEF IeeEvaluate
  <1> QED BY <1>4, <1>5, <1>6

\* The IEE's actions keep Asking.
LEMMA IeeAsking == ASSUME IInv, Asking, IeeNext PROVE Asking'
  <1>1. CASE \/ IeeBulk \/ IeeSendBatch \/ IeeNextMessage \/ IeeSearch
             \/ IeeSendLabels \/ IeeReceive \/ IeeSocketError
    <2>1. UNCHANGED <<clPc, docs, asked, rep, req>>
      BY <1>1 DEF IeeBulk, IeeSendBatch, IeeNextMessage, IeeSearch,
                  IeeSendLabels, IeeReceive, IeeSocketError, clientVars
    <2> QED BY <2>1, AskingKept
  <1>2. CASE IeeTruncated
    <2>1. UNCHANGED <<clPc, docs, asked, rep>> /\ req'.op # "search"
      BY <1>2 DEF IeeTruncated, clientVars, NoReq
    <2> QED BY <2>1, AskingKept
  <1>3. CASE IeeSetup \/ IeeBulkDone
    <2>1. Reply(OkReply) /\ UNCHANGED clientVars /\ req # NoReq
      BY <1>3 DEF IeeSetup, IeeBulkDone, NoReq, IInv, TypeInv, Phases
    <2> QED BY <2>1, PlainReply DEF OkReply
  <1>4. CASE IeeDumpBench
    <2>1. Reply(EmptyReply) /\ UNCHANGED clientVars /\ req # NoReq
      BY <1>4 DEF IeeDumpBench, NoReq
    <2> QED BY <2>1, PlainReply DEF EmptyReply
  <1>5. CASE IeeEvaluate
    BY <1>5, AnswerAsking
  <1> QED BY <1>1, <1>2, <1>3, <1>4, <1>5 DEF IeeNext

\* The storage service's actions keep Asking.
LEMMA StoreAsking ==
    ASSUME Asking, NEW c \in Conns, StoreNext(c) PROVE Asking'
  <1>1. UNCHANGED <<clPc, docs, asked, rep, req>>
    BY DEF StoreNext, StoreInit, StoreAdd, StoreRecord, StoreSearch,
           StoreDumpBench, StoreReadClosed, clientVars
  <1> QED BY <1>1, AskingKept
-----------------------------------------------------------------------------
(* Why the IEE exits *)

\* A step that leaves the exit, its reason and the query alone.
LEMMA ExitsKept ==
    ASSUME Exits, ieeExit' = ieeExit,
           storeExit = "closed_socket" => storeExit' = "closed_socket",
           ieeExit = "malformed_query" => req' = req,
           ieeExit = "peer_lost" => clPc' = clPc
    PROVE  Exits'
  BY DEF Exits, Store!WellFormed

\* The client's actions keep Exits: no request takes the place of the one
\* that made the IEE exit, and no client starts after an exit.
LEMMA ClientExits == ASSUME IInv, Exits, ClientNext PROVE Exits'
  <1>1. UNCHANGED <<ieeExit, storeExit>>
    BY DEF ClientNext, ClientSetup, AddNewDocument, ClientSendBulk,
           ClientSearch, ClientDumpBench, ClientReceive, ClientEnd,
           ClientRestart, ieeVars, storeVars
  <1>2. ASSUME ieeExit = "malformed_query" PROVE req' = req
    <2>1. req # NoReq
      BY <1>2 DEF Exits, NoReq
    <2>2. clPc \notin {"new", "ready", "bulk"}
      BY <2>1 DEF IInv, TypeInv, Phases
    <2> QED BY <2>2
         DEF ClientNext, ClientSetup, AddNewDocument, ClientSendBulk,
             ClientSearch, ClientDumpBench, ClientReceive, ClientEnd,
             ClientRestart
  <1>3. ASSUME ieeExit = "peer_lost" PROVE clPc' = clPc
    BY <1>3 DEF Exits, ClientNext, ClientSetup, AddNewDocument,
                ClientSendBulk, ClientSearch, ClientDumpBench, ClientReceive,
                ClientEnd, ClientRestart
  <1> QED BY <1>1, <1>2, <1>3, ExitsKept

\* A reply keeps Exits.
LEMMA ReplyExits ==
    ASSUME NEW r, Reply(r), ieeExit = "no", UNCHANGED clientVars PROVE Exits'
  BY DEF Reply, Exits, clientVars

\* The IEE's actions keep Exits.
LEMMA IeeExits == ASSUME IInv, Exits, IeeNext PROVE Exits'
  <1>1. ieeExit = "no"
    BY DEF IeeNext
  <1>2. CASE \/ IeeBulk \/ IeeSendBatch \/ IeeNextMessage \/ IeeSearch
             \/ IeeSendLabels
    <2>1. UNCHANGED ieeExit /\ UNCHANGED storeExit
      BY <1>2 DEF IeeBulk, IeeSendBatch, IeeNextMessage, IeeSearch,
                  IeeSendLabels, storeVars
    <2> QED BY <1>1, <2>1, ExitsKept
  <1>3. CASE IeeReceive
    <2>1. ieeExit' \in {"no", "label_mismatch"}
      BY <1>1, <1>3 DEF IeeReceive, Exit
    <2> QED BY <2>1 DEF Exits
  <1>4. CASE IeeTruncated
    BY <1>4 DEF IeeTruncated, Exits, clientVars
  <1>5. CASE IeeSetup \/ IeeBulkDone \/ IeeDumpBench
    <2>1. PICK r : Reply(r)
      BY <1>5 DEF IeeSetup, IeeBulkDone, IeeDumpBench
    <2>2. UNCHANGED clientVars
      BY <1>5 DEF IeeSetup, IeeBulkDone, IeeDumpBench
    <2> QED BY <1>1, <2>1, <2>2, ReplyExits
  <1>6. CASE IeeSocketError
    <2>1. ieeExit' = "socket" /\ storeExit' = storeExit /\ storeExit # "no"
      BY <1>6 DEF IeeSocketError, Exit, storeVars
    <2>2. storeExit = "closed_socket"
      BY <2>1 DEF IInv, SearchIsServed, TypeInv, TypeOK
    <2> QED BY <2>1, <2>2 DEF Exits
  <1>7. CASE IeeEvaluate
    <2> DEFINE result == Evaluate(req.rpn, Vectors, req.nDocs)
    <2>1. ieePc = "search" /\ want = {} /\ UNCHANGED clientVars
          /\ req.op = "search"
      BY <1>7 DEF IeeEvaluate, IInv, TypeInv, Phases
    <2>2. result.ok <=> Store!WellFormed(req.rpn)
      BY <2>1, ResultExact
    <2>3. CASE ~result.ok /\ ieeExit' = "malformed_query" /\ req' = req
      <3>1. Store!WellFormed(req.rpn)' <=> Store!WellFormed(req.rpn)
        BY <2>3 DEF Store!WellFormed
      <3> QED BY <2>1, <2>2, <2>3, <3>1 DEF Exits
    <2>4. ASSUME NEW r, Reply(r) PROVE Exits'
      BY <1>1, <2>1, <2>4, ReplyExits
    <2> QED BY <1>7, <2>3, <2>4 DEF IeeEvaluate, Exit
  <1> QED BY <1>2, <1>3, <1>4, <1>5, <1>6, <1>7 DEF IeeNext

\* The storage service's actions keep Exits: it ends once.
LEMMA StoreExits ==
    ASSUME Exits, NEW c \in Conns, StoreNext(c) PROVE Exits'
  <1>1. UNCHANGED <<ieeExit, req, clPc>> /\ storeExit = "no"
    BY DEF StoreNext, StoreInit, StoreAdd, StoreRecord, StoreSearch,
           StoreDumpBench, StoreReadClosed, clientVars, ieeVars
  <1> QED BY <1>1, ExitsKept
-----------------------------------------------------------------------------
(***************************************************************************)
(* The invariant of the refinement, for any number of words, documents,    *)
(* queries and clients: an answer that is on its way to the client is one  *)
(* the store would give to the query it asked, for the documents it has    *)
(* added, and every exit of the IEE has its reason.                        *)
(***************************************************************************)
THEOREM Answers == DrainBeforeRestart => (Spec => []StoreInv)
  <1> SUFFICES ASSUME DrainBeforeRestart PROVE Spec => []StoreInv
    OBVIOUS
  <1>1. Init => StoreInv
    <2> SUFFICES ASSUME Init PROVE StoreInv
      OBVIOUS
    <2>1. IInv
      BY SafetyInit
    <2>2. Asking /\ Exits
      BY DEF Init, Asking, Exits, NoReply
    <2> QED BY <2>1, <2>2 DEF StoreInv
  <1>2. StoreInv /\ [Next]_vars => StoreInv'
    <2> SUFFICES ASSUME StoreInv, [Next]_vars PROVE StoreInv'
      OBVIOUS
    <2>1. IInv'
      BY SafetyStep DEF StoreInv
    <2>2. CASE ClientNext
      BY <2>1, <2>2, ClientAsking, ClientExits DEF StoreInv
    <2>3. CASE IeeNext
      BY <2>1, <2>3, IeeAsking, IeeExits DEF StoreInv
    <2>4. ASSUME NEW c \in Conns, StoreNext(c) PROVE StoreInv'
      BY <2>1, <2>4, StoreAsking, StoreExits DEF StoreInv
    <2>5. CASE UNCHANGED vars
      <3>1. UNCHANGED <<clPc, docs, asked, rep, req, ieeExit, storeExit>>
        BY <2>5 DEF vars, clientVars, ieeVars, storeVars
      <3> QED BY <2>1, <3>1, AskingKept, ExitsKept DEF StoreInv
    <2> QED BY <2>2, <2>3, <2>4, <2>5 DEF Next
  <1> QED BY <1>1, <1>2, PTL DEF Spec

(***************************************************************************)
(* The IEE exits only for a query that is not well-formed, a storage       *)
(* service that reads from a socket it closed, or a client that died.  So  *)
(* a well-formed query of a client that stays is never what ends it.       *)
(***************************************************************************)
THEOREM ExitsJustified == DrainBeforeRestart => (Spec => []IeeExitJustified)
  <1> SUFFICES ASSUME DrainBeforeRestart PROVE Spec => []IeeExitJustified
    OBVIOUS
  <1>1. StoreInv => IeeExitJustified
    BY DEF StoreInv, Exits, IeeExitJustified
  <1> QED BY <1>1, Answers, PTL
-----------------------------------------------------------------------------
(* The refinement, action by action *)

\* The answer of the store.
Answered == IF answer.op = "docs" THEN <<answer.docs>> ELSE <<>>

\* The next document gets the next number.
LEMMA AddRefines ==
    ASSUME StoreInv, NEW words \in SUBSET Words, AddNewDocument(words)
    PROVE  Store!Add(words)
  <1>1. nDocs \in Nat /\ DOMAIN docs = 0..nDocs - 1
    BY BisenAssumption DEF StoreInv, IInv, TypeInv, TypeOK, BisenAssumption
  <1>2. Store!Cardinality(DOMAIN docs) = nDocs
    <2>1. Cardinality(0..nDocs - 1) = nDocs
      BY <1>1, FS_Interval
    <2> QED BY <1>1, <2>1, StoreCardinality
  <1>3. asked = <<>> /\ UNCHANGED <<asked, answer>>
        /\ docs' = [d \in 0..nDocs |-> IF d = nDocs THEN words ELSE docs[d]]
    BY DEF AddNewDocument, StoreInv, Asking
  <1>4. 0..nDocs = DOMAIN docs \cup {nDocs}
    BY <1>1
  <1> QED BY <1>2, <1>3, <1>4 DEF Store!Add

\* A query is asked when none is.
LEMMA AskRefines ==
    ASSUME StoreInv, NEW q \in Queries, ClientSearch(q) PROVE Store!Ask(q)
  BY DEF ClientSearch, Store!Ask, StoreInv, Asking, NoReply

\* What a client receives is the store's answer, or nothing is asked any more.
LEMMA ReceiveRefines ==
    ASSUME StoreInv, ClientReceive PROVE Store!Answer \/ Store!Abandon
  <1>1. asked' = <<>> /\ docs' = docs
    BY DEF ClientReceive
  <1>2. CASE rep.op = "docs"
    <2>1. /\ asked # <<>> /\ Store!WellFormed(asked)
          /\ Store!IsAnswer(rep.docs, asked)
      BY <1>2 DEF StoreInv, Asking
    <2>2. Answered' = <<rep.docs>>
      BY <1>2 DEF ClientReceive, Answered
    <2>3. rep.docs \in SUBSET Store!Matches(asked)
      BY <2>1 DEF Store!IsAnswer
    <2> QED BY <1>1, <2>1, <2>2, <2>3 DEF Store!Answer, Answered
  <1>3. CASE rep.op # "docs"
    <2>1. answer' = answer
      BY <1>3 DEF ClientReceive
    <2> QED BY <1>1, <2>1 DEF Store!Abandon
  <1> QED BY <1>2, <1>3

\* A client that dies gives up what it asked.
LEMMA EndRefines == ASSUME ClientEnd PROVE Store!Abandon
  BY DEF ClientEnd, Store!Abandon

\* The next client has an empty store, whatever is left in the index.
LEMMA RestartRefines == ASSUME StoreInv, ClientRestart PROVE Store!Restart
  BY DEF ClientRestart, Store!Restart, StoreInv, Asking, NoDocs, Store!NoDocs,
         NoReply

\* No other step is seen by the program.
LEMMA HiddenSteps ==
    ASSUME \/ ClientSetup \/ ClientSendBulk \/ ClientDumpBench
           \/ IeeNext \/ (\E c \in Conns : StoreNext(c)) \/ UNCHANGED vars
    PROVE  UNCHANGED <<docs, asked, answer>>
  <1>1. CASE ClientSetup \/ ClientSendBulk \/ ClientDumpBench
    BY <1>1 DEF ClientSetup, ClientSendBulk, ClientDumpBench
  <1>2. CASE IeeNext
    BY <1>2 DEF IeeNext, IeeTruncated, IeeSetup, IeeBulk, IeeSendBatch,
                IeeNextMessage, IeeBulkDone, IeeSearch, IeeSendLabels,
                IeeReceive, IeeEvaluate, IeeDumpBench, IeeSocketError,
                clientVars
  <1>3. CASE \E c \in Conns : StoreNext(c)
    BY <1>3 DEF StoreNext, StoreInit, StoreAdd, StoreRecord, StoreSearch,
                StoreDumpBench, StoreReadClosed, clientVars
  <1>4. CASE UNCHANGED vars
    BY <1>4 DEF vars, clientVars
  <1> QED BY <1>1, <1>2, <1>3, <1>4

\* Every step is one of the store's, or leaves its variables alone.
LEMMA StepRefines ==
    ASSUME StoreInv, [Next]_vars PROVE [Store!Next]_(Store!storeVars)
  <1>1. ASSUME UNCHANGED <<docs, asked, answer>>
        PROVE  UNCHANGED Store!storeVars
    BY <1>1 DEF Store!storeVars
  <1>2. ASSUME NEW words \in SUBSET Words, AddNewDocument(words)
        PROVE  Store!Next
    BY <1>2, AddRefines DEF Store!Next
  <1>3. ASSUME NEW q \in Queries, ClientSearch(q) PROVE Store!Next
    BY <1>3, AskRefines DEF Store!Next
  <1>4. CASE ClientReceive \/ ClientEnd \/ ClientRestart
    BY <1>4, ReceiveRefines, EndRefines, RestartRefines DEF Store!Next
  <1> QED BY <1>1, <1>2, <1>3, <1>4, HiddenSteps DEF Next, ClientNext

(***************************************************************************)
(* The program that links SseClient sees a store of documents: whatever    *)
(* the batches, the interleavings of IEE and storage service and the order *)
(* of adds and searches, each query is answered with the documents added   *)
(* so far that satisfy it, or with Threshold of them, and a program that   *)
(* takes over from one that died starts with an empty store.               *)
(***************************************************************************)
THEOREM Refinement == DrainBeforeRestart => (Spec => ImplementsStore)
  <1> SUFFICES ASSUME DrainBeforeRestart PROVE Spec => ImplementsStore
    OBVIOUS
  <1>1. Init => Store!Init
    BY DEF Init, Store!Init, NoDocs, Store!NoDocs, NoReply
  <1>2. StoreInv /\ [Next]_vars => [Store!Next]_(Store!storeVars)
    BY StepRefines
  <1> QED BY <1>1, <1>2, Answers, PTL DEF Spec, ImplementsStore, Store!Spec
=============================================================================
