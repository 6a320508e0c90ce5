------------------------------- MODULE Bisen --------------------------------
(***************************************************************************)
(* The searchable index of BISEN, end to end: a client program (SseClient  *)
(* and the driver in Client/), the isolated execution environment          *)
(* (Search/src/rbisen/SseIee.cpp behind extern_lib::process_message) and   *)
(* the storage service (StorageService/SseServer.cpp, STORAGE_MAP).        *)
(*                                                                         *)
(* The client numbers documents and, per word, counts the documents that   *)
(* hold it: the counter-th posting of a word is stored under the label     *)
(* <<word, counter>>.  The client and the IEE exchange one request and one *)
(* reply at a time.  The IEE and the storage service share a byte stream   *)
(* per setup; nothing the IEE adds is acknowledged, only label look-ups    *)
(* are answered.                                                           *)
(*                                                                         *)
(* This module has one client at a time; a client may die at any moment    *)
(* and another may take its place once the IEE is done with the first.     *)
(***************************************************************************)
EXTENDS QueryEvaluator

CONSTANTS
    Words,           \* the keywords that can occur in documents
    Queries,         \* the queries a client may ask, in RPN
    Threshold,       \* `threshold` in search(): 10
    MaxBatchUpdate,  \* MAX_BATCH_UPDATE
    MaxBatchSearch,  \* MAX_BATCH_SEARCH
    ChanCap,         \* messages that fit in a socket before a send blocks
    MaxDocs,         \* bound: documents a client adds
    MaxBulk,         \* bound: documents in one bulk request
    MaxConns,        \* bound: connections the IEE opens, one per setup
    DrainBeforeRestart \* does the next client wait for the storage service
                       \* to be through with the last one (Drained)?

ASSUME BisenAssumption ==
    /\ MaxDocs \in Nat
    /\ MaxConns \in Nat
    /\ ChanCap \in Nat
    /\ MaxBulk \in Nat
    /\ Threshold \in Nat
    /\ MaxBatchUpdate \in Nat \ {0}
    /\ MaxBatchSearch \in Nat \ {0}
    /\ DrainBeforeRestart \in BOOLEAN
    /\ Words \cap Operators = {}
    /\ <<>> \notin Queries
    /\ Queries \subseteq Seq(Words \cup Operators)
    /\ IsFiniteSet(Words)

DocIds == 0..MaxDocs - 1
Labels == Words \X DocIds          \* HMAC(kW, counter)
Conns  == 1..MaxConns
NoDoc  == -1                       \* no value in I, no value in docs.array

VARIABLES
    \* the client program
    clPc,      \* what it is doing
    W,         \* W: documents that hold the word, 0 if it is not in the map
    nDocs,     \* nDocs
    bulk,      \* msgs: the add messages of the next bulk request
    docs,      \* history: the documents it added, docs[i] is a set of words
    asked,     \* the query it waits for
    answer,    \* the answer to its last query
    \* the TLS connection
    req,       \* the request sent, until it is replied to
    rep,       \* the reply sent, until it is read
    \* the IEE
    ieePc,     \* where the handler of req is
    ieeExit,   \* why outside_util::exit was called, or "no"
    sock,      \* server_socket: the last connection opened, 0 for none
    work,      \* the add messages of req not yet sent to storage
    want,      \* the labels (slots) not yet received
    batch,     \* the labels (slots) asked for in the request under way
    got,       \* docs.array of the query's tokens, by slot
    \* the storage service
    toStore,   \* per connection, what it has not yet read
    toIee,     \* per connection, what the IEE has not yet read
    closed,    \* the connections it closed
    index,     \* I: the document id stored under each label
    hasRecord, \* search_results is not empty
    storeExit  \* why the service called exit, or "no"

clientVars == <<clPc, W, nDocs, bulk, docs, asked, answer>>
ieeVars    == <<ieePc, ieeExit, sock, work, want, batch, got>>
storeVars  == <<closed, index, hasRecord, storeExit>>
vars == <<clientVars, req, rep, ieeVars, toStore, toIee, storeVars>>
-----------------------------------------------------------------------------
(* Messages *)

\* An add message: the labels of document doc's words (generate_add_msg).
AddMsg == [doc : DocIds, labels : SUBSET Labels]

NoReq    == [op |-> "none"]
SetupReq == [op |-> "setup"]
BenchReq == [op |-> "bench"]
Requests ==
    [op : {"none", "setup", "bench"}]
        \cup [op : {"bulk"}, msgs : Seq(AddMsg)]
        \cup [op : {"search"}, rpn : Queries, counter : [Words -> 0..MaxDocs],
              nDocs : 0..MaxDocs]

NoReply    == [op |-> "none"]
OkReply    == [op |-> "ok"]       \* the byte 0x90
EmptyReply == [op |-> "empty"]    \* no bytes

\* The slots of a query: <<i, c>> is the c-th posting of its i-th token.
TokenIds == UNION {DOMAIN q : q \in Queries}
Slots == TokenIds \X DocIds
IsWord(token) == token \notin Operators

\* Mutant of SlotsOf: one label too many, `<=` for `<` in the loop over a
\* word's counter.
SlotsOf_OnePast(r) ==
    {s \in Slots : /\ s[1] \in DOMAIN r.rpn
                   /\ IsWord(r.rpn[s[1]])
                   /\ s[2] <= r.counter[r.rpn[s[1]]]}

SlotsOf(r) ==
    {s \in Slots : /\ s[1] \in DOMAIN r.rpn
                   /\ IsWord(r.rpn[s[1]])
                   /\ s[2] < r.counter[r.rpn[s[1]]]}

\* Mutant of LabelOf: labels are hashed from counters that start at 1.
LabelOf_FromOne(r, s) == <<r.rpn[s[1]], s[2] + 1>>

LabelOf(r, s) == <<r.rpn[s[1]], s[2]>>

\* What the IEE sends: a search message is the set of <<slot, label>> asked
\* for, a slot standing for a position in the request.
StoreMsg ==
    [op : {"init", "record", "dump"}]
        \cup [op : {"add"}, doc : DocIds, labels : SUBSET Labels]
        \cup [op : {"search"}, labels : SUBSET (Slots \X Labels)]

\* What the storage service answers: in the same positions, the entries; an
\* entry holds its label and a document id.
Entries == SUBSET (Slots \X Labels \X (DocIds \cup {NoDoc}))

NoDocs == [d \in {} |-> {}]
NoSlots == [s \in Slots |-> NoDoc]
-----------------------------------------------------------------------------
Init ==
    /\ clPc = "new"
    /\ W = [w \in Words |-> 0]
    /\ nDocs = 0
    /\ bulk = <<>>
    /\ docs = NoDocs
    /\ asked = <<>>
    /\ answer = NoReply
    /\ req = NoReq
    /\ rep = NoReply
    /\ ieePc = "idle"
    /\ ieeExit = "no"
    /\ sock = 0
    /\ work = <<>>
    /\ want = {}
    /\ batch = {}
    /\ got = NoSlots
    /\ toStore = [c \in Conns |-> <<>>]
    /\ toIee = [c \in Conns |-> <<>>]
    /\ closed = {}
    /\ index = [l \in Labels |-> NoDoc]
    /\ hasRecord = FALSE
    /\ storeExit = "no"
-----------------------------------------------------------------------------
(***************************************************************************)
(* The client: SseClient called by bisen_setup, bisen_update, bisen_search *)
(* and the end of separated_tests.  Adding and searching may alternate, as *)
(* the interface of SseClient allows; the driver adds first.               *)
(***************************************************************************)
Request(r) ==
    /\ req' = r
    /\ clPc' = "await"

ClientSetup ==
    /\ clPc = "new"
    /\ Request(SetupReq)
    /\ UNCHANGED <<W, nDocs, bulk, docs, asked, answer, rep, ieeVars,
                   toStore, toIee, storeVars>>

\* Mutant of AddNewDocument: the counter of a word is set when the word is
\* new and not advanced afterwards.
AddNewDocument_StaleCounter(words) ==
    /\ clPc \in {"ready", "bulk"}
    /\ nDocs < MaxDocs
    /\ Len(bulk) < MaxBulk
    /\ clPc' = "bulk"
    /\ nDocs' = nDocs + 1
    /\ W' = [w \in Words |-> IF w \in words THEN 1 ELSE W[w]]
    /\ bulk' = Append(bulk, [doc |-> nDocs,
                             labels |-> {<<w, W[w]>> : w \in words}])
    /\ docs' = [d \in 0..nDocs |-> IF d = nDocs THEN words ELSE docs[d]]
    /\ UNCHANGED <<asked, answer, req, rep, ieeVars, toStore, toIee,
                   storeVars>>

\* Mutant of AddNewDocument: the new counter is not put back into W.
AddNewDocument_LostCounter(words) ==
    /\ clPc \in {"ready", "bulk"}
    /\ nDocs < MaxDocs
    /\ Len(bulk) < MaxBulk
    /\ clPc' = "bulk"
    /\ nDocs' = nDocs + 1
    /\ bulk' = Append(bulk, [doc |-> nDocs,
                             labels |-> {<<w, W[w]>> : w \in words}])
    /\ docs' = [d \in 0..nDocs |-> IF d = nDocs THEN words ELSE docs[d]]
    /\ UNCHANGED <<W, asked, answer, req, rep, ieeVars, toStore, toIee,
                   storeVars>>

\* add_new_document, for the next document of a file
AddNewDocument(words) ==
    /\ clPc \in {"ready", "bulk"}
    /\ nDocs < MaxDocs
    /\ Len(bulk) < MaxBulk
    /\ clPc' = "bulk"
    /\ nDocs' = nDocs + 1
    /\ W' = [w \in Words |-> IF w \in words THEN W[w] + 1 ELSE W[w]]
    /\ bulk' = Append(bulk, [doc |-> nDocs,
                             labels |-> {<<w, W[w]>> : w \in words}])
    /\ docs' = [d \in 0..nDocs |-> IF d = nDocs THEN words ELSE docs[d]]
    /\ UNCHANGED <<asked, answer, req, rep, ieeVars, toStore, toIee,
                   storeVars>>

ClientSendBulk ==
    /\ clPc = "bulk"
    /\ Request([op |-> "bulk", msgs |-> bulk])
    /\ bulk' = <<>>
    /\ UNCHANGED <<W, nDocs, docs, asked, answer, rep, ieeVars, toStore,
                   toIee, storeVars>>

ClientSearch(q) ==
    /\ clPc = "ready"
    /\ Request([op |-> "search", rpn |-> q, counter |-> W, nDocs |-> nDocs])
    /\ asked' = q
    /\ answer' = NoReply
    /\ UNCHANGED <<W, nDocs, bulk, docs, rep, ieeVars, toStore, toIee,
                   storeVars>>

ClientDumpBench ==
    /\ clPc = "ready"
    /\ Request(BenchReq)
    /\ UNCHANGED <<W, nDocs, bulk, docs, asked, answer, rep, ieeVars,
                   toStore, toIee, storeVars>>

\* iee_recv.  The reply to the benchmark request is empty and the last one:
\* separated_tests returns and the process ends.
ClientReceive ==
    /\ clPc = "await"
    /\ rep # NoReply
    /\ rep' = NoReply
    /\ asked' = <<>>
    /\ answer' = IF rep.op = "docs" THEN rep ELSE answer
    /\ clPc' = IF rep = EmptyReply THEN "dead" ELSE "ready"
    /\ UNCHANGED <<W, nDocs, bulk, docs, req, ieeVars, toStore, toIee,
                   storeVars>>

\* The process is killed.
ClientEnd ==
    /\ clPc # "dead"
    /\ clPc' = "dead"
    /\ bulk' = <<>>
    /\ asked' = <<>>
    /\ rep' = NoReply
    /\ UNCHANGED <<W, nDocs, docs, answer, req, ieeVars, toStore, toIee,
                   storeVars>>

(***************************************************************************)
(* The storage service is through with the last client: it has read all    *)
(* that was sent to it, and the thread that closed its socket has read     *)
(* from it again (until then a new connection could be given the number of *)
(* the closed descriptor, and have two threads reading from it).           *)
(***************************************************************************)
Drained ==
    /\ \A c \in Conns : toStore[c] = <<>>
    /\ closed # {} => storeExit # "no"

\* Mutant of ClientRestart: the counters survive in a file, nDocs does not.
ClientRestart_KeepsCounters ==
    /\ clPc = "dead"
    /\ ieeExit = "no"
    /\ req = NoReq
    /\ sock < MaxConns
    /\ DrainBeforeRestart => Drained
    /\ clPc' = "new"
    /\ nDocs' = 0
    /\ docs' = NoDocs
    /\ answer' = NoReply
    /\ UNCHANGED <<W, bulk, asked, req, rep, ieeVars, toStore, toIee,
                   storeVars>>

\* SseClient::SseClient in a new process: W is not persisted.
ClientRestart ==
    /\ clPc = "dead"
    /\ ieeExit = "no"
    /\ req = NoReq
    /\ sock < MaxConns
    /\ DrainBeforeRestart => Drained
    /\ clPc' = "new"
    /\ W' = [w \in Words |-> 0]
    /\ nDocs' = 0
    /\ docs' = NoDocs
    /\ answer' = NoReply
    /\ UNCHANGED <<bulk, asked, req, rep, ieeVars, toStore, toIee, storeVars>>
-----------------------------------------------------------------------------
(***************************************************************************)
(* The IEE: TLSConnectionHandler::handle reads a request, hands it to      *)
(* process_message and writes the reply.                                   *)
(***************************************************************************)
Exit(reason) == ieeExit' = reason

(***************************************************************************)
(* The reply is written.  When the client is gone the write may go         *)
(* unnoticed, or fail, which ends the IEE (exit(1) in handle).             *)
(***************************************************************************)
Reply(r) ==
    /\ req' = NoReq
    /\ ieePc' = "idle"
    /\ \/ /\ clPc = "await"
          /\ rep' = r
          /\ UNCHANGED ieeExit
       \/ /\ clPc = "dead"
          /\ ieeExit' \in {"no", "peer_lost"}
          /\ UNCHANGED rep

CanSend == Len(toStore[sock]) < ChanCap
Send(m) == toStore' = [toStore EXCEPT ![sock] = Append(@, m)]

(***************************************************************************)
(* The client died while its request was on its way: only part of it       *)
(* arrived.  handle leaves its loop when the length is cut off and calls   *)
(* exit(1) when the body is.                                               *)
(***************************************************************************)
IeeTruncated ==
    /\ clPc = "dead"
    /\ ieePc = "idle"
    /\ req # NoReq
    /\ req' = NoReq
    /\ ieeExit' \in {"no", "peer_lost"}
    /\ UNCHANGED <<clientVars, rep, ieePc, sock, work, want, batch, got,
                   toStore, toIee, storeVars>>

\* setup(): a new connection, and OP_UEE_INIT on it
IeeSetup ==
    /\ ieePc = "idle"
    /\ req.op = "setup"
    /\ storeExit = "no"
    /\ sock < MaxConns
    /\ sock' = sock + 1
    /\ toStore' = [toStore EXCEPT ![sock + 1] = Append(@, [op |-> "init"])]
    /\ Reply(OkReply)
    /\ UNCHANGED <<clientVars, work, want, batch, got, toIee, storeVars>>

\* OP_IEE_BISEN_BULK: update() is called for each message in turn.
IeeBulk ==
    /\ ieePc = "idle"
    /\ req.op = "bulk"
    /\ ieePc' = "update"
    /\ work' = req.msgs
    /\ UNCHANGED <<clientVars, req, rep, ieeExit, sock, want, batch, got,
                   toStore, toIee, storeVars>>

\* Mutant of IeeSendBatch: only the first batch of a message is sent.
IeeSendBatch_FirstOnly ==
    /\ ieePc = "update"
    /\ work # <<>>
    /\ CanSend
    /\ \E B \in SUBSET Head(work).labels :
          /\ B # {}
          /\ Cardinality(B) <= MaxBatchUpdate
          /\ Send([op |-> "add", doc |-> Head(work).doc, labels |-> B])
          /\ work' = [work EXCEPT ![1] = [doc |-> @.doc, labels |-> {}]]
    /\ UNCHANGED <<clientVars, req, rep, ieePc, ieeExit, sock, want, batch,
                   got, toIee, storeVars>>

\* An iteration of update()'s loop: one batch of the first message.
IeeSendBatch ==
    /\ ieePc = "update"
    /\ work # <<>>
    /\ CanSend
    /\ \E B \in SUBSET Head(work).labels :
          /\ B # {}
          /\ \/ B = Head(work).labels /\ Cardinality(B) <= MaxBatchUpdate
             \/ /\ Cardinality(B) = MaxBatchUpdate
                /\ Cardinality(Head(work).labels) > MaxBatchUpdate
          /\ Send([op |-> "add", doc |-> Head(work).doc, labels |-> B])
          /\ work' = [work EXCEPT ![1] = [doc |-> @.doc,
                                          labels |-> @.labels \ B]]
    /\ UNCHANGED <<clientVars, req, rep, ieePc, ieeExit, sock, want, batch,
                   got, toIee, storeVars>>

\* Mutant of IeeNextMessage: the loop over a bulk stops one message early.
IeeNextMessage_StopsEarly ==
    /\ ieePc = "update"
    /\ work # <<>>
    /\ Head(work).labels = {}
    /\ work' = IF Len(work) = 2 THEN <<>> ELSE Tail(work)
    /\ UNCHANGED <<clientVars, req, rep, ieePc, ieeExit, sock, want, batch,
                   got, toStore, toIee, storeVars>>

\* Mutant of IeeNextMessage: the loop does not get past the last message.
IeeNextMessage_NeverEnds ==
    /\ ieePc = "update"
    /\ Len(work) > 1
    /\ Head(work).labels = {}
    /\ work' = Tail(work)
    /\ UNCHANGED <<clientVars, req, rep, ieePc, ieeExit, sock, want, batch,
                   got, toStore, toIee, storeVars>>

\* update() returns to the loop over the bulk's messages.
IeeNextMessage ==
    /\ ieePc = "update"
    /\ work # <<>>
    /\ Head(work).labels = {}
    /\ work' = Tail(work)
    /\ UNCHANGED <<clientVars, req, rep, ieePc, ieeExit, sock, want, batch,
                   got, toStore, toIee, storeVars>>

IeeBulkDone ==
    /\ ieePc = "update"
    /\ work = <<>>
    /\ Reply(OkReply)
    /\ UNCHANGED <<clientVars, sock, work, want, batch, got, toStore, toIee,
                   storeVars>>

\* search(): the benchmark message, then the query is parsed.
IeeSearch ==
    /\ ieePc = "idle"
    /\ req.op = "search"
    /\ CanSend
    /\ Send([op |-> "record"])
    /\ ieePc' = "search"
    /\ want' = SlotsOf(req)
    /\ got' = NoSlots
    /\ UNCHANGED <<clientVars, req, rep, ieeExit, sock, work, batch, toIee,
                   storeVars>>

\* get_docs_from_server sends the next batch of labels.  Their order is not
\* fixed here: the code means to shuffle them.
IeeSendLabels ==
    /\ ieePc = "search"
    /\ want # {}
    /\ CanSend
    /\ \E B \in SUBSET want :
          /\ B # {}
          /\ \/ B = want /\ Cardinality(B) <= MaxBatchSearch
             \/ /\ Cardinality(B) = MaxBatchSearch
                /\ Cardinality(want) > MaxBatchSearch
          /\ batch' = B
          /\ Send([op |-> "search",
                   labels |-> {<<s, LabelOf(req, s)>> : s \in B}])
    /\ ieePc' = "wait"
    /\ UNCHANGED <<clientVars, req, rep, ieeExit, sock, work, want, got,
                   toIee, storeVars>>

\* Mutant of Verified: the entries are compared with all the labels of the
\* query that are outstanding and not with those of the batch (label_pos).
Verified_WithoutOffset(r) ==
    {<<e[1], e[2]>> : e \in r} = {<<s, LabelOf(req, s)>> : s \in want}

\* Every entry must hold the label that was asked for in its position.
Verified(r) ==
    {<<e[1], e[2]>> : e \in r} = {<<s, LabelOf(req, s)>> : s \in batch}

\* get_docs_from_server receives the entries, verifies and stores them.
IeeReceive ==
    /\ ieePc = "wait"
    /\ toIee[sock] # <<>>
    /\ LET r == Head(toIee[sock])
       IN  IF Verified(r)
           THEN /\ got' = [s \in Slots |->
                             IF s \in batch
                             THEN (CHOOSE e \in r : e[1] = s)[3]
                             ELSE got[s]]
                /\ want' = want \ batch
                /\ batch' = {}
                /\ ieePc' = "search"
                /\ UNCHANGED ieeExit
           ELSE /\ Exit("label_mismatch")
                /\ UNCHANGED <<got, want, batch, ieePc>>
    /\ toIee' = [toIee EXCEPT ![sock] = Tail(@)]
    /\ UNCHANGED <<clientVars, req, rep, sock, work, toStore, storeVars>>

\* The docs vectors of the query's tokens, from the entries received.
Vectors ==
    [i \in DOMAIN req.rpn |->
        IF IsWord(req.rpn[i])
        THEN [c \in 1..req.counter[req.rpn[i]] |-> got[<<i, c - 1>>]]
        ELSE <<>>]

(***************************************************************************)
(* The rest of search(): the formula, the scores and the reply with the    *)
(* Threshold best documents.  Scores are not modelled, so that any         *)
(* documents may be the best.                                              *)
(***************************************************************************)
IeeEvaluate ==
    /\ ieePc = "search"
    /\ want = {}
    /\ \E result \in {Evaluate(req.rpn, Vectors, req.nDocs)} :
          \/ /\ ~result.ok
             /\ Exit("malformed_query")
             /\ UNCHANGED <<req, rep, ieePc, got>>
          \/ /\ result.ok
             /\ LET found == Elements(result.docs)
                IN  \E best \in SUBSET found :
                       /\ \/ best = found /\ Cardinality(found) <= Threshold
                          \/ /\ Cardinality(best) = Threshold
                             /\ Cardinality(found) > Threshold
                       /\ Reply([op |-> "docs", docs |-> best])
             /\ got' = NoSlots
    /\ UNCHANGED <<clientVars, sock, work, want, batch, toStore, toIee,
                   storeVars>>

\* benchmarking_print
IeeDumpBench ==
    /\ ieePc = "idle"
    /\ req.op = "bench"
    /\ CanSend
    /\ Send([op |-> "dump"])
    /\ Reply(EmptyReply)
    /\ UNCHANGED <<clientVars, sock, work, want, batch, got, toIee,
                   storeVars>>

(***************************************************************************)
(* The storage service is gone: a connect or a write fails, which ends the *)
(* IEE.  A write may also go unnoticed (the actions above), and a read     *)
(* never returns.                                                          *)
(***************************************************************************)
IeeSocketError ==
    /\ storeExit # "no"
    /\ \/ ieePc = "idle" /\ req.op \in {"setup", "search", "bench"}
       \/ ieePc = "update" /\ work # <<>> /\ Head(work).labels # {}
       \/ ieePc = "search" /\ want # {}
    /\ Exit("socket")
    /\ UNCHANGED <<clientVars, req, rep, ieePc, sock, work, want, batch, got,
                   toStore, toIee, storeVars>>
-----------------------------------------------------------------------------
(***************************************************************************)
(* The storage service: process_client, one thread per connection.         *)
(***************************************************************************)
Reads(c, op) ==
    /\ c \notin closed
    /\ toStore[c] # <<>>
    /\ Head(toStore[c]).op = op
    /\ toStore' = [toStore EXCEPT ![c] = Tail(@)]

\* OP_UEE_INIT: with STORAGE_MAP the index is left as it is.
StoreInit(c) ==
    /\ Reads(c, "init")
    /\ UNCHANGED <<clientVars, req, rep, ieeVars, toIee, storeVars>>

\* OP_UEE_ADD
StoreAdd(c) ==
    /\ Reads(c, "add")
    /\ LET m == Head(toStore[c])
       IN  index' = [l \in Labels |-> IF l \in m.labels THEN m.doc
                                                        ELSE index[l]]
    /\ UNCHANGED <<clientVars, req, rep, ieeVars, toIee, closed, hasRecord,
                   storeExit>>

\* '5': a new record in search_results
StoreRecord(c) ==
    /\ Reads(c, "record")
    /\ hasRecord' = TRUE
    /\ UNCHANGED <<clientVars, req, rep, ieeVars, toIee, closed, index,
                   storeExit>>

Found(m) == \A p \in m.labels : index[p[2]] # NoDoc

\* OP_UEE_SEARCH.  search_results.back() needs a record: without one the
\* service crashes or goes on with whatever is there.
StoreSearch(c) ==
    /\ Reads(c, "search")
    /\ LET m == Head(toStore[c])
       IN  \/ /\ ~hasRecord
              /\ storeExit' = "no_record"
              /\ UNCHANGED toIee
           \/ /\ ~Found(m)
              /\ storeExit' = "label_not_found"
              /\ UNCHANGED toIee
           \/ /\ Found(m)
              /\ toIee' = [toIee EXCEPT ![c] =
                    Append(@, {<<p[1], p[2], index[p[2]]>> : p \in m.labels})]
              /\ UNCHANGED storeExit
    /\ UNCHANGED <<clientVars, req, rep, ieeVars, closed, index, hasRecord>>

\* OP_UEE_DUMP_BENCH: the records are dropped and the socket is closed ...
StoreDumpBench(c) ==
    /\ Reads(c, "dump")
    /\ hasRecord' = FALSE
    /\ closed' = closed \cup {c}
    /\ UNCHANGED <<clientVars, req, rep, ieeVars, toIee, index, storeExit>>

\* ... and the loop reads from it again, which ends the whole service.
StoreReadClosed(c) ==
    /\ c \in closed
    /\ storeExit' = "closed_socket"
    /\ UNCHANGED <<clientVars, req, rep, ieeVars, toStore, toIee, closed,
                   index, hasRecord>>
-----------------------------------------------------------------------------
ClientNext ==
    \/ ClientSetup
    \/ \E words \in SUBSET Words : AddNewDocument(words)
    \/ ClientSendBulk
    \/ \E q \in Queries : ClientSearch(q)
    \/ ClientDumpBench
    \/ ClientReceive
    \/ ClientEnd
    \/ ClientRestart

IeeNext ==
    /\ ieeExit = "no"
    /\ \/ IeeTruncated
       \/ IeeSetup
       \/ IeeBulk
       \/ IeeSendBatch
       \/ IeeNextMessage
       \/ IeeBulkDone
       \/ IeeSearch
       \/ IeeSendLabels
       \/ IeeReceive
       \/ IeeEvaluate
       \/ IeeDumpBench
       \/ IeeSocketError

StoreNext(c) ==
    /\ storeExit = "no"
    /\ \/ StoreInit(c)
       \/ StoreAdd(c)
       \/ StoreRecord(c)
       \/ StoreSearch(c)
       \/ StoreDumpBench(c)
       \/ StoreReadClosed(c)

Next ==
    \/ ClientNext
    \/ IeeNext
    \/ \E c \in Conns : StoreNext(c)

Spec == Init /\ [][Next]_vars

(***************************************************************************)
(* The IEE's handler, every storage thread and a client that waits for a   *)
(* reply keep running.  Nothing makes a client go on asking.               *)
(***************************************************************************)
Fairness ==
    /\ WF_vars(IeeNext)
    /\ \A c \in Conns : WF_vars(StoreNext(c))
    /\ WF_vars(ClientReceive)

FairSpec == Spec /\ Fairness
-----------------------------------------------------------------------------
(* What a state can be *)

TypeOK ==
    /\ clPc \in {"new", "ready", "bulk", "await", "dead"}
    /\ W \in [Words -> 0..MaxDocs]
    /\ nDocs \in 0..MaxDocs
    /\ bulk \in Seq(AddMsg)
    /\ docs \in [0..nDocs - 1 -> SUBSET Words]
    /\ asked \in Queries \cup {<<>>}
    /\ answer.op \in {"none", "docs"}
    /\ req \in Requests
    /\ rep.op \in {"none", "ok", "empty", "docs"}
    /\ ieePc \in {"idle", "update", "search", "wait"}
    /\ ieeExit \in {"no", "peer_lost", "label_mismatch", "malformed_query",
                    "socket"}
    /\ sock \in 0..MaxConns
    /\ work \in Seq(AddMsg)
    /\ want \in SUBSET Slots
    /\ batch \in SUBSET Slots
    /\ got \in [Slots -> DocIds \cup {NoDoc}]
    /\ toStore \in [Conns -> Seq(StoreMsg)]
    /\ toIee \in [Conns -> Seq(Entries)]
    /\ closed \in SUBSET Conns
    /\ index \in [Labels -> DocIds \cup {NoDoc}]
    /\ hasRecord \in BOOLEAN
    /\ storeExit \in {"no", "no_record", "label_not_found", "closed_socket"}
-----------------------------------------------------------------------------
(* What must never happen, and what must *)

(***************************************************************************)
(* setup() says of its message to the storage service "tell server to init *)
(* index I" (SseIee.cpp:170).  Read as: when it has been handled the index *)
(* is empty.  It is not, in the STORAGE_MAP build.                         *)
(***************************************************************************)
InitEmptiesIndex ==
    [][\A c \in Conns :
          StoreInit(c) => \A l \in Labels : index'[l] = NoDoc]_vars

(***************************************************************************)
(* The storage service holds every label it is asked for when it is asked, *)
(* although no add is acknowledged, and a search record exists by then:    *)
(* the exit at "Label not found!" and the search_results.back() of an      *)
(* empty vector in process_client are never reached.                       *)
(***************************************************************************)
SearchIsServed == storeExit \notin {"label_not_found", "no_record"}

(***************************************************************************)
(* Every response is the one to the request under way: the exit at "Label  *)
(* verification doesn't match!" in get_docs_from_server is never reached.  *)
(***************************************************************************)
ResponsesMatch == ieeExit # "label_mismatch"

(***************************************************************************)
(* When all labels of a query have been received, the vector of a word     *)
(* holds every document with that word that the client added, each once.   *)
(* vi_vec_intersection and get_not_docs count on "each once", and count[]  *)
(* is only as long as the number of documents.                             *)
(***************************************************************************)
PostingsExact ==
    ieePc = "search" /\ want = {} =>
        \A i \in DOMAIN req.rpn :
            LET w == req.rpn[i]
                v == Vectors[i]
            IN  IsWord(w) =>
                    /\ Elements(v) = {d \in 0..req.nDocs - 1 : w \in docs[d]}
                    /\ \A j, k \in DOMAIN v : v[j] = v[k] => j = k

(***************************************************************************)
(* The label of a document's word: the number of earlier documents that    *)
(* hold the word.  Defined from what the client added, not from W.         *)
(***************************************************************************)
RankIn(documents, w, d) == Cardinality({e \in 0..d - 1 : w \in documents[e]})
Rank(w, d) == RankIn(docs, w, d)
Stored(w, d) == index[<<w, Rank(w, d)>>] = d

(***************************************************************************)
(* A posting that has reached the index stays there as long as the client  *)
(* lives: no later add of it overwrites one.  (With DrainBeforeRestart no  *)
(* add of an earlier client is left to do so.)                             *)
(***************************************************************************)
PostingsStay ==
    [][\A d \in DOMAIN docs : \A w \in docs[d] :
          Stored(w, d) /\ ~ClientRestart => index'[<<w, Rank(w, d)>>] = d]_vars

(***************************************************************************)
(* A request is replied to, unless the IEE or the storage service ends.    *)
(***************************************************************************)
Ended == ieeExit # "no" \/ storeExit # "no"
RequestsEnd == clPc = "await" ~> clPc # "await" \/ Ended

(***************************************************************************)
(* What a client has sent becomes searchable although nobody acknowledges  *)
(* it: once the reply to a bulk request was read, every posting of the     *)
(* documents added so far reaches the index.                               *)
(***************************************************************************)
AddsArrive ==
    \A w \in Words : \A d \in DocIds :
        (clPc = "ready" /\ d < nDocs /\ w \in docs[d]) ~>
            \/ d \in DOMAIN docs /\ w \in docs[d] /\ Stored(w, d)
            \/ clPc = "dead"
            \/ Ended

(***************************************************************************)
(* The system implements the store it stands for: every answer a client    *)
(* gets is that of SearchStore.                                            *)
(***************************************************************************)
Store == INSTANCE SearchStore
            WITH pending  <- asked,
                 answer   <- IF answer.op = "docs" THEN <<answer.docs>>
                                                   ELSE <<>>,
                 NoQuery  <- <<>>,
                 NoAnswer <- <<>>

ImplementsStore == Store!Spec

(***************************************************************************)
(* The IEE exits for three reasons only: the query it was given is not     *)
(* well-formed, the storage service has closed a socket it went on reading *)
(* from, or a client went away in the middle of a request.  In particular  *)
(* no well-formed query of a client that stays makes it exit.              *)
(***************************************************************************)
IeeExitJustified ==
    /\ ieeExit = "malformed_query" => ~Store!WellFormed(req.rpn)
    /\ ieeExit = "socket" => storeExit = "closed_socket"
    /\ ieeExit = "peer_lost" => clPc = "dead"
=============================================================================
