# BISEN in TLA+

BISEN is a searchable index for encrypted documents: a client adds documents and
asks boolean queries, an *isolated execution environment* (IEE, an SGX enclave or
a plain process) works out labels and answers, and an untrusted storage service
keeps a map from labels to encrypted entries. This directory holds TLA+ modules
for the parts of it whose correctness lies in their control flow, the TLC
configurations that check them on small instances, and theorems that TLAPS checks
for every value of the constants.

Paths below are relative to `src/`. `Iee` stands for
`Search/src/rbisen/SseIee.cpp`, `trusted` for `Search/src/trusted.cpp`, `SseServer`
for `Framework/src/StorageService/SseServer.cpp`, `SseClient` for
`Framework/src/Client/rbisen/SseClient.cpp`.

## 1. Inventory

| component | state it keeps | operations | what makes it correct |
|---|---|---|---|
| client library `SseClient` | `W` (word → number of documents with it), `nDocs`, both in memory only | setup message, `add_new_document`, `search` | counter `c` of a word is used for one posting only, and counts the postings exactly |
| query parser `QueryParser.cpp` | operator stack | `tokenize`, `shunting_yard` | the output means what the input means; it returns for matching parentheses only |
| client driver `bisen_tests.cpp`, `Client.cpp`, `util.cpp` | bulk buffer, TLS socket | setup, bulks, searches, benchmark request, end; lists the files and stops after `nr_docs` documents | one request, one reply |
| keyword extraction `EnglishAnalyzer.cpp`, `PorterStemmer.c` | buffer `s`, list of stop words; the stemmer's globals | `extractUniqueKeywords`, `extractUniqueKeywords_wiki`, `stem` | every word of a text is counted as often as it occurs, a query's word is stemmed alike |
| TLS handler `ssl_conn_hdlr.cpp`, `secure_conn.cpp` | one connection | handshake, read a request, process, write the reply, in pieces of 16384 bytes | a request is replied to; framing agrees at both ends |
| dispatch `trusted.cpp` | – | `OP_RBISEN`, `OP_IEE_BISEN_BULK` | every message of a bulk is handled, once |
| IEE index logic `SseIee.cpp` | `server_socket`, keys, request/response buffers, `last_ndocs`, `aux_bool` | `setup`, `update`, `search`, `get_docs_from_server`, `benchmarking_print` | every posting of a query is asked for once, verified and put in the right vector |
| query evaluator `QueryEvaluator.cpp`, `vec_int.cpp` | stack of document vectors, `count[]` | `evaluate`, `get_not_docs`, union, intersection | the answer is the set of documents that satisfy the query |
| token vectors `vec_token.cpp` | array, size, capacity | push, pop, peek | grows without losing a token |
| scores (`calc_idf`, `calc_tfidf`, sort) | doubles | – | the best ten come first |
| storage service `SseServer.cpp`, `cassie.cpp` | `I` (label → entry), or a table of Cassandra or Redis; `search_results` | init, add, search record, search, dump | a label that was added is found |
| sockets, exits (`untrusted_util.cpp`, `outside_util.cpp`, `ocall.cpp`) | byte streams | `socket_send`, `socket_receive`, `exit` | order of bytes; nobody waits for ever |
| worker threads (`thread_handler.cpp`, `Enclave.cpp`, `thread_pool.cpp`) | per-thread flags and arguments | register, hand over, join | each task runs once, the join waits for all |
| process (`App.cpp`, `sgx_handler.cpp`, `mbedtls_net.c`) | descriptors, threads, the enclave's places | start, accept, a thread per connection, interrupt | every client is served or dropped, descriptors are not mixed up |
| several TLS clients | globals of `SseIee.cpp` shared by threads, `server_socket` above all | – | none of them sees another's half-done work |
| cryptography | constant keys | HMAC, encryption | labels are distinct, entries open to what was sealed |

How they meet:

    files --> extraction --> SseClient <-- calls -- driver
    SseClient --(TLS: request / reply)--> handler, one thread per client -- calls -->
    process_message --> setup / update / search --(socket: FIFO, adds are not
    acknowledged, look-ups are)--> process_client, one thread per connection, one map

What is hard about it:

- **Adds are not acknowledged.** The reply 0x90 to a bulk says that the IEE has
  *sent* the postings. A look-up is right only because it travels behind them on the
  same stream, and the storage service calls `exit` for a label it does not hold.
- **The counters are the index.** The label of a posting is (word, number of
  earlier documents with the word). The number lives in the client and is lost with it
  (`TODO persist W`), the index stays: a second client writes its postings over the old
  ones under the same labels, and must never see one that it has not overwritten.
- **Batches.** Adds go out in batches of `MAX_BATCH_UPDATE`, look-ups in batches of
  `MAX_BATCH_SEARCH` with a shared buffer and an offset into it.
- **Death.** A client that dies in the middle of a request, a storage service that
  closes a socket and goes on reading from it, an IEE that exits at any of several checks.
- **Sharing.** Threads of several clients share globals and one socket without a lock, and
  each setup replaces that socket without closing the old one. Descriptors and places in the
  enclave are few.
- **Pieces.** A body crosses TLS in records and a socket in reads and writes cut anywhere; the IEE
  forgets the rest of a record it has not read.
- **Hand-over.** The threads of the pool register with an unprotected counter, and worker and joiner
  wait on the same condition variable.
- **Lifetimes.** `evaluate` frees vectors from which `calc_tfidf` reads afterwards; the Cassandra
  client returns a pointer into a result it has freed.

`PROJECT.json` lists each hazard at its line, with the properties that cover it, or why none does.

## 2. Modules

| module | models | extends |
|---|---|---|
| `VecInt` | `vec_int.cpp`, `get_not_docs`: vectors of document ids, `count[]` of unsigned chars, bounded `push_back` | – |
| `QueryEvaluator` | `evaluate()` | `VecInt` |
| `BooleanQuery` | what a query in reverse Polish notation means for one document | – |
| `EvaluatorProofs` | `evaluate()` against that meaning, for every query | `QueryEvaluator`, `BooleanQuery` |
| `SearchStore` | abstract specification: documents, queries, answers | `BooleanQuery` |
| `Bisen` | client, IEE and storage service with their streams | `QueryEvaluator`; `SearchStore` by `INSTANCE` |
| `BisenInvariant` | the inductive invariants `IInv` and `StoreInv` | `Bisen` |
| `BisenSafety` | `IInv` is inductive, and what follows from it; `Bisen` implements `SearchStore` | `BisenInvariant`, `EvaluatorProofs` |
| `MCBisen` | queries for TLC | `BisenInvariant` |
| `QueryParser` | `shunting_yard()`; the grammar of queries and what they mean | `QueryEvaluator` |
| `QueryParserProofs` | theorems about `QueryParser` | `QueryParser`, `EvaluatorProofs` |
| `MCQueryParser` | inputs for TLC | `QueryParser` |
| `VecToken` | `vec_token.cpp` | – |
| `Lookup` | one search from the stored batches to the ranked reply, over each kind of storage | `QueryEvaluator`, `BooleanQuery`, `VecToken` |
| `LookupProofs` | theorems about `Lookup` | `Lookup`, `EvaluatorProofs` |
| `MCLookup` | postings and queries for TLC | `Lookup` |
| `ForkJoin` | abstract specification: tasks are taken, run once, waited for | – |
| `ThreadHandler` | the pool of the IEE and the caller of `thread_do_work` | `ForkJoin` by `INSTANCE` |
| `ThreadHandlerProofs` | theorems about `ThreadHandler` | `ThreadHandler` |
| `Transport` | one request over TLS, the IEE's socket and back | – |
| `TransportProofs` | theorems about `Transport` | `Transport` |
| `IeeProcess` | the process around the enclave, its clients and its connections | – |
| `IeeProcessProofs` | theorems about `IeeProcess` | `IeeProcess` |
| `Stemmer` | `PorterStemmer.c`, as operators on sequences of letters | – |
| `Keywords` | both extractors, the loop over files, `tokenize` | `Stemmer` |
| `KeywordsProofs` | theorems about `Keywords` and `Stemmer` | `Keywords`; `EvaluatorProofs` by `INSTANCE` |
| `MCKeywords` | vocabulary, texts and queries for TLC | `Keywords` |

`Bisen` is the whole system with one client and each message as one step; the modules after
`QueryParser` each open one part of it that `Bisen` closes: `Lookup` the search, `Transport` the
bytes of a request, `IeeProcess` the several clients, `Keywords` the words.

Definitions whose comment begins with "Mutant of" are deliberate mistakes, one for
each checked property. They are used by no specification; put in place of the
definition they belong to, they make the property fail.

### Bisen: state and code

| variable | code |
|---|---|
| `clPc` | where the driver is; `"dead"` once the process ended |
| `W`, `nDocs` | `SseClient::W`, `nDocs` |
| `bulk` | `msgs` of `bisen_update` |
| `req`, `rep` | the request and the reply on the TLS connection; `req` stays until it was handled |
| `ieePc` | inside `setup`/`idle`, the loop of `process_message` (`"update"`), between look-ups (`"search"`), in `socket_receive` (`"wait"`) |
| `sock` | `server_socket`, a new connection per setup |
| `work` | the rest of the message in `update()` and of the bulk in `process_message` |
| `want`, `batch`, `got` | labels left in `get_docs_from_server`, those of the batch under way, `docs.array` |
| `toStore`, `toIee` | the two directions of each socket |
| `closed`, `index`, `hasRecord` | sockets closed by the service, `I`, `search_results` not empty |
| `ieeExit`, `storeExit` | why a process has exited |
| `docs`, `asked`, `answer` | history: what the client added, asked, and was told |

One action is one handler, or the part of it between two points at which another
process can be noticed: a socket read, a socket write, a batch. The three sends of
an add message (`op`, size, data) are one message, as only one thread writes to
the socket here.

| action | code |
|---|---|
| `ClientSetup`, `AddNewDocument`, `ClientSendBulk`, `ClientSearch`, `ClientDumpBench`, `ClientReceive` | `bisen_setup`, `add_new_document`, `bisen_update`, `bisen_search`, `separated_tests`, `iee_recv` |
| `ClientEnd`, `ClientRestart` | the process is killed or finishes; a new one constructs `SseClient` |
| `IeeTruncated` | a request cut off by the death of its client: `exit(1)` in `handle` |
| `IeeSetup` | `setup()`: opens a socket, sends `OP_UEE_INIT` |
| `IeeBulk`, `IeeSendBatch`, `IeeNextMessage`, `IeeBulkDone` | the bulk loop of `process_message`, the batch loop of `update()` |
| `IeeSearch`, `IeeSendLabels`, `IeeReceive`, `IeeEvaluate` | `search()`: parse, send the record and batches of labels, verify and store what comes back, evaluate and reply |
| `IeeDumpBench`, `IeeSocketError` | `benchmarking_print()`; the exits in `socket_send`, `socket_receive` and connect |
| `StoreInit`, `StoreAdd`, `StoreRecord`, `StoreSearch`, `StoreDumpBench`, `StoreReadClosed` | the branches of `process_client` |

A write to a peer that is gone may go unnoticed or may fail; a message that finds
`ChanCap` messages unread blocks its sender. A label is the pair of its word and
its counter and an entry is what was sealed in it: HMAC and encryption are taken
as injective and correct. The scores are not computed here (they are in `Lookup`), so that
`IeeEvaluate` may call any `Threshold` of the matching documents the best.

`Bisen` is more liberal than the driver in one point: adding and searching may
alternate, as the interface of `SseClient` allows.

### SearchStore

The promise to a program that links `SseClient`: a query is answered by the documents
that satisfy it, or by `Threshold` of them if more do, and by nothing at all if the
query is not well-formed. `Holds` (in `BooleanQuery`) is the truth of a query for *one* document and knows
nothing of vectors. The mapping (`Store` in `Bisen`) takes the client's documents,
the query it waits for and its last answer; all of the IEE and the storage service is
implementation. `ImplementsStore` is that specification as a property.

### QueryParser

One action is one iteration of one of the loops of `shunting_yard`: `Word`,
`PopHigher` and `PushOperator` (an operator), `Open`, `PopToOpen`, `Close` and
`TopOfNothing` (a closing parenthesis), `PopRest` and `Return` (after the tokens).
`TopOfNothing` is `operators.top()` of an empty `std::stack`, undefined in C++: the
call ends as `"undefined"`. `tokenize` is abstracted to the sequences it can return; folding of
`&&` and `||`, lower case and stemming are in `Keywords`.

`Grammar` states what queries there are and what each means, by the usual binding of
`!`, `&` and `|`, without a stack. `MeaningKept` ties the three together: grammar,
parser, and `Evaluate` of `QueryEvaluator` run on the parser's output. `MaxQuery` bounds the length of
the queries `Grammar` lists; the theorems hold for each value of it.

### Lookup and VecToken

One search in an index of fixed postings. `backend` is the storage the service was built with,
`held` what it holds, `labels` and `labelPos` the buffer of `get_docs_from_server`, `answers`
the service's buffer, `docs` the vectors of documents and frequencies of each token.

| action | code |
|---|---|
| `ConnectBackend`, `InitIndex`, `AddBatch`, `AddToRedisEnds` | the start of the service, `OP_UEE_INIT` and `OP_UEE_ADD` for the three kinds, with what each may lose without anybody's notice |
| `StartSearch`, `ParseToken`, `ParseEnd` | the loop of `search()` over the message, with `vt_push_back` and its growth |
| `PlaceLabel`, `NextToken`, `ShuffleEnd` | the "fisher-yates" placement of the labels (`r` is always 0 in the code, and here) |
| `SendBatch`, `Select`, `SelectEnd` | a batch of labels; map, `cassie.cpp` and Redis answer each |
| `Receive`, `Refuse` | verification of the batch, and the exit when it fails |
| `EvaluateQuery`, `ScoreDocument`, `Reply` | `evaluate`, `calc_tfidf`, `qsort` and the threshold |

Cassandra and Redis are external: they are the outcomes the calls in `src/` can have. An error that Redis replies
to a `GET` has a string too, which the service copies as if it were the entry (`SseServer.cpp:205`), so the answer may be
garbage. `select_from_cassandra`
may return what a pointer into a freed result points at, which is any entry or garbage; the vectors
`evaluate` has freed may read as anything, so that `vi_index_of` may return any position. `Idf` is a
whole number with the order and the zero of `log10(total_docs / nr_docs)`.

### ThreadHandler and ForkJoin

`slot[w]` is the element of `threads` a worker took, `ready`, `done` and `work` are the fields of
the elements, `wpc` and `mpc` where the threads are, `accepted` and `runs` history. `EnterRead` and
`EnterWrite` are the two halves of `entered_threads++`. `WaitForWork`, `RunTask`, `FinishTask` and
`NotifyDone` are the loop of `ecall_thread_enter`, `AddMainTask`, `AddWorkerTask` and `RefuseTask` are
`thread_add_work`, `DoWork` to `FinishWork` are `thread_do_work`. A critical section that ends where it began is one
step; a worker holds its lock while its task runs. `NotifyOne` and `Signal` wake any one of the
threads that wait, and `SpuriousWakeup` any for no reason.

In the configured build the callers of `thread_add_work` and `thread_do_work` are commented out (`trusted.cpp:184`); workers
enter all the same, and the caller here is any that keeps to the interface.

`ForkJoin` says what the two calls promise: an accepted task is run once, by somebody, before
`thread_do_work` returns.

### Transport

The buffers of one connection: `up` and `down` are the TLS records under way, `toStore` and
`fromStore` the bytes in the socket, `iBuf`, `cBuf`, `sBuf` and `iGot` what each end has put
together, `due` what the storage service has to read and whether it answers. A byte is its position in
the buffer it came from.

| action | code |
|---|---|
| `SendLength`, `SendPiece`, `ReceiveLength`, `ReceivePiece`, `CloseConnection`, `ClientFails` | `iee_send`, `iee_recv` and the loops of `secure_conn.cpp` |
| `ReadLength`, `ReadEnd`, `ReadPiece`, `ReadFails`, `WriteLength`, `WritePiece`, `WriteFails` | `handle`, with `read_ssl` and `write_ssl` |
| `Contact`, `StoreSend`, `StoreReceive`, `StoreFails`, `Answer` | `process_message` as far as its sockets show it: any number of messages, answered or not |
| `StoreReads`, `StoreHandles`, `StoreWrites` | the other end |
| `BreakConnection`, `StoreDies` | either end goes away |

`ReadLength` and `ReadPiece` drop the rest of their record: the context is passed by value.

### IeeProcess

`fds` gives each descriptor its owner, `thread` is where the thread of each client is, `todo` the
rest of the request it handles, one element per send or receive; `stream` the sends on each
connection to the storage service. `Main` is `main()` of `App.cpp` (arguments, enclave, pool, TLS set-up, `bind`,
accept loop), `Thread(c)` is `ecall_handle_ssl_connection` with the parts of `SseIee.cpp` that touch
`server_socket`, `Storage` the service's accept loop and the framing in `process_client`, and the
rest are the client programs. `OpenStorage` and `Publish` are two steps, and so is each send of an add:
another thread may come in between. `ReadGarbled` is a service that reads bytes other than those it
expects. A search is three steps here and its data is left out.

### Keywords and Stemmer

A file is a sequence of items: words, blanks, ends of line and the two marks of a wiki dump, each a sequence of
characters. `taken` says how far `getline` has come in it, `start` and `end` which items `line` holds, and `at` which of
them was scanned last. `OpenFile`, `OpenFails`,
`GetLine` and `GetLineFails`, `ReadWord`, `ReadSeparator`, `TestStopWord`, `Stemming`, `Count` and `FileDone` are the two
extractors, which differ in when a word is tested; `AddDocuments` is the round of the driver's loop over the
files. `Stemming` is one step of `stem()`. `Tokenize` is the tokenizer as a fold over the
items of a query (`ReadItem`, `ReadItems`), stemmed at the end. A word is the sequence of its letters, because the
rules of the stemmer are about letters; the rules and the stop words are written as strings and `Spelled` out.

The model keeps what the code does at the edges, for instance that the last word of a line of a wiki
file is dropped and that a last line without an end is read twice; `CountsExact` says so.

## 3. What is checked

| run | instance | result | what it shows |
|---|---|---|---|
| `session` | 2 words, 3 documents, bulks of ≤ 2, batches of 1 and 2, sockets of 2, one client, four queries | 62,602 states | types; look-ups are served; responses match; vectors are exact; the IEE exits for three reasons only; an answer under way is right (`StoreInv`); `SearchStore` is implemented |
| `restart` | 2 words, 2 documents per client, up to three clients, sockets of 3 | 428,078 states | later clients on the index the earlier ones left: `IInv`, look-ups served among it; vectors are exact; postings stay; `SearchStore` is implemented |
| `live` | 2 words, 2 documents, batches and sockets of 1, under `FairSpec` | 5,536 states | every request ends; every add arrives, unless a process has exited |
| `init` | two clients, 1 document | violated | `OP_UEE_INIT` leaves the index as it is (see 6) |
| `parse` | all token sequences of ≤ 5 over 2 words, all queries of ≤ 9 tokens | 276,161 states | order of the stack, no token lost, returns iff balanced, meaning kept |
| `nested` | all token sequences of ≤ 3, queries of ≤ 4 with `!!` | violated | a negation under a negation is not parsed (see 6) |
| `lookup` | 3 words, 3 documents, two indexes, nine queries, batches of 2, `Threshold` 2, token vectors that begin with 2 places, two hashes; map, Cassandra, Redis | 35,482 states | each posting is asked for once; a query is evaluated on exact vectors or not at all; the answer is the documents that satisfy it; the best come first |
| `scores` | the same, one query of two words | violated | scores are computed from freed vectors (see 6) |
| `threads` | 3 workers, 4 tasks, under `FairSpec` | 179,299 states | no element without a worker; `ForkJoin` is implemented; the join returns unless an element is shared |
| `frames` | pieces of 2, bodies of 1, 2, 3 and 5, messages of 1 and 3 to the storage service, sockets of 2, two requests, two messages, under `FairSpec` | 226,164 states | bytes arrive intact over both hops; requests are answered and threads end |
| `connections` | 2 clients that come once, with up to 3 requests, 4 descriptors, 2 places in the enclave, 1 worker, 2 addresses, a connection that holds one send | 180,001 states | descriptors are accounted for; messages stay whole while requests do not overlap; clients are settled |
| `text` | 643 words (every ending the stemmer knows after ten beginnings), all plain texts of ≤ 5 items and wiki files of ≤ 6, pairs of files | 137,428 states | counts, stemmer, and that queries find what the text has |

The properties:

- `SearchIsServed`: the storage service never reaches its exit at "Label not found!",
  nor `search_results.back()` without a record.
- `ResponsesMatch`: the IEE never reaches its exit at "Label verification doesn't match!".
- `PostingsExact`: when all labels have arrived, the vector of a word holds exactly the
  documents with it, each once – which `count[]` and the negation rely on.
- `IeeExitJustified`: the IEE exits for a query that is not well-formed, a socket the
  service closed, or a client that died, and for nothing else.
- `PostingsStay`: no step other than a restart lets a label of the current client's posting
  take another value.
- `ImplementsStore`: refinement of `SearchStore`. `StoreInv`: the invariant it rests on; the query the client waits for
  is the one it sent, and the answer on its way is right for it.
- `RequestsEnd`, `AddsArrive`: liveness.
- `StackOrdered`, `NothingDropped`, `ReturnsIfBalanced`, `MeaningKept`: see the module.
- `EachLabelOnce`: the placement of labels neither loses nor repeats one. `VectorsExact`: what the
  formula is evaluated on is what was added, whatever a database lost or answered – a wrong or missing entry
  ends in an exit. `AnswerExact`: so the response is the documents that satisfy the query, and the search ends in an exit only
  for a query that is not well-formed, or because an answer is not the entry asked for – never so over a map, but Cassandra
  and the text of a Redis error do it to well-formed queries. `BestFirst`: the reply is the best documents of a query of one word, in order.
- `SlotsServed`: however the increments of `entered_threads` interleave, an element that can be given a
  task has a worker. Two workers may share one; `ImplementsForkJoin` shows that its task is still run
  once. `JoinReturns`: `thread_do_work` returns, *unless* two workers share an element: the
  `notify_one` meant for the caller may then wake the other worker.
- `RecordsIntact`, `SocketIntact`, `NothingLeftOver`: the three loops agree about where a message
  ends; in particular, no record is ever longer than what the IEE asks for, so that
  forgetting its rest does no harm. `ExitJustified`: a client that leaves between requests never stops the IEE.
  `Answered`, `ThreadEnds`: liveness, unless the storage service is gone.
- `DescriptorsAccounted`: each open descriptor belongs to one owner, none is closed under a thread that uses it,
  and the only ones lost are the connections replaced by a later setup. `FramesWhole`: messages of several
  clients do not mix *as long as no two requests are handled at once*; without that condition
  it fails, as nothing orders the three sends of an add. `ClientsSettled`: a client that connects gets its session or
  is dropped, and one that is gone has its descriptor freed.
- `CountsExact`, `StemInPlace`, `AsDocumented`, `QueryWordsFound`: the words of the index are
  those of the text, and those a query asks for.

**Bounds, and why they are enough.** Two words give every pair of operands. Three
documents against batches of one and two give full, last and only batches, a look-up of
more than one batch, and more matches than `Threshold = 2`. One or two messages in a socket
make senders block. Two clients are what a restart needs; the third meets an index that is half
the first one's and half the second one's. `restart` has `MAX_BATCH_UPDATE` as large as
any document, as the code has, because `session` covers the batches of a message. The queries hold
each operator, a negation over a composed operand, and one that is not well-formed. Nine tokens
are the shortest queries with a parenthesis on both sides of an operator and a negation
in one of them. `DocIds`, `MaxConns`, `MaxBulk` and `ChanCap` bound numbers that the code does not
bound; the theorems hold for all their values.

`lookup` has batches that are full and not, a word of all documents (whose weight is 0), a word of none, a word twice
in a query, queries longer than the first token vector, and labels with equal hashes. Three workers are the
fewest of which two share an element while another is overtaken; four tasks make a round with all
elements and another one after it, and a task that is refused. `frames` has bodies shorter than a piece, as long, longer by one and
of more than two pieces; sockets hold fewer bytes than a message. In `connections` two places are too few for both
clients and the worker, and four descriptors too few for the listener, two clients and two setups.
The fourth request of a session, the benchmark, is not reached there (`session` has it). The plain
texts of `text` fit two words that follow each other in the buffer and its longer leftovers; six items are an
article, its marks and an unfinished line.

`CHECK_DEADLOCK FALSE`: the systems may stop when a client is done, when a process has
exited, when `shunting_yard` or a search has returned, when a text has been read, and when all
tasks were offered.

**Fairness.** `WF` for the IEE, for each storage thread and for a client waiting in
`iee_recv`: each is a thread that the operating system goes on running and that waits for nothing
but what its guard says. Nothing makes a client send a request, and no client has to die.
No strong fairness is assumed, and none of an action that belongs to a peer.
In `ThreadHandler` each thread of the pool and a caller inside `thread_do_work` go on running; nobody has to offer
a task and no spurious wake-up has to happen. In `Transport` `WF` holds for what each of client, IEE and
storage service has begun; not for `StoreFails` and `ClientFails`, because `receive_all` and
`ssl_receive_all` take a 0 from `read` at the end of a stream for a short read and may go round for ever
– which is why `Answered` and `ThreadEnds` except a dead storage service. In `IeeProcess` it holds for
`main()`, the threads of clients and the storage service; not for the entry of a worker, a signal, the
destruction of the enclave (which may wait for threads inside) or anything a client does. `IeeProcess` has its fairness in
`Spec`.

## 4. What is proved

| theorem | module | statement |
|---|---|---|
| `EvaluateExact` | `EvaluatorProofs` | `evaluate()` fails for the queries that are not well-formed, and else lists the documents that satisfy the query, each once |
| `TypeCorrect` | `BisenSafety` | `Spec => []TypeOK` |
| `Safety` | `BisenSafety` | `Spec => []IInv`, if `DrainBeforeRestart` |
| `LookUpsServed`, `ResponsesVerified`, `VectorsExact` | `BisenSafety` | `SearchIsServed`, `ResponsesMatch`, `PostingsExact` |
| `PostingsKept` | `BisenSafety` | `PostingsStay` |
| `Answers`, `ExitsJustified` | `BisenSafety` | `StoreInv`, `IeeExitJustified` |
| `Refinement` | `BisenSafety` | `ImplementsStore` |
| `ParserTypeCorrect`, `OperatorsOrdered`, `TokensKept`, `BalancedReturn` | `QueryParserProofs` | `TypeOK`, `StackOrdered`, `NothingDropped`, `ReturnsIfBalanced` |
| `QueriesAnswered` | `QueryParserProofs` | each query of the grammar is parsed, and `evaluate()` answers the result, over any index, with the documents that satisfy it |
| `MeaningIsKept` | `QueryParserProofs` | `MeaningKept`, if the words are finitely many |
| `TypeCorrect`, `SlotsAreServed` | `ThreadHandlerProofs` | `TypeOK`, `SlotsServed` |
| `Refinement` | `ThreadHandlerProofs` | `ImplementsForkJoin` |
| `LabelsOnce`, `VectorsAreExact` | `LookupProofs` | `EachLabelOnce`, `VectorsExact` |
| `AnswersAreExact`, `RepliesAreBest` | `LookupProofs` | `AnswerExact`, `BestFirst` |
| `TypeCorrect`, `BodiesArrive`, `MessagesArrive` | `TransportProofs` | `TypeOK`, `RecordsIntact`, `SocketIntact` |
| `ExitsForAReason`, `ConnectionClean` | `TransportProofs` | `ExitJustified`, `NothingLeftOver` |
| `NoDescriptorLost`, `MessagesKeptApart` | `IeeProcessProofs` | `DescriptorsAccounted`, `FramesWhole` |
| `CountsAreExact`, `StemsInPlace`, `QueriesFind` | `KeywordsProofs` | `CountsExact`, `StemInPlace`, `QueryWordsFound` |

They hold for every number of words, documents, connections and queries, every
batch size and every capacity; for the parser, for inputs of every length; for the threads, for any number of
workers and tasks; for a search, for any postings, query, batch size, hash of the labels and kind of storage; for a connection, for any
size of a piece, any lengths, any capacity of a socket and any number of requests; for the process, for any number of
clients, descriptors, workers and places in the enclave; for keywords, for any files whose words and marks stand where
a reader of characters can tell them apart (`Readable`), any words, any limit and any queries.

**The assumption `DrainBeforeRestart`.** A client may take over from a dead one only when
the storage service has read all that was sent to it and no thread of it is about to
read a socket it closed (`Drained`). The code does not wait for this; an operator who starts
a client by hand does. Without it an add of the old client can be read after an
add of the new one, by another thread, and overwrite it. `TypeCorrect` does not need it.

**The inductive invariant.** Nothing in `SearchIsServed` says why a label is there.
The argument is that every posting of the current client is *stored or on its way*
(`NothingLost`), the way being bulk, request, `work` and stream; that what is on the way is
a posting under its one right label (`AddsSound`), where right is defined
from the documents alone (`Rank`) and agrees with the counters (`Ranked`); that a look-up is the last message
on the only stream that carries anything (`Streams`) and is preceded by a record that no dump
can drop (`Records`); and so that a response holds postings (`Responses`), and all
received slots do (`Progress`). The type invariant needs `Phases` (who
waits for whom) and `Counted`. `restart` checks `IInv` as an invariant, and one lemma per conjunct
proves it for each action.

**The evaluator.** `EvaluateExact` compares two functions over the tokens of a query: `Run`, on a stack of vectors, and
`Truth`, on a stack of truth values for one document. `Represents` relates them: as long as each operator found its operands, the
stacks are as high, no vector has a document twice, and a document is in a vector where its truth value is `TRUE`. The work is
in one token: the scan of `count[]` returns the documents selected, in order, if the capacity is at least their number
(`CollectLists`), and the three capacities are (the number of times a counter passes 1 or 2, and `ndocs` less the
length of the operand, as that has no document twice). Induction is not taken from the library, whose theorem takes an operator;
`Induction` is that theorem for a *set* of naturals, proved once, and each use names the set of the numbers up to which the
claim holds. The functions' recursive equations are derived from their definition in the same way.

**The refinement.** `SearchStore` sees the client's documents, the query it waits for and its last answer. `Asking` says that
the query is the one in the request and that an answer under way is right for the documents there are; no step of
the IEE or the storage service touches what it is about, except `IeeEvaluate`, where `PostingsExact` (from `IInv`) and `EvaluateExact`
make it true. `Exits` gives each exit of the IEE its reason. With both (`StoreInv`) each action of the client is an action of
`SearchStore`, and each other step a stutter. Both need `DrainBeforeRestart`, through `IInv`.

**The parser.** `OpenCounted` is the strengthening: the parentheses on the stack are those
opened and not closed, and no prefix closed one that was not open. The lemmas about
`Occurrences` (how a count changes with one more element, `Append` and a pop) carry
the rest. For `MeaningKept` the call is a function of its state (`Step`; `NextIsStep` shows that each action is a step of it), and
`Leads` says that its steps go from one state to another. `Denotes` says what a sequence of tokens in reverse Polish notation
means: behind any tokens that have found their operands it leaves one value more. `Reads` is the induction hypothesis, one for a
phrase of the grammar and a level of binding: wherever the phrase stands, if what is on the stack binds looser than the level,
the call puts out `r` and leaves operators `m` of that level above what was there, and `r` followed by `m` from its top
denotes the meaning. There is a lemma for each production (`Productions`); each operator of `m` is popped by what comes next,
because that binds looser or closes (`AllPopped`), and so lands behind its operands. The table of all phrases
up to `MaxQuery` is then built from phrases that are read (`ShorterSound`), so no induction over derivations is needed. The invariant
is `WillDenote`: from the present state on the call arrives at a return whose output denotes what the input means.
`EvaluateExact` turns this into the answer of the IEE. The level is where `!!a` fails: an atom is read above a negation, but not a
negation, because `>=` would pop the first `!`; the rule for nested negations has no such lemma.

**The threads.** A counter that is read and written in two steps can go back, so
nothing can be said about its value alone. `Entering`: the counter, and what any worker has read of it, is at most
the number of workers that are in. `Served`: each element below the counter, and below what a worker that
is entering has read, has an owner; so that writing the counter back, even lower, keeps it. For the refinement, `Exclusive` gives the lock its meaning (one of the workers of an element runs or
finishes), `Flags` relates `ready`, `done` and the caller's place in its two loops, and `Placed` and `Progress` say that the
task of an element is accepted and has been run exactly if the element is past its worker. `runs` of each task then changes
by a step `Run` of `ForkJoin`, and `FinishWork` meets no task that was not run.

**A search.** `Parsed`: the token vector is a prefix of the request, whatever growth did to the array.
`Vectors`: each word has vectors of the length of its counter. `Shuffled`: the labels are a
permutation of those the two loops have passed. `Answered`: an answer is an entry of the index or garbage, and no
garbage carries a label. `Fetched`: what lies before `label_pos` is in its place. `Receive` needs all of
them: a batch holds no label twice, so each place is written once. For the answer, `Given` says that postings and query are of the
sets assumed, `Faithful` that a map answers with the entry asked for or not at all, `Judged` what the response holds (by
`EvaluateExact`, from `VectorsExact`) and why a search ends in an exit, and `Scored` that the documents scored so far are a prefix of the response and, for
a query of one word, have their frequency times the weight of the word. `BestFirst` then needs that the sorted list is a
permutation. `DocumentsAssumption`, that a word has one posting per document, is what `add_new_document` sees to: it
is given a map from words to frequencies (`SseClient:79-109`).

**A connection.** `Exchange` is the invariant. The records on their way are the pieces of one body, from
what the receiver has put together to what the sender has sent (`Chain`): each begins where the one before it
ends and is as long as the rest allows, so that the round that takes it asks for exactly as much, and the rest of a record
that the IEE forgets is empty. `Upward` and `Downward` say this of request and answer, `Phases` where
client and thread can be at the same time. A socket has no records: `Stream` gives each
message the place in the bytes where it begins, before the first byte if some of it was read, and says that
every byte there is the byte of its message; a read that never asks for more than is left of the
message then returns its next bytes. `Sockets` adds that a message with an answer is the last, `Returned` is the same for the
answer. One lemma per action keeps the records, one per action of the socket the rest.

**The process.** `Owners` says that each descriptor in use has an owner and each owner one descriptor; `Owning` reads
off threads, accept loop and connections who the owners are. The two helpers that change `fds` keep it
(`OwnerOpens`, `OwnerCloses`), so each action has only to show which owner it adds or removes; for that, `Accepting` says
that a client has no thread before it is accepted and is accepted once. For the messages, `Due` is what has to
come at each place of a connection and `Owed` what has to come next: `Orderly` says that every send is what was due, and that
something is owed exactly where the one thread with a half-sent message will send it. The storage service, by taking a
send, moves what was due at each place one place forward (`TakenFramed`). The proof assumes that the names of clients and of
the listening socket differ from each other and from numbers (`OwnersAssumption`), which is about the model
alone: in the code these are different objects.

**Keywords.** `CountsExact` compares a table that was filled step by step with a set that is read off the file. What connects
them is the notion of a *settled* position: one whose word has been counted, found to be a stop word, or dropped. `Tallied`
says that each table holds, for each stem, the number of settled positions of its article (`Firsts`), and those of a last line
that does not end once more when it is handled again (`Seconds`). A step either leaves both sets as they are, or is `Count` and adds
the position in hand (`TablesCount`). That it is that position, and that the word in the buffer is its word, is `WordHeld`; a buffer
with a byte too many is longer than any stop word (`StopWordsAssumption`), so that it is taken for none. `Lines` says where the line under way
lies: no end of a line in it, and nothing but the mark if it begins with one, so that all its words are in the article under way
(`WordsArticle`); an article begun has no words (`TablesAppend`). `Stemmed` says that the steps of the stemmer
still to come lead from the word in hand to the stem. Each step is shown not to lengthen a word and to leave what the next one needs
(`Step1abLength` to `Step5Length`); of its tables of suffixes this uses only that no rule makes a word longer (`RulesAssumption`).
`RulesAssumption` and `StopWordsAssumption` are about fixed tables of strings, which the provers cannot look into; TLC evaluates
both. For `QueryWordsFound`, `Indexed` says that each counted word of a file that is done is in the index (it follows from `CountsExact`:
a number that is not 0 has an entry), and `WordAlone`, by induction over the items of a query, that a word by itself becomes a token that no later item changes.

**Only model-checked:** liveness (`RequestsEnd`, `AddsArrive`, `JoinReturns`, `Answered`, `ThreadEnds`,
`ClientsSettled`), which the prover does not do; and `AsDocumented`, which is about fourteen given words,
whose letters the provers do not see.

## 5. What is not modelled, and why

- Two searches at once: what they do to the shared `labels`, `aux_bool`, `last_ndocs` and
  `search_results` is a data race on memory, of which little can be said beyond that it is one. `IeeProcess`
  stops at the connection they share, where overlapping requests already break the framing.
- `log10` in doubles: replaced by whole numbers of the same order.
- Statistics, timing, the contents of the configuration and the order in which a directory is listed: no
  protocol state.
- The image and multimodal operations in `trusted.cpp`: commented out in the source.
  `StorageServer_old.cpp` is between `#if 0` and `#endif`.
- Helpers without a caller in the configured build: listing of image files, `ocall_set` and
  `ocall_get`, `vt_pop_back` and others.
- The record protocol, the handshake and certificates of mbed TLS (library code), the text of its
  errors (`mbedtls_error.c`), and the certificates in `ca_bundle.h`: data and library.
- Cassandra and Redis themselves: external services, seen through the calls in `src/`.
- A restart of the storage service: the IEE cannot reconnect without a new setup, so a dead
  service stays dead; that its index is gone with it needs no model.
- Collisions of labels and failures of decryption: HMAC and encryption are perfect here.

## 6. Disagreements found

- `OP_UEE_INIT` with `STORAGE_MAP` keeps the index (`SseServer:80`, the clearing code is
  commented out), while `setup()` sends it to "tell server to init index I" (`Iee:170`) and the other
  backends drop their tables. Run `init`. Because a new client overwrites the labels it uses
  before it asks for them, its answers are right all the same (run `restart`).
- `!!a` is parsed to `! a !`, as the rule for equal precedence is applied to a prefix
  operator (`QueryParser.cpp:79`), and `evaluate` exits for it. Run `nested`. With parentheses,
  `!(!a)`, it is parsed properly (run `parse`).
- `calc_tfidf` looks documents up in `t->docs` (`Iee:510`), the arrays that `evaluate` has freed
  as operands by then (`QueryEvaluator.cpp:60-155`), although it is to "iterate over all terms and find who uses
  them" (`Iee:503`). The score of a query with an operator need not be the sum over its words. Run
  `scores`. For a query of one word nothing is freed before (run `lookup`).

## 7. Plan

Done: `VecInt` and `QueryEvaluator` with their proofs, `SearchStore`, `Bisen` with its invariants, its proofs and its refinement,
`QueryParser` with its proofs, `ThreadHandler` with its refinement and proofs, `Lookup` with its
proofs, `Transport` with its proofs, `IeeProcess` with its proofs, `Stemmer` and `Keywords` with their proofs. What is left, in this order:

1. Two searches at once, with the accesses to `labels`, `aux_bool` and `search_results` as separate
   steps, as far as a data race has outcomes worth enumerating.
2. `Lookup` with the index of `Bisen`, so that a search over a lossy database is seen by a client.
