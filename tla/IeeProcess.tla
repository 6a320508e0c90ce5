----------------------------- MODULE IeeProcess -----------------------------
(***************************************************************************)
(* The process around the enclave, from its start to its end               *)
(* (IeeComm/App.cpp, sgx_handler.cpp, thread_pool.cpp, mbedtls_net.c): it    *)
(* accepts TLS clients and serves each with a thread of its own             *)
(* (Iee/mbedtls/ssl_conn_hdlr.cpp); the threads share the one socket to the *)
(* storage service that SseIee.cpp keeps in server_socket.                  *)
(*                                                                         *)
(* Clients are runs of Client/Client.cpp.  A message to the storage service *)
(* is the sequence of the sends it consists of.                             *)
(***************************************************************************)
EXTENDS Naturals, Sequences, FiniteSets

CONSTANTS
  Clients,      \* bound: runs of the client program
  MaxFds,       \* bound: descriptors the process may open
  MaxTcs,       \* TCSNum: threads that may be in the enclave
  Workers,      \* nr_threads
  Addresses,    \* bound: addresses that getaddrinfo() finds
  MaxRequests,  \* bound: requests a client sends before it ends
  MaxUnread,    \* bound: sends that fit in a connection before one has to wait
  Free, Listen  \* a descriptor not in use; that of the listening socket

ASSUME BoundsAssumption ==
  /\ MaxFds \in Nat \ {0} /\ MaxTcs \in Nat /\ Workers \in Nat
  /\ MaxUnread \in Nat \ {0}
  /\ Addresses \in Nat /\ MaxRequests \in 0 .. 4
  /\ IsFiniteSet(Clients)
ASSUME OwnersAssumption ==
  /\ Free # Listen /\ Free \notin Clients /\ Listen \notin Clients
  /\ \A o \in Clients \cup {Free, Listen} : o \notin Nat

VARIABLES
  iee,          \* where main() is; "exited": the process is gone
  crashed,      \* an exception has left the enclave unusable
  entered,      \* threads of the pool that are in the enclave
  left,         \* addresses still to be tried
  fds,          \* owner of each descriptor
  queued,       \* clients not accepted yet
  accepted,     \* the client accept() returned last
  thread,       \* the thread of each client
  todo,         \* what is left of the request it handles
  serverSocket, \* server_socket: a connection to the storage service, 0: none
  opened,       \* the connection open_socket() returned to each thread
  overlapped,   \* two threads have been in process_message() at once
  client,       \* the client programs
  requests,     \* requests each has sent
  pending,      \* a request of each that is not answered
  store,        \* the storage service
  stream,       \* sends on each connection to it that it has not taken yet
  rest,         \* what belongs to the message it has begun to read on each
  answers       \* answers on each connection that the IEE has not received

startVars == <<crashed, entered, left>>
acceptVars == <<queued, accepted>>
opVars == <<todo, serverSocket, opened, overlapped>>
clientVars == <<client, requests, pending>>
storeVars == <<store, stream, rest, answers>>
vars == <<iee, startVars, fds, acceptVars, thread, opVars, clientVars, storeVars>>

Running == iee # "exited"
Fds == 1 .. MaxFds
Open(o) == {n \in Fds : fds[n] = o}
FreeFds == Open(Free)

\* The lowest descriptor that is free.
Lowest == CHOOSE n \in FreeFds : \A m \in FreeFds : n <= m
Opened(o) == [fds EXCEPT ![Lowest] = o]
Closed(o) == [n \in Fds |-> IF fds[n] = o THEN Free ELSE fds[n]]

\* Peers notice that their connection is closed.
Dropped(cs) == [c \in Clients |-> IF c \in cs /\ client[c] \in {"open", "up"}
                                  THEN "failed" ELSE client[c]]

\* exit(): the threads are gone and every descriptor is closed; what the storage
\* service still finds in the connections is not followed.
Exit ==
  /\ iee' = "exited"
  /\ crashed' = FALSE /\ entered' = 0 /\ left' = 0
  /\ fds' = [n \in Fds |-> Free]
  /\ queued' = {} /\ accepted' = {}
  /\ thread' = [c \in Clients |-> "done"]
  /\ todo' = [c \in Clients |-> <<>>]
  /\ serverSocket' = 0
  /\ opened' = [c \in Clients |-> 0]
  /\ overlapped' = FALSE
  /\ client' = Dropped(Clients)
  /\ requests' = [c \in Clients |-> 0]
  /\ pending' = [c \in Clients |-> ""]
  /\ stream' = <<>> /\ rest' = <<>> /\ answers' = <<>>
  /\ UNCHANGED store

Init ==
  /\ iee = "args" /\ crashed = FALSE /\ entered = 0 /\ left = Addresses
  /\ fds = [n \in Fds |-> Free]
  /\ queued = {} /\ accepted = {}
  /\ thread = [c \in Clients |-> "none"]
  /\ todo = [c \in Clients |-> <<>>]
  /\ serverSocket = 0
  /\ opened = [c \in Clients |-> 0]
  /\ overlapped = FALSE
  /\ client = [c \in Clients |-> "off"]
  /\ requests = [c \in Clients |-> 0]
  /\ pending = [c \in Clients |-> ""]
  /\ store = "start" /\ stream = <<>> /\ rest = <<>> /\ answers = <<>>
-----------------------------------------------------------------------------
(* main(), up to the accept loop.                                          *)

StartUnchanged ==
  UNCHANGED <<acceptVars, thread, opVars, clientVars, storeVars>>

\* argc and the enclave with its launch token: each may end the process.
Prepare(from, to) ==
  /\ iee = from
  /\ \/ iee' = to /\ StartUnchanged /\ UNCHANGED <<startVars, fds>>
     \/ Exit
CheckArguments == Prepare("args", "enclave")
CreateEnclave == Prepare("enclave", "workers")
StartWorkers == Prepare("workers", "tls")

\* Threads that are in the enclave.
Serving == {c \in Clients : thread[c] \in {"handshake", "idle", "op"}}
Inside == entered + Cardinality(Serving)

\* A thread of the pool that finds no place in the enclave ends the process.
EnterWorker ==
  /\ iee \in {"tls", "bind", "accept", "create", "stopping"}
  /\ entered < Workers
  /\ IF Inside < MaxTcs /\ ~crashed
     THEN /\ entered' = entered + 1
          /\ StartUnchanged /\ UNCHANGED <<iee, crashed, left, fds>>
     ELSE Exit

\* The constructor of TLSConnectionHandler: certificates and key that cannot be
\* parsed end the process, anything else throws, which main() does not notice.
SetupTls ==
  /\ iee = "tls"
  /\ \/ /\ iee' = "bind"
        /\ crashed' \in BOOLEAN
        /\ StartUnchanged /\ UNCHANGED <<entered, left, fds>>
     \/ Exit

\* mbedtls_net_bind(): the next address; what failed has been closed again.
BindAddress ==
  /\ iee = "bind"
  /\ left > 0
  /\ \/ /\ FreeFds # {}
        /\ fds' = Opened(Listen)
        /\ iee' = "accept"
        /\ left' = 0
     \/ left' = left - 1 /\ UNCHANGED <<iee, fds>>
  /\ StartUnchanged
  /\ UNCHANGED <<crashed, entered>>

BindFails == iee = "bind" /\ left = 0 /\ Exit

\* SIGINT, once its handler is installed: close_all().
Interrupt == iee \notin {"args", "exited"} /\ Exit
-----------------------------------------------------------------------------
(* main(): the accept loop.                                                *)

AcceptClient(c) ==
  /\ iee = "accept"
  /\ c \in queued
  /\ FreeFds # {}
  /\ fds' = Opened(c)
  /\ queued' = queued \ {c}
  /\ accepted' = {c}
  /\ iee' = "create"
  /\ UNCHANGED <<startVars, thread, opVars, clientVars, storeVars>>

\* No descriptor left, or a client that is gone: the loop ends, for good.
AcceptFails ==
  /\ iee = "accept"
  /\ FreeFds = {} \/ \E c \in queued : client[c] = "gone"
  /\ fds' = Closed(Listen)
  /\ client' = Dropped(queued)
  /\ queued' = {}
  /\ iee' = "stopping"
  /\ UNCHANGED <<startVars, accepted, thread, opVars, requests, pending, storeVars>>

CreateThread ==
  /\ iee = "create"
  /\ \E c \in accepted : thread' = [thread EXCEPT ![c] = "start"]
  /\ accepted' = {}
  /\ iee' = "accept"
  /\ UNCHANGED <<startVars, fds, queued, opVars, clientVars, storeVars>>

\* Mutant of CreateThreadFails: the client's descriptor is left open.
CreateThreadFailsOpen ==
  /\ iee = "create"
  /\ accepted' = {}
  /\ iee' = "accept"
  /\ UNCHANGED <<startVars, fds, queued, thread, opVars, clientVars, storeVars>>

\* pthread_create() fails: "mbedtls_net_free(&client_fd); continue".
CreateThreadFails ==
  /\ iee = "create"
  /\ \E c \in accepted : fds' = Closed(c) /\ client' = Dropped({c})
  /\ accepted' = {}
  /\ iee' = "accept"
  /\ UNCHANGED <<startVars, queued, thread, opVars, requests, pending, storeVars>>

\* destroy_enclave() may wait for the threads in the enclave; when it does not, the
\* threads of the pool find that the enclave is lost, or there are none to join.
DestroyEnclave == iee = "stopping" /\ Exit
-----------------------------------------------------------------------------
(* The thread of a client: ecall_handle_ssl_connection().                   *)

ThreadUnchanged == UNCHANGED <<startVars, acceptVars, requests, storeVars>>

\* An ecall that fails is not noticed: the connection is closed.
EnterEnclave(c) ==
  /\ Running /\ thread[c] = "start"
  /\ thread' = [thread EXCEPT ![c] = IF Inside < MaxTcs /\ ~crashed THEN "handshake"
                                                                   ELSE "leaving"]
  /\ ThreadUnchanged /\ UNCHANGED <<iee, fds, opVars, client, pending>>

Handshake(c) ==
  /\ Running /\ thread[c] = "handshake"
  /\ \/ /\ client[c] = "open"
        /\ client' = [client EXCEPT ![c] = "up"]
        /\ thread' = [thread EXCEPT ![c] = "idle"]
     \/ /\ thread' = [thread EXCEPT ![c] = "leaving"]
        /\ UNCHANGED client
  /\ ThreadUnchanged /\ UNCHANGED <<iee, fds, opVars, pending>>

\* The sends and receives of a request.
Steps(request) ==
  CASE request = "setup" -> <<"open", "publish", "init">>
    [] request = "add" -> <<"addOp", "addSize", "addData">>
    [] request = "search" -> <<"start", "labels", "answer">>
    [] request = "dump" -> <<"dump">>

BeginRequest(c) ==
  /\ Running /\ thread[c] = "idle" /\ pending[c] # ""
  /\ thread' = [thread EXCEPT ![c] = "op"]
  /\ todo' = [todo EXCEPT ![c] = Steps(pending[c])]
  /\ overlapped' = (overlapped \/ \E d \in Clients : thread[d] = "op")
  /\ ThreadUnchanged /\ UNCHANGED <<iee, fds, serverSocket, opened, client, pending>>

\* The client is gone in the middle of a request or of its answer: exit(1).
CutOff(c) ==
  /\ Running /\ client[c] = "gone" /\ pending[c] # ""
  /\ todo[c] = <<>> /\ thread[c] \in {"idle", "op"}
  /\ Exit

\* Mutant of Reply: the answer is written before the last send.
ReplyEarly(c) ==
  /\ Running /\ thread[c] = "op" /\ Len(todo[c]) <= 1
  /\ thread' = [thread EXCEPT ![c] = "idle"]
  /\ todo' = [todo EXCEPT ![c] = <<>>]
  /\ pending' = [pending EXCEPT ![c] = ""]
  /\ ThreadUnchanged /\ UNCHANGED <<iee, fds, serverSocket, opened, overlapped, client>>

Reply(c) ==
  /\ Running /\ thread[c] = "op" /\ todo[c] = <<>>
  /\ thread' = [thread EXCEPT ![c] = "idle"]
  /\ pending' = [pending EXCEPT ![c] = ""]
  /\ ThreadUnchanged /\ UNCHANGED <<iee, fds, opVars, client>>

EndOfClient(c) ==
  /\ Running /\ thread[c] = "idle" /\ pending[c] = "" /\ client[c] = "gone"
  /\ thread' = [thread EXCEPT ![c] = "leaving"]
  /\ ThreadUnchanged /\ UNCHANGED <<iee, fds, opVars, client, pending>>

FreeClient(c) ==
  /\ Running /\ thread[c] = "leaving"
  /\ thread' = [thread EXCEPT ![c] = "done"]
  /\ fds' = Closed(c)
  /\ client' = Dropped({c})
  /\ ThreadUnchanged /\ UNCHANGED <<iee, opVars, pending>>
-----------------------------------------------------------------------------
(* The thread of a client, in SseIee.cpp.                                   *)

\* The next step of the request of c is s.
At(c, s) == Running /\ thread[c] = "op" /\ todo[c] # <<>> /\ Head(todo[c]) = s
Done(c) == todo' = [todo EXCEPT ![c] = Tail(@)]
OpUnchanged == UNCHANGED <<startVars, acceptVars, thread, clientVars, overlapped>>

\* socket_connect(): a descriptor, and somebody who listens.
Connectable == FreeFds # {} /\ store = "up"

\* The accept loop of the storage service: a thread for every connection.
AcceptConnection ==
  /\ stream' = Append(stream, <<>>)
  /\ rest' = Append(rest, <<>>)
  /\ answers' = Append(answers, 0)

\* open_socket(): another connection, which nothing will ever close.
OpenStorage(c) ==
  /\ At(c, "open")
  /\ \/ /\ Connectable
        /\ fds' = Opened(Len(stream) + 1)
        /\ opened' = [opened EXCEPT ![c] = Len(stream) + 1]
        /\ AcceptConnection
        /\ Done(c)
        /\ OpUnchanged /\ UNCHANGED <<iee, serverSocket, store>>
     \/ ~Connectable /\ Exit

Publish(c) ==
  /\ At(c, "publish")
  /\ serverSocket' = opened[c]
  /\ opened' = [opened EXCEPT ![c] = 0]
  /\ Done(c)
  /\ OpUnchanged /\ UNCHANGED <<iee, fds, storeVars>>

Sends == {"init", "addOp", "addSize", "addData", "start", "labels", "dump"}

\* On the connection that server_socket names by now; once the storage service is
\* gone a send may still succeed, or end the process.
SendToStorage(c) ==
  /\ \E s \in Sends : At(c, s)
  /\ \/ /\ Len(stream[serverSocket]) < MaxUnread
        /\ stream' = [stream EXCEPT ![serverSocket] = Append(@, <<c, Head(todo[c])>>)]
        /\ Done(c)
        /\ OpUnchanged /\ UNCHANGED <<iee, fds, serverSocket, opened, store, rest, answers>>
     \/ store = "exited" /\ Exit

\* With the storage service gone, a reset ends the process and an end of file is
\* waited for for ever.
ReceiveFromStorage(c) ==
  /\ At(c, "answer")
  /\ \/ /\ answers[serverSocket] > 0
        /\ answers' = [answers EXCEPT ![serverSocket] = @ - 1]
        /\ Done(c)
        /\ OpUnchanged /\ UNCHANGED <<iee, fds, serverSocket, opened, store, stream, rest>>
     \/ store = "exited" /\ Exit
-----------------------------------------------------------------------------
(* The storage service: main() and process_client().                        *)

StoreUnchanged ==
  UNCHANGED <<iee, startVars, fds, acceptVars, thread, opVars, clientVars>>

StartStorage ==
  /\ store = "start"
  /\ store' \in {"up", "exited"}
  /\ StoreUnchanged /\ UNCHANGED <<stream, rest, answers>>

\* process_client() reads a command, and for OP_UEE_ADD the size and the pairs; after
\* "dump" the connection is closed, and reading on fails.
Commands == {"init", "addOp", "start", "labels", "dump"}
ReadCommand(k) ==
  /\ store = "up" /\ stream[k] # <<>> /\ rest[k] = <<>>
  /\ LET c == Head(stream[k])[1]
         s == Head(stream[k])[2]
     IN /\ s \in Commands
        /\ rest' = [rest EXCEPT ![k] = IF s = "addOp" THEN <<<<c, "addSize">>, <<c, "addData">>>>
                                                    ELSE <<>>]
        /\ answers' = [answers EXCEPT ![k] = IF s = "labels" THEN @ + 1 ELSE @]
        /\ store' = IF s = "dump" THEN "exited" ELSE store
  /\ stream' = [stream EXCEPT ![k] = Tail(@)]
  /\ StoreUnchanged

ReadRest(k) ==
  /\ store = "up" /\ stream[k] # <<>> /\ rest[k] # <<>>
  /\ Head(stream[k])[2] = Head(rest[k])[2]
  /\ rest' = [rest EXCEPT ![k] = Tail(@)]
  /\ stream' = [stream EXCEPT ![k] = Tail(@)]
  /\ StoreUnchanged /\ UNCHANGED <<store, answers>>

\* What is not what the thread expects is taken for it all the same: a size that is none
\* makes it wait for ever or fail, and sooner or later a command is unknown.
ReadGarbled(k) ==
  /\ store = "up" /\ stream[k] # <<>>
  /\ LET s == Head(stream[k])[2] IN
       IF rest[k] = <<>> THEN s \notin Commands ELSE s # Head(rest[k])[2]
  /\ store' = "exited"
  /\ StoreUnchanged /\ UNCHANGED <<stream, rest, answers>>
-----------------------------------------------------------------------------
(* The client programs.                                                    *)

ClientUnchanged ==
  UNCHANGED <<iee, startVars, fds, accepted, thread, opVars, storeVars>>

\* main(): no configuration, an option that is none, or -h.
StartFails(c) ==
  /\ client[c] = "off"
  /\ client' = [client EXCEPT ![c] = "failed"]
  /\ ClientUnchanged /\ UNCHANGED <<queued, requests, pending>>

\* mbedtls_net_connect(): refused if nothing listens.
Reachable == Running /\ Open(Listen) # {}

\* init_secure_connection(), up to the handshake: no random numbers, no certificates
\* or no connection end the client.
Connect(c) ==
  /\ client[c] = "off"
  /\ \/ /\ Reachable
        /\ client' = [client EXCEPT ![c] = "open"]
        /\ queued' = queued \cup {c}
     \/ /\ client' = [client EXCEPT ![c] = "failed"]
        /\ UNCHANGED queued
  /\ ClientUnchanged /\ UNCHANGED <<requests, pending>>

\* separated_tests(), which may end early.
Session == <<"setup", "add", "search", "dump">>
SendRequest(c) ==
  /\ client[c] = "up" /\ pending[c] = "" /\ requests[c] < MaxRequests
  /\ pending' = [pending EXCEPT ![c] = Session[requests[c] + 1]]
  /\ requests' = [requests EXCEPT ![c] = @ + 1]
  /\ ClientUnchanged /\ UNCHANGED <<client, queued>>

\* list_txt_files(): no such directory.
DatasetMissing(c) ==
  /\ client[c] = "up" /\ requests[c] = 0
  /\ client' = [client EXCEPT ![c] = "gone"]
  /\ ClientUnchanged /\ UNCHANGED <<queued, requests, pending>>

\* It ends, when it is done or before.
Leave(c) ==
  /\ client[c] \in {"open", "up"}
  /\ client' = [client EXCEPT ![c] = "gone"]
  /\ requests' = [requests EXCEPT ![c] = 0]
  /\ ClientUnchanged /\ UNCHANGED <<pending, queued>>
-----------------------------------------------------------------------------
Main ==
  \/ CheckArguments \/ CreateEnclave \/ StartWorkers \/ SetupTls
  \/ BindAddress \/ BindFails
  \/ (\E c \in Clients : AcceptClient(c)) \/ AcceptFails
  \/ CreateThread \/ CreateThreadFails

Thread(c) ==
  \/ EnterEnclave(c) \/ Handshake(c) \/ BeginRequest(c) \/ CutOff(c) \/ Reply(c)
  \/ EndOfClient(c) \/ FreeClient(c)
  \/ OpenStorage(c) \/ Publish(c) \/ SendToStorage(c) \/ ReceiveFromStorage(c)

Storage ==
  \/ StartStorage
  \/ \E k \in DOMAIN stream : ReadCommand(k) \/ ReadRest(k) \/ ReadGarbled(k)

Next ==
  \/ Main \/ EnterWorker \/ Interrupt \/ DestroyEnclave
  \/ \E c \in Clients : Thread(c) \/ StartFails(c) \/ Connect(c) \/ DatasetMissing(c)
                      \/ SendRequest(c) \/ Leave(c)
  \/ Storage

\* The threads of the two processes are scheduled; nobody has to interrupt, connect,
\* ask or leave, and destroy_enclave() may never return.
Spec ==
  /\ Init /\ [][Next]_vars
  /\ WF_vars(Main) /\ WF_vars(Storage)
  /\ \A c \in Clients : WF_vars(Thread(c))
-----------------------------------------------------------------------------
\* A descriptor of the process is that of the listening socket, of one client that
\* is being served, or of one of the connections to the storage service, of which
\* there are as many as there have been setups; none is closed under the thread that
\* uses it and, apart from the setups, none is lost.
Held == {c \in Clients : thread[c] \in {"start", "handshake", "idle", "op", "leaving"}}
          \cup accepted
DescriptorsAccounted ==
  Running =>
    /\ \A n \in Fds : fds[n] \in {Free, Listen} \cup Held \cup DOMAIN stream
    /\ \A o \in Held \cup DOMAIN stream : Cardinality(Open(o)) = 1
    /\ Cardinality(Open(Listen)) = IF iee \in {"accept", "create"} THEN 1 ELSE 0
    /\ serverSocket \in {0} \cup DOMAIN stream

\* The messages of different clients do not mix on a connection to the storage
\* service, whoever set it up and whenever clients come, set up again and go, as long
\* as no two requests are handled at the same time.
Rest(c, s) == CASE s = "addOp" -> {<<c, "addSize">>}
               [] s = "addSize" -> {<<c, "addData">>}
               [] OTHER -> {<<d, t>> : d \in Clients, t \in Commands}
FramesWhole ==
  ~overlapped =>
    \A k \in DOMAIN stream : \A i \in DOMAIN stream[k] :
      stream[k][i] \in IF i > 1 THEN Rest(stream[k][i - 1][1], stream[k][i - 1][2])
                      ELSE IF rest[k] # <<>> THEN {Head(rest[k])} ELSE Rest("", "")

\* A client that reaches the process gets its TLS session or loses its connection;
\* and the descriptor of one that is gone is freed, unless its thread is caught in a
\* request that the storage service does not answer.
ClientsSettled ==
  \A c \in Clients :
    /\ client[c] = "open" ~> client[c] # "open"
    /\ client[c] \in {"gone", "failed"} ~>
         \/ Open(c) = {} \/ ~Running
         \/ store = "exited" \/ overlapped
=============================================================================
