----------------------------- MODULE Transport -----------------------------
(***************************************************************************)
(* How one request of a client travels: over TLS to the IEE (Client/       *)
(* util.cpp, LibUntrusted/secure_conn.cpp, Iee/mbedtls/ssl_conn_hdlr.cpp), *)
(* from there over a socket to the storage service and back                *)
(* (LibTrusted/outside_util.cpp, LibUntrusted/untrusted_util.cpp), and the *)
(* answer over TLS to the client; with the ends that may go away.          *)
(*                                                                         *)
(* A byte of a body is its position in the buffer it was sent from, so     *)
(* that a buffer was received intact when it reads 1, 2, ..., n.  The      *)
(* eight bytes of a length are one byte here, whose value is the length.   *)
(*                                                                         *)
(* mbedtls_ssl_write makes one record of what it is given, and              *)
(* mbedtls_ssl_read returns bytes of one record.  read_ssl and write_ssl   *)
(* get the context of the connection by value, so that what mbedtls_ssl_   *)
(* read notes about the rest of a record is forgotten when they return.    *)
(***************************************************************************)
EXTENDS Naturals, Sequences

CONSTANTS
  Piece,        \* 16384, the most that is written or read at once
  Lengths,      \* bound: lengths of a request and of its answer
  StoreLengths, \* bound: what the IEE and the storage service exchange
  Capacity,     \* bound: bytes a socket holds
  MaxRequests,  \* bound: requests of the client
  MaxExchanges  \* bound: messages of the IEE to the storage service

ASSUME PieceAssumption == Piece \in Nat \ {0}
ASSUME LengthsAssumption ==
  /\ Lengths \subseteq Nat \ {0}
  /\ StoreLengths \subseteq Nat \ {0}
ASSUME BoundsAssumption ==
  /\ Capacity \in Nat \ {0}
  /\ MaxRequests \in Nat
  /\ MaxExchanges \in Nat

VARIABLES
  cpc,          \* where the client is
  asked,        \* requests begun
  reqLen, sent, \* in_len of iee_send, and how much of the body was written
  cLen, cBuf,   \* *out_len and *out of iee_recv
  up, down,     \* TLS records on their way to the IEE, to the client
  ipc,          \* where the thread of the IEE that serves the client is
  iLen, iBuf,   \* in_len and in_buffer of handle
  outLen, iSent,\* length of the buffer being written, and how much was
  iGot,         \* what ocall_socket_receive has filled in
  exchanges,    \* messages to the storage service begun
  due,          \* those it has not read to the end: <<length, has an answer>>
  toStore, fromStore, \* bytes in the sockets
  spc, sBuf, backLen, sSent  \* the storage service

clientVars == <<cpc, asked, reqLen, sent, cLen, cBuf>>
recordVars == <<up, down>>
ieeVars == <<ipc, iLen, iBuf, outLen, iSent, iGot>>
socketVars == <<exchanges, due, toStore, fromStore>>
storeVars == <<spc, sBuf, backLen, sSent>>
vars == <<clientVars, recordVars, ieeVars, socketVars, storeVars>>

Init ==
  /\ cpc = "idle" /\ asked = 0 /\ reqLen = 0 /\ sent = 0
  /\ cLen = 0 /\ cBuf = <<>>
  /\ up = <<>> /\ down = <<>>
  /\ ipc = "header" /\ iLen = 0 /\ iBuf = <<>>
  /\ outLen = 0 /\ iSent = 0 /\ iGot = <<>>
  /\ exchanges = 0 /\ due = <<>>
  /\ toStore = <<>> /\ fromStore = <<>>
  /\ spc = "read" /\ sBuf = <<>> /\ backLen = 0 /\ sSent = 0
-----------------------------------------------------------------------------
AtMost(n, m) == IF n > m THEN m ELSE n

\* The bytes m+1 .. m+n of a buffer.
Bytes(m, n) == [j \in 1 .. n |-> m + j]

First(s, n) == SubSeq(s, 1, AtMost(Len(s), n))
Rest(s, n) == SubSeq(s, AtMost(Len(s), n) + 1, Len(s))

ClientGone == cpc \in {"closed", "left", "broken", "failed"}
StoreGone == spc = "dead"
-----------------------------------------------------------------------------
(* The client: iee_send, iee_recv and the loops of secure_conn.cpp.         *)

\* The length is a record of its own.
SendLength(n) ==
  /\ cpc = "idle"
  /\ asked < MaxRequests
  /\ asked' = asked + 1
  /\ reqLen' = n
  /\ sent' = 0
  /\ up' = Append(up, <<n>>)
  /\ cpc' = "send"
  /\ UNCHANGED <<cLen, cBuf, down, ieeVars, socketVars, storeVars>>

\* Mutant of SendPiece: the pointer into the buffer is not advanced.
SendPieceFromStart ==
  /\ cpc = "send"
  /\ LET n == AtMost(reqLen - sent, Piece) IN
       /\ up' = Append(up, Bytes(0, n))
       /\ sent' = sent + n
       /\ cpc' = IF sent + n = reqLen THEN "await" ELSE "send"
  /\ UNCHANGED <<asked, reqLen, cLen, cBuf, down, ieeVars, socketVars, storeVars>>

\* Mutant of SendPiece: the last piece is not cut to what is left.
SendPieceFull ==
  /\ cpc = "send"
  /\ up' = Append(up, Bytes(sent, Piece))
  /\ sent' = sent + Piece
  /\ cpc' = IF sent + Piece >= reqLen THEN "await" ELSE "send"
  /\ UNCHANGED <<asked, reqLen, cLen, cBuf, down, ieeVars, socketVars, storeVars>>

\* One round of ssl_send_all.
SendPiece ==
  /\ cpc = "send"
  /\ LET n == AtMost(reqLen - sent, Piece) IN
       /\ up' = Append(up, Bytes(sent, n))
       /\ sent' = sent + n
       /\ cpc' = IF sent + n = reqLen THEN "await" ELSE "send"
  /\ UNCHANGED <<asked, reqLen, cLen, cBuf, down, ieeVars, socketVars, storeVars>>

\* What mbedtls_ssl_read leaves in the client's context when it is asked for n
\* bytes: the rest of the record is there for the next call.
AfterRead(records, n) ==
  IF Len(Head(records)) > n THEN <<Rest(Head(records), n)>> \o Tail(records)
                            ELSE Tail(records)

ReceiveLength ==
  /\ cpc = "await"
  /\ down # <<>>
  /\ cLen' = Head(Head(down))
  /\ cBuf' = <<>>
  /\ down' = AfterRead(down, 1)
  /\ cpc' = "receive"
  /\ UNCHANGED <<asked, reqLen, sent, up, ieeVars, socketVars, storeVars>>

\* Mutant of ReceivePiece: what one mbedtls_ssl_read returned is all there is.
ReceivePieceOnce ==
  /\ cpc = "receive"
  /\ down # <<>>
  /\ LET n == AtMost(cLen - Len(cBuf), Piece) IN
       /\ cBuf' = cBuf \o First(Head(down), n)
       /\ down' = AfterRead(down, n)
  /\ cpc' = "idle"
  /\ UNCHANGED <<asked, reqLen, sent, cLen, up, ieeVars, socketVars, storeVars>>

\* One round of ssl_receive_all.
ReceivePiece ==
  /\ cpc = "receive"
  /\ down # <<>>
  /\ LET n == AtMost(cLen - Len(cBuf), Piece)
         got == First(Head(down), n)
     IN /\ cBuf' = cBuf \o got
        /\ down' = AfterRead(down, n)
        /\ cpc' = IF Len(cBuf) + Len(got) = cLen THEN "idle" ELSE "receive"
  /\ UNCHANGED <<asked, reqLen, sent, cLen, up, ieeVars, socketVars, storeVars>>

\* close_secure_connection, between two requests.
CloseConnection ==
  /\ cpc = "idle"
  /\ cpc' = "closed"
  /\ UNCHANGED <<asked, reqLen, sent, cLen, cBuf, recordVars, ieeVars,
                 socketVars, storeVars>>

\* The client's process ends; a reset may overtake what it had sent.
BreakConnection ==
  /\ ~ClientGone
  /\ cpc' = IF cpc = "idle" THEN "left" ELSE "broken"
  /\ \E n \in 0 .. Len(up) : up' = SubSeq(up, 1, n)
  /\ down' = <<>>
  /\ UNCHANGED <<asked, reqLen, sent, cLen, cBuf, ieeVars, socketVars, storeVars>>

\* mbedtls_ssl_read or mbedtls_ssl_write of the client fails: exit(1).  An error that
\* is not -1 is added to ssl_send_all's total, until that is beyond len.
ClientFails ==
  /\ cpc \in {"send", "await", "receive"}
  /\ ipc = "exit"
  /\ down = <<>> \/ cpc = "send"
  /\ cpc' = "failed"
  /\ UNCHANGED <<asked, reqLen, sent, cLen, cBuf, recordVars, ieeVars,
                 socketVars, storeVars>>
-----------------------------------------------------------------------------
(* The IEE: TLSConnectionHandler::handle.                                   *)

ReadLength ==
  /\ ipc = "header"
  /\ up # <<>>
  /\ iLen' = Head(Head(up))
  /\ iBuf' = <<>>
  /\ up' = Tail(up)
  /\ ipc' = "body"
  /\ UNCHANGED <<outLen, iSent, iGot, clientVars, down, socketVars, storeVars>>

\* Mutant of ReadEnd: handled as within a request.
ReadEndExits ==
  /\ ipc = "header"
  /\ up = <<>>
  /\ ClientGone
  /\ ipc' = "exit"
  /\ UNCHANGED <<iLen, iBuf, outLen, iSent, iGot, clientVars, recordVars,
                 socketVars, storeVars>>

\* Mutant of ReadEnd: a connection that was reset is tried again, like -1.
ReadEndRetries ==
  /\ ipc = "header"
  /\ up = <<>>
  /\ cpc = "closed"
  /\ ipc' = "gone"
  /\ UNCHANGED <<iLen, iBuf, outLen, iSent, iGot, clientVars, recordVars,
                 socketVars, storeVars>>

\* read_ssl returned -2 where a request would begin: the thread ends.
ReadEnd ==
  /\ ipc = "header"
  /\ up = <<>>
  /\ ClientGone
  /\ ipc' = "gone"
  /\ UNCHANGED <<iLen, iBuf, outLen, iSent, iGot, clientVars, recordVars,
                 socketVars, storeVars>>

\* Mutant of ReadPiece: a smaller piece is asked for than was written.
ReadPieceSmaller ==
  /\ ipc = "body"
  /\ up # <<>>
  /\ LET got == First(Head(up), AtMost(iLen - Len(iBuf), Piece - 1)) IN
       /\ iBuf' = iBuf \o got
       /\ ipc' = IF Len(iBuf) + Len(got) = iLen THEN "process" ELSE "body"
  /\ up' = Tail(up)
  /\ UNCHANGED <<iLen, outLen, iSent, iGot, clientVars, down, socketVars, storeVars>>

\* One round of the loop over to_read; the rest of the record is lost.
ReadPiece ==
  /\ ipc = "body"
  /\ up # <<>>
  /\ LET got == First(Head(up), AtMost(iLen - Len(iBuf), Piece)) IN
       /\ iBuf' = iBuf \o got
       /\ ipc' = IF Len(iBuf) + Len(got) = iLen THEN "process" ELSE "body"
  /\ up' = Tail(up)
  /\ UNCHANGED <<iLen, outLen, iSent, iGot, clientVars, down, socketVars, storeVars>>

\* read_ssl returned -2 in the middle of a request: outside_util::exit(1).
ReadFails ==
  /\ ipc = "body"
  /\ up = <<>>
  /\ ClientGone
  /\ ipc' = "exit"
  /\ UNCHANGED <<iLen, iBuf, outLen, iSent, iGot, clientVars, recordVars,
                 socketVars, storeVars>>

\* extern_lib::process_message sends something to the storage service ...
Contact ==
  /\ ipc \in {"process", "ready"}
  /\ exchanges < MaxExchanges
  /\ exchanges' = exchanges + 1
  /\ \E n \in StoreLengths, answered \in BOOLEAN :
       /\ outLen' = n
       /\ due' = Append(due, <<n, answered>>)
  /\ iSent' = 0
  /\ iGot' = <<>>
  /\ ipc' = "store"
  /\ UNCHANGED <<iLen, iBuf, clientVars, recordVars, toStore, fromStore,
                 storeVars>>

\* ... or returns an answer.
Answer ==
  /\ ipc \in {"process", "ready"}
  /\ \E n \in Lengths : outLen' = n
  /\ iSent' = 0
  /\ ipc' = "answer"
  /\ UNCHANGED <<iLen, iBuf, iGot, clientVars, recordVars, socketVars, storeVars>>

\* After the last byte: read the storage service's answer, if it has one.
AfterSend == IF due[Len(due)][2] THEN "collect" ELSE "process"

\* One round of send_all: write takes what the socket has room for.
StoreSend(n) ==
  /\ ipc = "store"
  /\ ~StoreGone
  /\ n <= outLen - iSent
  /\ Len(toStore) + n <= Capacity
  /\ toStore' = toStore \o Bytes(iSent, n)
  /\ iSent' = iSent + n
  /\ ipc' = IF iSent + n = outLen THEN AfterSend ELSE "store"
  /\ UNCHANGED <<iLen, iBuf, outLen, iGot, clientVars, recordVars, exchanges,
                 due, fromStore, storeVars>>

\* write or read returned -1: exit(1).  A write to a socket whose other end is
\* closed may also seem to succeed, and a read from it return 0: receive_all then
\* goes round for ever.
StoreFails ==
  /\ ipc \in {"store", "collect"}
  /\ StoreGone
  /\ \/ ipc' = "exit" /\ UNCHANGED iSent
     \/ ipc = "store" /\ ipc' = AfterSend /\ iSent' = outLen
  /\ UNCHANGED <<iLen, iBuf, outLen, iGot, clientVars, recordVars, socketVars,
                 storeVars>>

\* Mutant of StoreReceive: a short read counts as all of it.
StoreReceiveOnce(n) ==
  /\ ipc = "collect"
  /\ n <= Len(fromStore)
  /\ n <= backLen - Len(iGot)
  /\ iGot' = iGot \o First(fromStore, n)
  /\ fromStore' = Rest(fromStore, n)
  /\ ipc' = "ready"
  /\ UNCHANGED <<iLen, iBuf, outLen, iSent, clientVars, recordVars, exchanges,
                 due, toStore, storeVars>>

\* One round of receive_all: read returns some of what has arrived.  Both ends
\* know how long the storage service's answer is (backLen).
StoreReceive(n) ==
  /\ ipc = "collect"
  /\ n <= Len(fromStore)
  /\ n <= backLen - Len(iGot)
  /\ iGot' = iGot \o First(fromStore, n)
  /\ fromStore' = Rest(fromStore, n)
  /\ ipc' = IF Len(iGot) + n = backLen THEN "ready" ELSE "collect"
  /\ UNCHANGED <<iLen, iBuf, outLen, iSent, clientVars, recordVars, exchanges,
                 due, toStore, storeVars>>

WriteLength ==
  /\ ipc = "answer"
  /\ ~ClientGone
  /\ down' = Append(down, <<outLen>>)
  /\ ipc' = "write"
  /\ UNCHANGED <<iLen, iBuf, outLen, iSent, iGot, clientVars, up, socketVars,
                 storeVars>>

WritePiece ==
  /\ ipc = "write"
  /\ ~ClientGone
  /\ LET n == AtMost(outLen - iSent, Piece) IN
       /\ down' = Append(down, Bytes(iSent, n))
       /\ iSent' = iSent + n
       /\ ipc' = IF iSent + n = outLen THEN "header" ELSE "write"
  /\ UNCHANGED <<iLen, iBuf, outLen, iGot, clientVars, up, socketVars, storeVars>>

\* write_ssl returned -2: outside_util::exit(1).  What is written to a client
\* that is gone may also seem to have been sent.
WriteFails ==
  /\ ipc \in {"answer", "write"}
  /\ ClientGone
  /\ \/ ipc' = "exit" /\ UNCHANGED iSent
     \/ ipc = "answer" /\ ipc' = "write" /\ UNCHANGED iSent
     \/ /\ ipc = "write"
        /\ iSent' = iSent + AtMost(outLen - iSent, Piece)
        /\ ipc' = IF iSent' = outLen THEN "header" ELSE "write"
  /\ UNCHANGED <<iLen, iBuf, outLen, iGot, clientVars, recordVars, socketVars,
                 storeVars>>
-----------------------------------------------------------------------------
(* The storage service, which uses the same loops; what it has read tells it *)
(* how much follows, and whether it is to answer.                           *)

StoreReads(n) ==
  /\ spc = "read"
  /\ n <= Len(toStore)
  /\ n <= Head(due)[1] - Len(sBuf)
  /\ sBuf' = sBuf \o First(toStore, n)
  /\ toStore' = Rest(toStore, n)
  /\ spc' = IF Len(sBuf) + n = Head(due)[1] THEN "handle" ELSE "read"
  /\ UNCHANGED <<clientVars, recordVars, ieeVars, exchanges, due, fromStore,
                 backLen, sSent>>

StoreHandles ==
  /\ spc = "handle"
  /\ IF Head(due)[2]
     THEN /\ \E m \in StoreLengths : backLen' = m
          /\ spc' = "write"
     ELSE /\ spc' = "read"
          /\ UNCHANGED backLen
  /\ due' = Tail(due)
  /\ sBuf' = <<>>
  /\ sSent' = 0
  /\ UNCHANGED <<clientVars, recordVars, ieeVars, exchanges, toStore, fromStore>>

StoreWrites(n) ==
  /\ spc = "write"
  /\ n <= backLen - sSent
  /\ Len(fromStore) + n <= Capacity
  /\ fromStore' = fromStore \o Bytes(sSent, n)
  /\ sSent' = sSent + n
  /\ spc' = IF sSent + n = backLen THEN "read" ELSE "write"
  /\ UNCHANGED <<clientVars, recordVars, ieeVars, exchanges, due, toStore, sBuf,
                 backLen>>

\* The storage service ends; what it had written may still arrive.
StoreDies ==
  /\ ~StoreGone
  /\ spc' = "dead"
  /\ toStore' = <<>>
  /\ UNCHANGED <<clientVars, recordVars, ieeVars, exchanges, due, fromStore, sBuf,
                 backLen, sSent>>
-----------------------------------------------------------------------------
ClientStep ==
  \/ SendPiece \/ ReceiveLength \/ ReceivePiece

IeeStep ==
  \/ ReadLength \/ ReadEnd \/ ReadPiece \/ ReadFails
  \/ Contact \/ Answer
  \/ \E n \in 1 .. Capacity : StoreSend(n) \/ StoreReceive(n)
  \/ WriteLength \/ WritePiece \/ WriteFails

StoreStep ==
  \/ \E n \in 1 .. Capacity : StoreReads(n) \/ StoreWrites(n)
  \/ StoreHandles

Next ==
  \/ \E n \in Lengths : SendLength(n)
  \/ ClientStep
  \/ IeeStep
  \/ StoreStep
  \/ CloseConnection \/ BreakConnection \/ StoreDies
  \/ StoreFails \/ ClientFails

Spec == Init /\ [][Next]_vars

\* Each side goes on with what it has begun; nobody has to ask, to leave or to
\* fail.  StoreFails and ClientFails are not fair: at the end of a stream read and
\* mbedtls_ssl_read may return 0 for ever, and both loops then go round.
FairSpec ==
  /\ Spec
  /\ WF_vars(ClientStep)
  /\ WF_vars(IeeStep)
  /\ WF_vars(StoreStep)
-----------------------------------------------------------------------------
TypeOK ==
  /\ cpc \in {"idle", "send", "await", "receive", "closed", "left", "broken",
              "failed"}
  /\ asked \in 0 .. MaxRequests
  /\ reqLen \in {0} \cup Lengths /\ sent \in 0 .. reqLen
  /\ cLen \in {0} \cup Lengths /\ cBuf \in Seq(Nat)
  /\ up \in Seq(Seq(Nat)) /\ down \in Seq(Seq(Nat))
  /\ ipc \in {"header", "body", "process", "store", "collect", "ready",
              "answer", "write", "gone", "exit"}
  /\ iLen \in {0} \cup Lengths /\ iBuf \in Seq(Nat)
  /\ outLen \in {0} \cup Lengths \cup StoreLengths /\ iSent \in 0 .. outLen
  /\ iGot \in Seq(Nat)
  /\ toStore \in Seq(Nat) /\ fromStore \in Seq(Nat)
  /\ exchanges \in 0 .. MaxExchanges
  /\ due \in Seq(StoreLengths \X BOOLEAN)
  /\ spc \in {"read", "handle", "write", "dead"} /\ sBuf \in Seq(Nat)
  /\ backLen \in {0} \cup StoreLengths /\ sSent \in 0 .. backLen

Whole(buffer, n) == buffer = Bytes(0, n)

\* However a body is cut into records, process_message gets the request that the
\* client sent, and the client the answer that process_message returned; although
\* the IEE forgets what it did not read of a record.
RecordsIntact ==
  /\ ipc \in {"process", "store", "collect", "ready"} =>
       iLen = reqLen /\ Whole(iBuf, reqLen)
  /\ cpc = "idle" /\ asked > 0 => cLen = outLen /\ Whole(cBuf, outLen)

\* However reads and writes on the socket are cut short, the storage service
\* finds the bounds of each message, also when the next one is already there,
\* and the IEE takes its answer to the end.
SocketIntact ==
  /\ spc = "handle" => Whole(sBuf, Head(due)[1])
  /\ ipc = "ready" => Whole(iGot, backLen) /\ fromStore = <<>>

\* A client that leaves between two requests never stops the IEE, which other
\* clients use too: it exits only when a client breaks off within a request, or
\* when the storage service is gone.
ExitJustified == ipc = "exit" => cpc = "broken" \/ StoreGone

\* Nothing of a request or of its answer is left over for the next.
NothingLeftOver == cpc = "idle" => up = <<>> /\ down = <<>> /\ ipc = "header"

\* Each request is answered, unless the client leaves or the storage service
\* is gone.
Answered ==
  cpc = "send" ~> (cpc \in {"idle", "left", "broken", "failed"} \/ StoreGone)

\* The thread of a client that has left ends, unless the storage service is
\* gone.
ThreadEnds == ClientGone ~> (ipc \in {"gone", "exit"} \/ StoreGone)
=============================================================================
