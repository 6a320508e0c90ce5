-------------------------- MODULE TransportProofs --------------------------
(***************************************************************************)
(* Theorems about Transport, for every size of a piece, every length of a  *)
(* message and every capacity of a socket.                                 *)
(*                                                                         *)
(* The order of the argument: records and socket hold what lies between    *)
(* what one end has sent and what the other has put together (Chain,       *)
(* Stream); where client and IEE stand to each other (Phases), a request   *)
(* (Upward), its answer (Downward), and the messages to the storage        *)
(* service and back (Sockets, Returned).                                   *)
(***************************************************************************)
EXTENDS Transport, SequenceTheorems, TLAPS

\* The records s are the pieces of a body of length total from byte from + 1 up to
\* byte to; off gives the bytes that precede each.
Chain(s, from, to, total) ==
  \E off \in [1 .. Len(s) + 1 -> 0 .. total] :
    /\ off[1] = from
    /\ off[Len(s) + 1] = to
    /\ \A j \in 1 .. Len(s) :
         /\ off[j] < total
         /\ off[j + 1] = off[j] + AtMost(total - off[j], Piece)
         /\ s[j] = Bytes(off[j], AtMost(total - off[j], Piece))

\* What of the request is on its way: all that was sent, unless the client is gone.
Requested(s, from) ==
  \E to \in 0 .. reqLen :
    /\ Chain(s, from, to, reqLen)
    /\ ~ClientGone => to = sent

Handling == {"process", "store", "collect", "ready", "answer", "write"}

Upward ==
  /\ ipc = "header" /\ up # <<>> =>
       /\ reqLen \in Lengths
       /\ Head(up) = <<reqLen>>
       /\ Requested(Tail(up), 0)
  /\ ipc = "body" =>
       /\ iLen = reqLen
       /\ Len(iBuf) < reqLen
       /\ Whole(iBuf, Len(iBuf))
       /\ Requested(up, Len(iBuf))
  /\ ipc \in Handling => iLen = reqLen /\ Whole(iBuf, reqLen) /\ up = <<>>

Replying == ipc = "write" \/ (ipc = "header" /\ up = <<>>)

Downward ==
  /\ ipc \in {"answer", "write"} => outLen \in Lengths
  /\ ipc = "answer" => iSent = 0
  /\ ipc = "write" => iSent < outLen
  /\ cpc = "await" /\ ~Replying => down = <<>>
  /\ cpc = "await" /\ Replying =>
       /\ outLen \in Lengths
       /\ down # <<>>
       /\ Head(down) = <<outLen>>
       /\ Chain(Tail(down), 0, iSent, outLen)
       /\ ipc = "header" => iSent = outLen
  /\ cpc = "receive" =>
       /\ outLen \in Lengths
       /\ cLen = outLen
       /\ Len(cBuf) < outLen
       /\ Whole(cBuf, Len(cBuf))
       /\ Chain(down, Len(cBuf), iSent, outLen)
       /\ ipc = "header" => iSent = outLen
  /\ cpc = "idle" /\ asked > 0 => cLen = outLen /\ Whole(cBuf, outLen)

Phases ==
  /\ cpc = "idle" => up = <<>> /\ down = <<>> /\ ipc = "header"
  /\ cpc = "send" =>
       /\ sent < reqLen
       /\ down = <<>>
       /\ ipc = "body" \/ (ipc = "header" /\ up # <<>>)
  /\ cpc = "await" => sent = reqLen
  /\ cpc = "receive" => up = <<>> /\ ipc \in {"write", "header"}
  /\ cpc \in {"closed", "left"} => up = <<>> /\ ipc \in {"header", "gone"}
  /\ cpc = "failed" => ipc = "exit"
  /\ ipc = "gone" => ClientGone
  /\ ipc = "exit" => cpc = "broken" \/ StoreGone

\* Of the messages msgs the storage service has read the first `read` bytes, and
\* the IEE has sent all but what of the last one is beyond `last`; start gives
\* where in `bytes` each begins.
Stream(bytes, msgs, read, last) ==
  \E start \in [1 .. Len(msgs) + 1 -> Int] :
    /\ start[1] = 0 - read
    /\ \A j \in 1 .. Len(msgs) : start[j + 1] = start[j] + msgs[j][1]
    /\ \A i, j \in 1 .. Len(msgs) + 1 : i <= j => start[i] <= start[j]
    /\ Len(bytes) = IF msgs = <<>> THEN 0 ELSE start[Len(msgs)] + last
    /\ \A j \in 1 .. Len(msgs), k \in 1 .. Len(bytes) :
         start[j] < k /\ k <= start[j + 1] => bytes[k] = k - start[j]

InFlight == IF ipc = "store" THEN iSent ELSE due[Len(due)][1]

Sockets ==
  /\ ipc = "store" => iSent < outLen /\ iGot = <<>> /\ due # <<>> /\ due[Len(due)][1] = outLen
  /\ Whole(sBuf, Len(sBuf))
  /\ ~StoreGone =>
       /\ Stream(toStore, due, Len(sBuf), InFlight)
       /\ \A j \in 1 .. Len(due) : due[j][2] => j = Len(due) /\ ipc \in {"store", "collect"}
       /\ due = <<>> => sBuf = <<>>
  /\ spc = "read" /\ due # <<>> => Len(sBuf) < Head(due)[1]
  /\ spc = "handle" => due # <<>> /\ Len(sBuf) = Head(due)[1]
  /\ spc = "write" => ipc = "collect"

Returned ==
  /\ ipc \notin {"collect", "exit"} => fromStore = <<>>
  /\ ipc = "collect" =>
       /\ Whole(iGot, Len(iGot))
       /\ fromStore = Bytes(Len(iGot), Len(fromStore))
       /\ Len(iGot) + Len(fromStore) <= backLen
       /\ spc = "read" => \/ due # <<>> /\ due[Len(due)][2] /\ iGot = <<>> /\ fromStore = <<>>
                          \/ due = <<>> /\ Len(iGot) + Len(fromStore) = backLen
       /\ spc = "handle" => due[Len(due)][2] /\ iGot = <<>> /\ fromStore = <<>>
       /\ spc = "write" => due = <<>> /\ Len(iGot) + Len(fromStore) = sSent /\ sSent < backLen
  /\ ipc = "ready" => Whole(iGot, backLen)

\* What is known of the client, the thread of the IEE and the records between
\* them; it does not need what is known of the socket.
Records ==
  /\ TypeOK
  /\ Upward
  /\ Downward
  /\ Phases

\* The inductive invariant.
Exchange == Records /\ Sockets /\ Returned
-----------------------------------------------------------------------------
(* Bytes.                                                                  *)

LEMMA AtMostFacts ==
  ASSUME NEW n \in Nat, NEW m \in Nat
  PROVE  /\ AtMost(n, m) \in Nat
         /\ AtMost(n, m) <= n /\ AtMost(n, m) <= m
         /\ n > 0 /\ m > 0 => AtMost(n, m) > 0
BY DEF AtMost

LEMMA BytesFacts ==
  ASSUME NEW m \in Nat, NEW n \in Nat
  PROVE  /\ Bytes(m, n) \in Seq(Nat)
         /\ Len(Bytes(m, n)) = n
         /\ \A j \in 1 .. n : Bytes(m, n)[j] = m + j
<1>1. Bytes(m, n) \in [1 .. n -> Nat]
  BY DEF Bytes
<1>2. Bytes(m, n) \in Seq(Nat)
  BY <1>1, SeqDef
<1>3. Len(Bytes(m, n)) = n
  BY <1>1, <1>2, LenProperties
<1> QED
  BY <1>2, <1>3 DEF Bytes

\* A sequence that counts up from m + 1 is Bytes.
LEMMA IsBytes ==
  ASSUME NEW m \in Nat, NEW s \in Seq(Nat),
         \A j \in 1 .. Len(s) : s[j] = m + j
  PROVE  s = Bytes(m, Len(s))
BY BytesFacts, SeqEqual, LenProperties

LEMMA FirstFacts ==
  ASSUME NEW s \in Seq(Nat), NEW n \in Nat
  PROVE  /\ First(s, n) \in Seq(Nat)
         /\ Len(First(s, n)) = AtMost(Len(s), n)
         /\ \A j \in 1 .. AtMost(Len(s), n) : First(s, n)[j] = s[j]
<1>1. AtMost(Len(s), n) \in Nat /\ AtMost(Len(s), n) <= Len(s) /\ Len(s) \in Nat
  BY AtMostFacts, LenProperties
<1>2. \A j \in 1 .. AtMost(Len(s), n) : s[j] \in Nat
  BY <1>1, ElementOfSeq
<1> DEFINE k == AtMost(Len(s), n)
<1>3. /\ SubSeq(s, 1, k) \in Seq(Nat)
      /\ Len(SubSeq(s, 1, k)) = IF 1 <= k THEN k - 1 + 1 ELSE 0
      /\ \A j \in 1 .. k - 1 + 1 : SubSeq(s, 1, k)[j] = s[1 + j - 1]
  <2> HIDE DEF k
  <2> QED BY <1>1, <1>2, SubSeqProperties DEF k
<1> QED
  BY <1>1, <1>3 DEF First

LEMMA RestFacts ==
  ASSUME NEW s \in Seq(Nat), NEW n \in Nat, n <= Len(s)
  PROVE  /\ Rest(s, n) \in Seq(Nat)
         /\ Len(Rest(s, n)) = Len(s) - n
         /\ \A j \in 1 .. Len(s) - n : Rest(s, n)[j] = s[n + j]
<1>1. Len(s) \in Nat /\ AtMost(Len(s), n) = n
  BY LenProperties DEF AtMost
<1>2. \A j \in n + 1 .. Len(s) : s[j] \in Nat
  BY <1>1, ElementOfSeq
<1>3. /\ SubSeq(s, n + 1, Len(s)) \in Seq(Nat)
      /\ Len(SubSeq(s, n + 1, Len(s))) = IF n + 1 <= Len(s) THEN Len(s) - (n + 1) + 1 ELSE 0
      /\ \A j \in 1 .. Len(s) - (n + 1) + 1 : SubSeq(s, n + 1, Len(s))[j] = s[n + 1 + j - 1]
  BY <1>1, <1>2, SubSeqProperties, n + 1 \in Int, Len(s) \in Int
<1> QED
  BY <1>1, <1>3 DEF Rest

\* What is put together from adjacent bytes.
LEMMA BytesJoin ==
  ASSUME NEW m \in Nat, NEW n \in Nat, NEW k \in Nat
  PROVE  Bytes(m, n) \o Bytes(m + n, k) = Bytes(m, n + k)
<1> DEFINE a == Bytes(m, n)
           b == Bytes(m + n, k)
<1>1. a \in Seq(Nat) /\ Len(a) = n /\ \A j \in 1 .. n : a[j] = m + j
  BY BytesFacts
<1>2. b \in Seq(Nat) /\ Len(b) = k /\ \A j \in 1 .. k : b[j] = m + n + j
  BY BytesFacts, m + n \in Nat
<1> HIDE DEF a, b
<1>3. /\ a \o b \in Seq(Nat) /\ Len(a \o b) = n + k
      /\ \A j \in 1 .. n + k : (a \o b)[j] = IF j <= n THEN a[j] ELSE b[j - n]
  <2>1. /\ a \o b \in Seq(Nat) /\ Len(a \o b) = Len(a) + Len(b)
        /\ \A j \in 1 .. Len(a) + Len(b) :
             (a \o b)[j] = IF j <= Len(a) THEN a[j] ELSE b[j - Len(a)]
    BY <1>1, <1>2, ConcatProperties
  <2>2. Len(a) = n /\ Len(b) = k
    BY <1>1, <1>2
  <2> QED BY <2>1, <2>2
<1>4. \A j \in 1 .. n + k : (a \o b)[j] = m + j
  <2> SUFFICES ASSUME NEW j \in 1 .. n + k PROVE (a \o b)[j] = m + j
    OBVIOUS
  <2>1. CASE j <= n
    BY <2>1, <1>1, <1>3
  <2>2. CASE ~(j <= n)
    <3>1. j - n \in 1 .. k /\ m + n + (j - n) = m + j
      BY <2>2
    <3>2. b[j - n] = m + n + (j - n)
      BY <3>1, <1>2
    <3>3. (a \o b)[j] = b[j - n]
      BY <2>2, <1>3
    <3> QED BY <3>1, <3>2, <3>3
  <2> QED BY <2>1, <2>2
<1>5. a \o b = Bytes(m, n + k)
  BY <1>3, <1>4, IsBytes
<1> QED
  BY <1>5 DEF a, b

\* Taking n bytes away.
LEMMA BytesSplit ==
  ASSUME NEW m \in Nat, NEW k \in Nat, NEW n \in Nat, n <= k
  PROVE  /\ First(Bytes(m, k), n) = Bytes(m, n)
         /\ Rest(Bytes(m, k), n) = Bytes(m + n, k - n)
<1> DEFINE b == Bytes(m, k)
<1>1. b \in Seq(Nat) /\ Len(b) = k /\ \A j \in 1 .. k : b[j] = m + j
  BY BytesFacts
<1> HIDE DEF b
<1>2. First(b, n) = Bytes(m, n)
  <2>1. AtMost(Len(b), n) = n
    BY <1>1 DEF AtMost
  <2>2. /\ First(b, n) \in Seq(Nat)
        /\ Len(First(b, n)) = n
        /\ \A j \in 1 .. n : First(b, n)[j] = b[j]
    <3>1. /\ First(b, n) \in Seq(Nat)
          /\ Len(First(b, n)) = AtMost(Len(b), n)
          /\ \A j \in 1 .. AtMost(Len(b), n) : First(b, n)[j] = b[j]
      BY <1>1, FirstFacts
    <3> QED BY <2>1, <3>1
  <2>3. \A j \in 1 .. n : First(b, n)[j] = m + j
    BY <1>1, <2>2
  <2> QED BY <2>2, <2>3, IsBytes
<1>3. Rest(b, n) = Bytes(m + n, k - n)
  <2>1. /\ Rest(b, n) \in Seq(Nat)
        /\ Len(Rest(b, n)) = k - n
        /\ \A j \in 1 .. k - n : Rest(b, n)[j] = b[n + j]
    BY <1>1, RestFacts
  <2>2. \A j \in 1 .. k - n : Rest(b, n)[j] = (m + n) + j
    BY <1>1, <2>1
  <2> QED BY <2>1, <2>2, IsBytes, m + n \in Nat
<1> QED BY <1>2, <1>3 DEF b

-----------------------------------------------------------------------------
(* The records between two ends.                                           *)

\* The size of the piece that follows byte `from` of a body.
NextPiece(from, total) == AtMost(total - from, Piece)

LEMMA NextPieceFacts ==
  ASSUME NEW total \in Nat, NEW from \in 0 .. total, from < total
  PROVE  /\ NextPiece(from, total) \in Nat \ {0}
         /\ NextPiece(from, total) <= Piece
         /\ from + NextPiece(from, total) \in 0 .. total
BY PieceAssumption DEF NextPiece, AtMost

LEMMA ChainDef ==
  ASSUME NEW s, NEW from, NEW to, NEW total
  PROVE  Chain(s, from, to, total) <=>
           \E off \in [1 .. Len(s) + 1 -> 0 .. total] :
             /\ off[1] = from
             /\ off[Len(s) + 1] = to
             /\ \A j \in 1 .. Len(s) :
                  /\ off[j] < total
                  /\ off[j + 1] = off[j] + NextPiece(off[j], total)
                  /\ s[j] = Bytes(off[j], NextPiece(off[j], total))
BY DEF Chain, NextPiece

LEMMA ChainEmpty ==
  ASSUME NEW total \in Nat, NEW from \in 0 .. total
  PROVE  Chain(<<>>, from, from, total)
<1> DEFINE off == [j \in 1 .. 1 |-> from]
<1>1. Len(<<>>) = 0
  BY EmptySeq
<1>2. off \in [1 .. Len(<<>>) + 1 -> 0 .. total] /\ off[1] = from
  BY <1>1
<1>3. off[Len(<<>>) + 1] = from /\ 1 .. Len(<<>>) = {}
  BY <1>1, <1>2
<1> HIDE DEF off
<1> QED
  BY <1>2, <1>3, ChainDef

\* Nothing follows the end of the body.
LEMMA ChainEnds ==
  ASSUME NEW total \in Nat, NEW s \in Seq(Seq(Nat)), NEW from, NEW to,
         Chain(s, from, to, total)
  PROVE  /\ from \in 0 .. total
         /\ to \in 0 .. total
         /\ s = <<>> => to = from
         /\ s # <<>> => from < total
<1>1. PICK off \in [1 .. Len(s) + 1 -> 0 .. total] :
           /\ off[1] = from
           /\ off[Len(s) + 1] = to
           /\ \A j \in 1 .. Len(s) : off[j] < total
  BY ChainDef
<1>2. Len(s) \in Nat /\ (s = <<>> <=> Len(s) = 0)
  BY LenProperties, EmptySeq
<1>3. 1 \in 1 .. Len(s) + 1 /\ Len(s) + 1 \in 1 .. Len(s) + 1
  BY <1>2
<1>4. from \in 0 .. total /\ to \in 0 .. total
  BY <1>1, <1>3
<1>5. s = <<>> => to = from
  <2>1. s = <<>> => Len(s) + 1 = 1
    BY <1>2
  <2> QED BY <2>1, <1>1
<1>6. s # <<>> => from < total
  <2>1. s # <<>> => 1 \in 1 .. Len(s)
    BY <1>2
  <2> QED BY <2>1, <1>1
<1> QED
  BY <1>4, <1>5, <1>6

LEMMA ChainAppend ==
  ASSUME NEW total \in Nat, NEW s \in Seq(Seq(Nat)), NEW from, NEW to,
         Chain(s, from, to, total), to < total
  PROVE  Chain(Append(s, Bytes(to, NextPiece(to, total))), from,
               to + NextPiece(to, total), total)
<1> DEFINE n == NextPiece(to, total)
           r == Bytes(to, n)
           t == Append(s, r)
<1>1. to \in 0 .. total
  BY ChainEnds
<1>2. n \in Nat /\ to + n \in 0 .. total
  BY <1>1, NextPieceFacts
<1>3. r \in Seq(Nat)
  BY <1>1, <1>2, BytesFacts
<1> HIDE DEF n, r
<1>4. /\ Len(t) = Len(s) + 1
      /\ \A j \in 1 .. Len(s) : t[j] = s[j]
      /\ t[Len(s) + 1] = r
      /\ Len(s) \in Nat
  BY <1>3, AppendProperties, LenProperties
<1> HIDE DEF t
<1>5. PICK off \in [1 .. Len(s) + 1 -> 0 .. total] :
           /\ off[1] = from
           /\ off[Len(s) + 1] = to
           /\ \A j \in 1 .. Len(s) :
                /\ off[j] < total
                /\ off[j + 1] = off[j] + NextPiece(off[j], total)
                /\ s[j] = Bytes(off[j], NextPiece(off[j], total))
  BY ChainDef
<1> DEFINE fo == [j \in 1 .. Len(t) + 1 |-> IF j <= Len(s) + 1 THEN off[j] ELSE to + n]
<1>6. /\ fo \in [1 .. Len(t) + 1 -> 0 .. total]
      /\ \A j \in 1 .. Len(s) + 1 : fo[j] = off[j]
      /\ fo[Len(t) + 1] = to + n
  BY <1>2, <1>4
<1> HIDE DEF fo
<1>7. fo[1] = from
  BY <1>4, <1>5, <1>6
<1>8. ASSUME NEW j \in 1 .. Len(t)
      PROVE  /\ fo[j] < total
             /\ fo[j + 1] = fo[j] + NextPiece(fo[j], total)
             /\ t[j] = Bytes(fo[j], NextPiece(fo[j], total))
  <2>1. CASE j = Len(s) + 1
    <3>1. fo[j] = to /\ fo[j + 1] = to + n /\ t[j] = r
      BY <2>1, <1>4, <1>5, <1>6
    <3> QED BY <3>1 DEF n, r
  <2>2. CASE j # Len(s) + 1
    <3>1. j \in 1 .. Len(s) /\ j \in 1 .. Len(s) + 1 /\ j + 1 \in 1 .. Len(s) + 1
      BY <2>2, <1>4
    <3>2. fo[j] = off[j] /\ fo[j + 1] = off[j + 1] /\ t[j] = s[j]
      BY <3>1, <1>4, <1>6
    <3> QED BY <3>1, <3>2, <1>5
  <2> QED BY <2>1, <2>2
<1>9. Chain(t, from, to + n, total)
  BY <1>6, <1>7, <1>8, ChainDef
<1> QED
  BY <1>9 DEF n, r, t

\* The record that is taken first.
LEMMA ChainTail ==
  ASSUME NEW total \in Nat, NEW s \in Seq(Seq(Nat)), NEW from, NEW to,
         Chain(s, from, to, total), s # <<>>
  PROVE  /\ Head(s) = Bytes(from, NextPiece(from, total))
         /\ Chain(Tail(s), from + NextPiece(from, total), to, total)
<1> DEFINE t == Tail(s)
<1>1. /\ Len(s) \in Nat \ {0} /\ Len(t) = Len(s) - 1
      /\ \A j \in 1 .. Len(t) : t[j] = s[j + 1]
      /\ Head(s) = s[1]
  BY EmptySeq, HeadTailProperties, LenProperties
<1> HIDE DEF t
<1>2. PICK off \in [1 .. Len(s) + 1 -> 0 .. total] :
           /\ off[1] = from
           /\ off[Len(s) + 1] = to
           /\ \A j \in 1 .. Len(s) :
                /\ off[j] < total
                /\ off[j + 1] = off[j] + NextPiece(off[j], total)
                /\ s[j] = Bytes(off[j], NextPiece(off[j], total))
  BY ChainDef
<1>3. Head(s) = Bytes(from, NextPiece(from, total)) /\ off[2] = from + NextPiece(from, total)
  <2>1. 1 \in 1 .. Len(s)
    BY <1>1
  <2>2. off[1 + 1] = off[1] + NextPiece(off[1], total)
    BY <2>1, <1>2
  <2> QED BY <2>1, <2>2, <1>1, <1>2
<1> DEFINE fo == [j \in 1 .. Len(t) + 1 |-> off[j + 1]]
<1>4. /\ fo \in [1 .. Len(t) + 1 -> 0 .. total]
      /\ \A j \in 1 .. Len(t) + 1 : fo[j] = off[j + 1]
  BY <1>1
<1> HIDE DEF fo
<1>5. fo[1] = off[2] /\ fo[Len(t) + 1] = to
  <2>1. 1 \in 1 .. Len(t) + 1 /\ Len(t) + 1 \in 1 .. Len(t) + 1 /\ Len(t) + 1 + 1 = Len(s) + 1
    BY <1>1
  <2>2. fo[1] = off[1 + 1] /\ fo[Len(t) + 1] = off[Len(t) + 1 + 1]
    BY <2>1, <1>4
  <2>3. off[Len(t) + 1 + 1] = off[Len(s) + 1]
    BY <2>1
  <2> QED BY <2>2, <2>3, <1>2, 1 + 1 = 2
<1>6. ASSUME NEW j \in 1 .. Len(t)
      PROVE  /\ fo[j] < total
             /\ fo[j + 1] = fo[j] + NextPiece(fo[j], total)
             /\ t[j] = Bytes(fo[j], NextPiece(fo[j], total))
  <2>1. j \in 1 .. Len(t) + 1 /\ j + 1 \in 1 .. Len(t) + 1 /\ j + 1 \in 1 .. Len(s)
    BY <1>1
  <2>2. fo[j] = off[j + 1] /\ fo[j + 1] = off[j + 1 + 1] /\ t[j] = s[j + 1]
    BY <2>1, <1>1, <1>4
  <2>3. /\ off[j + 1] < total
        /\ off[j + 1 + 1] = off[j + 1] + NextPiece(off[j + 1], total)
        /\ s[j + 1] = Bytes(off[j + 1], NextPiece(off[j + 1], total))
    BY <2>1, <1>2
  <2> QED BY <2>2, <2>3
<1>7. Chain(t, from + NextPiece(from, total), to, total)
  BY <1>3, <1>4, <1>5, <1>6, ChainDef
<1> QED
  BY <1>3, <1>7 DEF t

\* What a reset leaves.
LEMMA ChainPrefix ==
  ASSUME NEW total \in Nat, NEW s \in Seq(Seq(Nat)), NEW from, NEW to,
         Chain(s, from, to, total), NEW n \in 0 .. Len(s)
  PROVE  \E t \in 0 .. total : Chain(SubSeq(s, 1, n), from, t, total)
<1> DEFINE p == SubSeq(s, 1, n)
<1>1. Len(s) \in Nat /\ \A j \in 1 .. n : s[j] \in Seq(Nat)
  BY LenProperties, ElementOfSeq
<1>2. Len(p) = n /\ \A j \in 1 .. n : p[j] = s[j]
  <2>1. /\ Len(SubSeq(s, 1, n)) = IF 1 <= n THEN n - 1 + 1 ELSE 0
        /\ \A j \in 1 .. n - 1 + 1 : SubSeq(s, 1, n)[j] = s[1 + j - 1]
    BY <1>1, SubSeqProperties, n \in Int, 1 \in Int
  <2> QED BY <2>1
<1> HIDE DEF p
<1>3. PICK off \in [1 .. Len(s) + 1 -> 0 .. total] :
           /\ off[1] = from
           /\ \A j \in 1 .. Len(s) :
                /\ off[j] < total
                /\ off[j + 1] = off[j] + NextPiece(off[j], total)
                /\ s[j] = Bytes(off[j], NextPiece(off[j], total))
  BY ChainDef
<1> DEFINE fo == [j \in 1 .. Len(p) + 1 |-> off[j]]
<1>4. fo \in [1 .. Len(p) + 1 -> 0 .. total] /\ \A j \in 1 .. Len(p) + 1 : fo[j] = off[j]
  BY <1>1, <1>2
<1> HIDE DEF fo
<1>5. fo[1] = from /\ fo[Len(p) + 1] \in 0 .. total
  BY <1>1, <1>2, <1>3, <1>4
<1>6. ASSUME NEW j \in 1 .. Len(p)
      PROVE  /\ fo[j] < total
             /\ fo[j + 1] = fo[j] + NextPiece(fo[j], total)
             /\ p[j] = Bytes(fo[j], NextPiece(fo[j], total))
  <2>1. j \in 1 .. Len(s) /\ j \in 1 .. Len(p) + 1 /\ j + 1 \in 1 .. Len(p) + 1
    BY <1>1, <1>2
  <2> QED BY <2>1, <1>2, <1>3, <1>4
<1>7. Chain(p, from, fo[Len(p) + 1], total)
  BY <1>4, <1>5, <1>6, ChainDef
<1> QED
  BY <1>5, <1>7 DEF p
-----------------------------------------------------------------------------
(* The records of a request and of its answer.                              *)

LEMMA SingleRecord ==
  ASSUME NEW n \in Nat
  PROVE  /\ <<n>> \in Seq(Nat)
         /\ Len(<<n>>) = 1
         /\ Append(<<>>, <<n>>) \in Seq(Seq(Nat))
         /\ Append(<<>>, <<n>>) # <<>>
         /\ Head(Append(<<>>, <<n>>)) = <<n>>
         /\ Tail(Append(<<>>, <<n>>)) = <<>>
         /\ Head(<<n>>) = n
<1>1. <<n>> \in Seq(Nat) /\ Len(<<n>>) = 1 /\ Head(<<n>>) = n
  OBVIOUS
<1>2. <<>> \in Seq(Seq(Nat))
  BY EmptySeq
<1> QED
  BY <1>1, <1>2, AppendProperties, HeadTailAppend

\* One more record behind the others.
LEMMA RecordAdded ==
  ASSUME NEW records \in Seq(Seq(Nat)), NEW m \in Nat, NEW n \in Nat
  PROVE  /\ Append(records, Bytes(m, n)) \in Seq(Seq(Nat))
         /\ Append(records, Bytes(m, n)) # <<>>
         /\ records # <<>> =>
              /\ Head(Append(records, Bytes(m, n))) = Head(records)
              /\ Tail(Append(records, Bytes(m, n))) = Append(Tail(records), Bytes(m, n))
<1> DEFINE r == Bytes(m, n)
           S == Seq(Nat)
<1>1. r \in S /\ records \in Seq(S)
  BY BytesFacts
<1> HIDE DEF r, S
<1>2. Append(records, r) \in Seq(S) /\ Append(records, r) # <<>>
  BY <1>1, AppendProperties
<1>3. /\ Head(Append(records, r)) = IF records = <<>> THEN r ELSE Head(records)
      /\ Tail(Append(records, r)) = IF records = <<>> THEN <<>> ELSE Append(Tail(records), r)
  BY <1>1, HeadTailAppend
<1> QED
  BY <1>2, <1>3 DEF r, S

\* Some bytes behind the others.
LEMMA BytesAdded ==
  ASSUME NEW bytes \in Seq(Nat), NEW m \in Nat, NEW n \in Nat
  PROVE  bytes \o Bytes(m, n) \in Seq(Nat)
<1> DEFINE b == Bytes(m, n)
<1>1. b \in Seq(Nat)
  BY BytesFacts
<1> HIDE DEF b
<1>2. bytes \o b \in Seq(Nat)
  BY <1>1, ConcatProperties
<1> QED
  BY <1>2 DEF b

LEMMA InitRecords ==
  Init => Records
BY BoundsAssumption DEF Init, Records, TypeOK, Upward, Downward, Phases, Handling, Replying, Whole

LEMMA SendLengthRecords ==
  ASSUME Records, NEW n \in Lengths, SendLength(n)
  PROVE  Records'
<1>1. n \in Nat \ {0} /\ cpc = "idle" /\ up = <<>> /\ down = <<>> /\ ipc = "header"
  BY LengthsAssumption DEF Records, Phases, SendLength
<1>2. up' = Append(<<>>, <<n>>)
  BY <1>1 DEF SendLength
<1>3. up' \in Seq(Seq(Nat)) /\ up' # <<>> /\ Head(up') = <<n>> /\ Tail(up') = <<>>
  BY <1>1, <1>2, SingleRecord
<1>4. Chain(<<>>, 0, 0, n)
  BY <1>1, ChainEmpty
<1>5. TypeOK'
  BY <1>1, <1>3, BoundsAssumption
     DEF Records, TypeOK, SendLength, recordVars, ieeVars, socketVars, storeVars
<1>6. Upward'
  BY <1>1, <1>3, <1>4
     DEF Records, Upward, Requested, Handling, SendLength, ClientGone, ieeVars
<1>7. Downward'
  BY <1>1 DEF Records, Downward, SendLength, ieeVars
<1>8. Phases'
  BY <1>1, <1>3 DEF Records, Phases, SendLength, ieeVars
<1> QED
  BY <1>5, <1>6, <1>7, <1>8 DEF Records

LEMMA SendPieceRecords ==
  ASSUME Records, SendPiece
  PROVE  Records'
<1> DEFINE n == AtMost(reqLen - sent, Piece)
<1>1. /\ cpc = "send" /\ sent < reqLen /\ down = <<>>
      /\ ipc = "body" \/ (ipc = "header" /\ up # <<>>)
  BY DEF Records, Phases, SendPiece
<1>2. /\ reqLen \in Nat \ {0} /\ reqLen \in Lengths /\ sent \in 0 .. reqLen
      /\ up \in Seq(Seq(Nat)) /\ iBuf \in Seq(Nat)
  BY <1>1, LengthsAssumption DEF Records, TypeOK
<1>3. n = NextPiece(sent, reqLen) /\ n \in Nat \ {0} /\ sent + n \in 0 .. reqLen
  BY <1>1, <1>2, NextPieceFacts DEF NextPiece
<1>5. /\ up' = Append(up, Bytes(sent, n))
      /\ sent' = sent + n
      /\ cpc' = IF sent + n = reqLen THEN "await" ELSE "send"
      /\ UNCHANGED <<asked, reqLen, cLen, cBuf, down, ieeVars, socketVars, storeVars>>
  BY DEF SendPiece
<1> HIDE DEF n
<1>6. /\ up' \in Seq(Seq(Nat)) /\ up' # <<>>
      /\ up # <<>> => Head(up') = Head(up) /\ Tail(up') = Append(Tail(up), Bytes(sent, n))
  <2>1. sent \in Nat /\ n \in Nat
    BY <1>2, <1>3
  <2>2. up \in Seq(Seq(Nat)) /\ up' = Append(up, Bytes(sent, n))
    BY <1>2, <1>5
  <2>3. /\ Append(up, Bytes(sent, n)) \in Seq(Seq(Nat))
        /\ Append(up, Bytes(sent, n)) # <<>>
        /\ up # <<>> =>
             /\ Head(Append(up, Bytes(sent, n))) = Head(up)
             /\ Tail(Append(up, Bytes(sent, n))) = Append(Tail(up), Bytes(sent, n))
    BY <2>1, <2>2, RecordAdded
  <2> QED BY <2>2, <2>3
<1>7. ASSUME NEW s \in Seq(Seq(Nat)), NEW from, Requested(s, from)
      PROVE  Chain(Append(s, Bytes(sent, n)), from, sent + n, reqLen)
  <2>1. Chain(s, from, sent, reqLen)
    BY <1>1, <1>7 DEF Requested, ClientGone
  <2> QED BY <2>1, <1>1, <1>2, <1>3, ChainAppend
<1>8. TypeOK'
  BY <1>2, <1>3, <1>5, <1>6
     DEF Records, TypeOK, recordVars, ieeVars, socketVars, storeVars
<1>9. Upward'
  <2>1. CASE ipc = "body"
    <3>1. Chain(up', Len(iBuf), sent + n, reqLen)
      BY <2>1, <1>2, <1>5, <1>7 DEF Records, Upward
    <3> QED BY <2>1, <3>1, <1>3, <1>5 DEF Records, Upward, Requested, Handling, ieeVars
  <2>2. CASE ipc = "header" /\ up # <<>>
    <3>1. Tail(up) \in Seq(Seq(Nat))
      BY <2>2, <1>2, HeadTailProperties
    <3>2. Chain(Tail(up'), 0, sent + n, reqLen)
      BY <2>2, <3>1, <1>2, <1>6, <1>7 DEF Records, Upward
    <3> QED BY <2>2, <3>2, <1>3, <1>5, <1>6 DEF Records, Upward, Requested, Handling, ieeVars
  <2> QED BY <1>1, <2>1, <2>2
<1>10. Downward'
  <2>1. ~Replying' /\ down' = <<>> /\ cpc' \in {"send", "await"}
    BY <1>1, <1>5, <1>6 DEF Replying, ieeVars
  <2>2. ipc' \notin {"answer", "write"}
    BY <1>1, <1>5 DEF ieeVars
  <2> QED BY <2>1, <2>2 DEF Downward
<1>11. Phases'
  <2>1. /\ cpc' \in {"send", "await"} /\ down' = <<>> /\ up' # <<>>
        /\ cpc' = "send" => sent' < reqLen'
        /\ cpc' = "await" => sent' = reqLen'
    BY <1>1, <1>2, <1>3, <1>5, <1>6
  <2>2. ipc' \in {"body", "header"}
    BY <1>1, <1>5 DEF ieeVars
  <2> QED BY <2>1, <2>2 DEF Phases
<1> QED
  BY <1>8, <1>9, <1>10, <1>11 DEF Records

LEMMA ReceiveLengthRecords ==
  ASSUME Records, ReceiveLength
  PROVE  Records'
<1>1. cpc = "await" /\ down # <<>> /\ down \in Seq(Seq(Nat)) /\ Replying
  BY DEF Records, TypeOK, Downward, ReceiveLength
<1>2. /\ outLen \in Lengths /\ outLen \in Nat \ {0} /\ iSent \in 0 .. outLen
      /\ Head(down) = <<outLen>> /\ Chain(Tail(down), 0, iSent, outLen)
      /\ ipc = "header" => iSent = outLen
      /\ up = <<>>
  BY <1>1, LengthsAssumption DEF Records, TypeOK, Upward, Downward, Phases, Replying, Handling
<1>3. AfterRead(down, 1) = Tail(down) /\ Head(Head(down)) = outLen
  <2>1. Len(<<outLen>>) = 1 /\ Head(<<outLen>>) = outLen
    BY <1>2, SingleRecord
  <2>2. Len(Head(down)) = 1 /\ Head(Head(down)) = outLen
    BY <2>1, <1>2, Zenon
  <2>3. AfterRead(down, 1) = Tail(down)
    BY <2>2, ~(1 > 1) DEF AfterRead
  <2> QED BY <2>2, <2>3
<1>4. /\ cLen' = outLen /\ cBuf' = <<>> /\ down' = Tail(down) /\ cpc' = "receive"
      /\ UNCHANGED <<asked, reqLen, sent, up, ieeVars, socketVars, storeVars>>
  BY <1>3 DEF ReceiveLength
<1>5. Tail(down) \in Seq(Seq(Nat)) /\ Len(<<>>) = 0 /\ <<>> = Bytes(0, 0)
  BY <1>1, HeadTailProperties, EmptySeq DEF Bytes
<1>6. TypeOK'
  BY <1>2, <1>4, <1>5
     DEF Records, TypeOK, recordVars, ieeVars, socketVars, storeVars
<1>7. Upward'
  BY <1>1, <1>2, <1>4 DEF Records, Upward, Requested, Replying, Handling, ClientGone, ieeVars
<1>8. Downward'
  BY <1>2, <1>4, <1>5 DEF Records, Downward, Replying, Whole, ieeVars
<1>9. Phases'
  BY <1>1, <1>2, <1>4, <1>5 DEF Records, Phases, Replying, ieeVars
<1> QED
  BY <1>6, <1>7, <1>8, <1>9 DEF Records

LEMMA ReceivePieceRecords ==
  ASSUME Records, ReceivePiece
  PROVE  Records'
<1> DEFINE n == AtMost(cLen - Len(cBuf), Piece)
           got == First(Head(down), n)
<1>1. /\ cpc = "receive" /\ down # <<>> /\ down \in Seq(Seq(Nat)) /\ cBuf \in Seq(Nat)
      /\ up = <<>> /\ ipc \in {"write", "header"}
  BY DEF Records, TypeOK, Phases, ReceivePiece
<1>2. /\ outLen \in Lengths /\ outLen \in Nat \ {0} /\ iSent \in 0 .. outLen
      /\ cLen = outLen /\ Len(cBuf) < outLen /\ Len(cBuf) \in 0 .. outLen
      /\ cBuf = Bytes(0, Len(cBuf)) /\ Chain(down, Len(cBuf), iSent, outLen)
      /\ ipc = "header" => iSent = outLen
  BY <1>1, LengthsAssumption, LenProperties DEF Records, TypeOK, Downward, Whole
<1>3. /\ n = NextPiece(Len(cBuf), outLen) /\ n \in Nat \ {0}
      /\ Len(cBuf) + n \in 0 .. outLen
  BY <1>2, NextPieceFacts DEF NextPiece
<1>4. Head(down) = Bytes(Len(cBuf), n) /\ Chain(Tail(down), Len(cBuf) + n, iSent, outLen)
  BY <1>1, <1>2, <1>3, ChainTail
<1>5. got = Bytes(Len(cBuf), n) /\ AfterRead(down, n) = Tail(down) /\ Len(got) = n
  <2>1. Len(cBuf) \in Nat /\ n \in Nat /\ n <= n
    BY <1>2, <1>3
  <2>2. Len(Head(down)) = n
    BY <2>1, <1>4, BytesFacts
  <2> HIDE DEF n
  <2>3. First(Bytes(Len(cBuf), n), n) = Bytes(Len(cBuf), n)
    BY <2>1, BytesSplit
  <2> QED BY <2>1, <2>2, <2>3, <1>4 DEF AfterRead
<1>6. /\ cBuf' = cBuf \o got /\ down' = Tail(down)
      /\ cpc' = IF Len(cBuf) + n = outLen THEN "idle" ELSE "receive"
      /\ UNCHANGED <<asked, reqLen, sent, cLen, up, ieeVars, socketVars, storeVars>>
  BY <1>2, <1>5 DEF ReceivePiece
<1> HIDE DEF n, got
<1>7. cBuf' = Bytes(0, Len(cBuf) + n) /\ cBuf' \in Seq(Nat) /\ Len(cBuf') = Len(cBuf) + n
  <2>1. Len(cBuf) \in Nat /\ n \in Nat /\ 0 + Len(cBuf) = Len(cBuf) /\ Len(cBuf) + n \in Nat
    BY <1>2, <1>3
  <2>2. Bytes(0, Len(cBuf)) \o Bytes(0 + Len(cBuf), n) = Bytes(0, Len(cBuf) + n)
    BY <2>1, BytesJoin
  <2>3. cBuf' = Bytes(0, Len(cBuf) + n)
    BY <2>1, <2>2, <1>2, <1>5, <1>6
  <2> QED BY <2>1, <2>3, BytesFacts
<1>8. Tail(down) \in Seq(Seq(Nat))
  BY <1>1, HeadTailProperties
<1>9. TypeOK'
  BY <1>6, <1>7, <1>8
     DEF Records, TypeOK, recordVars, ieeVars, socketVars, storeVars
<1>10. Upward'
  BY <1>1, <1>6 DEF Records, Upward, Requested, Handling, ClientGone, ieeVars
<1>11. Downward'
  BY <1>1, <1>2, <1>3, <1>4, <1>6, <1>7 DEF Records, Downward, Replying, Whole, ieeVars
<1>12. Phases'
  <2>1. CASE Len(cBuf) + n = outLen
    <3>0. Chain(Tail(down), outLen, iSent, outLen)
      BY <2>1, <1>4
    <3>1. /\ Tail(down) # <<>> => outLen < outLen
          /\ Tail(down) = <<>> => iSent = outLen
      BY <3>0, <1>2, <1>8, ChainEnds
    <3>2. Tail(down) = <<>> /\ ~(iSent < outLen)
      BY <3>1, <1>2
    <3>3. ipc = "header"
      BY <3>2, <1>1 DEF Records, Downward
    <3> QED BY <2>1, <3>2, <3>3, <1>1, <1>6 DEF Records, Phases, ieeVars
  <2>2. CASE Len(cBuf) + n # outLen
    BY <2>2, <1>1, <1>6 DEF Records, Phases, ieeVars
  <2> QED BY <2>1, <2>2
<1> QED
  BY <1>9, <1>10, <1>11, <1>12 DEF Records

LEMMA CloseConnectionRecords ==
  ASSUME Records, CloseConnection
  PROVE  Records'
<1>1. TypeOK'
  BY DEF Records, TypeOK, CloseConnection, recordVars, ieeVars, socketVars, storeVars
<1>2. Upward' /\ Downward' /\ Phases'
  BY DEF Records, Upward, Downward, Phases, Replying, Requested, Handling, ClientGone,
         CloseConnection, recordVars, ieeVars
<1> QED
  BY <1>1, <1>2 DEF Records

LEMMA BreakConnectionRecords ==
  ASSUME Records, BreakConnection
  PROVE  Records'
<1>1. PICK n \in 0 .. Len(up) : up' = SubSeq(up, 1, n)
  BY DEF BreakConnection
<1>2. /\ ~ClientGone /\ down' = <<>>
      /\ cpc' = IF cpc = "idle" THEN "left" ELSE "broken"
      /\ UNCHANGED <<asked, reqLen, sent, cLen, cBuf, ieeVars, socketVars, storeVars>>
  BY DEF BreakConnection
<1>3. /\ up \in Seq(Seq(Nat)) /\ reqLen \in Nat /\ Len(up) \in Nat
  BY LengthsAssumption, LenProperties DEF Records, TypeOK
<1>4. up' \in Seq(Seq(Nat)) /\ (n = 0 => up' = <<>>) /\ (up = <<>> => up' = <<>>)
  <2>1. \A j \in 1 .. n : up[j] \in Seq(Nat)
    BY <1>3, ElementOfSeq
  <2>2. SubSeq(up, 1, n) \in Seq(Seq(Nat)) /\ Len(SubSeq(up, 1, n)) = IF 1 <= n THEN n - 1 + 1 ELSE 0
    BY <2>1, <1>3, SubSeqProperties, n \in Int, 1 \in Int
  <2>3. Len(SubSeq(up, 1, n)) = n
    BY <2>2
  <2> QED BY <1>1, <2>2, <2>3, <1>3, EmptySeq
<1>5. TypeOK'
  BY <1>2, <1>4, EmptySeq
     DEF Records, TypeOK, recordVars, ieeVars, socketVars, storeVars
<1>gone. ClientGone'
  BY <1>2 DEF ClientGone
<1>6. Upward'
  <2>1. ASSUME NEW s \in Seq(Seq(Nat)), NEW from, Requested(s, from), NEW k \in 0 .. Len(s)
        PROVE  \E to \in 0 .. reqLen : Chain(SubSeq(s, 1, k), from, to, reqLen)
    <3>1. PICK to \in 0 .. reqLen : Chain(s, from, to, reqLen)
      BY <2>1 DEF Requested
    <3>2. PICK t \in 0 .. reqLen : Chain(SubSeq(s, 1, k), from, t, reqLen)
      BY <3>1, <1>3, <2>1, ChainPrefix
    <3> QED BY <3>2
  <2>2. CASE ipc = "header" /\ up' # <<>>
    <3>1. up # <<>> /\ n \in 1 .. Len(up) /\ 1 \in 1 .. Len(up)
      BY <2>2, <1>3, <1>4
    <3>2. Head(up') = Head(up) /\ Tail(up') = SubSeq(up, 2, n)
      BY <3>1, <1>1, <1>3, HeadTailOfSubSeq
    <3>3. SubSeq(up, 2, n) = SubSeq(Tail(up), 1, n - 1)
      BY <3>1, <1>3
    <3>4. Tail(up) \in Seq(Seq(Nat)) /\ n - 1 \in 0 .. Len(Tail(up))
      BY <3>1, <1>3, HeadTailProperties
    <3>5. \E to \in 0 .. reqLen : Chain(Tail(up'), 0, to, reqLen)
      BY <2>1, <2>2, <3>1, <3>2, <3>3, <3>4 DEF Records, Upward
    <3> QED BY <2>2, <3>1, <3>2, <3>5, <1>2, <1>gone DEF Records, Upward, Requested, Handling, ieeVars
  <2>3. CASE ipc = "body"
    <3>1. \E to \in 0 .. reqLen : Chain(up', Len(iBuf), to, reqLen)
      BY <2>1, <2>3, <1>1, <1>3 DEF Records, Upward
    <3> QED BY <2>3, <3>1, <1>2, <1>gone DEF Records, Upward, Requested, Handling, ieeVars
  <2>4. CASE ~(ipc = "header" /\ up' # <<>>) /\ ipc # "body"
    BY <2>4, <1>2, <1>4 DEF Records, Upward, Handling, ieeVars
  <2> QED BY <2>2, <2>3, <2>4
<1>7. Downward'
  BY <1>2 DEF Records, Downward, ieeVars
<1>8. Phases'
  BY <1>2, <1>4 DEF Records, Phases, ClientGone, ieeVars
<1> QED
  BY <1>5, <1>6, <1>7, <1>8 DEF Records

LEMMA ClientFailsRecords ==
  ASSUME Records, ClientFails
  PROVE  Records'
<1>1. TypeOK'
  BY DEF Records, TypeOK, ClientFails, recordVars, ieeVars, socketVars, storeVars
<1>2. Upward' /\ Downward' /\ Phases'
  BY DEF Records, Upward, Downward, Phases, Replying, Handling, StoreGone,
         ClientFails, recordVars, ieeVars, storeVars
<1> QED
  BY <1>1, <1>2 DEF Records

LEMMA ReadLengthRecords ==
  ASSUME Records, ReadLength
  PROVE  Records'
<1>1. /\ ipc = "header" /\ up # <<>> /\ up \in Seq(Seq(Nat))
      /\ up' = Tail(up) /\ iLen' = Head(Head(up)) /\ iBuf' = <<>> /\ ipc' = "body"
      /\ UNCHANGED <<outLen, iSent, iGot, clientVars, down, socketVars, storeVars>>
  BY DEF Records, TypeOK, ReadLength
<1>2. /\ reqLen \in Lengths /\ reqLen \in Nat \ {0} /\ Head(up) = <<reqLen>>
      /\ Requested(Tail(up), 0)
  BY <1>1, LengthsAssumption DEF Records, Upward
<1>3. iLen' = reqLen
  <2>1. Head(<<reqLen>>) = reqLen
    BY <1>2, SingleRecord
  <2> QED BY <2>1, <1>1, <1>2, Zenon
<1>4. Tail(up) \in Seq(Seq(Nat)) /\ <<>> \in Seq(Nat) /\ Len(<<>>) = 0 /\ <<>> = Bytes(0, 0)
  BY <1>1, HeadTailProperties, EmptySeq DEF Bytes
<1>5. cpc \in {"send", "await", "broken"}
  BY <1>1 DEF Records, TypeOK, Phases
<1>6. TypeOK'
  BY <1>1, <1>2, <1>3, <1>4
     DEF Records, TypeOK, clientVars, recordVars, socketVars, storeVars
<1>7. Upward'
  BY <1>1, <1>2, <1>3, <1>4
     DEF Upward, Requested, ClientGone, Whole, Handling, clientVars
<1>8. Downward'
  BY <1>1, <1>5 DEF Records, Downward, Replying, clientVars
<1>9. Phases'
  BY <1>1, <1>5 DEF Records, Phases, clientVars
<1> QED
  BY <1>6, <1>7, <1>8, <1>9 DEF Records

LEMMA ReadEndRecords ==
  ASSUME Records, ReadEnd
  PROVE  Records'
<1>1. TypeOK'
  BY DEF Records, TypeOK, ReadEnd, clientVars, recordVars, socketVars, storeVars
<1>2. Upward' /\ Downward' /\ Phases'
  BY DEF Records, TypeOK, Upward, Downward, Phases, Replying, Handling, ClientGone,
         ReadEnd, clientVars, recordVars
<1> QED
  BY <1>1, <1>2 DEF Records

LEMMA ReadPieceRecords ==
  ASSUME Records, ReadPiece
  PROVE  Records'
<1> DEFINE n == AtMost(iLen - Len(iBuf), Piece)
           got == First(Head(up), n)
<1>1. /\ ipc = "body" /\ up # <<>> /\ up \in Seq(Seq(Nat)) /\ iBuf \in Seq(Nat)
  BY DEF Records, TypeOK, ReadPiece
<1>2. /\ reqLen \in Nat \ {0} /\ iLen = reqLen
      /\ Len(iBuf) < reqLen /\ Len(iBuf) \in 0 .. reqLen
      /\ iBuf = Bytes(0, Len(iBuf)) /\ Requested(up, Len(iBuf))
  <2>1. reqLen \in Nat /\ Len(iBuf) \in Nat
    BY <1>1, LengthsAssumption, LenProperties DEF Records, TypeOK
  <2> QED BY <1>1, <2>1 DEF Records, Upward, Whole
<1>3. /\ n = NextPiece(Len(iBuf), reqLen) /\ n \in Nat \ {0}
      /\ Len(iBuf) + n \in 0 .. reqLen
  BY <1>2, NextPieceFacts DEF NextPiece
<1>4. PICK to \in 0 .. reqLen : Chain(up, Len(iBuf), to, reqLen) /\ (~ClientGone => to = sent)
  BY <1>2 DEF Requested
<1>5. Head(up) = Bytes(Len(iBuf), n) /\ Chain(Tail(up), Len(iBuf) + n, to, reqLen)
  BY <1>1, <1>2, <1>3, <1>4, ChainTail
<1>6. got = Bytes(Len(iBuf), n) /\ Len(got) = n
  <2>1. Len(iBuf) \in Nat /\ n \in Nat /\ n <= n
    BY <1>2, <1>3
  <2> HIDE DEF n
  <2>2. First(Bytes(Len(iBuf), n), n) = Bytes(Len(iBuf), n)
    BY <2>1, BytesSplit
  <2> QED BY <2>1, <2>2, <1>5, BytesFacts
<1>7. /\ iBuf' = iBuf \o got /\ up' = Tail(up)
      /\ ipc' = IF Len(iBuf) + n = reqLen THEN "process" ELSE "body"
      /\ UNCHANGED <<iLen, outLen, iSent, iGot, clientVars, down, socketVars, storeVars>>
  BY <1>2, <1>6 DEF ReadPiece
<1> HIDE DEF n, got
<1>8. iBuf' = Bytes(0, Len(iBuf) + n) /\ iBuf' \in Seq(Nat) /\ Len(iBuf') = Len(iBuf) + n
  <2>1. Len(iBuf) \in Nat /\ n \in Nat /\ 0 + Len(iBuf) = Len(iBuf) /\ Len(iBuf) + n \in Nat
    BY <1>2, <1>3
  <2>2. Bytes(0, Len(iBuf)) \o Bytes(0 + Len(iBuf), n) = Bytes(0, Len(iBuf) + n)
    BY <2>1, BytesJoin
  <2>3. iBuf' = Bytes(0, Len(iBuf) + n)
    BY <2>1, <2>2, <1>2, <1>6, <1>7
  <2> QED BY <2>1, <2>3, BytesFacts
<1>9. Tail(up) \in Seq(Seq(Nat))
  BY <1>1, HeadTailProperties
<1>10. /\ Tail(up) # <<>> => Len(iBuf) + n < reqLen
       /\ Tail(up) = <<>> => to = Len(iBuf) + n
  BY <1>2, <1>5, <1>9, ChainEnds
<1>11. cpc \in {"send", "await", "broken"}
  BY <1>1 DEF Records, TypeOK, Phases
<1>12. cpc = "send" => Len(iBuf) + n # reqLen
  <2>1. SUFFICES ASSUME cpc = "send", Len(iBuf) + n = reqLen PROVE FALSE
    OBVIOUS
  <2>2. to = sent /\ sent < reqLen
    BY <2>1, <1>4 DEF Records, Phases, ClientGone
  <2>3. to = reqLen
    BY <2>1, <1>2, <1>10
  <2> QED BY <2>2, <2>3, <1>2
<1>13. TypeOK'
  BY <1>7, <1>8, <1>9
     DEF Records, TypeOK, clientVars, recordVars, socketVars, storeVars
<1>14. Upward'
  <2>1. CASE Len(iBuf) + n = reqLen
    <3>1. Tail(up) = <<>>
      BY <2>1, <1>2, <1>10
    <3> QED BY <2>1, <3>1, <1>2, <1>7, <1>8 DEF Upward, Whole, Handling, clientVars
  <2>2. CASE Len(iBuf) + n # reqLen
    BY <2>2, <1>2, <1>3, <1>4, <1>5, <1>7, <1>8
       DEF Upward, Requested, ClientGone, Whole, Handling, clientVars
  <2> QED BY <2>1, <2>2
<1>15. Downward'
  BY <1>1, <1>7, <1>11 DEF Records, Downward, Replying, clientVars
<1>16. Phases'
  BY <1>1, <1>7, <1>11, <1>12 DEF Records, Phases, clientVars
<1> QED
  BY <1>13, <1>14, <1>15, <1>16 DEF Records

LEMMA ReadFailsRecords ==
  ASSUME Records, ReadFails
  PROVE  Records'
<1>1. cpc = "broken"
  BY DEF Records, Phases, ReadFails, ClientGone
<1>2. TypeOK'
  BY DEF Records, TypeOK, ReadFails, clientVars, recordVars, socketVars, storeVars
<1>3. Upward' /\ Downward' /\ Phases'
  BY <1>1 DEF Records, Upward, Downward, Phases, Replying, Handling, ReadFails,
              clientVars, recordVars
<1> QED
  BY <1>2, <1>3 DEF Records

\* While a request is handled the client waits for its answer, or is gone.
LEMMA HandlingFacts ==
  ASSUME Records, ipc \in Handling \ {"write"}
  PROVE  /\ cpc \notin {"idle", "send", "receive", "closed", "left", "failed"}
         /\ cpc = "await" => down = <<>>
         /\ iLen = reqLen /\ Whole(iBuf, reqLen) /\ up = <<>>
BY DEF Records, Upward, Downward, Phases, Replying, Handling

LEMMA ContactRecords ==
  ASSUME Records, Contact
  PROVE  Records'
<1>1. PICK n \in StoreLengths, answered \in BOOLEAN :
           outLen' = n /\ due' = Append(due, <<n, answered>>)
  BY DEF Contact
<1>2. n \in Nat /\ <<n, answered>> \in StoreLengths \X BOOLEAN
  BY LengthsAssumption
<1>3. due' \in Seq(StoreLengths \X BOOLEAN)
  BY <1>1, <1>2, AppendProperties DEF Records, TypeOK
<1>4. exchanges' \in 0 .. MaxExchanges
  BY BoundsAssumption DEF Records, TypeOK, Contact
<1>5. TypeOK'
  BY <1>1, <1>2, <1>3, <1>4, EmptySeq
     DEF Records, TypeOK, Contact, clientVars, recordVars, storeVars
<1>6. Upward' /\ Downward' /\ Phases'
  BY HandlingFacts DEF Records, Upward, Downward, Phases, Replying, Handling, Contact,
                       clientVars, recordVars
<1> QED
  BY <1>5, <1>6 DEF Records

LEMMA AnswerRecords ==
  ASSUME Records, Answer
  PROVE  Records'
<1>1. PICK n \in Lengths : outLen' = n
  BY DEF Answer
<1>2. n \in Nat
  BY LengthsAssumption
<1>3. TypeOK'
  BY <1>1, <1>2 DEF Records, TypeOK, Answer, clientVars, recordVars, socketVars, storeVars
<1>4. Upward' /\ Downward' /\ Phases'
  BY <1>1, HandlingFacts DEF Records, Upward, Downward, Phases, Replying, Handling, Answer,
                       clientVars, recordVars
<1> QED
  BY <1>3, <1>4 DEF Records

\* What happens on the socket to the storage service while a request is handled.
LEMMA SocketStepRecords ==
  ASSUME Records, TypeOK',
         ipc \in {"store", "collect"},
         ipc' \in {"process", "store", "collect", "ready", "exit"},
         ipc' = "exit" => StoreGone',
         StoreGone => StoreGone',
         UNCHANGED <<iLen, iBuf, outLen, clientVars, recordVars>>
  PROVE  Records'
<1>1. Upward' /\ Downward' /\ Phases'
  BY HandlingFacts DEF Records, Upward, Downward, Phases, Replying, Handling, clientVars, recordVars
<1> QED
  BY <1>1 DEF Records

LEMMA StoreSendRecords ==
  ASSUME Records, NEW n \in 1 .. Capacity, StoreSend(n)
  PROVE  Records'
<1>1. n \in Nat /\ outLen \in Nat /\ iSent \in 0 .. outLen /\ iSent + n \in 0 .. outLen
  BY LengthsAssumption, BoundsAssumption DEF Records, TypeOK, StoreSend
<1>2. toStore' \in Seq(Nat)
  <2>1. toStore \in Seq(Nat) /\ iSent \in Nat
    BY <1>1 DEF Records, TypeOK
  <2> QED BY <2>1, <1>1, BytesAdded DEF StoreSend
<1>3. ipc' \in {"process", "store", "collect"}
  BY DEF StoreSend, AfterSend
<1>4. TypeOK'
  BY <1>1, <1>2, <1>3 DEF Records, TypeOK, StoreSend, clientVars, recordVars, storeVars
<1> QED
  BY <1>3, <1>4, SocketStepRecords DEF StoreSend, StoreGone, storeVars

LEMMA StoreFailsRecords ==
  ASSUME Records, StoreFails
  PROVE  Records'
<1>1. ipc' \in {"process", "collect", "exit"} /\ iSent' \in 0 .. outLen
  <2>1. outLen \in 0 .. outLen /\ iSent \in 0 .. outLen
    BY LengthsAssumption DEF Records, TypeOK
  <2>2. AfterSend \in {"process", "collect"}
    BY DEF AfterSend
  <2> QED BY <2>1, <2>2 DEF StoreFails
<1>2. TypeOK'
  BY <1>1 DEF Records, TypeOK, StoreFails, clientVars, recordVars, socketVars, storeVars
<1> QED
  BY <1>1, <1>2, SocketStepRecords DEF StoreFails, StoreGone, storeVars

LEMMA StoreReceiveRecords ==
  ASSUME Records, NEW n \in 1 .. Capacity, StoreReceive(n)
  PROVE  Records'
<1>1. n \in Nat /\ fromStore \in Seq(Nat) /\ iGot \in Seq(Nat) /\ n <= Len(fromStore)
  BY BoundsAssumption DEF Records, TypeOK, StoreReceive
<1>2. First(fromStore, n) \in Seq(Nat) /\ Rest(fromStore, n) \in Seq(Nat)
  BY <1>1, FirstFacts, RestFacts
<1>3. iGot' \in Seq(Nat) /\ fromStore' \in Seq(Nat)
  BY <1>1, <1>2, ConcatProperties DEF StoreReceive
<1>4. ipc' \in {"ready", "collect"}
  BY DEF StoreReceive
<1>5. TypeOK'
  BY <1>3, <1>4 DEF Records, TypeOK, StoreReceive, clientVars, recordVars, storeVars
<1> QED
  BY <1>4, <1>5, SocketStepRecords DEF StoreReceive, StoreGone, storeVars

LEMMA WriteLengthRecords ==
  ASSUME Records, WriteLength
  PROVE  Records'
<1>1. /\ ipc = "answer" /\ cpc \in {"await"} /\ down = <<>> /\ iSent = 0
      /\ outLen \in Lengths /\ outLen \in Nat \ {0} /\ down \in Seq(Seq(Nat))
  BY HandlingFacts, LengthsAssumption
     DEF Records, TypeOK, Downward, Handling, WriteLength, ClientGone
<1>2. down' = Append(<<>>, <<outLen>>)
  BY <1>1 DEF WriteLength
<1>3. down' \in Seq(Seq(Nat)) /\ down' # <<>> /\ Head(down') = <<outLen>> /\ Tail(down') = <<>>
  BY <1>1, <1>2, SingleRecord
<1>4. Chain(<<>>, 0, 0, outLen)
  BY <1>1, ChainEmpty
<1>5. TypeOK'
  BY <1>1, <1>3 DEF Records, TypeOK, WriteLength, clientVars, socketVars, storeVars
<1>6. Upward' /\ Phases'
  BY <1>1 DEF Records, Upward, Phases, Handling, WriteLength, clientVars
<1>7. Downward'
  BY <1>1, <1>3, <1>4 DEF Records, Downward, Replying, WriteLength, clientVars
<1> QED
  BY <1>5, <1>6, <1>7 DEF Records

LEMMA WritePieceRecords ==
  ASSUME Records, WritePiece
  PROVE  Records'
<1> DEFINE n == AtMost(outLen - iSent, Piece)
<1>1. /\ ipc = "write" /\ cpc \in {"await", "receive"} /\ up = <<>> /\ down \in Seq(Seq(Nat))
      /\ outLen \in Lengths /\ outLen \in Nat \ {0} /\ iSent \in 0 .. outLen /\ iSent < outLen
  BY LengthsAssumption
     DEF Records, TypeOK, Upward, Downward, Phases, Handling, WritePiece, ClientGone
<1>2. n = NextPiece(iSent, outLen) /\ n \in Nat \ {0} /\ iSent + n \in 0 .. outLen
  BY <1>1, NextPieceFacts DEF NextPiece
<1>4. /\ down' = Append(down, Bytes(iSent, n)) /\ iSent' = iSent + n
      /\ ipc' = IF iSent + n = outLen THEN "header" ELSE "write"
      /\ UNCHANGED <<iLen, iBuf, outLen, iGot, clientVars, up, socketVars, storeVars>>
  BY DEF WritePiece
<1> HIDE DEF n
<1>5. /\ down' \in Seq(Seq(Nat)) /\ down' # <<>>
      /\ down # <<>> => Head(down') = Head(down) /\ Tail(down') = Append(Tail(down), Bytes(iSent, n))
  <2>1. iSent \in Nat /\ n \in Nat
    BY <1>1, <1>2
  <2>2. down \in Seq(Seq(Nat)) /\ down' = Append(down, Bytes(iSent, n))
    BY <1>1, <1>4
  <2>3. /\ Append(down, Bytes(iSent, n)) \in Seq(Seq(Nat))
        /\ Append(down, Bytes(iSent, n)) # <<>>
        /\ down # <<>> =>
             /\ Head(Append(down, Bytes(iSent, n))) = Head(down)
             /\ Tail(Append(down, Bytes(iSent, n))) = Append(Tail(down), Bytes(iSent, n))
    BY <2>1, <2>2, RecordAdded
  <2> QED BY <2>2, <2>3
<1>6. TypeOK'
  BY <1>1, <1>2, <1>4, <1>5 DEF Records, TypeOK, clientVars, recordVars, socketVars, storeVars
<1>7. Upward' /\ Phases'
  BY <1>1, <1>4 DEF Records, Upward, Phases, Handling, clientVars
<1>8. Downward'
  <2>1. CASE cpc = "await"
    <3>1. /\ down # <<>> /\ Head(down) = <<outLen>> /\ Tail(down) \in Seq(Seq(Nat))
          /\ Chain(Tail(down), 0, iSent, outLen)
      BY <2>1, <1>1, HeadTailProperties DEF Records, Downward, Replying
    <3>2. Chain(Tail(down'), 0, iSent + n, outLen)
      <4>1. Chain(Append(Tail(down), Bytes(iSent, n)), 0, iSent + n, outLen)
        BY <3>1, <1>1, <1>2, ChainAppend
      <4>2. Tail(down') = Append(Tail(down), Bytes(iSent, n))
        BY <3>1, <1>5
      <4> QED BY <4>1, <4>2
    <3>3. down' # <<>> /\ Head(down') = <<outLen>>
      BY <3>1, <1>5
    <3>4. /\ cpc' = "await" /\ outLen' = outLen /\ iSent' = iSent + n
          /\ ipc' = "header" => iSent + n = outLen
          /\ ipc' = "write" => iSent + n < outLen
          /\ ipc' \in {"header", "write"}
      BY <2>1, <1>1, <1>2, <1>4 DEF clientVars
    <3>5. Replying'
      BY <3>4, <1>1, <1>4 DEF Replying
    <3>6. Chain(Tail(down'), 0, iSent', outLen')
      BY <3>2, <3>4
    <3>7. /\ Head(down') = <<outLen'>> /\ outLen' \in Lengths
          /\ ipc' = "header" => iSent' = outLen'
          /\ ipc' = "write" => iSent' < outLen'
      BY <3>3, <3>4, <1>1
    <3> QED BY <3>3, <3>4, <3>5, <3>6, <3>7 DEF Downward
  <2>2. CASE cpc = "receive"
    <3>1. /\ cLen = outLen /\ Len(cBuf) < outLen /\ Whole(cBuf, Len(cBuf))
          /\ Chain(down, Len(cBuf), iSent, outLen)
      BY <2>2, <1>1 DEF Records, Downward
    <3>2. Chain(down', Len(cBuf), iSent + n, outLen)
      BY <3>1, <1>1, <1>2, <1>4, ChainAppend
    <3> QED BY <2>2, <3>1, <3>2, <1>1, <1>2, <1>4, <1>5 DEF Downward, Replying, Whole, clientVars
  <2> QED BY <1>1, <2>1, <2>2
<1> QED
  BY <1>6, <1>7, <1>8 DEF Records

LEMMA WriteFailsRecords ==
  ASSUME Records, WriteFails
  PROVE  Records'
<1>1. /\ ipc \in {"answer", "write"} /\ cpc = "broken"
      /\ outLen \in Lengths /\ outLen \in Nat \ {0} /\ iSent \in 0 .. outLen
      /\ ipc = "answer" => iSent = 0
      /\ ipc = "write" => iSent < outLen
      /\ up = <<>> /\ iLen = reqLen /\ Whole(iBuf, reqLen)
  BY LengthsAssumption
     DEF Records, TypeOK, Upward, Downward, Phases, Handling, WriteFails, ClientGone
<1>2. \/ ipc' = "exit" /\ iSent' = iSent
      \/ ipc = "answer" /\ ipc' = "write" /\ iSent' = iSent
      \/ /\ ipc = "write" /\ iSent' = iSent + NextPiece(iSent, outLen)
         /\ ipc' = IF iSent' = outLen THEN "header" ELSE "write"
  BY DEF WriteFails, NextPiece
<1>3. iSent < outLen => iSent + NextPiece(iSent, outLen) \in 0 .. outLen
  BY <1>1, NextPieceFacts
<1>4. iSent' \in 0 .. outLen /\ ipc' \in {"exit", "write", "header"}
  BY <1>1, <1>2, <1>3
<1>5. TypeOK'
  BY <1>4 DEF Records, TypeOK, WriteFails, clientVars, recordVars, socketVars, storeVars
<1>6. Upward' /\ Phases'
  BY <1>1, <1>4 DEF Records, Upward, Phases, Handling, WriteFails, clientVars, recordVars
<1>7. Downward'
  BY <1>1, <1>2, <1>3, <1>4 DEF Records, Downward, Replying, WriteFails, clientVars, recordVars
<1> QED
  BY <1>5, <1>6, <1>7 DEF Records

\* What the storage service does.
LEMMA StoreStepRecords ==
  ASSUME Records, TypeOK', StoreGone => StoreGone',
         UNCHANGED <<clientVars, recordVars, ieeVars>>
  PROVE  Records'
BY DEF Records, Upward, Downward, Phases, Replying, Requested, Handling, ClientGone, Whole,
       clientVars, recordVars, ieeVars

LEMMA StoreReadsRecords ==
  ASSUME Records, NEW n \in 1 .. Capacity, StoreReads(n)
  PROVE  Records'
<1>1. n \in Nat /\ toStore \in Seq(Nat) /\ sBuf \in Seq(Nat) /\ n <= Len(toStore)
  BY BoundsAssumption DEF Records, TypeOK, StoreReads
<1>2. First(toStore, n) \in Seq(Nat) /\ Rest(toStore, n) \in Seq(Nat)
  BY <1>1, FirstFacts, RestFacts
<1>3. sBuf' \in Seq(Nat) /\ toStore' \in Seq(Nat)
  BY <1>1, <1>2, ConcatProperties DEF StoreReads
<1>4. spc' \in {"handle", "read"}
  BY DEF StoreReads
<1>5. TypeOK'
  BY <1>3, <1>4 DEF Records, TypeOK, StoreReads, clientVars, recordVars, ieeVars
<1> QED
  BY <1>5, StoreStepRecords DEF StoreReads, StoreGone

LEMMA StoreHandlesRecords ==
  ASSUME Records, StoreHandles, due # <<>>
  PROVE  Records'
<1>1. due' \in Seq(StoreLengths \X BOOLEAN)
  <2> DEFINE S == StoreLengths \X BOOLEAN
  <2>1. due \in Seq(S) /\ due' = Tail(due)
    BY DEF Records, TypeOK, StoreHandles
  <2> HIDE DEF S
  <2>2. due' \in Seq(S)
    BY <2>1, HeadTailProperties
  <2> QED BY <2>2 DEF S
<1>2. backLen' \in {0} \cup StoreLengths /\ backLen' \in Nat /\ sSent' = 0
      /\ spc' \in {"read", "write"}
  <2>1. backLen \in {0} \cup StoreLengths
    BY DEF Records, TypeOK
  <2>2. backLen' \in {0} \cup StoreLengths /\ sSent' = 0 /\ spc' \in {"read", "write"}
    BY <2>1 DEF StoreHandles
  <2> QED BY <2>2, LengthsAssumption
<1>3. TypeOK'
  BY <1>1, <1>2, EmptySeq DEF Records, TypeOK, StoreHandles, clientVars, recordVars, ieeVars
<1> QED
  BY <1>3, StoreStepRecords DEF StoreHandles, StoreGone

LEMMA StoreWritesRecords ==
  ASSUME Records, NEW n \in 1 .. Capacity, StoreWrites(n)
  PROVE  Records'
<1>1. n \in Nat /\ backLen \in Nat /\ sSent \in 0 .. backLen /\ sSent + n \in 0 .. backLen
  BY LengthsAssumption, BoundsAssumption DEF Records, TypeOK, StoreWrites
<1>2. fromStore' \in Seq(Nat)
  <2>1. fromStore \in Seq(Nat) /\ sSent \in Nat
    BY <1>1 DEF Records, TypeOK
  <2> QED BY <2>1, <1>1, BytesAdded DEF StoreWrites
<1>3. spc' \in {"write", "read"}
  BY DEF StoreWrites
<1>4. TypeOK'
  BY <1>1, <1>2, <1>3 DEF Records, TypeOK, StoreWrites, clientVars, recordVars, ieeVars
<1> QED
  BY <1>4, StoreStepRecords DEF StoreWrites, StoreGone

LEMMA StoreDiesRecords ==
  ASSUME Records, StoreDies
  PROVE  Records'
<1>1. TypeOK'
  BY EmptySeq DEF Records, TypeOK, StoreDies, clientVars, recordVars, ieeVars
<1> QED
  BY <1>1, StoreStepRecords DEF StoreDies, StoreGone

LEMMA StutterRecords ==
  ASSUME Records, UNCHANGED vars
  PROVE  Records'
<1>1. TypeOK'
  BY DEF Records, TypeOK, vars, clientVars, recordVars, ieeVars, socketVars, storeVars
<1> QED
  BY <1>1, StoreStepRecords DEF vars, StoreGone, storeVars

-----------------------------------------------------------------------------
(* The bytes on the way to the storage service.                             *)

Messages == Seq(StoreLengths \X BOOLEAN)

LEMMA MessageLength ==
  ASSUME NEW msgs \in Messages, NEW j \in 1 .. Len(msgs)
  PROVE  msgs[j][1] \in Nat \ {0} /\ msgs[j][2] \in BOOLEAN
<1>1. msgs[j] \in StoreLengths \X BOOLEAN
  BY ElementOfSeq DEF Messages
<1> QED
  BY <1>1, LengthsAssumption

LEMMA StreamEmpty ==
  ASSUME NEW last
  PROVE  Stream(<<>>, <<>>, 0, last)
<1> DEFINE start == [j \in 1 .. 1 |-> 0]
<1>1. Len(<<>>) = 0 /\ 1 .. 0 = {} /\ 0 - 0 = 0
  BY EmptySeq
<1>2. start \in [1 .. Len(<<>>) + 1 -> Int] /\ \A j \in 1 .. Len(<<>>) + 1 : start[j] = 0
  BY <1>1
<1>3. start[1] = 0
  BY <1>1
<1> HIDE DEF start
<1> QED
  BY <1>1, <1>2, <1>3 DEF Stream

LEMMA Shift ==
  ASSUME NEW a \in Int, NEW b \in Int, NEW n \in Nat, NEW k \in Int,
         a - n < k, k <= b - n
  PROVE  a < k + n /\ k + n <= b
OBVIOUS

\* The storage service takes what belongs to the first message.
LEMMA StreamTake ==
  ASSUME NEW bytes \in Seq(Nat), NEW msgs \in Messages, msgs # <<>>,
         NEW read \in Nat, NEW last \in Nat,
         Stream(bytes, msgs, read, last),
         NEW n \in Nat, n <= Len(bytes), n <= Head(msgs)[1] - read
  PROVE  /\ First(bytes, n) = Bytes(read, n)
         /\ Stream(Rest(bytes, n), msgs, read + n, last)
<1> DEFINE F == First(bytes, n)
           R == Rest(bytes, n)
           L == Len(msgs)
<1>1. /\ L \in Nat \ {0} /\ Len(bytes) \in Nat /\ 1 \in 1 .. L /\ Head(msgs) = msgs[1]
      /\ msgs[1][1] \in Nat
  <2>1. L \in Nat \ {0} /\ Len(bytes) \in Nat /\ Head(msgs) = msgs[1]
    BY EmptySeq, LenProperties DEF Messages
  <2> QED BY <2>1, MessageLength
<1>2. F \in Seq(Nat) /\ Len(F) = n /\ \A k \in 1 .. n : F[k] = bytes[k]
  <2>1. AtMost(Len(bytes), n) = n
    BY <1>1 DEF AtMost
  <2>2. /\ F \in Seq(Nat) /\ Len(F) = AtMost(Len(bytes), n)
        /\ \A k \in 1 .. AtMost(Len(bytes), n) : F[k] = bytes[k]
    BY FirstFacts
  <2> QED BY <2>1, <2>2
<1>3. /\ R \in Seq(Nat) /\ Len(R) = Len(bytes) - n
      /\ \A k \in 1 .. Len(bytes) - n : R[k] = bytes[n + k]
  BY RestFacts
<1> HIDE DEF F, R
<1>4. PICK start \in [1 .. L + 1 -> Int] :
        /\ start[1] = 0 - read
        /\ \A j \in 1 .. L : start[j + 1] = start[j] + msgs[j][1]
        /\ \A i, j \in 1 .. L + 1 : i <= j => start[i] <= start[j]
        /\ Len(bytes) = IF msgs = <<>> THEN 0 ELSE start[L] + last
        /\ \A j \in 1 .. L, k \in 1 .. Len(bytes) :
             start[j] < k /\ k <= start[j + 1] => bytes[k] = k - start[j]
  BY DEF Stream
<1> HIDE DEF L
<1>5. \A k \in 1 .. n : F[k] = read + k
  <2> SUFFICES ASSUME NEW k \in 1 .. n PROVE F[k] = read + k
    OBVIOUS
  <2>1. start[1 + 1] = start[1] + msgs[1][1]
    BY <1>1, <1>4
  <2>2. k \in 1 .. Len(bytes) /\ start[1] < k /\ k <= start[1 + 1]
    <3>1. msgs[1][1] \in Nat /\ n <= msgs[1][1] - read
      BY <1>1
    <3>2. start[1] = 0 - read
      BY <1>4
    <3>3. start[1 + 1] = (0 - read) + msgs[1][1]
      BY <2>1, <3>2
    <3> DEFINE h == msgs[1][1]
    <3>4. 0 - read < k /\ k <= (0 - read) + h /\ k \in 1 .. Len(bytes)
      <4>1. h \in Nat /\ n <= h - read /\ Len(bytes) \in Nat
        BY <3>1, <1>1
      <4> HIDE DEF h
      <4> QED BY <4>1
    <3>5. start[1] < k
      BY <3>2, <3>4
    <3>6. k <= start[1 + 1]
      BY <3>3, <3>4
    <3> QED BY <3>4, <3>5, <3>6
  <2>3. bytes[k] = k - start[1]
    <3>1. \A q \in 1 .. Len(bytes) : start[1] < q /\ q <= start[1 + 1] => bytes[q] = q - start[1]
      BY <1>1, <1>4
    <3> QED BY <3>1, <2>2
  <2>4. F[k] = bytes[k]
    BY <1>2
  <2>5. start[1] = 0 - read /\ k - (0 - read) = read + k
    BY <1>4
  <2> QED BY <2>3, <2>4, <2>5
<1>6. F = Bytes(read, n)
  BY <1>2, <1>5, IsBytes
<1> DEFINE st == [j \in 1 .. L + 1 |-> start[j] - n]
<1>7. st \in [1 .. L + 1 -> Int] /\ \A j \in 1 .. L + 1 : st[j] = start[j] - n
  BY <1>1
<1> HIDE DEF st
<1>8. st[1] = 0 - (read + n) /\ Len(R) = st[L] + last
  <2>1. 1 \in 1 .. L + 1 /\ L \in 1 .. L + 1
    BY <1>1
  <2>2. st[1] = start[1] - n /\ st[L] = start[L] - n /\ start[L] \in Int
    BY <2>1, <1>7
  <2> QED BY <2>2, <1>1, <1>3, <1>4
<1>9. ASSUME NEW j \in 1 .. L
      PROVE  /\ st[j + 1] = st[j] + msgs[j][1]
             /\ \A k \in 1 .. Len(R) : st[j] < k /\ k <= st[j + 1] => R[k] = k - st[j]
  <2>1. j \in 1 .. L + 1 /\ j + 1 \in 1 .. L + 1
    BY <1>1
  <2>2. st[j] = start[j] - n /\ st[j + 1] = start[j + 1] - n /\ start[j] \in Int /\ start[j + 1] \in Int
    BY <2>1, <1>7
  <2>3. start[j + 1] = start[j] + msgs[j][1] /\ msgs[j][1] \in Nat
    BY <1>4, MessageLength DEF L
  <2>4. ASSUME NEW k \in 1 .. Len(R), st[j] < k, k <= st[j + 1]
        PROVE  R[k] = k - st[j]
    <3>1. k + n \in 1 .. Len(bytes) /\ start[j] < k + n /\ k + n <= start[j + 1]
      <4>1. start[j] - n < k /\ k <= start[j + 1] - n
        BY <2>2, <2>4
      <4>2. k \in 1 .. Len(bytes) - n
        BY <1>3
      <4>3. k + n \in 1 .. Len(bytes)
        BY <4>2, <1>1
      <4>4. start[j] < k + n /\ k + n <= start[j + 1]
        <5> DEFINE a == start[j]
                   b == start[j + 1]
        <5>1. k \in Int /\ a \in Int /\ b \in Int /\ a - n < k /\ k <= b - n
          BY <4>1, <4>2, <2>2, <1>1
        <5> HIDE DEF a, b
        <5>2. a < k + n /\ k + n <= b
          BY <5>1, Shift
        <5> QED BY <5>2 DEF a, b
      <4> QED BY <4>3, <4>4
    <3>2. bytes[k + n] = k + n - start[j]
      <4>1. \A q \in 1 .. Len(bytes) : start[j] < q /\ q <= start[j + 1] => bytes[q] = q - start[j]
        BY <1>4
      <4> DEFINE q == k + n
      <4>2. q \in 1 .. Len(bytes) /\ start[j] < q /\ q <= start[j + 1]
        BY <3>1
      <4> HIDE DEF q
      <4>3. bytes[q] = q - start[j]
        BY <4>1, <4>2
      <4>4. k \in Int /\ start[j] \in Int
        BY <1>1, <1>3, <2>2
      <4> QED BY <4>3, <4>4 DEF q
    <3>3. R[k] = bytes[n + k] /\ n + k = k + n
      <4>1. k \in 1 .. Len(bytes) - n
        BY <1>3
      <4>2. R[k] = bytes[n + k]
        BY <4>1, <1>3
      <4> QED BY <4>1, <4>2, <1>1
    <3> QED BY <3>2, <3>3, <2>2
  <2> QED BY <2>2, <2>3, <2>4
<1>10. \A i, j \in 1 .. L + 1 : i <= j => st[i] <= st[j]
  BY <1>4, <1>7
<1>11. Stream(R, msgs, read + n, last)
  BY <1>7, <1>8, <1>9, <1>10 DEF Stream, L
<1> QED
  BY <1>6, <1>11 DEF F, R

\* The IEE sends more of the last message.
LEMMA StreamSend ==
  ASSUME NEW bytes \in Seq(Nat), NEW msgs \in Messages, msgs # <<>>,
         NEW read \in Nat, NEW last \in Nat,
         Stream(bytes, msgs, read, last), NEW n \in Nat
  PROVE  Stream(bytes \o Bytes(last, n), msgs, read, last + n)
<1> DEFINE B == Bytes(last, n)
           C == bytes \o B
           L == Len(msgs)
<1>1. L \in Nat \ {0} /\ Len(bytes) \in Nat
  BY EmptySeq, LenProperties DEF Messages
<1>2. B \in Seq(Nat) /\ Len(B) = n /\ \A k \in 1 .. n : B[k] = last + k
  BY BytesFacts
<1> HIDE DEF B
<1>3. /\ Len(C) = Len(bytes) + n
      /\ \A k \in 1 .. Len(bytes) + n : C[k] = IF k <= Len(bytes) THEN bytes[k] ELSE B[k - Len(bytes)]
  BY <1>2, ConcatProperties
<1> HIDE DEF C
<1>4. PICK start \in [1 .. L + 1 -> Int] :
        /\ start[1] = 0 - read
        /\ \A j \in 1 .. L : start[j + 1] = start[j] + msgs[j][1]
        /\ \A i, j \in 1 .. L + 1 : i <= j => start[i] <= start[j]
        /\ Len(bytes) = IF msgs = <<>> THEN 0 ELSE start[L] + last
        /\ \A j \in 1 .. L, k \in 1 .. Len(bytes) :
             start[j] < k /\ k <= start[j + 1] => bytes[k] = k - start[j]
  BY DEF Stream
<1> HIDE DEF L
<1>5. L \in 1 .. L + 1 /\ start[L] \in Int /\ Len(bytes) = start[L] + last
  BY <1>1, <1>4
<1>6. Len(C) = start[L] + (last + n)
  BY <1>3, <1>5
<1>7. ASSUME NEW j \in 1 .. L, NEW k \in 1 .. Len(C), start[j] < k, k <= start[j + 1]
      PROVE  C[k] = k - start[j]
  <2>1. j \in 1 .. L + 1 /\ j + 1 \in 1 .. L + 1 /\ start[j] \in Int /\ start[j + 1] \in Int
    BY <1>1
  <2>2. CASE k <= Len(bytes)
    <3>1. k \in 1 .. Len(bytes) /\ k \in 1 .. Len(bytes) + n
      BY <2>2, <1>1
    <3>2. C[k] = bytes[k]
      BY <2>2, <3>1, <1>3
    <3> QED BY <3>1, <3>2, <1>4, <1>7
  <2>3. CASE ~(k <= Len(bytes))
    <3>1. k - Len(bytes) \in 1 .. n /\ k \in 1 .. Len(bytes) + n
      BY <2>3, <1>1, <1>3
    <3>2. C[k] = last + (k - Len(bytes))
      BY <2>3, <3>1, <1>2, <1>3
    <3>3. j = L
      <4>1. SUFFICES ASSUME j # L PROVE FALSE
        OBVIOUS
      <4>2. j + 1 <= L
        BY <4>1, <1>1
      <4>3. start[j + 1] <= start[L]
        <5>1. \A i, k1 \in 1 .. L + 1 : i <= k1 => start[i] <= start[k1]
          BY <1>4
        <5> QED BY <5>1, <4>2, <2>1, <1>5
      <4> QED BY <4>3, <2>1, <2>3, <1>5, <1>7
    <3> QED BY <3>2, <3>3, <1>5, <1>1
  <2> QED BY <2>2, <2>3, <1>1
<1>8. Stream(C, msgs, read, last + n)
  BY <1>4, <1>6, <1>7 DEF Stream, L
<1> QED
  BY <1>8 DEF B, C

\* The IEE begins another message.
LEMMA StreamAppend ==
  ASSUME NEW bytes \in Seq(Nat), NEW msgs \in Messages,
         NEW m \in StoreLengths \X BOOLEAN,
         NEW read \in Nat, NEW last,
         Stream(bytes, msgs, read, last),
         msgs = <<>> => read = 0,
         msgs # <<>> => last = msgs[Len(msgs)][1]
  PROVE  Stream(bytes, Append(msgs, m), read, 0)
<1> DEFINE t == Append(msgs, m)
           L == Len(msgs)
<1>1. L \in Nat /\ Len(bytes) \in Nat /\ (msgs = <<>> <=> L = 0) /\ m[1] \in Nat
  BY EmptySeq, LenProperties, LengthsAssumption DEF Messages
<1>2. t # <<>> /\ Len(t) = L + 1 /\ (\A j \in 1 .. L : t[j] = msgs[j]) /\ t[L + 1] = m
  <2> DEFINE S == StoreLengths \X BOOLEAN
  <2>1. msgs \in Seq(S) /\ m \in S
    BY DEF Messages
  <2> HIDE DEF S
  <2>2. /\ t # <<>> /\ Len(t) = Len(msgs) + 1
        /\ \A i \in 1 .. Len(msgs) : t[i] = msgs[i]
        /\ t[Len(msgs) + 1] = m
    BY <2>1, AppendProperties
  <2> QED BY <2>2
<1> HIDE DEF t
<1>3. PICK start \in [1 .. L + 1 -> Int] :
        /\ start[1] = 0 - read
        /\ \A j \in 1 .. L : start[j + 1] = start[j] + msgs[j][1]
        /\ \A i, j \in 1 .. L + 1 : i <= j => start[i] <= start[j]
        /\ Len(bytes) = IF msgs = <<>> THEN 0 ELSE start[L] + last
        /\ \A j \in 1 .. L, k \in 1 .. Len(bytes) :
             start[j] < k /\ k <= start[j + 1] => bytes[k] = k - start[j]
  BY DEF Stream
<1>4. Len(bytes) = start[L + 1] /\ start[L + 1] \in Int
  <2>1. CASE L = 0
    <3>1. Len(bytes) = 0 /\ start[1] = 0 - 0 /\ L + 1 = 1
      <4>1. msgs = <<>> /\ read = 0
        BY <2>1, <1>1
      <4> QED BY <4>1, <2>1, <1>3
    <3> QED BY <3>1
  <2>2. CASE L # 0
    <3>1. L \in 1 .. L /\ L \in 1 .. L + 1
      BY <2>2, <1>1
    <3>2. start[L + 1] = start[L] + msgs[L][1]
      BY <3>1, <1>3
    <3> QED BY <2>2, <3>1, <3>2, <1>1, <1>3
  <2> QED BY <2>1, <2>2
<1> HIDE DEF L
<1> DEFINE st == [j \in 1 .. Len(t) + 1 |-> IF j <= L + 1 THEN start[j] ELSE start[L + 1] + m[1]]
<1>5. /\ st \in [1 .. Len(t) + 1 -> Int]
      /\ \A j \in 1 .. L + 1 : st[j] = start[j]
      /\ st[L + 2] = start[L + 1] + m[1]
  BY <1>1, <1>2, <1>4
<1> HIDE DEF st
<1>6. /\ st[1] = 0 - read /\ Len(bytes) = st[Len(t)] + 0
      /\ 1 \in 1 .. L + 1 /\ L + 1 \in 1 .. L + 1
  <2>1. 1 \in 1 .. L + 1 /\ L + 1 \in 1 .. L + 1 /\ Len(t) = L + 1
    BY <1>1, <1>2
  <2>2. st[1] = start[1] /\ st[Len(t)] = start[L + 1]
    BY <2>1, <1>5
  <2> QED BY <2>1, <2>2, <1>3, <1>4
<1>7. ASSUME NEW j \in 1 .. Len(t)
      PROVE  /\ st[j + 1] = st[j] + t[j][1]
             /\ \A k \in 1 .. Len(bytes) : st[j] < k /\ k <= st[j + 1] => bytes[k] = k - st[j]
  <2>1. CASE j = L + 1
    <3>1. st[j] = start[L + 1] /\ st[j + 1] = start[L + 1] + m[1] /\ t[j] = m
      BY <2>1, <1>1, <1>2, <1>5
    <3>2. \A k \in 1 .. Len(bytes) : ~(st[j] < k)
      BY <3>1, <1>1, <1>4
    <3> QED BY <3>1, <3>2
  <2>2. CASE j # L + 1
    <3>1. j \in 1 .. L /\ j \in 1 .. L + 1 /\ j + 1 \in 1 .. L + 1
      BY <2>2, <1>1, <1>2
    <3>2. st[j] = start[j] /\ st[j + 1] = start[j + 1] /\ t[j] = msgs[j]
      BY <3>1, <1>2, <1>5
    <3> QED BY <3>1, <3>2, <1>3
  <2> QED BY <2>1, <2>2
<1>8. ASSUME NEW i \in 1 .. Len(t) + 1, NEW j \in 1 .. Len(t) + 1, i <= j
      PROVE  st[i] <= st[j]
  <2>1. CASE j <= L + 1
    <3>1. i \in 1 .. L + 1 /\ j \in 1 .. L + 1
      BY <2>1, <1>1, <1>2, <1>8
    <3> QED BY <3>1, <1>3, <1>5, <1>8
  <2>2. CASE ~(j <= L + 1) /\ i <= L + 1
    <3>1. i \in 1 .. L + 1 /\ j = L + 2
      BY <2>2, <1>1, <1>2
    <3>2. st[i] = start[i] /\ start[i] \in Int /\ st[j] = start[L + 1] + m[1]
      BY <3>1, <1>5
    <3>3. start[i] <= start[L + 1]
      BY <3>1, <1>3, <1>6
    <3> QED BY <3>2, <3>3, <1>1, <1>4
  <2>3. CASE ~(i <= L + 1)
    <3>1. i = j /\ st[i] \in Int
      BY <2>3, <1>1, <1>2, <1>5, <1>8
    <3> QED BY <3>1
  <2> QED BY <2>1, <2>2, <2>3
<1>9. Stream(bytes, t, read, 0)
  BY <1>2, <1>5, <1>6, <1>7, <1>8 DEF Stream
<1> QED
  BY <1>9 DEF t

\* The storage service has read the first message to its end.
LEMMA StreamPop ==
  ASSUME NEW bytes \in Seq(Nat), NEW msgs \in Messages, msgs # <<>>,
         NEW last \in Nat,
         Stream(bytes, msgs, Head(msgs)[1], last),
         Len(msgs) = 1 => last <= Head(msgs)[1]
  PROVE  Stream(bytes, Tail(msgs), 0, last)
<1> DEFINE t == Tail(msgs)
           L == Len(msgs)
<1>1. /\ L \in Nat \ {0} /\ Len(bytes) \in Nat /\ 1 \in 1 .. L /\ Head(msgs) = msgs[1]
      /\ Len(t) = L - 1 /\ (t = <<>> <=> L = 1) /\ t \in Messages
      /\ \A j \in 1 .. Len(t) : t[j] = msgs[j + 1]
  <2> DEFINE S == StoreLengths \X BOOLEAN
  <2>1. msgs \in Seq(S)
    BY DEF Messages
  <2> HIDE DEF S
  <2>2. /\ L \in Nat \ {0} /\ Len(bytes) \in Nat /\ Head(msgs) = msgs[1]
    BY <2>1, EmptySeq, LenProperties
  <2>3. /\ t \in Seq(S) /\ Len(t) = L - 1
        /\ \A j \in 1 .. Len(t) : t[j] = msgs[j + 1]
    BY <2>1, HeadTailProperties
  <2>4. t = <<>> <=> L = 1
    <3>1. t = <<>> => Len(t) = 0
      BY <2>1, EmptySeq
    <3>2. t # <<>> => Len(t) # 0
      BY <2>3, EmptySeq
    <3> QED BY <3>1, <3>2, <2>2, <2>3
  <2> QED BY <2>2, <2>3, <2>4 DEF S, Messages
<1>2. msgs[1][1] \in Nat
  BY <1>1, MessageLength
<1> HIDE DEF t
<1>3. PICK start \in [1 .. L + 1 -> Int] :
        /\ start[1] = 0 - msgs[1][1]
        /\ \A j \in 1 .. L : start[j + 1] = start[j] + msgs[j][1]
        /\ \A i, j \in 1 .. L + 1 : i <= j => start[i] <= start[j]
        /\ Len(bytes) = IF msgs = <<>> THEN 0 ELSE start[L] + last
        /\ \A j \in 1 .. L, k \in 1 .. Len(bytes) :
             start[j] < k /\ k <= start[j + 1] => bytes[k] = k - start[j]
  BY <1>1 DEF Stream
<1> HIDE DEF L
<1> DEFINE st == [j \in 1 .. Len(t) + 1 |-> start[j + 1]]
<1>4. st \in [1 .. Len(t) + 1 -> Int] /\ \A j \in 1 .. Len(t) + 1 : st[j] = start[j + 1]
  BY <1>1
<1> HIDE DEF st
<1>5. st[1] = 0 - 0
  <2>1. st[1] = start[1 + 1] /\ start[1 + 1] = start[1] + msgs[1][1]
    BY <1>1, <1>3, <1>4
  <2> QED BY <2>1, <1>2, <1>3
<1>6. Len(bytes) = IF t = <<>> THEN 0 ELSE st[Len(t)] + last
  <2>1. Len(bytes) = start[L] + last
    BY <1>3
  <2>2. CASE L = 1
    BY <2>1, <2>2, <1>1, <1>2, <1>3 DEF L
  <2>3. CASE L # 1
    <3>1. st[Len(t)] = start[Len(t) + 1] /\ Len(t) + 1 = L
      BY <2>3, <1>1, <1>4
    <3> QED BY <2>1, <2>3, <3>1, <1>1
  <2> QED BY <2>2, <2>3
<1>7. ASSUME NEW j \in 1 .. Len(t)
      PROVE  /\ st[j + 1] = st[j] + t[j][1]
             /\ \A k \in 1 .. Len(bytes) : st[j] < k /\ k <= st[j + 1] => bytes[k] = k - st[j]
  <2>1. j \in 1 .. Len(t) + 1 /\ j + 1 \in 1 .. Len(t) + 1 /\ j + 1 \in 1 .. L
    BY <1>1
  <2>2. st[j] = start[j + 1] /\ st[j + 1] = start[j + 1 + 1] /\ t[j] = msgs[j + 1]
    BY <2>1, <1>1, <1>4
  <2>3. start[j + 1 + 1] = start[j + 1] + msgs[j + 1][1]
    BY <2>1, <1>3
  <2> QED BY <2>1, <2>2, <2>3, <1>3
<1>8. ASSUME NEW i \in 1 .. Len(t) + 1, NEW j \in 1 .. Len(t) + 1, i <= j
      PROVE  st[i] <= st[j]
  <2>1. i + 1 \in 1 .. L + 1 /\ j + 1 \in 1 .. L + 1 /\ i + 1 <= j + 1
    BY <1>1, <1>8
  <2> QED BY <2>1, <1>3, <1>4
<1>9. Stream(bytes, t, 0, last)
  BY <1>4, <1>5, <1>6, <1>7, <1>8 DEF Stream
<1> QED
  BY <1>9 DEF t

\* When only one message is left, what was read of it was sent before.
LEMMA StreamSingle ==
  ASSUME NEW bytes \in Seq(Nat), NEW msgs, Len(msgs) = 1,
         NEW read \in Nat, NEW last \in Nat, msgs # <<>>,
         Stream(bytes, msgs, read, last)
  PROVE  read <= last
<1>1. PICK start \in [1 .. Len(msgs) + 1 -> Int] :
           start[1] = 0 - read /\ Len(bytes) = start[1] + last
  BY DEF Stream
<1>2. Len(bytes) \in Nat
  BY LenProperties
<1> QED
  BY <1>1, <1>2

\* Without a message there is nothing that InFlight could say.
LEMMA StreamNone ==
  ASSUME NEW bytes \in Seq(Nat), NEW read, NEW last, Stream(bytes, <<>>, read, last)
  PROVE  bytes = <<>>
<1>1. Len(bytes) = 0
  BY DEF Stream
<1> QED
  BY <1>1, EmptySeq

LEMMA SocketTypes ==
  ASSUME Records
  PROVE  /\ due \in Messages /\ toStore \in Seq(Nat) /\ fromStore \in Seq(Nat)
         /\ sBuf \in Seq(Nat) /\ Len(sBuf) \in Nat /\ iGot \in Seq(Nat)
         /\ Len(iGot) \in Nat /\ Len(fromStore) \in Nat /\ Len(toStore) \in Nat
         /\ outLen \in Nat /\ iSent \in 0 .. outLen
         /\ backLen \in Nat /\ sSent \in 0 .. backLen
         /\ Len(due) \in Nat /\ (due = <<>> <=> Len(due) = 0)
         /\ due # <<>> => /\ Head(due) = due[1]
                          /\ Head(due)[1] \in Nat \ {0}
                          /\ Head(due)[2] \in BOOLEAN
                          /\ due[Len(due)][1] \in Nat \ {0}
                          /\ due[Len(due)][2] \in BOOLEAN
                          /\ InFlight \in Nat
<1>1. /\ due \in Messages /\ toStore \in Seq(Nat) /\ fromStore \in Seq(Nat)
      /\ sBuf \in Seq(Nat) /\ iGot \in Seq(Nat)
      /\ outLen \in Nat /\ iSent \in 0 .. outLen
      /\ backLen \in Nat /\ sSent \in 0 .. backLen
  BY LengthsAssumption DEF Records, TypeOK, Messages
<1>2. /\ Len(due) \in Nat /\ (due = <<>> <=> Len(due) = 0)
  <2> DEFINE S == StoreLengths \X BOOLEAN
  <2>1. due \in Seq(S)
    BY <1>1 DEF Messages
  <2> HIDE DEF S
  <2> QED BY <2>1, LenProperties, EmptySeq
<1>3. ASSUME due # <<>>
      PROVE  /\ Head(due) = due[1]
             /\ Head(due)[1] \in Nat \ {0}
             /\ Head(due)[2] \in BOOLEAN
             /\ due[Len(due)][1] \in Nat \ {0}
             /\ due[Len(due)][2] \in BOOLEAN
             /\ InFlight \in Nat
  <2>1. 1 \in 1 .. Len(due) /\ Len(due) \in 1 .. Len(due)
    BY <1>2, <1>3
  <2>2. Head(due) = due[1]
    BY <1>1 DEF Messages
  <2>3. /\ due[1][1] \in Nat \ {0} /\ due[1][2] \in BOOLEAN
        /\ due[Len(due)][1] \in Nat \ {0} /\ due[Len(due)][2] \in BOOLEAN
    BY <2>1, <1>1, MessageLength
  <2>4. InFlight \in Nat
    BY <2>3, <1>1 DEF InFlight
  <2> QED BY <2>2, <2>3, <2>4
<1> QED
  BY <1>1, <1>2, <1>3, LenProperties

-----------------------------------------------------------------------------
(* What is known of the socket is kept.                                     *)

LEMMA InitSockets ==
  Init => Sockets /\ Returned
<1> SUFFICES ASSUME Init PROVE Sockets /\ Returned
  OBVIOUS
<1>1. Len(<<>>) = 0 /\ <<>> = Bytes(0, 0) /\ 1 .. 0 = {}
  BY EmptySeq DEF Bytes
<1>2. Stream(toStore, due, Len(sBuf), InFlight)
  BY <1>1, StreamEmpty DEF Init
<1>3. Sockets
  BY <1>1, <1>2 DEF Init, Sockets, Whole
<1> QED
  BY <1>3 DEF Init, Returned

\* What the client does, and the records, do not touch it.
LEMMA SameSocket ==
  ASSUME Sockets, Returned, UNCHANGED <<ieeVars, socketVars, storeVars>>
  PROVE  Sockets' /\ Returned'
<1>1. InFlight' = InFlight /\ StoreGone' = StoreGone
  BY DEF InFlight, StoreGone, ieeVars, socketVars, storeVars
<1> QED
  BY <1>1 DEF Sockets, Returned, Whole, ieeVars, socketVars, storeVars

\* Nor what the IEE does while it does not use the socket.
LEMMA Elsewhere ==
  ASSUME Sockets, Returned, ipc \notin {"store", "collect", "exit"},
         ipc' \notin {"store", "collect", "ready"},
         UNCHANGED <<socketVars, storeVars>>
  PROVE  Sockets' /\ Returned'
<1>1. InFlight' = InFlight /\ StoreGone' = StoreGone
  BY DEF InFlight, StoreGone, socketVars, storeVars
<1>2. Sockets'
  BY <1>1 DEF Sockets, Whole, socketVars, storeVars
<1> QED
  BY <1>2 DEF Returned, socketVars, storeVars

LEMMA ContactSockets ==
  ASSUME Exchange, Contact
  PROVE  Sockets' /\ Returned'
<1>1. PICK n \in StoreLengths, answered \in BOOLEAN :
           outLen' = n /\ due' = Append(due, <<n, answered>>)
  BY DEF Contact
<1> DEFINE m == <<n, answered>>
<1>2. /\ ipc \in {"process", "ready"} /\ iSent' = 0 /\ iGot' = <<>> /\ ipc' = "store"
      /\ UNCHANGED <<toStore, fromStore, storeVars>>
  BY DEF Contact
<1>3. n \in Nat \ {0} /\ m \in StoreLengths \X BOOLEAN /\ m[1] = n
  BY LengthsAssumption
<1>4. /\ due \in Messages /\ Len(due) \in Nat /\ (due = <<>> <=> Len(due) = 0)
      /\ toStore \in Seq(Nat) /\ sBuf \in Seq(Nat) /\ Len(sBuf) \in Nat
  BY SocketTypes DEF Exchange
<1> HIDE DEF m
<1>5. /\ due' # <<>> /\ Len(due') = Len(due) + 1 /\ due'[Len(due')] = m
      /\ \A j \in 1 .. Len(due) : due'[j] = due[j]
      /\ Head(due') = IF due = <<>> THEN m ELSE Head(due)
  <2> DEFINE S == StoreLengths \X BOOLEAN
  <2>1. due \in Seq(S) /\ m \in S /\ due' = Append(due, m)
    BY <1>1, <1>3, <1>4 DEF Messages, m
  <2> HIDE DEF S
  <2>2. /\ Append(due, m) # <<>> /\ Len(Append(due, m)) = Len(due) + 1
        /\ \A j \in 1 .. Len(due) : Append(due, m)[j] = due[j]
        /\ Append(due, m)[Len(due) + 1] = m
    BY <2>1, AppendProperties
  <2>3. Head(Append(due, m)) = IF due = <<>> THEN m ELSE Head(due)
    BY <2>1, HeadTailAppend
  <2> QED BY <2>1, <2>2, <2>3
<1>6. InFlight' = 0 /\ (due # <<>> => InFlight = due[Len(due)][1])
  BY <1>2 DEF InFlight
<1>7. StoreGone' = StoreGone
  BY <1>2 DEF StoreGone, storeVars
<1>8. ASSUME ~StoreGone
      PROVE  /\ Stream(toStore, due', Len(sBuf), 0)
             /\ \A j \in 1 .. Len(due') : due'[j][2] => j = Len(due')
  <2>1. /\ Stream(toStore, due, Len(sBuf), InFlight)
        /\ \A j \in 1 .. Len(due) : ~due[j][2]
        /\ due = <<>> => sBuf = <<>>
    BY <1>2, <1>8 DEF Exchange, Sockets
  <2>2. due = <<>> => Len(sBuf) = 0
    BY <2>1, EmptySeq
  <2>3. Stream(toStore, Append(due, m), Len(sBuf), 0)
    BY <2>1, <2>2, <1>3, <1>4, <1>6, StreamAppend
  <2>4. ASSUME NEW j \in 1 .. Len(due'), j # Len(due')
        PROVE  ~due'[j][2]
    <3>1. j \in 1 .. Len(due)
      BY <2>4, <1>4, <1>5
    <3> QED BY <3>1, <2>1, <1>5
  <2> QED BY <2>3, <2>4, <1>1 DEF m
<1>9. spc = "read" => Len(sBuf) < Head(due')[1]
  <2>1. CASE due = <<>>
    <3>1. spc = "read" => sBuf = <<>>
      BY <2>1 DEF Exchange, Sockets, StoreGone
    <3> QED BY <3>1, <2>1, <1>3, <1>5, EmptySeq
  <2>2. CASE due # <<>>
    BY <2>2, <1>5 DEF Exchange, Sockets
  <2> QED BY <2>1, <2>2
<1>10. spc = "handle" => Len(sBuf) = Head(due')[1]
  BY <1>5 DEF Exchange, Sockets
<1>11. spc # "write"
  BY <1>2 DEF Exchange, Sockets
<1>12. Sockets'
  <2>1. /\ ipc' = "store" /\ iGot' = <<>> /\ outLen' = n /\ 0 < n
        /\ due'[Len(due')][1] = n /\ due' # <<>> /\ iSent' = 0
    BY <1>1, <1>2, <1>3, <1>5
  <2>2. toStore' = toStore /\ sBuf' = sBuf /\ spc' = spc
    BY <1>2 DEF storeVars
  <2>3. Whole(sBuf, Len(sBuf))
    BY DEF Exchange, Sockets
  <2> QED BY <2>1, <2>2, <2>3, <1>6, <1>7, <1>8, <1>9, <1>10, <1>11 DEF Sockets, Whole
<1>13. Returned'
  BY <1>2 DEF Exchange, Returned
<1> QED
  BY <1>12, <1>13

LEMMA StoreSendSockets ==
  ASSUME Exchange, NEW n \in 1 .. Capacity, StoreSend(n)
  PROVE  Sockets' /\ Returned'
<1>1. /\ ipc = "store" /\ ~StoreGone /\ n \in Nat
      /\ toStore' = toStore \o Bytes(iSent, n) /\ iSent' = iSent + n
      /\ ipc' = IF iSent + n = outLen THEN AfterSend ELSE "store"
      /\ UNCHANGED <<outLen, iGot, due, fromStore, storeVars>>
      /\ iSent + n <= outLen
  <2>1. n \in Nat /\ outLen \in Nat /\ iSent \in Nat
    BY SocketTypes, BoundsAssumption DEF Exchange
  <2>2. n <= outLen - iSent
    BY DEF StoreSend
  <2>3. iSent + n <= outLen
    BY <2>1, <2>2
  <2> QED BY <2>1, <2>3 DEF StoreSend
<1>2. /\ iSent < outLen /\ iGot = <<>> /\ due # <<>> /\ due[Len(due)][1] = outLen
      /\ InFlight = iSent
  BY <1>1 DEF Exchange, Sockets, InFlight
<1>3. /\ due \in Messages /\ toStore \in Seq(Nat) /\ Len(sBuf) \in Nat /\ iSent \in Nat
      /\ outLen \in Nat /\ backLen \in Nat
  BY SocketTypes DEF Exchange
<1>4. Stream(toStore', due, Len(sBuf), iSent + n)
  BY <1>1, <1>2, <1>3, StreamSend DEF Exchange, Sockets
<1>5. /\ ipc' = "store" => iSent' < outLen
      /\ ipc' # "store" => iSent + n = outLen /\ ipc' = AfterSend
      /\ ipc' \in {"store", "collect", "process"}
      /\ ipc' = "collect" => due[Len(due)][2]
      /\ ipc' = "process" => ~due[Len(due)][2]
  BY <1>1, <1>3 DEF AfterSend
<1>6. InFlight' = iSent + n
  BY <1>1, <1>2, <1>5 DEF InFlight
<1>7. StoreGone' = StoreGone /\ spc' = spc /\ spc # "write" /\ sBuf' = sBuf
  BY <1>1 DEF StoreGone, storeVars, Exchange, Sockets
<1>8. \A j \in 1 .. Len(due) : due[j][2] => j = Len(due) /\ ipc' \in {"store", "collect"}
  BY <1>1, <1>5 DEF Exchange, Sockets
<1>9. Sockets'
  BY <1>1, <1>2, <1>4, <1>5, <1>6, <1>7, <1>8 DEF Exchange, Sockets, Whole
<1>10. fromStore = <<>> /\ Len(<<>>) = 0 /\ <<>> = Bytes(0, 0)
  BY <1>1, EmptySeq DEF Exchange, Returned, Bytes
<1>11. Returned'
  BY <1>1, <1>2, <1>3, <1>5, <1>7, <1>10 DEF Returned, Whole, storeVars
<1> QED
  BY <1>9, <1>11

LEMMA StoreFailsSockets ==
  ASSUME Exchange, StoreFails
  PROVE  Sockets' /\ Returned'
<1>1. /\ ipc \in {"store", "collect"} /\ spc = "dead" /\ spc' = "dead"
      /\ UNCHANGED <<iGot, due, fromStore, sBuf, backLen, sSent>>
      /\ ipc' = "exit" \/ (ipc = "store" /\ ipc' \in {"process", "collect"})
  BY DEF StoreFails, AfterSend, StoreGone, socketVars, storeVars
<1>2. Sockets'
  BY <1>1 DEF Exchange, Sockets, StoreGone, Whole
<1>3. ipc = "store" => fromStore = <<>> /\ iGot = <<>>
  BY <1>1 DEF Exchange, Sockets, Returned
<1>4. backLen \in Nat /\ Len(<<>>) = 0 /\ <<>> = Bytes(0, 0)
  BY SocketTypes, EmptySeq DEF Exchange, Bytes
<1>5. Returned'
  BY <1>1, <1>3, <1>4 DEF Returned, Whole
<1> QED
  BY <1>2, <1>5

LEMMA StoreReceiveSockets ==
  ASSUME Exchange, NEW n \in 1 .. Capacity, StoreReceive(n)
  PROVE  Sockets' /\ Returned'
<1> DEFINE a == Len(iGot)
           b == Len(fromStore)
<1>1. /\ ipc = "collect" /\ n \in Nat \ {0} /\ n <= b /\ n <= backLen - a
      /\ iGot' = iGot \o First(fromStore, n) /\ fromStore' = Rest(fromStore, n)
      /\ ipc' = IF a + n = backLen THEN "ready" ELSE "collect"
      /\ UNCHANGED <<iSent, outLen, due, toStore, storeVars>>
  BY BoundsAssumption DEF StoreReceive
<1>2. /\ iGot = Bytes(0, a) /\ fromStore = Bytes(a, b) /\ a + b <= backLen
      /\ spc = "read" \/ spc = "handle" \/ spc = "write" \/ spc = "dead"
      /\ a \in Nat /\ b \in Nat /\ backLen \in Nat /\ sSent \in Nat
  BY <1>1, SocketTypes DEF Exchange, Records, TypeOK, Returned, Whole
<1>3. fromStore # <<>>
  BY <1>1, <1>2, EmptySeq
<1>4. /\ spc = "read" => due = <<>> /\ a + b = backLen
      /\ spc # "handle"
      /\ spc = "write" => due = <<>> /\ a + b = sSent /\ sSent < backLen
  BY <1>1, <1>3 DEF Exchange, Returned
<1> HIDE DEF a, b
<1>5. First(fromStore, n) = Bytes(a, n) /\ Rest(fromStore, n) = Bytes(a + n, b - n)
  <2>1. n \in Nat /\ n <= b
    BY <1>1
  <2> QED BY <2>1, <1>2, BytesSplit
<1>6. /\ iGot' = Bytes(0, a + n) /\ Len(iGot') = a + n
      /\ fromStore' = Bytes(a + n, b - n) /\ Len(fromStore') = b - n
      /\ b - n = 0 => fromStore' = <<>>
  <2>1. n \in Nat /\ a \in Nat /\ 0 + a = a /\ a + n \in Nat /\ b - n \in Nat
    BY <1>1, <1>2
  <2>2. Bytes(0, a) \o Bytes(0 + a, n) = Bytes(0, a + n)
    BY <2>1, BytesJoin
  <2>3. iGot' = Bytes(0, a + n) /\ fromStore' = Bytes(a + n, b - n)
    BY <2>1, <2>2, <1>1, <1>2, <1>5
  <2>4. Len(iGot') = a + n /\ Len(fromStore') = b - n /\ fromStore' \in Seq(Nat)
    BY <2>1, <2>3, BytesFacts
  <2> QED BY <2>3, <2>4, EmptySeq
<1>7. InFlight' = InFlight /\ StoreGone' = StoreGone
  BY <1>1 DEF InFlight, StoreGone, storeVars
<1>8. ~StoreGone /\ ipc' = "ready" => due = <<>> /\ fromStore' = <<>> /\ spc = "read"
  BY <1>1, <1>2, <1>4, <1>6 DEF StoreGone
<1>9. ipc' = "ready" => fromStore' = <<>> /\ spc # "write"
  BY <1>1, <1>2, <1>4, <1>6
<1>10. Sockets'
  <2>1. ~StoreGone => \A j \in 1 .. Len(due) : due[j][2] => j = Len(due) /\ ipc' \in {"store", "collect"}
    <3>1. CASE ipc' = "ready"
      <4>1. ~StoreGone => Len(due) = 0
        BY <3>1, <1>8, EmptySeq
      <4> QED BY <4>1
    <3>2. CASE ipc' # "ready"
      BY <3>2, <1>1 DEF Exchange, Sockets
    <3> QED BY <3>1, <3>2
  <2> QED BY <2>1, <1>1, <1>7, <1>9 DEF Exchange, Sockets, Whole, storeVars
<1>11. Returned'
  <2>1. /\ UNCHANGED <<due, spc, backLen, sSent>>
        /\ (a + n) + (b - n) = a + b
    BY <1>1, <1>2 DEF storeVars
  <2>2. CASE ipc' = "ready"
    <3>1. a + n = backLen
      BY <2>2, <1>1
    <3> QED BY <2>1, <2>2, <3>1, <1>6, <1>9 DEF Returned, Whole
  <2>3. CASE ipc' = "collect"
    <3>1. Whole(iGot', Len(iGot')) /\ fromStore' = Bytes(Len(iGot'), Len(fromStore'))
      BY <1>6 DEF Whole
    <3>2. Len(iGot') + Len(fromStore') = a + b
      BY <2>1, <1>6
    <3> QED BY <2>1, <2>3, <3>1, <3>2, <1>2, <1>4 DEF Returned, Whole
  <2> QED BY <2>2, <2>3, <1>1
<1> QED
  BY <1>10, <1>11

LEMMA StoreReadsSockets ==
  ASSUME Exchange, NEW n \in 1 .. Capacity, StoreReads(n)
  PROVE  Sockets' /\ Returned'
<1> DEFINE a == Len(sBuf)
<1>1. /\ spc = "read" /\ n \in Nat \ {0} /\ n <= Len(toStore) /\ n <= Head(due)[1] - a
      /\ sBuf' = sBuf \o First(toStore, n) /\ toStore' = Rest(toStore, n)
      /\ spc' = IF a + n = Head(due)[1] THEN "handle" ELSE "read"
      /\ UNCHANGED <<ieeVars, due, fromStore, backLen, sSent>>
  BY BoundsAssumption DEF StoreReads
<1>2. /\ due \in Messages /\ toStore \in Seq(Nat) /\ Len(toStore) \in Nat /\ a \in Nat
      /\ due # <<>> => Head(due)[1] \in Nat /\ InFlight \in Nat
      /\ sBuf = Bytes(0, a) /\ ~StoreGone /\ Stream(toStore, due, a, InFlight)
  BY <1>1, SocketTypes DEF Exchange, Sockets, StoreGone, Whole
<1> HIDE DEF a
<1>3. due # <<>>
  <2>1. due = <<>> => toStore = <<>>
    BY <1>2, StreamNone
  <2> QED BY <2>1, <1>1, <1>2, EmptySeq
<1>4. First(toStore, n) = Bytes(a, n) /\ Stream(toStore', due, a + n, InFlight)
  BY <1>1, <1>2, <1>3, StreamTake
<1>5. sBuf' = Bytes(0, a + n) /\ Len(sBuf') = a + n
  <2>1. n \in Nat /\ a \in Nat /\ 0 + a = a /\ a + n \in Nat
    BY <1>1, <1>2
  <2>2. Bytes(0, a) \o Bytes(0 + a, n) = Bytes(0, a + n)
    BY <2>1, BytesJoin
  <2>3. sBuf' = Bytes(0, a + n)
    BY <2>1, <2>2, <1>1, <1>2, <1>4
  <2> QED BY <2>1, <2>3, BytesFacts
<1>6. InFlight' = InFlight /\ ipc' = ipc /\ iGot' = iGot /\ iSent' = iSent /\ outLen' = outLen
  BY <1>1 DEF InFlight, ieeVars
<1>7. spc' = "read" => a + n < Head(due)[1]
  <2>1. Head(due)[1] \in Nat /\ a \in Nat /\ n \in Nat /\ n <= Head(due)[1] - a
    BY <1>1, <1>2, <1>3
  <2>2. spc' = "read" => a + n # Head(due)[1]
    BY <1>1
  <2> QED BY <2>1, <2>2
<1>8. /\ ipc = "store" => iSent < outLen /\ iGot = <<>> /\ due[Len(due)][1] = outLen
      /\ \A j \in 1 .. Len(due) : due[j][2] => j = Len(due) /\ ipc \in {"store", "collect"}
  BY <1>2 DEF Exchange, Sockets
<1>9. Sockets'
  <2>1. spc' \in {"read", "handle"} /\ (spc' = "handle" => a + n = Head(due)[1])
    BY <1>1
  <2> QED BY <2>1, <1>1, <1>3, <1>4, <1>5, <1>6, <1>7, <1>8 DEF Sockets, Whole
<1>10. Returned'
  BY <1>1, <1>3, <1>6 DEF Exchange, Returned, Whole
<1> QED
  BY <1>9, <1>10

LEMMA StoreHandlesSockets ==
  ASSUME Exchange, StoreHandles
  PROVE  Sockets' /\ Returned'
<1> DEFINE t == Tail(due)
<1>1. /\ spc = "handle" /\ due' = t /\ sBuf' = <<>> /\ sSent' = 0
      /\ Head(due)[2] => backLen' \in StoreLengths /\ spc' = "write"
      /\ ~Head(due)[2] => backLen' = backLen /\ spc' = "read"
      /\ UNCHANGED <<ieeVars, toStore, fromStore>>
  BY DEF StoreHandles
<1>2. /\ due # <<>> /\ Len(sBuf) = Head(due)[1] /\ ~StoreGone
      /\ Stream(toStore, due, Head(due)[1], InFlight)
      /\ \A j \in 1 .. Len(due) : due[j][2] => j = Len(due) /\ ipc \in {"store", "collect"}
      /\ ipc = "store" => iSent < outLen /\ iGot = <<>> /\ due[Len(due)][1] = outLen
  BY <1>1 DEF Exchange, Sockets, StoreGone
<1>3. /\ due \in Messages /\ toStore \in Seq(Nat) /\ Len(due) \in Nat \ {0}
      /\ Head(due) = due[1] /\ Head(due)[1] \in Nat \ {0} /\ Head(due)[2] \in BOOLEAN
      /\ InFlight \in Nat /\ iSent \in Nat /\ outLen \in Nat
      /\ due[Len(due)][1] \in Nat /\ due[Len(due)][2] \in BOOLEAN
  BY <1>2, SocketTypes DEF Exchange
<1>4. /\ t \in Messages /\ Len(t) = Len(due) - 1 /\ Len(t) \in Nat
      /\ \A j \in 1 .. Len(t) : t[j] = due[j + 1]
      /\ t = <<>> <=> Len(due) = 1
      /\ t # <<>> => t[Len(t)] = due[Len(due)] /\ Head(t) = t[1]
  <2> DEFINE S == StoreLengths \X BOOLEAN
  <2>1. due \in Seq(S)
    BY <1>3 DEF Messages
  <2> HIDE DEF S
  <2>2. t \in Seq(S) /\ Len(t) = Len(due) - 1 /\ \A j \in 1 .. Len(t) : t[j] = due[j + 1]
    BY <2>1, <1>2, HeadTailProperties
  <2>3. (t = <<>> => Len(t) = 0) /\ (t # <<>> => Len(t) \in Nat \ {0})
    BY <2>2, EmptySeq
  <2>4. t # <<>> => t[Len(t)] = due[Len(due)] /\ Head(t) = t[1]
    <3>1. SUFFICES ASSUME t # <<>> PROVE t[Len(t)] = due[Len(due)] /\ Head(t) = t[1]
      OBVIOUS
    <3>2. Len(t) \in 1 .. Len(t) /\ Len(t) + 1 = Len(due)
      BY <3>1, <2>2, <2>3, <1>3
    <3>3. t[Len(t)] = due[Len(t) + 1]
      BY <3>2, <2>2
    <3> QED BY <3>2, <3>3, <2>2
  <2> QED BY <2>2, <2>3, <2>4, <1>3 DEF S, Messages
<1> HIDE DEF t
<1>5. Len(due) = 1 => ipc # "store" /\ InFlight <= Head(due)[1]
  <2>1. SUFFICES ASSUME Len(due) = 1 PROVE ipc # "store" /\ InFlight <= Head(due)[1]
    OBVIOUS
  <2>2. Head(due)[1] <= InFlight
    BY <2>1, <1>2, <1>3, StreamSingle
  <2>3. due[Len(due)][1] = Head(due)[1]
    BY <2>1, <1>3
  <2>4. ipc # "store"
    <3>1. SUFFICES ASSUME ipc = "store" PROVE FALSE
      OBVIOUS
    <3>2. InFlight = iSent /\ iSent < outLen /\ Head(due)[1] = outLen
      BY <3>1, <2>3, <1>2 DEF InFlight
    <3> QED BY <3>2, <2>2, <1>3
  <2>5. InFlight = Head(due)[1]
    BY <2>3, <2>4 DEF InFlight
  <2> QED BY <2>4, <2>5, <1>3
<1>6. Stream(toStore, t, 0, InFlight)
  BY <1>2, <1>3, <1>5, StreamPop DEF t
<1>7. Stream(toStore, t, 0, InFlight')
  <2>1. CASE t = <<>>
    <3>1. toStore = <<>>
      BY <2>1, <1>3, <1>6, StreamNone
    <3> QED BY <2>1, <3>1, StreamEmpty
  <2>2. CASE t # <<>>
    <3>1. InFlight' = InFlight
      BY <2>2, <1>1, <1>4 DEF InFlight, ieeVars
    <3> QED BY <3>1, <1>6
  <2> QED BY <2>1, <2>2
<1>8. ASSUME NEW j \in 1 .. Len(t), t[j][2]
      PROVE  j = Len(t) /\ ipc \in {"store", "collect"}
  <2>1. j + 1 \in 1 .. Len(due) /\ due[j + 1][2]
    BY <1>3, <1>4, <1>8
  <2>2. j + 1 = Len(due) /\ ipc \in {"store", "collect"}
    BY <2>1, <1>2
  <2> QED BY <2>2, <1>4
<1>9. Head(due)[2] => Len(due) = 1 /\ t = <<>> /\ ipc = "collect"
  <2>1. 1 \in 1 .. Len(due)
    BY <1>3
  <2>2. Head(due)[2] => 1 = Len(due) /\ ipc \in {"store", "collect"}
    BY <2>1, <1>2, <1>3
  <2> QED BY <2>2, <1>4, <1>5
<1>10. t # <<>> => 0 < Head(t)[1]
  <2>1. SUFFICES ASSUME t # <<>> PROVE 0 < Head(t)[1]
    OBVIOUS
  <2>2. 1 \in 1 .. Len(t)
    BY <2>1, <1>3, <1>4
  <2> QED BY <2>1, <2>2, <1>4, MessageLength
<1>11. ipc = "store" => t # <<>>
  BY <1>4, <1>5
<1>12. /\ ipc' = ipc /\ iSent' = iSent /\ outLen' = outLen /\ iGot' = iGot
       /\ Len(<<>>) = 0 /\ <<>> = Bytes(0, 0)
  BY <1>1, EmptySeq DEF ieeVars, Bytes
<1>13. Sockets'
  BY <1>1, <1>2, <1>3, <1>4, <1>7, <1>8, <1>9, <1>10, <1>11, <1>12 DEF Sockets, Whole
<1>14. Returned'
  <2>1. /\ ipc \notin {"collect", "exit"} => fromStore = <<>>
        /\ ipc = "ready" => Whole(iGot, backLen)
        /\ ipc = "collect" => due[Len(due)][2] /\ iGot = <<>> /\ fromStore = <<>>
    BY <1>1 DEF Exchange, Returned
  <2>2. CASE Head(due)[2]
    <3>1. backLen' \in Nat \ {0} /\ spc' = "write" /\ due' = <<>> /\ sSent' = 0 /\ ipc = "collect"
      BY <2>2, <1>1, <1>9, LengthsAssumption
    <3> QED BY <3>1, <2>1, <1>1, <1>12 DEF Returned, Whole
  <2>3. CASE ~Head(due)[2]
    <3>1. spc' = "read" /\ backLen' = backLen /\ backLen \in Nat
      BY <2>3, <1>1, SocketTypes DEF Exchange
    <3>2. ipc = "collect" => t # <<>> /\ t[Len(t)][2]
      <4>1. ipc = "collect" => Len(due) # 1
        BY <2>1, <2>3, <1>3
      <4> QED BY <4>1, <2>1, <1>4
    <3> QED BY <3>1, <3>2, <2>1, <1>1, <1>12 DEF Returned, Whole
  <2> QED BY <2>2, <2>3, <1>3
<1> QED
  BY <1>13, <1>14

LEMMA StoreWritesSockets ==
  ASSUME Exchange, NEW n \in 1 .. Capacity, StoreWrites(n)
  PROVE  Sockets' /\ Returned'
<1> DEFINE a == Len(iGot)
           b == Len(fromStore)
<1>1. /\ spc = "write" /\ n \in Nat \ {0} /\ n <= backLen - sSent
      /\ fromStore' = fromStore \o Bytes(sSent, n) /\ sSent' = sSent + n
      /\ spc' = IF sSent + n = backLen THEN "read" ELSE "write"
      /\ UNCHANGED <<ieeVars, due, toStore, sBuf, backLen>>
  BY BoundsAssumption DEF StoreWrites
<1>2. ipc = "collect"
  BY <1>1 DEF Exchange, Sockets
<1>3. /\ Whole(iGot, a) /\ fromStore = Bytes(a, b) /\ due = <<>> /\ a + b = sSent
      /\ a \in Nat /\ b \in Nat /\ backLen \in Nat /\ sSent \in Nat
  BY <1>1, <1>2, SocketTypes DEF Exchange, Returned
<1> HIDE DEF a, b
<1>4. fromStore' = Bytes(a, b + n) /\ Len(fromStore') = b + n
  <2>1. n \in Nat /\ a \in Nat /\ b \in Nat /\ b + n \in Nat
    BY <1>1, <1>3
  <2>2. Bytes(a, b) \o Bytes(a + b, n) = Bytes(a, b + n)
    BY <2>1, BytesJoin
  <2>3. fromStore' = Bytes(a, b + n)
    BY <2>2, <1>1, <1>3
  <2> QED BY <2>1, <2>3, <1>3, BytesFacts
<1>5. InFlight' = InFlight /\ ipc' = ipc /\ iGot' = iGot /\ iSent' = iSent /\ outLen' = outLen
  BY <1>1 DEF InFlight, ieeVars
<1>6. Sockets'
  BY <1>1, <1>2, <1>3, <1>5 DEF Exchange, Sockets, StoreGone, Whole
<1>7. Returned'
  <2>1. /\ a + (b + n) = sSent + n /\ sSent + n <= backLen
        /\ spc' = "write" => sSent + n < backLen
        /\ spc' = "read" => sSent + n = backLen
        /\ spc' \in {"read", "write"}
    BY <1>1, <1>3
  <2>2. a = Len(iGot')
    BY <1>5 DEF a
  <2> QED BY <2>1, <2>2, <1>1, <1>2, <1>3, <1>4, <1>5 DEF Returned
<1> QED
  BY <1>6, <1>7

LEMMA StoreDiesSockets ==
  ASSUME Exchange, StoreDies
  PROVE  Sockets' /\ Returned'
<1>1. spc' = "dead" /\ UNCHANGED <<ieeVars, due, fromStore, sBuf, backLen, sSent>>
  BY DEF StoreDies
<1> QED
  BY <1>1 DEF Exchange, Sockets, Returned, StoreGone, Whole, ieeVars

-----------------------------------------------------------------------------
LEMMA InitExchange ==
  Init => Exchange
BY InitRecords, InitSockets DEF Exchange

LEMMA ClientSteps ==
  ASSUME Exchange,
         \/ \E n \in Lengths : SendLength(n)
         \/ ClientStep \/ CloseConnection \/ BreakConnection \/ ClientFails
  PROVE  Exchange'
<1>1. Records'
  BY SendLengthRecords, SendPieceRecords, ReceiveLengthRecords, ReceivePieceRecords,
     CloseConnectionRecords, BreakConnectionRecords, ClientFailsRecords
     DEF Exchange, ClientStep
<1>2. UNCHANGED <<ieeVars, socketVars, storeVars>>
  BY DEF SendLength, ClientStep, SendPiece, ReceiveLength, ReceivePiece, CloseConnection,
         BreakConnection, ClientFails
<1> QED
  BY <1>1, <1>2, SameSocket DEF Exchange

LEMMA RequestSteps ==
  ASSUME Exchange,
         \/ ReadLength \/ ReadEnd \/ ReadPiece \/ ReadFails \/ Answer
         \/ WriteLength \/ WritePiece \/ WriteFails
  PROVE  Exchange'
<1>1. Records'
  BY ReadLengthRecords, ReadEndRecords, ReadPieceRecords, ReadFailsRecords, AnswerRecords,
     WriteLengthRecords, WritePieceRecords, WriteFailsRecords DEF Exchange
<1>2. /\ ipc \notin {"store", "collect", "exit"}
      /\ ipc' \notin {"store", "collect", "ready"}
      /\ UNCHANGED <<socketVars, storeVars>>
  BY DEF ReadLength, ReadEnd, ReadPiece, ReadFails, Answer, WriteLength, WritePiece, WriteFails
<1> QED
  BY <1>1, <1>2, Elsewhere DEF Exchange

LEMMA SocketSteps ==
  ASSUME Exchange,
         \/ Contact \/ StoreFails \/ StoreDies \/ StoreHandles
         \/ \E n \in 1 .. Capacity :
              StoreSend(n) \/ StoreReceive(n) \/ StoreReads(n) \/ StoreWrites(n)
  PROVE  Exchange'
<1>1. StoreHandles => due # <<>>
  BY DEF Exchange, Sockets, StoreHandles
<1>2. Records'
  BY <1>1, ContactRecords, StoreFailsRecords, StoreDiesRecords, StoreHandlesRecords,
     StoreSendRecords, StoreReceiveRecords, StoreReadsRecords, StoreWritesRecords
     DEF Exchange
<1>3. Sockets' /\ Returned'
  BY ContactSockets, StoreFailsSockets, StoreDiesSockets, StoreHandlesSockets,
     StoreSendSockets, StoreReceiveSockets, StoreReadsSockets, StoreWritesSockets
<1> QED
  BY <1>2, <1>3 DEF Exchange

LEMMA NextExchange ==
  Exchange /\ [Next]_vars => Exchange'
<1> SUFFICES ASSUME Exchange, [Next]_vars PROVE Exchange'
  OBVIOUS
<1>1. CASE UNCHANGED vars
  <2>1. UNCHANGED <<ieeVars, socketVars, storeVars>>
    BY <1>1 DEF vars
  <2> QED BY <2>1, <1>1, StutterRecords, SameSocket DEF Exchange
<1>2. CASE Next
  BY <1>2, ClientSteps, RequestSteps, SocketSteps DEF Next, ClientStep, IeeStep, StoreStep
<1> QED
  BY <1>1, <1>2

\* The inductive invariant holds in every state (of every instance).
THEOREM TransportInvariant ==
  Spec => []Exchange
<1>1. Init => Exchange
  BY InitExchange
<1>2. Exchange /\ [Next]_vars => Exchange'
  BY NextExchange
<1> QED
  BY <1>1, <1>2, PTL DEF Spec

\* Every variable keeps its type: the buffers hold bytes, no loop counts past the
\* end of what it sends.
THEOREM TypeCorrect ==
  Spec => []TypeOK
<1>1. Exchange => TypeOK
  BY DEF Exchange, Records
<1> QED
  BY <1>1, TransportInvariant, PTL

\* The rounds of ssl_send_all, of the loop over to_read, of write_ssl and of
\* ssl_receive_all cut a body at the same places, so that what is forgotten of a
\* record is always nothing: request and answer arrive byte by byte.
THEOREM BodiesArrive ==
  Spec => []RecordsIntact
<1>1. Exchange => RecordsIntact
  BY DEF Exchange, Records, Upward, Downward, RecordsIntact, Handling
<1> QED
  BY <1>1, TransportInvariant, PTL

\* send_all and receive_all put together what they are asked to, however short
\* each write and each read; the storage service finds where a message ends when
\* the next one has already arrived, and the IEE leaves nothing of an answer behind.
THEOREM MessagesArrive ==
  Spec => []SocketIntact
<1>1. Exchange => SocketIntact
  <2> SUFFICES ASSUME Exchange PROVE SocketIntact
    OBVIOUS
  <2>1. spc = "handle" => Whole(sBuf, Head(due)[1])
    BY DEF Exchange, Sockets, Whole
  <2>2. ipc = "ready" => Whole(iGot, backLen) /\ fromStore = <<>>
    BY DEF Exchange, Returned
  <2> QED BY <2>1, <2>2 DEF SocketIntact
<1> QED
  BY <1>1, TransportInvariant, PTL

\* outside_util::exit is reached only when a client breaks off within a request or
\* the storage service is gone, never because a client leaves between two.
THEOREM ExitsForAReason ==
  Spec => []ExitJustified
<1>1. Exchange => ExitJustified
  BY DEF Exchange, Records, Phases, ExitJustified
<1> QED
  BY <1>1, TransportInvariant, PTL

\* When the client goes on, the connection is as it was before the request.
THEOREM ConnectionClean ==
  Spec => []NothingLeftOver
<1>1. Exchange => NothingLeftOver
  BY DEF Exchange, Records, Phases, NothingLeftOver
<1> QED
  BY <1>1, TransportInvariant, PTL
=============================================================================
