--------------------------- MODULE BisenInvariant ---------------------------
(***************************************************************************)
(* The inductive invariants behind SearchIsServed, ResponsesMatch and      *)
(* PostingsExact of Bisen (IInv), ImplementsStore and IeeExitJustified     *)
(* (StoreInv), for clients that start when the streams of the one before   *)
(* have been read (DrainBeforeRestart).                                    *)
(*                                                                         *)
(* The argument: every posting of the client's documents is on its way     *)
(* from the client to the index, under the one label that is its rank      *)
(* among the documents with that word.  The way is first in first out, and *)
(* a look-up is the last thing on it, so that the look-up finds all of     *)
(* them in the index.                                                      *)
(***************************************************************************)
EXTENDS Bisen

\* Who waits for whom: one request, one reply, one handler.
Phases ==
    /\ clPc \in {"new", "ready", "bulk"} => req = NoReq /\ rep = NoReply
    /\ clPc = "dead" => rep = NoReply
    /\ req # NoReq => rep = NoReply
    /\ bulk # <<>> => clPc = "bulk"
    /\ clPc \in {"ready", "bulk"} \/ rep # NoReply => sock # 0
    /\ req.op \in {"bulk", "search", "bench"} => sock # 0
    /\ req = NoReq => ieePc = "idle"
    /\ ieePc = "update" => req.op = "bulk"
    /\ ieePc \in {"search", "wait"} => req.op = "search"
    /\ work # <<>> => ieePc = "update"
    /\ req.op = "search" => req.counter = W /\ req.nDocs = nDocs

\* No word is counted in more documents than there are.
Counted == \A w \in Words : W[w] <= nDocs

\* The labels outstanding are those of the query.
Wanted ==
    /\ ieePc \in {"search", "wait"} => want \subseteq SlotsOf(req)
    /\ ieePc = "wait" => batch \subseteq want

\* What keeps every value in its type, whatever the streams hold.
TypeInv == TypeOK /\ Phases /\ Counted /\ Wanted

\* The counters of the client number the postings of a word from 0 up.
Ranked ==
    /\ \A w \in Words : W[w] = Rank(w, nDocs)
    /\ \A w \in Words : \A d \in 0..nDocs - 1 :
          w \in docs[d] => Rank(w, d) < W[w]
    /\ \A w \in Words : \A c \in 0..W[w] - 1 :
          \E d \in 0..nDocs - 1 : w \in docs[d] /\ Rank(w, d) = c
    /\ \A w \in Words : \A d, e \in 0..nDocs - 1 :
          w \in docs[d] /\ w \in docs[e] /\ Rank(w, d) = Rank(w, e) => d = e

\* Label l is that of a posting for document d, which is one of the first n.
PostingIn(documents, n, l, d) ==
    /\ d \in 0..n - 1
    /\ l[1] \in documents[d]
    /\ l[2] = RankIn(documents, l[1], d)
IsPosting(l, d) == PostingIn(docs, nDocs, l, d)

\* The add messages between the client and the index.
InRequest == IF req.op = "bulk" THEN Elements(req.msgs) ELSE {}
InStreams ==
    {m \in UNION {Elements(toStore[c]) : c \in Conns} : m.op = "add"}

\* They carry postings of one document under their ranks.
Sound(m) == \A l \in m.labels : IsPosting(l, m.doc)
AddsSound ==
    \A m \in Elements(bulk) \cup InRequest \cup Elements(work) \cup InStreams :
        Sound(m)

\* Those that have not been handed on.
OnItsWay == Elements(bulk) \cup (IF ieePc = "idle" THEN InRequest ELSE {})
                \cup Elements(work) \cup InStreams

\* No posting is lost while it can still be asked for.
NothingLost ==
    clPc # "dead" \/ req.op = "search" =>
        \A w \in Words : \A d \in 0..nDocs - 1 :
            w \in docs[d] =>
                \/ Stored(w, d)
                \/ \E m \in OnItsWay : m.doc = d /\ <<w, Rank(w, d)>> \in m.labels

\* Only the last connection carries anything, nothing before the setup, and
\* a look-up is the last message on it.
Streams ==
    /\ \A c \in Conns : c # sock => toStore[c] = <<>>
    /\ clPc = "new" \/ req.op = "setup" => \A c \in Conns : toStore[c] = <<>>
    /\ \A c \in Conns : \A i \in DOMAIN toStore[c] :
          toStore[c][i].op = "search" =>
              /\ i = Len(toStore[c])
              /\ ieePc = "wait"
              /\ toIee[c] = <<>>
              /\ toStore[c][i].labels = {<<s, LabelOf(req, s)>> : s \in batch}

\* A search has a record, and nothing that would drop it is under way.
Records ==
    /\ \A c \in Conns : \A m \in Elements(toStore[c]) :
          m.op = "dump" => req = NoReq /\ (clPc = "dead" \/ rep = EmptyReply)
    /\ ieePc \in {"search", "wait"} =>
          hasRecord \/ \E m \in Elements(toStore[sock]) : m.op = "record"

\* A response holds the entries asked for, and entries are postings.
Responses ==
    \A c \in Conns : toIee[c] # <<>> =>
        /\ c = sock
        /\ ieePc = "wait"
        /\ Len(toIee[c]) = 1
        /\ Verified(toIee[c][1])
        /\ \A e \in toIee[c][1] : IsPosting(e[2], e[3])

\* What was received of the query's postings is right.
Progress ==
    ieePc \in {"search", "wait"} =>
        \A s \in SlotsOf(req) \ want : IsPosting(LabelOf(req, s), got[s])

IInv ==
    /\ TypeInv
    /\ Ranked
    /\ AddsSound
    /\ NothingLost
    /\ Streams
    /\ Records
    /\ Responses
    /\ Progress
    /\ SearchIsServed
    /\ ResponsesMatch
-----------------------------------------------------------------------------
(***************************************************************************)
(* What the client asks, what it is answered, and why the IEE exits: what  *)
(* has to hold besides IInv for Bisen to implement SearchStore.            *)
(***************************************************************************)

\* The query the client waits for is the one it sent, and the answer on its
\* way is right for the documents it has added.
Asking ==
    /\ clPc # "await" => asked = <<>>
    /\ clPc = "await" /\ req.op = "search" => asked = req.rpn
    /\ rep.op = "docs" =>
          /\ asked # <<>>
          /\ Store!WellFormed(asked)
          /\ Store!IsAnswer(rep.docs, asked)

\* An exit has the reason it is given for; the request that led to it stays
\* where it is.
Exits ==
    /\ ieeExit = "malformed_query" =>
          req.op = "search" /\ ~Store!WellFormed(req.rpn)
    /\ ieeExit = "socket" => storeExit = "closed_socket"
    /\ ieeExit = "peer_lost" => clPc = "dead"

StoreInv == IInv /\ Asking /\ Exits
=============================================================================
