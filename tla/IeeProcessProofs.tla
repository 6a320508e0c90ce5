-------------------------- MODULE IeeProcessProofs --------------------------
(***************************************************************************)
(* Theorems about IeeProcess, for any number of clients, descriptors,      *)
(* workers and places in the enclave: no descriptor is lost or closed under *)
(* its user, and requests that are handled one after the other do not mix   *)
(* on the connection to the storage service.                               *)
(*                                                                         *)
(* The order of the argument: each descriptor in use has an owner, and each *)
(* owner one descriptor (Owners); who owns one is known from the threads,   *)
(* the accept loop and the connections (Owning).  For the messages, a       *)
(* connection says what has to follow the last send on it (Owed), which is  *)
(* what the one thread that handles a request sends next (Orderly); reading *)
(* a send turns what has to follow it into what is expected (TakenFramed).  *)
(***************************************************************************)
EXTENDS IeeProcess, SequenceTheorems, FiniteSetTheorems, WellFoundedInduction, TLAPS

LEMMA LeastNatural ==
  ASSUME NEW T, T \subseteq Nat, T # {}
  PROVE  \E n \in T : \A m \in T : n <= m
<1>1. PICK n \in T : \A m \in T : <<m, n>> \notin OpToRel(<, Nat)
  BY NatLessThanWellFounded, WFMin
<1>2. \A m \in T : ~(m < n)
  BY <1>1 DEF OpToRel
<1>3. \A m \in T : n <= m
  <2> TAKE m \in T
  <2>1. n \in Nat /\ m \in Nat
    OBVIOUS
  <2>2. ~(m < n)
    BY <1>2
  <2> QED
    BY <2>1, <2>2
<1> QED
  BY <1>3

LEMMA LowestFree ==
  ASSUME FreeFds # {}
  PROVE  Lowest \in Fds /\ fds[Lowest] = Free
<1>1. FreeFds \subseteq Nat
  BY BoundsAssumption DEF FreeFds, Open, Fds
<1>2. \E n \in FreeFds : \A m \in FreeFds : n <= m
  BY <1>1, LeastNatural
<1>3. Lowest \in FreeFds
  BY <1>2 DEF Lowest
<1> QED
  BY <1>3 DEF FreeFds, Open
-----------------------------------------------------------------------------
(* Descriptors and their owners.                                           *)

Anybody == {Free, Listen} \cup Clients \cup Nat

\* The descriptors f belong to the members of S, each of which has one.
Owners(f, S) ==
  /\ \A n \in Fds : f[n] = Free \/ f[n] \in S
  /\ \A o \in S : \E n \in Fds : f[n] = o
  /\ \A n \in Fds : \A m \in Fds : f[n] = f[m] /\ f[n] # Free => n = m

LEMMA OwnerOpens ==
  ASSUME NEW S, NEW o, fds \in [Fds -> Anybody], Owners(fds, S), FreeFds # {},
         o \notin S, o # Free, Free \notin S
  PROVE  Owners(Opened(o), S \cup {o})
<1> DEFINE f == Opened(o)
<1>1. Lowest \in Fds /\ fds[Lowest] = Free
  BY LowestFree
<1>2. \A n \in Fds : f[n] = IF n = Lowest THEN o ELSE fds[n]
  BY DEF Opened
<1> HIDE DEF f
<1>3. \A n \in Fds : f[n] = Free \/ f[n] \in S \cup {o}
  BY <1>2 DEF Owners
<1>4. \A p \in S \cup {o} : \E n \in Fds : f[n] = p
  <2> TAKE p \in S \cup {o}
  <2>1. CASE p = o
    BY <2>1, <1>1, <1>2
  <2>2. CASE p \in S
    <3>1. PICK n \in Fds : fds[n] = p
      BY <2>2 DEF Owners
    <3>2. n # Lowest
      BY <3>1, <2>2, <1>1
    <3> QED
      BY <3>1, <3>2, <1>2
  <2> QED
    BY <2>1, <2>2
<1>5. \A n \in Fds : \A m \in Fds : f[n] = f[m] /\ f[n] # Free => n = m
  <2>1. \A n \in Fds : fds[n] # o
    BY DEF Owners
  <2> QED
    BY <1>2, <2>1 DEF Owners
<1> QED
  BY <1>3, <1>4, <1>5 DEF Owners, f

LEMMA OwnerCloses ==
  ASSUME NEW S, NEW o, fds \in [Fds -> Anybody], Owners(fds, S),
         o \in S, Free \notin S
  PROVE  Owners(Closed(o), S \ {o})
<1> DEFINE f == Closed(o)
<1>1. \A n \in Fds : f[n] = IF fds[n] = o THEN Free ELSE fds[n]
  BY DEF Closed
<1> HIDE DEF f
<1>2. \A n \in Fds : f[n] = Free \/ f[n] \in S \ {o}
  BY <1>1 DEF Owners
<1>3. \A p \in S \ {o} : \E n \in Fds : f[n] = p
  BY <1>1 DEF Owners
<1>4. \A n \in Fds : \A m \in Fds : f[n] = f[m] /\ f[n] # Free => n = m
  BY <1>1 DEF Owners
<1> QED
  BY <1>2, <1>3, <1>4 DEF Owners, f

LEMMA OneDescriptor ==
  ASSUME NEW S, NEW o \in S, Owners(fds, S), Free \notin S
  PROVE  Cardinality(Open(o)) = 1
<1>1. PICK n \in Fds : fds[n] = o
  BY DEF Owners
<1>2. Open(o) = {n}
  BY <1>1 DEF Owners, Open
<1> QED
  BY <1>2, FS_Singleton
-----------------------------------------------------------------------------
(* The type of the variables the argument is about.                        *)

ThreadStates == {"none", "start", "handshake", "idle", "op", "leaving", "done"}
ClientStates == {"off", "open", "up", "gone", "failed"}
Message == Clients \X Sends

Typed ==
  /\ fds \in [Fds -> Anybody]
  /\ queued \subseteq Clients /\ accepted \subseteq Clients
  /\ thread \in [Clients -> ThreadStates]
  /\ serverSocket \in Nat
  /\ opened \in [Clients -> Nat]
  /\ client \in [Clients -> ClientStates]
  /\ stream \in Seq(Seq(Message))

typedVars == <<fds, queued, accepted, thread, serverSocket, opened, client, stream>>

LEMMA TypedKept ==
  ASSUME Typed, UNCHANGED typedVars
  PROVE  Typed'
BY DEF Typed, typedVars, Message

LEMMA NoStreams == <<>> \in Seq(Seq(Message))
BY EmptySeq

LEMMA TypedInit == Init => Typed
<1> SUFFICES ASSUME Init PROVE Typed
  OBVIOUS
<1>1. stream \in Seq(Seq(Message))
  BY NoStreams DEF Init
<1>2. fds \in [Fds -> Anybody] /\ serverSocket \in Nat
  BY DEF Init, Anybody
<1>3. thread \in [Clients -> ThreadStates] /\ opened \in [Clients -> Nat]
  BY DEF Init, ThreadStates
<1> QED
  BY <1>1, <1>2, <1>3 DEF Init, Typed, ClientStates

LEMMA OpenedType ==
  ASSUME NEW o \in Anybody, fds \in [Fds -> Anybody]
  PROVE  Opened(o) \in [Fds -> Anybody]
BY DEF Opened

LEMMA ClosedType ==
  ASSUME NEW o, fds \in [Fds -> Anybody]
  PROVE  Closed(o) \in [Fds -> Anybody]
BY DEF Closed, Anybody

LEMMA DroppedType ==
  ASSUME NEW cs, client \in [Clients -> ClientStates]
  PROVE  Dropped(cs) \in [Clients -> ClientStates]
BY DEF Dropped, ClientStates

LEMMA ExitTyped ==
  ASSUME Typed, Exit
  PROVE  Typed'
<1>1. client' \in [Clients -> ClientStates]
  BY DroppedType DEF Typed, Exit
<1>2. fds' \in [Fds -> Anybody]
  BY DEF Exit, Anybody
<1>3. stream' \in Seq(Seq(Message))
  BY NoStreams DEF Exit
<1> QED
  BY <1>1, <1>2, <1>3 DEF Typed, Exit, ThreadStates, Message

LEMMA MainTyped ==
  ASSUME Typed, Main \/ EnterWorker \/ Interrupt \/ DestroyEnclave
  PROVE  Typed'
<1>0. CASE Exit
  BY <1>0, ExitTyped
<1>1. CASE UNCHANGED typedVars
  BY <1>1, TypedKept
<1>2. ASSUME BindAddress, fds' = Opened(Listen)
      PROVE  Typed'
  BY <1>2, OpenedType DEF BindAddress, StartUnchanged, acceptVars, opVars, clientVars,
     storeVars, Typed, Anybody, Message
<1>3. ASSUME NEW c \in Clients, AcceptClient(c)
      PROVE  Typed'
  BY <1>3, OpenedType DEF AcceptClient, opVars, clientVars, storeVars, Typed, Anybody, Message
<1>4. CASE AcceptFails
  BY <1>4, ClosedType, DroppedType DEF AcceptFails, opVars, storeVars, Typed, Message
<1>5. CASE CreateThread
  BY <1>5 DEF CreateThread, opVars, clientVars, storeVars, Typed, ThreadStates, Message
<1>6. CASE CreateThreadFails
  BY <1>6, ClosedType, DroppedType DEF CreateThreadFails, opVars, storeVars, Typed, Message
<1>7. CASE CheckArguments \/ CreateEnclave \/ StartWorkers
  BY <1>7, <1>0, <1>1 DEF CheckArguments, CreateEnclave, StartWorkers, Prepare,
     StartUnchanged, acceptVars, opVars, clientVars, storeVars, typedVars
<1>8. CASE SetupTls \/ EnterWorker
  BY <1>8, <1>0, <1>1 DEF SetupTls, EnterWorker,
     StartUnchanged, acceptVars, opVars, clientVars, storeVars, typedVars
<1>9. CASE BindAddress
  BY <1>9, <1>1, <1>2 DEF BindAddress,
     StartUnchanged, acceptVars, opVars, clientVars, storeVars, typedVars
<1>10. CASE BindFails \/ Interrupt \/ DestroyEnclave
  BY <1>10, <1>0 DEF BindFails, Interrupt, DestroyEnclave
<1> QED
  BY <1>3, <1>4, <1>5, <1>6, <1>7, <1>8, <1>9, <1>10 DEF Main

LEMMA NothingReplaced ==
  ASSUME NEW S, NEW s \in Seq(S), NEW k, k \notin 1 .. Len(s), NEW e
  PROVE  [s EXCEPT ![k] = e] = s
<1> DEFINE n == Len(s)
           t == [s EXCEPT ![k] = e]
<1>1. n \in Nat /\ s \in [1 .. n -> S]
  BY LenProperties
<1> HIDE DEF n
<1>2. t \in [1 .. n -> S] /\ \A i \in 1 .. n : t[i] = s[i]
  BY <1>1 DEF n
<1> QED
  BY <1>1, <1>2

LEMMA ThreadTyped ==
  ASSUME Typed, NEW c \in Clients, Thread(c)
  PROVE  Typed'
<1>0. CASE Exit
  BY <1>0, ExitTyped
<1>1. CASE EnterEnclave(c)
  BY <1>1 DEF EnterEnclave, ThreadUnchanged, opVars, acceptVars, storeVars, Typed,
     ThreadStates, Message
<1>2. CASE Handshake(c)
  BY <1>2 DEF Handshake, ThreadUnchanged, opVars, acceptVars, storeVars, Typed,
     ThreadStates, ClientStates, Message
<1>3. CASE BeginRequest(c)
  BY <1>3 DEF BeginRequest, ThreadUnchanged, acceptVars, storeVars, Typed,
     ThreadStates, Message
<1>4. CASE Reply(c) \/ EndOfClient(c)
  BY <1>4 DEF Reply, EndOfClient, ThreadUnchanged, opVars, acceptVars, storeVars, Typed,
     ThreadStates, Message
<1>5. CASE FreeClient(c)
  BY <1>5, ClosedType, DroppedType DEF FreeClient, ThreadUnchanged, opVars, acceptVars,
     storeVars, Typed, ThreadStates, Message
<1>6. ASSUME OpenStorage(c), ~Exit
      PROVE  Typed'
  <2> DEFINE k == Len(stream) + 1
  <2>1. /\ fds' = Opened(k) /\ opened' = [opened EXCEPT ![c] = k]
        /\ stream' = Append(stream, <<>>)
        /\ UNCHANGED <<queued, accepted, thread, serverSocket, client>>
    BY <1>6 DEF OpenStorage, AcceptConnection, OpUnchanged, acceptVars, clientVars
  <2>2. k \in Nat
    BY DEF Typed
  <2>3. <<>> \in Seq(Message)
    BY EmptySeq
  <2>4. stream' \in Seq(Seq(Message))
    BY <2>1, <2>3, AppendProperties DEF Typed
  <2>5. fds' \in [Fds -> Anybody]
    BY <2>1, <2>2, OpenedType DEF Typed, Anybody
  <2> QED
    BY <2>1, <2>2, <2>4, <2>5 DEF Typed, Message
<1>7. CASE Publish(c)
  BY <1>7 DEF Publish, OpUnchanged, acceptVars, clientVars, storeVars, Typed, Message
<1>8. ASSUME SendToStorage(c), ~Exit
      PROVE  Typed'
  <2>1. /\ Head(todo[c]) \in Sends
        /\ stream' = [stream EXCEPT ![serverSocket] = Append(@, <<c, Head(todo[c])>>)]
        /\ UNCHANGED <<fds, queued, accepted, thread, serverSocket, opened, client>>
    BY <1>8 DEF SendToStorage, At, OpUnchanged, acceptVars, clientVars
  <2>2. <<c, Head(todo[c])>> \in Message
    BY <2>1 DEF Message
  <2> DEFINE m == <<c, Head(todo[c])>>
             k == serverSocket
  <2>3. stream' \in Seq(Seq(Message))
    <3> HIDE DEF m
    <3>1. CASE k \in 1 .. Len(stream)
      <4>1. stream[k] \in Seq(Message)
        BY <3>1, ElementOfSeq DEF Typed
      <4>2. Append(stream[k], m) \in Seq(Message)
        BY <4>1, <2>2, AppendProperties DEF m
      <4>3. stream' = [stream EXCEPT ![k] = Append(stream[k], m)]
        BY <2>1 DEF m
      <4> QED
        BY <3>1, <4>2, <4>3, ExceptSeq DEF Typed
    <3>2. CASE k \notin 1 .. Len(stream)
      <4> DEFINE e == Append(stream[k], m)
      <4>1. stream' = [stream EXCEPT ![k] = e]
        BY <2>1 DEF m
      <4> HIDE DEF e
      <4>2. stream' = stream
        BY <3>2, <4>1, NothingReplaced DEF Typed
      <4> QED
        BY <4>2 DEF Typed, Message
    <3> QED
      BY <3>1, <3>2
  <2> QED
    BY <2>1, <2>3 DEF Typed, Message
<1>9. CASE ReceiveFromStorage(c)
  BY <1>9, <1>0, TypedKept DEF ReceiveFromStorage, OpUnchanged, acceptVars, clientVars,
     typedVars
<1>10. CASE CutOff(c)
  BY <1>10, <1>0 DEF CutOff
<1> QED
  BY <1>0, <1>1, <1>2, <1>3, <1>4, <1>5, <1>6, <1>7, <1>8, <1>9, <1>10 DEF Thread

LEMMA ReadTyped ==
  ASSUME Typed, NEW k \in DOMAIN stream, stream[k] # <<>>,
         stream' = [stream EXCEPT ![k] = Tail(@)], StoreUnchanged
  PROVE  Typed'
<1>1. k \in 1 .. Len(stream) /\ stream[k] \in Seq(Message)
  BY ElementOfSeq DEF Typed
<1>2. Tail(stream[k]) \in Seq(Message)
  BY <1>1, HeadTailProperties
<1>3. stream' = [stream EXCEPT ![k] = Tail(stream[k])]
  OBVIOUS
<1>4. stream' \in Seq(Seq(Message))
  BY <1>1, <1>2, <1>3, ExceptSeq DEF Typed
<1> QED
  BY <1>4 DEF Typed, StoreUnchanged, acceptVars, opVars, clientVars, Message

LEMMA OthersTyped ==
  ASSUME Typed,
         \/ Storage
         \/ \E c \in Clients : StartFails(c) \/ Connect(c) \/ DatasetMissing(c)
                               \/ SendRequest(c) \/ Leave(c)
  PROVE  Typed'
<1>1. CASE StartStorage
  BY <1>1, TypedKept DEF StartStorage, StoreUnchanged, acceptVars, opVars, clientVars,
     typedVars
<1>2. ASSUME NEW k \in DOMAIN stream, ReadCommand(k) \/ ReadRest(k)
      PROVE  Typed'
  BY <1>2, ReadTyped DEF ReadCommand, ReadRest
<1>3. ASSUME NEW k \in DOMAIN stream, ReadGarbled(k)
      PROVE  Typed'
  BY <1>3, TypedKept DEF ReadGarbled, StoreUnchanged, acceptVars, opVars, clientVars,
     typedVars
<1>4. ASSUME NEW c \in Clients, StartFails(c) \/ Connect(c)
      PROVE  Typed'
  BY <1>4 DEF StartFails, Connect, ClientUnchanged, opVars, storeVars, Typed, ClientStates,
     Message
<1>5. ASSUME NEW c \in Clients, DatasetMissing(c) \/ SendRequest(c) \/ Leave(c)
      PROVE  Typed'
  BY <1>5 DEF DatasetMissing, SendRequest, Leave, ClientUnchanged, opVars, storeVars, Typed,
     ClientStates, Message
<1> QED
  BY <1>1, <1>2, <1>3, <1>4, <1>5 DEF Storage

LEMMA TypedStep == Typed /\ [Next]_vars => Typed'
<1> SUFFICES ASSUME Typed, [Next]_vars
             PROVE  Typed'
  OBVIOUS
<1>1. CASE UNCHANGED vars
  BY <1>1, TypedKept DEF vars, acceptVars, opVars, clientVars, storeVars, typedVars
<1>2. CASE Next
  BY <1>2, MainTyped, ThreadTyped, OthersTyped DEF Next
<1> QED
  BY <1>1, <1>2
-----------------------------------------------------------------------------
(* Who owns a descriptor.                                                  *)

\* The listening socket is there as long as the loop runs.
Listening == IF iee \in {"accept", "create"} THEN {Listen} ELSE {}
Owning == Held \cup DOMAIN stream \cup Listening

\* A client has no thread before it is accepted, and is accepted once.
Accepting ==
  /\ iee # "create" => accepted = {}
  /\ iee = "create" => \E c \in Clients : accepted = {c}
  /\ \A c \in accepted : thread[c] = "none"
  /\ \A c \in queued : thread[c] = "none" /\ c \notin accepted
  /\ \A c \in Clients : client[c] = "off" =>
       thread[c] = "none" /\ c \notin queued /\ c \notin accepted

\* What the threads know of the storage service are connections to it.
Connected ==
  /\ serverSocket \in {0} \cup DOMAIN stream
  /\ \A c \in Clients : opened[c] \in {0} \cup DOMAIN stream

Accounted == Running => Owners(fds, Owning) /\ Accepting /\ Connected

LEMMA OwningOthers ==
  ASSUME Typed
  PROVE  /\ Held \subseteq Clients
         /\ DOMAIN stream = 1 .. Len(stream) /\ Len(stream) \in Nat
         /\ DOMAIN stream \subseteq Nat
         /\ Free \notin Owning
         /\ Held \cap Nat = {} /\ Listen \notin Held \cup DOMAIN stream
<1>1. Held \subseteq Clients
  BY DEF Held, Typed
<1>2. DOMAIN stream = 1 .. Len(stream) /\ Len(stream) \in Nat
  BY LenProperties DEF Typed
<1>3. DOMAIN stream \subseteq Nat
  BY <1>2
<1> QED
  BY <1>1, <1>2, <1>3, OwnersAssumption DEF Owning, Listening

LEMMA ExitAccounted ==
  ASSUME Exit
  PROVE  Accounted'
BY DEF Exit, Accounted, Running

LEMMA AccountedInit == Init => Accounted
<1> SUFFICES ASSUME Init PROVE Accounted
  OBVIOUS
<1>1. DOMAIN stream = {} /\ Held = {} /\ Listening = {}
  <2>1. DOMAIN stream = 1 .. Len(stream)
    BY TypedInit, OwningOthers
  <2>2. Len(stream) = 0
    BY EmptySeq DEF Init
  <2>3. Held = {} /\ Listening = {}
    BY DEF Init, Held, Listening
  <2> QED
    BY <2>1, <2>2, <2>3
<1>2. Owners(fds, Owning)
  BY <1>1 DEF Init, Owning, Owners
<1>3. Accepting /\ Connected
  BY DEF Init, Accepting, Connected
<1> QED
  BY <1>2, <1>3 DEF Accounted

\* A step that neither opens nor closes a descriptor, accepts or creates.
LEMMA AccountedKept ==
  ASSUME Typed, Accounted, Held' = Held, Listening' = Listening,
         DOMAIN stream' = DOMAIN stream,
         Running' => Running /\ Accepting' /\ Connected',
         UNCHANGED fds
  PROVE  Accounted'
<1>1. Owning' = Owning
  BY DEF Owning
<1> QED
  BY <1>1 DEF Accounted

LEMMA StartAccounted ==
  ASSUME Typed, Accounted,
         \/ CheckArguments \/ CreateEnclave \/ StartWorkers \/ SetupTls \/ BindFails
         \/ EnterWorker \/ Interrupt \/ DestroyEnclave
  PROVE  Accounted'
<1>0. CASE Exit
  BY <1>0, ExitAccounted
<1>1. ASSUME ~Exit
      PROVE  /\ UNCHANGED <<fds, acceptVars, thread, opVars, clientVars, storeVars>>
             /\ \/ iee' = iee
                \/ {iee, iee'} \subseteq {"args", "enclave", "workers", "tls", "bind"}
  BY <1>1 DEF CheckArguments, CreateEnclave, StartWorkers, SetupTls, EnterWorker, Prepare,
     BindFails, Interrupt, DestroyEnclave, StartUnchanged
<1>2. CASE ~Exit
  <2>1. Held' = Held /\ Listening' = Listening /\ DOMAIN stream' = DOMAIN stream
    BY <1>1, <1>2 DEF Held, Listening, acceptVars, storeVars
  <2>2. Running' => Running
    BY <1>1, <1>2 DEF Running
  <2>3. Accepting /\ Connected => Accepting' /\ Connected'
    BY <1>1, <1>2 DEF Accepting, Connected, acceptVars, opVars, clientVars, storeVars
  <2> QED
    BY <2>1, <2>2, <2>3, <1>1, <1>2, AccountedKept DEF Accounted
<1> QED
  BY <1>0, <1>2

LEMMA BindAccounted ==
  ASSUME Typed, Accounted, BindAddress
  PROVE  Accounted'
<1>1. /\ iee = "bind"
      /\ UNCHANGED <<acceptVars, thread, opVars, clientVars, storeVars>>
  BY DEF BindAddress, StartUnchanged
<1>2. /\ Held' = Held /\ DOMAIN stream' = DOMAIN stream /\ Listening = {}
      /\ Owners(fds, Owning)
  BY <1>1 DEF Held, Listening, acceptVars, storeVars, Accounted, Running
<1>3. iee' \in {"bind", "accept"}
  BY <1>1 DEF BindAddress
<1>4. Accepting' /\ Connected'
  BY <1>1, <1>3 DEF Accepting, Connected, acceptVars, opVars, clientVars, storeVars,
     Accounted, Running
<1>5. CASE fds' = Opened(Listen) /\ iee' = "accept" /\ FreeFds # {}
  <2>1. Owning' = Owning \cup {Listen}
    BY <1>2, <1>5 DEF Owning, Listening
  <2>2. Listen \notin Owning /\ Free \notin Owning /\ Listen # Free
    BY <1>2, OwningOthers, OwnersAssumption DEF Owning
  <2>3. Owners(fds', Owning')
    BY <1>2, <1>5, <2>1, <2>2, OwnerOpens DEF Typed
  <2> QED
    BY <2>3, <1>4 DEF Accounted
<1>6. CASE UNCHANGED <<iee, fds>>
  <2>1. Owning' = Owning
    BY <1>2, <1>6 DEF Owning, Listening
  <2> QED
    BY <2>1, <1>2, <1>4, <1>6 DEF Accounted
<1> QED
  BY <1>5, <1>6 DEF BindAddress

LEMMA AcceptAccounted ==
  ASSUME Typed, Accounted, NEW c \in Clients, AcceptClient(c)
  PROVE  Accounted'
<1>1. /\ iee = "accept" /\ iee' = "create"
      /\ c \in queued /\ queued' = queued \ {c} /\ accepted' = {c}
      /\ FreeFds # {} /\ fds' = Opened(c)
      /\ UNCHANGED <<thread, opVars, clientVars, storeVars>>
  BY DEF AcceptClient
<1>2. Owners(fds, Owning) /\ Accepting /\ Connected
  BY <1>1 DEF Accounted, Running
<1>3. c \notin Held /\ Held' = Held \cup {c}
  BY <1>1, <1>2 DEF Held, Accepting
<1>4. Owning' = Owning \cup {c}
  BY <1>1, <1>3 DEF Owning, Listening, storeVars
<1>5. c \notin Owning /\ c # Free /\ Free \notin Owning
  BY <1>3, OwningOthers, OwnersAssumption DEF Owning, Listening
<1>6. Owners(fds', Owning')
  BY <1>1, <1>2, <1>4, <1>5, OwnerOpens DEF Typed
<1>7. Accepting' /\ Connected'
  BY <1>1, <1>2 DEF Accepting, Connected, opVars, clientVars, storeVars
<1> QED
  BY <1>6, <1>7 DEF Accounted

LEMMA StopAccounted ==
  ASSUME Typed, Accounted, AcceptFails
  PROVE  Accounted'
<1>1. /\ iee = "accept" /\ iee' = "stopping"
      /\ fds' = Closed(Listen) /\ client' = Dropped(queued) /\ queued' = {}
      /\ UNCHANGED <<accepted, thread, opVars, storeVars>>
  BY DEF AcceptFails
<1>2. Owners(fds, Owning) /\ Accepting /\ Connected
  BY <1>1 DEF Accounted, Running
<1>3. Held' = Held /\ DOMAIN stream' = DOMAIN stream
  BY <1>1 DEF Held, storeVars
<1>4. Owning' = Owning \ {Listen} /\ Listen \in Owning /\ Free \notin Owning
  BY <1>1, <1>3, OwningOthers DEF Owning, Listening
<1>5. Owners(fds', Owning')
  BY <1>1, <1>2, <1>4, OwnerCloses DEF Typed
<1>6. \A d \in Clients : client'[d] = "off" => client[d] = "off"
  BY <1>1 DEF Dropped
<1>7. Accepting' /\ Connected'
  BY <1>1, <1>2, <1>6 DEF Accepting, Connected, opVars, storeVars
<1> QED
  BY <1>5, <1>7 DEF Accounted

LEMMA CreateAccounted ==
  ASSUME Typed, Accounted, CreateThread
  PROVE  Accounted'
<1>1. PICK c \in accepted :
        /\ iee = "create" /\ iee' = "accept" /\ accepted' = {}
        /\ thread' = [thread EXCEPT ![c] = "start"]
        /\ UNCHANGED <<fds, queued, opVars, clientVars, storeVars>>
  BY DEF CreateThread
<1>2. Owners(fds, Owning) /\ Accepting /\ Connected
  BY <1>1 DEF Accounted, Running
<1>3. accepted = {c} /\ c \in Clients /\ thread[c] = "none" /\ c \notin queued
      /\ client[c] # "off"
  BY <1>1, <1>2 DEF Accepting, Typed
<1>4. Held' = Held
  BY <1>1, <1>3 DEF Held, Typed
<1>5. Owning' = Owning
  BY <1>1, <1>4 DEF Owning, Listening, storeVars
<1>6. Accepting' /\ Connected'
  BY <1>1, <1>2, <1>3 DEF Accepting, Connected, opVars, clientVars, storeVars, Typed
<1> QED
  BY <1>1, <1>2, <1>5, <1>6 DEF Accounted

LEMMA CreateFailsAccounted ==
  ASSUME Typed, Accounted, CreateThreadFails
  PROVE  Accounted'
<1>1. PICK c \in accepted :
        /\ iee = "create" /\ iee' = "accept" /\ accepted' = {}
        /\ fds' = Closed(c) /\ client' = Dropped({c})
        /\ UNCHANGED <<queued, thread, opVars, storeVars>>
  BY DEF CreateThreadFails
<1>2. Owners(fds, Owning) /\ Accepting /\ Connected
  BY <1>1 DEF Accounted, Running
<1>3. accepted = {c} /\ c \in Clients /\ thread[c] = "none"
  BY <1>1, <1>2 DEF Accepting, Typed
<1>4. Held' = Held \ {c} /\ c \in Held
  BY <1>1, <1>3 DEF Held
<1>5. c \notin DOMAIN stream /\ c # Listen /\ Free \notin Owning
  BY <1>3, OwningOthers, OwnersAssumption
<1>6. Owning' = Owning \ {c} /\ c \in Owning
  BY <1>1, <1>4, <1>5 DEF Owning, Listening, storeVars
<1>7. Owners(fds', Owning')
  BY <1>1, <1>2, <1>5, <1>6, OwnerCloses DEF Typed
<1>8. \A d \in Clients : client'[d] = "off" => client[d] = "off"
  BY <1>1 DEF Dropped
<1>9. Accepting' /\ Connected'
  BY <1>1, <1>2, <1>8 DEF Accepting, Connected, opVars, storeVars
<1> QED
  BY <1>7, <1>9 DEF Accounted

\* The steps of a thread that leave descriptors and connections alone.
LEMMA ServeAccounted ==
  ASSUME Typed, Accounted, NEW c \in Clients,
         EnterEnclave(c) \/ Handshake(c) \/ BeginRequest(c) \/ Reply(c) \/ EndOfClient(c)
  PROVE  Accounted'
<1>1. /\ Running /\ thread[c] \in {"start", "handshake", "idle", "op"}
      /\ \E t \in {"handshake", "idle", "op", "leaving"} :
           thread' = [thread EXCEPT ![c] = t]
      /\ UNCHANGED <<iee, fds, queued, accepted, serverSocket, opened, stream>>
  BY DEF EnterEnclave, Handshake, BeginRequest, Reply, EndOfClient, ThreadUnchanged,
     acceptVars, opVars, storeVars
<1>2. \A d \in Clients : client'[d] = "off" => client[d] = "off"
  BY DEF EnterEnclave, Handshake, BeginRequest, Reply, EndOfClient, Typed
<1>3. Accepting /\ Connected
  BY <1>1 DEF Accounted
<1>4. \A d \in Clients : thread[d] = "none" => thread'[d] = "none"
  BY <1>1 DEF Typed
<1>5. Accepting' /\ Connected'
  BY <1>1, <1>2, <1>3, <1>4 DEF Accepting, Connected, Typed
<1>6. Held' = Held
  BY <1>1 DEF Held, Typed
<1> QED
  BY <1>1, <1>5, <1>6, AccountedKept DEF Listening

LEMMA FreeAccounted ==
  ASSUME Typed, Accounted, NEW c \in Clients, FreeClient(c)
  PROVE  Accounted'
<1>1. /\ Running /\ thread[c] = "leaving"
      /\ thread' = [thread EXCEPT ![c] = "done"]
      /\ fds' = Closed(c) /\ client' = Dropped({c})
      /\ UNCHANGED <<iee, queued, accepted, serverSocket, opened, stream>>
  BY DEF FreeClient, ThreadUnchanged, acceptVars, opVars, storeVars
<1>2. Owners(fds, Owning) /\ Accepting /\ Connected
  BY <1>1 DEF Accounted
<1>3. c \notin accepted /\ c \notin queued /\ client[c] # "off"
  BY <1>1, <1>2 DEF Accepting
<1>4. Held' = Held \ {c} /\ c \in Held
  BY <1>1, <1>3 DEF Held, Typed
<1>5. c \notin DOMAIN stream /\ c # Listen /\ Free \notin Owning
  BY OwningOthers, OwnersAssumption
<1>6. Owning' = Owning \ {c} /\ c \in Owning
  BY <1>1, <1>4, <1>5 DEF Owning, Listening
<1>7. Owners(fds', Owning')
  BY <1>1, <1>2, <1>5, <1>6, OwnerCloses DEF Typed
<1>8. \A d \in Clients : client'[d] = "off" => client[d] = "off"
  BY <1>1 DEF Dropped
<1>9. Accepting' /\ Connected'
  BY <1>1, <1>2, <1>3, <1>8 DEF Accepting, Connected, Typed
<1> QED
  BY <1>7, <1>9 DEF Accounted

LEMMA OpenStorageAccounted ==
  ASSUME Typed, Accounted, NEW c \in Clients, OpenStorage(c), ~Exit
  PROVE  Accounted'
<1> DEFINE k == Len(stream) + 1
<1>1. /\ Running /\ FreeFds # {} /\ fds' = Opened(k)
      /\ opened' = [opened EXCEPT ![c] = k]
      /\ stream' = Append(stream, <<>>)
      /\ UNCHANGED <<iee, queued, accepted, thread, serverSocket, client>>
  BY DEF OpenStorage, At, Connectable, AcceptConnection, OpUnchanged, acceptVars, clientVars
<1>2. Owners(fds, Owning) /\ Accepting /\ Connected
  BY <1>1 DEF Accounted
<1>3. DOMAIN stream = 1 .. Len(stream) /\ Len(stream) \in Nat
  BY OwningOthers
<1>4. DOMAIN stream' = 1 .. k
  <2>1. <<>> \in Seq(Message)
    BY EmptySeq
  <2>2. stream' \in Seq(Seq(Message)) /\ Len(stream') = k
    BY <1>1, <2>1, AppendProperties DEF Typed
  <2> QED
    BY <2>2, LenProperties
<1>5. DOMAIN stream' = DOMAIN stream \cup {k} /\ k \notin DOMAIN stream /\ k \in Nat
  BY <1>3, <1>4
<1>6. Held' = Held
  BY <1>1 DEF Held
<1> HIDE DEF k
<1>7. Owning' = Owning \cup {k}
  BY <1>1, <1>5, <1>6 DEF Owning, Listening
<1>8. k \notin Owning /\ k # Free /\ Free \notin Owning
  BY <1>5, OwningOthers, OwnersAssumption DEF Owning, Listening
<1>9. Owners(fds', Owning')
  BY <1>1, <1>2, <1>7, <1>8, OwnerOpens DEF Typed
<1>10. Accepting'
  BY <1>1, <1>2 DEF Accepting
<1>11. Connected'
  BY <1>1, <1>2, <1>5 DEF Connected, Typed
<1> QED
  BY <1>9, <1>10, <1>11 DEF Accounted

\* The steps that use or adopt a connection.
LEMMA UseAccounted ==
  ASSUME Typed, Accounted, NEW c \in Clients,
         Publish(c) \/ SendToStorage(c) \/ ReceiveFromStorage(c), ~Exit
  PROVE  Accounted'
<1>1. /\ Running
      /\ UNCHANGED <<iee, fds, queued, accepted, thread, client>>
      /\ serverSocket' \in {serverSocket, opened[c]}
      /\ \A d \in Clients : opened'[d] \in {0, opened[d]}
      /\ DOMAIN stream' = DOMAIN stream
  BY DEF Publish, SendToStorage, ReceiveFromStorage, At, OpUnchanged, acceptVars, clientVars,
     storeVars, Typed
<1>2. Accepting /\ Connected
  BY <1>1 DEF Accounted
<1>3. Accepting' /\ Connected'
  BY <1>1, <1>2 DEF Accepting, Connected
<1> QED
  BY <1>1, <1>3, AccountedKept DEF Held, Listening

LEMMA ThreadAccounted ==
  ASSUME Typed, Accounted, NEW c \in Clients, Thread(c)
  PROVE  Accounted'
<1>1. CASE Exit
  BY <1>1, ExitAccounted
<1>2. CASE CutOff(c)
  BY <1>1, <1>2 DEF CutOff
<1> QED
  BY <1>1, <1>2, ServeAccounted, FreeAccounted, OpenStorageAccounted, UseAccounted DEF Thread

LEMMA OthersAccounted ==
  ASSUME Typed, Accounted,
         \/ Storage
         \/ \E c \in Clients : StartFails(c) \/ Connect(c) \/ DatasetMissing(c)
                               \/ SendRequest(c) \/ Leave(c)
  PROVE  Accounted'
<1>1. /\ UNCHANGED <<iee, fds, accepted, thread, opVars>>
      /\ DOMAIN stream' = DOMAIN stream
  BY DEF Storage, StartStorage, ReadCommand, ReadRest, ReadGarbled, StoreUnchanged,
     StartFails, Connect, DatasetMissing, SendRequest, Leave, ClientUnchanged, acceptVars,
     storeVars
<1>2. /\ \A d \in queued' : d \in queued \/ client[d] = "off"
      /\ \A d \in Clients : client'[d] = "off" => client[d] = "off" /\ d \notin queued' \ queued
  <2>1. CASE Storage
    BY <2>1 DEF Storage, StartStorage, ReadCommand, ReadRest, ReadGarbled, StoreUnchanged,
       acceptVars, clientVars
  <2>2. ASSUME NEW c \in Clients, StartFails(c) \/ Connect(c) \/ DatasetMissing(c)
                                  \/ SendRequest(c) \/ Leave(c)
        PROVE  /\ \A d \in queued' : d \in queued \/ client[d] = "off"
               /\ \A d \in Clients : client'[d] = "off" =>
                    client[d] = "off" /\ d \notin queued' \ queued
    BY <2>2 DEF StartFails, Connect, DatasetMissing, SendRequest, Leave, Typed
  <2> QED
    BY <2>1, <2>2
<1>3. Running => Accepting' /\ Connected'
  <2>1. queued' \subseteq Clients
    BY OthersTyped DEF Typed
  <2> QED
    BY <1>1, <1>2, <2>1 DEF Accounted, Accepting, Connected, opVars, Typed
<1> QED
  BY <1>1, <1>3, AccountedKept DEF Held, Listening, Running

LEMMA AccountedStep == Typed /\ Accounted /\ [Next]_vars => Accounted'
<1> SUFFICES ASSUME Typed, Accounted, [Next]_vars
             PROVE  Accounted'
  OBVIOUS
<1>1. CASE UNCHANGED vars
  BY <1>1, AccountedKept DEF vars, acceptVars, opVars, clientVars, storeVars, Held, Listening,
     Running, Accounted, Accepting, Connected
<1>2. CASE Main
  BY <1>2, StartAccounted, BindAccounted, AcceptAccounted, StopAccounted, CreateAccounted,
     CreateFailsAccounted DEF Main
<1>3. CASE Next
  BY <1>2, <1>3, StartAccounted, ThreadAccounted, OthersAccounted DEF Next
<1> QED
  BY <1>1, <1>3

\* Whoever connects, sets up and goes, every descriptor of the process belongs to the
\* listening socket, to one client that is served, or to one connection to the storage
\* service: each close() and mbedtls_net_free() of the process finds the one it means.
THEOREM NoDescriptorLost == Spec => []DescriptorsAccounted
<1>1. Typed /\ Accounted => DescriptorsAccounted
  <2> SUFFICES ASSUME Typed, Accounted, Running
               PROVE  /\ \A n \in Fds : fds[n] \in {Free, Listen} \cup Held \cup DOMAIN stream
                      /\ \A o \in Held \cup DOMAIN stream : Cardinality(Open(o)) = 1
                      /\ Cardinality(Open(Listen)) = IF iee \in {"accept", "create"}
                                                     THEN 1 ELSE 0
                      /\ serverSocket \in {0} \cup DOMAIN stream
    BY DEF DescriptorsAccounted
  <2>1. Owners(fds, Owning) /\ Free \notin Owning
    BY OwningOthers DEF Accounted
  <2>2. \A n \in Fds : fds[n] \in {Free, Listen} \cup Held \cup DOMAIN stream
    BY <2>1 DEF Owners, Owning, Listening
  <2>3. \A o \in Owning : Cardinality(Open(o)) = 1
    BY <2>1, OneDescriptor
  <2>4. \A o \in Held \cup DOMAIN stream : Cardinality(Open(o)) = 1
    BY <2>3 DEF Owning
  <2>5. CASE iee \in {"accept", "create"}
    <3>1. Cardinality(Open(Listen)) = 1
      BY <2>3, <2>5 DEF Owning, Listening
    <3> QED
      BY <2>2, <2>4, <2>5, <3>1 DEF Accounted, Connected
  <2>6. CASE iee \notin {"accept", "create"}
    <3>1. Listen \notin Owning /\ Listen # Free
      BY <2>6, OwningOthers, OwnersAssumption DEF Owning, Listening
    <3>2. Open(Listen) = {}
      BY <2>1, <3>1 DEF Owners, Open
    <3>3. Cardinality(Open(Listen)) = 0
      BY <3>2, FS_EmptySet
    <3> QED
      BY <2>2, <2>4, <2>6, <3>3 DEF Accounted, Connected
  <2> QED
    BY <2>5, <2>6
<1> QED
  BY <1>1, TypedInit, AccountedInit, TypedStep, AccountedStep, PTL DEF Spec
-----------------------------------------------------------------------------
(* What is left of a request.                                              *)

Remainders ==
  {<<>>, <<"open", "publish", "init">>, <<"publish", "init">>, <<"init">>,
   <<"addOp", "addSize", "addData">>, <<"addSize", "addData">>, <<"addData">>,
   <<"start", "labels", "answer">>, <<"labels", "answer">>, <<"answer">>, <<"dump">>}

\* Of a message of several sends the first has been sent.
Adding(s) == s # <<>> /\ Head(s) \in {"addSize", "addData"}

LEMMA RemainderShrinks ==
  ASSUME NEW s \in Remainders, s # <<>>
  PROVE  /\ Tail(s) \in Remainders
         /\ Head(s) = "addOp" => Tail(s) # <<>> /\ Head(Tail(s)) = "addSize"
         /\ Head(s) = "addSize" => Tail(s) # <<>> /\ Head(Tail(s)) = "addData"
         /\ Head(s) \notin {"addOp", "addSize"} => ~Adding(Tail(s))
<1>1. CASE s = <<"open", "publish", "init">>
  <2>1. Head(s) = "open" /\ Tail(s) = <<"publish", "init">>
    BY <1>1
  <2> QED
    BY <2>1 DEF Remainders, Adding
<1>2. CASE s = <<"publish", "init">>
  <2>1. Head(s) = "publish" /\ Tail(s) = <<"init">>
    BY <1>2
  <2> QED
    BY <2>1 DEF Remainders, Adding
<1>3. CASE s = <<"init">>
  <2>1. Head(s) = "init" /\ Tail(s) = <<>>
    BY <1>3
  <2> QED
    BY <2>1 DEF Remainders, Adding
<1>4. CASE s = <<"addOp", "addSize", "addData">>
  <2>1. Head(s) = "addOp" /\ Tail(s) = <<"addSize", "addData">>
    BY <1>4
  <2> QED
    BY <2>1 DEF Remainders, Adding
<1>5. CASE s = <<"addSize", "addData">>
  <2>1. Head(s) = "addSize" /\ Tail(s) = <<"addData">>
    BY <1>5
  <2> QED
    BY <2>1 DEF Remainders, Adding
<1>6. CASE s = <<"addData">>
  <2>1. Head(s) = "addData" /\ Tail(s) = <<>>
    BY <1>6
  <2> QED
    BY <2>1 DEF Remainders, Adding
<1>7. CASE s = <<"start", "labels", "answer">>
  <2>1. Head(s) = "start" /\ Tail(s) = <<"labels", "answer">>
    BY <1>7
  <2> QED
    BY <2>1 DEF Remainders, Adding
<1>8. CASE s = <<"labels", "answer">>
  <2>1. Head(s) = "labels" /\ Tail(s) = <<"answer">>
    BY <1>8
  <2> QED
    BY <2>1 DEF Remainders, Adding
<1>9. CASE s = <<"answer">>
  <2>1. Head(s) = "answer" /\ Tail(s) = <<>>
    BY <1>9
  <2> QED
    BY <2>1 DEF Remainders, Adding
<1>10. CASE s = <<"dump">>
  <2>1. Head(s) = "dump" /\ Tail(s) = <<>>
    BY <1>10
  <2> QED
    BY <2>1 DEF Remainders, Adding
<1> QED
  BY <1>1, <1>2, <1>3, <1>4, <1>5, <1>6, <1>7, <1>8, <1>9, <1>10 DEF Remainders

Requests == {"setup", "add", "search", "dump"}

LEMMA StepsRemain ==
  ASSUME NEW r \in Requests
  PROVE  Steps(r) \in Remainders /\ ~Adding(Steps(r))
BY DEF Steps, Remainders, Adding, Requests

\* What the storage service may still expect of a message it has begun to read.
Rests ==
  {<<>>} \cup {<<<<c, "addSize">>, <<c, "addData">>>> : c \in Clients}
         \cup {<<<<c, "addData">>>> : c \in Clients}

LEMMA Single ==
  ASSUME NEW d
  PROVE  <<d>> # <<>> /\ Head(<<d>>) = d
OBVIOUS

LEMMA RestShrinks ==
  ASSUME NEW r \in Rests, r # <<>>
  PROVE  \E c \in Clients :
           \/ Head(r) = <<c, "addSize">> /\ Tail(r) = <<<<c, "addData">>>>
           \/ Head(r) = <<c, "addData">> /\ Tail(r) = <<>>
<1>1. ASSUME NEW c \in Clients, r = <<<<c, "addSize">>, <<c, "addData">>>>
      PROVE  Head(r) = <<c, "addSize">> /\ Tail(r) = <<<<c, "addData">>>>
  BY <1>1
<1>2. ASSUME NEW c \in Clients, r = <<<<c, "addData">>>>
      PROVE  Head(r) = <<c, "addData">> /\ Tail(r) = <<>>
  BY <1>2
<1> QED
  BY <1>1, <1>2 DEF Rests

Counts == 0 .. MaxRequests

LEMMA Nothing ==
  /\ 0 \in Counts /\ <<>> \in Remainders
  /\ \A n \in Counts : n < MaxRequests => n \in 0 .. 3 /\ n + 1 \in Counts
<1>1. MaxRequests \in Nat /\ MaxRequests <= 4
  BY BoundsAssumption
<1> QED
  BY <1>1 DEF Counts, Remainders

\* A request of a client is in its thread's hands from its beginning to its reply.
Asking ==
  /\ pending \in [Clients -> Requests \cup {""}]
  /\ requests \in [Clients -> Counts]
  /\ todo \in [Clients -> Remainders]
  /\ \A c \in Clients : thread[c] # "op" => todo[c] = <<>>

askingVars == <<pending, requests, todo, thread>>

LEMMA AskingInit == Init => Asking
<1> SUFFICES ASSUME Init PROVE Asking
  OBVIOUS
<1>1. pending \in [Clients -> Requests \cup {""}] /\ requests \in [Clients -> Counts]
  BY Nothing DEF Init
<1>2. todo \in [Clients -> Remainders] /\ \A c \in Clients : todo[c] = <<>>
  BY Nothing DEF Init
<1> QED
  BY <1>1, <1>2 DEF Asking

LEMMA AskingKept ==
  ASSUME Asking, UNCHANGED askingVars
  PROVE  Asking'
BY DEF Asking, askingVars

LEMMA ExitAsking ==
  ASSUME Exit
  PROVE  Asking'
<1>1. pending' \in [Clients -> Requests \cup {""}] /\ requests' \in [Clients -> Counts]
  BY Nothing DEF Exit
<1>2. todo' \in [Clients -> Remainders] /\ \A c \in Clients : todo'[c] = <<>>
  BY Nothing DEF Exit
<1> QED
  BY <1>1, <1>2 DEF Asking

LEMMA MainAsking ==
  ASSUME Typed, Accounted, Asking, Main \/ EnterWorker \/ Interrupt \/ DestroyEnclave
  PROVE  Asking'
<1>0. CASE Exit
  BY <1>0, ExitAsking
<1>1. CASE CreateThread
  <2>1. PICK c \in accepted : thread' = [thread EXCEPT ![c] = "start"]
    BY <1>1 DEF CreateThread
  <2>2. thread[c] = "none"
    BY <1>1 DEF CreateThread, Accounted, Accepting, Running
  <2>3. UNCHANGED <<pending, requests, todo>>
    BY <1>1 DEF CreateThread, clientVars, opVars
  <2>4. \A d \in Clients : thread'[d] # "op" => todo[d] = <<>>
    BY <2>1, <2>2 DEF Asking, Typed
  <2> QED
    BY <2>1, <2>3, <2>4 DEF Asking, Typed
<1>2. ASSUME ~Exit, ~CreateThread
      PROVE  UNCHANGED askingVars
  BY <1>2 DEF Main, CheckArguments, CreateEnclave, StartWorkers, SetupTls, EnterWorker,
     Prepare, BindAddress, BindFails, AcceptClient, AcceptFails, CreateThreadFails,
     Interrupt, DestroyEnclave, StartUnchanged, opVars, clientVars, askingVars
<1> QED
  BY <1>0, <1>1, <1>2, AskingKept

LEMMA ThreadAsking ==
  ASSUME Typed, Asking, NEW c \in Clients, Thread(c)
  PROVE  Asking'
<1>0. CASE Exit
  BY <1>0, ExitAsking
<1>1. CASE EnterEnclave(c) \/ Handshake(c) \/ Reply(c) \/ EndOfClient(c) \/ FreeClient(c)
  <2>1. /\ UNCHANGED <<requests, todo>>
        /\ todo[c] = <<>>
        /\ \E t \in ThreadStates : thread' = [thread EXCEPT ![c] = t]
        /\ pending' = pending \/ pending' = [pending EXCEPT ![c] = ""]
    BY <1>1 DEF EnterEnclave, Handshake, Reply, EndOfClient, FreeClient, ThreadUnchanged,
       opVars, Asking, ThreadStates
  <2> QED
    BY <2>1 DEF Asking, Typed
<1>2. CASE BeginRequest(c)
  <2>1. /\ UNCHANGED <<requests, pending>>
        /\ pending[c] \in Requests
        /\ thread' = [thread EXCEPT ![c] = "op"]
        /\ todo' = [todo EXCEPT ![c] = Steps(pending[c])]
    BY <1>2 DEF BeginRequest, ThreadUnchanged, Asking
  <2>2. Steps(pending[c]) \in Remainders
    BY <2>1, StepsRemain
  <2> QED
    BY <2>1, <2>2 DEF Asking, Typed
<1>3. CASE ~Exit /\ (OpenStorage(c) \/ Publish(c) \/ SendToStorage(c) \/ ReceiveFromStorage(c))
  <2>1. /\ UNCHANGED <<requests, pending, thread>>
        /\ todo[c] # <<>>
        /\ todo' = [todo EXCEPT ![c] = Tail(todo[c])]
    BY <1>3 DEF OpenStorage, Publish, SendToStorage, ReceiveFromStorage, At, Done,
       OpUnchanged, clientVars
  <2>2. Tail(todo[c]) \in Remainders /\ thread[c] = "op"
    BY <2>1, RemainderShrinks DEF Asking
  <2> QED
    BY <2>1, <2>2 DEF Asking
<1> QED
  BY <1>0, <1>1, <1>2, <1>3 DEF Thread, CutOff

LEMMA OthersAsking ==
  ASSUME Typed, Asking,
         \/ Storage
         \/ \E c \in Clients : StartFails(c) \/ Connect(c) \/ DatasetMissing(c)
                               \/ SendRequest(c) \/ Leave(c)
  PROVE  Asking'
<1>1. CASE Storage
  BY <1>1, AskingKept DEF Storage, StartStorage, ReadCommand, ReadRest, ReadGarbled,
     StoreUnchanged, opVars, clientVars, askingVars
<1>2. ASSUME NEW c \in Clients, StartFails(c) \/ Connect(c) \/ DatasetMissing(c)
      PROVE  Asking'
  BY <1>2, AskingKept DEF StartFails, Connect, DatasetMissing, ClientUnchanged, opVars,
     askingVars
<1>3. ASSUME NEW c \in Clients, SendRequest(c)
      PROVE  Asking'
  <2>1. /\ requests[c] \in 0 .. 3 /\ requests[c] + 1 \in Counts
        /\ pending' = [pending EXCEPT ![c] = Session[requests[c] + 1]]
        /\ requests' = [requests EXCEPT ![c] = requests[c] + 1]
        /\ UNCHANGED <<todo, thread>>
    BY <1>3, Nothing DEF SendRequest, ClientUnchanged, opVars, Asking
  <2>2. \A i \in 1 .. 4 : Session[i] \in Requests
    BY DEF Session, Requests
  <2>3. Session[requests[c] + 1] \in Requests
    BY <2>1, <2>2
  <2> QED
    BY <2>1, <2>3 DEF Asking
<1>4. ASSUME NEW c \in Clients, Leave(c)
      PROVE  Asking'
  BY <1>4, Nothing DEF Leave, ClientUnchanged, opVars, Asking
<1> QED
  BY <1>1, <1>2, <1>3, <1>4

LEMMA AskingStep == Typed /\ Accounted /\ Asking /\ [Next]_vars => Asking'
<1> SUFFICES ASSUME Typed, Accounted, Asking, [Next]_vars
             PROVE  Asking'
  OBVIOUS
<1>1. CASE UNCHANGED vars
  BY <1>1, AskingKept DEF vars, opVars, clientVars, askingVars
<1>2. CASE Next
  BY <1>2, MainAsking, ThreadAsking, OthersAsking DEF Next
<1> QED
  BY <1>1, <1>2
-----------------------------------------------------------------------------
(* The order of the sends on a connection.                                 *)

\* What has to follow the send m: <<>> stands for any command.
After(m) == IF m[2] = "addOp" THEN <<m[1], "addSize">>
            ELSE IF m[2] = "addSize" THEN <<m[1], "addData">> ELSE <<>>
Fits(m, due) == IF due = <<>> THEN m[2] \in Commands ELSE m = due

\* What is due at place i of connection k, and after all that was sent on it.
Due(k, i) == IF i > 1 THEN After(stream[k][i - 1])
             ELSE IF rest[k] # <<>> THEN Head(rest[k]) ELSE <<>>
Owed(k) == Due(k, Len(stream[k]) + 1)

Reading == rest \in Seq(Rests) /\ Len(rest) = Len(stream)

\* One thread at a time handles a request.
Alone == \A c \in Clients : \A d \in Clients : thread[c] = "op" /\ thread[d] = "op" => c = d

\* The rest of a message is due where the thread that owes it will send it.
Orderly ==
  /\ \A k \in DOMAIN stream : \A i \in DOMAIN stream[k] : Fits(stream[k][i], Due(k, i))
  /\ \A k \in DOMAIN stream : Owed(k) # <<>> =>
       /\ k = serverSocket
       /\ \E c \in Clients : Adding(todo[c]) /\ Owed(k) = <<c, Head(todo[c])>>
  /\ \A c \in Clients : Adding(todo[c]) /\ serverSocket \in DOMAIN stream =>
       Owed(serverSocket) = <<c, Head(todo[c])>>

Framed == Reading /\ (~overlapped => Alone /\ Orderly)

LEMMA FramedInit == Init => Framed
<1> SUFFICES ASSUME Init PROVE Framed
  OBVIOUS
<1>1. DOMAIN stream = {}
  <2>1. DOMAIN stream = 1 .. Len(stream)
    BY TypedInit, OwningOthers
  <2>2. Len(stream) = 0
    BY EmptySeq DEF Init
  <2> QED
    BY <2>1, <2>2
<1>2. Reading
  BY EmptySeq DEF Init, Reading
<1>3. Alone
  BY DEF Init, Alone
<1>4. \A c \in Clients : ~Adding(todo[c])
  BY DEF Init, Adding
<1> QED
  BY <1>1, <1>2, <1>3, <1>4 DEF Framed, Orderly

LEMMA ExitFramed ==
  ASSUME Exit
  PROVE  Framed'
<1>1. Reading'
  BY EmptySeq DEF Exit, Reading
<1>2. Alone'
  BY DEF Exit, Alone
<1>3. DOMAIN stream' = {}
  <2>1. stream' \in Seq(Seq(Message)) /\ Len(stream') = 0
    BY NoStreams, EmptySeq DEF Exit
  <2>2. DOMAIN stream' = 1 .. Len(stream')
    BY <2>1, LenProperties
  <2> QED
    BY <2>1, <2>2
<1>4. \A c \in Clients : ~Adding(todo'[c])
  BY DEF Exit, Adding
<1> QED
  BY <1>1, <1>2, <1>3, <1>4 DEF Framed, Orderly

\* No step but the end of the process takes an overlap back.
LEMMA FramedKept ==
  ASSUME Framed, UNCHANGED <<serverSocket, stream, rest, todo, overlapped>>,
         \A c \in Clients : thread'[c] = "op" => thread[c] = "op"
  PROVE  Framed'
<1>1. Reading'
  BY DEF Framed, Reading
<1>2. ~overlapped => Alone'
  BY DEF Framed, Alone
<1>3. ~overlapped => Orderly'
  BY DEF Framed, Orderly, Owed, Due
<1> QED
  BY <1>1, <1>2, <1>3 DEF Framed

\* No message is under way before and after the step.
LEMMA NobodyAdds ==
  ASSUME Orderly, UNCHANGED <<stream, rest>>,
         \A c \in Clients : ~Adding(todo[c]) /\ ~Adding(todo'[c])
  PROVE  Orderly'
BY DEF Orderly, Owed, Due

LEMMA OnlyOne ==
  ASSUME Asking, Alone, NEW c \in Clients, thread[c] = "op"
  PROVE  \A d \in Clients : todo[d] # <<>> => d = c
BY DEF Asking, Alone

LEMMA MainFramed ==
  ASSUME Typed, Framed, Main \/ EnterWorker \/ Interrupt \/ DestroyEnclave
  PROVE  Framed'
<1>0. CASE Exit
  BY <1>0, ExitFramed
<1>1. ASSUME ~Exit
      PROVE  /\ UNCHANGED <<opVars, storeVars>>
             /\ thread' = thread \/ \E c : thread' = [thread EXCEPT ![c] = "start"]
  BY <1>1 DEF Main, CheckArguments, CreateEnclave, StartWorkers, SetupTls, EnterWorker,
     Prepare, BindAddress, BindFails, AcceptClient, AcceptFails, CreateThread,
     CreateThreadFails, Interrupt, DestroyEnclave, StartUnchanged
<1> QED
  BY <1>0, <1>1, FramedKept DEF opVars, storeVars, Typed

LEMMA ServeFramed ==
  ASSUME Typed, Framed, NEW c \in Clients,
         EnterEnclave(c) \/ Handshake(c) \/ Reply(c) \/ EndOfClient(c) \/ FreeClient(c)
  PROVE  Framed'
<1>1. /\ UNCHANGED <<opVars, storeVars>>
      /\ \E t \in ThreadStates \ {"op"} : thread' = [thread EXCEPT ![c] = t]
  BY DEF EnterEnclave, Handshake, Reply, EndOfClient, FreeClient, ThreadUnchanged, ThreadStates
<1>2. \A d \in Clients : thread'[d] = "op" => thread[d] = "op"
  BY <1>1 DEF Typed
<1> QED
  BY <1>1, <1>2, FramedKept DEF opVars, storeVars

LEMMA BeginFramed ==
  ASSUME Typed, Asking, Framed, NEW c \in Clients, BeginRequest(c)
  PROVE  Framed'
<1>1. /\ thread[c] = "idle" /\ pending[c] \in Requests
      /\ thread' = [thread EXCEPT ![c] = "op"]
      /\ todo' = [todo EXCEPT ![c] = Steps(pending[c])]
      /\ UNCHANGED <<serverSocket, stream, rest>>
  BY DEF BeginRequest, Asking, ThreadUnchanged, storeVars
<1>2. ~overlapped' => ~overlapped /\ \A d \in Clients : thread[d] # "op"
  BY DEF BeginRequest
<1>3. Reading'
  BY <1>1 DEF Framed, Reading
<1>4. ASSUME ~overlapped'
      PROVE  Alone' /\ Orderly'
  <2>1. Alone'
    BY <1>1, <1>2, <1>4 DEF Alone, Typed
  <2>2. \A d \in Clients : todo[d] = <<>>
    BY <1>2, <1>4 DEF Asking
  <2>3. \A d \in Clients : ~Adding(todo[d]) /\ ~Adding(todo'[d])
    BY <1>1, <2>2, StepsRemain DEF Adding, Asking
  <2> QED
    BY <1>1, <1>2, <1>4, <2>1, <2>3, NobodyAdds DEF Framed
<1> QED
  BY <1>3, <1>4 DEF Framed

LEMMA OpenStorageFramed ==
  ASSUME Typed, Asking, Framed, NEW c \in Clients, OpenStorage(c), ~Exit
  PROVE  Framed'
<1>0. PICK n \in Nat : n = Len(stream) + 1
  BY LenProperties DEF Typed
<1>1. /\ thread[c] = "op" /\ todo[c] # <<>> /\ Head(todo[c]) = "open"
      /\ todo' = [todo EXCEPT ![c] = Tail(todo[c])]
      /\ stream' = Append(stream, <<>>) /\ rest' = Append(rest, <<>>)
      /\ UNCHANGED <<thread, serverSocket, overlapped>>
  BY DEF OpenStorage, At, Done, AcceptConnection, OpUnchanged
<1>2. /\ Len(stream) \in Nat /\ DOMAIN stream = 1 .. Len(stream)
      /\ DOMAIN stream' = 1 .. n /\ Len(stream') = n
      /\ \A k \in DOMAIN stream : stream'[k] = stream[k]
      /\ stream'[n] = <<>>
  <2>1. <<>> \in Seq(Message)
    BY EmptySeq
  <2>2. stream \in Seq(Seq(Message))
    BY DEF Typed
  <2>3. stream' \in Seq(Seq(Message))
    BY <1>1, <2>1, <2>2, AppendProperties
  <2> QED
    BY <1>0, <1>1, <2>1, <2>2, <2>3, AppendProperties, LenProperties
<1>3. /\ rest' \in Seq(Rests) /\ Len(rest') = n
      /\ \A k \in DOMAIN stream : rest'[k] = rest[k]
      /\ rest'[n] = <<>>
  <2>1. <<>> \in Rests /\ rest \in Seq(Rests) /\ Len(rest) = Len(stream)
    BY DEF Rests, Framed, Reading
  <2>2. rest' \in Seq(Rests)
    BY <1>1, <2>1, AppendProperties
  <2> QED
    BY <1>0, <1>1, <1>2, <2>1, <2>2, AppendProperties
<1>4. Reading'
  BY <1>2, <1>3 DEF Reading
<1>5. ASSUME ~overlapped'
      PROVE  Alone' /\ Orderly'
  <2>1. Alone /\ Orderly
    BY <1>1, <1>5 DEF Framed
  <2>2. \A d \in Clients : ~Adding(todo[d]) /\ ~Adding(todo'[d])
    <3>1. \A d \in Clients : todo[d] # <<>> => d = c
      BY <1>1, <2>1, OnlyOne
    <3>2. ~Adding(Tail(todo[c]))
      BY <1>1, RemainderShrinks DEF Asking
    <3> QED
      BY <1>1, <3>1, <3>2 DEF Adding, Asking
  <2>3. \A k \in DOMAIN stream : Owed(k)' = Owed(k) /\ \A i \in Nat : Due(k, i)' = Due(k, i)
    BY <1>2, <1>3 DEF Owed, Due
  <2>4. \A k \in DOMAIN stream' : k \in DOMAIN stream \/ k = n
    BY <1>0, <1>2
  <2>5. Owed(n)' = <<>> /\ DOMAIN stream'[n] = {}
    <3>1. Len(stream'[n]) = 0 /\ DOMAIN stream'[n] = {}
      <4>1. <<>> \in Seq(Message) /\ Len(<<>>) = 0
        BY EmptySeq
      <4>2. DOMAIN (<<>>) = 1 .. Len(<<>>)
        BY <4>1, LenProperties
      <4> QED
        BY <1>2, <4>1, <4>2
    <3> QED
      BY <1>3, <3>1 DEF Owed, Due
  <2>6. \A k \in DOMAIN stream' : Owed(k)' = <<>>
    BY <2>1, <2>2, <2>3, <2>4, <2>5 DEF Orderly
  <2>7. ASSUME NEW k \in DOMAIN stream', NEW i \in DOMAIN stream'[k]
        PROVE  Fits(stream'[k][i], Due(k, i)')
    <3>1. k \in DOMAIN stream
      BY <2>4, <2>5, <2>7
    <3>2. stream[k] \in Seq(Message) /\ stream'[k] = stream[k]
      BY <1>2, <3>1, ElementOfSeq DEF Typed
    <3>3. i \in Nat
      BY <2>7, <3>2, LenProperties
    <3> QED
      BY <2>1, <2>3, <3>1, <3>2, <3>3, <2>7 DEF Orderly
  <2>8. Orderly'
    BY <2>2, <2>6, <2>7 DEF Orderly
  <2> QED
    BY <1>1, <2>1, <2>8 DEF Alone
<1> QED
  BY <1>4, <1>5 DEF Framed

LEMMA PublishReceiveFramed ==
  ASSUME Typed, Asking, Framed, NEW c \in Clients,
         Publish(c) \/ ReceiveFromStorage(c), ~Exit
  PROVE  Framed'
<1>1. /\ thread[c] = "op" /\ todo[c] # <<>> /\ Head(todo[c]) \in {"publish", "answer"}
      /\ todo' = [todo EXCEPT ![c] = Tail(todo[c])]
      /\ UNCHANGED <<stream, rest, thread, overlapped>>
  BY DEF Publish, ReceiveFromStorage, At, Done, OpUnchanged, storeVars
<1>2. Reading'
  BY <1>1 DEF Framed, Reading
<1>3. ASSUME ~overlapped'
      PROVE  Alone' /\ Orderly'
  <2>1. Alone /\ Orderly
    BY <1>1, <1>3 DEF Framed
  <2>2. \A d \in Clients : todo[d] # <<>> => d = c
    BY <1>1, <2>1, OnlyOne
  <2>3. ~Adding(Tail(todo[c]))
    BY <1>1, RemainderShrinks DEF Asking
  <2>4. \A d \in Clients : ~Adding(todo[d]) /\ ~Adding(todo'[d])
    BY <1>1, <2>2, <2>3 DEF Adding, Asking
  <2> QED
    BY <1>1, <2>1, <2>4, NobodyAdds DEF Alone
<1> QED
  BY <1>2, <1>3 DEF Framed

\* What is sent is what is due, and what is due next is what will be sent next.
LEMMA SentFits ==
  ASSUME Asking, Alone, Orderly, NEW c \in Clients, thread[c] = "op",
         todo[c] # <<>>, Head(todo[c]) \in Sends, serverSocket \in DOMAIN stream
  PROVE  Fits(<<c, Head(todo[c])>>, Owed(serverSocket))
<1>1. CASE Adding(todo[c])
  BY <1>1 DEF Orderly, Fits
<1>2. CASE ~Adding(todo[c])
  <2>1. Owed(serverSocket) = <<>>
    BY <1>2, OnlyOne DEF Orderly, Adding
  <2>2. Head(todo[c]) \in Commands
    BY <1>2 DEF Adding, Sends, Commands
  <2> QED
    BY <2>1, <2>2 DEF Fits
<1> QED
  BY <1>1, <1>2

LEMMA NextFits ==
  ASSUME Asking, NEW c \in Clients, todo[c] # <<>>
  PROVE  LET m == <<c, Head(todo[c])>>
         IN  /\ Adding(Tail(todo[c])) => After(m) = <<c, Head(Tail(todo[c]))>>
             /\ After(m) # <<>> => Adding(Tail(todo[c]))
<1> DEFINE m == <<c, Head(todo[c])>>
<1>1. m[1] = c /\ m[2] = Head(todo[c])
  OBVIOUS
<1>2. todo[c] \in Remainders
  BY DEF Asking
<1> HIDE DEF m
<1>3. CASE Head(todo[c]) = "addOp"
  BY <1>1, <1>2, <1>3, RemainderShrinks DEF After, Adding
<1>4. CASE Head(todo[c]) = "addSize"
  BY <1>1, <1>2, <1>4, RemainderShrinks DEF After, Adding
<1>5. CASE Head(todo[c]) \notin {"addOp", "addSize"}
  BY <1>1, <1>2, <1>5, RemainderShrinks DEF After
<1> QED
  BY <1>3, <1>4, <1>5 DEF m

LEMMA SendFramed ==
  ASSUME Typed, Asking, Framed, NEW c \in Clients, SendToStorage(c), ~Exit
  PROVE  Framed'
<1>0. PICK k \in Nat : k = serverSocket
  BY DEF Typed
<1>1. PICK m \in Message : m = <<c, Head(todo[c])>>
  BY DEF SendToStorage, At, Message
<1>2. /\ thread[c] = "op" /\ todo[c] # <<>> /\ Head(todo[c]) \in Sends
      /\ todo' = [todo EXCEPT ![c] = Tail(todo[c])]
      /\ stream' = [stream EXCEPT ![k] = Append(stream[k], m)]
      /\ UNCHANGED <<thread, serverSocket, rest, overlapped>>
  BY <1>0, <1>1 DEF SendToStorage, At, Done, OpUnchanged
<1>3. stream \in Seq(Seq(Message)) /\ DOMAIN stream = 1 .. Len(stream)
  BY LenProperties DEF Typed
<1>4. CASE k \notin DOMAIN stream
  <2> DEFINE e == Append(stream[k], m)
  <2>1. stream' = [stream EXCEPT ![k] = e]
    BY <1>2
  <2> HIDE DEF e
  <2>2. stream' = stream
    BY <1>3, <1>4, <2>1, NothingReplaced
  <2>3. Reading'
    BY <1>2, <2>2 DEF Framed, Reading
  <2>4. Orderly => \A j \in DOMAIN stream : Owed(j) = <<>>
    BY <1>0, <1>4 DEF Orderly
  <2>5. \A j \in DOMAIN stream : Owed(j)' = Owed(j) /\ \A i \in Nat : Due(j, i)' = Due(j, i)
    BY <1>2, <2>2 DEF Owed, Due
  <2>6. Orderly => \A j \in DOMAIN stream : \A i \in DOMAIN stream[j] :
                     Fits(stream'[j][i], Due(j, i)')
    BY <1>2, <2>2 DEF Orderly, Due
  <2>7. Orderly => Orderly'
    BY <1>0, <1>2, <1>4, <2>2, <2>4, <2>5, <2>6 DEF Orderly
  <2> QED
    BY <1>2, <2>3, <2>7 DEF Framed, Alone
<1>5. CASE k \in DOMAIN stream
  <2>1. stream[k] \in Seq(Message) /\ Len(stream[k]) \in Nat
    BY <1>3, <1>5, ElementOfSeq, LenProperties
  <2>2. PICK n \in Nat : n = Len(stream[k])
    BY <2>1
  <2> DEFINE e == Append(stream[k], m)
  <2>3. /\ e \in Seq(Message) /\ Len(e) = n + 1 /\ e[n + 1] = m
        /\ \A i \in 1 .. n : e[i] = stream[k][i]
    BY <2>1, <2>2, AppendProperties
  <2>4. DOMAIN e = 1 .. n + 1 /\ DOMAIN stream[k] = 1 .. n
    BY <2>1, <2>2, <2>3, LenProperties
  <2>5. stream' = [stream EXCEPT ![k] = e]
    BY <1>2
  <2> HIDE DEF e
  <2>6. /\ DOMAIN stream' = DOMAIN stream /\ Len(stream') = Len(stream) /\ stream'[k] = e
        /\ \A j \in DOMAIN stream : j # k => stream'[j] = stream[j]
    BY <1>3, <1>5, <2>3, <2>5, ExceptSeq
  <2>7. Reading'
    BY <1>2, <2>6 DEF Framed, Reading
  <2>8. ASSUME Alone, Orderly
        PROVE  Orderly'
    <3>1. \A d \in Clients : todo[d] # <<>> => d = c
      BY <1>2, <2>8, OnlyOne
    <3>2. /\ \A j \in DOMAIN stream : j # k =>
               Owed(j)' = Owed(j) /\ \A i \in Nat : Due(j, i)' = Due(j, i)
          /\ \A i \in 1 .. n + 1 : Due(k, i)' = Due(k, i)
      <4>1. \A j \in DOMAIN stream : j # k =>
               Owed(j)' = Owed(j) /\ \A i \in Nat : Due(j, i)' = Due(j, i)
        BY <1>2, <2>6 DEF Owed, Due
      <4>2. ASSUME NEW i \in 1 .. n + 1
            PROVE  Due(k, i)' = Due(k, i)
        <5>1. i > 1 => i - 1 \in 1 .. n
          BY <4>2
        <5> QED
          BY <1>2, <2>3, <2>6, <5>1 DEF Due
      <4> QED
        BY <4>1, <4>2
    <3>3. Owed(k)' = After(m)
      <4>1. Len(stream'[k]) + 1 > 1 /\ Len(stream'[k]) + 1 - 1 = n + 1
        BY <2>3, <2>6
      <4> QED
        BY <2>3, <2>6, <4>1 DEF Owed, Due
    <3>4. Fits(m, Owed(k))
      BY <1>0, <1>1, <1>2, <1>5, <2>8, SentFits
    <3>5. /\ Adding(Tail(todo[c])) => After(m) = <<c, Head(Tail(todo[c]))>>
          /\ After(m) # <<>> => Adding(Tail(todo[c]))
      BY <1>1, <1>2, NextFits
    <3>6. ASSUME NEW j \in DOMAIN stream', NEW i \in DOMAIN stream'[j]
          PROVE  Fits(stream'[j][i], Due(j, i)')
      <4>1. CASE j # k
        <5>1. stream'[j] = stream[j] /\ stream[j] \in Seq(Message)
          BY <1>3, <2>6, <4>1, ElementOfSeq
        <5>2. i \in Nat
          BY <3>6, <5>1, LenProperties
        <5> QED
          BY <2>6, <2>8, <3>2, <3>6, <4>1, <5>1, <5>2 DEF Orderly
      <4>2. CASE j = k /\ i \in 1 .. n
        BY <2>3, <2>4, <2>6, <2>8, <3>2, <4>2, <1>5 DEF Orderly
      <4>3. CASE j = k /\ i = n + 1
        <5>1. Due(k, i)' = Owed(k)
          BY <2>2, <3>2, <4>3 DEF Owed
        <5> QED
          BY <2>3, <2>6, <3>4, <4>3, <5>1
      <4>4. j = k => i \in 1 .. n \/ i = n + 1
        BY <2>4, <2>6, <3>6
      <4> QED
        BY <4>1, <4>2, <4>3, <4>4
    <3>7. todo'[c] = Tail(todo[c]) /\ \A d \in Clients : d # c => ~Adding(todo'[d])
      BY <1>2, <3>1 DEF Asking, Adding
    <3>8. ASSUME NEW j \in DOMAIN stream', Owed(j)' # <<>>
          PROVE  /\ j = serverSocket'
                 /\ \E d \in Clients : Adding(todo'[d]) /\ Owed(j)' = <<d, Head(todo'[d])>>
      <4>1. j = k
        BY <1>0, <2>6, <2>8, <3>2, <3>8 DEF Orderly
      <4> QED
        BY <1>0, <1>2, <3>3, <3>5, <3>7, <3>8, <4>1
    <3>9. ASSUME NEW d \in Clients, Adding(todo'[d])
          PROVE  Owed(k)' = <<d, Head(todo'[d])>>
      BY <3>3, <3>5, <3>7, <3>9
    <3>10. serverSocket' = k
      BY <1>0, <1>2
    <3> QED
      BY <3>6, <3>8, <3>9, <3>10 DEF Orderly
  <2> QED
    BY <1>2, <2>7, <2>8 DEF Framed, Alone
<1> QED
  BY <1>4, <1>5

\* The storage service takes a send, after which it expects what has to follow it.
LEMMA TakenFramed ==
  ASSUME Typed, Framed, NEW k \in DOMAIN stream, stream[k] # <<>>, NEW r \in Rests,
         stream' = [stream EXCEPT ![k] = Tail(stream[k])],
         rest' = [rest EXCEPT ![k] = r],
         ~overlapped => (IF r # <<>> THEN Head(r) ELSE <<>>) = After(stream[k][1]),
         UNCHANGED <<thread, todo, serverSocket, overlapped>>
  PROVE  Framed'
<1>1. stream \in Seq(Seq(Message)) /\ DOMAIN stream = 1 .. Len(stream)
  BY LenProperties DEF Typed
<1>2. rest \in Seq(Rests) /\ Len(rest) = Len(stream)
  BY DEF Framed, Reading
<1>3. stream[k] \in Seq(Message)
  BY <1>1, ElementOfSeq
<1> DEFINE t == Tail(stream[k])
<1>4. PICK n \in Nat : n = Len(t)
  BY <1>3, HeadTailProperties, LenProperties
<1>5. /\ t \in Seq(Message) /\ Len(stream[k]) = n + 1
      /\ \A i \in 1 .. n : t[i] = stream[k][i + 1]
  <2>1. Len(stream[k]) \in Nat
    BY <1>3, LenProperties
  <2> QED
    BY <1>3, <1>4, <2>1, HeadTailProperties
<1>6. DOMAIN t = 1 .. n /\ DOMAIN stream[k] = 1 .. n + 1
  BY <1>3, <1>4, <1>5, LenProperties
<1>7. stream' = [stream EXCEPT ![k] = t]
  OBVIOUS
<1> HIDE DEF t
<1>8. /\ DOMAIN stream' = DOMAIN stream /\ Len(stream') = Len(stream) /\ stream'[k] = t
      /\ \A j \in DOMAIN stream : j # k => stream'[j] = stream[j]
  BY <1>1, <1>5, <1>7, ExceptSeq
<1>9. /\ rest' \in Seq(Rests) /\ Len(rest') = Len(rest) /\ rest'[k] = r
      /\ \A j \in DOMAIN stream : j # k => rest'[j] = rest[j]
  BY <1>1, <1>2, ExceptSeq
<1>10. Reading'
  BY <1>2, <1>8, <1>9 DEF Reading
<1>11. ASSUME ~overlapped
       PROVE  Alone' /\ Orderly'
  <2>1. Alone /\ Orderly
    BY <1>11 DEF Framed
  <2>2. \A j \in DOMAIN stream : j # k =>
          Owed(j)' = Owed(j) /\ \A i \in Nat : Due(j, i)' = Due(j, i)
    BY <1>8, <1>9 DEF Owed, Due
  <2>3. ASSUME NEW i \in 1 .. n + 1
        PROVE  Due(k, i)' = Due(k, i + 1)
    <3>1. i + 1 > 1 /\ (i + 1) - 1 = i
      OBVIOUS
    <3>2. CASE i = 1
      <4>1. Due(k, i)' = After(stream[k][1])
        BY <1>8, <1>9, <1>11, <3>2 DEF Due
      <4> QED
        BY <3>1, <3>2, <4>1 DEF Due
    <3>3. CASE i > 1
      <4>1. i - 1 \in 1 .. n /\ (i - 1) + 1 = i
        BY <3>3
      <4>2. t[i - 1] = stream[k][i]
        BY <1>5, <4>1
      <4> QED
        BY <1>8, <3>1, <3>3, <4>2 DEF Due
    <3> QED
      BY <3>2, <3>3
  <2>4. Owed(k)' = Owed(k)
    <3>1. Len(stream'[k]) + 1 = n + 1
      BY <1>4, <1>8
    <3>2. Owed(k)' = Due(k, n + 1)'
      BY <3>1 DEF Owed
    <3>3. Due(k, n + 1)' = Due(k, (n + 1) + 1)
      BY <2>3
    <3> QED
      BY <1>5, <3>2, <3>3 DEF Owed
  <2>5. ASSUME NEW j \in DOMAIN stream', NEW i \in DOMAIN stream'[j]
        PROVE  Fits(stream'[j][i], Due(j, i)')
    <3>1. CASE j # k
      <4>1. stream'[j] = stream[j] /\ stream[j] \in Seq(Message)
        BY <1>1, <1>8, <3>1, ElementOfSeq
      <4>2. i \in Nat
        BY <2>5, <4>1, LenProperties
      <4> QED
        BY <1>8, <2>1, <2>2, <2>5, <3>1, <4>1, <4>2 DEF Orderly
    <3>2. CASE j = k
      <4>1. i \in 1 .. n /\ i + 1 \in 1 .. n + 1
        BY <1>6, <1>8, <2>5, <3>2
      <4>2. Fits(stream[k][i + 1], Due(k, i + 1))
        BY <1>6, <2>1, <4>1 DEF Orderly
      <4>3. Due(k, i)' = Due(k, i + 1) /\ t[i] = stream[k][i + 1]
        BY <1>5, <2>3, <4>1
      <4> QED
        BY <1>8, <3>2, <4>2, <4>3
    <3> QED
      BY <3>1, <3>2
  <2>6. \A j \in DOMAIN stream' : Owed(j)' = Owed(j)
    BY <1>8, <2>2, <2>4
  <2> QED
    BY <1>8, <2>1, <2>5, <2>6 DEF Alone, Orderly
<1> QED
  BY <1>10, <1>11 DEF Framed

LEMMA ReadFramed ==
  ASSUME Typed, Framed, NEW k \in DOMAIN stream, ReadCommand(k) \/ ReadRest(k)
  PROVE  Framed'
<1> DEFINE m == stream[k][1]
<1>1. /\ stream \in Seq(Seq(Message)) /\ stream[k] \in Seq(Message) /\ stream[k] # <<>>
      /\ rest \in Seq(Rests) /\ rest[k] \in Rests
  <2>1. stream \in Seq(Seq(Message)) /\ DOMAIN stream = 1 .. Len(stream)
    BY LenProperties DEF Typed
  <2> QED
    BY <2>1, ElementOfSeq DEF Framed, Reading, ReadCommand, ReadRest
<1>2. Head(stream[k]) = m /\ 1 \in DOMAIN stream[k] /\ m \in Message
  <2>1. Len(stream[k]) \in Nat \ {0} /\ DOMAIN stream[k] = 1 .. Len(stream[k])
    BY <1>1, EmptySeq, LenProperties
  <2> QED
    BY <1>1, <2>1, ElementOfSeq
<1>3. m[1] \in Clients /\ m = <<m[1], m[2]>>
  BY <1>2 DEF Message
<1>4. /\ stream' = [stream EXCEPT ![k] = Tail(stream[k])]
      /\ UNCHANGED <<thread, todo, serverSocket, overlapped>>
  BY DEF ReadCommand, ReadRest, StoreUnchanged, opVars
<1>5. ~overlapped => Fits(m, IF rest[k] # <<>> THEN Head(rest[k]) ELSE <<>>)
  BY <1>2 DEF Framed, Orderly, Due
<1> HIDE DEF m
<1>6. CASE ReadCommand(k)
  <2> DEFINE r == IF m[2] = "addOp" THEN <<<<m[1], "addSize">>, <<m[1], "addData">>>> ELSE <<>>
  <2>1. rest' = [rest EXCEPT ![k] = r] /\ m[2] \in Commands
    BY <1>2, <1>6 DEF ReadCommand
  <2>2. r \in Rests
    BY <1>3 DEF Rests
  <2>3. (IF r # <<>> THEN Head(r) ELSE <<>>) = After(m)
    BY <2>1 DEF After, Commands
  <2> HIDE DEF r
  <2> QED
    BY <1>1, <1>4, <2>1, <2>2, <2>3, TakenFramed DEF m
<1>7. CASE ReadRest(k)
  <2>1. rest[k] # <<>> /\ rest' = [rest EXCEPT ![k] = Tail(rest[k])]
    BY <1>7 DEF ReadRest
  <2>2. PICK c \in Clients :
           \/ Head(rest[k]) = <<c, "addSize">> /\ Tail(rest[k]) = <<<<c, "addData">>>>
           \/ Head(rest[k]) = <<c, "addData">> /\ Tail(rest[k]) = <<>>
    BY <1>1, <2>1, RestShrinks
  <2> DEFINE r == Tail(rest[k])
  <2>3. r \in Rests
    BY <2>2 DEF Rests
  <2>4. ASSUME ~overlapped
        PROVE  (IF r # <<>> THEN Head(r) ELSE <<>>) = After(m)
    <3>1. m = Head(rest[k])
      BY <1>5, <2>1, <2>2, <2>4 DEF Fits
    <3>2. CASE Head(rest[k]) = <<c, "addSize">> /\ r = <<<<c, "addData">>>>
      <4>1. m[1] = c /\ m[2] = "addSize"
        BY <3>1, <3>2
      <4>2. After(m) = <<c, "addData">>
        BY <4>1 DEF After
      <4> DEFINE d == <<c, "addData">>
      <4>3. r = <<d>>
        BY <3>2
      <4> HIDE DEF d
      <4>4. r # <<>> /\ Head(r) = d
        BY <4>3, Single
      <4> QED
        BY <4>2, <4>4 DEF d
    <3>3. CASE Head(rest[k]) = <<c, "addData">> /\ r = <<>>
      BY <3>1, <3>3 DEF After
    <3> QED
      BY <2>2, <3>2, <3>3
  <2>5. rest' = [rest EXCEPT ![k] = r]
    BY <2>1
  <2> HIDE DEF r
  <2> QED
    BY <1>1, <1>4, <2>3, <2>4, <2>5, TakenFramed DEF m
<1> QED
  BY <1>6, <1>7

LEMMA OthersFramed ==
  ASSUME Typed, Framed,
         \/ Storage
         \/ \E c \in Clients : StartFails(c) \/ Connect(c) \/ DatasetMissing(c)
                               \/ SendRequest(c) \/ Leave(c)
  PROVE  Framed'
<1>1. ASSUME NEW k \in DOMAIN stream, ReadCommand(k) \/ ReadRest(k)
      PROVE  Framed'
  BY <1>1, ReadFramed
<1>2. ASSUME ~\E k \in DOMAIN stream : ReadCommand(k) \/ ReadRest(k)
      PROVE  UNCHANGED <<serverSocket, stream, rest, todo, overlapped, thread>>
  BY <1>2 DEF Storage, StartStorage, ReadGarbled, StoreUnchanged, StartFails, Connect,
     DatasetMissing, SendRequest, Leave, ClientUnchanged, opVars, storeVars
<1> QED
  BY <1>1, <1>2, FramedKept

LEMMA FramedStep == Typed /\ Asking /\ Framed /\ [Next]_vars => Framed'
<1> SUFFICES ASSUME Typed, Asking, Framed, [Next]_vars
             PROVE  Framed'
  OBVIOUS
<1>1. CASE UNCHANGED vars
  BY <1>1, FramedKept DEF vars, opVars, storeVars
<1>2. ASSUME NEW c \in Clients, Thread(c)
      PROVE  Framed'
  <2>1. CASE Exit
    BY <2>1, ExitFramed
  <2> QED
    BY <1>2, <2>1, ServeFramed, BeginFramed, OpenStorageFramed, PublishReceiveFramed,
       SendFramed DEF Thread, CutOff
<1>3. CASE Next
  BY <1>2, <1>3, MainFramed, OthersFramed DEF Next
<1> QED
  BY <1>1, <1>3

\* An add is three sends on a socket that every thread uses: as long as requests are
\* handled one after the other, whoever set the connection up and whenever clients come,
\* set up again and go, process_client() finds them together and in order.
THEOREM MessagesKeptApart == Spec => []FramesWhole
<1>1. Typed /\ Framed => FramesWhole
  <2> SUFFICES ASSUME Typed, Framed, ~overlapped,
                      NEW k \in DOMAIN stream, NEW i \in DOMAIN stream[k]
               PROVE  stream[k][i] \in
                        IF i > 1 THEN Rest(stream[k][i - 1][1], stream[k][i - 1][2])
                        ELSE IF rest[k] # <<>> THEN {Head(rest[k])} ELSE Rest("", "")
    BY DEF FramesWhole
  <2>1. stream[k] \in Seq(Message) /\ i \in 1 .. Len(stream[k]) /\ rest[k] \in Rests
    <3>1. stream \in Seq(Seq(Message)) /\ DOMAIN stream = 1 .. Len(stream)
      BY LenProperties DEF Typed
    <3>2. stream[k] \in Seq(Message)
      BY <3>1, ElementOfSeq
    <3> QED
      BY <3>1, <3>2, ElementOfSeq, LenProperties DEF Framed, Reading
  <2> DEFINE m == stream[k][i]
  <2>2. m \in Message /\ m[1] \in Clients /\ m = <<m[1], m[2]>>
    BY <2>1, ElementOfSeq DEF Message
  <2>3. Fits(m, Due(k, i))
    BY DEF Framed, Orderly
  <2> HIDE DEF m
  <2>4. m[2] \in Commands => m \in {<<d, t>> : d \in Clients, t \in Commands}
    BY <2>2
  <2> DEFINE Any == {<<d, t>> : d \in Clients, t \in Commands}
  <2>5. CASE i > 1
    <3> DEFINE p == stream[k][i - 1]
    <3>1. Due(k, i) = After(p)
      BY <2>5 DEF Due
    <3> HIDE DEF p
    <3>2. m \in Rest(p[1], p[2])
      <4>1. CASE p[2] = "addOp"
        <5>1. After(p) = <<p[1], "addSize">> /\ After(p) # <<>>
          BY <4>1 DEF After
        <5> QED
          BY <2>3, <3>1, <4>1, <5>1 DEF Fits, Rest
      <4>2. CASE p[2] = "addSize"
        <5>1. After(p) = <<p[1], "addData">> /\ After(p) # <<>>
          BY <4>2 DEF After
        <5> QED
          BY <2>3, <3>1, <4>2, <5>1 DEF Fits, Rest
      <4>3. CASE p[2] \notin {"addOp", "addSize"}
        BY <2>3, <2>4, <3>1, <4>3 DEF Fits, After, Rest
      <4> QED
        BY <4>1, <4>2, <4>3
    <3> QED
      BY <2>5, <3>2 DEF m, p
  <2>6. CASE ~(i > 1) /\ rest[k] # <<>>
    <3>1. Due(k, i) = Head(rest[k]) /\ Due(k, i) # <<>>
      <4>1. Due(k, i) = Head(rest[k])
        BY <2>6 DEF Due
      <4>2. PICK c \in Clients : \E t \in {"addSize", "addData"} : Head(rest[k]) = <<c, t>>
        BY <2>1, <2>6, RestShrinks
      <4> QED
        BY <4>1, <4>2
    <3>2. m = Head(rest[k])
      BY <2>3, <3>1 DEF Fits
    <3> QED
      BY <2>6, <3>2 DEF m
  <2>7. CASE ~(i > 1) /\ rest[k] = <<>>
    <3>1. m[2] \in Commands
      BY <2>3, <2>7 DEF Due, Fits
    <3>2. Rest("", "") = Any /\ m \in Any
      BY <2>4, <3>1 DEF Rest
    <3> HIDE DEF Any
    <3>3. m \in Rest("", "")
      BY <3>2
    <3> QED
      BY <2>7, <3>3 DEF m
  <2> QED
    BY <2>5, <2>6, <2>7
<1> QED
  BY <1>1, TypedInit, AccountedInit, AskingInit, FramedInit, TypedStep, AccountedStep,
     AskingStep, FramedStep, PTL DEF Spec
=============================================================================
