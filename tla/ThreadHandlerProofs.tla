------------------------ MODULE ThreadHandlerProofs ------------------------
(***************************************************************************)
(* Theorems about ThreadHandler, for any number of workers and of tasks.   *)
(*                                                                         *)
(* The order of the argument: how far entered_threads can get (Entering),  *)
(* who may hold the lock of an element (Exclusive), what the flags of an   *)
(* element say at each point of thread_do_work (Flags), and where the task *)
(* of an element stands (Placed, Progress).  Their conjunction is          *)
(* inductive and gives the types, SlotsServed, and each step of ForkJoin.  *)
(***************************************************************************)
EXTENDS ThreadHandler, FiniteSetTheorems, TLAPS

Entered == {w \in Workers : In(w)}

TypeInv ==
  /\ entered \in Nat
  /\ slot \in [Workers -> Nat]
  /\ wpc \in [Workers -> {"out", "entering", "top", "wait", "run", "finish",
                          "notify"}]
  /\ ready \in [Slots -> BOOLEAN]
  /\ done \in [Slots -> BOOLEAN]
  /\ work \in [Slots -> 0 .. MaxTasks]
  /\ nrTasks \in 0 .. NrThreads
  /\ mainTask \in 0 .. MaxTasks
  /\ mpc \in {"idle", "hand", "signal", "join", "joinWait", "reset"}
  /\ i \in 0 .. nrTasks
  /\ offered \in 0 .. MaxTasks
  /\ accepted \subseteq 1 .. offered
  /\ runs \in [Tasks -> Nat]

\* entered_threads never counts a worker that has not entered, and has passed
\* only elements that a worker took.
Entering ==
  /\ entered <= Cardinality(Entered)
  /\ \A w \in Workers :
       /\ slot[w] <= Cardinality(Entered)
       /\ In(w) => slot[w] < Cardinality(Entered)

Served ==
  /\ \A s \in 0 .. entered - 1 : \E w \in Workers : Owns(w, s)
  /\ \A s \in 0 .. nrTasks - 1 : \E w \in Workers : Owns(w, s)
  /\ \A v \in Workers : wpc[v] = "entering" =>
       \A s \in 0 .. slot[v] - 1 : \E w \in Workers : Owns(w, s)

\* A worker that runs a task holds the lock alone, and its element is ready.
Exclusive ==
  /\ \A w \in Workers : wpc[w] \in {"run", "finish"} => ready[slot[w]]
  /\ \A v, w \in Workers :
       /\ wpc[v] \in {"run", "finish"}
       /\ wpc[w] \in {"run", "finish"}
       /\ slot[v] = slot[w]
       => v = w

Handing == mpc \in {"hand", "signal"}
Joining == mpc \in {"join", "joinWait", "reset"}

\* The elements that were handed a task and not yet collected.
Handed(s) ==
  \/ Handing /\ (s < i \/ (s = i /\ mpc = "signal"))
  \/ Joining /\ i <= s /\ s < nrTasks

Flags ==
  /\ \A s \in Slots :
       /\ Handed(s) <=> (ready[s] \/ done[s])
       /\ ~(ready[s] /\ done[s])
  /\ mpc = "idle" => i = 0
  /\ mpc \in {"signal", "joinWait", "reset"} => i < nrTasks
  /\ mpc = "reset" => done[i]
  /\ mpc # "idle" => mainTask # 0

\* The elements that have a task; tasks are not given twice.
Holds(s) == s < nrTasks /\ (Joining => i <= s)

Placed ==
  /\ \A s \in Slots : Holds(s) <=> work[s] # 0
  /\ \A s \in Slots : Holds(s) => work[s] \in accepted /\ work[s] # mainTask
  /\ \A s, z \in Slots : Holds(s) /\ Holds(z) /\ work[s] = work[z] => s = z
  /\ mainTask # 0 => mainTask \in accepted
  /\ nrTasks > 0 => mainTask # 0
  /\ \A t \in Tasks : t > offered => runs[t] = 0
  /\ \A t \in accepted : runs[t] = 0 =>
       t = mainTask \/ \E s \in Slots : Holds(s) /\ work[s] = t

\* Whether the task of an element has been run.
Progress ==
  /\ mainTask # 0 => (runs[mainTask] = 0 <=> ~Joining)
  /\ \A s \in Slots : Holds(s) =>
       (runs[work[s]] # 0 <=>
          done[s] \/ \E w \in Workers : Owns(w, s) /\ wpc[w] = "finish")

IInv ==
  /\ TypeInv
  /\ Entering
  /\ Served
  /\ Exclusive
  /\ Flags
  /\ Placed
  /\ Progress
-----------------------------------------------------------------------------
(* How many workers have entered.                                          *)

\* No more workers enter than thread_handler_init made elements for.
LEMMA EnteredBound ==
  /\ IsFiniteSet(Entered)
  /\ Cardinality(Entered) \in Nat
  /\ Cardinality(Entered) <= NrThreads
  /\ NrThreads \in Nat
<1>1. Entered \subseteq Workers
  BY DEF Entered
<1> QED
  BY <1>1, WorkersAssumption, FS_Subset, FS_CardinalityType

\* A step that moves no worker into the enclave leaves their number alone.
LEMMA EnteredSame ==
  ASSUME \A w \in Workers : In(w)' <=> In(w)
  PROVE  Entered' = Entered
BY DEF Entered

\* EnterWrite brings in one worker.
LEMMA EnteredGrows ==
  ASSUME TypeInv, NEW w \in Workers, EnterWrite(w)
  PROVE  /\ Cardinality(Entered') = Cardinality(Entered) + 1
         /\ Entered' = Entered \cup {w}
<1>1. w \notin Entered
  BY DEF EnterWrite, Entered, In
<1>2. Entered' = Entered \cup {w}
  BY DEF EnterWrite, Entered, In, TypeInv
<1>3. Cardinality(Entered \cup {w}) = Cardinality(Entered) + 1
  BY <1>1, EnteredBound, FS_AddElement
<1> QED
  BY <1>2, <1>3

LEMMA InitInv == Init => IInv
<1> SUFFICES ASSUME Init PROVE IInv
  OBVIOUS
<1>1. Entered = {}
  BY DEF Init, Entered, In
<1>2. Cardinality(Entered) = 0
  BY <1>1, FS_EmptySet
<1>3. TypeInv
  BY EnteredBound, TasksAssumption DEF Init, TypeInv, Tasks
<1>4. Entering
  BY <1>2 DEF Init, Entering, In
<1>5. Served
  BY DEF Init, Served
<1>6. Exclusive
  BY DEF Init, Exclusive
<1>7. Flags
  BY DEF Init, Flags, Handed, Handing, Joining
<1>8. Placed
  BY EnteredBound DEF Init, Placed, Holds, Slots
<1>9. Progress
  BY EnteredBound DEF Init, Progress, Holds, Slots
<1> QED
  BY <1>3, <1>4, <1>5, <1>6, <1>7, <1>8, <1>9 DEF IInv
-----------------------------------------------------------------------------
(* Steps grouped by what they touch.                                       *)

\* NotifyOne moves workers that wait, and those that its caller moved, to the
\* test of `ready`.
LEMMA NotifyOneMoves ==
  ASSUME NEW s, NEW callerWaits,
         NEW pcs \in [Workers -> {"out", "entering", "top", "wait", "run",
                                  "finish", "notify"}],
         NotifyOne(s, callerWaits, pcs)
  PROVE  /\ wpc' \in [Workers -> {"out", "entering", "top", "wait", "run",
                                  "finish", "notify"}]
         /\ \A w \in Workers :
              \/ wpc'[w] = pcs[w]
              \/ pcs[w] = "wait" /\ wpc'[w] = "top"
<1>1. CASE wpc' = pcs
  BY <1>1
<1>2. CASE \E w \in Workers : /\ pcs[w] = "wait"
                             /\ wpc' = [pcs EXCEPT ![w] = "top"]
  BY <1>2
<1> QED
  BY <1>1, <1>2, Zenon DEF NotifyOne

\* What the steps do to a worker's state that release it or let it wait.
Quiet ==
  /\ wpc' \in [Workers -> {"out", "entering", "top", "wait", "run", "finish",
                           "notify"}]
  /\ \A w \in Workers :
       \/ wpc'[w] = wpc[w]
       \/ wpc[w] \in {"top", "wait", "notify"} /\ wpc'[w] \in {"top", "wait"}

\* NotifyDone, Signal and SpuriousWakeup are such steps.
LEMMA QuietSteps ==
  ASSUME TypeInv,
         \/ \E w \in Workers : NotifyDone(w)
         \/ Signal
         \/ SpuriousWakeup
  PROVE  Quiet
<1>1. CASE \E w \in Workers : NotifyDone(w)
  <2>1. PICK w \in Workers : NotifyDone(w)
    BY <1>1
  <2> DEFINE pcs == [wpc EXCEPT ![w] = "top"]
  <2>2. pcs \in [Workers -> {"out", "entering", "top", "wait", "run", "finish",
                           "notify"}]
    BY DEF TypeInv
  <2>3. /\ wpc[w] = "notify"
        /\ NotifyOne(slot[w], mpc = "joinWait" /\ i = slot[w], pcs)
    BY <2>1 DEF NotifyDone
  <2>4. /\ wpc' \in [Workers -> {"out", "entering", "top", "wait", "run",
                                  "finish", "notify"}]
        /\ \A v \in Workers :
              \/ wpc'[v] = pcs[v]
              \/ pcs[v] = "wait" /\ wpc'[v] = "top"
    BY <2>2, <2>3, NotifyOneMoves
  <2>5. \A v \in Workers : pcs[v] = IF v = w THEN "top" ELSE wpc[v]
    BY DEF TypeInv
  <2> QED
    BY <2>3, <2>4, <2>5 DEF Quiet
<1>2. CASE Signal
  BY <1>2 DEF Signal, Quiet, TypeInv
<1>3. CASE SpuriousWakeup
  BY <1>3 DEF SpuriousWakeup, Quiet, TypeInv, workerVars
<1> QED
  BY <1>1, <1>2, <1>3
\* The count of one task goes up by one.
LEMMA OneMoreRun ==
  ASSUME NEW f \in [Tasks -> Nat], NEW x,
         NEW g, g = [f EXCEPT ![x] = @ + 1]
  PROVE  /\ g \in [Tasks -> Nat]
         /\ \A t \in Tasks : g[t] = IF t = x THEN f[t] + 1 ELSE f[t]
<1>1. \A t \in Tasks : g[t] = IF t = x THEN f[t] + 1 ELSE f[t]
  OBVIOUS
<1>2. \A t \in Tasks : f[t] \in Nat
  OBVIOUS
<1>3. \A t \in Tasks : g[t] \in Nat
  BY <1>1, <1>2
<1>4. DOMAIN g = Tasks /\ g = [t \in DOMAIN g |-> g[t]]
  OBVIOUS
<1> QED
  BY <1>1, <1>3, <1>4
-----------------------------------------------------------------------------
(* Each conjunct is preserved by every step.                               *)

LEMMA TypeStep ==
  ASSUME TypeInv, Entering, Flags, Next
  PROVE  TypeInv'
<1> USE DEF workerVars, arrayVars, callerVars, historyVars
<1>1. ASSUME NEW w \in Workers, EnterRead(w) PROVE TypeInv'
  BY <1>1 DEF EnterRead, TypeInv
<1>2. ASSUME NEW w \in Workers, EnterWrite(w) PROVE TypeInv'
  BY <1>2 DEF EnterWrite, TypeInv
<1>3. ASSUME NEW w \in Workers, WaitForWork(w) PROVE TypeInv'
  BY <1>3 DEF WaitForWork, TypeInv
<1>4. ASSUME NEW w \in Workers, RunTask(w) PROVE TypeInv'
  <2>1. runs' \in [Tasks -> Nat]
    BY <1>4, OneMoreRun DEF RunTask, TypeInv
  <2>2. wpc' \in [Workers -> {"out", "entering", "top", "wait", "run",
                             "finish", "notify"}]
    BY <1>4 DEF RunTask, TypeInv
  <2> QED
    BY <1>4, <2>1, <2>2 DEF RunTask, TypeInv
<1>5. ASSUME NEW w \in Workers, FinishTask(w) PROVE TypeInv'
  BY <1>5 DEF FinishTask, TypeInv
<1>6. ASSUME NEW w \in Workers, NotifyDone(w) PROVE TypeInv'
  <2>1. Quiet
    BY <1>6, QuietSteps
  <2>2. mpc' \in {mpc, "join"}
    BY <1>6 DEF NotifyDone, NotifyOne
  <2> QED
    BY <1>6, <2>1, <2>2 DEF NotifyDone, Quiet, TypeInv
<1>7. ASSUME AddMainTask PROVE TypeInv'
  BY <1>7, TasksAssumption DEF AddMainTask, TypeInv
<1>8. ASSUME AddWorkerTask PROVE TypeInv'
  <2>1. nrTasks' \in 0 .. NrThreads
    BY <1>8, EnteredBound DEF AddWorkerTask, TypeInv, Entering
  <2>2. i' \in 0 .. nrTasks'
    BY <1>8, EnteredBound DEF AddWorkerTask, TypeInv
  <2>3. offered' \in 0 .. MaxTasks /\ offered + 1 \in 0 .. MaxTasks
    BY <1>8, TasksAssumption DEF AddWorkerTask, TypeInv
  <2>4. work' \in [Slots -> 0 .. MaxTasks]
    BY <1>8, <2>3 DEF AddWorkerTask, TypeInv
  <2>5. accepted' \subseteq 1 .. offered'
    BY <1>8 DEF AddWorkerTask, TypeInv
  <2> QED
    BY <1>8, <2>1, <2>2, <2>3, <2>4, <2>5 DEF AddWorkerTask, TypeInv
<1>9. ASSUME RefuseTask PROVE TypeInv'
  BY <1>9, TasksAssumption DEF RefuseTask, TypeInv
<1>10. ASSUME DoWork PROVE TypeInv'
  BY <1>10, EnteredBound DEF DoWork, TypeInv
<1>11. ASSUME HandOver PROVE TypeInv'
  BY <1>11 DEF HandOver, TypeInv
<1>12. ASSUME Signal PROVE TypeInv'
  <2>1. Quiet
    BY <1>12, QuietSteps
  <2>2. i' \in 0 .. nrTasks'
    BY <1>12, EnteredBound DEF Signal, TypeInv, Flags
  <2> QED
    BY <1>12, <2>1, <2>2 DEF Signal, Quiet, TypeInv
<1>13. ASSUME RunMainTask PROVE TypeInv'
  <2>1. runs' \in [Tasks -> Nat]
    BY <1>13, OneMoreRun DEF RunMainTask, TypeInv
  <2> QED
    BY <1>13, <2>1, EnteredBound DEF RunMainTask, TypeInv
<1>14. ASSUME WaitForWorker PROVE TypeInv'
  BY <1>14 DEF WaitForWorker, TypeInv
<1>15. ASSUME ResetSlot PROVE TypeInv'
  <2>1. i' \in 0 .. nrTasks'
    BY <1>15, EnteredBound DEF ResetSlot, TypeInv, Flags
  <2>2. work' \in [Slots -> 0 .. MaxTasks]
    <3>1. 0 \in 0 .. MaxTasks
      BY TasksAssumption
    <3> QED
      BY <1>15, <3>1 DEF ResetSlot, TypeInv
  <2>3. done' \in [Slots -> BOOLEAN]
    BY <1>15 DEF ResetSlot, TypeInv
  <2> QED
    BY <1>15, <2>1, <2>2, <2>3 DEF ResetSlot, TypeInv
<1>16. ASSUME FinishWork PROVE TypeInv'
  BY <1>16, EnteredBound, TasksAssumption DEF FinishWork, TypeInv
<1>17. ASSUME SpuriousWakeup PROVE TypeInv'
  <2>1. Quiet
    BY <1>17, QuietSteps
  <2>2. mpc' \in {mpc, "join"}
    BY <1>17 DEF SpuriousWakeup
  <2> QED
    BY <1>17, <2>1, <2>2 DEF SpuriousWakeup, Quiet, TypeInv
<1> QED
  BY <1>1, <1>2, <1>3, <1>4, <1>5, <1>6, <1>7, <1>8, <1>9, <1>10, <1>11,
     <1>12, <1>13, <1>14, <1>15, <1>16, <1>17
     DEF Next, WorkerStep, CallerStep

\* Only EnterRead and EnterWrite change who has entered and who is entering.
LEMMA Staying ==
  ASSUME TypeInv, Next,
         \A w \in Workers : ~EnterRead(w) /\ ~EnterWrite(w)
  PROVE  /\ \A w \in Workers : In(w)' <=> In(w)
         /\ \A w \in Workers : wpc'[w] = "entering" => wpc[w] = "entering"
         /\ UNCHANGED <<entered, slot>>
<1> USE DEF workerVars, arrayVars, callerVars, historyVars
<1>1. ASSUME NEW v \in Workers, WaitForWork(v) \/ RunTask(v) \/ FinishTask(v)
      PROVE  /\ \A w \in Workers : In(w)' <=> In(w)
             /\ \A w \in Workers : wpc'[w] = "entering" => wpc[w] = "entering"
             /\ UNCHANGED <<entered, slot>>
  BY <1>1 DEF WaitForWork, RunTask, FinishTask, In, TypeInv
<1>2. ASSUME \/ \E v \in Workers : NotifyDone(v)
             \/ Signal
             \/ SpuriousWakeup
      PROVE  /\ \A w \in Workers : In(w)' <=> In(w)
             /\ \A w \in Workers : wpc'[w] = "entering" => wpc[w] = "entering"
             /\ UNCHANGED <<entered, slot>>
  <2>1. Quiet
    BY <1>2, QuietSteps
  <2>2. UNCHANGED <<entered, slot>>
    BY <1>2 DEF NotifyDone, Signal, SpuriousWakeup
  <2> QED
    BY <2>1, <2>2 DEF Quiet, In
<1>3. ASSUME \/ AddMainTask \/ AddWorkerTask \/ RefuseTask \/ DoWork
             \/ HandOver \/ RunMainTask \/ WaitForWorker \/ ResetSlot
             \/ FinishWork
      PROVE  UNCHANGED workerVars
  BY <1>3 DEF AddMainTask, AddWorkerTask, RefuseTask, DoWork, HandOver,
              RunMainTask, WaitForWorker, ResetSlot, FinishWork
<1>4. ASSUME UNCHANGED workerVars
      PROVE  /\ \A w \in Workers : In(w)' <=> In(w)
             /\ \A w \in Workers : wpc'[w] = "entering" => wpc[w] = "entering"
             /\ UNCHANGED <<entered, slot>>
  BY <1>4 DEF In
<1> QED
  BY <1>1, <1>2, <1>3, <1>4 DEF Next, WorkerStep, CallerStep

LEMMA EnteringStep ==
  ASSUME TypeInv, Entering, Next
  PROVE  Entering'
<1>1. ASSUME NEW w \in Workers, EnterRead(w) PROVE Entering'
  <2>1. \A v \in Workers : In(v)' <=> In(v)
    BY <1>1 DEF EnterRead, In, TypeInv
  <2>2. Entered' = Entered
    BY <2>1, EnteredSame
  <2> QED
    BY <1>1, <2>1, <2>2 DEF EnterRead, Entering, In, TypeInv
<1>2. ASSUME NEW w \in Workers, EnterWrite(w) PROVE Entering'
  <2>1. Cardinality(Entered') = Cardinality(Entered) + 1
    BY <1>2, EnteredGrows
  <2> QED
    BY <1>2, <2>1, EnteredBound DEF EnterWrite, Entering, In, TypeInv
<1>3. ASSUME \A w \in Workers : ~EnterRead(w) /\ ~EnterWrite(w)
      PROVE  Entering'
  <2>1. Entered' = Entered
    BY <1>3, Staying, EnteredSame
  <2> QED
    BY <1>3, <2>1, Staying DEF Entering
<1> QED
  BY <1>1, <1>2, <1>3

LEMMA ServedStep ==
  ASSUME TypeInv, Served, Next
  PROVE  Served'
<1> USE DEF workerVars, arrayVars, callerVars, historyVars
<1>1. ASSUME NEW w \in Workers, EnterRead(w) PROVE Served'
  <2>1. \A v \in Workers : \A s : Owns(v, s) => Owns(v, s)'
    BY <1>1 DEF EnterRead, Owns, In, TypeInv
  <2>2. \A v \in Workers : wpc'[v] = "entering" =>
          \/ v = w /\ slot'[v] = entered
          \/ wpc[v] = "entering" /\ slot'[v] = slot[v]
    BY <1>1 DEF EnterRead, TypeInv
  <2>3. UNCHANGED <<entered, nrTasks>>
    BY <1>1 DEF EnterRead
  <2> QED
    BY <2>1, <2>2, <2>3 DEF Served
<1>2. ASSUME NEW w \in Workers, EnterWrite(w) PROVE Served'
  <2>1. \A v \in Workers : \A s : Owns(v, s) => Owns(v, s)'
    BY <1>2 DEF EnterWrite, Owns, In, TypeInv
  <2>2. \A s : s = slot[w] => Owns(w, s)'
    BY <1>2 DEF EnterWrite, Owns, In, TypeInv
  <2>3. \A v \in Workers : wpc'[v] = "entering" =>
          wpc[v] = "entering" /\ slot'[v] = slot[v]
    BY <1>2 DEF EnterWrite, TypeInv
  <2>4. \A s \in 0 .. entered' - 1 : \E v \in Workers : Owns(v, s)'
    <3>1. wpc[w] = "entering" /\ entered' = slot[w] + 1 /\ slot[w] \in Nat
      BY <1>2 DEF EnterWrite, TypeInv
    <3>2. \A s \in 0 .. entered' - 1 : s = slot[w] \/ s \in 0 .. slot[w] - 1
      BY <3>1
    <3>3. \A s \in 0 .. slot[w] - 1 : \E v \in Workers : Owns(v, s)
      BY <3>1 DEF Served
    <3> QED
      BY <2>1, <2>2, <3>2, <3>3
  <2>5. UNCHANGED nrTasks
    BY <1>2 DEF EnterWrite
  <2> QED
    BY <2>1, <2>3, <2>4, <2>5 DEF Served
<1>3. ASSUME \A w \in Workers : ~EnterRead(w) /\ ~EnterWrite(w)
      PROVE  Served'
  <2>1. \A v \in Workers : \A s : Owns(v, s) => Owns(v, s)'
    BY <1>3, Staying DEF Owns
  <2>2. \A v \in Workers : wpc'[v] = "entering" =>
          wpc[v] = "entering" /\ slot'[v] = slot[v]
    BY <1>3, Staying
  <2>3. entered' = entered
    BY <1>3, Staying
  <2>4. CASE AddWorkerTask
    <3>1. nrTasks' = nrTasks + 1 /\ nrTasks < entered
      BY <2>4 DEF AddWorkerTask
    <3>2. \A s \in 0 .. nrTasks' - 1 : s \in 0 .. entered - 1
      BY <3>1, EnteredBound DEF TypeInv
    <3> QED
      BY <2>1, <2>2, <2>3, <3>2 DEF Served
  <2>5. CASE FinishWork
    <3>1. \A s \in 0 .. nrTasks' - 1 : FALSE
      BY <2>5 DEF FinishWork
    <3> QED
      BY <2>1, <2>2, <2>3, <3>1 DEF Served
  <2>6. CASE nrTasks' = nrTasks
    BY <2>1, <2>2, <2>3, <2>6 DEF Served
  <2>7. AddWorkerTask \/ FinishWork \/ nrTasks' = nrTasks
    BY <1>3 DEF Next, WorkerStep, CallerStep, WaitForWork, RunTask, FinishTask,
        NotifyDone, AddMainTask, RefuseTask, DoWork, HandOver,
        Signal, RunMainTask, WaitForWorker, ResetSlot, SpuriousWakeup
  <2> QED
    BY <2>4, <2>5, <2>6, <2>7
<1> QED
  BY <1>1, <1>2, <1>3

LEMMA InSlots ==
  ASSUME TypeInv, Entering
  PROVE  \A w \in Workers : In(w) => slot[w] \in Slots
BY EnteredBound DEF TypeInv, Entering, Slots

LEMMA ExclusiveStep ==
  ASSUME TypeInv, Exclusive, Next
  PROVE  Exclusive'
<1> USE DEF workerVars, arrayVars, callerVars, historyVars
<1>1. ASSUME NEW w \in Workers, EnterRead(w) \/ EnterWrite(w)
      PROVE  Exclusive'
  BY <1>1 DEF EnterRead, EnterWrite, Exclusive, TypeInv
<1>2. ASSUME NEW w \in Workers, WaitForWork(w) PROVE Exclusive'
  BY <1>2 DEF WaitForWork, Exclusive, TypeInv, Locked, Owns, In
<1>3. ASSUME NEW w \in Workers, RunTask(w) PROVE Exclusive'
  BY <1>3 DEF RunTask, Exclusive, TypeInv
<1>4. ASSUME NEW w \in Workers, FinishTask(w) PROVE Exclusive'
  BY <1>4 DEF FinishTask, Exclusive, TypeInv
<1>5. ASSUME \/ \E w \in Workers : NotifyDone(w)
             \/ Signal
             \/ SpuriousWakeup
      PROVE  Exclusive'
  <2>1. Quiet
    BY <1>5, QuietSteps
  <2>2. UNCHANGED <<slot, ready>>
    BY <1>5 DEF NotifyDone, Signal, SpuriousWakeup
  <2> QED
    BY <2>1, <2>2 DEF Quiet, Exclusive
<1>6. ASSUME HandOver PROVE Exclusive'
  BY <1>6 DEF HandOver, Exclusive, TypeInv
<1>7. ASSUME \/ AddMainTask \/ AddWorkerTask \/ RefuseTask \/ DoWork
             \/ RunMainTask \/ WaitForWorker \/ ResetSlot \/ FinishWork
      PROVE  Exclusive'
  <2>1. UNCHANGED <<slot, wpc, ready>>
    BY <1>7 DEF AddMainTask, AddWorkerTask, RefuseTask, DoWork, RunMainTask,
                WaitForWorker, ResetSlot, FinishWork
  <2> QED
    BY <2>1 DEF Exclusive
<1> QED
  BY <1>1, <1>2, <1>3, <1>4, <1>5, <1>6, <1>7 DEF Next, WorkerStep, CallerStep

LEMMA FlagsStep ==
  ASSUME TypeInv, Exclusive, Flags, Next
  PROVE  Flags'
<1> USE DEF workerVars, arrayVars, callerVars, historyVars
<1>0. \A s \in Slots : s \in Nat
  BY EnteredBound DEF Slots
<1>1. ASSUME NEW w \in Workers, FinishTask(w) PROVE Flags'
  <2>1. ready[slot[w]]
    BY <1>1 DEF FinishTask, Exclusive
  <2>2. UNCHANGED <<mpc, i, nrTasks, mainTask>>
    BY <1>1 DEF FinishTask
  <2>3. \A s \in Slots : Handed(s)' <=> Handed(s)
    BY <2>2 DEF Handed, Handing, Joining
  <2>4. \A s \in Slots :
          IF s = slot[w] THEN ~ready'[s] /\ done'[s]
                         ELSE ready'[s] = ready[s] /\ done'[s] = done[s]
    BY <1>1 DEF FinishTask, TypeInv
  <2>5. \A s \in Slots :
          /\ Handed(s)' <=> (ready'[s] \/ done'[s])
          /\ ~(ready'[s] /\ done'[s])
    BY <2>1, <2>3, <2>4 DEF Flags
  <2>6. mpc = "reset" => done'[i]
    BY <1>1 DEF FinishTask, Flags, TypeInv
  <2> QED
    BY <2>2, <2>5, <2>6 DEF Flags
<1>2. ASSUME HandOver PROVE Flags'
  <2>1. i \in Slots
    BY <1>2, EnteredBound DEF HandOver, TypeInv, Slots
  <2>2. \A s \in Slots : Handed(s)' <=> (Handed(s) \/ s = i)
    BY <1>2, <1>0 DEF HandOver, Handed, Handing, Joining
  <2>3. ~Handed(i)
    BY <1>2 DEF HandOver, Handed, Handing, Joining, TypeInv
  <2> QED
    BY <1>2, <2>1, <2>2, <2>3 DEF HandOver, Flags, TypeInv
<1>3. ASSUME Signal PROVE Flags'
  <2>1. \A s \in Slots : Handed(s)' <=> Handed(s)
    BY <1>3, <1>0 DEF Signal, Handed, Handing, Joining, TypeInv
  <2> QED
    BY <1>3, <2>1 DEF Signal, Flags
<1>4. ASSUME RunMainTask PROVE Flags'
  <2>1. \A s \in Slots : Handed(s)' <=> Handed(s)
    BY <1>4, <1>0 DEF RunMainTask, Handed, Handing, Joining, TypeInv
  <2> QED
    BY <1>4, <2>1 DEF RunMainTask, Flags
<1>5. ASSUME ResetSlot PROVE Flags'
  <2>1. i \in Slots /\ done[i]
    BY <1>5, EnteredBound DEF ResetSlot, TypeInv, Slots, Flags
  <2>2. \A s \in Slots : Handed(s)' <=> (Handed(s) /\ s # i)
    BY <1>5, <1>0 DEF ResetSlot, Handed, Handing, Joining, TypeInv
  <2> QED
    BY <1>5, <2>1, <2>2 DEF ResetSlot, Flags, TypeInv
<1>6. ASSUME FinishWork PROVE Flags'
  <2>1. \A s \in Slots : Handed(s)' <=> Handed(s)
    BY <1>6, <1>0 DEF FinishWork, Handed, Handing, Joining, TypeInv
  <2> QED
    BY <1>6, <2>1 DEF FinishWork, Flags
<1>7. ASSUME DoWork PROVE Flags'
  <2>1. \A s \in Slots : Handed(s)' <=> Handed(s)
    BY <1>7, <1>0 DEF DoWork, Handed, Handing, Joining, TypeInv
  <2> QED
    BY <1>7, <2>1 DEF DoWork, Flags
<1>8. ASSUME WaitForWorker PROVE Flags'
  <2>1. \A s \in Slots : Handed(s)' <=> Handed(s)
    BY <1>8 DEF WaitForWorker, Handed, Handing, Joining
  <2> QED
    BY <1>8, <2>1 DEF WaitForWorker, Flags
<1>9. ASSUME AddMainTask \/ AddWorkerTask \/ RefuseTask PROVE Flags'
  <2>1. \A s \in Slots : Handed(s)' <=> Handed(s)
    BY <1>9 DEF AddMainTask, AddWorkerTask, RefuseTask, Handed, Handing, Joining
  <2>2. mpc' = "idle" /\ i' = 0 /\ UNCHANGED <<ready, done>>
    BY <1>9 DEF AddMainTask, AddWorkerTask, RefuseTask, Flags
  <2> QED
    BY <2>1, <2>2 DEF Flags
<1>10. ASSUME SpuriousWakeup \/ \E w \in Workers : NotifyDone(w)
       PROVE  Flags'
  <2>1. UNCHANGED <<ready, done, i, nrTasks, mainTask>>
    BY <1>10 DEF NotifyDone, SpuriousWakeup
  <2>0. (mpc' = mpc) \/ (mpc = "joinWait" /\ mpc' = "join")
    <3>1. ASSUME NEW w \in Workers, NotifyDone(w)
          PROVE  (mpc' = mpc) \/ (mpc = "joinWait" /\ mpc' = "join")
      BY <3>1 DEF NotifyDone, NotifyOne
    <3>2. ASSUME SpuriousWakeup
          PROVE  (mpc' = mpc) \/ (mpc = "joinWait" /\ mpc' = "join")
      BY <3>2 DEF SpuriousWakeup
    <3> QED
      BY <1>10, <3>1, <3>2
  <2>2. \A s \in Slots : Handed(s)' <=> Handed(s)
    BY <2>0, <2>1 DEF Handed, Handing, Joining
  <2> QED
    BY <2>0, <2>1, <2>2 DEF Flags
<1>11. ASSUME NEW w \in Workers,
              EnterRead(w) \/ EnterWrite(w) \/ WaitForWork(w) \/ RunTask(w)
       PROVE  Flags'
  <2>1. UNCHANGED <<ready, done, mpc, i, nrTasks, mainTask>>
    BY <1>11 DEF EnterRead, EnterWrite, WaitForWork, RunTask
  <2> QED
    BY <2>1 DEF Flags, Handed, Handing, Joining
<1> QED
  BY <1>1, <1>2, <1>3, <1>4, <1>5, <1>6, <1>7, <1>8, <1>9, <1>10, <1>11
     DEF Next, WorkerStep, CallerStep

\* The element of a worker that runs a task holds that task.
LEMMA RunnersHold ==
  ASSUME TypeInv, Entering, Exclusive, Flags, Placed
  PROVE  \A w \in Workers : wpc[w] \in {"run", "finish"} =>
           /\ slot[w] \in Slots
           /\ Holds(slot[w])
           /\ work[slot[w]] \in Tasks
           /\ ready[slot[w]]
<1> SUFFICES ASSUME NEW w \in Workers, wpc[w] \in {"run", "finish"}
             PROVE  /\ slot[w] \in Slots
                    /\ Holds(slot[w])
                    /\ work[slot[w]] \in Tasks
                    /\ ready[slot[w]]
  OBVIOUS
<1>1. slot[w] \in Slots
  BY InSlots DEF In
<1>2. ready[slot[w]]
  BY DEF Exclusive
<1>3. Handed(slot[w])
  BY <1>1, <1>2 DEF Flags
<1>4. Holds(slot[w])
  BY <1>1, <1>3, EnteredBound
     DEF Handed, Holds, Handing, Joining, Flags, TypeInv, Slots
<1>5. work[slot[w]] \in Tasks
  BY <1>1, <1>4, TasksAssumption DEF Placed, TypeInv, Tasks
<1> QED
  BY <1>1, <1>2, <1>4, <1>5

LEMMA PlacedStep ==
  ASSUME TypeInv, Entering, Exclusive, Flags, Placed, Progress, Next
  PROVE  Placed'
<1> USE DEF workerVars, arrayVars, callerVars, historyVars
<1>0. (\A s \in Slots : s \in Nat) /\ (\A t \in Tasks : t # 0 /\ t \in Nat)
  BY EnteredBound, TasksAssumption DEF Slots, Tasks
<1>1. ASSUME NEW w \in Workers, RunTask(w) PROVE Placed'
  <2>1. UNCHANGED <<work, nrTasks, mainTask, mpc, i, offered, accepted>>
    BY <1>1 DEF RunTask
  <2>2. \A s \in Slots : Holds(s)' <=> Holds(s)
    BY <2>1 DEF Holds, Joining
  <2>3. /\ work[slot[w]] \in accepted
        /\ work[slot[w]] \in 1 .. offered
        /\ offered \in 0 .. MaxTasks
        /\ accepted \subseteq 1 .. offered
    BY <1>1, RunnersHold DEF RunTask, Placed, TypeInv
  <2>4. \A t \in Tasks : runs'[t] = IF t = work[slot[w]] THEN runs[t] + 1
                                                        ELSE runs[t]
    BY <1>1, OneMoreRun DEF RunTask, TypeInv
  <2>5. \A t \in Tasks : runs[t] \in Nat
    BY DEF TypeInv
  <2>6. \A t \in Tasks : t > offered => t # work[slot[w]]
    BY <2>3, <1>0, TasksAssumption
  <2>7. \A t \in Tasks : t > offered => runs'[t] = 0
    BY <2>4, <2>6 DEF Placed
  <2>8. \A t \in accepted : runs'[t] = 0 => runs[t] = 0
    BY <2>3, <2>4, <2>5, TasksAssumption DEF Tasks, TypeInv
  <2> QED
    BY <2>1, <2>2, <2>7, <2>8 DEF Placed
<1>2. ASSUME AddMainTask PROVE Placed'
  <2>1. \A s \in Slots : ~Holds(s) /\ ~Holds(s)'
    BY <1>2, <1>0 DEF AddMainTask, Holds, Placed, TypeInv
  <2>2. \A t \in accepted : runs[t] # 0
    BY <1>2, <2>1, <1>0, TasksAssumption DEF AddMainTask, Placed, TypeInv, Tasks
  <2>3. /\ offered + 1 # 0
        /\ mainTask' = offered + 1
        /\ offered' = offered + 1
        /\ offered \in Nat
        /\ accepted' = accepted \cup {offered + 1}
        /\ UNCHANGED <<work, nrTasks, runs>>
    BY <1>2, TasksAssumption DEF AddMainTask, TypeInv
  <2>4. \A s \in Slots : work[s] = 0
    BY <2>1 DEF Placed
  <2>5. \A t \in Tasks : t > offered' => runs'[t] = 0
    BY <2>3, <1>0 DEF Placed
  <2> QED
    BY <2>1, <2>2, <2>3, <2>4, <2>5 DEF Placed
<1>3. ASSUME AddWorkerTask PROVE Placed'
  <2>1. nrTasks \in Slots
    BY <1>3, EnteredBound DEF AddWorkerTask, TypeInv, Entering, Slots
  <2>2. \A s \in Slots : Holds(s)' <=> (Holds(s) \/ s = nrTasks)
    BY <1>3, <1>0 DEF AddWorkerTask, Holds, Joining, TypeInv
  <2>3. ~Holds(nrTasks)
    BY DEF Holds, TypeInv
  <2>4. \A s \in Slots : work'[s] = IF s = nrTasks THEN offered + 1 ELSE work[s]
    BY <1>3 DEF AddWorkerTask, TypeInv
  <2>5. /\ offered + 1 \notin accepted
        /\ offered + 1 # 0
        /\ offered' = offered + 1
        /\ offered \in Nat
        /\ accepted' = accepted \cup {offered + 1}
        /\ mainTask # 0
        /\ UNCHANGED <<mainTask, runs>>
    BY <1>3, TasksAssumption DEF AddWorkerTask, TypeInv
  <2>6. \A s \in Slots : Holds(s)' <=> work'[s] # 0
    BY <2>2, <2>3, <2>4, <2>5 DEF Placed
  <2>7. \A s \in Slots : Holds(s)' => work'[s] \in accepted' /\ work'[s] # mainTask'
    BY <2>2, <2>3, <2>4, <2>5 DEF Placed
  <2>8. \A s, z \in Slots :
          Holds(s)' /\ Holds(z)' /\ work'[s] = work'[z] => s = z
    BY <2>2, <2>3, <2>4, <2>5 DEF Placed
  <2>9. \A t \in Tasks : t > offered' => runs'[t] = 0
    BY <2>5, <1>0 DEF Placed
  <2>10. \A t \in accepted' : runs'[t] = 0 =>
           t = mainTask' \/ \E s \in Slots : Holds(s)' /\ work'[s] = t
    BY <2>1, <2>2, <2>3, <2>4, <2>5 DEF Placed
  <2> QED
    BY <2>5, <2>6, <2>7, <2>8, <2>9, <2>10 DEF Placed
<1>4. ASSUME RefuseTask PROVE Placed'
  <2>1. \A s \in Slots : Holds(s)' <=> Holds(s)
    BY <1>4 DEF RefuseTask, Holds, Joining
  <2> QED
    BY <1>4, <2>1, <1>0 DEF RefuseTask, Placed, TypeInv
<1>5. ASSUME RunMainTask PROVE Placed'
  <2>1. \A s \in Slots : Holds(s)' <=> Holds(s)
    BY <1>5, <1>0 DEF RunMainTask, Holds, Joining
  <2>2. \A t \in Tasks : runs'[t] = IF t = mainTask THEN runs[t] + 1
                                                   ELSE runs[t]
    BY <1>5, OneMoreRun DEF RunMainTask, TypeInv
  <2>3. /\ mainTask \in accepted
        /\ accepted \subseteq 1 .. offered
        /\ offered \in 0 .. MaxTasks
    BY <1>5 DEF RunMainTask, Placed, TypeInv, Flags
  <2>4. \A t \in Tasks : t > offered => runs'[t] = 0
    BY <2>2, <2>3, <1>0 DEF Placed
  <2>5. \A t \in accepted : runs'[t] = 0 => runs[t] = 0
    BY <2>2, <2>3, TasksAssumption DEF Tasks, TypeInv
  <2> QED
    BY <1>5, <2>1, <2>4, <2>5 DEF RunMainTask, Placed
<1>6. ASSUME ResetSlot PROVE Placed'
  <2>1. i \in Slots /\ done[i] /\ Holds(i)
    BY <1>6, EnteredBound
       DEF ResetSlot, TypeInv, Slots, Flags, Holds, Joining
  <2>2. \A s \in Slots : Holds(s)' <=> (Holds(s) /\ s # i)
    BY <1>6, <1>0 DEF ResetSlot, Holds, Joining, TypeInv
  <2>3. \A s \in Slots : work'[s] = IF s = i THEN 0 ELSE work[s]
    BY <1>6 DEF ResetSlot, TypeInv
  <2>4. runs[work[i]] # 0
    BY <2>1 DEF Progress
  <2>5. UNCHANGED <<nrTasks, mainTask, offered, accepted, runs>>
    BY <1>6 DEF ResetSlot
  <2>6. nrTasks > 0 => mainTask # 0
    BY DEF Placed
  <2> QED
    BY <2>1, <2>2, <2>3, <2>4, <2>5, <2>6 DEF Placed
<1>7. ASSUME FinishWork PROVE Placed'
  <2>1. \A s \in Slots : ~Holds(s) /\ ~Holds(s)'
    BY <1>7, <1>0 DEF FinishWork, Holds, Joining, TypeInv
  <2>2. runs[mainTask] # 0
    BY <1>7 DEF FinishWork, Progress, Joining, Flags
  <2> QED
    BY <1>7, <2>1, <2>2 DEF FinishWork, Placed
<1>8. ASSUME \/ DoWork \/ HandOver \/ Signal \/ WaitForWorker \/ SpuriousWakeup
             \/ \E w \in Workers : NotifyDone(w)
      PROVE  Placed'
  <2>1. /\ UNCHANGED <<work, nrTasks, mainTask, offered, accepted, runs>>
        /\ Joining' <=> Joining
        /\ Joining => i' = i
    <3>1. CASE DoWork
      BY <3>1 DEF DoWork, Joining
    <3>2. CASE HandOver
      BY <3>2 DEF HandOver, Joining
    <3>3. CASE Signal
      BY <3>3 DEF Signal, Joining
    <3>4. CASE WaitForWorker
      BY <3>4 DEF WaitForWorker, Joining
    <3>5. CASE SpuriousWakeup
      BY <3>5 DEF SpuriousWakeup, Joining
    <3>6. ASSUME NEW w \in Workers, NotifyDone(w)
          PROVE  /\ UNCHANGED <<work, nrTasks, mainTask, offered, accepted, runs>>
                 /\ Joining' <=> Joining
                 /\ Joining => i' = i
      <4>1. UNCHANGED <<work, nrTasks, mainTask, i, offered, accepted, runs>>
        BY <3>6 DEF NotifyDone
      <4>2. (mpc' = mpc) \/ (mpc = "joinWait" /\ mpc' = "join")
        BY <3>6 DEF NotifyDone, NotifyOne
      <4> QED
        BY <4>1, <4>2 DEF Joining
    <3> QED
      BY <1>8, <3>1, <3>2, <3>3, <3>4, <3>5, <3>6
  <2>2. \A s \in Slots : Holds(s)' <=> Holds(s)
    BY <2>1 DEF Holds
  <2> QED
    BY <2>1, <2>2 DEF Placed
<1>9. ASSUME NEW w \in Workers,
             \/ EnterRead(w) \/ EnterWrite(w) \/ WaitForWork(w) \/ FinishTask(w)
      PROVE  Placed'
  <2>1. UNCHANGED <<work, nrTasks, mainTask, mpc, i, offered, accepted, runs>>
    BY <1>9 DEF EnterRead, EnterWrite, WaitForWork, FinishTask
  <2> QED
    BY <2>1 DEF Placed, Holds, Joining
<1> QED
  BY <1>1, <1>2, <1>3, <1>4, <1>5, <1>6, <1>7, <1>8, <1>9
     DEF Next, WorkerStep, CallerStep

LEMMA ProgressStep ==
  ASSUME TypeInv, Entering, Exclusive, Flags, Placed, Progress, Next
  PROVE  Progress'
<1> USE DEF workerVars, arrayVars, callerVars, historyVars
<1> DEFINE Running(s) == \E w \in Workers : Owns(w, s) /\ wpc[w] = "finish"
<1>0. (\A s \in Slots : s \in Nat) /\ (\A t \in Tasks : t # 0 /\ t \in Nat)
  BY EnteredBound, TasksAssumption DEF Slots, Tasks
<1>a. \A s \in Slots : Holds(s) => work[s] \in Tasks
  BY TasksAssumption DEF Placed, TypeInv, Tasks
<1>b. mainTask # 0 => mainTask \in Tasks
  BY TasksAssumption DEF TypeInv, Tasks
<1>1. ASSUME NEW w \in Workers, RunTask(w) PROVE Progress'
  <2>1. UNCHANGED <<work, nrTasks, mainTask, mpc, i, done, slot>>
    BY <1>1 DEF RunTask
  <2>2. /\ \A s \in Slots : Holds(s)' <=> Holds(s)
        /\ Joining' <=> Joining
    BY <2>1 DEF Holds, Joining
  <2>3. \A t \in Tasks : runs'[t] = IF t = work[slot[w]] THEN runs[t] + 1
                                                        ELSE runs[t]
    BY <1>1, OneMoreRun DEF RunTask, TypeInv
  <2>4. \A t \in Tasks : runs[t] \in Nat
    BY DEF TypeInv
  <2>5. slot[w] \in Slots /\ Holds(slot[w])
    BY <1>1, RunnersHold DEF RunTask
  <2>6. \A s \in Slots : Running(s)' <=> (Running(s) \/ s = slot[w])
    BY <1>1, <2>1 DEF RunTask, Owns, In, TypeInv
  <2>7. mainTask' # 0 => (runs'[mainTask'] = 0 <=> ~Joining')
    BY <2>1, <2>2, <2>3, <2>5, <1>b DEF Placed, Progress
  <2>8. ASSUME NEW s \in Slots, Holds(s)'
        PROVE  runs'[work'[s]] # 0 <=> (done'[s] \/ Running(s)')
    <3>1. CASE s = slot[w]
      BY <2>1, <2>3, <2>4, <2>5, <2>6, <3>1, <1>a
    <3>2. CASE s # slot[w]
      <4>1. Holds(s) /\ work[s] # work[slot[w]]
        BY <2>2, <2>5, <2>8, <3>2 DEF Placed
      <4>2. runs'[work[s]] = runs[work[s]]
        BY <4>1, <2>3, <1>a
      <4> QED
        BY <4>1, <4>2, <2>1, <2>6, <3>2 DEF Progress
    <3> QED
      BY <3>1, <3>2
  <2> QED
    BY <2>7, <2>8 DEF Progress
<1>2. ASSUME NEW w \in Workers, FinishTask(w) PROVE Progress'
  <2>1. UNCHANGED <<work, nrTasks, mainTask, mpc, i, runs, slot>>
    BY <1>2 DEF FinishTask
  <2>2. /\ \A s \in Slots : Holds(s)' <=> Holds(s)
        /\ Joining' <=> Joining
    BY <2>1 DEF Holds, Joining
  <2>3. Running(slot[w])
    BY <1>2 DEF FinishTask, Owns, In
  <2>4. \A s \in Slots : s # slot[w] => (Running(s)' <=> Running(s))
    BY <1>2, <2>1 DEF FinishTask, Owns, In, TypeInv
  <2>5. \A s \in Slots : done'[s] = IF s = slot[w] THEN TRUE ELSE done[s]
    BY <1>2 DEF FinishTask, TypeInv
  <2>6. ASSUME NEW s \in Slots, Holds(s)'
        PROVE  runs'[work'[s]] # 0 <=> (done'[s] \/ Running(s)')
    BY <2>1, <2>2, <2>3, <2>4, <2>5, <2>6 DEF Progress
  <2> QED
    BY <2>1, <2>2, <2>6 DEF Progress
<1>3. ASSUME AddMainTask PROVE Progress'
  <2>1. \A s \in Slots : ~Holds(s)'
    BY <1>3, <1>0 DEF AddMainTask, Holds, Placed, TypeInv
  <2>2. runs'[mainTask'] = 0 /\ ~Joining'
    BY <1>3, TasksAssumption DEF AddMainTask, Joining, Placed, TypeInv, Tasks
  <2> QED
    BY <2>1, <2>2 DEF Progress
<1>4. ASSUME AddWorkerTask PROVE Progress'
  <2>1. nrTasks \in Slots
    BY <1>4, EnteredBound DEF AddWorkerTask, TypeInv, Entering, Slots
  <2>2. \A s \in Slots : Holds(s)' <=> (Holds(s) \/ s = nrTasks)
    BY <1>4, <1>0 DEF AddWorkerTask, Holds, Joining, TypeInv
  <2>3. ~Holds(nrTasks)
    BY DEF Holds, TypeInv
  <2>4. \A s \in Slots : work'[s] = IF s = nrTasks THEN offered + 1 ELSE work[s]
    BY <1>4 DEF AddWorkerTask, TypeInv
  <2>5. runs[offered + 1] = 0
    BY <1>4, TasksAssumption DEF AddWorkerTask, Placed, TypeInv, Tasks
  <2>6. UNCHANGED <<slot, wpc, done, runs, mainTask>> /\ ~Joining /\ ~Joining'
    BY <1>4 DEF AddWorkerTask, Joining
  <2>7. \A s \in Slots : Running(s)' <=> Running(s)
    BY <2>6 DEF Owns, In
  <2>8. ~done[nrTasks] /\ ~ready[nrTasks]
    BY <1>4, <2>1 DEF AddWorkerTask, Flags, Handed, Handing, Joining
  <2>9. ~Running(nrTasks)
    BY <2>8 DEF Exclusive, Owns
  <2>10. ASSUME NEW s \in Slots, Holds(s)'
         PROVE  runs'[work'[s]] # 0 <=> (done'[s] \/ Running(s)')
    BY <2>2, <2>3, <2>4, <2>5, <2>6, <2>7, <2>8, <2>9, <2>10 DEF Progress
  <2> QED
    BY <2>6, <2>10 DEF Progress
<1>5. ASSUME RunMainTask PROVE Progress'
  <2>1. \A s \in Slots : Holds(s)' <=> Holds(s)
    BY <1>5, <1>0 DEF RunMainTask, Holds, Joining
  <2>2. \A t \in Tasks : runs'[t] = IF t = mainTask THEN runs[t] + 1
                                                   ELSE runs[t]
    BY <1>5, OneMoreRun DEF RunMainTask, TypeInv
  <2>3. \A t \in Tasks : runs[t] \in Nat
    BY DEF TypeInv
  <2>4. UNCHANGED <<work, mainTask, done, slot, wpc>> /\ Joining' /\ mainTask # 0
    BY <1>5 DEF RunMainTask, Joining, Flags
  <2>5. \A s \in Slots : Running(s)' <=> Running(s)
    BY <2>4 DEF Owns, In
  <2>6. ASSUME NEW s \in Slots, Holds(s)'
        PROVE  runs'[work'[s]] # 0 <=> (done'[s] \/ Running(s)')
    <3>1. Holds(s) /\ work[s] \in Tasks /\ work[s] # mainTask
      BY <2>1, <2>6, <1>a DEF Placed
    <3> QED
      BY <3>1, <2>2, <2>4, <2>5 DEF Progress
  <2>7. runs'[mainTask'] # 0
    BY <2>2, <2>3, <2>4, <1>b
  <2> QED
    BY <2>4, <2>6, <2>7 DEF Progress
<1>6. ASSUME ResetSlot PROVE Progress'
  <2>1. \A s \in Slots : Holds(s)' <=> (Holds(s) /\ s # i)
    BY <1>6, <1>0 DEF ResetSlot, Holds, Joining, TypeInv
  <2>2. \A s \in Slots : s # i => work'[s] = work[s] /\ done'[s] = done[s]
    BY <1>6 DEF ResetSlot, TypeInv
  <2>3. UNCHANGED <<runs, mainTask, slot, wpc>> /\ Joining /\ Joining'
    BY <1>6 DEF ResetSlot, Joining
  <2>4. \A s \in Slots : Running(s)' <=> Running(s)
    BY <2>3 DEF Owns, In
  <2> QED
    BY <2>1, <2>2, <2>3, <2>4 DEF Progress
<1>7. ASSUME FinishWork PROVE Progress'
  BY <1>7, <1>0 DEF FinishWork, Progress, Holds
<1>8. ASSUME \/ DoWork \/ HandOver \/ Signal \/ WaitForWorker \/ SpuriousWakeup
             \/ RefuseTask \/ \E w \in Workers : NotifyDone(w)
      PROVE  Progress'
  <2>1. /\ UNCHANGED <<work, nrTasks, mainTask, runs, done, slot>>
        /\ Joining' <=> Joining
        /\ Joining => i' = i
    <3>1. CASE DoWork
      BY <3>1 DEF DoWork, Joining
    <3>2. CASE HandOver
      BY <3>2 DEF HandOver, Joining
    <3>3. CASE Signal
      BY <3>3 DEF Signal, Joining
    <3>4. CASE WaitForWorker
      BY <3>4 DEF WaitForWorker, Joining
    <3>5. CASE SpuriousWakeup
      BY <3>5 DEF SpuriousWakeup, Joining
    <3>6. ASSUME NEW w \in Workers, NotifyDone(w)
          PROVE  /\ UNCHANGED <<work, nrTasks, mainTask, runs, done, slot>>
                 /\ Joining' <=> Joining
                 /\ Joining => i' = i
      <4>1. UNCHANGED <<work, nrTasks, mainTask, i, runs, done, slot>>
        BY <3>6 DEF NotifyDone
      <4>2. (mpc' = mpc) \/ (mpc = "joinWait" /\ mpc' = "join")
        BY <3>6 DEF NotifyDone, NotifyOne
      <4> QED
        BY <4>1, <4>2 DEF Joining
    <3>7. CASE RefuseTask
      BY <3>7 DEF RefuseTask, Joining
    <3> QED
      BY <1>8, <3>1, <3>2, <3>3, <3>4, <3>5, <3>6, <3>7
  <2>2. \A s \in Slots : Holds(s)' <=> Holds(s)
    BY <2>1 DEF Holds
  <2>3. \A w \in Workers : wpc'[w] = "finish" <=> wpc[w] = "finish"
    <3>1. ASSUME \/ Signal \/ SpuriousWakeup \/ \E w \in Workers : NotifyDone(w)
          PROVE  \A w \in Workers : wpc'[w] = "finish" <=> wpc[w] = "finish"
      BY <3>1, QuietSteps DEF Quiet
    <3>2. ASSUME DoWork \/ HandOver \/ WaitForWorker \/ RefuseTask
          PROVE  wpc' = wpc
      BY <3>2 DEF DoWork, HandOver, WaitForWorker, RefuseTask
    <3> QED
      BY <1>8, <3>1, <3>2
  <2>4. \A s \in Slots : Running(s)' <=> Running(s)
    BY <2>1, <2>3 DEF Owns, In
  <2> QED
    BY <2>1, <2>2, <2>4 DEF Progress
<1>9. ASSUME NEW w \in Workers, EnterRead(w) \/ EnterWrite(w) \/ WaitForWork(w)
      PROVE  Progress'
  <2>1. UNCHANGED <<work, nrTasks, mainTask, mpc, i, runs, done>>
    BY <1>9 DEF EnterRead, EnterWrite, WaitForWork
  <2>2. \A s \in Slots : Running(s)' <=> Running(s)
    BY <1>9 DEF EnterRead, EnterWrite, WaitForWork, Owns, In, TypeInv
  <2> QED
    BY <2>1, <2>2 DEF Progress, Holds, Joining
<1> QED
  BY <1>1, <1>2, <1>3, <1>4, <1>5, <1>6, <1>7, <1>8, <1>9
     DEF Next, WorkerStep, CallerStep
-----------------------------------------------------------------------------
(* The inductive invariant.                                                *)

LEMMA StepInv == IInv /\ [Next]_vars => IInv'
<1> SUFFICES ASSUME IInv, [Next]_vars PROVE IInv'
  OBVIOUS
<1>1. CASE Next
  BY <1>1, TypeStep, EnteringStep, ServedStep, ExclusiveStep, FlagsStep,
     PlacedStep, ProgressStep DEF IInv
<1>2. CASE UNCHANGED vars
  <2>1. /\ UNCHANGED <<entered, slot, wpc, ready, done, work, nrTasks, mainTask>>
        /\ UNCHANGED <<mpc, i, offered, accepted, runs>>
    BY <1>2 DEF vars, workerVars, arrayVars, callerVars, historyVars
  <2>2. TypeInv' /\ Served' /\ Exclusive'
    BY <2>1 DEF IInv, TypeInv, Served, Owns, In, Exclusive
  <2>3. Entering'
    BY <2>1, EnteredSame DEF IInv, Entering, In
  <2>4. Flags' /\ Placed' /\ Progress'
    BY <2>1 DEF IInv, Flags, Handed, Handing, Joining, Placed, Holds, Progress,
                Owns, In
  <2> QED
    BY <2>2, <2>3, <2>4 DEF IInv
<1> QED
  BY <1>1, <1>2

THEOREM Inductive == Spec => []IInv
BY InitInv, StepInv, PTL DEF Spec

\* In every behaviour the counters and indices of thread_handler.cpp stay
\* inside the array that thread_handler_init allocated.
THEOREM TypeCorrect == Spec => []TypeOK
<1>1. IInv => TypeOK
  <2> SUFFICES ASSUME IInv PROVE TypeOK
    OBVIOUS
  <2>1. entered \in 0 .. NrThreads
    BY EnteredBound DEF IInv, TypeInv, Entering
  <2>2. slot \in [Workers -> 0 .. NrThreads]
    <3>1. \A w \in Workers : slot[w] \in 0 .. NrThreads
      BY EnteredBound DEF IInv, TypeInv, Entering
    <3> QED
      BY <3>1 DEF IInv, TypeInv
  <2> QED
    BY <2>1, <2>2, EnteredBound, TasksAssumption DEF IInv, TypeInv, TypeOK, Tasks
<1> QED
  BY <1>1, Inductive, PTL

\* Every element that thread_add_work can give a task to has a worker, however
\* the increments of entered_threads interleave.
THEOREM SlotsAreServed == Spec => []SlotsServed
<1>1. IInv => SlotsServed
  BY InSlots DEF IInv, Served, SlotsServed
<1> QED
  BY <1>1, Inductive, PTL
-----------------------------------------------------------------------------
(* Each step is a step of ForkJoin or none.                                *)

Todo == {t \in accepted : runs[t] = 0}

LEMMA RunStep ==
  ASSUME IInv, NEW t \in Tasks, t \in Todo, mpc # "idle", mpc' # "idle",
         UNCHANGED accepted, runs' = [runs EXCEPT ![t] = @ + 1]
  PROVE  Pool!Next
<1>1. \A u \in Tasks : runs'[u] = IF u = t THEN runs[u] + 1 ELSE runs[u]
  BY OneMoreRun DEF IInv, TypeInv
<1>2. accepted \subseteq Tasks /\ \A u \in Tasks : runs[u] \in Nat
  BY TasksAssumption DEF IInv, TypeInv, Tasks
<1>3. Todo' = Todo \ {t}
  BY <1>1, <1>2 DEF Todo
<1>4. Pool!Run(t)
  BY <1>3 DEF Pool!Run, Todo
<1> QED
  BY <1>4 DEF Pool!Next

LEMMA AcceptStep ==
  ASSUME IInv, offered < MaxTasks, mpc = "idle", mpc' = "idle",
         accepted' = accepted \cup {offered + 1}, UNCHANGED runs
  PROVE  Pool!Next
<1>1. offered + 1 \in Tasks
  BY TasksAssumption DEF IInv, TypeInv, Tasks
<1>2. runs[offered + 1] = 0
  BY <1>1, TasksAssumption DEF IInv, TypeInv, Placed
<1>3. Todo' = Todo \cup {offered + 1}
  BY <1>2 DEF Todo
<1>4. PICK t \in Tasks : t = offered + 1
  BY <1>1
<1>5. Pool!Accept(t)
  BY <1>2, <1>3, <1>4 DEF Pool!Accept, Todo
<1> QED
  BY <1>5 DEF Pool!Next

LEMMA JoinStep ==
  ASSUME IInv, FinishWork
  PROVE  Pool!Next
<1>1. \A s \in Slots : ~Holds(s)
  <2>1. mpc = "join" /\ i = nrTasks /\ nrTasks \in Nat
    BY EnteredBound DEF FinishWork, IInv, TypeInv
  <2>2. \A s \in Slots : s \in Nat
    BY EnteredBound DEF Slots
  <2> QED
    BY <2>1, <2>2 DEF Holds, Joining
<1>2. runs[mainTask] # 0
  BY DEF IInv, FinishWork, Progress, Joining, Flags
<1>3. Todo = {}
  BY <1>1, <1>2 DEF Todo, IInv, Placed
<1>4. Todo' = Todo
  BY DEF FinishWork, Todo, historyVars
<1>5. Pool!Join
  BY <1>3, <1>4 DEF Pool!Join, FinishWork, historyVars, Todo
<1> QED
  BY <1>5 DEF Pool!Next

LEMMA RefinementStep ==
  ASSUME IInv, [Next]_vars
  PROVE  [Pool!Next]_(Pool!vars)
<1> USE DEF workerVars, arrayVars, callerVars, historyVars
<1>1. ASSUME NEW w \in Workers, RunTask(w) PROVE Pool!Next
  <2> DEFINE t == work[slot[w]]
  <2>1. /\ slot[w] \in Slots
        /\ Holds(slot[w])
        /\ t \in Tasks
        /\ ready[slot[w]]
    BY <1>1, RunnersHold DEF RunTask, IInv
  <2>2. ~done[slot[w]]
    BY <2>1 DEF IInv, Flags
  <2>3. \A v \in Workers : ~(Owns(v, slot[w]) /\ wpc[v] = "finish")
    BY <1>1 DEF RunTask, Owns, IInv, Exclusive
  <2>4. t \in Todo
    BY <2>1, <2>2, <2>3 DEF Todo, IInv, Progress, Placed
  <2>5. mpc # "idle"
    BY <2>1 DEF IInv, Flags, Handed, Handing, Joining
  <2>6. mpc' = mpc /\ accepted' = accepted /\ runs' = [runs EXCEPT ![t] = @ + 1]
    BY <1>1 DEF RunTask
  <2> QED
    BY <2>1, <2>4, <2>5, <2>6, RunStep
<1>2. ASSUME RunMainTask PROVE Pool!Next
  <2>1. /\ mainTask \in Todo
        /\ mainTask \in Tasks
    BY <1>2, TasksAssumption
       DEF RunMainTask, IInv, Flags, Placed, Progress, Joining, Todo, TypeInv, Tasks
  <2> QED
    BY <1>2, <2>1, RunStep DEF RunMainTask
<1>3. ASSUME AddMainTask PROVE Pool!Next
  BY <1>3, AcceptStep DEF AddMainTask
<1>4. ASSUME AddWorkerTask PROVE Pool!Next
  BY <1>4, AcceptStep DEF AddWorkerTask
<1>5. ASSUME FinishWork PROVE Pool!Next
  BY <1>5, JoinStep
<1>6. ASSUME DoWork PROVE Pool!Next
  <2>1. Pool!Start
    BY <1>6 DEF Pool!Start, DoWork
  <2> QED
    BY <2>1 DEF Pool!Next
<1>7. ASSUME mpc' = "idle" <=> mpc = "idle", UNCHANGED <<accepted, runs>>
      PROVE  UNCHANGED Pool!vars
  BY <1>7 DEF Pool!vars
<1>8. ASSUME NEW w \in Workers,
             \/ EnterRead(w) \/ EnterWrite(w) \/ WaitForWork(w) \/ FinishTask(w)
             \/ NotifyDone(w)
      PROVE  UNCHANGED Pool!vars
  <2>1. UNCHANGED <<accepted, runs>>
    BY <1>8 DEF EnterRead, EnterWrite, WaitForWork, FinishTask, NotifyDone
  <2>2. mpc' = mpc \/ (mpc = "joinWait" /\ mpc' = "join")
    <3>1. CASE NotifyDone(w)
      BY <3>1 DEF NotifyDone, NotifyOne
    <3>2. CASE EnterRead(w) \/ EnterWrite(w) \/ WaitForWork(w) \/ FinishTask(w)
      BY <3>2 DEF EnterRead, EnterWrite, WaitForWork, FinishTask
    <3> QED
      BY <1>8, <3>1, <3>2
  <2> QED
    BY <2>1, <2>2, <1>7
<1>9. ASSUME RefuseTask \/ HandOver \/ Signal \/ WaitForWorker \/ ResetSlot
             \/ SpuriousWakeup
      PROVE  UNCHANGED Pool!vars
  <2>1. UNCHANGED <<accepted, runs>>
    BY <1>9 DEF RefuseTask, HandOver, Signal, WaitForWorker, ResetSlot,
                SpuriousWakeup
  <2>2. mpc' = "idle" <=> mpc = "idle"
    BY <1>9 DEF RefuseTask, HandOver, Signal, WaitForWorker, ResetSlot,
                SpuriousWakeup
  <2> QED
    BY <2>1, <2>2, <1>7
<1>10. ASSUME UNCHANGED vars PROVE UNCHANGED Pool!vars
  BY <1>10, <1>7 DEF vars
<1> QED
  BY <1>1, <1>2, <1>3, <1>4, <1>5, <1>6, <1>8, <1>9, <1>10
     DEF Next, WorkerStep, CallerStep

\* Each task that thread_add_work took is run once, by whoever, while
\* thread_do_work is under way, and thread_do_work ends when all have been: also
\* when two workers took one element, and under spurious wakeups.
THEOREM Refinement == Spec => ImplementsForkJoin
<1>1. Init => Pool!Init
  <2> SUFFICES ASSUME Init PROVE Pool!Init
    OBVIOUS
  <2>1. mpc = "idle" /\ accepted = {} /\ runs = [t \in Tasks |-> 0]
    BY DEF Init
  <2> QED
    BY <2>1 DEF Pool!Init
<1>2. IInv /\ [Next]_vars => [Pool!Next]_(Pool!vars)
  BY RefinementStep
<1> QED
  BY <1>1, <1>2, Inductive, PTL DEF ImplementsForkJoin, Pool!Spec, Spec
=============================================================================
