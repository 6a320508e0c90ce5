--------------------------- MODULE ThreadHandler ---------------------------
(***************************************************************************)
(* The threads of the IEE (Iee/thread_handler.cpp, Iee/Enclave.cpp and     *)
(* IeeComm/threading/thread_pool.cpp).  A pool of threads enters the       *)
(* enclave; each takes an element of the array `threads` and waits on its  *)
(* condition variable.  One more thread, the caller of thread_add_work and *)
(* thread_do_work, keeps one task for itself, hands the others to the      *)
(* workers and waits for all of them.                                      *)
(*                                                                         *)
(* A step is what happens between two points at which another thread may   *)
(* come in: a critical section that ends where it began is one step, while *)
(* a worker keeps its lock for as long as its task runs.  The increment of *)
(* entered_threads takes two steps, since nothing makes it one.            *)
(***************************************************************************)
EXTENDS Naturals, FiniteSets

CONSTANTS
  Workers,      \* the threads of the pool
  NrThreads,    \* the argument of thread_handler_init and init_thread_pool
  MaxTasks      \* bound: tasks ever offered to thread_add_work

ASSUME WorkersAssumption ==
  /\ IsFiniteSet(Workers)
  /\ NrThreads = Cardinality(Workers)
ASSUME TasksAssumption == MaxTasks \in Nat

Slots == 0 .. NrThreads - 1      \* indices of `threads`
Tasks == 1 .. MaxTasks           \* a task and its argument; 0 is NULL

VARIABLES
  entered,      \* entered_threads
  slot,         \* the element a worker took (my_data); for a worker that is
                \* in thread_handler_add, the value it read
  wpc,          \* where each worker is
  ready, done,  \* flags of the elements of `threads`
  work,         \* task and task_args of each element
  nrTasks,      \* nr_tasks
  mainTask,     \* main_task; 0 when has_main_thread is 0
  mpc, i,       \* where the caller is, and its loop variable
  offered,      \* tasks offered so far
  accepted,     \* history: tasks for which thread_add_work returned 0
  runs          \* history: how often each task was run

workerVars == <<entered, slot, wpc>>
arrayVars == <<ready, done, work>>
callerVars == <<nrTasks, mainTask, mpc, i>>
historyVars == <<offered, accepted, runs>>
vars == <<workerVars, arrayVars, callerVars, historyVars>>

\* thread_handler_init, before any thread of the pool is created.
Init ==
  /\ entered = 0
  /\ slot = [w \in Workers |-> 0]
  /\ wpc = [w \in Workers |-> "out"]
  /\ ready = [s \in Slots |-> FALSE]
  /\ done = [s \in Slots |-> FALSE]
  /\ work = [s \in Slots |-> 0]
  /\ nrTasks = 0
  /\ mainTask = 0
  /\ mpc = "idle"
  /\ i = 0
  /\ offered = 0
  /\ accepted = {}
  /\ runs = [t \in Tasks |-> 0]
-----------------------------------------------------------------------------
(* Locks and condition variables.                                          *)

In(w) == wpc[w] \notin {"out", "entering"}
Owns(w, s) == In(w) /\ slot[w] = s

\* A worker holds the lock of its element while it runs a task.
Locked(s) == \E w \in Workers : Owns(w, s) /\ wpc[w] \in {"run", "finish"}

\* notify_one: of the threads that wait on the variable of s, if any, one
\* goes on to take the lock.  Worker and caller wait on the same variable.
NotifyOne(s, callerWaits, workersWait) ==
  \/ /\ callerWaits
     /\ mpc' = "join"
     /\ wpc' = workersWait
  \/ \E w \in Workers :
       /\ Owns(w, s)
       /\ workersWait[w] = "wait"
       /\ wpc' = [workersWait EXCEPT ![w] = "top"]
       /\ UNCHANGED mpc
  \/ /\ ~callerWaits
     /\ \A w \in Workers : Owns(w, s) => workersWait[w] # "wait"
     /\ wpc' = workersWait
     /\ UNCHANGED mpc
-----------------------------------------------------------------------------
(* A worker: ecall_thread_enter.                                           *)

\* thread_handler_add reads entered_threads ...
EnterRead(w) ==
  /\ wpc[w] = "out"
  /\ slot' = [slot EXCEPT ![w] = entered]
  /\ wpc' = [wpc EXCEPT ![w] = "entering"]
  /\ UNCHANGED <<entered, arrayVars, callerVars, historyVars>>

\* ... and writes it back incremented, whatever it is by now.
EnterWrite(w) ==
  /\ wpc[w] = "entering"
  /\ entered' = slot[w] + 1
  /\ wpc' = [wpc EXCEPT ![w] = "top"]
  /\ UNCHANGED <<slot, arrayVars, callerVars, historyVars>>

\* Take the lock and test `ready`: keep the lock, or release it and wait.
WaitForWork(w) ==
  /\ wpc[w] = "top"
  /\ ~Locked(slot[w])
  /\ wpc' = [wpc EXCEPT ![w] = IF ready[slot[w]] THEN "run" ELSE "wait"]
  /\ UNCHANGED <<entered, slot, arrayVars, callerVars, historyVars>>

RunTask(w) ==
  /\ wpc[w] = "run"
  /\ runs' = [runs EXCEPT ![work[slot[w]]] = @ + 1]
  /\ wpc' = [wpc EXCEPT ![w] = "finish"]
  /\ UNCHANGED <<entered, slot, arrayVars, callerVars, offered, accepted>>

\* Mutant of FinishTask: `ready` is not reset.
FinishTaskStillReady(w) ==
  /\ wpc[w] = "finish"
  /\ done' = [done EXCEPT ![slot[w]] = TRUE]
  /\ wpc' = [wpc EXCEPT ![w] = "notify"]
  /\ UNCHANGED <<entered, slot, ready, work, callerVars, historyVars>>

FinishTask(w) ==
  /\ wpc[w] = "finish"
  /\ ready' = [ready EXCEPT ![slot[w]] = FALSE]
  /\ done' = [done EXCEPT ![slot[w]] = TRUE]
  /\ wpc' = [wpc EXCEPT ![w] = "notify"]
  /\ UNCHANGED <<entered, slot, work, callerVars, historyVars>>

\* The lock is free again: by now the caller may have begun another round.
NotifyDone(w) ==
  /\ wpc[w] = "notify"
  /\ NotifyOne(slot[w], mpc = "joinWait" /\ i = slot[w],
               [wpc EXCEPT ![w] = "top"])
  /\ UNCHANGED <<entered, slot, arrayVars, nrTasks, mainTask, i, historyVars>>
-----------------------------------------------------------------------------
(* The caller.                                                             *)

\* The first task is the caller's own.
AddMainTask ==
  /\ mpc = "idle"
  /\ offered < MaxTasks
  /\ mainTask = 0
  /\ offered' = offered + 1
  /\ mainTask' = offered + 1
  /\ accepted' = accepted \cup {offered + 1}
  /\ UNCHANGED <<workerVars, arrayVars, nrTasks, mpc, i, runs>>

\* Mutant of AddWorkerTask: one element too many is used.
AddWorkerTaskPastEntered ==
  /\ mpc = "idle"
  /\ offered < MaxTasks
  /\ mainTask # 0
  /\ nrTasks <= entered
  /\ offered' = offered + 1
  /\ work' = [work EXCEPT ![nrTasks] = offered + 1]
  /\ nrTasks' = nrTasks + 1
  /\ accepted' = accepted \cup {offered + 1}
  /\ UNCHANGED <<workerVars, ready, done, mainTask, mpc, i, runs>>

AddWorkerTask ==
  /\ mpc = "idle"
  /\ offered < MaxTasks
  /\ mainTask # 0
  /\ nrTasks < entered
  /\ offered' = offered + 1
  /\ work' = [work EXCEPT ![nrTasks] = offered + 1]
  /\ nrTasks' = nrTasks + 1
  /\ accepted' = accepted \cup {offered + 1}
  /\ UNCHANGED <<workerVars, ready, done, mainTask, mpc, i, runs>>

\* thread_add_work returns 1.
RefuseTask ==
  /\ mpc = "idle"
  /\ offered < MaxTasks
  /\ mainTask # 0
  /\ nrTasks >= entered
  /\ offered' = offered + 1
  /\ UNCHANGED <<workerVars, arrayVars, callerVars, accepted, runs>>

\* thread_do_work is called with at least one task.
DoWork ==
  /\ mpc = "idle"
  /\ mainTask # 0
  /\ mpc' = "hand"
  /\ i' = 0
  /\ UNCHANGED <<workerVars, arrayVars, nrTasks, mainTask, historyVars>>

\* Mutant of HandOver: the loop goes one element too far.
HandOverOneMore ==
  /\ mpc = "hand"
  /\ i <= nrTasks
  /\ i \in Slots => ~Locked(i)
  /\ ready' = [ready EXCEPT ![i] = TRUE]
  /\ mpc' = "signal"
  /\ UNCHANGED <<workerVars, done, work, nrTasks, mainTask, i, historyVars>>

HandOver ==
  /\ mpc = "hand"
  /\ i < nrTasks
  /\ ~Locked(i)
  /\ ready' = [ready EXCEPT ![i] = TRUE]
  /\ mpc' = "signal"
  /\ UNCHANGED <<workerVars, done, work, nrTasks, mainTask, i, historyVars>>

\* Mutant of Signal: nobody is woken.
SignalNobody ==
  /\ mpc = "signal"
  /\ i' = i + 1
  /\ mpc' = "hand"
  /\ UNCHANGED <<workerVars, arrayVars, nrTasks, mainTask, historyVars>>

Signal ==
  /\ mpc = "signal"
  /\ i' = i + 1
  /\ mpc' = "hand"
  /\ \/ \E w \in Workers :
          /\ Owns(w, i)
          /\ wpc[w] = "wait"
          /\ wpc' = [wpc EXCEPT ![w] = "top"]
     \/ /\ \A w \in Workers : Owns(w, i) => wpc[w] # "wait"
        /\ UNCHANGED wpc
  /\ UNCHANGED <<entered, slot, arrayVars, nrTasks, mainTask, historyVars>>

RunMainTask ==
  /\ mpc = "hand"
  /\ i = nrTasks
  /\ runs' = [runs EXCEPT ![mainTask] = @ + 1]
  /\ mpc' = "join"
  /\ i' = 0
  /\ UNCHANGED <<workerVars, arrayVars, nrTasks, mainTask, offered, accepted>>

\* Take the lock and test `done`: go on, or release it and wait.
WaitForWorker ==
  /\ mpc = "join"
  /\ i < nrTasks
  /\ ~Locked(i)
  /\ mpc' = IF done[i] THEN "reset" ELSE "joinWait"
  /\ UNCHANGED <<workerVars, arrayVars, nrTasks, mainTask, i, historyVars>>

\* After the lock is released.
ResetSlot ==
  /\ mpc = "reset"
  /\ done' = [done EXCEPT ![i] = FALSE]
  /\ work' = [work EXCEPT ![i] = 0]
  /\ i' = i + 1
  /\ mpc' = "join"
  /\ UNCHANGED <<workerVars, ready, nrTasks, mainTask, historyVars>>

FinishWork ==
  /\ mpc = "join"
  /\ i = nrTasks
  /\ nrTasks' = 0
  /\ mainTask' = 0
  /\ i' = 0
  /\ mpc' = "idle"
  /\ UNCHANGED <<workerVars, arrayVars, historyVars>>

\* A condition variable may wake a thread for no reason.
SpuriousWakeup ==
  \/ \E w \in Workers :
       /\ wpc[w] = "wait"
       /\ wpc' = [wpc EXCEPT ![w] = "top"]
       /\ UNCHANGED <<entered, slot, arrayVars, callerVars, historyVars>>
  \/ /\ mpc = "joinWait"
     /\ mpc' = "join"
     /\ UNCHANGED <<workerVars, arrayVars, nrTasks, mainTask, i, historyVars>>
-----------------------------------------------------------------------------
WorkerStep(w) ==
  \/ EnterRead(w) \/ EnterWrite(w)
  \/ WaitForWork(w) \/ RunTask(w) \/ FinishTask(w) \/ NotifyDone(w)

\* What thread_do_work does once it has been called.
CallerStep ==
  \/ HandOver \/ Signal \/ RunMainTask
  \/ WaitForWorker \/ ResetSlot \/ FinishWork

Next ==
  \/ \E w \in Workers : WorkerStep(w)
  \/ AddMainTask \/ AddWorkerTask \/ RefuseTask \/ DoWork
  \/ CallerStep
  \/ SpuriousWakeup

Spec == Init /\ [][Next]_vars

\* Threads go on running; nobody has to offer a task, and no spurious wakeup
\* has to happen.
FairSpec ==
  /\ Spec
  /\ \A w \in Workers : WF_vars(WorkerStep(w))
  /\ WF_vars(CallerStep)
-----------------------------------------------------------------------------
(* Types, and what a task meets.                                           *)
TypeOK ==
  /\ entered \in 0 .. NrThreads
  /\ slot \in [Workers -> 0 .. NrThreads]
  /\ wpc \in [Workers -> {"out", "entering", "top", "wait", "run", "finish",
                          "notify"}]
  /\ ready \in [Slots -> BOOLEAN]
  /\ done \in [Slots -> BOOLEAN]
  /\ work \in [Slots -> 0 .. MaxTasks]
  /\ nrTasks \in 0 .. NrThreads
  /\ mainTask \in 0 .. MaxTasks
  /\ mpc \in {"idle", "hand", "signal", "join", "joinWait", "reset"}
  /\ i \in 0 .. NrThreads
  /\ offered \in 0 .. MaxTasks
  /\ accepted \subseteq Tasks
  /\ runs \in [Tasks -> Nat]

\* However the increments of entered_threads interleave, a worker has taken
\* each element below it, and so each element that can be given a task; and no
\* worker takes an element outside the array.
SlotsServed ==
  /\ \A s \in 0 .. entered - 1 : \E w \in Workers : Owns(w, s)
  /\ \A s \in 0 .. nrTasks - 1 : \E w \in Workers : Owns(w, s)
  /\ \A w \in Workers : In(w) => slot[w] \in Slots

\* Each task that thread_add_work took is run once, by somebody, and
\* thread_do_work returns when all have been, also if two workers have taken
\* the same element.
Pool == INSTANCE ForkJoin
          WITH working <- mpc # "idle",
               todo <- {t \in accepted : runs[t] = 0}
ImplementsForkJoin == Pool!Spec

\* Two workers read entered_threads before either wrote it.
SharedSlot ==
  \E v, w \in Workers : v # w /\ In(v) /\ In(w) /\ slot[v] = slot[w]

\* thread_do_work returns, unless two workers have taken the same element: then
\* the one that finished may wake the other in place of the caller.
JoinReturns == (mpc # "idle") ~> (mpc = "idle" \/ SharedSlot)
=============================================================================
