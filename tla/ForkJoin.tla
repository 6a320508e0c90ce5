------------------------------ MODULE ForkJoin ------------------------------
(***************************************************************************)
(* What thread_add_work and thread_do_work of the IEE promise to a library *)
(* that has work to share out: tasks are accepted while nothing runs, each *)
(* accepted task is run once, and thread_do_work returns when all of them  *)
(* have been.  Who runs a task, and in which order, is left open.          *)
(***************************************************************************)
EXTENDS Naturals

CONSTANT Tasks          \* every task that is ever offered

VARIABLES
  working,              \* inside thread_do_work
  todo,                 \* tasks accepted and not yet run
  runs                  \* how often each task was run

vars == <<working, todo, runs>>

Init ==
  /\ working = FALSE
  /\ todo = {}
  /\ runs = [t \in Tasks |-> 0]

\* thread_add_work returned 0; a task is offered once.
Accept(t) ==
  /\ ~working
  /\ runs[t] = 0
  /\ todo' = todo \cup {t}
  /\ UNCHANGED <<working, runs>>

Start ==
  /\ ~working
  /\ working' = TRUE
  /\ UNCHANGED <<todo, runs>>

Run(t) ==
  /\ working
  /\ t \in todo
  /\ todo' = todo \ {t}
  /\ runs' = [runs EXCEPT ![t] = @ + 1]
  /\ UNCHANGED working

Join ==
  /\ working
  /\ todo = {}
  /\ working' = FALSE
  /\ UNCHANGED <<todo, runs>>

Next ==
  \/ \E t \in Tasks : Accept(t) \/ Run(t)
  \/ Start
  \/ Join

Spec == Init /\ [][Next]_vars
=============================================================================
