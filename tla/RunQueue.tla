------------------------------ MODULE RunQueue ------------------------------
(***************************************************************************)
(* What the task list of task.c promises to the rest of the kernel: a       *)
(* queue of distinct tasks in order of creation, one of which runs, and a   *)
(* round-robin turn that moves to the next in cyclic order.                 *)
(***************************************************************************)
EXTENDS Naturals, Sequences, SequencesExt

CONSTANTS Task, NoTask

VARIABLES queue,    \* the tasks, oldest first
          running   \* the task whose turn it is, NoTask when there is none

vars == <<queue, running>>

Init == queue = <<>> /\ running = NoTask

\* The task after t in cyclic order.
After(t) == LET i == CHOOSE j \in DOMAIN queue : queue[j] = t
            IN  queue[(i % Len(queue)) + 1]

Create(t) == /\ t \notin ToSet(queue)
             /\ queue' = Append(queue, t)
             /\ running' = IF queue = <<>> THEN t ELSE running

(* The turn of a task that dies passes to the one after it.                 *)
Destroy(t) == /\ t \in ToSet(queue)
              /\ queue' = SelectSeq(queue, LAMBDA u : u # t)
              /\ running' = IF Len(queue) = 1 THEN NoTask
                            ELSE IF t = running THEN After(t) ELSE running

Turn == queue # <<>> /\ running' = After(running) /\ UNCHANGED queue

\* A task that is created and gets the turn at once.
Launch(t) == /\ t \notin ToSet(queue)
             /\ queue' = Append(queue, t)
             /\ running' = t

Next == \/ \E t \in Task : Create(t) \/ Destroy(t) \/ Launch(t)
        \/ Turn

Spec == Init /\ [][Next]_vars
=============================================================================
