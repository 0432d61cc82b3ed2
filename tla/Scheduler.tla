------------------------------ MODULE Scheduler -----------------------------
(***************************************************************************)
(* src/src/task/task.c on its own: the task list under any order of the     *)
(* calls its users (process.c, idt.c, sys/task/process.c) make, and the     *)
(* proof obligation that the pointers implement RunQueue.                   *)
(***************************************************************************)
EXTENDS TaskList, Sequences, FiniteSets

VARIABLES tl,      \* the task list
          live     \* tasks created and not yet freed

vars == <<tl, live>>

Init == tl = NoTasks /\ live = {}

TaskNew(t) == /\ t \notin live
              /\ tl' = task_new(tl, t)
              /\ live' = live \cup {t}

TaskFree(t) == /\ t \in live
               /\ tl' = task_list_remove(tl, t)
               /\ live' = live \ {t}

\* The process layer panics before it could schedule with no task left.
TaskNext == live # {} /\ tl' = task_next(tl) /\ UNCHANGED live

(* The system calls that launch a program, and maink, switch to the task    *)
(* they have just created; nobody else calls task_switch.                   *)
TaskLaunch(t) == /\ t \notin live
                 /\ tl' = task_switch(task_new(tl, t), t)
                 /\ live' = live \cup {t}

Next == \/ \E t \in Task : TaskNew(t) \/ TaskFree(t) \/ TaskLaunch(t)
        \/ TaskNext

Spec == Init /\ [][Next]_vars
-----------------------------------------------------------------------------
\* The i-th task from the head, NoTask past the end.
Nth == LET f[i \in Nat] == IF i = 0 THEN tl.head
                           ELSE IF f[i-1] = NoTask THEN NoTask ELSE tl.next[f[i-1]]
       IN  f

\* The list read from head to tail.
Forward == [i \in 1 .. Cardinality({j \in 0 .. Cardinality(Task) : Nth[j] # NoTask})
              |-> Nth[i-1]]

\* With no task left current_task is meaningless.
Q == INSTANCE RunQueue WITH queue <- Forward,
       running <- IF tl.head = NoTask THEN NoTask ELSE tl.current

(* The pointers of task.c implement the queue: walked from task_head they   *)
(* are the live tasks in order of creation, whatever was removed where, and *)
(* current_task is one of them and goes round.                              *)
ImplementsRunQueue == Q!Spec
=============================================================================
