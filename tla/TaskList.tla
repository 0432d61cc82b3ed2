------------------------------ MODULE TaskList ------------------------------
(***************************************************************************)
(* The doubly linked list of tasks of src/src/task/task.c, as pure          *)
(* operators on one record that holds task_head, task_tail, current_task    *)
(* and every task's next and prev pointers.  A handler of the kernel        *)
(* changes the list by applying these operators one after the other.        *)
(* A task is named by an element of Task; NoTask is the null pointer.       *)
(***************************************************************************)
EXTENDS Naturals

CONSTANTS Task,     \* the tasks the kernel can have at a time
          NoTask    \* NULL

ASSUME NoTaskAssumption == NoTask \notin Task

Pointer == Task \cup {NoTask}

\* The globals of task.c and the link fields of struct task.
TaskListType == [head : Pointer, tail : Pointer, current : Pointer,
                 next : [Task -> Pointer], prev : [Task -> Pointer]]

\* Before the first task_new: every global is NULL.
NoTasks == [head |-> NoTask, tail |-> NoTask, current |-> NoTask,
            next |-> [t \in Task |-> NoTask], prev |-> [t \in Task |-> NoTask]]
-----------------------------------------------------------------------------
(* task_new: the first task becomes head, tail and current; a later one is  *)
(* linked behind the tail and current_task is left alone.                   *)
task_new(l, t) ==
  IF l.head = NoTask
  THEN [l EXCEPT !.head = t, !.tail = t, !.current = t]
  ELSE [l EXCEPT !.next[l.tail] = t, !.prev[t] = l.tail, !.tail = t]

(* task_list_remove, called by task_free.  The successor of the current     *)
(* task is read from the links BEFORE they change, so the only task of the  *)
(* list is its own successor.  The freed task's own links are void.         *)
task_list_remove(l, t) ==
  LET n == l.next[t]
      p == l.prev[t]
  IN  [head    |-> IF t = l.head THEN n ELSE l.head,
       tail    |-> IF t = l.tail THEN p ELSE l.tail,
       current |-> IF t # l.current THEN l.current
                   ELSE IF n # NoTask THEN n ELSE l.head,
       next    |-> [u \in Task |-> IF u = t THEN NoTask
                                   ELSE IF u = p THEN n ELSE l.next[u]],
       prev    |-> [u \in Task |-> IF u = t THEN NoTask
                                   ELSE IF u = n THEN p ELSE l.prev[u]]]

\* Mutant: always the head of the list.
task_get_next_head(l) == l.head

\* task_get_next: the task after the current one, from the head again at the end.
task_get_next(l) ==
  IF l.next[l.current] = NoTask THEN l.head ELSE l.next[l.current]

\* task_switch
task_switch(l, t) == [l EXCEPT !.current = t]

\* task_next, up to the task_return that enters the chosen task.
task_next(l) == task_switch(l, task_get_next(l))
-----------------------------------------------------------------------------
(* The links of l agree with each other and with the set live of tasks:     *)
(* next and prev mirror each other and only the ends have no neighbour.     *)
Links(l, live) ==
  /\ l.head = NoTask <=> live = {}
  /\ l.tail = NoTask <=> live = {}
  /\ l.head # NoTask => l.head \in live
  /\ l.tail # NoTask => l.tail \in live
  /\ \A t \in live : /\ l.next[t] = NoTask <=> t = l.tail
                     /\ l.prev[t] = NoTask <=> t = l.head
                     /\ l.next[t] # NoTask => l.next[t] \in live /\ l.prev[l.next[t]] = t
                     /\ l.prev[t] # NoTask => l.prev[t] \in live /\ l.next[l.prev[t]] = t
  /\ \A t \in Task \ live : l.next[t] = NoTask /\ l.prev[t] = NoTask

(* No set of tasks is closed under next: there is no cycle.                 *)
Acyclic(l, live) ==
  \A S \in SUBSET live : S # {} => \E t \in S : l.next[t] \notin S

(* Together: one chain, from head to tail, of exactly the tasks in live.    *)
Linked(l, live) == Links(l, live) /\ Acyclic(l, live)
=============================================================================
