--------------------------- MODULE ProcessProofs ----------------------------
(***************************************************************************)
(* The safety of modules TaskList, Process and Runtime, for any number of   *)
(* slots and programs.                                                      *)
(*                                                                          *)
(* The inductive invariant of Process adds to its properties that every     *)
(* process has registers to resume: task_return would otherwise enter a     *)
(* freed task.                                                              *)
(***************************************************************************)
EXTENDS Runtime, TLAPS

-----------------------------------------------------------------------------
(* The list of tasks.                                                       *)

(* task_new puts a task that is not in the list behind all the others and   *)
(* leaves a turn that somebody has alone.                                   *)
LEMMA NewLinked ==
  ASSUME NEW l \in TaskListType, NEW live \in SUBSET Task, NEW t \in Task \ live,
         Linked(l, live)
  PROVE  /\ task_new(l, t) \in TaskListType
         /\ Linked(task_new(l, t), live \cup {t})
         /\ task_new(l, t).current = IF live = {} THEN t ELSE l.current
<1> DEFINE m == task_new(l, t)
           new == live \cup {t}
<1> USE NoTaskAssumption
<1>1. CASE l.head = NoTask
  <2>1. live = {}
    BY <1>1 DEF Linked, Links
  <2>2. m = [head |-> t, tail |-> t, current |-> t, next |-> l.next, prev |-> l.prev]
    BY <1>1 DEF task_new, TaskListType
  <2>3. m \in TaskListType
    BY <2>2 DEF TaskListType, Pointer
  <2>4. \A u \in Task : l.next[u] = NoTask /\ l.prev[u] = NoTask
    BY <2>1 DEF Linked, Links
  <2>5. Linked(m, new)
    BY <2>1, <2>2, <2>4 DEF Linked, Links, Acyclic
  <2> QED
    BY <2>1, <2>2, <2>3, <2>5
<1>2. CASE l.head # NoTask
  <2>1. live # {} /\ l.tail \in live /\ l.head \in live
    BY <1>2 DEF Linked, Links
  <2>2. m = [head |-> l.head, tail |-> t, current |-> l.current,
             next |-> [l.next EXCEPT ![l.tail] = t],
             prev |-> [l.prev EXCEPT ![t] = l.tail]]
    BY <1>2 DEF task_new, TaskListType
  <2>3. m \in TaskListType
    BY <2>1, <2>2 DEF TaskListType, Pointer
  <2>4. /\ \A u \in Task : m.next[u] = IF u = l.tail THEN t ELSE l.next[u]
        /\ \A u \in Task : m.prev[u] = IF u = t THEN l.tail ELSE l.prev[u]
        /\ m.head = l.head /\ m.tail = t
    BY <2>2 DEF TaskListType
  <2> HIDE DEF m
  <2>5. l.next[t] = NoTask /\ l.prev[t] = NoTask /\ t \notin live /\ t # NoTask
    BY DEF Linked, Links
  <2>6. ASSUME NEW u \in new
        PROVE  /\ m.next[u] = NoTask <=> u = m.tail
               /\ m.prev[u] = NoTask <=> u = m.head
               /\ m.next[u] # NoTask => m.next[u] \in new /\ m.prev[m.next[u]] = u
               /\ m.prev[u] # NoTask => m.prev[u] \in new /\ m.next[m.prev[u]] = u
    <3>1. CASE u = t
      BY <3>1, <2>1, <2>4, <2>5
    <3>2. CASE u \in live
      <4>1. /\ l.next[u] = NoTask <=> u = l.tail
            /\ l.prev[u] = NoTask <=> u = l.head
            /\ l.next[u] # NoTask => l.next[u] \in live /\ l.prev[l.next[u]] = u
            /\ l.prev[u] # NoTask => l.prev[u] \in live /\ l.next[l.prev[u]] = u
            /\ u \in Task /\ u # t
        BY <3>2, <2>5 DEF Linked, Links
      <4>2. /\ m.next[u] = NoTask <=> u = m.tail
            /\ m.prev[u] = NoTask <=> u = m.head
        BY <4>1, <2>1, <2>4, <2>5
      <4>3. m.next[u] # NoTask => m.next[u] \in new /\ m.prev[m.next[u]] = u
        BY <4>1, <2>1, <2>4, <2>5
      <4>4. m.prev[u] # NoTask => m.prev[u] \in new /\ m.next[m.prev[u]] = u
        <5>1. l.prev[u] # NoTask => l.prev[u] # l.tail
          BY <4>1, <2>1, <2>5, NoTaskAssumption DEF Linked, Links
        <5> QED
          BY <4>1, <5>1, <2>1, <2>4, <2>5
      <4> QED
        BY <4>2, <4>3, <4>4
    <3> QED
      BY <3>1, <3>2
  <2>7. \A u \in Task \ new : m.next[u] = NoTask /\ m.prev[u] = NoTask
    BY <2>1, <2>4 DEF Linked, Links
  <2>8. ASSUME NEW S \in SUBSET new, S # {}
        PROVE  \E u \in S : m.next[u] \notin S
    <3>1. CASE t \in S
      BY <3>1, <2>1, <2>4, <2>5
    <3>2. CASE t \notin S
      <4>1. S \in SUBSET live
        BY <3>2
      <4>2. PICK u \in S : l.next[u] \notin S
        BY <4>1, <2>8 DEF Linked, Acyclic
      <4>3. m.next[u] \notin S
        BY <4>1, <4>2, <3>2, <2>4
      <4> QED
        BY <4>3
    <3> QED
      BY <3>1, <3>2
  <2>9. Linked(m, new)
    BY <2>1, <2>4, <2>5, <2>6, <2>7, <2>8 DEF Linked, Links, Acyclic
  <2> QED
    BY <2>1, <2>2, <2>3, <2>9 DEF m
<1> QED
  BY <1>1, <1>2

(* A task that is both ends of the list is alone in it.                     *)
LEMMA OnlyTask ==
  ASSUME NEW l \in TaskListType, NEW live \in SUBSET Task, NEW t \in live,
         Linked(l, live), t = l.head, t = l.tail
  PROVE  live = {t}
<1> SUFFICES ASSUME live \ {t} # {} PROVE FALSE
  OBVIOUS
<1>1. PICK u \in live \ {t} : l.next[u] \notin live \ {t}
  BY DEF Linked, Acyclic
<1>2. l.next[u] \in live /\ l.prev[l.next[u]] = u
  BY <1>1 DEF Linked, Links
<1>3. l.prev[t] = u
  BY <1>1, <1>2
<1> QED
  BY <1>3, NoTaskAssumption DEF Linked, Links

(* task_list_remove takes one task out of the chain, and while a task is    *)
(* left the turn stays with, or passes to, one that is left.                *)
LEMMA RemoveLinked ==
  ASSUME NEW l \in TaskListType, NEW live \in SUBSET Task, NEW t \in live,
         Linked(l, live)
  PROVE  /\ task_list_remove(l, t) \in TaskListType
         /\ Linked(task_list_remove(l, t), live \ {t})
         /\ l.current \in live /\ live # {t}
              => task_list_remove(l, t).current \in live \ {t}
         /\ l.current # t => task_list_remove(l, t).current = l.current
<1> DEFINE m == task_list_remove(l, t)
           rest == live \ {t}
           n == l.next[t]
           p == l.prev[t]
<1> USE NoTaskAssumption
<1>1. m = [head    |-> IF t = l.head THEN n ELSE l.head,
           tail    |-> IF t = l.tail THEN p ELSE l.tail,
           current |-> IF t # l.current THEN l.current
                       ELSE IF n # NoTask THEN n ELSE l.head,
           next    |-> [u \in Task |-> IF u = t THEN NoTask
                                       ELSE IF u = p THEN n ELSE l.next[u]],
           prev    |-> [u \in Task |-> IF u = t THEN NoTask
                                       ELSE IF u = n THEN p ELSE l.prev[u]]]
  BY DEF task_list_remove
<1>2. m \in TaskListType
  BY <1>1 DEF TaskListType, Pointer
<1>3. /\ \A u \in Task : m.next[u] = IF u = t THEN NoTask
                                     ELSE IF u = p THEN n ELSE l.next[u]
      /\ \A u \in Task : m.prev[u] = IF u = t THEN NoTask
                                     ELSE IF u = n THEN p ELSE l.prev[u]
      /\ m.head = IF t = l.head THEN n ELSE l.head
      /\ m.tail = IF t = l.tail THEN p ELSE l.tail
  BY <1>1
<1> HIDE DEF m
<1>4. /\ n = NoTask <=> t = l.tail
      /\ p = NoTask <=> t = l.head
      /\ n # NoTask => n \in live /\ l.prev[n] = t
      /\ p # NoTask => p \in live /\ l.next[p] = t
      /\ l.head \in live /\ l.tail \in live
  BY DEF Linked, Links
<1>5. n # t /\ p # t
  <2>1. {t} # {} /\ {t} \in SUBSET live
    OBVIOUS
  <2>2. n # t
    BY <2>1 DEF Linked, Acyclic
  <2> QED
    BY <2>2, <1>4
<1>6. rest = {} <=> (t = l.head /\ t = l.tail)
  BY <1>4, OnlyTask
<1>7. \A u \in rest : /\ l.next[u] = NoTask <=> u = l.tail
                      /\ l.prev[u] = NoTask <=> u = l.head
                      /\ l.next[u] # NoTask => l.next[u] \in live /\ l.prev[l.next[u]] = u
                      /\ l.prev[u] # NoTask => l.prev[u] \in live /\ l.next[l.prev[u]] = u
  BY DEF Linked, Links
<1>8. \A u \in rest : (l.next[u] = t <=> u = p) /\ (l.prev[u] = t <=> u = n)
  BY <1>4, <1>7
<1>9. /\ m.head = NoTask <=> rest = {}
      /\ m.tail = NoTask <=> rest = {}
      /\ m.head # NoTask => m.head \in rest
      /\ m.tail # NoTask => m.tail \in rest
  BY <1>3, <1>4, <1>5, <1>6
<1>10. ASSUME NEW u \in rest
       PROVE  /\ m.next[u] = NoTask <=> u = m.tail
              /\ m.prev[u] = NoTask <=> u = m.head
  <2>1. /\ l.next[u] = NoTask <=> u = l.tail
        /\ l.prev[u] = NoTask <=> u = l.head
        /\ u \in Task /\ u # t
    BY <1>7
  <2>2. m.next[u] = NoTask <=> u = m.tail
    BY <2>1, <1>3, <1>4, <1>5
  <2>3. m.prev[u] = NoTask <=> u = m.head
    BY <2>1, <1>3, <1>4, <1>5
  <2> QED
    BY <2>2, <2>3
<1>11. ASSUME NEW u \in rest, m.next[u] # NoTask
       PROVE  m.next[u] \in rest /\ m.prev[m.next[u]] = u
  BY <1>11, <1>3, <1>4, <1>5, <1>7, <1>8
<1>12. ASSUME NEW u \in rest, m.prev[u] # NoTask
       PROVE  m.prev[u] \in rest /\ m.next[m.prev[u]] = u
  BY <1>12, <1>3, <1>4, <1>5, <1>7, <1>8
<1>13. ASSUME NEW u \in Task \ rest
       PROVE  m.next[u] = NoTask /\ m.prev[u] = NoTask
  <2>1. CASE u = t
    BY <2>1, <1>3
  <2>2. CASE u # t
    <3>1. u \in Task \ live /\ u # NoTask
      BY <2>2
    <3>2. l.next[u] = NoTask /\ l.prev[u] = NoTask
      BY <3>1 DEF Linked, Links
    <3>3. u # p /\ u # n
      BY <3>1, <1>4
    <3> QED
      BY <2>2, <3>1, <3>2, <3>3, <1>3
  <2> QED
    BY <2>1, <2>2
<1>14. ASSUME NEW S \in SUBSET rest, S # {}
       PROVE  \E u \in S : m.next[u] \notin S
  <2>1. PICK u \in S : l.next[u] \notin S
    BY <1>14 DEF Linked, Acyclic
  <2>2. CASE u # p
    BY <2>1, <2>2, <1>3
  <2>3. CASE u = p
    <3>1. CASE n \notin S
      BY <2>3, <3>1, <1>3
    <3>2. CASE n \in S
      <4>1. S \cup {t} \in SUBSET live /\ S \cup {t} # {}
        OBVIOUS
      <4>2. PICK w \in S \cup {t} : l.next[w] \notin S \cup {t}
        BY <4>1 DEF Linked, Acyclic
      <4>3. w # t /\ w # p
        BY <4>2, <3>2, <2>3, <1>4
      <4> QED
        BY <4>2, <4>3, <1>3
    <3> QED
      BY <3>1, <3>2
  <2> QED
    BY <2>2, <2>3
<1>15. Linked(m, rest)
  BY <1>9, <1>10, <1>11, <1>12, <1>13, <1>14 DEF Linked, Links, Acyclic
<1>16. /\ l.current \in live /\ live # {t} => m.current \in rest
       /\ l.current # t => m.current = l.current
  BY <1>1, <1>4, <1>5, <1>6
<1> QED
  BY <1>2, <1>15, <1>16 DEF m

(* task_switch and task_next move the turn and nothing else; task_next      *)
(* moves it to a task of the list.                                          *)
LEMMA SwitchLinked ==
  ASSUME NEW l \in TaskListType, NEW live \in SUBSET Task, NEW t \in Task,
         Linked(l, live)
  PROVE  /\ task_switch(l, t) \in TaskListType
         /\ Linked(task_switch(l, t), live)
         /\ task_switch(l, t).current = t
<1>1. task_switch(l, t) = [head |-> l.head, tail |-> l.tail, current |-> t,
                           next |-> l.next, prev |-> l.prev]
  BY DEF task_switch, TaskListType
<1> QED
  BY <1>1 DEF Linked, Links, Acyclic, TaskListType, Pointer

(* task_next keeps the chain and moves the turn to a task of it.            *)
LEMMA NextLinked ==
  ASSUME NEW l \in TaskListType, NEW live \in SUBSET Task,
         Linked(l, live), l.current \in live
  PROVE  /\ task_next(l) \in TaskListType
         /\ Linked(task_next(l), live)
         /\ task_next(l).current \in live
<1>1. task_get_next(l) \in live
  BY NoTaskAssumption DEF task_get_next, Linked, Links
<1> QED
  BY <1>1, SwitchLinked DEF task_next

(* A task that is linked and removed again, as by a load that fails late,   *)
(* leaves the list as it was.                                               *)
LEMMA NewThenRemove ==
  ASSUME NEW l \in TaskListType, NEW live \in SUBSET Task, NEW t \in Task \ live,
         Linked(l, live), l.current \in live
  PROVE  task_list_remove(task_new(l, t), t) = l
<1> USE NoTaskAssumption
<1>1. l.head # NoTask /\ l.tail \in live /\ l.head \in live
  BY DEF Linked, Links
<1>2. task_new(l, t) = [head |-> l.head, tail |-> t, current |-> l.current,
                        next |-> [l.next EXCEPT ![l.tail] = t],
                        prev |-> [l.prev EXCEPT ![t] = l.tail]]
  BY <1>1 DEF task_new, TaskListType
<1>3. /\ l.next[t] = NoTask /\ l.prev[t] = NoTask /\ l.next[l.tail] = NoTask
      /\ t # l.head /\ t # l.tail /\ t # l.current
  BY <1>1 DEF Linked, Links
<1> DEFINE m == task_list_remove(task_new(l, t), t)
<1>4. /\ m.head = l.head /\ m.tail = l.tail /\ m.current = l.current
  BY <1>1, <1>2, <1>3 DEF task_list_remove, TaskListType
<1>5. m.next = [u \in Task |-> l.next[u]] /\ m.prev = [u \in Task |-> l.prev[u]]
  BY <1>1, <1>2, <1>3 DEF task_list_remove, TaskListType
<1>6. m.next = l.next /\ m.prev = l.prev
  BY <1>5 DEF TaskListType
<1>7. m = [head |-> m.head, tail |-> m.tail, current |-> m.current,
           next |-> m.next, prev |-> m.prev]
  BY DEF task_list_remove
<1>8. l = [head |-> l.head, tail |-> l.tail, current |-> l.current,
           next |-> l.next, prev |-> l.prev]
  BY DEF TaskListType
<1> QED
  BY <1>4, <1>6, <1>7, <1>8
-----------------------------------------------------------------------------
(* Processes and the runtime.                                               *)

(* Every process of the table has registers it can be resumed with.         *)
Resumable == \A s \in Live : registers[s] \in Program

IInv == TypeOK /\ TableMatchesList /\ TurnAndFocusLive /\ Resumable
-----------------------------------------------------------------------------
(* maink establishes the invariant.                                         *)
LEMMA InitIInv == Init => IInv
<1> SUFFICES ASSUME Init PROVE IInv
  OBVIOUS
<1> USE NoTaskAssumption, SlotAssumption, ProgramAssumption, ReturnAssumption
<1>1. Live = {0}
  BY DEF Init, Live
<1>2. NoTasks \in TaskListType /\ Linked(NoTasks, {})
  BY DEF NoTasks, TaskListType, Pointer, Linked, Links, Acyclic
<1>3. /\ task_new(NoTasks, 0) \in TaskListType
      /\ Linked(task_new(NoTasks, 0), {0})
  <2>1. 0 \in Task \ {} /\ {} \cup {0} = {0}
    OBVIOUS
  <2> QED
    BY <1>2, <2>1, NewLinked
<1>4. tl \in TaskListType /\ Linked(tl, {0}) /\ tl.current = 0
  BY <1>3, SwitchLinked DEF Init
<1>5. TypeOK
  BY <1>4 DEF Init, TypeOK
<1> QED
  BY <1>1, <1>4, <1>5 DEF Init, IInv, TableMatchesList, TurnAndFocusLive, Resumable

(* The trap saves the CPU's registers in the task that has the turn.        *)
LEMMA SavedType ==
  ASSUME IInv, kernel = "running"
  PROVE  /\ saved \in [Task -> Program \cup {NoProgram}]
         /\ \A s \in Live : saved[s] \in Program
         /\ saved[tl.current] = cpu
         /\ \A s \in Task : s # tl.current => saved[s] = registers[s]
<1>1. tl.current \in Task /\ cpu \in Program
  BY DEF IInv, TypeOK, TurnAndFocusLive, Live
<1> QED
  BY <1>1 DEF IInv, TypeOK, Resumable, saved, Live

(* A load that succeeds adds exactly one process, which can be resumed.     *)
LEMMA LoadStep ==
  ASSUME IInv, kernel = "running",
         NEW s \in Task, NEW file \in Program, NEW regs \in Program,
         process_get_free_slot(s), process_load_for_slot(s, file, regs)
  PROVE  /\ s \notin Live
         /\ Live' = Live \cup {s}
         /\ processes' \in [Task -> Program \cup {NoProgram}]
         /\ registers' \in [Task -> Program \cup {NoProgram}]
         /\ Resumable'
         /\ registers'[s] = regs
         /\ task_new(tl, s) \in TaskListType
         /\ Linked(task_new(tl, s), Live')
         /\ task_new(tl, s).current = tl.current
<1> USE ProgramAssumption
<1>1. s \notin Live /\ Live \in SUBSET Task
  BY DEF process_get_free_slot, Live
<1>2. /\ processes' \in [Task -> Program \cup {NoProgram}]
      /\ processes'[s] = file
      /\ \A u \in Task : u # s => processes'[u] = processes[u]
  BY DEF process_load_for_slot, IInv, TypeOK
<1>3. Live' = Live \cup {s}
  BY <1>2 DEF Live
<1>4. /\ registers' \in [Task -> Program \cup {NoProgram}]
      /\ registers'[s] = regs
      /\ \A u \in Task : u # s => registers'[u] = saved[u]
  BY SavedType DEF process_load_for_slot
<1>5. Resumable'
  BY <1>1, <1>3, <1>4, SavedType DEF Resumable
<1>6. Live # {} /\ tl \in TaskListType /\ Linked(tl, Live)
  BY DEF IInv, TypeOK, TableMatchesList, TurnAndFocusLive
<1>7. /\ task_new(tl, s) \in TaskListType
      /\ Linked(task_new(tl, s), Live \cup {s})
      /\ task_new(tl, s).current = tl.current
  BY <1>1, <1>6, NewLinked
<1> QED
  BY <1>1, <1>2, <1>3, <1>4, <1>5, <1>7

(* A load that fails leaves everything but the saved registers alone.       *)
LEMMA FailStep ==
  ASSUME IInv, kernel = "running", process_load_fails
  PROVE  /\ UNCHANGED <<processes, current_process, tl, cpu, locked, kernel>>
         /\ registers' = saved
<1>1. tl' = tl
  <2>1. CASE UNCHANGED tl
    BY <2>1
  <2>2. ASSUME NEW s \in Task, process_get_free_slot(s),
               tl' = task_list_remove(task_new(tl, s), s)
        PROVE  tl' = tl
    <3>1. s \in Task \ Live /\ Live \in SUBSET Task
      BY <2>2 DEF process_get_free_slot, Live
    <3>2. tl \in TaskListType /\ Linked(tl, Live) /\ tl.current \in Live
      BY DEF IInv, TypeOK, TableMatchesList, TurnAndFocusLive
    <3> QED
      BY <2>2, <3>1, <3>2, NewThenRemove
  <2> QED
    BY <2>1, <2>2 DEF process_load_fails
<1> QED
  BY <1>1 DEF process_load_fails, TrapReturn

(* process_terminate takes exactly one process away.  Unless it panics, a   *)
(* process is left, and the turn and the focus are with one that is left.   *)
LEMMA TerminateStep ==
  ASSUME IInv, kernel = "running", NEW p \in Live, process_terminate(p)
  PROVE  /\ Live' = Live \ {p}
         /\ processes' \in [Task -> Program \cup {NoProgram}]
         /\ registers' \in [Task -> Program \cup {NoProgram}]
         /\ current_process' \in Task
         /\ kernel' \in {"running", "panic"}
         /\ Resumable'
         /\ task_list_remove(tl, p) \in TaskListType
         /\ Linked(task_list_remove(tl, p), Live')
         /\ kernel' = "running" => /\ current_process' \in Live'
                                   /\ task_list_remove(tl, p).current \in Live'
<1> USE ProgramAssumption
<1>1. p \in Task /\ Live \in SUBSET Task
  BY DEF Live
<1>2. /\ processes' \in [Task -> Program \cup {NoProgram}]
      /\ processes'[p] = NoProgram
      /\ \A u \in Task : u # p => processes'[u] = processes[u]
  BY <1>1 DEF process_terminate, process_unlink, IInv, TypeOK
<1>3. Live' = Live \ {p}
  BY <1>2 DEF Live
<1>4. /\ registers' \in [Task -> Program \cup {NoProgram}]
      /\ \A u \in Task : u # p => registers'[u] = saved[u]
  BY <1>1, SavedType DEF process_terminate, process_unlink
<1>5. Resumable'
  BY <1>1, <1>3, <1>4, SavedType DEF Resumable
<1>6. current_process \in Live /\ tl.current \in Live
  BY DEF IInv, TurnAndFocusLive
<1>7. /\ current_process' \in Task
      /\ kernel' \in {"running", "panic"}
      /\ kernel' = "running" => current_process' \in Live \ {p}
  BY <1>1, <1>6 DEF process_terminate, process_unlink
<1>8. /\ task_list_remove(tl, p) \in TaskListType
      /\ Linked(task_list_remove(tl, p), Live \ {p})
      /\ Live # {p} => task_list_remove(tl, p).current \in Live \ {p}
  <2>1. tl \in TaskListType /\ Linked(tl, Live)
    BY DEF IInv, TypeOK, TableMatchesList
  <2> QED
    BY <2>1, <1>1, <1>6, RemoveLinked
<1> QED
  BY <1>2, <1>3, <1>4, <1>5, <1>7, <1>8

(* Exit and fault: the turn goes on to a process that is left.              *)
LEMMA TerminateAndNextIInv ==
  ASSUME IInv, kernel = "running", terminate_and_next, ret' = NoReturn
  PROVE  IInv'
<1> DEFINE p == tl.current
           removed == task_list_remove(tl, p)
<1>1. p \in Live /\ process_terminate(p)
  BY DEF IInv, TurnAndFocusLive, terminate_and_next
<1>2. /\ Live' \in SUBSET Task
      /\ removed \in TaskListType /\ Linked(removed, Live')
      /\ kernel' = "running" => current_process' \in Live' /\ removed.current \in Live'
      /\ Resumable'
  BY <1>1, TerminateStep DEF Live
<1>3. CASE kernel' = "running"
  <2>1. tl' = task_next(removed) /\ cpu' = registers'[tl'.current]
    BY <1>3 DEF terminate_and_next, task_return
  <2>2. tl' \in TaskListType /\ Linked(tl', Live') /\ tl'.current \in Live'
    BY <1>2, <1>3, <2>1, NextLinked
  <2>3. cpu' \in Program
    BY <1>2, <2>1, <2>2 DEF Resumable
  <2> QED
    BY <1>1, <1>2, <1>3, <2>2, <2>3, TerminateStep
    DEF TypeOK, TableMatchesList, TurnAndFocusLive, terminate_and_next, IInv
<1>4. CASE kernel' = "panic"
  <2>1. tl' = removed /\ cpu' = cpu /\ locked' = locked
    BY <1>4 DEF terminate_and_next
  <2> QED
    BY <1>1, <1>2, <1>4, <2>1, TerminateStep
    DEF TypeOK, TableMatchesList, TurnAndFocusLive, IInv
<1> QED
  BY <1>1, <1>3, <1>4, TerminateStep

(* Every trap and every turn of an endless loop keeps the invariant.        *)
LEMMA NextIInv == IInv /\ [Next]_vars => IInv'
<1> SUFFICES ASSUME IInv, [Next]_vars PROVE IInv'
  OBVIOUS
<1> USE ProgramAssumption
<1>1. CASE UNCHANGED vars
  BY <1>1 DEF vars, IInv, TypeOK, TableMatchesList, TurnAndFocusLive, Resumable, Live
<1>2. CASE EndlessLoop
  BY <1>1, <1>2 DEF EndlessLoop
<1>3. ASSUME kernel = "running", NEW file \in Program,
             sys_command6_process_load_start(file), ret' = NoReturn
      PROVE  IInv'
  <2>1. CASE process_load_fails
    BY <1>3, <2>1, FailStep, SavedType
    DEF IInv, TypeOK, TableMatchesList, TurnAndFocusLive, Resumable, Live
  <2>2. ASSUME NEW s \in Task, process_get_free_slot(s), process_load_for_slot(s, file, file),
               current_process' = s, tl' = task_switch(task_new(tl, s), s),
               task_return, UNCHANGED <<locked, kernel>>
        PROVE  IInv'
    <3>1. tl' \in TaskListType /\ Linked(tl', Live') /\ tl'.current = s /\ s \in Live'
      BY <1>3, <2>2, LoadStep, SwitchLinked DEF Live
    <3>2. cpu' = file
      BY <1>3, <2>2, <3>1, LoadStep DEF task_return
    <3> QED
      BY <1>3, <2>2, <3>1, <3>2, LoadStep
      DEF IInv, TypeOK, TableMatchesList, TurnAndFocusLive
  <2> QED
    BY <1>3, <2>1, <2>2 DEF sys_command6_process_load_start
<1>4. ASSUME kernel = "running", NEW file \in Program,
             sys_command9_invoke_system_command(file), ret' = NoReturn
      PROVE  IInv'
  <2>1. CASE process_load_fails
    BY <1>4, <2>1, FailStep, SavedType
    DEF IInv, TypeOK, TableMatchesList, TurnAndFocusLive, Resumable, Live
  <2>2. ASSUME NEW s \in Task, process_get_free_slot(s), process_load_for_slot(s, file, file),
               current_process' = s,
               tl' = task_new(tl, s), UNCHANGED <<cpu, locked, kernel>>
        PROVE  IInv'
    BY <1>4, <2>2, LoadStep DEF IInv, TypeOK, TableMatchesList, TurnAndFocusLive
  <2>3. ASSUME NEW s \in Task, process_get_free_slot(s), process_load_for_slot(s, file, file),
               current_process' = s, tl' = task_switch(task_new(tl, s), s),
               locked' = TRUE, task_return, UNCHANGED kernel
        PROVE  IInv'
    <3>1. tl' \in TaskListType /\ Linked(tl', Live') /\ tl'.current = s /\ s \in Live'
      BY <1>4, <2>3, LoadStep, SwitchLinked DEF Live
    <3>2. cpu' = file
      BY <1>4, <2>3, <3>1, LoadStep DEF task_return
    <3> QED
      BY <1>4, <2>3, <3>1, <3>2, LoadStep
      DEF IInv, TypeOK, TableMatchesList, TurnAndFocusLive
  <2>4. ASSUME NEW s \in Task, process_get_free_slot(s), process_load_for_slot(s, file, file),
               current_process' = s, tl' = task_switch(task_new(tl, s), s),
               kernel' = "spinning", UNCHANGED <<cpu, locked>>
        PROVE  IInv'
    <3>1. tl' \in TaskListType /\ Linked(tl', Live')
      BY <1>4, <2>4, LoadStep, SwitchLinked DEF Live
    <3> QED
      BY <1>4, <2>4, <3>1, LoadStep
      DEF IInv, TypeOK, TableMatchesList, TurnAndFocusLive
  <2> QED
    BY <1>4, <2>1, <2>2, <2>3, <2>4 DEF sys_command9_invoke_system_command
<1>5. ASSUME kernel = "running", sys_command14_fork
      PROVE  IInv'
  <2>1. CASE process_load_fails /\ ret' \in Task \cup {Garbage}
    BY <1>5, <2>1, FailStep, SavedType
    DEF IInv, TypeOK, TableMatchesList, TurnAndFocusLive, Resumable, Live
  <2>2. ASSUME NEW s \in Task, process_get_free_slot(s),
               process_load_for_slot(s, processes[current_process], cpu),
               tl' = task_new(tl, s), ret' = s,
               UNCHANGED <<current_process, cpu, locked, kernel>>
        PROVE  IInv'
    <3>1. processes[current_process] \in Program /\ cpu \in Program
      BY <1>5 DEF IInv, TypeOK, TurnAndFocusLive, Live
    <3> QED
      BY <1>5, <2>2, <3>1, LoadStep DEF IInv, TypeOK, TableMatchesList, TurnAndFocusLive
  <2> QED
    BY <1>5, <2>1, <2>2 DEF sys_command14_fork, process_fork
<1>6. ASSUME kernel = "running", NEW pid \in Task, sys_command15_kill(pid), ret' = NoReturn
      PROVE  IInv'
  BY <1>6, TerminateStep
  DEF sys_command15_kill, IInv, TypeOK, TableMatchesList, TurnAndFocusLive
<1>7. ASSUME kernel = "running", ret' = NoReturn,
             sys_command13_done \/ interrupt_handler
      PROVE  IInv'
  BY <1>7, SavedType
  DEF sys_command13_done, interrupt_handler, TrapReturn, IInv, TypeOK,
      TableMatchesList, TurnAndFocusLive, Resumable, Live
<1>8. ASSUME kernel = "running", int0h, ret' = NoReturn
      PROVE  IInv'
  BY <1>8 DEF int0h, IInv, TypeOK, TableMatchesList, TurnAndFocusLive, Resumable, Live
<1>9. ASSUME kernel = "running", idt_clock, ret' = NoReturn
      PROVE  IInv'
  <2>1. Live' = Live /\ Live \in SUBSET Task
    BY <1>9 DEF idt_clock, Live
  <2>2. tl' \in TaskListType /\ Linked(tl', Live) /\ tl'.current \in Live
    BY <1>9, <2>1, NextLinked DEF idt_clock, IInv, TypeOK, TableMatchesList, TurnAndFocusLive
  <2>3. cpu' \in Program
    BY <1>9, <2>2, SavedType DEF idt_clock, task_return
  <2> QED
    BY <1>9, <2>1, <2>2, <2>3, SavedType
    DEF idt_clock, IInv, TypeOK, TableMatchesList, TurnAndFocusLive, Resumable
<1> QED
  BY <1>1, <1>2, <1>3, <1>4, <1>5, <1>6, <1>7, <1>8, <1>9, TerminateAndNextIInv
  DEF Next, Trap, sys_command7_process_exit, idt_handle_exception

(* The inductive invariant holds after every trap.                          *)
THEOREM Invariance == Spec => []IInv
  BY InitIInv, NextIInv, PTL DEF Spec

(* The variables keep their types: in particular the kernel never switches  *)
(* to registers that are not a program's.                                   *)
THEOREM TypeCorrect == Spec => []TypeOK
<1>1. IInv => TypeOK
  BY DEF IInv
<1> QED
  BY <1>1, Invariance, PTL

(* For any number of processes, the task list is at all times one chain of  *)
(* exactly the tasks of the processes in the table.                         *)
THEOREM ListMatchesTable == Spec => []TableMatchesList
<1>1. IInv => TableMatchesList
  BY DEF IInv
<1> QED
  BY <1>1, Invariance, PTL

(* As long as the kernel runs, current_task and current_process are never   *)
(* freed ones.                                                              *)
THEOREM NeverDangling == Spec => []TurnAndFocusLive
<1>1. IInv => TurnAndFocusLive
  BY DEF IInv
<1> QED
  BY <1>1, Invariance, PTL
-----------------------------------------------------------------------------
(* When every context matches on entry to a handler, what the handler has   *)
(* saved is each process's own program.                                     *)
LEMMA SavedMatches ==
  ASSUME IInv, kernel = "running", ContextsMatch
  PROVE  \A s \in Live : saved[s] = processes[s]
  BY SavedType DEF ContextsMatch, Live

(* After a step that enters the task of the turn through task_return, it is *)
(* enough that every process's registers are its own.                       *)
LEMMA EnteredMatches ==
  ASSUME cpu' = registers'[tl'.current],
         kernel' = "running" => tl'.current \in Live',
         \A s \in Live' : registers'[s] = processes'[s]
  PROVE  ContextsMatch'
  BY DEF ContextsMatch

(* The step of the theorem below.                                           *)
LEMMA MixStep ==
  ASSUME IInv, [Next]_vars, ContextsMatch
  PROVE  ContextsMatch' \/ SelfKill \/ StrayFork
<1> USE ProgramAssumption
<1>0. IInv'
  BY NextIInv
<1>1. CASE UNCHANGED vars
  BY <1>1 DEF vars, ContextsMatch, Live
<1>2. CASE kernel # "running" /\ ~UNCHANGED vars
  BY <1>2 DEF Next, EndlessLoop
<1> SUFFICES ASSUME kernel = "running", Trap
             PROVE  ContextsMatch' \/ SelfKill \/ StrayFork
  BY <1>1, <1>2 DEF Next, EndlessLoop
<1>3. /\ tl.current \in Live /\ current_process \in Live /\ Live \in SUBSET Task
      /\ cpu = processes[tl.current]
      /\ \A s \in Live : saved[s] = processes[s]
  BY SavedMatches DEF IInv, TurnAndFocusLive, ContextsMatch, Live
<1>4. kernel' = "running" => tl'.current \in Live'
  BY <1>0 DEF IInv, TurnAndFocusLive
<1>5. ASSUME NEW s \in Task, NEW file \in Program, NEW regs \in Program,
             process_get_free_slot(s), process_load_for_slot(s, file, regs)
      PROVE  /\ s \notin Live /\ Live' = Live \cup {s}
             /\ registers'[s] = regs /\ processes'[s] = file
             /\ \A u \in Live : registers'[u] = processes[u] /\ processes'[u] = processes[u]
             /\ task_new(tl, s).current = tl.current
  <2>1. processes \in [Task -> Program \cup {NoProgram}]
    BY DEF IInv, TypeOK
  <2>2. saved \in [Task -> Program \cup {NoProgram}]
    BY SavedType
  <2>3. s \notin Live /\ Live' = Live \cup {s} /\ task_new(tl, s).current = tl.current
    BY <1>5, LoadStep
  <2> QED
    BY <1>3, <1>5, <2>1, <2>2, <2>3 DEF process_load_for_slot
<1>6. ASSUME process_load_fails
      PROVE  ContextsMatch'
  BY <1>3, <1>6, FailStep DEF ContextsMatch, Live
<1>7. ASSUME NEW s \in Task, NEW file \in Program,
             process_get_free_slot(s), process_load_for_slot(s, file, file),
             task_return \/ kernel' # "running" \/ (tl' = task_new(tl, s) /\ cpu' = cpu)
      PROVE  ContextsMatch'
  <2>1. \A u \in Live' : registers'[u] = processes'[u]
    BY <1>5, <1>7
  <2>2. CASE task_return
    BY <1>4, <2>1, <2>2, EnteredMatches DEF task_return
  <2>3. CASE kernel' # "running"
    BY <2>3 DEF ContextsMatch
  <2>4. CASE tl' = task_new(tl, s) /\ cpu' = cpu
    BY <1>3, <1>5, <1>7, <2>1, <2>4 DEF ContextsMatch
  <2> QED
    BY <1>7, <2>2, <2>3, <2>4
<1>8. ASSUME NEW file \in Program, sys_command6_process_load_start(file)
      PROVE  ContextsMatch'
  BY <1>6, <1>7, <1>8 DEF sys_command6_process_load_start
<1>9. ASSUME NEW file \in Program, sys_command9_invoke_system_command(file)
      PROVE  ContextsMatch'
  BY <1>6, <1>7, <1>9 DEF sys_command9_invoke_system_command
<1>10. ASSUME sys_command14_fork
       PROVE  ContextsMatch' \/ StrayFork
  <2>1. CASE tl.current # current_process
    BY <1>10, <2>1 DEF StrayFork
  <2>2. ASSUME tl.current = current_process, NEW s \in Task, process_get_free_slot(s),
               process_load_for_slot(s, processes[current_process], cpu),
               tl' = task_new(tl, s), UNCHANGED cpu
        PROVE  ContextsMatch'
    <3>1. processes[current_process] = cpu /\ cpu \in Program
      BY <1>3, <2>2 DEF IInv, TypeOK
    <3> QED
      BY <1>7, <2>2, <3>1
  <2> QED
    BY <1>6, <1>10, <2>1, <2>2 DEF sys_command14_fork, process_fork
<1>11. ASSUME NEW p \in Live, process_terminate(p)
       PROVE  \A u \in Live' : /\ u \in Live /\ u # p
                               /\ registers'[u] = processes[u]
                               /\ processes'[u] = processes[u]
  <2>1. Live' = Live \ {p}
    BY <1>11, TerminateStep
  <2>2. /\ processes \in [Task -> Program \cup {NoProgram}]
        /\ saved \in [Task -> Program \cup {NoProgram}]
    BY SavedType DEF IInv, TypeOK
  <2> QED
    BY <1>3, <1>11, <2>1, <2>2 DEF process_terminate, process_unlink
<1>12. ASSUME NEW pid \in Task, sys_command15_kill(pid)
       PROVE  ContextsMatch' \/ SelfKill
  <2>1. CASE pid = tl.current
    BY <1>12, <2>1 DEF SelfKill
  <2>2. CASE pid # tl.current
    <3>1. pid \in Live /\ process_terminate(pid) /\ cpu' = cpu
      BY <1>12 DEF sys_command15_kill
    <3>2. tl'.current = tl.current
      BY <1>3, <1>12, <2>2, <3>1, RemoveLinked
      DEF sys_command15_kill, IInv, TypeOK, TableMatchesList
    <3> QED
      BY <1>3, <1>4, <1>11, <3>1, <3>2 DEF ContextsMatch
  <2> QED
    BY <2>1, <2>2
<1>13. ASSUME terminate_and_next
       PROVE  ContextsMatch'
  <2>1. process_terminate(tl.current)
    BY <1>13 DEF terminate_and_next
  <2>2. CASE kernel' = "running"
    BY <1>3, <1>4, <1>11, <1>13, <2>1, <2>2, EnteredMatches
    DEF terminate_and_next, task_return
  <2> QED
    BY <2>2 DEF ContextsMatch
<1>14. ASSUME idt_clock
       PROVE  ContextsMatch'
  <2>1. Live' = Live /\ processes' = processes /\ registers' = saved
        /\ cpu' = registers'[tl'.current]
    BY <1>14 DEF idt_clock, task_return, Live
  <2> QED
    BY <1>3, <1>4, <2>1, EnteredMatches
<1>15. ASSUME sys_command13_done \/ interrupt_handler
       PROVE  ContextsMatch'
  <2>1. UNCHANGED <<processes, tl, cpu>> /\ Live' = Live /\ registers' \in {saved, registers}
    BY <1>15 DEF sys_command13_done, interrupt_handler, TrapReturn, Live
  <2>2. kernel' = "running" => kernel = "running"
    BY <1>15 DEF sys_command13_done, interrupt_handler
  <2> QED
    BY <1>3, <2>1, <2>2 DEF ContextsMatch
<1>16. ASSUME int0h
       PROVE  ContextsMatch'
  BY <1>16 DEF int0h, ContextsMatch
<1> QED
  BY <1>8, <1>9, <1>10, <1>12, <1>13, <1>14, <1>15, <1>16
  DEF Trap, sys_command7_process_exit, idt_handle_exception

(* For any number of processes: unless a process kills itself or forks      *)
(* without the focus, no trap makes a process run, or resume, another       *)
(* program than its own.                                                    *)
THEOREM OnlyTheseMix == Spec => OnlyTheseMixContexts
<1>1. IInv /\ [Next]_vars
        => [ContextsMatch /\ ~ContextsMatch' => SelfKill \/ StrayFork]_vars
  BY MixStep
<1> QED
  BY <1>1, Invariance, PTL DEF Spec, OnlyTheseMixContexts
-----------------------------------------------------------------------------
(* Module Runtime: any combination of events, as long as the shell is not   *)
(* started from its own prompt.  A second shell would take a command while  *)
(* the first one's lock is held, and wait for it with interrupts off.       *)
(*                                                                          *)
(* The inductive invariant follows the one shell and the one lock: only the *)
(* process in slot 0 is ever at the prompt, and it is not there while the   *)
(* lock is held.                                                            *)

(* The points of execution: slot 0 is the shell, everybody else a program,  *)
(* and exactly the processes of the table have one.                         *)
Points ==
  /\ 0 \in Live
  /\ pc[0] \in {"prompt", "wait"}
  /\ \A s \in Task \ {0} : /\ processes[s] # Shell
                           /\ pc[s] \in {"none", "main", "exit"}
                           /\ pc[s] = "none" <=> s \notin Live

(* The lock: the shell that took it waits, and the process it took it for   *)
(* is a program of the table.                                               *)
LockTaken ==
  /\ locked => pc[0] = "wait"
  /\ awaited # NoTask => awaited \in Live \ {0}
  /\ OnlyCommands => \A s \in Task \ {0} : pc[s] = "main" => s = awaited /\ locked
  /\ CommandsReturn /\ locked => awaited # NoTask /\ pc[awaited] = "main"

RInv == IInv /\ RTypeOK /\ kernel = "running" /\ Points /\ LockTaken
-----------------------------------------------------------------------------
(* The boot establishes the invariant.                                      *)
LEMMA InitRInv == RInit => RInv
<1> SUFFICES ASSUME RInit PROVE RInv
  OBVIOUS
<1> USE NoTaskAssumption, SlotAssumption, ProgramAssumption
<1>1. IInv /\ TypeOK
  BY InitIInv DEF RInit, IInv
<1>2. Live = {0}
  BY DEF RInit, Init, Live
<1>3. pc = [s \in Task |-> IF s = 0 THEN "prompt" ELSE "none"] /\ awaited = NoTask
      /\ events \in Events /\ locked = FALSE /\ kernel = "running"
  BY DEF RInit, Init
<1>4. \A s \in Task \ {0} : processes[s] = NoProgram
  BY DEF RInit, Init
<1> QED
  BY <1>1, <1>2, <1>3, <1>4 DEF RInv, RTypeOK, Points, LockTaken, Pointer

(* What the user code does is a trap of module Process.                     *)
LEMMA RNextIsNext ==
  ASSUME kernel = "running", [RNext]_rvars
  PROVE  [Next]_vars /\ events' = events
<1>1. CASE UNCHANGED rvars
  BY <1>1 DEF rvars, vars
<1>2. CASE RNext
  <2>1. ASSUME NEW s \in Task, ShellRun(s) PROVE Trap
    BY <2>1, CommandAssumption DEF ShellRun, Trap
  <2>2. ASSUME NEW s \in Task,
               ShellWait(s) \/ MainReturns(s) \/ Exit(s) \/ MainForks(s)
                 \/ MainKills(s) \/ MainFaults(s)
        PROVE  Trap
    BY <2>2 DEF ShellWait, MainReturns, Exit, MainForks, MainKills, MainFaults, Trap
  <2>3. Clock => Trap
    BY DEF Clock, Trap
  <2> QED
    BY <1>2, <2>1, <2>2, <2>3 DEF RNext, Next
<1> QED
  BY <1>1, <1>2

(* Goto keeps the points of execution in order: a new process, which is not *)
(* a shell, starts at main.                                                 *)
LEMMA GotoPoints ==
  ASSUME RInv, 0 \in Live', NEW point, Goto(point),
         IF tl.current = 0 THEN point \in {"prompt", "wait"} ELSE point \in {"main", "exit"},
         \A s \in Task \ {0} : processes'[s] # Shell
  PROVE  /\ Points'
         /\ pc' \in [Task -> {"none", "prompt", "wait", "main", "exit"}]
         /\ \A s \in Live' : pc'[s] = IF s \notin Live THEN "main"
                                      ELSE IF s = tl.current THEN point ELSE pc[s]
<1>1. Live \subseteq Task /\ Live' \subseteq Task /\ 0 \in Live /\ tl.current \in Live
  BY DEF Live, RInv, Points, IInv, TurnAndFocusLive
<1>2. pc \in [Task -> {"none", "prompt", "wait", "main", "exit"}]
  BY DEF RInv, RTypeOK
<1>3. \A s \in Live' : pc'[s] = IF s \notin Live THEN "main"
                                ELSE IF s = tl.current THEN point ELSE pc[s]
  BY <1>1 DEF Goto, Entry
<1>4. \A s \in Task \ Live' : pc'[s] = "none"
  BY DEF Goto
<1>5. pc' = [s \in Task |-> pc'[s]]
  BY DEF Goto
<1>6. pc' \in [Task -> {"none", "prompt", "wait", "main", "exit"}]
  BY <1>1, <1>2, <1>3, <1>4, <1>5
<1>7. Points'
  BY <1>1, <1>3, <1>4 DEF RInv, Points
<1> QED
  BY <1>3, <1>6, <1>7

(* A step that leaves the table alone keeps the awaited process; one that   *)
(* adds to it does too.                                                     *)
LEMMA AwaitedKept ==
  ASSUME RInv, KeepAwaited, Live \subseteq Live'
  PROVE  awaited' = awaited
  BY NoTaskAssumption DEF KeepAwaited, RInv, LockTaken, Live

(* A command line: the lock is free at the prompt, so it is taken for the   *)
(* new process, or the load has failed, or the new process has been left    *)
(* without arguments.                                                       *)
LEMMA ShellRunStep ==
  ASSUME RInv, Shell \notin Command, NEW s \in Task, ShellRun(s), events' = events, IInv'
  PROVE  RInv'
<1> USE NoTaskAssumption, SlotAssumption, ProgramAssumption
<1>1. /\ s = 0 /\ tl.current = 0 /\ pc[0] = "prompt" /\ locked = FALSE
      /\ kernel = "running" /\ 0 \in Live /\ IInv
      /\ locked \in BOOLEAN /\ awaited \in Pointer /\ events \in Events
      /\ processes \in [Task -> Program \cup {NoProgram}]
  BY DEF RInv, Points, LockTaken, ShellRun, At, RTypeOK, TypeOK
<1>2. PICK file \in Command : sys_command9_invoke_system_command(file)
  BY DEF ShellRun
<1>3. file \in Program /\ file # Shell
  BY CommandAssumption
<1>4. Goto("wait") /\ TypeOK'
  BY DEF ShellRun, IInv
<1>5. CASE process_load_fails
  <2>1. UNCHANGED <<processes, tl, locked, kernel>> /\ Live' = Live
    BY <1>1, <1>5, FailStep DEF Live
  <2>2. awaited' = awaited
    BY <2>1, AwaitedKept DEF ShellRun
  <2>3. /\ Points'
        /\ pc' \in [Task -> {"none", "prompt", "wait", "main", "exit"}]
        /\ \A u \in Live' : pc'[u] = IF u \notin Live THEN "main"
                                     ELSE IF u = tl.current THEN "wait" ELSE pc[u]
    <3>1. \A u \in Task \ {0} : processes'[u] # Shell
      BY <2>1 DEF RInv, Points
    <3> QED
      BY <1>1, <1>4, <2>1, <3>1, GotoPoints
  <2>4. LockTaken'
    BY <1>1, <2>1, <2>2, <2>3 DEF RInv, LockTaken, Points, OnlyCommands, CommandsReturn, Live
  <2> QED
    BY <1>1, <1>4, <2>1, <2>2, <2>3, <2>4 DEF RInv, RTypeOK
<1>6. ASSUME NEW n \in Task, process_get_free_slot(n), process_load_for_slot(n, file, file)
      PROVE  /\ n \notin Live /\ n # 0 /\ Live' = Live \cup {n}
             /\ task_new(tl, n) \in TaskListType /\ Linked(task_new(tl, n), Live')
             /\ task_new(tl, n).current = 0
             /\ Points'
             /\ pc' \in [Task -> {"none", "prompt", "wait", "main", "exit"}]
             /\ pc'[0] = "wait" /\ pc'[n] = "main"
             /\ \A u \in Live \ {0} : pc'[u] = pc[u]
  <2>1. /\ n \notin Live /\ Live' = Live \cup {n}
        /\ task_new(tl, n) \in TaskListType /\ Linked(task_new(tl, n), Live')
        /\ task_new(tl, n).current = 0
    BY <1>1, <1>3, <1>6, LoadStep
  <2>2. \A u \in Task \ {0} : processes'[u] # Shell
    BY <1>1, <1>3, <1>6 DEF process_load_for_slot, RInv, Points
  <2> QED
    BY <1>1, <1>4, <2>1, <2>2, GotoPoints
<1>7. ASSUME NEW n \in Task, process_get_free_slot(n), process_load_for_slot(n, file, file),
             tl' = task_new(tl, n), UNCHANGED <<cpu, locked, kernel>>
      PROVE  RInv'
  <2>1. "nomem" \in events
    BY <1>1, <1>6, <1>7 DEF ShellRun
  <2>2. awaited' = awaited
    BY <1>1, <1>6, <1>7, AwaitedKept DEF ShellRun
  <2>3. LockTaken'
    BY <1>1, <1>6, <1>7, <2>1, <2>2 DEF RInv, LockTaken, OnlyCommands, CommandsReturn
  <2> QED
    BY <1>1, <1>4, <1>6, <1>7, <2>2, <2>3 DEF RInv, RTypeOK
<1>8. ASSUME NEW n \in Task, process_get_free_slot(n), process_load_for_slot(n, file, file),
             tl' = task_switch(task_new(tl, n), n), locked' = TRUE, UNCHANGED kernel
      PROVE  RInv'
  <2>1. tl'.current = n /\ n # tl.current
    <3>1. Live' \in SUBSET Task
      BY DEF Live
    <3> QED
      BY <1>1, <1>6, <1>8, <3>1, SwitchLinked
  <2>2. awaited' = n
    BY <1>1, <1>8, <2>1 DEF ShellRun
  <2>3. LockTaken'
    <3>1. awaited' \in Live' \ {0} /\ pc'[awaited'] = "main" /\ pc'[0] = "wait"
      BY <1>6, <1>8, <2>2
    <3>2. OnlyCommands => \A u \in Task \ {0} : pc'[u] = "main" => u = n
      BY <1>1, <1>6, <1>8 DEF RInv, LockTaken, Points
    <3> QED
      BY <1>1, <1>8, <2>2, <3>1, <3>2 DEF LockTaken, OnlyCommands
  <2> QED
    BY <1>1, <1>4, <1>6, <1>8, <2>2, <2>3 DEF RInv, RTypeOK, Pointer
<1> QED
  BY <1>1, <1>2, <1>5, <1>7, <1>8 DEF sys_command9_invoke_system_command

(* A step that leaves the table and the turn's caller in order: the shell   *)
(* moves between its prompt and its wait, a program between main and exit.  *)
LEMMA SameTable ==
  ASSUME RInv, UNCHANGED <<processes, kernel, events>>, IInv', KeepAwaited,
         NEW point, Goto(point),
         IF tl.current = 0 THEN point \in {"prompt", "wait"} ELSE point \in {"main", "exit"}
  PROVE  /\ LockTaken' => RInv'
         /\ awaited' = awaited /\ Live' = Live
         /\ pc' \in [Task -> {"none", "prompt", "wait", "main", "exit"}]
         /\ pc'[tl.current] = point
         /\ \A u \in Task \ {tl.current} : pc'[u] = pc[u]
<1>1. /\ 0 \in Live /\ Live \subseteq Task /\ tl.current \in Live /\ kernel = "running"
      /\ \A u \in Task \ {0} : /\ processes[u] # Shell
                               /\ u \notin Live => pc[u] = "none"
  BY DEF RInv, Points, IInv, TurnAndFocusLive, Live
<1>2. Live' = Live
  BY DEF Live
<1>3. awaited' = awaited
  BY <1>2, AwaitedKept
<1>4. /\ Points'
      /\ pc' \in [Task -> {"none", "prompt", "wait", "main", "exit"}]
      /\ \A u \in Live' : pc'[u] = IF u \notin Live THEN "main"
                                   ELSE IF u = tl.current THEN point ELSE pc[u]
  BY <1>1, <1>2, GotoPoints
<1>5. \A u \in Task \ Live : pc'[u] = "none"
  BY <1>2 DEF Goto
<1>6. TypeOK' /\ awaited' \in Pointer /\ events' \in Events
  BY <1>3 DEF IInv, RInv, RTypeOK
<1> QED
  BY <1>1, <1>2, <1>3, <1>4, <1>5, <1>6 DEF RInv, RTypeOK

(* A round of toyos_wait, the return of main and a tick of the clock.       *)
LEMMA QuietStep ==
  ASSUME RInv, events' = events, IInv',
         \/ \E s \in Task : ShellWait(s) \/ MainReturns(s)
         \/ Clock
  PROVE  RInv'
<1> USE SlotAssumption, NoTaskAssumption
<1>1. /\ Points /\ LockTaken /\ tl.current \in Live /\ Live \subseteq Task
      /\ locked \in BOOLEAN
  BY DEF RInv, IInv, TurnAndFocusLive, TypeOK, Live
<1>2. ASSUME NEW s \in Task, ShellWait(s) PROVE RInv'
  <2>1. tl.current = 0 /\ pc[0] = "wait"
    BY <1>1, <1>2 DEF ShellWait, At, Points
  <2>2. /\ UNCHANGED <<processes, kernel, locked>> /\ KeepAwaited
        /\ Goto(IF locked THEN "wait" ELSE "prompt")
    BY <1>2 DEF ShellWait, interrupt_handler
  <2>3. /\ LockTaken' => RInv'
        /\ awaited' = awaited /\ Live' = Live
        /\ pc'[0] = IF locked THEN "wait" ELSE "prompt"
        /\ \A u \in Task \ {0} : pc'[u] = pc[u]
    BY <2>1, <2>2, SameTable
  <2>4. LockTaken'
    BY <1>1, <2>2, <2>3 DEF LockTaken, OnlyCommands, CommandsReturn, Live
  <2> QED
    BY <2>3, <2>4
<1>3. ASSUME NEW s \in Task, MainReturns(s) PROVE RInv'
  <2>1. tl.current \in Task \ {0} /\ pc[tl.current] = "main"
    BY <1>1, <1>3 DEF MainReturns, At, Points
  <2>2. UNCHANGED <<processes, kernel>> /\ KeepAwaited /\ Goto("exit") /\ locked' = FALSE
    BY <1>3 DEF MainReturns, sys_command13_done
  <2>3. /\ LockTaken' => RInv'
        /\ awaited' = awaited /\ Live' = Live
        /\ pc'[tl.current] = "exit"
        /\ \A u \in Task \ {tl.current} : pc'[u] = pc[u]
    BY <2>1, <2>2, SameTable
  <2>4. OnlyCommands => \A u \in Task \ {0} : pc'[u] # "main"
    <3>1. OnlyCommands => \A u \in Task \ {0} : pc[u] = "main" => u = awaited
      BY <1>1 DEF LockTaken
    <3> QED
      BY <2>1, <2>3, <3>1
  <2>5. LockTaken'
    BY <1>1, <2>2, <2>3, <2>4 DEF LockTaken, OnlyCommands
  <2> QED
    BY <2>3, <2>5
<1>4. CASE Clock
  <2>1. UNCHANGED <<processes, kernel, locked>> /\ KeepAwaited /\ Goto(pc[tl.current])
    BY <1>4 DEF Clock, idt_clock, Stay
  <2>2. IF tl.current = 0 THEN pc[tl.current] \in {"prompt", "wait"}
                          ELSE pc[tl.current] \in {"main", "exit"}
    BY <1>1 DEF Points
  <2>3. /\ LockTaken' => RInv'
        /\ awaited' = awaited /\ Live' = Live
        /\ \A u \in Task : pc'[u] = pc[u]
    BY <2>1, <2>2, SameTable
  <2>4. LockTaken'
    BY <1>1, <2>1, <2>3 DEF LockTaken, OnlyCommands, CommandsReturn, Live
  <2> QED
    BY <2>3, <2>4
<1> QED
  BY <1>2, <1>3, <1>4

(* A process other than the shell ends: the shell is left, so the kernel    *)
(* finds somebody to go on with.                                            *)
LEMMA GoneStep ==
  ASSUME RInv, events' = events, IInv', NEW p \in Live \ {0}, process_terminate(p),
         UNCHANGED locked, Stay, KeepAwaited,
         CommandsReturn /\ locked => p # awaited
  PROVE  RInv'
<1> USE SlotAssumption, NoTaskAssumption, ProgramAssumption
<1>1. /\ Points /\ LockTaken /\ tl.current \in Live /\ Live \subseteq Task
      /\ kernel = "running" /\ IInv /\ 0 \in Live /\ awaited \in Pointer
      /\ events \in Events /\ TypeOK'
      /\ processes \in [Task -> Program \cup {NoProgram}]
  BY DEF RInv, IInv, TurnAndFocusLive, RTypeOK, TypeOK, Live, Points
<1>2. Live' = Live \ {p}
  BY <1>1, TerminateStep
<1>3. kernel' = "running"
  BY <1>1 DEF process_terminate, process_unlink
<1>4. \A u \in Task \ {0} : processes'[u] # Shell
  BY <1>1 DEF process_terminate, process_unlink, Points
<1>5. IF tl.current = 0 THEN pc[tl.current] \in {"prompt", "wait"}
                        ELSE pc[tl.current] \in {"main", "exit"}
  BY <1>1 DEF Points
<1>6. /\ Points'
      /\ pc' \in [Task -> {"none", "prompt", "wait", "main", "exit"}]
      /\ \A u \in Live' : pc'[u] = IF u \notin Live THEN "main"
                                   ELSE IF u = tl.current THEN pc[tl.current] ELSE pc[u]
  BY <1>1, <1>2, <1>4, <1>5, GotoPoints DEF Stay
<1>7. \A u \in Live' : pc'[u] = pc[u]
  BY <1>2, <1>6
<1>8. \A u \in Task \ Live' : pc'[u] = "none"
  BY DEF Stay, Goto
<1>9. awaited' = IF awaited \in Live \ {p} THEN awaited ELSE NoTask
  BY <1>2 DEF KeepAwaited
<1>10. LockTaken'
  <2>1. /\ locked' => pc'[0] = "wait"
        /\ awaited' # NoTask => awaited' \in Live' \ {0}
    BY <1>1, <1>2, <1>7, <1>9 DEF LockTaken
  <2>2. ASSUME OnlyCommands, NEW u \in Task \ {0}, pc'[u] = "main"
        PROVE  u = awaited' /\ locked'
    <3>1. u \in Live' /\ pc[u] = "main"
      BY <1>7, <1>8, <2>2
    <3> QED
      BY <1>1, <1>2, <1>9, <2>2, <3>1 DEF LockTaken
  <2>3. ASSUME CommandsReturn, locked
        PROVE  awaited' # NoTask /\ pc'[awaited'] = "main"
    BY <1>1, <1>2, <1>7, <1>9, <2>3 DEF LockTaken
  <2> QED
    BY <2>1, <2>2, <2>3 DEF LockTaken, OnlyCommands, CommandsReturn
<1> QED
  BY <1>1, <1>3, <1>6, <1>9, <1>10 DEF RInv, RTypeOK, Pointer

(* Exits, faults and kills.                                                 *)
LEMMA EndStep ==
  ASSUME RInv, events' = events, IInv', NEW s \in Task,
         Exit(s) \/ MainKills(s) \/ MainFaults(s)
  PROVE  RInv'
<1> USE SlotAssumption, NoTaskAssumption
<1>1. Points /\ LockTaken /\ tl.current \in Live /\ Live \subseteq Task
  BY DEF RInv, IInv, TurnAndFocusLive, Live
<1>2. s = tl.current /\ s \in Live \ {0} /\ Stay /\ KeepAwaited
  BY <1>1 DEF Exit, MainKills, MainFaults, At, Points
<1>3. CASE Exit(s)
  <2>1. process_terminate(s) /\ locked' = locked /\ pc[s] = "exit"
    BY <1>2, <1>3 DEF Exit, At, sys_command7_process_exit, terminate_and_next
  <2>2. CommandsReturn /\ locked => s # awaited
    BY <1>1, <2>1 DEF LockTaken
  <2> QED
    BY <1>2, <2>1, <2>2, GoneStep
<1>4. CASE MainKills(s)
  <2>1. PICK pid \in Task \ {s} : sys_command15_kill(pid)
    BY <1>4 DEF MainKills
  <2>2. /\ pid \in Live \ {0} /\ process_terminate(pid) /\ locked' = locked
        /\ pc[s] = "main" /\ "kill" \in events
    BY <1>4, <2>1 DEF sys_command15_kill, MainKills, At
  <2>3. CommandsReturn /\ locked => pid # awaited
    BY <1>1, <1>2, <2>1, <2>2 DEF LockTaken, CommandsReturn
  <2> QED
    BY <1>2, <2>2, <2>3, GoneStep
<1>5. CASE MainFaults(s)
  <2>1. process_terminate(s) /\ locked' = locked /\ "fault" \in events
    BY <1>2, <1>5 DEF MainFaults, At, idt_handle_exception, terminate_and_next
  <2> QED
    BY <1>2, <2>1, GoneStep DEF CommandsReturn
<1> QED
  BY <1>3, <1>4, <1>5

(* A fork: the child runs the program of its parent, which is not a shell.  *)
LEMMA ForkStep ==
  ASSUME RInv, events' = events, IInv', NEW s \in Task, MainForks(s)
  PROVE  RInv'
<1> USE SlotAssumption, NoTaskAssumption, ProgramAssumption
<1>1. /\ Points /\ LockTaken /\ tl.current \in Live /\ Live \subseteq Task
      /\ kernel = "running" /\ IInv /\ 0 \in Live /\ awaited \in Pointer
      /\ events \in Events /\ TypeOK' /\ cpu \in Program
      /\ processes \in [Task -> Program \cup {NoProgram}]
  BY DEF RInv, IInv, TurnAndFocusLive, RTypeOK, TypeOK, Live, Points
<1>2. /\ s = tl.current /\ s \in Live \ {0} /\ current_process = s /\ pc[s] = "main"
      /\ Goto("main") /\ KeepAwaited /\ "fork" \in events
  BY <1>1 DEF MainForks, At, Points, Stay
<1>3. CASE process_load_fails
  <2>1. UNCHANGED <<processes, tl, locked, kernel>>
    BY <1>1, <1>3, FailStep
  <2>2. /\ LockTaken' => RInv'
        /\ awaited' = awaited /\ Live' = Live
        /\ pc'[s] = "main"
        /\ \A u \in Task \ {s} : pc'[u] = pc[u]
    BY <1>2, <2>1, SameTable
  <2>3. LockTaken'
    BY <1>1, <1>2, <2>1, <2>2 DEF LockTaken, OnlyCommands, CommandsReturn, Live
  <2> QED
    BY <2>2, <2>3
<1>4. ASSUME NEW n \in Task, process_fork(n) PROVE RInv'
  <2>1. processes[s] \in Program /\ processes[s] # Shell
    BY <1>1, <1>2 DEF Points, Live
  <2>2. /\ process_get_free_slot(n) /\ process_load_for_slot(n, processes[s], cpu)
        /\ UNCHANGED <<locked, kernel>>
    BY <1>2, <1>4 DEF process_fork
  <2>3. n \notin Live /\ Live' = Live \cup {n}
    BY <1>1, <2>1, <2>2, LoadStep
  <2>4. \A u \in Task \ {0} : processes'[u] # Shell
    BY <1>1, <2>1, <2>2 DEF process_load_for_slot, Points
  <2>5. /\ Points'
        /\ pc' \in [Task -> {"none", "prompt", "wait", "main", "exit"}]
        /\ \A u \in Live' : pc'[u] = IF u \notin Live THEN "main"
                                     ELSE IF u = tl.current THEN "main" ELSE pc[u]
    BY <1>1, <1>2, <2>3, <2>4, GotoPoints
  <2>6. awaited' = awaited
    BY <1>2, <2>3, AwaitedKept
  <2>7. LockTaken'
    BY <1>1, <1>2, <2>2, <2>3, <2>5, <2>6 DEF LockTaken, OnlyCommands, CommandsReturn
  <2> QED
    BY <1>1, <2>2, <2>5, <2>6, <2>7 DEF RInv, RTypeOK
<1> QED
  BY <1>3, <1>4 DEF MainForks, sys_command14_fork
-----------------------------------------------------------------------------
(* Every step of the programs, the shell and the clock keeps the invariant. *)
LEMMA NextRInv ==
  ASSUME Shell \notin Command, RInv, [RNext]_rvars
  PROVE  RInv'
<1>1. IInv' /\ events' = events
  BY RNextIsNext, NextIInv DEF RInv
<1>2. CASE UNCHANGED rvars
  <2>1. UNCHANGED <<processes, current_process, tl, registers, cpu, locked, kernel, ret,
                    events, pc, awaited>>
    BY <1>2 DEF rvars, vars
  <2>2. Live' = Live
    BY <2>1 DEF Live
  <2> QED
    BY <1>1, <2>1, <2>2
    DEF RInv, IInv, RTypeOK, Points, LockTaken, OnlyCommands, CommandsReturn
<1>3. CASE RNext
  BY <1>1, <1>3, ShellRunStep, QuietStep, EndStep, ForkStep DEF RNext
<1> QED
  BY <1>2, <1>3

(* The inductive invariant holds throughout.                                *)
LEMMA RInvariance ==
  ASSUME Shell \notin Command
  PROVE  RSpec => []RInv
  BY InitRInv, NextRInv, PTL DEF RSpec

(* For any number of processes, any programs and any mix of forks, faults,  *)
(* kills and loads without memory: the kernel is never caught in spin_lock  *)
(* and never panics for want of a process, unless the shell is started from *)
(* its own prompt.                                                          *)
THEOREM KernelRuns ==
  ASSUME Shell \notin Command
  PROVE  RSpec => []KernelKeepsRunning
<1>1. RInv => KernelKeepsRunning
  BY DEF RInv, KernelKeepsRunning
<1> QED
  BY <1>1, RInvariance, PTL

(* For any number of processes: the shell is back at its prompt only when   *)
(* the main of the command it started has returned, as long as nobody forks *)
(* and every command gets its arguments; and a lock whose commands all      *)
(* return is held for a command that still runs.                            *)
THEOREM ShellWaits ==
  ASSUME Shell \notin Command
  PROVE  RSpec => []ShellWaitsForCommand
<1>1. RInv => ShellWaitsForCommand
  <2> SUFFICES ASSUME RInv PROVE ShellWaitsForCommand
    OBVIOUS
  <2>1. RTypeOK /\ Points /\ LockTaken
    BY DEF RInv
  <2>2. ASSUME OnlyCommands, pc[0] = "prompt", awaited # NoTask
        PROVE  pc[awaited] = "exit"
    BY <2>1, <2>2 DEF Points, LockTaken, Live
  <2> QED
    BY <2>1, <2>2 DEF ShellWaitsForCommand, LockTaken
<1> QED
  BY <1>1, RInvariance, PTL

=============================================================================
