------------------------------- MODULE Process ------------------------------
(***************************************************************************)
(* The process table of src/src/task/process.c, the task list under it and  *)
(* every trap that changes them: the process system calls of                *)
(* src/src/sys/task/process.c, the exception and clock handlers of          *)
(* src/src/idt/idt.c and any other trap.  User code is arbitrary: it may    *)
(* make any call at any time.  A handler runs with interrupts off, so it is *)
(* one step; what interleaves is the user code of the processes, the clock  *)
(* and the devices.                                                         *)
(*                                                                          *)
(* A process is named by its slot (its pid) and its task by the same name.  *)
(* What a set of CPU registers holds is abstracted to the program it is a   *)
(* point of execution of; a register set and the memory it runs over belong *)
(* together when they are of the same program.                              *)
(***************************************************************************)
EXTENDS TaskList

CONSTANTS Program,      \* the executables of the disk
          Shell,        \* 0:/shell.elf
          NoProgram,    \* no program: a free slot, the registers of a freed task
          Garbage,      \* a word read through a null pointer that is no pid
          Error,        \* a negative error code
          NoReturn      \* the last trap was not a fork

ASSUME SlotAssumption == 0 \in Task /\ Task \subseteq Nat
ASSUME ProgramAssumption == Shell \in Program /\ NoProgram \notin Program
ASSUME ReturnAssumption == /\ {Garbage, Error, NoReturn} \cap Task = {}
                           /\ Garbage # Error /\ Garbage # NoReturn /\ Error # NoReturn

VARIABLES processes,        \* processes[]: the filename of each process
          current_process,  \* the process with the keyboard, and the one fork copies
          tl,               \* the task list
          registers,        \* task->registers: what each task would resume
          cpu,              \* what the CPU executes in user mode
          locked,           \* the spinlock of sys/task/process.c
          kernel,           \* "running", or the endless loop the kernel is in
          ret               \* what the last fork returned to its caller

vars == <<processes, current_process, tl, registers, cpu, locked, kernel, ret>>

Live == {s \in Task : processes[s] # NoProgram}

TypeOK ==
  /\ processes \in [Task -> Program \cup {NoProgram}]
  /\ current_process \in Task
  /\ tl \in TaskListType
  /\ registers \in [Task -> Program \cup {NoProgram}]
  /\ cpu \in Program
  /\ locked \in BOOLEAN
  /\ kernel \in {"running", "panic", "spinning"}
  /\ ret \in Task \cup {Garbage, Error, NoReturn}

(* maink: the shell is loaded into slot 0, made current and entered.        *)
Init ==
  /\ processes = [s \in Task |-> IF s = 0 THEN Shell ELSE NoProgram]
  /\ current_process = 0
  /\ tl = task_switch(task_new(NoTasks, 0), 0)
  /\ registers = [s \in Task |-> IF s = 0 THEN Shell ELSE NoProgram]
  /\ cpu = Shell
  /\ locked = FALSE
  /\ kernel = "running"
  /\ ret = NoReturn
-----------------------------------------------------------------------------
\* process_get_free_slot: the lowest free slot.
process_get_free_slot(s) ==
  /\ processes[s] = NoProgram
  /\ \A u \in Task : processes[u] = NoProgram => s <= u

\* task_current_save_state, on entry to every handler.
saved == [registers EXCEPT ![tl.current] = cpu]

\* A handler that returns: the CPU goes on with the frame it trapped from.
TrapReturn == registers' = saved /\ UNCHANGED cpu

\* task_return: the CPU takes up the registers of current_task.
task_return == cpu' = registers'[tl'.current]

(* process_load_for_slot that succeeds: the slot holds the process of file, *)
(* whose task will resume regs.  The caller links the task.                 *)
process_load_for_slot(s, file, regs) ==
  /\ processes' = [processes EXCEPT ![s] = file]
  /\ registers' = [saved EXCEPT ![s] = regs]

\* Mutant: the task that was already linked stays.
process_load_fails_leak ==
  /\ \/ UNCHANGED tl
     \/ \E s \in Task : process_get_free_slot(s) /\ tl' = task_new(tl, s)
  /\ TrapReturn
  /\ UNCHANGED <<processes, current_process, locked, kernel>>

(* A load that fails, with no slot, no memory, no such file or a bad image: *)
(* a task that was already linked is freed again.                           *)
process_load_fails ==
  /\ \/ UNCHANGED tl
     \/ \E s \in Task : process_get_free_slot(s) /\ tl' = task_list_remove(task_new(tl, s), s)
  /\ TrapReturn
  /\ UNCHANGED <<processes, current_process, locked, kernel>>

\* Mutant: the dead process keeps the focus.
process_unlink_only(p) ==
  /\ processes' = [processes EXCEPT ![p] = NoProgram]
  /\ kernel' = IF Live = {p} THEN "panic" ELSE kernel
  /\ UNCHANGED current_process

(* process_unlink and process_switch_to_any: the focus of a process that    *)
(* had it goes to the lowest live slot; with none left the kernel panics.   *)
process_unlink(p) ==
  LET rest == Live \ {p}
  IN  /\ processes' = [processes EXCEPT ![p] = NoProgram]
      /\ \/ /\ current_process # p
            /\ UNCHANGED <<current_process, kernel>>
         \/ /\ current_process = p
            /\ current_process' \in rest
            /\ \A u \in rest : current_process' <= u
            /\ UNCHANGED kernel
         \/ /\ current_process = p
            /\ rest = {}
            /\ kernel' = "panic"
            /\ UNCHANGED current_process

(* process_terminate: task_free, then process_unlink.  The caller's handler *)
(* goes on with the task list.                                              *)
process_terminate(p) ==
  /\ registers' = [saved EXCEPT ![p] = NoProgram]
  /\ process_unlink(p)

\* process_terminate of the calling process followed by task_next.
terminate_and_next ==
  LET removed == task_list_remove(tl, tl.current)
  IN  /\ process_terminate(tl.current)
      /\ \/ kernel' = "running" /\ tl' = task_next(removed) /\ task_return
         \/ kernel' = "panic"   /\ tl' = removed            /\ UNCHANGED cpu
      /\ UNCHANGED locked
-----------------------------------------------------------------------------
(* The system calls.  Every one of them is made by the program on the CPU,  *)
(* in the address space of current_task.                                    *)

\* The new process gets the focus and the CPU.
sys_command6_process_load_start(file) ==
  \/ \E s \in Task :
       /\ process_get_free_slot(s)
       /\ process_load_for_slot(s, file, file)
       /\ current_process' = s
       /\ tl' = task_switch(task_new(tl, s), s)
       /\ task_return
       /\ UNCHANGED <<locked, kernel>>
  \/ process_load_fails

sys_command7_process_exit == terminate_and_next

\* Mutant: the lock is not taken.
sys_command9_no_lock(file) ==
  \/ \E s \in Task :
       /\ process_get_free_slot(s)
       /\ process_load_for_slot(s, file, file)
       /\ current_process' = s
       /\ tl' = task_switch(task_new(tl, s), s)
       /\ task_return
       /\ UNCHANGED <<locked, kernel>>
  \/ process_load_fails

(* As above, under the lock.  When the arguments cannot be injected the     *)
(* handler returns an error and the loaded process stays.  When the lock is *)
(* taken, spin_lock never returns: nobody can release it.                   *)
sys_command9_invoke_system_command(file) ==
  \/ \E s \in Task :
       /\ process_get_free_slot(s)
       /\ process_load_for_slot(s, file, file)
       /\ current_process' = s
       /\ \/ /\ tl' = task_new(tl, s)
             /\ UNCHANGED <<cpu, locked, kernel>>
          \/ /\ tl' = task_switch(task_new(tl, s), s)
             /\ ~locked
             /\ locked' = TRUE
             /\ task_return
             /\ UNCHANGED kernel
          \/ /\ tl' = task_switch(task_new(tl, s), s)
             /\ locked
             /\ kernel' = "spinning"
             /\ UNCHANGED <<cpu, locked>>
  \/ process_load_fails

\* Mutant: the lock is not released.
sys_command13_no_unlock ==
  /\ TrapReturn
  /\ UNCHANGED <<processes, current_process, tl, locked, kernel>>

sys_command13_done ==
  /\ locked' = FALSE
  /\ TrapReturn
  /\ UNCHANGED <<processes, current_process, tl, kernel>>

(* process_fork: the file, stack and allocations of current_process, the    *)
(* registers of current_task.                                               *)
process_fork(s) ==
  /\ process_get_free_slot(s)
  /\ process_load_for_slot(s, processes[current_process], cpu)
  /\ tl' = task_new(tl, s)
  /\ UNCHANGED <<current_process, cpu, locked, kernel>>

(* fork: process_fork returns its errors as uint16_t, so the handler's test *)
(* for a negative result never holds and it reads the id of a null child:   *)
(* whatever word is at address 0.                                           *)
sys_command14_fork ==
  \/ \E s \in Task : process_fork(s) /\ ret' = s
  \/ process_load_fails /\ ret' \in Task \cup {Garbage}

\* Mutant: the shell can be killed too.
sys_command15_any(pid) ==
  /\ pid \in Live
  /\ process_terminate(pid)
  /\ tl' = task_list_remove(tl, pid)
  /\ UNCHANGED <<cpu, locked>>

(* kill: the handler returns to the frame it trapped from, also when the    *)
(* process it terminated is the caller's own.                               *)
sys_command15_kill(pid) ==
  /\ pid # 0
  /\ pid \in Live
  /\ process_terminate(pid)
  /\ tl' = task_list_remove(tl, pid)
  /\ UNCHANGED <<cpu, locked>>
-----------------------------------------------------------------------------
\* An exception in user mode other than a divide error.
idt_handle_exception == terminate_and_next

\* A divide error has a handler of its own, which panics.
int0h ==
  /\ kernel' = "panic"
  /\ UNCHANGED <<processes, current_process, tl, registers, cpu, locked>>

\* Mutant: the turn passes on, the CPU stays on the interrupted frame.
idt_clock_no_return ==
  /\ registers' = saved
  /\ tl' = task_next(tl)
  /\ UNCHANGED <<processes, current_process, cpu, locked, kernel>>

idt_clock ==
  /\ registers' = saved
  /\ tl' = task_next(tl)
  /\ task_return
  /\ UNCHANGED <<processes, current_process, locked, kernel>>

(* Any other trap: a device interrupt, sys_command12_check_lock, a kill     *)
(* that is refused and the calls that leave processes alone.  An interrupt  *)
(* that has no callback does not even save the state.                       *)
interrupt_handler ==
  /\ registers' \in {saved, registers}
  /\ UNCHANGED <<processes, current_process, tl, cpu, locked, kernel>>

Trap ==
  \/ /\ \/ \E file \in Program : \/ sys_command6_process_load_start(file)
                                 \/ sys_command9_invoke_system_command(file)
        \/ sys_command7_process_exit
        \/ sys_command13_done
        \/ \E pid \in Task : sys_command15_kill(pid)
        \/ idt_handle_exception
        \/ int0h
        \/ idt_clock
        \/ interrupt_handler
     /\ ret' = NoReturn
  \/ sys_command14_fork

\* panick, and spin_lock on a taken lock: a loop with interrupts off.
EndlessLoop == kernel # "running" /\ UNCHANGED vars

Next == (kernel = "running" /\ Trap) \/ EndlessLoop

Spec == Init /\ [][Next]_vars
-----------------------------------------------------------------------------
(* The task list is one chain of exactly the tasks of the processes in the  *)
(* table, whatever the order of loads, forks, kills, exits and faults.      *)
TableMatchesList ==
  Linked(tl, Live)

(* As long as the kernel runs, the task whose turn it is and the process    *)
(* with the focus are processes of the table, never freed ones.             *)
TurnAndFocusLive ==
  kernel = "running" => tl.current \in Live /\ current_process \in Live

(* Every process would resume its own program, and the CPU executes the     *)
(* program of the address space it is in.                                   *)
ContextsMatch ==
  kernel = "running" => /\ cpu = processes[tl.current]
                        /\ \A s \in Live \ {tl.current} : registers[s] = processes[s]

\* A process kills itself.
SelfKill == sys_command15_kill(tl.current)

\* A process without the focus forks.
StrayFork == tl.current # current_process /\ sys_command14_fork

(* Loads, exits, faults, kills of others, clock ticks and device interrupts *)
(* keep every process on its own program.  Only a process that kills itself *)
(* (the handler returns to the dead caller in the next task's address       *)
(* space) and a fork by a process without the focus (it copies another      *)
(* process's memory) can mix two programs.                                  *)
OnlyTheseMixContexts ==
  [][ContextsMatch /\ ~ContextsMatch' => SelfKill \/ StrayFork]_vars

(* fork returns the pid of the process it made, or an error (process.h).    *)
ForkReportsFailure ==
  [][ret' # NoReturn => ret' = Error \/ ret' \in Live' \ Live]_vars
=============================================================================
