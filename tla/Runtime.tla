------------------------------- MODULE Runtime ------------------------------
(***************************************************************************)
(* The kernel of module Process under the user code the repository really   *)
(* runs: the shell's loop (programs/shell), the C runtime that wraps every  *)
(* program's main (c_start.c, start.asm) and toyos_wait.  Each process has  *)
(* a point of execution; only the process on the CPU moves, one trap at a   *)
(* time.                                                                    *)
(*                                                                          *)
(*   shell:    "prompt" -- toyos_system_run --> "wait" -- toyos_wait -->    *)
(*             "prompt"                                                     *)
(*   program:  "main" -- toyos_done --> "exit" -- toyos_exit --> gone       *)
(***************************************************************************)
EXTENDS Process

CONSTANTS Command,   \* the programs the user starts from the prompt
          Events     \* sets of what may happen besides: "fork", "fault", "kill", "nomem"

ASSUME CommandAssumption == Command \subseteq Program
ASSUME EventAssumption == Events \subseteq SUBSET {"fork", "fault", "kill", "nomem"}

VARIABLES events,    \* the events that happen in this behaviour
          pc,        \* each process's point of execution
          awaited    \* the process whose launch made the shell wait, while it exists

rvars == <<vars, events, pc, awaited>>

Entry(file) == IF file = Shell THEN "prompt" ELSE "main"

RInit == /\ Init
         /\ events \in Events
         /\ pc = [s \in Task |-> IF s = 0 THEN "prompt" ELSE "none"]
         /\ awaited = NoTask

\* The caller goes on at point; a new process starts at its entry, a dead one is gone.
Goto(point) ==
  pc' = [s \in Task |-> IF s \notin Live' THEN "none"
                        ELSE IF s \notin Live THEN Entry(processes'[s])
                        ELSE IF s = tl.current THEN point
                        ELSE pc[s]]

Stay == Goto(pc[tl.current])

KeepAwaited == awaited' = IF awaited \in Live' THEN awaited ELSE NoTask

\* The process on the CPU is s, it is at point, and the kernel takes a trap.
At(s, point) == kernel = "running" /\ tl.current = s /\ pc[s] = point
-----------------------------------------------------------------------------
(* The shell: a command line is handed to the kernel; with or without a new *)
(* process, the shell then waits.                                           *)
ShellRun(s) ==
  /\ At(s, "prompt")
  /\ \E file \in Command : sys_command9_invoke_system_command(file)
  /\ "nomem" \in events \/ Live' = Live \/ tl'.current # tl.current
  /\ ret' = NoReturn
  /\ Goto("wait")
  /\ IF tl'.current # tl.current /\ kernel' = "running"
     THEN awaited' = tl'.current ELSE KeepAwaited

\* One round of toyos_wait: sys_command12_check_lock.
ShellWait(s) ==
  /\ At(s, "wait")
  /\ interrupt_handler
  /\ ret' = NoReturn
  /\ Goto(IF locked THEN "wait" ELSE "prompt")
  /\ KeepAwaited

\* main returns and c_start calls toyos_done.
MainReturns(s) ==
  /\ At(s, "main")
  /\ sys_command13_done
  /\ ret' = NoReturn
  /\ Goto("exit")
  /\ KeepAwaited

\* _start calls toyos_exit.
Exit(s) ==
  /\ At(s, "exit")
  /\ sys_command7_process_exit
  /\ ret' = NoReturn
  /\ Stay
  /\ KeepAwaited

(* What main may do before it returns.  A program forks while it has the    *)
(* focus, as forkdemo does, and kills a process other than itself.          *)
MainForks(s) ==
  /\ "fork" \in events
  /\ At(s, "main")
  /\ current_process = s
  /\ sys_command14_fork
  /\ Stay
  /\ KeepAwaited

MainKills(s) ==
  /\ "kill" \in events
  /\ At(s, "main")
  /\ \E pid \in Task \ {s} : sys_command15_kill(pid)
  /\ ret' = NoReturn
  /\ Stay
  /\ KeepAwaited

MainFaults(s) ==
  /\ "fault" \in events
  /\ At(s, "main")
  /\ idt_handle_exception
  /\ ret' = NoReturn
  /\ Stay
  /\ KeepAwaited

Clock ==
  /\ kernel = "running"
  /\ idt_clock
  /\ ret' = NoReturn
  /\ Stay
  /\ KeepAwaited

(* A kernel that has stopped takes no step here: with the programs of the   *)
(* passing runs it never stops.                                             *)
RNext == /\ \/ \E s \in Task : \/ ShellRun(s) \/ ShellWait(s) \/ MainReturns(s) \/ Exit(s)
                                 \/ MainForks(s) \/ MainKills(s) \/ MainFaults(s)
            \/ Clock
         /\ UNCHANGED events

RSpec == RInit /\ [][RNext]_rvars

\* What a process executes without anybody's command.
Advance(s) == ShellWait(s) \/ MainReturns(s) \/ Exit(s)

ClockInShell == tl.current = 0 /\ Clock

(* The timer keeps ticking, and some of its ticks meet the shell, which     *)
(* spends its time in loops that last longer than a tick: polling the       *)
(* keyboard and counting in toyos_wait.  A process that is given the CPU    *)
(* again and again executes its next instruction in the end, even if the    *)
(* clock often takes the CPU away first; and programs return from main.     *)
Fairness == /\ WF_rvars(Clock /\ UNCHANGED events)
            /\ SF_rvars(ClockInShell /\ UNCHANGED events)
            /\ \A s \in Task : SF_rvars(Advance(s) /\ UNCHANGED events)

RFairSpec == RSpec /\ Fairness
-----------------------------------------------------------------------------
RTypeOK ==
  /\ TypeOK
  /\ pc \in [Task -> {"none", "prompt", "wait", "main", "exit"}]
  /\ awaited \in Pointer
  /\ events \in Events

(* Whatever the programs do, as long as nobody starts the shell from its    *)
(* own prompt, the kernel is never caught in spin_lock with interrupts off, *)
(* and never panics for want of a process.                                  *)
KernelKeepsRunning == kernel = "running"

\* Every process but the shell is a command that the shell waits for.
OnlyCommands == events \cap {"fork", "nomem"} = {}

(* No command ends before its main returns: a fault would do that, and so   *)
(* would another process with a kill.                                       *)
CommandsReturn == "fault" \notin events /\ ("kill" \notin events \/ OnlyCommands)

(* The shell waits for the process its command started: it is back at the   *)
(* prompt only when that process's main has returned (shell.c), faults and  *)
(* kills or not.  A forked child, and a process whose arguments found no    *)
(* memory, release the lock of a command that still runs; but where all     *)
(* commands return, the lock is never left behind: while it is held, the    *)
(* process it was taken for exists and has not finished.                    *)
ShellWaitsForCommand ==
  /\ RTypeOK
  /\ OnlyCommands /\ pc[0] = "prompt" /\ awaited # NoTask => pc[awaited] = "exit"
  /\ CommandsReturn /\ locked => awaited # NoTask /\ pc[awaited] = "main"

(* A shell that waits gets back to its prompt, if every command returns:    *)
(* nobody else releases the lock of a command that faults or is killed.     *)
PromptReturns == CommandsReturn /\ pc[0] = "wait" ~> pc[0] = "prompt"

(* Every process gets its turn or ends, although the exit of a task passes  *)
(* over the task behind it, and one whose main has returned leaves the      *)
(* table.                                                                   *)
EveryTaskGetsTurn ==
  \A s \in Task : /\ s \in Live ~> (tl.current = s \/ s \notin Live)
                  /\ pc[s] = "exit" ~> pc[s] = "none"
=============================================================================
