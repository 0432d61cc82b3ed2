------------------------------- MODULE Console ------------------------------
(***************************************************************************)
(* Typing a command: the keyboard interrupt (ps2.c) puts keys into the ring *)
(* of the process that has the focus, the shell's toyos_terminal_readline   *)
(* polls its own ring, echoes and edits the line, and the command that the  *)
(* line starts takes the focus until it exits.  Interrupts and system calls *)
(* are atomic; keys arrive between any two of them.                         *)
(*                                                                          *)
(*   shell:   "prompt" -> "poll" <-> "echo" -> "enter" -> "run" -> "wait"   *)
(*   program: "none" -> "main" -> "exit" -> "none"                          *)
(***************************************************************************)
EXTENDS Keyboard, Terminal, SequencesExt

CONSTANTS MaxLine,    \* the size of readline's buffer
          MaxInputs   \* bound: keys and program outputs in a behaviour

ASSUME ConsoleAssumption == MaxLine \in Nat \ {0} /\ MaxInputs \in Nat

Prompt == <<"$">>
Proc == {"shell", "program"}

VARIABLES ring,       \* the keyboard ring of each process
          caps,       \* capslock_state is ON
          focus,      \* current_process
          term,       \* the screen
          sh,         \* the shell: pc, the key it got, readline's i and out
          program,    \* the command that the shell started
          inputs,     \* inputs so far
          \* History: the keys the shell was sent and those it has read, where
          \* the current line starts in them, and what went wrong.
          typed, got, start, overrun, damage

kvars == <<ring, caps, focus>>
hvars == <<typed, got, start, overrun, damage>>
vars == <<kvars, term, sh, program, inputs, hvars>>

Line == [k \in 1..sh.i |-> sh.out[k - 1]]
print(t, s) == FoldLeft(terminal_writechar, t, s)

Init == /\ ring = [p \in Proc |-> EmptyRing]
        /\ caps = FALSE
        /\ focus = "shell"
        /\ \E row \in 0..VGA_HEIGHT-1 : term = [terminal_clear_all EXCEPT !.row = row]
        /\ sh = [pc |-> "prompt", key |-> NoKey, i |-> 0,
                 out |-> [k \in 0..MaxLine-1 |-> NoKey]]
        /\ program = "none"
        /\ inputs = 0
        /\ typed = <<>> /\ got = <<>> /\ start = 0
        /\ overrun = FALSE /\ damage = {}
-----------------------------------------------------------------------------
(* keyboard_push to process_current, with the history.                      *)
Push(c) ==
  /\ ring' = [ring EXCEPT ![focus] = keyboard_push(@, c)]
  /\ IF focus = "shell"
     THEN /\ typed' = Append(typed, c)
          /\ overrun' = (overrun \/ ring.shell.tail - ring.shell.head >= RingSize)
     ELSE UNCHANGED <<typed, overrun>>

\* Caps lock is also looked up in the table.
ps2_keyboard_handle_interrupt(code) ==
  /\ inputs < MaxInputs
  /\ inputs' = inputs + 1
  /\ caps' = IF code = "capslock" THEN ~caps ELSE caps
  /\ \E c \in ps2_keyboard_scancode_to_char(code, caps') :
       IF c # NoKey THEN Push(c) ELSE UNCHANGED <<ring, typed, overrun>>
  /\ UNCHANGED <<focus, term, sh, program, got, start, damage>>
-----------------------------------------------------------------------------
(* The shell prints its prompt and calls readline.  What its buffer held    *)
(* before is never read again.                                              *)
PrintPrompt ==
  /\ sh.pc = "prompt"
  /\ term' = print(term, Prompt)
  /\ sh' = [sh EXCEPT !.pc = IF MaxLine > 1 THEN "poll" ELSE "enter",
                      !.i = 0, !.out = [k \in 0..MaxLine-1 |-> NoKey]]
  /\ start' = Len(got)
  /\ damage' = {}
  /\ UNCHANGED <<kvars, program, inputs, typed, got, overrun>>

(* One round of toyos_getkeyblock: sys_command2_getkey.                     *)
GetKey ==
  /\ sh.pc = "poll"
  /\ NextKey(ring.shell) # NoKey
  /\ ring' = [ring EXCEPT !.shell = keyboard_pop(@)]
  /\ got' = Append(got, NextKey(ring.shell))
  /\ sh' = [sh EXCEPT !.key = NextKey(ring.shell),
                      !.pc = IF NextKey(ring.shell) = "cr" THEN "enter" ELSE "echo"]
  /\ UNCHANGED <<caps, focus, term, program, inputs, typed, start, overrun, damage>>

\* Mutant: one step back too few.
edit_short(s) ==
  IF s.key = "bs" /\ s.i >= 1
  THEN [s EXCEPT !.out[s.i - 1] = NoKey]
  ELSE [s EXCEPT !.out[s.i] = s.key, !.i = @ + 1]

\* The rest of readline's loop body and the loop's increment.
edit(s) ==
  IF s.key = "bs" /\ s.i >= 1
  THEN [s EXCEPT !.out[s.i - 1] = NoKey, !.i = @ - 1]
  ELSE [s EXCEPT !.out[s.i] = s.key, !.i = @ + 1]

(* toyos_putchar and the edit of the line.  The history records a backspace *)
(* that leaves the line for the prompt, or the row for the one above.       *)
Echo ==
  /\ sh.pc = "echo"
  /\ term' = terminal_writechar(term, sh.key)
  /\ sh' = [edit(sh) EXCEPT !.pc = IF edit(sh).i < MaxLine - 1 THEN "poll" ELSE "enter"]
  /\ damage' = damage
       \cup {d \in {"prompt"} : sh.key = "bs" /\ sh.i = 0}
       \cup {d \in {"edge"} : sh.key = "bs" /\ term.col = 0 /\ term.row > 0}
  /\ UNCHANGED <<kvars, program, inputs, typed, got, start, overrun>>

(* The line ends with its null byte, and the shell prints "\n\n".           *)
EndLine ==
  /\ sh.pc = "enter"
  /\ term' = print(term, <<"nl", "nl">>)
  /\ sh' = [sh EXCEPT !.pc = "run", !.out[sh.i] = NoKey]
  /\ UNCHANGED <<kvars, program, inputs, hvars>>

(* toyos_system_run: an empty line starts nothing, another line may.        *)
(* Bound: one program at a time.                                            *)
Run ==
  /\ sh.pc = "run"
  /\ sh' = [sh EXCEPT !.pc = "wait"]
  /\ \/ /\ sh.i > 0 /\ program = "none"
        /\ program' = "main"
        /\ focus' = "program"
        /\ ring' = [ring EXCEPT !.program = EmptyRing]
     \/ UNCHANGED <<program, focus, ring>>
  /\ UNCHANGED <<caps, term, inputs, hvars>>

Wait ==
  /\ sh.pc = "wait"
  /\ program # "main"
  /\ sh' = [sh EXCEPT !.pc = "prompt"]
  /\ UNCHANGED <<kvars, term, program, inputs, hvars>>
-----------------------------------------------------------------------------
(* The program prints or clears the screen, returns from main (toyos_done)  *)
(* and exits, which gives the focus back.                                   *)
ProgramPrints ==
  /\ program = "main"
  /\ inputs < MaxInputs
  /\ inputs' = inputs + 1
  /\ \/ \E c \in {"x", "nl"} : term' = print(term, <<c>>)
     \/ term' = terminal_clear_all
  /\ UNCHANGED <<kvars, sh, program, hvars>>

ProgramReturns ==
  /\ program = "main"
  /\ program' = "exit"
  /\ UNCHANGED <<kvars, term, sh, inputs, hvars>>

ProgramExits ==
  /\ program = "exit"
  /\ program' = "none"
  /\ focus' = "shell"
  /\ ring' = [ring EXCEPT !.program = EmptyRing]
  /\ UNCHANGED <<caps, term, sh, inputs, hvars>>

ShellStep == PrintPrompt \/ GetKey \/ Echo \/ EndLine \/ Run \/ Wait

\* The shell polls an empty ring for ever when nobody types.
Polling == sh.pc = "poll" /\ NextKey(ring.shell) = NoKey /\ UNCHANGED vars

Next == \/ \E code \in Scancode : ps2_keyboard_handle_interrupt(code)
        \/ ShellStep \/ Polling
        \/ ProgramPrints \/ ProgramReturns \/ ProgramExits

(* The shell and the program get the CPU again and again (module Runtime,   *)
(* EveryTaskGetsTurn), and programs return from main.  Nothing is assumed   *)
(* of the user.                                                             *)
Fairness == WF_vars(ShellStep) /\ WF_vars(ProgramReturns) /\ WF_vars(ProgramExits)

Spec == Init /\ [][Next]_vars
FairSpec == Spec /\ Fairness
-----------------------------------------------------------------------------
TypeOK ==
  /\ ring \in [Proc -> RingType]
  /\ caps \in BOOLEAN
  /\ focus \in Proc
  /\ term.row \in 0..VGA_HEIGHT-1 /\ term.col \in 0..Word-1
  /\ sh.i \in 0..MaxLine-1
  /\ sh.pc \in {"prompt", "poll", "echo", "enter", "run", "wait"}
  /\ program \in {"none", "main", "exit"}
  /\ focus = "program" <=> program # "none"

(* A line of typed keys as the user means it; a backspace at the start of   *)
(* a line is a character, as readline has it.                               *)
Edited(keys) ==
  FoldLeft(LAMBDA line, k : IF k = "bs" /\ line # <<>>
                            THEN SubSeq(line, 1, Len(line) - 1) ELSE Append(line, k),
           <<>>, keys)

(* The line readline hands to the shell is what was typed since the prompt, *)
(* edited: what is left over when the buffer is full starts the next line.  *)
LineIsWhatWasTyped ==
  sh.pc = "run" /\ ~overrun
    => Line = Edited(SelectSeq(SubSeq(typed, start + 1, Len(got)), LAMBDA k : k # "cr"))

(* While a line is typed the cells before the cursor show the prompt and    *)
(* the line, across row ends and scrolling, until a backspace leaves the    *)
(* line or the row.  The cursor leaves the screen only by a backspace at    *)
(* the start of a row, and the next prompt has it back on the screen.       *)
EchoShowsLine ==
  /\ TypeOK
  /\ "edge" \notin damage \/ sh.pc \in {"run", "wait", "prompt"} => OnScreen(term)
  /\ sh.pc = "poll" /\ damage = {} =>
       LET text == Prompt \o Line
           n == IF Len(text) <= Position(term) THEN Len(text) ELSE Position(term)
       IN  /\ n = Len(text) \/ n >= (VGA_HEIGHT - 1) * VGA_WIDTH
           /\ \A k \in 0..n-1 : term.screen[Position(term) - 1 - k] = text[Len(text) - k]

(* A key that the shell was sent is read in the end, unless its ring        *)
(* overflowed: after that, head and tail disagree and keys may stay.        *)
KeysAreRead == Pending(ring.shell) # <<>> ~> (Pending(ring.shell) = <<>> \/ overrun)
=============================================================================
