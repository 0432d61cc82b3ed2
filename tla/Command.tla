------------------------------ MODULE Command -------------------------------
(***************************************************************************)
(* From a command line to main(argc, argv): the shell cuts the line into    *)
(* words with strtok and keeps each in a command_argument                   *)
(* (programs/stdlib), call 9 loads the program of the first word and copies *)
(* the list into its memory (src/src/task/process.c), and c_start hands it  *)
(* to main.  Characters are one-character strings; a string has no null     *)
(* byte at its end.                                                         *)
(*                                                                          *)
(* Memory may be short at any allocation.  The shell never frees the words  *)
(* of its commands, and has Records allocations.                            *)
(***************************************************************************)
EXTENDS Integers, Sequences, FiniteSetsExt, SequencesExt

CONSTANTS ArgumentSize,   \* sizeof(command_argument.argument)
          Records,        \* TOYOS_MAX_PROGRAM_ALLOCATIONS
          BufferSize,     \* bound: how far strtok's pointer runs
          Lines,          \* the lines users type
          Garbage,        \* what may be on the stack
          Pid             \* the processes there are

ASSUME CommandAssumption == /\ ArgumentSize \in Nat \ {0} /\ Records \in Nat
                            /\ BufferSize \in Nat /\ Pid \subseteq Nat

Blank == " "
NULL == 0
NoPid == -1

VARIABLES sp,       \* strtok's static pointer: a position in scommand, or NULL
          used,     \* the allocations of the shell
          shell,    \* "prompt", "system" (in call 9) or "wait"
          list,     \* the command_argument list of the command
          argv,     \* the arguments of the program that the shell waits for
          stray,    \* a program was loaded without its arguments: "none" or its name
          out,      \* what the last echo printed
          killed,   \* the process that the last kill named
          \* History: the line of the command, and sp when it was parsed.
          line, stale

vars == <<sp, used, shell, list, argv, stray, out, killed, line, stale>>

Init == /\ sp = NULL /\ used = 0
        /\ shell = "prompt" /\ list = <<>> /\ argv = <<>> /\ stray = "none"
        /\ out = <<>> /\ killed = NoPid
        /\ line = <<>> /\ stale = NULL
-----------------------------------------------------------------------------
\* At most n - 1 characters.
strncpy(src, n) == SubSeq(src, 1, Min({n - 1, Len(src)}))

\* Mutant: the end of the text is remembered.
strtok_keep(text, from) ==
  LET starts == {i \in from .. Len(text) : text[i] # Blank}
      start == Min(starts)
      ends == {i \in start .. Len(text) : text[i] = Blank}
  IN  IF starts = {} THEN [token |-> <<>>, sp |-> Len(text) + 1]
      ELSE IF ends = {} THEN [token |-> SubSeq(text, start, Len(text)), sp |-> Len(text) + 1]
      ELSE [token |-> SubSeq(text, start, Min(ends) - 1), sp |-> Min(ends) + 1]

(* One call of strtok that goes on at position from of its text: the token  *)
(* (none is <<>>) and the pointer it leaves, NULL at the end of the text.   *)
strtok(text, from) ==
  LET starts == {i \in from .. Len(text) : text[i] # Blank}
      start == Min(starts)
      ends == {i \in start .. Len(text) : text[i] = Blank}
  IN  IF starts = {} THEN [token |-> <<>>, sp |-> NULL]
      ELSE IF ends = {} THEN [token |-> SubSeq(text, start, Len(text)), sp |-> Len(text) + 1]
      ELSE [token |-> SubSeq(text, start, Min(ends) - 1), sp |-> Min(ends) + 1]

RECURSIVE Arguments(_, _, _)
(* The list of toyos_parse_command from position from on, when room more    *)
(* allocations succeed.  The token for which there is no room is taken from *)
(* the text all the same, and strtok's pointer stays behind it.             *)
Arguments(text, from, room) ==
  LET t == strtok(text, from)
      rest == Arguments(text, t.sp, room - 1)
  IN  IF t.token = <<>> \/ room = 0 THEN [list |-> <<>>, sp |-> t.sp]
      ELSE [list |-> <<strncpy(t.token, ArgumentSize)>> \o rest.list, sp |-> rest.sp]

(* strtok looks at its argument only when its pointer is NULL.  scommand    *)
(* has the same place on the stack in every call; behind the line it holds  *)
(* whatever other calls left there.                                         *)
scommand(text, garbage) ==
  IF sp <= Len(text) + 1 THEN text
  ELSE [i \in 1 .. Min({sp - 1 + Len(garbage), BufferSize}) |->
          IF i < sp THEN Blank ELSE garbage[i - sp + 1]]

toyos_parse_command(text, garbage, room) ==
  Arguments(scommand(text, garbage), IF sp = NULL THEN 1 ELSE sp, room)

(* toyos_terminal_readline has read text; toyos_system_run parses it.  An   *)
(* empty list goes no further, and toyos_wait finds the lock free.          *)
toyos_system_run(text, garbage, room) ==
  LET parsed == toyos_parse_command(text, garbage, room)
  IN  /\ shell = "prompt"
      /\ room <= Records - used
      /\ sp' = parsed.sp
      /\ used' = used + Len(parsed.list)
      /\ out' = <<>> /\ killed' = NoPid
      /\ IF parsed.list = <<>> THEN UNCHANGED <<shell, list, line, stale>>
         ELSE shell' = "system" /\ list' = parsed.list /\ line' = text /\ stale' = sp
      /\ UNCHANGED <<argv, stray>>
-----------------------------------------------------------------------------
\* The shell is back in its loop.
ToPrompt == shell' = "prompt" /\ list' = <<>> /\ argv' = <<>> /\ line' = <<>> /\ stale' = NULL

Programs == {<<"e">>, <<"k">>}      \* echo and kill

\* Mutant: the loop stays at the first argument.
process_inject_arguments_first(args, room) ==
  IF room < Len(args) + 1 THEN <<>> ELSE [k \in DOMAIN args |-> args[1]]

(* argv and a copy of every argument in the memory of the new process, or   *)
(* argc 0 and no argv when one of them finds no room.                       *)
process_inject_arguments(args, room) == IF room < Len(args) + 1 THEN <<>> ELSE args

(* Call 9.  A program that is not there, or finds no memory, is not loaded. *)
(* One whose arguments find no room stays loaded, and the shell does not    *)
(* wait for it.  Bound: one of those at a time.                             *)
sys_command9_invoke_system_command(loads, room) ==
  LET args == process_inject_arguments(list, room)
  IN  /\ shell = "system"
      /\ IF Head(list) \notin Programs \/ ~loads
           THEN ToPrompt /\ UNCHANGED stray
         ELSE IF room < Len(list) + 1
           THEN ToPrompt /\ stray = "none" /\ stray' = Head(list)[1]
         ELSE shell' = "wait" /\ argv' = args /\ UNCHANGED <<list, line, stale, stray>>
      /\ UNCHANGED <<sp, used, out, killed>>
-----------------------------------------------------------------------------
Digit == <<"0", "1", "2", "3", "4", "5", "6", "7", "8", "9">>

RECURSIVE itoa(_)
\* The decimal digits of a number, as ps prints the processes.
itoa(i) == IF i < 0 THEN <<"-">> \o itoa(-i)
           ELSE IF i < 10 THEN <<Digit[i + 1]>>
           ELSE itoa(i \div 10) \o <<Digit[(i % 10) + 1]>>

\* c - '0'; of a letter, a number beyond every process.
ctoi(c) == IF \E i \in 1 .. 10 : Digit[i] = c THEN (CHOOSE i \in 1 .. 10 : Digit[i] = c) - 1 ELSE 53

\* Call 15 refuses the shell and what is not a process.
sys_command15_kill(pid) == IF pid # 0 /\ pid \in Pid THEN pid ELSE NoPid

\* main of echo prints its words.
EchoMain(args) ==
  /\ out' = Tail(args)
  /\ UNCHANGED killed

\* main of kill uses the first character of its word; without one it prints its usage.
KillMain(args) ==
  /\ killed' = IF Len(args) = 1 THEN NoPid ELSE sys_command15_kill(ctoi(args[2][1]))
  /\ UNCHANGED out

(* c_start: main with the arguments of the process, and toyos_done, which   *)
(* ends the shell's wait.                                                   *)
c_start ==
  /\ shell = "wait"
  /\ \/ Head(argv) = <<"e">> /\ EchoMain(argv)
     \/ Head(argv) = <<"k">> /\ KillMain(argv)
  /\ ToPrompt
  /\ UNCHANGED <<sp, used, stray>>

(* main(0, NULL) of a program that got no arguments: echo prints nothing,   *)
(* kill reads through address 4 and may name any process.                   *)
StrayMain ==
  /\ stray # "none" /\ stray' = "none"
  /\ IF stray = "k" THEN \E pid \in Pid : killed' = sys_command15_kill(pid) /\ UNCHANGED out
     ELSE out' = <<>> /\ UNCHANGED killed
  /\ UNCHANGED <<sp, used, shell, list, argv, line, stale>>

Next ==
  \/ \E text \in Lines, garbage \in Garbage, room \in 0 .. Records : toyos_system_run(text, garbage, room)
  \/ \E loads \in BOOLEAN, room \in 0 .. Len(list) + 1 :
       sys_command9_invoke_system_command(loads, room)
  \/ c_start \/ StrayMain

Spec == Init /\ [][Next]_vars
-----------------------------------------------------------------------------
TypeOK ==
  /\ sp \in 0 .. BufferSize + 1 /\ used \in 0 .. Records
  /\ shell \in {"prompt", "system", "wait"}
  /\ \A k \in DOMAIN list : Len(list[k]) < ArgumentSize
  /\ stray \in {"none", "e", "k"}
  /\ killed \in Pid \cup {NoPid}

RECURSIVE Words(_)
\* The words of a text, by its blanks.
Words(text) ==
  LET blanks == {i \in DOMAIN text : text[i] = Blank}
      n == IF blanks = {} THEN Len(text) ELSE Min(blanks) - 1
  IN  IF text = <<>> THEN <<>>
      ELSE (IF n = 0 THEN <<>> ELSE <<SubSeq(text, 1, n)>>) \o Words(SubSeq(text, n + 2, Len(text)))

\* The words as a command_argument can hold them.
Short(words) == [k \in DOMAIN words |-> SubSeq(words[k], 1, Min({Len(words[k]), ArgumentSize - 1}))]

(* If strtok starts afresh, the list that call 9 is given is the line's     *)
(* words, cut to their places, or, when memory ran short, the first of      *)
(* them, and only then does strtok keep a pointer into the line: a command  *)
(* that fits into memory leaves the next one unharmed.                      *)
CommandIsLine ==
  /\ TypeOK
  /\ shell # "prompt" /\ stale = NULL =>
       /\ IsPrefix(list, Short(Words(line)))
       /\ sp = NULL <=> Len(list) = Len(Words(line))

(* The words of a line that fits into memory reach main unchanged, whatever *)
(* was typed and whatever failed before: echo prints them, and kill ends    *)
(* the process whose number, as ps prints it, is the second word, if the    *)
(* number has one digit (what itoa, strtok, strncpy and ctoi do to it       *)
(* cancels out).                                                            *)
ProgramsGetTheLine ==
  [][c_start /\ stale = NULL /\ sp = NULL =>
       /\ Head(argv) = <<"e">> => out' = Tail(Short(Words(line)))
       /\ Head(argv) = <<"k">> /\ Len(argv) > 1 =>
            \A pid \in Pid \cap 1 .. 9 : Words(line)[2] = itoa(pid) => killed' = pid]_vars
=============================================================================
