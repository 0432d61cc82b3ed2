------------------------------ MODULE Terminal ------------------------------
(***************************************************************************)
(* The text screen (terminal.c) as operators on a record: the cursor's row  *)
(* and column, which are 16-bit words in the code, and the cells of         *)
(* screen_buffer in the order of memory.  Colours, the hardware cursor and  *)
(* the copy to video memory that ends every write are left out.  A write    *)
(* outside screen_buffer hits some other kernel variable; the record does   *)
(* not change, and the cursor tells (OnScreen).                             *)
(***************************************************************************)
EXTENDS Integers

CONSTANTS VGA_WIDTH, VGA_HEIGHT,
          Word        \* the number of values of a uint16_t

ASSUME ScreenAssumption ==
  /\ VGA_WIDTH \in Nat \ {0} /\ VGA_HEIGHT \in Nat \ {0} /\ Word \in Nat
  /\ 2 * VGA_WIDTH * VGA_HEIGHT < Word

Cell == 0..(VGA_WIDTH * VGA_HEIGHT - 1)
Blank == " "

Position(t) == t.row * VGA_WIDTH + t.col
OnScreen(t) == t.row < VGA_HEIGHT /\ t.col < VGA_WIDTH

terminal_clear_all == [row |-> 0, col |-> 0, screen |-> [k \in Cell |-> Blank]]

terminal_buffer_putchar(t, c) ==
  IF Position(t) \in Cell THEN [t EXCEPT !.screen[Position(t)] = c] ELSE t

terminal_scroll(t) ==
  [t EXCEPT !.row = VGA_HEIGHT - 1,
            !.screen = [k \in Cell |-> IF k + VGA_WIDTH \in Cell
                                       THEN t.screen[k + VGA_WIDTH] ELSE Blank]]

\* The start of the next row, which may have to be scrolled in.
next_line(t) ==
  LET u == [t EXCEPT !.row = @ + 1, !.col = 0]
  IN  IF u.row >= VGA_HEIGHT THEN terminal_scroll(u) ELSE u

\* terminal_writechar of a character that is neither '\n' nor 0x08.
write_plain(t, c) ==
  LET u == [terminal_buffer_putchar(t, c) EXCEPT !.col = (@ + 1) % Word]
  IN  IF u.col >= VGA_WIDTH THEN next_line(u) ELSE u

\* Mutant: the cursor stays behind the blank.
terminal_backspace_stays(t) ==
  IF t.row = 0 /\ t.col = 0 THEN t
  ELSE LET u == IF t.col = 0 THEN [t EXCEPT !.row = @ - 1, !.col = VGA_WIDTH] ELSE t
       IN  write_plain([u EXCEPT !.col = @ - 1], Blank)

terminal_backspace(t) ==
  IF t.row = 0 /\ t.col = 0 THEN t
  ELSE LET u == IF t.col = 0 THEN [t EXCEPT !.row = @ - 1, !.col = VGA_WIDTH] ELSE t
           v == write_plain([u EXCEPT !.col = @ - 1], Blank)
       IN  [v EXCEPT !.col = (@ - 1) % Word]

terminal_writechar(t, c) ==
  CASE c = "nl" -> next_line(t)
    [] c = "bs" -> terminal_backspace(t)
    [] OTHER    -> write_plain(t, c)
=============================================================================
