------------------------------ MODULE Keyboard ------------------------------
(***************************************************************************)
(* The keyboard ring of a process (keyboard.c) and the translation of       *)
(* scan codes (ps2.c), as operators.  NoKey is the byte 0x00, which marks   *)
(* an empty place: the ring has no count, and no check for being full.      *)
(***************************************************************************)
EXTENDS Integers, Sequences

CONSTANT RingSize   \* TOYOS_KEYBOARD_BUFFER_SIZE

ASSUME RingSizeAssumption == RingSize \in Nat \ {0}

NoKey == "nul"
Key == {"a", "A", "bs", "cr"}      \* a letter in both cases, 0x08 and 0x0d

RingType == [buffer : [0..RingSize-1 -> Key \cup {NoKey}], head : Nat, tail : Nat]

EmptyRing == [buffer |-> [k \in 0..RingSize-1 |-> NoKey], head |-> 0, tail |-> 0]

\* The key goes to the place of tail, whatever is there.
keyboard_push(r, c) ==
  [r EXCEPT !.buffer[r.tail % RingSize] = c, !.tail = @ + 1]

\* What a pop returns: NoKey when the place of head is empty.
NextKey(r) == r.buffer[r.head % RingSize]

\* Mutant: head stays behind.
keyboard_pop_stays(r) ==
  IF NextKey(r) = NoKey THEN r ELSE [r EXCEPT !.buffer[r.head % RingSize] = NoKey]

keyboard_pop(r) ==
  IF NextKey(r) = NoKey THEN r
  ELSE [r EXCEPT !.buffer[r.head % RingSize] = NoKey, !.head = @ + 1]

\* The keys between head and tail, oldest first.
Pending(r) == [k \in 1..(r.tail - r.head) |-> r.buffer[(r.head + k - 1) % RingSize]]
-----------------------------------------------------------------------------
(* Scan codes: a letter, backspace, enter, caps lock, and the code equal to *)
(* the table's length, which the range test admits and whose byte is        *)
(* whatever follows the table.  The release of a key changes nothing.       *)
Scancode == {"letter", "backspace", "enter", "capslock", "length"}

\* The bytes keyboard_scan_set_one may give for a code.
keyboard_scan_set_one(code) ==
  CASE code = "letter"    -> {"A"}
    [] code = "backspace" -> {"bs"}
    [] code = "enter"     -> {"cr"}
    [] code = "capslock"  -> {NoKey}
    [] code = "length"    -> Key \cup {NoKey}

ps2_keyboard_scancode_to_char(code, caps) ==
  {IF c = "A" /\ ~caps THEN "a" ELSE c : c \in keyboard_scan_set_one(code)}
=============================================================================
