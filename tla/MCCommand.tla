----------------------------- MODULE MCCommand ------------------------------
(***************************************************************************)
(* Command with the lines of up to five characters over a blank, a program  *)
(* name and a digit, and some that call kill.                               *)
(***************************************************************************)
EXTENDS Command

Texts(n, chars) == UNION {[1 .. k -> chars] : k \in 0 .. n}

MCLines == Texts(5, {" ", "e", "1"})
             \cup {<<"k">>, <<"k", " ", "0">>, <<"k", " ", "1">>, <<"k", " ", "2">>, <<"k", " ", "1", "0">>}

MCGarbage == {<<>>, <<"k", " ", "2">>}
=============================================================================
