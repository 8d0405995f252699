------------------------------- MODULE Loops -------------------------------
(***************************************************************************)
(* Loops of the code as functions from the values of their variables to    *)
(* the values after one turn.                                              *)
(***************************************************************************)
EXTENDS Integers

\* What a loop of the code that begins with x ends with: next is what a turn
\* makes of the loop's variables, and leaves them alone where the loop ends.
Loop(next, x) ==
  LET end[y \in DOMAIN next] == LET z == next[y] IN IF z = y THEN y ELSE end[z]
  IN  end[x]
============================================================================
