---------------------------- MODULE MCArixServer ----------------------------
(* ArixServer for TLC: which process owns which port. *)
EXTENDS ArixServer

CONSTANTS c1, c2, p1, p2

\* One port per process: the ports of two processes may well have the same
\* descriptor.
OneEach == [p \in {p1, p2} |-> IF p = p1 THEN c1 ELSE c2]
=============================================================================
