---------------------------- MODULE MCExecMutex ----------------------------
(* ExecMutex for TLC; the threads are model values given in the cfg files. *)
EXTENDS ExecMutex, TLC

\* The threads are interchangeable: ExecMutex never tells them apart.
Symmetry == Permutations(Threads)
=============================================================================
