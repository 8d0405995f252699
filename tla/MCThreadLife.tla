---------------------------- MODULE MCThreadLife ----------------------------
(* ThreadLife for TLC; the threads are model values given in the cfg files. *)
EXTENDS ThreadLife
=============================================================================
