------------------------------ MODULE MCMalloc ------------------------------
(* Malloc for TLC: two tasks, the first above the second.                  *)
EXTENDS Malloc

MCTask == 1 .. 2
=============================================================================
