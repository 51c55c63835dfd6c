------------------------------ MODULE MCLaunch ------------------------------
(* Two processes that launch one session or open a sandbox shell. *)
EXTENDS Launch, TLC

CONSTANTS p1, p2

Symmetry == Permutations(Procs)
=============================================================================
