------------------------- MODULE MCSessionLifecycle -------------------------
(* Finite instances of SessionLifecycle for TLC. *)
EXTENDS SessionLifecycle, TLC

CONSTANTS c1, c2, c3

\* Commands name every session explicitly.
NoAutoNames == <<>>

\* chat-1 and chat-2.
TwoAutoNames == <<c1, c2>>

Symmetry == Permutations(Procs)
SymmetryUids == Permutations(Procs) \cup Permutations(Uids \ {LegacyUid})
=============================================================================
