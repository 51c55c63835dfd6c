---------------------------- MODULE SharedToken ----------------------------
(***************************************************************************)
(* What sharing one OAuth login promises the processes: each holds some    *)
(* token that was issued, and never exchanges it for an older one.         *)
(***************************************************************************)
EXTENDS Naturals

CONSTANT Procs

VARIABLES
  newest,   \* tokens are numbered as they are issued
  held      \* [Procs -> Nat]

vars == <<newest, held>>

Init == newest = 0 /\ held = [p \in Procs |-> 0]

Issue == newest' = newest + 1 /\ UNCHANGED held

Renew(p) ==
  /\ \E t \in held[p]..newest : held' = [held EXCEPT ![p] = t]
  /\ UNCHANGED newest

Next == Issue \/ \E p \in Procs : Renew(p)

Spec == Init /\ [][Next]_vars
=============================================================================
