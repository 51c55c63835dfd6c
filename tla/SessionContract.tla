--------------------------- MODULE SessionContract ---------------------------
(***************************************************************************)
(* What the session store promises about a session, whatever directory its *)
(* metadata is filed under at the moment: once opened it keeps its runtime *)
(* resource, it disappears only when it is deleted or when, being parked,  *)
(* its name is given to a new session, and a session that is gone never    *)
(* comes back.                                                             *)
(***************************************************************************)
CONSTANTS Sessions, Resources, NoResource

VARIABLES
  phase,     \* [Sessions -> {"unborn", "open", "parked", "gone"}]
  resource   \* [Sessions -> Resources or NoResource]

vars == <<phase, resource>>

\* Sessions made by earlier versions may be in the store already.
Init ==
  /\ phase \in [Sessions -> {"unborn", "open"}]
  /\ resource \in [Sessions -> Resources \cup {NoResource}]
  /\ \A s \in Sessions : phase[s] = "unborn" <=> resource[s] = NoResource

Exists(s) == phase[s] \in {"open", "parked"}

Open(s, r) ==
  /\ phase[s] = "unborn"
  /\ phase' = [phase EXCEPT ![s] = "open"]
  /\ resource' = [resource EXCEPT ![s] = r]

Park(s) ==
  /\ phase[s] = "open"
  /\ phase' = [phase EXCEPT ![s] = "parked"]
  /\ UNCHANGED resource

Reopen(s) ==
  /\ phase[s] = "parked"
  /\ phase' = [phase EXCEPT ![s] = "open"]
  /\ UNCHANGED resource

Delete(s) ==
  /\ Exists(s)
  /\ phase' = [phase EXCEPT ![s] = "gone"]
  /\ resource' = [resource EXCEPT ![s] = NoResource]

\* A new session is opened under the name of a parked one.
Replace(s, new, r) ==
  /\ phase[s] = "parked" /\ phase[new] = "unborn"
  /\ phase' = [phase EXCEPT ![s] = "gone", ![new] = "open"]
  /\ resource' = [resource EXCEPT ![s] = NoResource, ![new] = r]

Next ==
  \E s \in Sessions :
    \/ \E r \in Resources : Open(s, r)
    \/ Park(s) \/ Reopen(s) \/ Delete(s)
    \/ \E new \in Sessions, r \in Resources : Replace(s, new, r)

Spec == Init /\ [][Next]_vars
=============================================================================
