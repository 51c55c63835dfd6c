---------------------------- MODULE TokenRefresh ----------------------------
(***************************************************************************)
(* How the API proxies of several hatchery processes share one OAuth       *)
(* login.  A proxy keeps the access token in memory (the `state` of its    *)
(* header mutator) and serves requests in handler threads.  A request that *)
(* the upstream refuses is sent once more after a refresh.  A refresh runs *)
(* an agent CLI on the host, which rotates the login and rewrites the      *)
(* token file; hatchery_lock serialises the refreshes of all processes,    *)
(* but not the agents the user runs on the host.                           *)
(*                                                                         *)
(* Tokens are numbered in the order in which the login server issues them. *)
(***************************************************************************)
EXTENDS Naturals

CONSTANTS
  Procs,       \* hatchery processes
  Handlers,    \* handler threads of their proxies
  ProxyOf,     \* [Handlers -> Procs]
  Clis,        \* agent CLI processes on the host
  None,        \* no handler, no CLI, no token
  Budgets      \* bound: pairs of how many tokens are issued after the first and how
               \*   many processes killed; a behaviour keeps within one of them

ASSUME ConstantsAssumption ==
  /\ ProxyOf \in [Handlers -> Procs]
  /\ None \notin Handlers \cup Clis
  /\ None \notin Nat
  /\ Budgets \subseteq Nat \X Nat

VARIABLES
  backend,   \* "codex" or "pi": whose login the processes share
  \* The login server and the host's agents (external).
  newest,    \* the newest token issued; older ones are refused
  expired,   \* the newest token is refused too
  file,      \* the token written last
  torn,      \* the file is cut off in the middle of a write
  mtime,     \* counts the file's modifications
  cli,       \* [Clis -> CliStates]
  out,       \* [Clis -> Nat or None]: the credential a CLI has printed
  \* hatchery.
  up,        \* processes whose proxy runs
  state,     \* [Procs -> Nat]: state["token"]
  lock,      \* the handler that holds the lock file, or None
  req,       \* [Handlers -> Request]
  \* Observations: nothing in the code reads them.
  excused,   \* handlers whose retry may fail
  kills

server == <<newest, expired>>
disk == <<file, torn, mtime>>
agents == <<cli, out>>
external == <<backend, server, disk, agents>>
vars == <<external, up, state, lock, req, excused, kills>>

CliStates == {"none", "started", "rotated", "writing", "done"}

Locked == {"check", "spawn", "watch", "read", "leave"}

Request == [pc    : Locked \cup {"idle", "sent", "lock", "retry", "resent"},
            tok   : Nat,                 \* the token sent upstream
            child : Clis \cup {None},    \* proc
            seen  : Nat,                 \* old_mtime
            got   : Nat \cup {None}]     \* new_token

NoRequest == [pc |-> "idle", tok |-> 0, child |-> None, seen |-> 0, got |-> None]

Init ==
  /\ backend \in {"codex", "pi"}
  /\ newest = 0 /\ expired = FALSE
  /\ file = 0 /\ torn = FALSE /\ mtime = 0
  /\ cli = [c \in Clis |-> "none"] /\ out = [c \in Clis |-> None]
  /\ up = Procs
  /\ state = [p \in Procs |-> 0]
  /\ lock = None
  /\ req = [h \in Handlers |-> NoRequest]
  /\ excused = {}
  /\ kills = 0

-----------------------------------------------------------------------------
(* The login server, and the agents on the host. *)

Within(tokens, deaths) == \E b \in Budgets : tokens <= b[1] /\ deaths <= b[2]

Accepted(t) == t = newest /\ ~expired

Watched(c) == \E h \in Handlers : req[h].child = c

Expire ==
  /\ ~expired
  /\ expired' = TRUE
  /\ excused' = {h \in Handlers : req[h].pc # "idle"}
  /\ UNCHANGED <<backend, newest, disk, agents, up, state, lock, req, kills>>

\* The user logs in again after the login in the file was lost.
Login ==
  /\ torn \/ file < newest
  /\ \A c \in Clis : cli[c] \notin {"rotated", "writing"}
  /\ Within(newest + 1, kills)
  /\ newest' = newest + 1 /\ expired' = FALSE
  /\ file' = newest' /\ torn' = FALSE /\ mtime' = mtime + 1
  /\ UNCHANGED <<backend, agents, up, state, lock, req, excused, kills>>

\* The user runs the agent on the host, without hatchery.
HostStarts(c) ==
  /\ cli[c] = "none"
  /\ cli' = [cli EXCEPT ![c] = "started"]
  /\ UNCHANGED <<backend, server, disk, out, up, state, lock, req, excused, kills>>

\* The refresh token in the file serves once.
Rotate(c) ==
  /\ cli[c] = "started"
  /\ expired /\ ~torn /\ file = newest /\ Within(newest + 1, kills)
  /\ newest' = newest + 1 /\ expired' = FALSE
  /\ cli' = [cli EXCEPT ![c] = "rotated"]
  /\ UNCHANGED <<backend, disk, out, up, state, lock, req, excused, kills>>

\* codex has nothing to print, and its output is discarded.
Prints(c, t) == out' = [out EXCEPT ![c] = IF backend = "pi" THEN t ELSE None]

InFile == IF torn THEN None ELSE file

\* The file is truncated, then written.
StartWrite(c) ==
  /\ cli[c] = "rotated"
  /\ cli' = [cli EXCEPT ![c] = "writing"]
  /\ torn' = TRUE /\ mtime' = mtime + 1
  /\ UNCHANGED <<backend, server, file, out, up, state, lock, req, excused, kills>>

EndWrite(c) ==
  /\ cli[c] = "writing"
  /\ cli' = [cli EXCEPT ![c] = "done"] /\ Prints(c, newest)
  /\ file' = newest /\ torn' = FALSE /\ mtime' = mtime + 1
  /\ UNCHANGED <<backend, server, up, state, lock, req, excused, kills>>

\* A CLI ends without a rotation: none was needed, or it failed.
EndIdle(c) ==
  /\ cli[c] = "started"
  /\ cli' = [cli EXCEPT ![c] = "done"]
  /\ \E t \in {None, InFile} : Prints(c, t)
  /\ UNCHANGED <<backend, server, disk, up, state, lock, req, excused, kills>>

\* A CLI that has ended and that nobody waits for is forgotten.
Reap(c) ==
  /\ cli[c] = "done" /\ ~Watched(c)
  /\ cli' = [cli EXCEPT ![c] = "none"] /\ out' = [out EXCEPT ![c] = None]
  /\ UNCHANGED <<backend, server, disk, up, state, lock, req, excused, kills>>

-----------------------------------------------------------------------------
(* A request: APIHandler._handle_request. *)

Goto(h, r) == req' = [req EXCEPT ![h] = r]

\* The mutator's result carries state["token"] as it is at the moment.
Carries(h, step) == Goto(h, [NoRequest EXCEPT !.pc = step, !.tok = state[ProxyOf[h]]])

Send(h) ==
  /\ req[h].pc = "idle" /\ ProxyOf[h] \in up
  /\ Carries(h, "sent")
  /\ UNCHANGED <<external, up, state, lock, excused, kills>>

Over(h) == Goto(h, NoRequest) /\ excused' = excused \ {h}

\* The upstream accepts the token, or cannot be reached: 502.
Answer(h) ==
  /\ req[h].pc \in {"sent", "resent"}
  /\ Over(h)
  /\ UNCHANGED <<external, up, state, lock, kills>>

\* 401, for the first time.
Refused(h) ==
  /\ req[h].pc = "sent" /\ ~Accepted(req[h].tok)
  /\ Goto(h, [req[h] EXCEPT !.pc = "lock"])
  /\ UNCHANGED <<external, up, state, lock, excused, kills>>

Resend(h) ==
  /\ req[h].pc = "retry"
  /\ Carries(h, "resent")
  /\ UNCHANGED <<external, up, state, lock, excused, kills>>

\* 401 again: the client gets it.
Forward401(h) ==
  /\ req[h].pc = "resent" /\ ~Accepted(req[h].tok)
  /\ Over(h)
  /\ UNCHANGED <<external, up, state, lock, kills>>

-----------------------------------------------------------------------------
(* _refresh of the two backends, under hatchery_lock. *)

\* flock excludes every other open file, of threads and processes alike.
\* MUTANT: lockf, which does not exclude threads of one process.
LockFreeOfProcesses(h) == lock # None => ProxyOf[lock] = ProxyOf[h]

LockFree(h) == lock = None

Acquire(h) ==
  /\ req[h].pc = "lock" /\ LockFree(h)
  /\ lock' = h
  /\ Goto(h, [req[h] EXCEPT !.pc = IF backend = "codex" THEN "check" ELSE "spawn"])
  /\ UNCHANGED <<external, up, state, excused, kills>>

\* codex: another process may have refreshed already.
Read(h, t) ==
  /\ Goto(h, [NoRequest EXCEPT !.pc = "leave", !.got = t])
  /\ excused' = IF t # None /\ Accepted(t) THEN excused ELSE excused \cup {h}

CheckFile(h) ==
  /\ req[h].pc = "check"
  /\ IF InFile \notin {None, state[ProxyOf[h]]}
       THEN Read(h, InFile)
       ELSE Goto(h, [req[h] EXCEPT !.pc = "spawn"]) /\ UNCHANGED excused
  /\ UNCHANGED <<external, up, state, lock, kills>>

Spawn(h, c) ==
  /\ req[h].pc = "spawn" /\ cli[c] = "none"
  /\ cli' = [cli EXCEPT ![c] = "started"]
  /\ Goto(h, [req[h] EXCEPT !.pc = "watch", !.child = c, !.seen = mtime])
  /\ UNCHANGED <<backend, server, disk, out, up, state, lock, excused, kills>>

\* codex: the file has changed or the CLI has ended; a CLI that still runs is left
\* alone.
FileChanged(h) ==
  /\ req[h].pc = "watch" /\ backend = "codex"
  /\ mtime > req[h].seen \/ cli[req[h].child] = "done"
  /\ Goto(h, [NoRequest EXCEPT !.pc = "read"])
  /\ UNCHANGED <<external, up, state, lock, excused, kills>>

ReadFile(h) ==
  /\ req[h].pc = "read"
  /\ Read(h, InFile)
  /\ UNCHANGED <<external, up, state, lock, kills>>

\* MUTANT: the refresh waits for the CLI.
NeverTimedOut(h) == FALSE

\* codex: 30 s have passed. The CLI is killed wherever it is, and nothing is read.
TimedOut(h) ==
  /\ req[h].pc = "watch" /\ backend = "codex"
  /\ cli' = [cli EXCEPT ![req[h].child] = "none"]
  /\ out' = [out EXCEPT ![req[h].child] = None]
  /\ Read(h, None)
  /\ UNCHANGED <<backend, server, disk, up, state, lock, kills>>

\* pi: the CLI has ended; there is no time-out.
CliAnswered(h) ==
  /\ req[h].pc = "watch" /\ backend = "pi" /\ cli[req[h].child] = "done"
  /\ Read(h, out[req[h].child])
  /\ UNCHANGED <<external, up, state, lock, kills>>

\* MUTANT: the token read is assigned to a local variable of _refresh.
LeaveUnadopted(h) ==
  /\ req[h].pc = "leave"
  /\ lock' = None
  /\ Goto(h, [NoRequest EXCEPT !.pc = "retry"])
  /\ UNCHANGED <<external, up, state, excused, kills>>

\* MUTANT: whatever was read is adopted.
LeaveUnchecked(h) ==
  /\ req[h].pc = "leave"
  /\ state' = [state EXCEPT ![ProxyOf[h]] = req[h].got]
  /\ lock' = None
  /\ Goto(h, [NoRequest EXCEPT !.pc = "retry"])
  /\ UNCHANGED <<external, up, excused, kills>>

\* The token read is adopted, and the lock released.
Leave(h) ==
  /\ req[h].pc = "leave"
  /\ state' = IF req[h].got = None THEN state
              ELSE [state EXCEPT ![ProxyOf[h]] = req[h].got]
  /\ lock' = None
  /\ Goto(h, [NoRequest EXCEPT !.pc = "retry"])
  /\ UNCHANGED <<external, up, excused, kills>>

-----------------------------------------------------------------------------
(* Processes die and start. *)

\* The kernel releases the lock; a CLI that was started goes on.
Kill(p) ==
  /\ p \in up /\ Within(newest, kills + 1)
  /\ up' = up \ {p} /\ kills' = kills + 1
  /\ req' = [h \in Handlers |-> IF ProxyOf[h] = p THEN NoRequest ELSE req[h]]
  /\ lock' = IF lock # None /\ ProxyOf[lock] = p THEN None ELSE lock
  /\ excused' = {h \in excused : ProxyOf[h] # p}
  /\ UNCHANGED <<external, state>>

\* Without a token the proxy does not start.  codex reads the file; pi gets the
\* credential from its CLI, run without the lock: a HostStarts before this step.
Start(p) ==
  /\ p \notin up /\ InFile # None
  /\ up' = up \cup {p}
  /\ state' = [state EXCEPT ![p] = InFile]
  /\ UNCHANGED <<external, lock, req, excused, kills>>

HandlerStep(h) ==
  \/ Answer(h) \/ Refused(h) \/ Resend(h) \/ Forward401(h)
  \/ CheckFile(h) \/ FileChanged(h) \/ ReadFile(h) \/ TimedOut(h)
  \/ CliAnswered(h) \/ Leave(h)

CliEnds(c) == StartWrite(c) \/ EndWrite(c) \/ EndIdle(c) \/ Reap(c)

Next ==
  \/ \E h \in Handlers :
       Send(h) \/ HandlerStep(h) \/ Acquire(h) \/ \E c \in Clis : Spawn(h, c)
  \/ Expire \/ Login
  \/ \E c \in Clis : HostStarts(c) \/ Rotate(c) \/ CliEnds(c)
  \/ \E p \in Procs : Kill(p) \/ Start(p)

Spec == Init /\ [][Next]_vars

\* Threads run, flock starves nobody, and a CLI ends that hatchery does not watch
\* with a time-out.
Fairness ==
  /\ \A h \in Handlers :
       /\ WF_vars(HandlerStep(h))
       /\ SF_vars(Acquire(h))
       /\ SF_vars(\E c \in Clis : Spawn(h, c))
  /\ \A c \in Clis : WF_vars(CliEnds(c) /\ (backend = "pi" \/ ~Watched(c)))

FairSpec == Spec /\ Fairness

-----------------------------------------------------------------------------
(* Properties. *)

\* Every variable is well formed; a proxy that runs has a token.
TypeOK ==
  /\ backend \in {"codex", "pi"}
  /\ newest \in Nat /\ expired \in BOOLEAN
  /\ file \in Nat /\ torn \in BOOLEAN /\ mtime \in Nat
  /\ cli \in [Clis -> CliStates] /\ out \in [Clis -> Nat \cup {None}]
  /\ up \subseteq Procs
  /\ state \in [Procs -> Nat]
  /\ lock \in Handlers \cup {None}
  /\ req \in [Handlers -> Request]
  /\ excused \subseteq Handlers
  /\ kills \in Nat

\* At most one thread of all processes refreshes, the one that holds the lock file
\* (locks.py); a process that is killed gives it up with the refresh.
MutualExclusion == \A h \in Handlers : req[h].pc \in Locked <=> lock = h

\* The processes' tokens are those of the abstract shared login: whatever threads
\* and processes do, with CLIs that write the file at any time, the token of a
\* process (codex.py `state`, pi.py `state`) never goes back and is never one
\* that was not issued.
Shared == INSTANCE SharedToken WITH held <- state

ImplementsSharedToken == Shared!Spec

\* The client gets the upstream's 401 (proxy.py, after the single retry) only if
\* a token expired while its request was served, or its refresh found no token
\* that the upstream accepts: a good token once found is the one that is sent.
RefusedOnlyIfExcused == [][\A h \in Handlers : Forward401(h) => h \in excused]_vars

\* A request that reached the upstream is answered, also if other refreshes hold
\* the lock, CLIs hang or processes are killed.
Answered == \A h \in Handlers : req[h].pc = "sent" ~> req[h].pc = "idle"
=============================================================================
