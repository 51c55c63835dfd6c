------------------------- MODULE TokenRefreshProofs -------------------------
(***************************************************************************)
(* TokenRefresh for any number of proxies, threads, CLIs, tokens and       *)
(* kills: the variables keep their types, one thread refreshes at a time,  *)
(* the processes' tokens implement SharedToken, and a good token is used.  *)
(*                                                                         *)
(* The refinement rests on the order                                       *)
(*   state[p] <= token a thread of p has read <= file <= newest.           *)
(* Between reading and adopting, the first inequality holds only because   *)
(* no other thread of p adopts a token: the lock.                          *)
(*                                                                         *)
(* That a good token once found is the one that is sent rests on the login *)
(* standing still meanwhile: a new one is issued only when the newest has  *)
(* expired or the file has fallen behind it (FileBehind).                  *)
(***************************************************************************)
EXTENDS TokenRefresh, TLAPS

\* A request in progress belongs to a proxy that runs.
Alive == \A h \in Handlers : req[h].pc # "idle" => ProxyOf[h] \in up

\* A thread has a CLI exactly while it watches it.
Children == \A h \in Handlers : req[h].child # None <=> req[h].pc = "watch"

\* What a CLI has printed is in the file.
Printed == \A c \in Clis : out[c] # None => cli[c] = "done" /\ out[c] <= file

\* A token that a thread has read, or is about to get from its CLI, is not older
\* than its process's.
NotOlder(h, t) == t # None => state[ProxyOf[h]] <= t /\ t <= file

Ordered ==
  /\ file <= newest
  /\ \A p \in Procs : state[p] <= file
  /\ \A h \in Handlers :
       /\ req[h].pc = "leave" => NotOlder(h, req[h].got)
       /\ req[h].pc = "watch" => NotOlder(h, out[req[h].child])

IInv == TypeOK /\ MutualExclusion /\ Alive /\ Children /\ Printed /\ Ordered

-----------------------------------------------------------------------------

\* A step of one thread's request.
LEMMA GotoKeeps ==
  ASSUME NEW h \in Handlers, NEW r \in Request, req \in [Handlers -> Request],
         Goto(h, r)
  PROVE  /\ req' \in [Handlers -> Request]
         /\ req'[h] = r
         /\ \A g \in Handlers : g # h => req'[g] = req[g]
BY DEF Goto

LEMMA InitInv == Init => IInv
<1> SUFFICES ASSUME Init PROVE IInv
  OBVIOUS
<1> USE ConstantsAssumption DEF Init
<1>1. NoRequest \in Request
  BY DEF NoRequest, Request
<1>2. TypeOK
  <2>1. expired \in BOOLEAN /\ torn \in BOOLEAN
    OBVIOUS
  <2> QED BY <1>1, <2>1 DEF TypeOK, CliStates
<1>3. \A h \in Handlers : req[h].pc = "idle" /\ req[h].child = None
  BY DEF NoRequest
<1>4. MutualExclusion
  BY <1>3 DEF MutualExclusion, Locked
<1>5. Alive /\ Children /\ Printed /\ Ordered
  BY <1>3 DEF Alive, Children, Printed, Ordered, NotOlder
<1> QED BY <1>2, <1>4, <1>5 DEF IInv

\* The login server and the CLIs: requests, locks and the processes' tokens stay,
\* the file's token and the newest one only grow.
LEMMA ExternalKeeps ==
  ASSUME IInv,
         Expire \/ Login
           \/ \E c \in Clis : HostStarts(c) \/ Rotate(c) \/ StartWrite(c)
                                \/ EndWrite(c) \/ EndIdle(c) \/ Reap(c)
  PROVE  IInv'
<1> USE ConstantsAssumption DEF IInv
<1>1. UNCHANGED <<up, state, lock, req, kills>>
  BY DEF Expire, Login, HostStarts, Rotate, StartWrite, EndWrite, EndIdle, Reap
<1>2. MutualExclusion' /\ Alive' /\ Children'
  BY <1>1 DEF MutualExclusion, Alive, Children
<1>3. CASE Expire
  <2>1. TypeOK'
    BY <1>3 DEF Expire, TypeOK, disk, agents
  <2>2. Printed' /\ Ordered'
    BY <1>3 DEF Expire, disk, agents, Printed, Ordered, NotOlder
  <2> QED BY <1>2, <2>1, <2>2
<1>4. CASE Login
  <2>1. TypeOK'
    <3>1. expired' \in BOOLEAN /\ torn' \in BOOLEAN
      BY <1>4 DEF Login, TypeOK, agents
    <3> QED BY <1>4, <3>1 DEF Login, TypeOK, agents
  <2>2. file <= file' /\ file' <= newest' /\ out' = out /\ cli' = cli
    BY <1>4 DEF Login, TypeOK, Ordered, agents
  <2>3. Printed'
    BY <2>1, <2>2 DEF Printed, TypeOK
  <2>4. Ordered'
    BY <1>1, <2>1, <2>2 DEF Ordered, NotOlder, TypeOK, Request, Children
  <2> QED BY <1>2, <2>1, <2>3, <2>4
<1>5. ASSUME NEW c \in Clis, HostStarts(c) \/ Rotate(c) \/ StartWrite(c)
      PROVE  IInv'
  <2>1. TypeOK'
    <3>1. expired' \in BOOLEAN /\ torn' \in BOOLEAN
      BY <1>5 DEF HostStarts, Rotate, StartWrite, TypeOK, CliStates, server, disk, agents
    <3> QED BY <1>5, <3>1 DEF HostStarts, Rotate, StartWrite, TypeOK, CliStates, server, disk, agents
  <2>2. /\ file' = file /\ newest <= newest' /\ out' = out
        /\ \A d \in Clis : cli[d] = "done" => cli'[d] = "done"
    BY <1>5 DEF HostStarts, Rotate, StartWrite, TypeOK, server, disk, agents
  <2>3. Printed'
    BY <2>2 DEF Printed
  <2>4. Ordered'
    BY <1>1, <2>1, <2>2 DEF Ordered, NotOlder, TypeOK
  <2> QED BY <1>2, <2>1, <2>3, <2>4
<1>6. ASSUME NEW c \in Clis, EndWrite(c) \/ EndIdle(c) \/ Reap(c)
      PROVE  IInv'
  <2>1. TypeOK'
    <3>1. expired' \in BOOLEAN /\ torn' \in BOOLEAN
      BY <1>6 DEF EndWrite, EndIdle, Reap, Prints, InFile, TypeOK, CliStates, server, disk
    <3> QED BY <1>6, <3>1 DEF EndWrite, EndIdle, Reap, Prints, InFile, TypeOK, CliStates, server, disk
  <2>2. /\ file <= file' /\ file' <= newest' /\ newest' = newest
        /\ \A d \in Clis : d # c => out'[d] = out[d] /\ cli'[d] = cli[d]
        /\ out'[c] # None => cli'[c] = "done" /\ file <= out'[c] /\ out'[c] <= file'
    BY <1>6 DEF EndWrite, EndIdle, Reap, Prints, InFile, TypeOK, Ordered, server, disk
  <2>3. Printed'
    BY <2>1, <2>2 DEF Printed, TypeOK
  <2>4. ASSUME NEW h \in Handlers, req[h].pc = "watch"
        PROVE  NotOlder(h, out[req[h].child])'
    <3>1. req[h].child \in Clis
      BY <2>4 DEF Children, TypeOK, Request
    <3> QED BY <1>1, <2>1, <2>2, <2>4, <3>1 DEF Ordered, NotOlder, TypeOK
  <2>5. ASSUME NEW h \in Handlers, req[h].pc = "leave"
        PROVE  NotOlder(h, req[h].got)'
    BY <1>1, <2>1, <2>2, <2>5 DEF Ordered, NotOlder, TypeOK, Request
  <2>6. Ordered'
    BY <1>1, <2>1, <2>2, <2>4, <2>5 DEF Ordered, TypeOK
  <2> QED BY <1>2, <2>1, <2>3, <2>6
<1> QED BY <1>3, <1>4, <1>5, <1>6

\* Steps of a thread that neither has nor takes the lock.
LEMMA UnlockedKeeps ==
  ASSUME IInv, NEW h \in Handlers,
         Send(h) \/ Answer(h) \/ Refused(h) \/ Resend(h) \/ Forward401(h)
  PROVE  IInv'
<1> USE ConstantsAssumption DEF IInv
<1> DEFINE r == req'[h]
<1>1. /\ UNCHANGED <<external, up, state, lock, kills>>
      /\ excused' \subseteq Handlers
  BY DEF Send, Answer, Refused, Resend, Forward401, Over, TypeOK
<1>2. /\ req' \in [Handlers -> Request]
      /\ \A g \in Handlers : g # h => req'[g] = req[g]
      /\ r.pc \notin Locked /\ r.child = None
      /\ r.pc # "idle" => ProxyOf[h] \in up
      /\ req[h].pc \notin Locked
  <2>1. req \in [Handlers -> Request] /\ ProxyOf[h] \in Procs /\ state[ProxyOf[h]] \in Nat
    BY DEF TypeOK
  <2>2. CASE Send(h) \/ Resend(h)
    <3>1. PICK step \in {"sent", "resent"} :
            Goto(h, [NoRequest EXCEPT !.pc = step, !.tok = state[ProxyOf[h]]])
      BY <2>2 DEF Send, Resend, Carries
    <3>2. [NoRequest EXCEPT !.pc = step, !.tok = state[ProxyOf[h]]] \in Request
      BY <2>1 DEF NoRequest, Request
    <3>3. ProxyOf[h] \in up
      BY <2>2 DEF Send, Resend, Alive
    <3>4. req'[h] = [NoRequest EXCEPT !.pc = step, !.tok = state[ProxyOf[h]]]
      BY <2>1, <3>1, <3>2, GotoKeeps
    <3>5. r.pc = step /\ r.child = None
      BY <3>4 DEF NoRequest
    <3>6. req[h].pc \notin Locked
      BY <2>2 DEF Send, Resend, Locked
    <3>7. /\ req' \in [Handlers -> Request]
          /\ \A g \in Handlers : g # h => req'[g] = req[g]
      BY <2>1, <3>1, <3>2, GotoKeeps
    <3> QED BY <3>3, <3>5, <3>6, <3>7 DEF Locked
  <2>3. CASE Answer(h) \/ Forward401(h)
    <3>1. NoRequest \in Request
      BY DEF NoRequest, Request
    <3>2. Goto(h, NoRequest)
      BY <2>3 DEF Answer, Forward401, Over
    <3> QED BY <2>1, <2>3, <3>1, <3>2, GotoKeeps DEF NoRequest, Locked, Answer, Forward401
  <2>4. CASE Refused(h)
    <3>1. [req[h] EXCEPT !.pc = "lock"] \in Request
      BY <2>1 DEF Request
    <3>2. req[h].child = None /\ ProxyOf[h] \in up
      BY <2>4 DEF Refused, Children, Alive
    <3> QED BY <2>1, <2>4, <3>1, <3>2, GotoKeeps DEF Refused, Request, Locked
  <2> QED BY <2>2, <2>3, <2>4
<1>3. TypeOK'
  BY <1>1, <1>2 DEF TypeOK, external, server, disk, agents
<1>4. MutualExclusion'
  BY <1>1, <1>2 DEF MutualExclusion
<1>5. Alive' /\ Children'
  BY <1>1, <1>2 DEF Alive, Children, Locked
<1>6. Printed' /\ Ordered'
  BY <1>1, <1>2 DEF Printed, Ordered, NotOlder, Locked, external, server, disk, agents
<1> QED BY <1>3, <1>4, <1>5, <1>6

LEMMA AcquireKeeps ==
  ASSUME IInv, NEW h \in Handlers, Acquire(h)
  PROVE  IInv'
<1> USE ConstantsAssumption DEF IInv
<1>1. /\ req' \in [Handlers -> Request]
      /\ \A g \in Handlers : g # h => req'[g] = req[g]
      /\ req'[h].pc \in {"check", "spawn"} /\ req'[h].child = None
  <2>1. PICK step \in {"check", "spawn"} : Goto(h, [req[h] EXCEPT !.pc = step])
    BY DEF Acquire
  <2>2. req[h] \in Request /\ req[h].child = None
    BY DEF Acquire, TypeOK, Children
  <2>3. [req[h] EXCEPT !.pc = step] \in Request
    BY <2>2 DEF Request, Locked
  <2> QED BY <2>1, <2>2, <2>3, GotoKeeps DEF TypeOK, Request
<1>2. UNCHANGED <<external, up, state, excused, kills>> /\ lock = None /\ lock' = h
  BY DEF Acquire, LockFree
<1>3. TypeOK'
  BY <1>1, <1>2 DEF TypeOK, external, server, disk, agents
<1>4. MutualExclusion'
  BY <1>1, <1>2 DEF MutualExclusion, Locked
<1>5. Alive' /\ Children'
  BY <1>1, <1>2 DEF Alive, Children, Acquire
<1>6. Printed' /\ Ordered'
  BY <1>1, <1>2 DEF Printed, Ordered, NotOlder, external, server, disk, agents
<1> QED BY <1>3, <1>4, <1>5, <1>6

\* Steps under the lock that change no token: what is read is what the file, or
\* the CLI, has.
LEMMA LockedKeeps ==
  ASSUME IInv, NEW h \in Handlers,
         \/ CheckFile(h) \/ FileChanged(h) \/ ReadFile(h) \/ TimedOut(h)
         \/ CliAnswered(h) \/ \E c \in Clis : Spawn(h, c)
  PROVE  IInv'
<1> USE ConstantsAssumption DEF IInv
<1>1. UNCHANGED <<backend, server, disk, up, state, lock, kills>>
  BY DEF CheckFile, FileChanged, ReadFile, TimedOut, CliAnswered, Spawn, external
<1>2. req[h] \in Request /\ req[h].pc \in Locked /\ NoRequest \in Request
  BY DEF CheckFile, FileChanged, ReadFile, TimedOut, CliAnswered, Spawn, Locked, TypeOK,
         NoRequest, Request
<1>3. /\ cli' \in [Clis -> CliStates] /\ out' \in [Clis -> Nat \cup {None}]
      /\ \A c \in Clis : out'[c] # None => out'[c] = out[c] /\ cli'[c] = cli[c]
  <2>1. CASE TimedOut(h)
    BY <2>1 DEF TimedOut, TypeOK, CliStates
  <2>2. CASE \E c \in Clis : Spawn(h, c)
    BY <2>2 DEF Spawn, TypeOK, CliStates, Printed
  <2>3. CASE CheckFile(h) \/ FileChanged(h) \/ ReadFile(h) \/ CliAnswered(h)
    BY <2>3 DEF CheckFile, FileChanged, ReadFile, CliAnswered, external, agents, TypeOK
  <2> QED BY <2>1, <2>2, <2>3
<1>4. ASSUME NEW t \in Nat \cup {None}, NotOlder(h, t), Read(h, t)
      PROVE  /\ req' \in [Handlers -> Request]
             /\ \A g \in Handlers : g # h => req'[g] = req[g]
             /\ req'[h].pc = "leave" /\ req'[h].child = None /\ NotOlder(h, req'[h].got)
             /\ excused' \subseteq Handlers
  <2>1. [NoRequest EXCEPT !.pc = "leave", !.got = t] \in Request
    BY DEF NoRequest, Request, Locked
  <2>2. excused' \subseteq Handlers
    BY <1>4 DEF Read, TypeOK
  <2>3. Goto(h, [NoRequest EXCEPT !.pc = "leave", !.got = t]) /\ req \in [Handlers -> Request]
    BY <1>4 DEF Read, TypeOK
  <2>4. req'[h] = [NoRequest EXCEPT !.pc = "leave", !.got = t]
    BY <2>1, <2>3, GotoKeeps
  <2>5. req'[h].pc = "leave" /\ req'[h].child = None /\ req'[h].got = t
    BY <2>4 DEF NoRequest
  <2>6. NotOlder(h, req'[h].got)
    BY <1>4, <2>5
  <2>7. /\ req' \in [Handlers -> Request]
        /\ \A g \in Handlers : g # h => req'[g] = req[g]
    BY <2>1, <2>3, GotoKeeps
  <2> QED BY <2>2, <2>5, <2>6, <2>7
<1>5. NotOlder(h, InFile) /\ NotOlder(h, None) /\ InFile \in Nat \cup {None}
  BY DEF NotOlder, InFile, Ordered, TypeOK
<1>6. /\ req' \in [Handlers -> Request]
      /\ \A g \in Handlers : g # h => req'[g] = req[g]
      /\ req'[h].pc \in Locked
      /\ req'[h].child # None <=> req'[h].pc = "watch"
      /\ req'[h].pc = "leave" => NotOlder(h, req'[h].got)
      /\ req'[h].pc = "watch" => out'[req'[h].child] = None
      /\ excused' \subseteq Handlers
  <2>1. CASE (CheckFile(h) \/ ReadFile(h)) /\ Read(h, InFile)
    BY <1>4, <1>5, <2>1 DEF Locked
  <2>2. CASE TimedOut(h)
    BY <1>4, <1>5, <2>2 DEF TimedOut, Locked
  <2>3. CASE CliAnswered(h)
    <3>1. req[h].child \in Clis
      BY <1>2, <2>3 DEF CliAnswered, Children, Request
    <3>2. NotOlder(h, out[req[h].child]) /\ out[req[h].child] \in Nat \cup {None}
      BY <2>3, <3>1 DEF CliAnswered, Ordered, TypeOK
    <3> QED BY <1>4, <2>3, <3>2 DEF CliAnswered, Locked
  <2>4. CASE CheckFile(h) /\ ~Read(h, InFile)
    <3>1. Goto(h, [req[h] EXCEPT !.pc = "spawn"]) /\ excused' = excused
      BY <2>4 DEF CheckFile
    <3>2. req[h].child = None /\ [req[h] EXCEPT !.pc = "spawn"] \in Request
      BY <1>2, <2>4 DEF CheckFile, Children, Request, Locked
    <3> QED BY <1>2, <3>1, <3>2, GotoKeeps DEF TypeOK, Request, Locked
  <2>5. CASE FileChanged(h)
    <3>1. [NoRequest EXCEPT !.pc = "read"] \in Request
      BY DEF NoRequest, Request, Locked
    <3> QED BY <2>5, <3>1, GotoKeeps DEF FileChanged, TypeOK, NoRequest, Locked
  <2>6. ASSUME NEW c \in Clis, Spawn(h, c)
        PROVE  /\ req' \in [Handlers -> Request]
               /\ \A g \in Handlers : g # h => req'[g] = req[g]
               /\ req'[h].pc = "watch" /\ req'[h].child = c
               /\ out'[c] = None /\ excused' = excused
    <3>1. [req[h] EXCEPT !.pc = "watch", !.child = c, !.seen = mtime] \in Request
      BY <1>2 DEF Request, Locked, TypeOK
    <3>2. out'[c] = None
      BY <2>6 DEF Spawn, Printed, TypeOK
    <3>3. /\ Goto(h, [req[h] EXCEPT !.pc = "watch", !.child = c, !.seen = mtime])
          /\ req \in [Handlers -> Request] /\ excused' = excused
      BY <2>6 DEF Spawn, TypeOK
    <3>4. /\ req' \in [Handlers -> Request]
          /\ \A g \in Handlers : g # h => req'[g] = req[g]
          /\ req'[h] = [req[h] EXCEPT !.pc = "watch", !.child = c, !.seen = mtime]
      BY <3>1, <3>3, GotoKeeps
    <3>5. req'[h].pc = "watch" /\ req'[h].child = c
      BY <1>2, <3>4 DEF Request
    <3> QED BY <3>2, <3>3, <3>4, <3>5
  <2>7. CASE \E c \in Clis : Spawn(h, c)
    <3>1. excused \subseteq Handlers
      BY DEF TypeOK
    <3> QED BY <2>6, <2>7, <3>1 DEF Locked
  <2> QED BY <2>1, <2>2, <2>3, <2>4, <2>5, <2>7 DEF ReadFile
<1>7. TypeOK'
  BY <1>1, <1>3, <1>6 DEF TypeOK, server, disk
<1>8. MutualExclusion'
  BY <1>1, <1>2, <1>6 DEF MutualExclusion
<1>9. Alive' /\ Children'
  BY <1>1, <1>2, <1>6 DEF Alive, Children, Locked
<1>10. Printed'
  BY <1>1, <1>3 DEF Printed, disk
<1>11. Ordered'
  <2>1. ASSUME NEW g \in Handlers, g # h, req[g].pc = "watch"
        PROVE  NotOlder(g, out[req[g].child])'
    <3>1. req[g].child \in Clis
      BY <2>1 DEF Children, TypeOK, Request
    <3> QED BY <1>1, <1>3, <1>6, <2>1, <3>1 DEF NotOlder, Ordered, disk
  <2>2. ASSUME NEW g \in Handlers, g # h, req[g].pc = "leave"
        PROVE  NotOlder(g, req[g].got)'
    BY <1>1, <1>6, <2>2 DEF NotOlder, Ordered, disk
  <2> QED BY <1>1, <1>6, <2>1, <2>2 DEF NotOlder, Ordered, server, disk
<1> QED BY <1>7, <1>8, <1>9, <1>10, <1>11

\* A process's token moves to one that is not older, and stays below the file's.
\* The other threads of the process hold no lock, so nothing they have read is
\* outdated by it.
LEMMA LeaveKeeps ==
  ASSUME IInv, NEW h \in Handlers, Leave(h)
  PROVE  /\ IInv'
         /\ UNCHANGED newest
         /\ state' # state =>
              \E t \in state[ProxyOf[h]]..newest : state' = [state EXCEPT ![ProxyOf[h]] = t]
<1> USE ConstantsAssumption DEF IInv
<1>1. UNCHANGED <<external, up, excused, kills>> /\ lock = h /\ lock' = None
  BY DEF Leave, MutualExclusion, Locked
<1>2. /\ req' \in [Handlers -> Request]
      /\ \A g \in Handlers : g # h => req'[g] = req[g]
      /\ req'[h].pc = "retry" /\ req'[h].child = None
  <2>1. [NoRequest EXCEPT !.pc = "retry"] \in Request
    BY DEF NoRequest, Request, Locked
  <2>2. Goto(h, [NoRequest EXCEPT !.pc = "retry"]) /\ req \in [Handlers -> Request]
    BY DEF Leave, TypeOK
  <2>3. req'[h] = [NoRequest EXCEPT !.pc = "retry"]
    BY <2>1, <2>2, GotoKeeps
  <2> QED BY <2>1, <2>2, <2>3, GotoKeeps DEF NoRequest
<1>3. \A g \in Handlers : g # h => req[g].pc \notin Locked
  BY <1>1 DEF MutualExclusion
<1>4. /\ state' \in [Procs -> Nat]
      /\ \A p \in Procs : state'[p] <= file
      /\ state' # state =>
           \E t \in state[ProxyOf[h]]..newest : state' = [state EXCEPT ![ProxyOf[h]] = t]
  <2>1. CASE req[h].got = None
    BY <2>1 DEF Leave, TypeOK, Ordered
  <2>2. CASE req[h].got # None
    <3>1. req[h].got \in Nat /\ state[ProxyOf[h]] <= req[h].got /\ req[h].got <= file
      BY <2>2 DEF Leave, Ordered, NotOlder, TypeOK, Request
    <3>2. req[h].got \in state[ProxyOf[h]]..newest
      BY <3>1 DEF Ordered, TypeOK
    <3> QED BY <2>2, <3>1, <3>2 DEF Leave, TypeOK, Ordered
  <2> QED BY <2>1, <2>2
<1>5. TypeOK'
  BY <1>1, <1>2, <1>4 DEF TypeOK, external, server, disk, agents
<1>6. MutualExclusion'
  BY <1>1, <1>2, <1>3 DEF MutualExclusion, Locked
<1>7. Alive' /\ Children'
  BY <1>1, <1>2 DEF Alive, Children, Leave
<1>8. Printed' /\ Ordered'
  BY <1>1, <1>2, <1>3, <1>4 DEF Printed, Ordered, Locked, external, server, disk, agents
<1> QED BY <1>1, <1>4, <1>5, <1>6, <1>7, <1>8 DEF external, server

LEMMA KillKeeps ==
  ASSUME IInv, NEW p \in Procs, Kill(p)
  PROVE  IInv'
<1> USE ConstantsAssumption DEF IInv
<1>1. UNCHANGED <<external, state>>
  BY DEF Kill
<1>2. /\ req' \in [Handlers -> Request]
      /\ \A h \in Handlers : ProxyOf[h] # p => req'[h] = req[h]
      /\ \A h \in Handlers : ProxyOf[h] = p => req'[h].pc = "idle" /\ req'[h].child = None
  BY DEF Kill, TypeOK, NoRequest, Request, Locked
<1>3. TypeOK'
  <2>1. lock' \in Handlers \cup {None} /\ up' \subseteq Procs /\ excused' \subseteq Handlers
    BY DEF Kill, TypeOK
  <2>2. kills' \in Nat
    BY DEF Kill, TypeOK
  <2> QED BY <1>1, <1>2, <2>1, <2>2 DEF TypeOK, external, server, disk, agents
<1>4. MutualExclusion'
  BY <1>2 DEF Kill, MutualExclusion, Locked, TypeOK
<1>5. Alive' /\ Children'
  BY <1>2 DEF Kill, Alive, Children
<1>6. Printed' /\ Ordered'
  BY <1>1, <1>2 DEF Printed, Ordered, NotOlder, external, server, disk, agents
<1> QED BY <1>3, <1>4, <1>5, <1>6

LEMMA StartKeeps ==
  ASSUME IInv, NEW p \in Procs, Start(p)
  PROVE  /\ IInv'
         /\ UNCHANGED newest
         /\ \E t \in state[p]..newest : state' = [state EXCEPT ![p] = t]
<1> USE ConstantsAssumption DEF IInv
<1>1. UNCHANGED <<external, lock, req, excused, kills>> /\ up' = up \cup {p}
  BY DEF Start
<1>2. state' = [state EXCEPT ![p] = file]
  BY DEF Start, InFile
<1>3. \A h \in Handlers : ProxyOf[h] = p => req[h].pc = "idle"
  BY DEF Start, Alive
<1>4. TypeOK'
  BY <1>1, <1>2 DEF TypeOK, external, server, disk, agents
<1>5. MutualExclusion' /\ Alive' /\ Children'
  BY <1>1 DEF MutualExclusion, Alive, Children
<1>6. Printed'
  BY <1>1 DEF Printed, external, disk, agents
<1>7. Ordered'
  <2>1. \A q \in Procs : state'[q] <= file /\ (q # p => state'[q] = state[q])
    BY <1>2 DEF Ordered, TypeOK
  <2>2. \A h \in Handlers : req[h].pc \in {"leave", "watch"} => state'[ProxyOf[h]] = state[ProxyOf[h]]
    BY <1>3, <2>1
  <2> QED BY <1>1, <2>1, <2>2 DEF Ordered, NotOlder, external, server, disk, agents
<1>8. file \in state[p]..newest
  BY DEF Ordered, TypeOK
<1> QED BY <1>1, <1>2, <1>4, <1>5, <1>6, <1>7, <1>8 DEF external, server

LEMMA NextInv == IInv /\ [Next]_vars => IInv'
<1> SUFFICES ASSUME IInv, [Next]_vars PROVE IInv'
  OBVIOUS
<1>1. CASE UNCHANGED vars
  BY <1>1 DEF IInv, TypeOK, MutualExclusion, Alive, Children, Printed, Ordered, NotOlder,
              vars, external, server, disk, agents
<1>2. CASE Next
  BY <1>2, ExternalKeeps, UnlockedKeeps, AcquireKeeps, LockedKeeps, LeaveKeeps, KillKeeps,
     StartKeeps DEF Next, HandlerStep, CliEnds
<1> QED BY <1>1, <1>2

LEMMA Invariance == Spec => []IInv
BY InitInv, NextInv, PTL DEF Spec

-----------------------------------------------------------------------------

\* The variables keep their types; a proxy that runs has a token.
THEOREM TypeCorrect == Spec => []TypeOK
BY Invariance, PTL DEF IInv

\* hatchery_lock: of all threads of all processes, only its holder refreshes.
THEOREM OneRefresher == Spec => []MutualExclusion
BY Invariance, PTL DEF IInv

\* What a step does to the tokens: one is issued, or one process exchanges its
\* own for one that is not older.
LEMMA StepsShared ==
  ASSUME IInv, [Next]_vars
  PROVE  [Shared!Next]_(Shared!vars)
<1> USE DEF Shared!Next, Shared!Issue, Shared!Renew, Shared!vars
<1>1. CASE UNCHANGED vars
  BY <1>1 DEF vars, external, server
<1>2. CASE Expire \/ Login
             \/ \E c \in Clis : HostStarts(c) \/ Rotate(c) \/ CliEnds(c)
  BY <1>2 DEF Expire, Login, HostStarts, Rotate, CliEnds, StartWrite, EndWrite, EndIdle,
              Reap, server
<1>3. ASSUME NEW h \in Handlers, ~Leave(h),
             Send(h) \/ HandlerStep(h) \/ Acquire(h) \/ \E c \in Clis : Spawn(h, c)
      PROVE  UNCHANGED <<newest, state>>
  BY <1>3 DEF Send, HandlerStep, Answer, Refused, Resend, Forward401, CheckFile,
              FileChanged, ReadFile, TimedOut, CliAnswered, Acquire, Spawn, external, server
<1>4. ASSUME NEW h \in Handlers, Leave(h)
      PROVE  UNCHANGED newest /\ (state' = state \/ \E p \in Procs : Shared!Renew(p))
  <2>1. ProxyOf[h] \in Procs
    BY ConstantsAssumption
  <2> QED BY <1>4, <2>1, LeaveKeeps
<1>5. ASSUME NEW p \in Procs, Kill(p)
      PROVE  UNCHANGED <<newest, state>>
  BY <1>5 DEF Kill, external, server
<1>6. ASSUME NEW p \in Procs, Start(p)
      PROVE  Shared!Renew(p)
  BY <1>6, StartKeeps
<1> QED BY <1>1, <1>2, <1>3, <1>4, <1>5, <1>6 DEF Next

\* However threads, processes, time-outs, kills and the user's own agents
\* interleave, the processes' tokens only move forward, and only to tokens that
\* were issued.
THEOREM TokensMoveForward == Spec => ImplementsSharedToken
<1>1. Init => Shared!Init
  BY DEF Init, Shared!Init
<1>2. IInv /\ [Next]_vars => [Shared!Next]_(Shared!vars)
  BY StepsShared
<1> QED BY <1>1, <1>2, Invariance, PTL DEF Spec, ImplementsSharedToken, Shared!Spec

-----------------------------------------------------------------------------
(* A good token once found stays good until it expires.                    *)

Ahead == {"rotated", "writing"}

\* A file that is cut off, or still to be written, is behind the newest token; one
\* CLI at a time has a token that is not in the file.
FileBehind ==
  /\ torn => file < newest
  /\ \A c \in Clis : cli[c] \in Ahead => file < newest
  /\ \A c, d \in Clis : cli[c] \in Ahead /\ cli[d] \in Ahead => c = d

\* The token a thread has found, will send or has sent again, unless it is excused.
Found(h) ==
  req[h].pc \in {"leave", "retry", "resent"} /\ h \notin excused =>
    /\ ~expired /\ file = newest
    /\ req[h].pc = "leave" => req[h].got = newest
    /\ req[h].pc = "retry" => state[ProxyOf[h]] = newest
    /\ req[h].pc = "resent" => req[h].tok = newest

FoundInv == FileBehind /\ \A h \in Handlers : Found(h)

LEMMA InitFound == Init => FoundInv
<1> SUFFICES ASSUME Init PROVE FoundInv
  OBVIOUS
<1>1. \A h \in Handlers : req[h].pc = "idle"
  BY DEF Init, NoRequest
<1> QED BY <1>1 DEF Init, FoundInv, FileBehind, Ahead, Found

LEMMA ExternalFound ==
  ASSUME IInv, FoundInv,
         Expire \/ Login
           \/ \E c \in Clis : HostStarts(c) \/ Rotate(c) \/ StartWrite(c)
                                \/ EndWrite(c) \/ EndIdle(c) \/ Reap(c)
  PROVE  FoundInv'
<1> USE DEF FoundInv
<1>1. UNCHANGED <<state, req>>
  BY DEF Expire, Login, HostStarts, Rotate, StartWrite, EndWrite, EndIdle, Reap
<1>2. /\ TypeOK /\ file <= newest /\ file \in Nat /\ newest \in Nat
      /\ expired \in BOOLEAN /\ torn \in BOOLEAN
      /\ cli \in [Clis -> CliStates]
  BY DEF IInv, TypeOK, Ordered
<1>3. CASE Expire
  <2>1. FileBehind'
    BY <1>3 DEF Expire, disk, agents, FileBehind
  <2>2. ASSUME NEW h \in Handlers
        PROVE  Found(h)'
    BY <1>1, <1>3 DEF Expire, Found
  <2> QED BY <2>1, <2>2
<1>4. CASE Login
  <2>1. file < newest
    BY <1>2, <1>4 DEF Login, FileBehind
  <2>2. \A c \in Clis : cli'[c] \notin Ahead
    BY <1>4 DEF Login, agents, Ahead
  <2>3. FileBehind'
    BY <1>4, <2>2 DEF Login, FileBehind
  <2>4. ASSUME NEW h \in Handlers
        PROVE  Found(h)'
    BY <1>1, <1>2, <1>4, <2>1 DEF Login, Found
  <2> QED BY <2>3, <2>4
<1>5. ASSUME NEW c \in Clis, Rotate(c)
      PROVE  FoundInv'
  <2>1. /\ expired /\ file = newest /\ ~torn /\ newest' = newest + 1
        /\ UNCHANGED <<file, torn, excused>>
        /\ cli' = [cli EXCEPT ![c] = "rotated"]
    BY <1>5 DEF Rotate, disk
  <2>2. \A d \in Clis : cli[d] \notin Ahead
    BY <1>2, <2>1 DEF FileBehind
  <2>3. FileBehind'
    BY <1>2, <2>1, <2>2 DEF FileBehind, Ahead
  <2>4. ASSUME NEW h \in Handlers
        PROVE  Found(h)'
    BY <1>1, <2>1 DEF Found
  <2> QED BY <2>3, <2>4
<1>6. ASSUME NEW c \in Clis, HostStarts(c) \/ StartWrite(c) \/ EndWrite(c) \/ EndIdle(c) \/ Reap(c)
      PROVE  FoundInv'
  <2>1. UNCHANGED <<newest, expired, excused>> /\ (file' = file \/ file' = newest)
    BY <1>6 DEF HostStarts, StartWrite, EndWrite, EndIdle, Reap, server, disk
  <2>2. CASE EndWrite(c)
    <3>1. /\ cli[c] \in Ahead /\ torn' = FALSE /\ cli' = [cli EXCEPT ![c] = "done"]
      BY <2>2 DEF EndWrite, Ahead
    <3>2. \A d \in Clis : cli'[d] \notin Ahead
      BY <1>2, <3>1 DEF FileBehind, Ahead
    <3> QED BY <3>1, <3>2, <2>1, <1>1 DEF FileBehind, Found
  <2>3. CASE HostStarts(c) \/ StartWrite(c) \/ EndIdle(c) \/ Reap(c)
    <3>1. /\ file' = file
          /\ torn' = torn \/ file < newest
          /\ \A d \in Clis : cli'[d] \in Ahead => cli[d] \in Ahead
      BY <1>2, <2>3 DEF HostStarts, StartWrite, EndIdle, Reap, disk, Ahead, FileBehind
    <3> QED BY <3>1, <2>1, <1>1 DEF FileBehind, Found
  <2> QED BY <1>6, <2>2, <2>3
<1> QED BY <1>3, <1>4, <1>5, <1>6

\* A step of one thread leaves what the others have found: it stores no token but
\* one that is at least as new.
LEMMA OthersFound ==
  ASSUME IInv, FoundInv, NEW h \in Handlers, UNCHANGED <<newest, expired, file, torn>>,
         \A g \in Handlers : g # h => req'[g] = req[g] /\ (g \in excused <=> g \in excused'),
         \A p \in Procs : state'[p] = state[p] \/ (state[p] <= state'[p] /\ state'[p] <= newest),
         \A c \in Clis : cli'[c] \in Ahead => cli[c] \in Ahead,
         state' \in [Procs -> Nat], Found(h)'
  PROVE  FoundInv'
<1>1. ASSUME NEW g \in Handlers, g # h
      PROVE  Found(g)'
  <2>1. /\ ProxyOf[g] \in Procs /\ newest \in Nat /\ state[ProxyOf[g]] \in Nat
        /\ state'[ProxyOf[g]] \in Nat
    BY ConstantsAssumption DEF IInv, TypeOK
  <2>2. state[ProxyOf[g]] = newest => state'[ProxyOf[g]] = newest
    BY <2>1
  <2> QED BY <1>1, <2>2 DEF FoundInv, Found
<1>2. FileBehind'
  BY DEF FoundInv, FileBehind
<1> QED BY <1>1, <1>2 DEF FoundInv

LEMMA HandlerFound ==
  ASSUME IInv, FoundInv, NEW h \in Handlers,
         Send(h) \/ HandlerStep(h) \/ Acquire(h) \/ \E c \in Clis : Spawn(h, c)
  PROVE  FoundInv'
<1>1. /\ req \in [Handlers -> Request] /\ state \in [Procs -> Nat]
      /\ cli \in [Clis -> CliStates] /\ ProxyOf[h] \in Procs /\ None \notin Nat
  BY ConstantsAssumption DEF IInv, TypeOK
<1>2. UNCHANGED <<newest, expired, file, torn>>
  BY DEF Send, HandlerStep, Answer, Refused, Resend, Forward401, CheckFile, FileChanged,
         ReadFile, TimedOut, CliAnswered, Leave, Acquire, Spawn, external, server, disk
<1>3. \A c \in Clis : cli'[c] \in Ahead => cli[c] \in Ahead
  BY <1>1 DEF Send, HandlerStep, Answer, Refused, Resend, Forward401, CheckFile, FileChanged,
         ReadFile, TimedOut, CliAnswered, Leave, Acquire, Spawn, external, agents, Ahead
<1>4. /\ \A g \in Handlers : g # h => req'[g] = req[g]
      /\ \A g \in Handlers : g # h => (g \in excused <=> g \in excused')
  <2>1. \E r : Goto(h, r)
    BY DEF Send, HandlerStep, Answer, Refused, Resend, Forward401, CheckFile, FileChanged,
         ReadFile, TimedOut, CliAnswered, Leave, Acquire, Spawn, Carries, Over, Read
  <2>2. excused' \in {excused, excused \cup {h}, excused \ {h}}
    BY DEF Send, HandlerStep, Answer, Refused, Resend, Forward401, CheckFile, FileChanged,
         ReadFile, TimedOut, CliAnswered, Leave, Acquire, Spawn, Carries, Over, Read
  <2> QED BY <1>1, <2>1, <2>2 DEF Goto
<1>5. state' \in [Procs -> Nat] /\
      \A p \in Procs : state'[p] = state[p] \/ (state[p] <= state'[p] /\ state'[p] <= newest)
  <2>1. CASE Leave(h)
    <3>1. PICK t \in state[ProxyOf[h]] .. newest :
            state' = state \/ state' = [state EXCEPT ![ProxyOf[h]] = t]
      <4>1. state[ProxyOf[h]] \in state[ProxyOf[h]] .. newest
        BY <1>1 DEF IInv, TypeOK, Ordered
      <4> QED BY <2>1, <4>1, LeaveKeeps
    <3>2. newest \in Nat
      BY DEF IInv, TypeOK
    <3>3. t \in Nat /\ state[ProxyOf[h]] <= t /\ t <= newest
      BY <1>1, <3>2
    <3> QED BY <1>1, <3>1, <3>3
  <2>2. CASE ~Leave(h)
    <3>1. state' = state
      BY <2>2 DEF Send, HandlerStep, Answer, Refused, Resend, Forward401, CheckFile,
         FileChanged, ReadFile, TimedOut, CliAnswered, Acquire, Spawn
    <3> QED BY <1>1, <3>1
  <2> QED BY <2>1, <2>2
\* What is read is good, or the thread is excused.
<1>6. ASSUME NEW t \in Nat \cup {None}, NotOlder(h, t), Read(h, t)
      PROVE  Found(h)'
  <2>1. req'[h] = [NoRequest EXCEPT !.pc = "leave", !.got = t]
    BY <1>1, <1>6 DEF Read, Goto
  <2>2. req'[h].pc = "leave" /\ req'[h].got = t
    BY <2>1 DEF NoRequest
  <2>3. h \notin excused' => t # None /\ t = newest /\ ~expired
    BY <1>6 DEF Read, Accepted
  <2>4. h \notin excused' => file = newest
    BY <1>1, <1>6, <2>3 DEF NotOlder, IInv, TypeOK, Ordered
  <2> QED BY <1>2, <2>2, <2>3, <2>4 DEF Found
<1>7. NotOlder(h, InFile) /\ NotOlder(h, None) /\ InFile \in Nat \cup {None}
  BY <1>1 DEF NotOlder, InFile, IInv, Ordered, TypeOK
<1>8. Found(h)'
  <2>1. CASE Resend(h)
    <3>1. /\ req[h].pc = "retry" /\ excused' = excused
          /\ req'[h] = [NoRequest EXCEPT !.pc = "resent", !.tok = state[ProxyOf[h]]]
      BY <1>1, <2>1 DEF Resend, Carries, Goto
    <3>2. req'[h].pc = "resent" /\ req'[h].tok = state[ProxyOf[h]]
      BY <3>1 DEF NoRequest
    <3> QED BY <1>2, <3>1, <3>2 DEF FoundInv, Found
  <2>2. CASE Leave(h)
    <3>1. /\ req[h].pc = "leave" /\ excused' = excused
          /\ req'[h] = [NoRequest EXCEPT !.pc = "retry"]
          /\ req[h].got \in Nat => state'[ProxyOf[h]] = req[h].got
      BY <1>1, <2>2 DEF Leave, Goto
    <3>2. req'[h].pc = "retry"
      BY <3>1 DEF NoRequest
    <3>3. newest \in Nat
      BY DEF IInv, TypeOK
    <3> QED BY <1>2, <3>1, <3>2, <3>3 DEF FoundInv, Found
  <2>3. CASE CheckFile(h) \/ ReadFile(h)
    <3>1. CASE Read(h, InFile)
      BY <1>6, <1>7, <3>1
    <3>2. CASE ~Read(h, InFile)
      <4>1. req'[h].pc = "spawn"
        BY <1>1, <2>3, <3>2 DEF CheckFile, ReadFile, Goto, Request
      <4> QED BY <4>1 DEF Found
    <3> QED BY <3>1, <3>2
  <2>4. CASE TimedOut(h)
    BY <1>6, <1>7, <2>4 DEF TimedOut
  <2>5. CASE CliAnswered(h)
    <3>1. req[h].child \in Clis /\ Read(h, out[req[h].child]) /\ req[h].pc = "watch"
      BY <1>1, <2>5 DEF CliAnswered, IInv, Children, Request
    <3>2. NotOlder(h, out[req[h].child]) /\ out[req[h].child] \in Nat \cup {None}
      BY <3>1 DEF IInv, Ordered, TypeOK
    <3> QED BY <1>6, <3>1, <3>2
  <2>6. CASE Send(h) \/ Answer(h) \/ Refused(h) \/ Forward401(h) \/ FileChanged(h) \/ Acquire(h)
    <3>1. req'[h].pc \in {"sent", "idle", "lock", "read", "check", "spawn"}
      <4>1. req[h] \in Request
        BY <1>1
      <4>2. PICK r : Goto(h, r) /\ r.pc \in {"sent", "idle", "lock", "read", "check", "spawn"}
        <5>1. CASE Send(h) \/ FileChanged(h)
          <6> DEFINE r(step) == [NoRequest EXCEPT !.pc = step, !.tok = state[ProxyOf[h]]]
          <6>1. r("sent").pc = "sent" /\ [NoRequest EXCEPT !.pc = "read"].pc = "read"
            BY DEF NoRequest
          <6>2. Goto(h, r("sent")) \/ Goto(h, [NoRequest EXCEPT !.pc = "read"])
            BY <5>1 DEF Send, FileChanged, Carries
          <6> HIDE DEF r
          <6> QED BY <6>1, <6>2
        <5>2. CASE Answer(h) \/ Forward401(h)
          BY <5>2 DEF Answer, Forward401, Over, NoRequest
        <5>3. CASE Refused(h) \/ Acquire(h)
          BY <4>1, <5>3 DEF Refused, Acquire, Request
        <5> QED BY <2>6, <5>1, <5>2, <5>3
      <4> QED BY <1>1, <4>2 DEF Goto
    <3> QED BY <3>1 DEF Found
  <2>7. CASE \E c \in Clis : Spawn(h, c)
    <3>1. req'[h].pc = "watch"
      <4>1. PICK c \in Clis : Goto(h, [req[h] EXCEPT !.pc = "watch", !.child = c, !.seen = mtime])
        BY <2>7 DEF Spawn
      <4>2. req[h] \in Request
        BY <1>1
      <4>3. [req[h] EXCEPT !.pc = "watch", !.child = c, !.seen = mtime].pc = "watch"
        BY <4>2 DEF Request
      <4> QED BY <1>1, <4>1, <4>3 DEF Goto
    <3> QED BY <3>1 DEF Found
  <2> QED BY <2>1, <2>2, <2>3, <2>4, <2>5, <2>6, <2>7 DEF HandlerStep
<1> QED BY <1>2, <1>3, <1>4, <1>5, <1>8, OthersFound

LEMMA FoundStep == IInv /\ FoundInv /\ [Next]_vars => FoundInv'
<1> SUFFICES ASSUME IInv, FoundInv, [Next]_vars PROVE FoundInv'
  OBVIOUS
<1>1. CASE UNCHANGED vars
  BY <1>1 DEF FoundInv, FileBehind, Found, vars, external, server, disk, agents
<1>2. ASSUME NEW p \in Procs, Kill(p)
      PROVE  FoundInv'
  <2>1. UNCHANGED <<newest, expired, file, torn, cli, state>>
    BY <1>2 DEF Kill, external, server, disk, agents
  <2>2. ASSUME NEW h \in Handlers
        PROVE  \/ req'[h] = req[h] /\ (h \in excused' <=> h \in excused)
               \/ req'[h].pc = "idle"
    BY <1>2 DEF Kill, NoRequest
  <2>3. ASSUME NEW h \in Handlers
        PROVE  Found(h)'
    BY <2>1, <2>2 DEF FoundInv, Found
  <2> QED BY <2>1, <2>3 DEF FoundInv, FileBehind
<1>3. ASSUME NEW p \in Procs, Start(p)
      PROVE  FoundInv'
  <2>1. UNCHANGED <<newest, expired, file, torn, cli, req, excused>>
    BY <1>3 DEF Start, external, server, disk, agents
  <2>2. ASSUME NEW h \in Handlers, req[h].pc # "idle"
        PROVE  state'[ProxyOf[h]] = state[ProxyOf[h]]
    BY <1>3, <2>2, ConstantsAssumption DEF Start, IInv, Alive, TypeOK
  <2>3. ASSUME NEW h \in Handlers
        PROVE  Found(h)'
    BY <2>1, <2>2 DEF FoundInv, Found
  <2> QED BY <2>1, <2>3 DEF FoundInv, FileBehind
<1> QED BY <1>1, <1>2, <1>3, ExternalFound, HandlerFound DEF Next, CliEnds

\* A client is told 401 after the retry only if a token expired meanwhile, or its refresh
\* found none that the upstream accepts, however the refreshes of other threads and
\* processes, the user's agents, time-outs and kills fall between its steps.
THEOREM GoodTokensAreUsed == Spec => RefusedOnlyIfExcused
<1>1. FoundInv => \A h \in Handlers : Forward401(h) => h \in excused
  BY DEF FoundInv, Found, Forward401, Accepted
<1> QED BY <1>1, InitInv, InitFound, NextInv, FoundStep, PTL DEF Spec, RefusedOnlyIfExcused

=============================================================================
