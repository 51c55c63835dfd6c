------------------------------- MODULE Launch -------------------------------
(***************************************************************************)
(* Launching the container of one session.  A launch finds or writes the   *)
(* session's proxy token, builds the image, creates and seeds the volumes, *)
(* starts the sidecars, runs the container and stops the sidecars.  Every  *)
(* step may fail, Ctrl-C may come at any of them, and hatchery processes   *)
(* may launch the same session at once.  A sandbox shell goes the same way *)
(* with a token and a directory of its own and without seeded volumes.     *)
(*                                                                         *)
(* A token is named after the process that wrote it to the token file.     *)
(***************************************************************************)
EXTENDS Naturals

CONSTANTS
  Procs,        \* hatchery processes, each with one launch
  Volumes,      \* number of volumes, in the order of their mounts
  Seeded,       \* the volumes with a seed
  Servers,      \* number of configured API, S3 and OCI proxies
  FileServers,  \* those that write client files: S3 and OCI
  Contexts,     \* number of configured kubectl contexts
  None,         \* no process, no token file, no volume
  Blank,        \* the token read from an empty token file
  Empty,        \* a volume that exists without its seed
  MayOverlap,   \* launches of the session may overlap
  MayKill       \* processes may be killed

ASSUME ConstantsAssumption ==
  /\ Volumes \in Nat /\ Seeded \subseteq 1..Volumes
  /\ Servers \in Nat /\ FileServers \subseteq 1..Servers
  /\ Contexts \in Nat
  /\ {None, Blank, Empty} \cap Procs = {}
  /\ None # Blank /\ None # Empty /\ Blank # Empty
  /\ MayOverlap \in BOOLEAN /\ MayKill \in BOOLEAN

\* The sidecars in the order of their start; kubectl is the last one.
Kubectl == Servers + 1
Sidecars == 1..(IF Contexts = 0 THEN Servers ELSE Kubectl)

\* What sidecars keep up on the host: servers in threads of hatchery, and for a
\* kubectl context also a `kubectl proxy` process.
Server(k) == <<"server", k>>
RbacServer(c) == <<"rbac", c>>
KubectlProxy(c) == <<"kubectl", c>>

ServerUnits == {Server(k) : k \in 1..Servers}
KubectlUnits == {RbacServer(c) : c \in 1..Contexts} \cup {KubectlProxy(c) : c \in 1..Contexts}
Units == ServerUnits \cup KubectlUnits

VARIABLES
  tokenFile,  \* the session's proxy_token file
  volume,     \* [1..Volumes -> None, Empty, or the token it was seeded with]
  client,     \* whose sidecars the client files in the session directory name
  container,  \* the process whose container has the session's container name
  proc,       \* [Procs -> Process]
  up,         \* [Procs -> SUBSET Units]: what sidecars of p keep up
  \* Observations: nothing in the code reads them.
  stranded,   \* [Procs -> SUBSET Units]: units that failed to stop, or were cut off
  cutOff,     \* volumes whose seeding ended by Ctrl-C or a kill
  overlapped, \* launches of the session have overlapped
  used        \* volumes with what an agent has written to them

host == <<tokenFile, client, overlapped>>
disk == <<volume, cutOff>>
vars == <<host, disk, container, proc, up, stranded, used>>

Token == Procs \cup {Blank}

\* The steps before the first sidecar, and those under run_sidecars.
Before == {"token", "mint", "write", "prepare", "build", "volumes", "create", "seed", "rollback"}
Under == {"sidecars", "context", "rbac", "run", "running", "stop"}

Process == [pc      : Before \cup Under \cup {"idle", "over", "dead"},
            shell   : BOOLEAN,
            tok     : Token,
            at      : 1..Volumes + 1,    \* the mount prepare_volume_mounts is at
            started : 0..Kubectl,        \* len(started)
            context : 1..Contexts + 1]   \* the context KubectlSidecar.start is at

NewProcess == [pc |-> "idle", shell |-> FALSE, tok |-> Blank,
               at |-> 1, started |-> 0, context |-> 1]

Init ==
  /\ tokenFile = None
  /\ volume = [v \in 1..Volumes |-> None]
  /\ client = [k \in FileServers \cup {Kubectl} |-> None]
  /\ container = None
  /\ proc = [p \in Procs |-> NewProcess]
  /\ up = [p \in Procs |-> {}]
  /\ stranded = [p \in Procs |-> {}]
  /\ cutOff = {}
  /\ overlapped = FALSE
  /\ used = {}

-----------------------------------------------------------------------------

Goto(p, r) == proc' = [proc EXCEPT ![p] = r]

GotoPc(p, pc) == Goto(p, [proc[p] EXCEPT !.pc = pc])

\* The process's locals are gone.
Leave(p, pc) == Goto(p, [NewProcess EXCEPT !.pc = pc])

UnderWay(p) == proc[p].pc \in Before \cup Under

-----------------------------------------------------------------------------
(* sessions.launch and the token file; launch_sandbox_shell. *)

LaunchSession(p) ==
  LET others == {q \in Procs : UnderWay(q) /\ ~proc[q].shell}
  IN /\ proc[p].pc = "idle"
     /\ MayOverlap \/ others = {}
     /\ GotoPc(p, "token")
     /\ overlapped' = (overlapped \/ others # {})
     /\ UNCHANGED <<tokenFile, client, disk, container, up, stranded, used>>

LaunchShell(p) ==
  /\ proc[p].pc = "idle"
  /\ Goto(p, [proc[p] EXCEPT !.pc = "prepare", !.shell = TRUE, !.tok = p])
  /\ UNCHANGED <<host, disk, container, up, stranded, used>>

FindToken(p) ==
  /\ proc[p].pc = "token"
  /\ IF tokenFile # None
       THEN Goto(p, [proc[p] EXCEPT !.pc = "prepare", !.tok = tokenFile])
       ELSE GotoPc(p, "mint")
  /\ UNCHANGED <<host, disk, container, up, stranded, used>>

\* write_text opens the file, and so empties it, before it writes.
OpenTokenFile(p) ==
  /\ proc[p].pc = "mint"
  /\ tokenFile' = Blank
  /\ GotoPc(p, "write")
  /\ UNCHANGED <<client, overlapped, disk, container, up, stranded, used>>

WriteToken(p) ==
  /\ proc[p].pc = "write"
  /\ tokenFile' = p
  /\ Goto(p, [proc[p] EXCEPT !.pc = "prepare", !.tok = p])
  /\ UNCHANGED <<client, overlapped, disk, container, up, stranded, used>>

\* Invalid sidecars end the launch before the image is built.
PrepareSidecars(p) ==
  /\ proc[p].pc = "prepare"
  /\ GotoPc(p, "build") \/ Leave(p, "over")
  /\ UNCHANGED <<host, disk, container, up, stranded, used>>

BuildImage(p) ==
  /\ proc[p].pc = "build"
  /\ \/ GotoPc(p, IF proc[p].shell THEN "sidecars" ELSE "volumes")
     \/ Leave(p, "over")
  /\ UNCHANGED <<host, disk, container, up, stranded, used>>

-----------------------------------------------------------------------------
(* prepare_volume_mounts: one volume after the other. *)

NextVolume(p) == [proc[p] EXCEPT !.pc = "volumes", !.at = @ + 1]

\* MUTANT: the volume is created and seeded on every launch.
InspectNothing(p) ==
  LET v == proc[p].at
  IN /\ proc[p].pc = "volumes"
     /\ CASE v > Volumes -> Goto(p, [proc[p] EXCEPT !.pc = "sidecars", !.at = 1])
          [] OTHER -> GotoPc(p, "create")
     /\ UNCHANGED <<host, disk, container, up, stranded, used>>

InspectVolume(p) ==
  LET v == proc[p].at
  IN /\ proc[p].pc = "volumes"
     /\ CASE v > Volumes -> Goto(p, [proc[p] EXCEPT !.pc = "sidecars", !.at = 1])
          [] v <= Volumes /\ volume[v] # None -> Goto(p, NextVolume(p))
          [] OTHER -> GotoPc(p, "create")
     /\ UNCHANGED <<host, disk, container, up, stranded, used>>

\* The runtime may fail.  For a name that exists by now podman does, docker does
\* nothing.
CreateVolume(p) ==
  LET v == proc[p].at
  IN /\ proc[p].pc = "create"
     /\ \/ /\ volume' = [volume EXCEPT ![v] = IF @ = None THEN Empty ELSE @]
           /\ IF v \in Seeded THEN GotoPc(p, "seed") ELSE Goto(p, NextVolume(p))
        \/ /\ UNCHANGED volume
           /\ Leave(p, "over")
     /\ UNCHANGED <<host, cutOff, container, up, stranded, used>>

SeedVolume(p) ==
  /\ proc[p].pc = "seed"
  /\ volume' = [volume EXCEPT ![proc[p].at] = proc[p].tok]
  /\ used' = used \ {proc[p].at}
  /\ Goto(p, NextVolume(p))
  /\ UNCHANGED <<host, cutOff, container, up, stranded>>

SeedFails(p) ==
  /\ proc[p].pc = "seed"
  /\ GotoPc(p, "rollback")
  /\ UNCHANGED <<host, disk, container, up, stranded, used>>

\* MUTANT: no rollback when seeding fails.
KeepVolume(p) ==
  /\ proc[p].pc = "rollback"
  /\ Leave(p, "over")
  /\ UNCHANGED <<host, disk, container, up, stranded, used>>

\* The runtime refuses to remove a volume that a container mounts.
DropVolume(p) ==
  /\ proc[p].pc = "rollback"
  /\ IF container = None
       THEN /\ volume' = [volume EXCEPT ![proc[p].at] = None]
            /\ used' = used \ {proc[p].at}
       ELSE UNCHANGED <<volume, used>>
  /\ Leave(p, "over")
  /\ UNCHANGED <<host, cutOff, container, up, stranded>>

-----------------------------------------------------------------------------
(* run_sidecars: the proxies, then kubectl. *)

\* MUTANT: a sidecar is recorded after its start.
StartUnrecorded(p) ==
  LET k == proc[p].started + 1
      recorded == [proc[p] EXCEPT !.started = k]
  IN /\ proc[p].pc = "sidecars"
     /\ k <= Servers
     /\ \/ /\ Goto(p, recorded)
           /\ up' = [up EXCEPT ![p] = @ \cup {Server(k)}]
           /\ client' = IF ~proc[p].shell /\ k \in FileServers
                          THEN [client EXCEPT ![k] = p] ELSE client
        \/ /\ GotoPc(p, "stop")
           /\ \/ up' = [up EXCEPT ![p] = @ \cup {Server(k)}]
              \/ UNCHANGED up
           /\ UNCHANGED client
     /\ UNCHANGED <<tokenFile, overlapped, disk, container, stranded, used>>

\* A sidecar is recorded before it is started; it may raise before or after its
\* server is up, or its environment may clash with an earlier sidecar's.
StartServer(p) ==
  LET k == proc[p].started + 1
      recorded == [proc[p] EXCEPT !.started = k]
  IN /\ proc[p].pc = "sidecars"
     /\ k <= Servers
     /\ \/ /\ Goto(p, recorded)
           /\ up' = [up EXCEPT ![p] = @ \cup {Server(k)}]
           /\ client' = IF ~proc[p].shell /\ k \in FileServers
                          THEN [client EXCEPT ![k] = p] ELSE client
        \/ /\ Goto(p, [recorded EXCEPT !.pc = "stop"])
           /\ \/ up' = [up EXCEPT ![p] = @ \cup {Server(k)}]
              \/ UNCHANGED up
           /\ UNCHANGED client
     /\ UNCHANGED <<tokenFile, overlapped, disk, container, stranded, used>>

\* A Kubernetes sidecar without configuration starts nothing.
StartKubectl(p) ==
  /\ proc[p].pc = "sidecars"
  /\ proc[p].started = Servers
  /\ IF Contexts = 0
       THEN GotoPc(p, "run")
       ELSE Goto(p, [proc[p] EXCEPT !.pc = "context", !.started = Kubectl])
  /\ UNCHANGED <<host, disk, container, up, stranded, used>>

\* A context that fails is skipped.
NextContext(p) == [proc[p] EXCEPT !.pc = "context", !.context = @ + 1]

\* MUTANT: an off-by-one in the loop over the contexts.
StartOneTooMany(p) ==
  LET c == proc[p].context
  IN /\ proc[p].pc = "context"
     /\ c <= Contexts + 1
     /\ \/ /\ GotoPc(p, "rbac")
           /\ up' = [up EXCEPT ![p] = @ \cup {KubectlProxy(c)}]
        \/ /\ Goto(p, NextContext(p))
           /\ UNCHANGED up
     /\ UNCHANGED <<host, disk, container, stranded, used>>

StartProxyProcess(p) ==
  LET c == proc[p].context
  IN /\ proc[p].pc = "context"
     /\ c <= Contexts
     /\ \/ /\ GotoPc(p, "rbac")
           /\ up' = [up EXCEPT ![p] = @ \cup {KubectlProxy(c)}]
        \/ /\ Goto(p, NextContext(p))
           /\ UNCHANGED up
     /\ UNCHANGED <<host, disk, container, stranded, used>>

\* Without its RBAC server the process is stopped again.
StartRbacServer(p) ==
  LET c == proc[p].context
  IN /\ proc[p].pc = "rbac"
     /\ Goto(p, NextContext(p))
     /\ \/ up' = [up EXCEPT ![p] = @ \cup {RbacServer(c)}]
        \/ up' = [up EXCEPT ![p] = @ \ {KubectlProxy(c)}]
     /\ UNCHANGED <<host, disk, container, stranded, used>>

\* The contexts in _proxies.
Recorded(p) == {c \in 1..Contexts : RbacServer(c) \in up[p]}

\* MUTANT: no error when every context has failed.
WriteAnyKubeconfig(p) ==
  /\ proc[p].pc = "context"
  /\ proc[p].context > Contexts
  /\ \/ /\ Goto(p, [proc[p] EXCEPT !.pc = "run", !.context = 1])
        /\ client' = IF proc[p].shell THEN client ELSE [client EXCEPT ![Kubectl] = p]
     \/ /\ Goto(p, [proc[p] EXCEPT !.pc = "stop", !.context = 1])
        /\ UNCHANGED client
  /\ UNCHANGED <<tokenFile, overlapped, disk, container, up, stranded, used>>

WriteKubeconfig(p) ==
  /\ proc[p].pc = "context"
  /\ proc[p].context > Contexts
  /\ \/ /\ Recorded(p) # {}
        /\ Goto(p, [proc[p] EXCEPT !.pc = "run", !.context = 1])
        /\ client' = IF proc[p].shell THEN client ELSE [client EXCEPT ![Kubectl] = p]
     \/ /\ Goto(p, [proc[p] EXCEPT !.pc = "stop", !.context = 1])
        /\ UNCHANGED client
  /\ UNCHANGED <<tokenFile, overlapped, disk, container, up, stranded, used>>

-----------------------------------------------------------------------------
(* runtime.run, and the teardown. *)

\* The runtime refuses a container name that is in use.  An error in _ensure_volumes
\* ends the launch as Ctrl-C does.
Run(p) ==
  LET mounted == IF proc[p].shell THEN (1..Volumes) \ Seeded ELSE 1..Volumes
  IN /\ proc[p].pc = "run"
     /\ volume' = [v \in 1..Volumes |->
                     IF v \in mounted /\ volume[v] = None THEN Empty ELSE volume[v]]
     /\ IF ~proc[p].shell /\ container # None
          THEN GotoPc(p, "stop") /\ UNCHANGED <<container, used>>
          ELSE /\ GotoPc(p, "running")
               /\ container' = IF proc[p].shell THEN container ELSE p
               /\ used' = used \cup mounted
     /\ UNCHANGED <<host, cutOff, up, stranded>>

\* The container ends, under its hatchery process or after it.
ContainerEnds(p) ==
  /\ \/ proc[p].pc = "running" /\ GotoPc(p, "stop")
     \/ proc[p].pc = "dead" /\ container = p /\ UNCHANGED proc
  /\ container' = IF container = p THEN None ELSE container
  /\ UNCHANGED <<host, disk, up, stranded, used>>

\* What a sidecar's stop() has to stop.
Owned(p, k) ==
  IF k = Kubectl
    THEN {RbacServer(c) : c \in Recorded(p)} \cup {KubectlProxy(c) : c \in Recorded(p)}
    ELSE {Server(k)} \cap up[p]

\* In reverse order; what a raising stop() leaves up is logged.
StopSidecar(p) ==
  LET k == proc[p].started
  IN /\ proc[p].pc = "stop"
     /\ k > 0
     /\ \E failed \in SUBSET Owned(p, k) :
          /\ up' = [up EXCEPT ![p] = @ \ (Owned(p, k) \ failed)]
          /\ stranded' = [stranded EXCEPT ![p] = @ \cup failed]
     /\ Goto(p, [proc[p] EXCEPT !.started = k - 1])
     /\ UNCHANGED <<host, disk, container, used>>

EndLaunch(p) ==
  /\ proc[p].pc = "stop"
  /\ proc[p].started = 0
  /\ Leave(p, "over")
  /\ UNCHANGED <<host, disk, container, up, stranded, used>>

-----------------------------------------------------------------------------
(* Ctrl-C and kills. *)

Seeding(p) == proc[p].pc \in {"seed", "rollback"}

CutOff(p) == cutOff' = IF Seeding(p) THEN cutOff \cup {proc[p].at} ELSE cutOff

\* KeyboardInterrupt is no Exception: neither the rollback of a volume, nor the
\* teardown of one context, nor the loop that stops the sidecars catches it.  While
\* the container runs the terminal passes Ctrl-C to the agent.
Interrupt(p) ==
  /\ UnderWay(p) /\ proc[p].pc # "running"
  /\ IF proc[p].pc \in Before \cup {"stop"}
       THEN Leave(p, "over") ELSE Goto(p, [proc[p] EXCEPT !.pc = "stop", !.context = 1])
  /\ stranded' = [stranded EXCEPT ![p] =
                    CASE proc[p].pc = "rbac" -> @ \cup {KubectlProxy(proc[p].context)}
                      [] proc[p].pc = "stop" -> @ \cup up[p]
                      [] OTHER               -> @]
  /\ CutOff(p)
  /\ UNCHANGED <<host, volume, container, up, used>>

\* Its threads end with the process; its children and the container do not.
Kill(p) ==
  /\ MayKill
  /\ UnderWay(p)
  /\ Leave(p, "dead")
  /\ up' = [up EXCEPT ![p] = @ \cap {KubectlProxy(c) : c \in 1..Contexts}]
  /\ CutOff(p)
  /\ UNCHANGED <<host, volume, container, stranded, used>>

Finished ==
  /\ \A p \in Procs : proc[p].pc \in {"over", "dead"}
  /\ UNCHANGED vars

Step(p) ==
  \/ LaunchSession(p) \/ LaunchShell(p)
  \/ FindToken(p) \/ OpenTokenFile(p) \/ WriteToken(p)
  \/ PrepareSidecars(p) \/ BuildImage(p)
  \/ InspectVolume(p) \/ CreateVolume(p) \/ SeedVolume(p) \/ SeedFails(p) \/ DropVolume(p)
  \/ StartServer(p) \/ StartKubectl(p)
  \/ StartProxyProcess(p) \/ StartRbacServer(p) \/ WriteKubeconfig(p)
  \/ Run(p) \/ ContainerEnds(p) \/ StopSidecar(p) \/ EndLaunch(p)
  \/ Interrupt(p) \/ Kill(p)

Next == (\E p \in Procs : Step(p)) \/ Finished

Spec == Init /\ [][Next]_vars

-----------------------------------------------------------------------------

\* Every variable is well formed; a launch has recorded a sidecar only under
\* run_sidecars, and is past the last volume then.
TypeOK ==
  /\ tokenFile \in Token \cup {None}
  /\ volume \in [1..Volumes -> Token \cup {None, Empty}]
  /\ client \in [FileServers \cup {Kubectl} -> Procs \cup {None}]
  /\ container \in Procs \cup {None}
  /\ proc \in [Procs -> Process]
  /\ up \in [Procs -> SUBSET Units]
  /\ stranded \in [Procs -> SUBSET Units]
  /\ cutOff \subseteq Seeded
  /\ overlapped \in BOOLEAN
  /\ used \subseteq 1..Volumes

\* When a launch is over, by whatever failure or Ctrl-C, nothing that its sidecars
\* brought up is still there, but for what a failing or interrupted stop() left:
\* run_sidecars records a sidecar before it starts it and stops all it recorded,
\* KubectlSidecar.start clears away a context that came up by half.
Released == \A p \in Procs : proc[p].pc = "over" => up[p] \subseteq stranded[p]

\* While a container runs, its proxies do: sidecars start before it and stop after
\* it, and none of them goes on without its server.
Proxied ==
  \A p \in Procs : proc[p].pc = "running" =>
    /\ ServerUnits \subseteq up[p]
    /\ Contexts > 0 => \E c \in 1..Contexts : {RbacServer(c), KubectlProxy(c)} \subseteq up[p]

\* When launches do not overlap, the agent finds in its volumes and client files
\* what its own proxies accept, after any failure of an earlier launch: a volume
\* carries the session's token unless its seeding was cut off, and the client files
\* name the proxies of this launch.
AgentServed ==
  container # None /\ proc[container].pc = "running" /\ ~overlapped =>
    /\ \A v \in Seeded \ cutOff : volume[v] = proc[container].tok
    /\ \A k \in Sidecars \cap DOMAIN client : client[k] = container

\* When launches do not overlap, what agents have written to a volume stays: no later
\* launch, failed or not, seeds the volume again or removes it.
WritesKept == [][used \subseteq used' \/ overlapped']_vars

\* "drop the half-created volume so the next launch reseeds cleanly rather than
\* mounting empty state" (seeded_volumes.py): no agent runs on a volume without its
\* seed.
NoEmptyState ==
  container # None => \A v \in Seeded : volume[v] # Empty
=============================================================================
