---------------------------- MODULE LaunchProofs ----------------------------
(***************************************************************************)
(* Launch for any number of processes, volumes, proxies and contexts: what *)
(* its sidecars keep up, and what the launches of one session, one after   *)
(* the other, find (AgentServed and WritesKept).                           *)
(***************************************************************************)
EXTENDS Launch, TLAPS

\* Where a process is, and what it has recorded by then.
Placed(p) ==
  /\ proc[p].pc \in {"create", "seed", "rollback"} => proc[p].at <= Volumes
  /\ proc[p].pc \in {"seed", "rollback"} => proc[p].at \in Seeded
  /\ proc[p].pc \notin Under => proc[p].started = 0
  /\ proc[p].pc = "sidecars" => proc[p].started <= Servers
  /\ proc[p].pc \in {"context", "rbac"} => proc[p].started = Kubectl /\ Contexts # 0
  /\ proc[p].pc = "rbac" => proc[p].context <= Contexts
  /\ proc[p].pc \in {"run", "running"} =>
       proc[p].started = IF Contexts = 0 THEN Servers ELSE Kubectl

\* What is up belongs to a recorded sidecar, or is stranded.  A kubectl process
\* belongs to a recorded context except while its RBAC server starts.
Accounted(p) ==
  proc[p].pc \notin {"over", "dead"} =>
    /\ proc[p].pc \in Before \cup {"idle"} => up[p] = {} /\ stranded[p] = {}
    /\ \A k \in 1..Servers : Server(k) \in up[p] \ stranded[p] => k <= proc[p].started
    /\ \A c \in 1..Contexts :
         /\ RbacServer(c) \in up[p] \ stranded[p] => proc[p].started = Kubectl
         /\ KubectlProxy(c) \in up[p] \ stranded[p] =>
              /\ proc[p].started = Kubectl
              /\ RbacServer(c) \in up[p] \/ (proc[p].pc = "rbac" /\ proc[p].context = c)

\* Before the teardown what is recorded is up.
Standing(p) ==
  proc[p].pc \in Under \ {"stop"} =>
    /\ \A k \in 1..Servers : k <= proc[p].started => Server(k) \in up[p]
    /\ \A c \in 1..Contexts : RbacServer(c) \in up[p] => KubectlProxy(c) \in up[p]
    /\ proc[p].pc = "rbac" => KubectlProxy(proc[p].context) \in up[p]
    /\ proc[p].pc \in {"context", "rbac"} =>
         \A c \in 1..Contexts : c >= proc[p].context => RbacServer(c) \notin up[p]
    /\ stranded[p] = {}
    /\ proc[p].pc \in {"run", "running"} /\ Contexts # 0 =>
         \E c \in 1..Contexts : RbacServer(c) \in up[p]

Swept(p) == proc[p].pc = "over" => up[p] \subseteq stranded[p]

Sidecar(p) == Placed(p) /\ Accounted(p) /\ Standing(p) /\ Swept(p)

SidecarInv == TypeOK /\ \A p \in Procs : Sidecar(p)

-----------------------------------------------------------------------------
(* Lemmas about the state's parts. *)

LEMMA UnitsDiffer ==
  /\ \A k, c \in Nat : /\ Server(k) # RbacServer(c) /\ Server(k) # KubectlProxy(c)
                       /\ RbacServer(k) # KubectlProxy(c)
  /\ \A c, d \in Nat : /\ Server(c) = Server(d) => c = d
                       /\ RbacServer(c) = RbacServer(d) => c = d
                       /\ KubectlProxy(c) = KubectlProxy(d) => c = d
  /\ \A k \in 1..Servers : Server(k) \in Units
  /\ \A c \in 1..Contexts : RbacServer(c) \in Units /\ KubectlProxy(c) \in Units
BY DEF Server, RbacServer, KubectlProxy, Units, ServerUnits, KubectlUnits

\* A step of one process.
LEMMA GotoKeeps ==
  ASSUME NEW p \in Procs, NEW r, r \in Process, proc \in [Procs -> Process], Goto(p, r)
  PROVE  /\ proc' \in [Procs -> Process]
         /\ proc'[p] = r
         /\ \A q \in Procs : q # p => proc'[q] = proc[q]
BY DEF Goto

\* The records the steps go to.
Pcs == Before \cup Under \cup {"idle", "over", "dead"}

LEMMA RecordsTyped ==
  ASSUME TypeOK, NEW p \in Procs, NEW pc \in Pcs
  PROVE  /\ NewProcess \in Process
         /\ [proc[p] EXCEPT !.pc = pc] \in Process
         /\ [NewProcess EXCEPT !.pc = pc] \in Process
         /\ \A at \in 1..Volumes + 1 : [proc[p] EXCEPT !.pc = pc, !.at = at] \in Process
         /\ \A k \in 0..Kubectl : /\ [proc[p] EXCEPT !.started = k] \in Process
                                  /\ [proc[p] EXCEPT !.pc = pc, !.started = k] \in Process
         /\ \A c \in 1..Contexts + 1 : [proc[p] EXCEPT !.pc = pc, !.context = c] \in Process
<1> USE ConstantsAssumption DEF ConstantsAssumption
<1>1. proc[p] \in Process
  BY DEF TypeOK
<1>2. 1 \in 1..Volumes + 1 /\ 1 \in 1..Contexts + 1 /\ 0 \in 0..Kubectl
  BY DEF Kubectl
<1>3. NewProcess \in Process
  BY <1>2 DEF NewProcess, Process, Token
<1> QED BY <1>1, <1>3 DEF Process, Pcs

\* What they hold.
LEMMA FieldsMoved ==
  ASSUME TypeOK, NEW p \in Procs
  PROVE  /\ \A pc \in Pcs : GotoPc(p, pc) =>
              /\ proc'[p].pc = pc
              /\ proc'[p].shell = proc[p].shell
              /\ proc'[p].tok = proc[p].tok
              /\ proc'[p].at = proc[p].at
              /\ proc'[p].started = proc[p].started
              /\ proc'[p].context = proc[p].context
         /\ \A pc \in Pcs : Leave(p, pc) =>
              proc'[p].pc = pc /\ ~proc'[p].shell /\ proc'[p].started = 0
         /\ Goto(p, NextVolume(p)) =>
              /\ proc'[p].pc = "volumes"
              /\ proc'[p].shell = proc[p].shell
              /\ proc'[p].tok = proc[p].tok
              /\ proc'[p].at = proc[p].at + 1
              /\ proc'[p].started = proc[p].started
         /\ Goto(p, NextContext(p)) =>
              /\ proc'[p].pc = "context"
              /\ proc'[p].shell = proc[p].shell
              /\ proc'[p].tok = proc[p].tok
              /\ proc'[p].started = proc[p].started
              /\ proc'[p].context = proc[p].context + 1
<1>1. proc[p] \in Process
  BY DEF TypeOK
<1>2. \A x : Goto(p, x) => proc'[p] = x
  BY DEF Goto, TypeOK
<1>3. \A pc \in Pcs : GotoPc(p, pc) => proc'[p] = [proc[p] EXCEPT !.pc = pc]
  BY <1>2 DEF GotoPc
<1>4. \A pc \in Pcs : Leave(p, pc) => proc'[p] = [NewProcess EXCEPT !.pc = pc]
  BY <1>2 DEF Leave
<1>6. \A pc \in Pcs : LET r == [proc[p] EXCEPT !.pc = pc]
                      IN /\ r.pc = pc /\ r.shell = proc[p].shell /\ r.tok = proc[p].tok
                         /\ r.at = proc[p].at /\ r.started = proc[p].started
                         /\ r.context = proc[p].context
  BY <1>1 DEF Process
<1>7. \A pc \in Pcs : LET r == [NewProcess EXCEPT !.pc = pc]
                      IN r.pc = pc /\ ~r.shell /\ r.started = 0
  BY DEF NewProcess
<1>8. /\ NextVolume(p).pc = "volumes" /\ NextVolume(p).shell = proc[p].shell
      /\ NextVolume(p).tok = proc[p].tok /\ NextVolume(p).at = proc[p].at + 1
      /\ NextVolume(p).started = proc[p].started
  BY <1>1 DEF Process, NextVolume
<1>9. /\ NextContext(p).pc = "context" /\ NextContext(p).shell = proc[p].shell
      /\ NextContext(p).tok = proc[p].tok /\ NextContext(p).started = proc[p].started
      /\ NextContext(p).context = proc[p].context + 1
  BY <1>1 DEF Process, NextContext
<1> QED BY <1>2, <1>3, <1>4, <1>6, <1>7, <1>8, <1>9

\* A step of p leaves the other processes and their sidecars alone.
Local(p) ==
  /\ proc' \in [Procs -> Process]
  /\ up' \in [Procs -> SUBSET Units]
  /\ stranded' \in [Procs -> SUBSET Units]
  /\ \A q \in Procs : q # p =>
       proc'[q] = proc[q] /\ up'[q] = up[q] /\ stranded'[q] = stranded[q]

LEMMA GotoLocal ==
  ASSUME TypeOK, NEW p \in Procs, NEW r, r \in Process, Goto(p, r),
         UNCHANGED <<up, stranded>>
  PROVE  Local(p)
BY GotoKeeps DEF Local, TypeOK

LEMMA PcLocal ==
  ASSUME TypeOK, NEW p \in Procs, NEW pc \in Pcs,
         GotoPc(p, pc) \/ Leave(p, pc), UNCHANGED <<up, stranded>>
  PROVE  Local(p)
BY RecordsTyped, GotoLocal DEF GotoPc, Leave

LEMMA StepLocal ==
  ASSUME TypeOK, NEW p \in Procs, Placed(p), Step(p)
  PROVE  Local(p)
<1> USE ConstantsAssumption DEF ConstantsAssumption
<1> DEFINE r == proc[p]
<1>r. r \in Process
  BY DEF TypeOK
<1>n. /\ r.at <= Volumes => NextVolume(p) \in Process
      /\ r.context <= Contexts => NextContext(p) \in Process
  <2>1. /\ r.at <= Volumes => r.at + 1 \in 1..Volumes + 1
        /\ r.context <= Contexts => r.context + 1 \in 1..Contexts + 1
    BY <1>r DEF Process
  <2> QED BY <2>1, RecordsTyped DEF NextVolume, NextContext, Pcs, Before, Under
<1>1. CASE LaunchSession(p)
  BY <1>1, PcLocal DEF Pcs, LaunchSession, Before
<1>2. CASE LaunchShell(p)
  <2>1. [r EXCEPT !.pc = "prepare", !.shell = TRUE, !.tok = p] \in Process
    BY <1>r DEF Process, Before, Token
  <2> QED BY <1>2, <2>1, GotoLocal DEF LaunchShell
<1>3. CASE FindToken(p)
  <2>1. \A t \in Token : [r EXCEPT !.pc = "prepare", !.tok = t] \in Process
    BY <1>r DEF Process, Before
  <2>2. tokenFile # None => tokenFile \in Token
    BY DEF TypeOK
  <2> QED BY <1>3, <2>1, <2>2, GotoLocal, PcLocal DEF Pcs, FindToken, Before
<1>4. CASE OpenTokenFile(p)
  BY <1>4, PcLocal DEF Pcs, OpenTokenFile, Before
<1>5. CASE WriteToken(p)
  <2>1. [r EXCEPT !.pc = "prepare", !.tok = p] \in Process
    BY <1>r DEF Process, Before, Token
  <2> QED BY <1>5, <2>1, GotoLocal DEF WriteToken
<1>6. CASE PrepareSidecars(p)
  BY <1>6, PcLocal DEF Pcs, PrepareSidecars, Before
<1>7. CASE BuildImage(p)
  BY <1>7, PcLocal DEF Pcs, BuildImage, Before, Under
<1>8. CASE InspectVolume(p)
  <2>1. [r EXCEPT !.pc = "sidecars", !.at = 1] \in Process
    BY 1 \in 1..Volumes + 1, RecordsTyped DEF Pcs, Under
  <2>2. r.at \in Nat
    BY <1>r DEF Process
  <2> QED BY <1>8, <1>n, <2>1, <2>2, GotoLocal, PcLocal DEF Pcs, InspectVolume, Before
<1>9. CASE CreateVolume(p)
  BY <1>9, <1>n, GotoLocal, PcLocal DEF Pcs, CreateVolume, Before, Placed
<1>10. CASE SeedVolume(p)
  BY <1>10, <1>n, GotoLocal DEF SeedVolume, Placed
<1>11. CASE SeedFails(p)
  BY <1>11, PcLocal DEF Pcs, SeedFails, Before
<1>12. CASE DropVolume(p)
  BY <1>12, PcLocal DEF Pcs, DropVolume
<1>13. CASE StartServer(p)
  <2> DEFINE k == r.started + 1
             recorded == [r EXCEPT !.started = k]
  <2>1. k <= Servers /\ k \in 1..Servers
    BY <1>13, <1>r DEF StartServer, Process
  <2>2. recorded \in Process /\ [recorded EXCEPT !.pc = "stop"] \in Process
    <3>1. k \in 0..Kubectl
      BY <2>1 DEF Kubectl
    <3>2. recorded \in Process
      BY <3>1, RecordsTyped DEF Pcs
    <3> HIDE DEF recorded
    <3> QED BY <3>2 DEF Process, Under
  <2>3. proc' = [proc EXCEPT ![p] = recorded]
          \/ proc' = [proc EXCEPT ![p] = [recorded EXCEPT !.pc = "stop"]]
    BY <1>13 DEF StartServer, Goto
  <2>4. up' = [up EXCEPT ![p] = @ \cup {Server(k)}] \/ up' = up
    BY <1>13 DEF StartServer
  <2> HIDE DEF recorded
  <2> QED BY <1>13, <2>1, <2>2, <2>3, <2>4, UnitsDiffer DEF StartServer, Local, TypeOK
<1>14. CASE StartKubectl(p)
  <2>1. [r EXCEPT !.pc = "context", !.started = Kubectl] \in Process
    BY Kubectl \in 0..Kubectl, RecordsTyped DEF Pcs, Under, Kubectl
  <2> QED BY <1>14, <2>1, GotoLocal, PcLocal DEF Pcs, StartKubectl, Under
<1>15. CASE StartProxyProcess(p)
  <2> DEFINE c == r.context
  <2>1. c \in 1..Contexts
    BY <1>15, <1>r DEF StartProxyProcess, Process
  <2>2. /\ \/ Goto(p, [r EXCEPT !.pc = "rbac"]) \/ Goto(p, NextContext(p))
        /\ up' = [up EXCEPT ![p] = @ \cup {KubectlProxy(c)}] \/ up' = up
        /\ stranded' = stranded
    BY <1>15 DEF StartProxyProcess, GotoPc
  <2>3. [r EXCEPT !.pc = "rbac"] \in Process
    BY RecordsTyped DEF Pcs, Under
  <2> QED BY <1>n, <2>1, <2>2, <2>3, GotoKeeps, UnitsDiffer DEF Local, TypeOK
<1>16. CASE StartRbacServer(p)
  <2> DEFINE c == r.context
  <2>1. c \in 1..Contexts
    BY <1>16, <1>r DEF StartRbacServer, Process, Placed
  <2>2. /\ Goto(p, NextContext(p))
        /\ \/ up' = [up EXCEPT ![p] = @ \cup {RbacServer(c)}]
           \/ up' = [up EXCEPT ![p] = @ \ {KubectlProxy(c)}]
        /\ stranded' = stranded
    BY <1>16 DEF StartRbacServer
  <2> QED BY <1>n, <2>1, <2>2, GotoKeeps, UnitsDiffer DEF Local, TypeOK
<1>17. CASE WriteKubeconfig(p)
  <2>1. \A pc \in {"run", "stop"} : [r EXCEPT !.pc = pc, !.context = 1] \in Process
    BY 1 \in 1..Contexts + 1, RecordsTyped DEF Pcs, Under
  <2> QED BY <1>17, <2>1, GotoLocal DEF WriteKubeconfig
<1>18. CASE Run(p)
  BY <1>18, PcLocal DEF Pcs, Run, Under
<1>19. CASE ContainerEnds(p)
  <2>1. CASE UNCHANGED proc
    BY <1>19, <2>1 DEF ContainerEnds, Local, TypeOK
  <2> QED BY <1>19, <2>1, PcLocal DEF Pcs, ContainerEnds, Under
<1>20. CASE StopSidecar(p)
  <2> DEFINE k == r.started
  <2>1. PICK failed \in SUBSET Owned(p, k) :
          /\ up' = [up EXCEPT ![p] = @ \ (Owned(p, k) \ failed)]
          /\ stranded' = [stranded EXCEPT ![p] = @ \cup failed]
    BY <1>20 DEF StopSidecar
  <2>2. Owned(p, k) \subseteq Units
    BY UnitsDiffer DEF Owned, Recorded, TypeOK
  <2>3. [r EXCEPT !.started = k - 1] \in Process
    <3>1. k - 1 \in 0..Kubectl
      BY <1>20, <1>r DEF StopSidecar, Process, Kubectl
    <3> QED BY <3>1, RecordsTyped DEF Pcs
  <2> QED BY <1>20, <2>1, <2>2, <2>3, GotoKeeps DEF StopSidecar, Local, TypeOK
<1>21. CASE EndLaunch(p)
  BY <1>21, PcLocal DEF Pcs, EndLaunch
<1>22. CASE Interrupt(p)
  <2>1. [r EXCEPT !.pc = "stop", !.context = 1] \in Process
    BY 1 \in 1..Contexts + 1, RecordsTyped DEF Pcs, Under
  <2>2. [NewProcess EXCEPT !.pc = "over"] \in Process
    BY RecordsTyped DEF Pcs
  <2>3. r.pc = "rbac" => KubectlProxy(r.context) \in Units
    BY <1>r, UnitsDiffer DEF Placed, Process
  <2>4. /\ Goto(p, [NewProcess EXCEPT !.pc = "over"])
             \/ Goto(p, [r EXCEPT !.pc = "stop", !.context = 1])
        /\ \/ r.pc = "rbac" /\ stranded' = [stranded EXCEPT ![p] = @ \cup {KubectlProxy(r.context)}]
           \/ stranded' = [stranded EXCEPT ![p] = @ \cup up[p]]
           \/ stranded' = [stranded EXCEPT ![p] = @]
        /\ up' = up
    BY <1>22 DEF Interrupt, Leave
  <2> QED BY <2>1, <2>2, <2>3, <2>4, GotoKeeps DEF Local, TypeOK
<1>23. CASE Kill(p)
  <2>1. [NewProcess EXCEPT !.pc = "dead"] \in Process
    BY RecordsTyped DEF Pcs
  <2> QED BY <1>23, <2>1, GotoKeeps DEF Kill, Leave, Local, TypeOK
<1> QED BY <1>1, <1>2, <1>3, <1>4, <1>5, <1>6, <1>7, <1>8, <1>9, <1>10, <1>11, <1>12,
           <1>13, <1>14, <1>15, <1>16, <1>17, <1>18, <1>19, <1>20, <1>21, <1>22, <1>23 DEF Step

LEMMA TypeStep ==
  ASSUME TypeOK, NEW p \in Procs, Placed(p), Step(p)
  PROVE  TypeOK'
<1> USE ConstantsAssumption DEF ConstantsAssumption
<1>1. Local(p)
  BY StepLocal
<1> USE DEF LaunchSession, LaunchShell, FindToken, OpenTokenFile, WriteToken, PrepareSidecars,
            BuildImage, InspectVolume, CreateVolume, SeedVolume, SeedFails, DropVolume,
            StartServer, StartKubectl, StartProxyProcess, StartRbacServer, WriteKubeconfig,
            Run, ContainerEnds, StopSidecar, EndLaunch, Interrupt, Kill
<1>2. tokenFile' \in Token \cup {None}
  BY DEF Step, TypeOK, Token, host
<1>3. overlapped' \in BOOLEAN
  BY DEF Step, TypeOK, host
<1>4. volume' \in [1..Volumes -> Token \cup {None, Empty}]
  <2>1. proc[p].tok \in Token
    BY DEF TypeOK, Process
  <2> QED BY <2>1 DEF Step, TypeOK, disk
<1>5. client' \in [FileServers \cup {Kubectl} -> Procs \cup {None}]
  BY DEF Step, TypeOK, host
<1>6. container' \in Procs \cup {None} /\ used' \subseteq 1..Volumes
  BY DEF Step, TypeOK
<1>7. cutOff' \subseteq Seeded
  BY DEF Step, TypeOK, disk, CutOff, Seeding, Placed
<1> QED BY <1>1, <1>2, <1>3, <1>4, <1>5, <1>6, <1>7 DEF TypeOK, Local

-----------------------------------------------------------------------------
(* The sidecars of one process. *)

LEMMA OthersKeep ==
  ASSUME NEW p \in Procs, Local(p), NEW q \in Procs, q # p, Sidecar(q)
  PROVE  Sidecar(q)'
BY DEF Local, Sidecar, Placed, Accounted, Standing, Swept

\* Before run_sidecars nothing is up.
LEMMA BeforeStep ==
  ASSUME TypeOK, NEW p \in Procs, Sidecar(p), proc[p].pc \in Before \cup {"idle"}, Step(p)
  PROVE  Sidecar(p)'
<1> USE ConstantsAssumption DEF ConstantsAssumption
<1> DEFINE r == proc[p]
<1>r. r \in Process
  BY DEF TypeOK
<1>1. r.started = 0 /\ up[p] = {} /\ stranded[p] = {}
  BY DEF Sidecar, Placed, Accounted, Before, Under
<1>2. up'[p] = {} /\ stranded'[p] = {}
  BY <1>1 DEF Step, TypeOK, Before, LaunchSession, LaunchShell, FindToken, OpenTokenFile, WriteToken, PrepareSidecars,
         BuildImage, InspectVolume, CreateVolume, SeedVolume, SeedFails, DropVolume,
         StartServer, StartKubectl, StartProxyProcess, StartRbacServer, WriteKubeconfig,
         Run, ContainerEnds, StopSidecar, EndLaunch, Interrupt, Kill
<1>3. /\ proc'[p].started = 0
      /\ proc'[p].pc \in Before \cup {"over", "dead", "sidecars"}
      /\ proc'[p].pc \in {"create", "seed", "rollback"} => proc'[p].at <= Volumes
      /\ proc'[p].pc \in {"seed", "rollback"} => proc'[p].at \in Seeded
  <2> USE <1>r, <1>1, FieldsMoved DEF Before, Under, Pcs
  <2>1. CASE LaunchSession(p)
    BY <2>1 DEF LaunchSession
  <2>2. CASE LaunchShell(p)
    BY <2>2 DEF LaunchShell, Goto, TypeOK, Process
  <2>3. CASE FindToken(p)
    <3>1. Goto(p, [r EXCEPT !.pc = "prepare", !.tok = tokenFile]) =>
            proc'[p].pc = "prepare" /\ proc'[p].started = 0
      BY DEF Goto, TypeOK, Process
    <3> QED BY <2>3, <3>1 DEF FindToken
  <2>4. CASE OpenTokenFile(p)
    BY <2>4 DEF OpenTokenFile
  <2>5. CASE WriteToken(p)
    BY <2>5 DEF WriteToken, Goto, TypeOK, Process
  <2>6. CASE PrepareSidecars(p) \/ BuildImage(p)
    BY <2>6 DEF PrepareSidecars, BuildImage
  <2>7. CASE InspectVolume(p)
    <3>1. Goto(p, [r EXCEPT !.pc = "sidecars", !.at = 1]) =>
            proc'[p].pc = "sidecars" /\ proc'[p].started = 0
      BY DEF Goto, TypeOK, Process
    <3>2. r.at \in Nat
      BY DEF Process
    <3>3. \/ Goto(p, [r EXCEPT !.pc = "sidecars", !.at = 1])
          \/ Goto(p, NextVolume(p))
          \/ GotoPc(p, "create") /\ r.at <= Volumes
      BY <2>7, <3>2 DEF InspectVolume
    <3> QED BY <3>1, <3>3
  <2>8. CASE CreateVolume(p)
    BY <2>8 DEF CreateVolume, Sidecar, Placed
  <2>9. CASE SeedVolume(p)
    BY <2>9 DEF SeedVolume
  <2>10. CASE SeedFails(p)
    BY <2>10 DEF SeedFails, Sidecar, Placed
  <2>11. CASE DropVolume(p)
    BY <2>11 DEF DropVolume
  <2>12. CASE Interrupt(p) \/ Kill(p)
    BY <2>12 DEF Interrupt, Kill, UnderWay
  <2> QED BY <2>1, <2>2, <2>3, <2>4, <2>5, <2>6, <2>7, <2>8, <2>9, <2>10, <2>11, <2>12
          DEF Step, StartServer, StartKubectl, StartProxyProcess, StartRbacServer,
              WriteKubeconfig, Run, ContainerEnds, StopSidecar, EndLaunch
<1> QED BY <1>2, <1>3 DEF Sidecar, Placed, Accounted, Standing, Swept, Before, Under

\* Under run_sidecars.
LEMMA UnderStep ==
  ASSUME TypeOK, NEW p \in Procs, Sidecar(p), proc[p].pc \in Under, Step(p), Local(p)
  PROVE  Sidecar(p)'
<1> USE ConstantsAssumption DEF ConstantsAssumption
<1> DEFINE r == proc[p]
<1>r. r \in Process
  BY DEF TypeOK
<1>1. CASE StartServer(p)
  <2> DEFINE k == r.started + 1
  <2>1. /\ r.pc = "sidecars" /\ k \in 1..Servers
        /\ r.started <= Servers
    BY <1>1, <1>r DEF StartServer, Process, Sidecar, Placed
  <2>2. /\ proc'[p].started = k
        /\ \/ proc'[p].pc = "sidecars" /\ up'[p] = up[p] \cup {Server(k)}
           \/ proc'[p].pc = "stop" /\ up'[p] \in {up[p], up[p] \cup {Server(k)}}
        /\ stranded' = stranded
    <3>1. Goto(p, [r EXCEPT !.started = k]) => proc'[p].started = k /\ proc'[p].pc = r.pc
      BY <1>r DEF Goto, TypeOK, Process
    <3>2. Goto(p, [[r EXCEPT !.started = k] EXCEPT !.pc = "stop"]) =>
            proc'[p].started = k /\ proc'[p].pc = "stop"
      BY <1>r DEF Goto, TypeOK, Process
    <3>3. /\ \/ /\ Goto(p, [r EXCEPT !.started = k])
                /\ up' = [up EXCEPT ![p] = @ \cup {Server(k)}]
             \/ /\ Goto(p, [[r EXCEPT !.started = k] EXCEPT !.pc = "stop"])
                /\ \/ up' = [up EXCEPT ![p] = @ \cup {Server(k)}]
                   \/ up' = up
          /\ stranded' = stranded
      BY <1>1 DEF StartServer
    <3>4. up' = [up EXCEPT ![p] = @ \cup {Server(k)}] => up'[p] = up[p] \cup {Server(k)}
      BY DEF TypeOK
    <3> QED BY <2>1, <3>1, <3>2, <3>3, <3>4
  <2>3. Kubectl # r.started /\ k \in Nat /\ \A j \in 1..Servers : j <= k => j = k \/ j <= r.started
    BY <2>1, <1>r DEF Kubectl, Process
  <2>4. Placed(p)'
    BY <2>1, <2>2 DEF Placed, Under
  <2>5. Accounted(p)'
    <3>1. \A c \in 1..Contexts : RbacServer(c) \notin up[p] /\ KubectlProxy(c) \notin up[p]
      BY <2>1, <2>3 DEF Accounted, Standing, Sidecar, Under
    <3>2. \A c \in 1..Contexts : RbacServer(c) \notin up'[p] /\ KubectlProxy(c) \notin up'[p]
      BY <2>2, <2>3, <3>1, UnitsDiffer
    <3>3. \A j \in 1..Servers : Server(j) \in up'[p] \ stranded'[p] => j <= k
      <4>1. \A j \in 1..Servers : Server(j) \in up[p] \ stranded[p] => j <= k
        BY <2>1, <1>r DEF Accounted, Sidecar, Process
      <4>2. \A j \in 1..Servers : Server(j) = Server(k) => j <= k
        BY <2>1, UnitsDiffer
      <4> QED BY <2>2, <4>1, <4>2
    <3> QED BY <2>2, <3>2, <3>3 DEF Accounted, Before
  <2>6. Standing(p)'
    BY <2>1, <2>2, <2>3, UnitsDiffer DEF Standing, Sidecar, Under
  <2> QED BY <2>2, <2>4, <2>5, <2>6 DEF Sidecar, Swept
<1>2. CASE StartKubectl(p)
  <2>1. /\ r.pc = "sidecars" /\ r.started = Servers
        /\ \/ Contexts = 0 /\ proc'[p].pc = "run" /\ proc'[p].started = Servers
           \/ Contexts # 0 /\ proc'[p].pc = "context" /\ proc'[p].started = Kubectl
        /\ up' = up /\ stranded' = stranded
    <3>1. Goto(p, [r EXCEPT !.pc = "context", !.started = Kubectl]) =>
            proc'[p].pc = "context" /\ proc'[p].started = Kubectl
      BY <1>r DEF Goto, TypeOK, Process
    <3> QED BY <1>2, <3>1, FieldsMoved DEF StartKubectl, Pcs, Under
  <2>2. Kubectl # Servers /\ \A k \in 1..Servers : k <= Servers /\ k <= Kubectl
    BY DEF Kubectl
  <2>3. Placed(p)'
    BY <2>1, <2>2 DEF Placed, Under
  <2>4. \A c \in 1..Contexts : RbacServer(c) \notin up[p] /\ KubectlProxy(c) \notin up[p]
    BY <2>1, <2>2 DEF Sidecar, Accounted, Standing, Under
  <2>5. Accounted(p)'
    BY <2>1, <2>2, <2>4 DEF Accounted, Before
  <2>6. Standing(p)'
    BY <2>1, <2>2, <2>4 DEF Standing, Sidecar, Under
  <2> QED BY <2>1, <2>3, <2>5, <2>6 DEF Sidecar, Swept
<1>3. CASE StartProxyProcess(p)
  <2> DEFINE c == r.context
  <2>1. /\ r.pc = "context" /\ c \in 1..Contexts
        /\ r.started = Kubectl /\ Contexts # 0
        /\ proc'[p].started = Kubectl
        /\ \/ /\ proc'[p].pc = "rbac" /\ proc'[p].context = c
              /\ up'[p] = up[p] \cup {KubectlProxy(c)}
           \/ /\ proc'[p].pc = "context" /\ proc'[p].context = c + 1
              /\ up'[p] = up[p]
        /\ stranded' = stranded
    <3>1. c \in 1..Contexts /\ r.started = Kubectl /\ Contexts # 0
      BY <1>3, <1>r DEF StartProxyProcess, Sidecar, Placed, Process
    <3>2. /\ r.pc = "context" /\ stranded' = stranded
          /\ \/ GotoPc(p, "rbac") /\ up' = [up EXCEPT ![p] = @ \cup {KubectlProxy(c)}]
             \/ Goto(p, NextContext(p)) /\ up' = up
      BY <1>3 DEF StartProxyProcess
    <3> QED BY <3>1, <3>2, FieldsMoved DEF Pcs, Under, TypeOK
  <2>2. Placed(p)'
    BY <2>1 DEF Placed, Under
  <2>3. Accounted(p)'
    BY <2>1, UnitsDiffer DEF Accounted, Sidecar, Before
  <2>4. \A d \in 1..Contexts : d >= c + 1 => d >= c
    BY <2>1
  <2>5. Standing(p)'
    BY <2>1, <2>4, UnitsDiffer DEF Standing, Sidecar, Under
  <2> QED BY <2>1, <2>2, <2>3, <2>5 DEF Sidecar, Swept
<1>4. CASE StartRbacServer(p)
  <2> DEFINE c == r.context
  <2>1. /\ r.pc = "rbac" /\ c \in 1..Contexts
        /\ r.started = Kubectl /\ Contexts # 0
        /\ proc'[p].started = Kubectl
        /\ proc'[p].pc = "context" /\ proc'[p].context = c + 1
        /\ \/ up'[p] = up[p] \cup {RbacServer(c)}
           \/ up'[p] = up[p] \ {KubectlProxy(c)}
        /\ stranded' = stranded
    BY <1>4, <1>r DEF StartRbacServer, NextContext, Goto, Process, TypeOK, Sidecar, Placed
  <2>2. Placed(p)'
    BY <2>1 DEF Placed, Under
  <2>3. Accounted(p)'
    BY <2>1, UnitsDiffer DEF Accounted, Sidecar, Before
  <2>4. \A d \in 1..Contexts : d >= c + 1 => d >= c /\ d # c
    BY <2>1
  <2>5. RbacServer(c) \notin up[p] /\ KubectlProxy(c) \in up[p] /\ stranded[p] = {}
    BY <2>1 DEF Standing, Sidecar, Under
  <2>6. Standing(p)'
    BY <2>1, <2>4, <2>5, UnitsDiffer DEF Standing, Sidecar, Under
  <2> QED BY <2>1, <2>2, <2>3, <2>6 DEF Sidecar, Swept
<1>5. CASE WriteKubeconfig(p) \/ Run(p) \/ ContainerEnds(p)
  <2>1. /\ up' = up /\ stranded' = stranded
        /\ proc'[p].started = r.started
        /\ r.pc \in {"context", "run", "running"}
        /\ \/ proc'[p].pc = "stop"
           \/ r.pc = "context" /\ proc'[p].pc = "run" /\ Recorded(p) # {}
           \/ r.pc = "run" /\ proc'[p].pc = "running"
    <3>1. \A pc \in {"run", "stop"} : Goto(p, [r EXCEPT !.pc = pc, !.context = 1]) =>
            proc'[p].pc = pc /\ proc'[p].started = r.started
      BY <1>r DEF Goto, TypeOK, Process
    <3>2. CASE WriteKubeconfig(p)
      BY <3>1, <3>2 DEF WriteKubeconfig
    <3>3. CASE Run(p) \/ ContainerEnds(p)
      BY <3>3, FieldsMoved DEF Run, ContainerEnds, Pcs, Under
    <3> QED BY <1>5, <3>2, <3>3
  <2>2. Placed(p)'
    BY <2>1 DEF Placed, Under, Sidecar
  <2>3. Accounted(p)'
    BY <2>1 DEF Accounted, Sidecar, Before
  <2>4. Standing(p)'
    BY <2>1 DEF Standing, Sidecar, Under, Recorded
  <2> QED BY <2>1, <2>2, <2>3, <2>4 DEF Sidecar, Swept
<1>6. CASE StopSidecar(p)
  <2> DEFINE k == r.started
             owned == Owned(p, k)
  <2>1. PICK failed \in SUBSET owned :
          /\ up'[p] = up[p] \ (owned \ failed)
          /\ stranded'[p] = stranded[p] \cup failed
    BY <1>6 DEF StopSidecar, TypeOK
  <2>2. /\ r.pc = "stop" /\ k \in 1..Kubectl
        /\ proc'[p].pc = "stop" /\ proc'[p].started = k - 1
    BY <1>6, <1>r DEF StopSidecar, Goto, Process, TypeOK, Kubectl
  <2>3. \A x \in up'[p] \ stranded'[p] : x \in up[p] \ stranded[p] /\ x \notin owned
    BY <2>1
  <2>4. k - 1 # Kubectl /\ \A j \in 1..Servers : j <= k /\ j # k => j <= k - 1
    BY <2>2 DEF Kubectl
  <2>5. \A j \in 1..Servers : Server(j) \in up'[p] \ stranded'[p] => j <= k - 1
    <3> SUFFICES ASSUME NEW j \in 1..Servers, Server(j) \in up'[p] \ stranded'[p]
                 PROVE  j <= k - 1
      OBVIOUS
    <3>1. j <= k
      BY <2>2, <2>3 DEF Sidecar, Accounted
    <3>2. j = k => Server(j) \in owned
      BY <2>3 DEF Owned, Kubectl
    <3> HIDE DEF owned
    <3> QED BY <2>3, <2>4, <3>1, <3>2
  <2>6. \A c \in 1..Contexts : /\ RbacServer(c) \notin up'[p] \ stranded'[p]
                               /\ KubectlProxy(c) \notin up'[p] \ stranded'[p]
    <3> SUFFICES ASSUME NEW c \in 1..Contexts,
                        RbacServer(c) \in up'[p] \ stranded'[p]
                          \/ KubectlProxy(c) \in up'[p] \ stranded'[p]
                 PROVE  FALSE
      OBVIOUS
    <3>1. k = Kubectl /\ RbacServer(c) \in up[p]
      BY <2>2, <2>3 DEF Sidecar, Accounted
    <3>2. RbacServer(c) \in owned /\ KubectlProxy(c) \in owned
      BY <3>1 DEF Owned, Recorded
    <3> HIDE DEF owned
    <3> QED BY <2>3, <3>2
  <2>7. Accounted(p)'
    BY <2>2, <2>5, <2>6 DEF Accounted, Before
  <2> QED BY <2>2, <2>7 DEF Sidecar, Placed, Standing, Swept, Under
<1>7. CASE EndLaunch(p)
  <2>1. /\ r.pc = "stop" /\ r.started = 0
        /\ proc'[p].pc = "over" /\ proc'[p].started = 0
        /\ up' = up /\ stranded' = stranded
    BY <1>7, <1>r DEF EndLaunch, Leave, Goto, NewProcess, TypeOK
  <2>2. \A x \in Units : x \notin up[p] \ stranded[p]
    BY <2>1 DEF Sidecar, Accounted, Units, ServerUnits, KubectlUnits, Kubectl
  <2>3. up[p] \subseteq stranded[p]
    BY <2>2 DEF TypeOK
  <2> QED BY <2>1, <2>3 DEF Sidecar, Placed, Accounted, Standing, Swept, Under
<1>8. CASE Interrupt(p)
  <2>1. CASE r.pc = "stop"
    <3>1. /\ proc'[p].pc = "over" /\ proc'[p].started = 0
          /\ up' = up /\ stranded'[p] = stranded[p] \cup up[p]
      BY <1>8, <2>1 DEF Interrupt, Leave, Goto, NewProcess, TypeOK
    <3> QED BY <3>1 DEF Sidecar, Placed, Accounted, Standing, Swept, Under
  <2>2. CASE r.pc # "stop"
    <3>1. /\ proc'[p].pc = "stop" /\ proc'[p].started = r.started
          /\ up' = up
          /\ \/ r.pc # "rbac" /\ stranded'[p] = stranded[p]
             \/ r.pc = "rbac" /\ stranded'[p] = stranded[p] \cup {KubectlProxy(r.context)}
      <4>1. Goto(p, [r EXCEPT !.pc = "stop", !.context = 1]) =>
              proc'[p].pc = "stop" /\ proc'[p].started = r.started
        BY <1>r DEF Goto, TypeOK, Process
      <4>2. /\ Goto(p, [r EXCEPT !.pc = "stop", !.context = 1]) /\ up' = up
            /\ \/ r.pc # "rbac" /\ stranded' = [stranded EXCEPT ![p] = @]
               \/ r.pc = "rbac"
                    /\ stranded' = [stranded EXCEPT ![p] = @ \cup {KubectlProxy(r.context)}]
        BY <1>8, <2>2 DEF Interrupt, Under, Before
      <4> QED BY <4>1, <4>2 DEF TypeOK
    <3>2. Accounted(p)'
      <4>1. CASE r.pc # "rbac"
        BY <3>1, <4>1 DEF Accounted, Sidecar, Before, Under
      <4>2. CASE r.pc = "rbac"
        <5>1. \A c \in 1..Contexts : c = r.context => KubectlProxy(c) \in stranded'[p]
          BY <3>1, <4>2
        <5> QED BY <3>1, <4>2, <5>1 DEF Accounted, Sidecar, Before
      <4> QED BY <4>1, <4>2
    <3> QED BY <3>1, <3>2 DEF Sidecar, Placed, Standing, Swept, Under
  <2> QED BY <2>1, <2>2
<1>9. CASE Kill(p)
  <2>1. proc'[p].pc = "dead" /\ proc'[p].started = 0
    BY <1>9 DEF Kill, Leave, Goto, NewProcess, TypeOK
  <2> QED BY <2>1 DEF Sidecar, Placed, Accounted, Standing, Swept, Under
<1> QED BY <1>1, <1>2, <1>3, <1>4, <1>5, <1>6, <1>7, <1>8, <1>9
        DEF Step, Under, LaunchSession, LaunchShell, FindToken, OpenTokenFile, WriteToken,
            PrepareSidecars, BuildImage, InspectVolume, CreateVolume, SeedVolume, SeedFails,
            DropVolume

LEMMA SidecarStep ==
  ASSUME SidecarInv, NEW p \in Procs, Step(p)
  PROVE  SidecarInv'
<1>1. Placed(p) /\ TypeOK /\ Sidecar(p)
  BY DEF SidecarInv, Sidecar
<1>2. Local(p) /\ TypeOK'
  BY <1>1, StepLocal, TypeStep
<1>3. \A q \in Procs : q # p => Sidecar(q)'
  BY <1>2, OthersKeep DEF SidecarInv
<1>4. Sidecar(p)'
  <2>1. CASE proc[p].pc \in Before \cup {"idle"}
    BY <1>1, <2>1, BeforeStep
  <2>2. CASE proc[p].pc \in Under
    BY <1>1, <1>2, <2>2, UnderStep
  <2>3. CASE proc[p].pc \in {"over", "dead"}
    <3>1. up' = up /\ stranded' = stranded /\ proc' = proc
      BY <2>3 DEF Step, Before, Under, UnderWay,
         LaunchSession, LaunchShell, FindToken, OpenTokenFile, WriteToken, PrepareSidecars,
         BuildImage, InspectVolume, CreateVolume, SeedVolume, SeedFails, DropVolume,
         StartServer, StartKubectl, StartProxyProcess, StartRbacServer, WriteKubeconfig,
         Run, ContainerEnds, StopSidecar, EndLaunch, Interrupt, Kill
    <3> QED BY <1>1, <3>1 DEF Sidecar, Placed, Accounted, Standing, Swept
  <2>4. proc[p].pc \in Pcs
    BY <1>1 DEF TypeOK, Process, Pcs
  <2> QED BY <2>1, <2>2, <2>3, <2>4 DEF Pcs
<1> QED BY <1>2, <1>3, <1>4 DEF SidecarInv

LEMMA SidecarInit == Init => SidecarInv
<1> SUFFICES ASSUME Init PROVE SidecarInv
  OBVIOUS
<1> USE ConstantsAssumption DEF ConstantsAssumption
<1>1. NewProcess \in Process
  <2>1. 1 \in 1..Volumes + 1 /\ 1 \in 1..Contexts + 1 /\ 0 \in 0..Kubectl
    BY DEF Kubectl
  <2> QED BY <2>1 DEF NewProcess, Process, Token
<1>2. TypeOK
  BY <1>1 DEF Init, TypeOK
<1>3. \A p \in Procs : /\ proc[p].pc = "idle" /\ proc[p].started = 0
                       /\ up[p] = {} /\ stranded[p] = {}
  BY DEF Init, NewProcess
<1> QED BY <1>2, <1>3 DEF SidecarInv, Sidecar, Placed, Accounted, Standing, Swept, Under

THEOREM Invariance == Spec => []SidecarInv
<1>1. SidecarInv /\ [Next]_vars => SidecarInv'
  <2> SUFFICES ASSUME SidecarInv, [Next]_vars PROVE SidecarInv'
    OBVIOUS
  <2>1. CASE UNCHANGED vars
    BY <2>1 DEF vars, host, disk, SidecarInv, TypeOK, Sidecar, Placed, Accounted, Standing, Swept
  <2>2. CASE \E p \in Procs : Step(p)
    BY <2>2, SidecarStep
  <2> QED BY <2>1, <2>2 DEF Next, Finished
<1> QED BY <1>1, SidecarInit, PTL DEF Spec

\* Every variable is well formed, for any number of processes, volumes and sidecars:
\* a launch follows the code's order of steps.
THEOREM TypeCorrect == Spec => []TypeOK
<1>1. SidecarInv => TypeOK
  BY DEF SidecarInv
<1> QED BY <1>1, Invariance, PTL

\* Whatever fails or is interrupted, run_sidecars and KubectlSidecar leave nothing up
\* but what a failing or interrupted stop() has left.
THEOREM ReleasedHolds == Spec => []Released
<1>1. SidecarInv => Released
  BY DEF SidecarInv, Sidecar, Swept, Released
<1> QED BY <1>1, Invariance, PTL

\* A container that runs under its hatchery process has all its proxies.
THEOREM ProxiedHolds == Spec => []Proxied
<1>1. SidecarInv => Proxied
  <2> SUFFICES ASSUME SidecarInv, NEW p \in Procs, proc[p].pc = "running"
               PROVE  /\ ServerUnits \subseteq up[p]
                      /\ Contexts > 0 =>
                           \E c \in 1..Contexts : {RbacServer(c), KubectlProxy(c)} \subseteq up[p]
    BY DEF Proxied
  <2> USE ConstantsAssumption DEF ConstantsAssumption
  <2>1. Placed(p) /\ Standing(p)
    BY DEF SidecarInv, Sidecar
  <2>2. \A k \in 1..Servers : k <= proc[p].started
    BY <2>1 DEF Placed, Kubectl
  <2>3. ServerUnits \subseteq up[p]
    BY <2>1, <2>2 DEF Standing, Under, ServerUnits
  <2> QED BY <2>1, <2>3 DEF Standing, Under
<1> QED BY <1>1, Invariance, PTL


-----------------------------------------------------------------------------
(* What the launches of one session, one after the other, find.            *)

InSession(p) == UnderWay(p) /\ ~proc[p].shell

\* Steps that only the launch of a session has.
SessionSteps == {"token", "mint", "write", "volumes", "create", "seed", "rollback"}

Unshelled ==
  /\ \A p \in Procs :
       /\ proc[p].pc \in SessionSteps \cup {"idle", "over", "dead"} => ~proc[p].shell
       /\ proc[p].pc = "idle" => proc[p].at = 1
  /\ container # None =>
       proc[container].pc \in {"running", "dead"} /\ ~proc[container].shell

Alone == \A p, q \in Procs : InSession(p) /\ InSession(q) => p = q

\* A volume is seeded with the token of the token file; one without its seed is
\* being seeded, or was cut off.
Stored ==
  /\ \A v \in 1..Volumes : volume[v] \in {None, Empty, tokenFile}
  /\ \A v \in Seeded : volume[v] = Empty =>
       v \in cutOff \/ \E p \in Procs : Seeding(p) /\ proc[p].at = v
  /\ \A v \in used : volume[v] # None
  /\ container # None => \A v \in 1..Volumes : volume[v] # None

\* What a launch may rely on at its step.
AtToken(p) ==
  /\ proc[p].pc = "mint" => tokenFile = None
  /\ proc[p].pc = "write" => \A v \in 1..Volumes : volume[v] \in {None, Empty}
  /\ proc[p].pc \notin {"token", "mint", "write"} =>
       tokenFile # None /\ proc[p].tok = tokenFile

AtVolumes(p) ==
  /\ proc[p].pc \in {"token", "mint", "write", "prepare", "build"} => proc[p].at = 1
  /\ proc[p].pc = "create" /\ proc[p].at \in Seeded => volume[proc[p].at] = None
  /\ Seeding(p) => proc[p].at \notin used /\ container = None
  /\ proc[p].pc \in {"volumes", "create", "seed", "rollback"} =>
       \A v \in 1..Volumes : v < proc[p].at => volume[v] # None
  /\ proc[p].pc \in Under => \A v \in 1..Volumes : volume[v] # None

AtClient(p) ==
  proc[p].pc \in Under \ {"stop"} =>
    /\ \A k \in FileServers : k <= proc[p].started => client[k] = p
    /\ proc[p].pc \in {"run", "running"} /\ Contexts # 0 => client[Kubectl] = p

Relies(p) == AtToken(p) /\ AtVolumes(p) /\ AtClient(p)

Serial == Alone /\ Stored /\ \A p \in Procs : InSession(p) => Relies(p)

SessionInv == SidecarInv /\ Unshelled /\ (~overlapped => Serial)

-----------------------------------------------------------------------------

LEMMA FieldsSet ==
  ASSUME TypeOK, NEW p \in Procs, NEW pc \in Pcs, NEW x
  PROVE  /\ Goto(p, [proc[p] EXCEPT !.pc = pc, !.tok = x]) =>
              /\ proc'[p].pc = pc /\ proc'[p].shell = proc[p].shell
              /\ proc'[p].tok = x /\ proc'[p].at = proc[p].at
         /\ Goto(p, [proc[p] EXCEPT !.pc = pc, !.at = x]) =>
              /\ proc'[p].pc = pc /\ proc'[p].shell = proc[p].shell
              /\ proc'[p].tok = proc[p].tok /\ proc'[p].started = proc[p].started
         /\ Goto(p, [proc[p] EXCEPT !.pc = pc, !.context = x]) =>
              /\ proc'[p].pc = pc /\ proc'[p].shell = proc[p].shell
              /\ proc'[p].tok = proc[p].tok /\ proc'[p].started = proc[p].started
         /\ Goto(p, [proc[p] EXCEPT !.pc = pc, !.started = x]) =>
              /\ proc'[p].pc = pc /\ proc'[p].shell = proc[p].shell
              /\ proc'[p].tok = proc[p].tok /\ proc'[p].started = x
         /\ Goto(p, [proc[p] EXCEPT !.started = x]) =>
              /\ proc'[p].pc = proc[p].pc /\ proc'[p].shell = proc[p].shell
              /\ proc'[p].tok = proc[p].tok /\ proc'[p].started = x
         /\ Goto(p, [[proc[p] EXCEPT !.started = x] EXCEPT !.pc = pc]) =>
              /\ proc'[p].pc = pc /\ proc'[p].shell = proc[p].shell
              /\ proc'[p].tok = proc[p].tok
<1>1. proc[p] \in Process
  BY DEF TypeOK
<1>2. \A y : Goto(p, y) => proc'[p] = y
  BY DEF Goto, TypeOK
<1>3. LET r == [proc[p] EXCEPT !.pc = pc, !.tok = x]
      IN r.pc = pc /\ r.shell = proc[p].shell /\ r.tok = x /\ r.at = proc[p].at
  BY <1>1 DEF Process
<1>4. LET r == [proc[p] EXCEPT !.pc = pc, !.at = x]
      IN r.pc = pc /\ r.shell = proc[p].shell /\ r.tok = proc[p].tok /\ r.started = proc[p].started
  BY <1>1 DEF Process
<1>5. LET r == [proc[p] EXCEPT !.pc = pc, !.context = x]
      IN r.pc = pc /\ r.shell = proc[p].shell /\ r.tok = proc[p].tok /\ r.started = proc[p].started
  BY <1>1 DEF Process
<1>6. LET r == [proc[p] EXCEPT !.pc = pc, !.started = x]
      IN r.pc = pc /\ r.shell = proc[p].shell /\ r.tok = proc[p].tok /\ r.started = x
  BY <1>1 DEF Process
<1>7. LET r == [proc[p] EXCEPT !.started = x]
      IN r.pc = proc[p].pc /\ r.shell = proc[p].shell /\ r.tok = proc[p].tok /\ r.started = x
  BY <1>1 DEF Process
<1>8. LET r == [[proc[p] EXCEPT !.started = x] EXCEPT !.pc = pc]
      IN r.pc = pc /\ r.shell = proc[p].shell /\ r.tok = proc[p].tok
  BY <1>1 DEF Process
<1> QED BY <1>2, <1>3, <1>4, <1>5, <1>6, <1>7, <1>8

\* Where a volume's inspection leads.
LEMMA Inspected ==
  ASSUME TypeOK, NEW p \in Procs, InspectVolume(p)
  PROVE  \/ proc[p].at > Volumes /\ Goto(p, [proc[p] EXCEPT !.pc = "sidecars", !.at = 1])
         \/ proc[p].at \in 1..Volumes /\ volume[proc[p].at] # None /\ Goto(p, NextVolume(p))
         \/ proc[p].at \in 1..Volumes /\ volume[proc[p].at] = None /\ GotoPc(p, "create")
<1>1. proc[p].at \in Nat /\ proc[p].at > 0 /\ Volumes \in Nat
  BY ConstantsAssumption DEF TypeOK, Process, ConstantsAssumption
<1>2. proc[p].at > Volumes \/ proc[p].at \in 1..Volumes
  BY <1>1
<1> QED BY <1>1, <1>2 DEF InspectVolume

-----------------------------------------------------------------------------
(* What each action does to its process. *)

Ended(p) == proc'[p].pc = "over" /\ ~proc'[p].shell

\* The launch goes on at another step.
GoesOn(p, pc) ==
  proc'[p].pc = pc /\ proc'[p].shell = proc[p].shell /\ proc'[p].tok = proc[p].tok

TokenMoves(p) ==
  /\ LaunchSession(p) =>
       proc[p].pc = "idle" /\ GoesOn(p, "token") /\ proc'[p].at = proc[p].at
  /\ LaunchShell(p) => proc[p].pc = "idle" /\ proc'[p].pc = "prepare" /\ proc'[p].shell
  /\ FindToken(p) =>
       /\ proc[p].pc = "token" /\ proc'[p].shell = proc[p].shell /\ proc'[p].at = proc[p].at
       /\ \/ tokenFile # None /\ proc'[p].pc = "prepare" /\ proc'[p].tok = tokenFile
          \/ tokenFile = None /\ proc'[p].pc = "mint"
  /\ OpenTokenFile(p) =>
       proc[p].pc = "mint" /\ GoesOn(p, "write") /\ proc'[p].at = proc[p].at
  /\ WriteToken(p) =>
       /\ proc[p].pc = "write" /\ proc'[p].pc = "prepare" /\ proc'[p].tok = p
       /\ proc'[p].shell = proc[p].shell /\ proc'[p].at = proc[p].at
  /\ PrepareSidecars(p) =>
       /\ proc[p].pc = "prepare"
       /\ Ended(p) \/ (GoesOn(p, "build") /\ proc'[p].at = proc[p].at)
  /\ BuildImage(p) =>
       /\ proc[p].pc = "build"
       /\ \/ Ended(p)
          \/ proc[p].shell /\ GoesOn(p, "sidecars")
          \/ ~proc[p].shell /\ GoesOn(p, "volumes") /\ proc'[p].at = proc[p].at

VolumeMoves(p) ==
  /\ InspectVolume(p) =>
       /\ proc[p].pc = "volumes"
       /\ \/ /\ GoesOn(p, "sidecars")
             /\ proc'[p].started = proc[p].started
             /\ proc[p].at > Volumes
          \/ /\ GoesOn(p, "volumes") /\ proc'[p].at = proc[p].at + 1
             /\ proc[p].at \in 1..Volumes /\ volume[proc[p].at] # None
          \/ /\ GoesOn(p, "create") /\ proc'[p].at = proc[p].at
             /\ proc[p].at \in 1..Volumes /\ volume[proc[p].at] = None
  /\ CreateVolume(p) =>
       /\ proc[p].pc = "create"
       /\ \/ Ended(p) /\ volume' = volume
          \/ /\ volume' = [volume EXCEPT ![proc[p].at] = IF @ = None THEN Empty ELSE @]
             /\ \/ GoesOn(p, "seed") /\ proc'[p].at = proc[p].at /\ proc[p].at \in Seeded
                \/ GoesOn(p, "volumes") /\ proc'[p].at = proc[p].at + 1 /\ proc[p].at \notin Seeded
  /\ SeedVolume(p) =>
       proc[p].pc = "seed" /\ GoesOn(p, "volumes") /\ proc'[p].at = proc[p].at + 1
  /\ SeedFails(p) => proc[p].pc = "seed" /\ GoesOn(p, "rollback") /\ proc'[p].at = proc[p].at
  /\ DropVolume(p) => proc[p].pc = "rollback" /\ Ended(p)

SidecarMoves(p) ==
  /\ StartServer(p) =>
       /\ proc[p].pc = "sidecars"
       /\ \/ GoesOn(p, "stop")
          \/ /\ GoesOn(p, "sidecars") /\ proc'[p].started = proc[p].started + 1
             /\ client' = IF ~proc[p].shell /\ proc[p].started + 1 \in FileServers
                            THEN [client EXCEPT ![proc[p].started + 1] = p] ELSE client
  /\ StartKubectl(p) =>
       /\ proc[p].pc = "sidecars" /\ proc[p].started = Servers
       /\ \/ Contexts = 0 /\ GoesOn(p, "run") /\ proc'[p].started = Servers
          \/ GoesOn(p, "context") /\ proc'[p].started = Kubectl
  /\ StartProxyProcess(p) =>
       /\ proc[p].pc = "context" /\ proc'[p].started = proc[p].started
       /\ GoesOn(p, "rbac") \/ GoesOn(p, "context")
  /\ StartRbacServer(p) =>
       proc[p].pc = "rbac" /\ proc'[p].started = proc[p].started /\ GoesOn(p, "context")
  /\ WriteKubeconfig(p) =>
       /\ proc[p].pc = "context" /\ proc'[p].started = proc[p].started
       /\ \/ GoesOn(p, "stop")
          \/ /\ GoesOn(p, "run")
             /\ client' = IF proc[p].shell THEN client ELSE [client EXCEPT ![Kubectl] = p]

RunMoves(p) ==
  /\ Run(p) =>
       /\ proc[p].pc = "run" /\ proc'[p].started = proc[p].started
       /\ \/ GoesOn(p, "running")
          \/ GoesOn(p, "stop") /\ container # None /\ container' = container
  /\ ContainerEnds(p) =>
       \/ proc[p].pc = "running" /\ GoesOn(p, "stop")
       \/ proc[p].pc = "dead" /\ proc' = proc
  /\ StopSidecar(p) => proc[p].pc = "stop" /\ GoesOn(p, "stop")
  /\ EndLaunch(p) => proc[p].pc = "stop" /\ Ended(p)
  /\ Interrupt(p) =>
       /\ proc[p].pc \in (Before \cup Under) \ {"running"}
       /\ Ended(p) \/ (proc[p].pc \in Under /\ GoesOn(p, "stop"))
  /\ Kill(p) =>
       proc[p].pc \in Before \cup Under /\ proc'[p].pc = "dead" /\ ~proc'[p].shell

LEMMA Moves ==
  ASSUME TypeOK, NEW p \in Procs
  PROVE  TokenMoves(p) /\ VolumeMoves(p) /\ SidecarMoves(p) /\ RunMoves(p)
<1>p. {"token", "prepare", "mint", "write", "build", "volumes", "create", "seed", "rollback",
       "sidecars", "context", "rbac", "run", "running", "stop", "over", "dead"} \subseteq Pcs
  BY DEF Pcs, Before, Under
<1>g. \A pc \in Pcs : GotoPc(p, pc) =>
        GoesOn(p, pc) /\ proc'[p].at = proc[p].at /\ proc'[p].started = proc[p].started
  BY FieldsMoved DEF GoesOn
<1>l. /\ Leave(p, "over") => Ended(p)
      /\ Leave(p, "dead") => proc'[p].pc = "dead" /\ ~proc'[p].shell
  BY <1>p, FieldsMoved DEF Ended
<1>v. Goto(p, NextVolume(p)) => GoesOn(p, "volumes") /\ proc'[p].at = proc[p].at + 1
  BY FieldsMoved DEF GoesOn
<1>c. Goto(p, NextContext(p)) => GoesOn(p, "context") /\ proc'[p].started = proc[p].started
  BY FieldsMoved DEF GoesOn
<1>1. TokenMoves(p)
  <2>1. LaunchShell(p) => proc[p].pc = "idle" /\ proc'[p].pc = "prepare" /\ proc'[p].shell
    BY DEF LaunchShell, Goto, TypeOK, Process
  <2>2. FindToken(p) =>
          /\ proc[p].pc = "token"
          /\ \/ tokenFile # None /\ Goto(p, [proc[p] EXCEPT !.pc = "prepare", !.tok = tokenFile])
             \/ tokenFile = None /\ GotoPc(p, "mint")
    BY DEF FindToken
  <2>3. WriteToken(p) =>
          proc[p].pc = "write" /\ Goto(p, [proc[p] EXCEPT !.pc = "prepare", !.tok = p])
    BY DEF WriteToken
  <2>4. \A x : Goto(p, [proc[p] EXCEPT !.pc = "prepare", !.tok = x]) =>
          /\ proc'[p].pc = "prepare" /\ proc'[p].shell = proc[p].shell
          /\ proc'[p].tok = x /\ proc'[p].at = proc[p].at
    BY <1>p, FieldsSet
  <2>5. LaunchSession(p) => proc[p].pc = "idle" /\ GotoPc(p, "token")
    BY DEF LaunchSession
  <2>6. OpenTokenFile(p) => proc[p].pc = "mint" /\ GotoPc(p, "write")
    BY DEF OpenTokenFile
  <2>7. PrepareSidecars(p) => proc[p].pc = "prepare" /\ (GotoPc(p, "build") \/ Leave(p, "over"))
    BY DEF PrepareSidecars
  <2>8. BuildImage(p) =>
          /\ proc[p].pc = "build"
          /\ \/ Leave(p, "over")
             \/ proc[p].shell /\ GotoPc(p, "sidecars")
             \/ ~proc[p].shell /\ GotoPc(p, "volumes")
    BY DEF BuildImage
  <2> QED BY <1>p, <1>g, <1>l, <2>1, <2>2, <2>3, <2>4, <2>5, <2>6, <2>7, <2>8
          DEF TokenMoves, GoesOn
<1>2. VolumeMoves(p)
  <2>1. InspectVolume(p) => proc[p].pc = "volumes"
    BY DEF InspectVolume
  <2>2. Goto(p, [proc[p] EXCEPT !.pc = "sidecars", !.at = 1]) =>
          GoesOn(p, "sidecars") /\ proc'[p].started = proc[p].started
    BY <1>p, FieldsSet DEF GoesOn
  <2>3. CreateVolume(p) =>
          /\ proc[p].pc = "create"
          /\ \/ Leave(p, "over") /\ volume' = volume
             \/ /\ volume' = [volume EXCEPT ![proc[p].at] = IF @ = None THEN Empty ELSE @]
                /\ \/ GotoPc(p, "seed") /\ proc[p].at \in Seeded
                   \/ Goto(p, NextVolume(p)) /\ proc[p].at \notin Seeded
    BY DEF CreateVolume
  <2>4. SeedVolume(p) => proc[p].pc = "seed" /\ Goto(p, NextVolume(p))
    BY DEF SeedVolume
  <2>5. SeedFails(p) => proc[p].pc = "seed" /\ GotoPc(p, "rollback")
    BY DEF SeedFails
  <2>6. DropVolume(p) => proc[p].pc = "rollback" /\ Leave(p, "over")
    BY DEF DropVolume
  <2> QED BY <1>p, <1>g, <1>l, <1>v, <2>1, <2>2, <2>3, <2>4, <2>5, <2>6, Inspected
          DEF VolumeMoves
<1>3. SidecarMoves(p)
  <2> DEFINE k == proc[p].started + 1
  <2>1. StartServer(p) =>
          /\ proc[p].pc = "sidecars"
          /\ \/ Goto(p, [[proc[p] EXCEPT !.started = k] EXCEPT !.pc = "stop"])
             \/ /\ Goto(p, [proc[p] EXCEPT !.started = k])
                /\ client' = IF ~proc[p].shell /\ k \in FileServers
                               THEN [client EXCEPT ![k] = p] ELSE client
    BY DEF StartServer
  <2>2. /\ Goto(p, [[proc[p] EXCEPT !.started = k] EXCEPT !.pc = "stop"]) => GoesOn(p, "stop")
        /\ Goto(p, [proc[p] EXCEPT !.started = k]) =>
             GoesOn(p, proc[p].pc) /\ proc'[p].started = k
        /\ Goto(p, [proc[p] EXCEPT !.pc = "context", !.started = Kubectl]) =>
             GoesOn(p, "context") /\ proc'[p].started = Kubectl
    <3>1. "stop" \in Pcs /\ "context" \in Pcs
      BY <1>p
    <3>2. Goto(p, [[proc[p] EXCEPT !.started = k] EXCEPT !.pc = "stop"]) => GoesOn(p, "stop")
      BY <3>1, FieldsSet DEF GoesOn
    <3>3. Goto(p, [proc[p] EXCEPT !.started = k]) =>
             GoesOn(p, proc[p].pc) /\ proc'[p].started = k
      BY <3>1, FieldsSet DEF GoesOn
    <3>4. \A x : Goto(p, [proc[p] EXCEPT !.pc = "context", !.started = x]) =>
             /\ proc'[p].pc = "context" /\ proc'[p].shell = proc[p].shell
             /\ proc'[p].tok = proc[p].tok /\ proc'[p].started = x
      BY DEF Goto, TypeOK, Process
    <3> QED BY <3>2, <3>3, <3>4 DEF GoesOn
  <2>3. \A pc \in {"run", "stop"} : Goto(p, [proc[p] EXCEPT !.pc = pc, !.context = 1]) =>
          GoesOn(p, pc) /\ proc'[p].started = proc[p].started
    BY <1>p, FieldsSet DEF GoesOn
  <2>4. StartKubectl(p) =>
          /\ proc[p].pc = "sidecars" /\ proc[p].started = Servers
          /\ \/ Contexts = 0 /\ GotoPc(p, "run")
             \/ Goto(p, [proc[p] EXCEPT !.pc = "context", !.started = Kubectl])
    BY DEF StartKubectl
  <2>5. StartProxyProcess(p) =>
          proc[p].pc = "context" /\ (GotoPc(p, "rbac") \/ Goto(p, NextContext(p)))
    BY DEF StartProxyProcess
  <2>6. StartRbacServer(p) => proc[p].pc = "rbac" /\ Goto(p, NextContext(p))
    BY DEF StartRbacServer
  <2>7. WriteKubeconfig(p) =>
          /\ proc[p].pc = "context"
          /\ \/ Goto(p, [proc[p] EXCEPT !.pc = "stop", !.context = 1])
             \/ /\ Goto(p, [proc[p] EXCEPT !.pc = "run", !.context = 1])
                /\ client' = IF proc[p].shell THEN client ELSE [client EXCEPT ![Kubectl] = p]
    BY DEF WriteKubeconfig
  <2>8. StartServer(p) => SidecarMoves(p)!1!2
    BY <2>1, <2>2
  <2>9. StartKubectl(p) => SidecarMoves(p)!2!2
    BY <1>p, <1>g, <2>2, <2>4
  <2>10. StartProxyProcess(p) => SidecarMoves(p)!3!2
    BY <1>p, <1>g, <1>c, <2>5
  <2>11. WriteKubeconfig(p) => SidecarMoves(p)!5!2
    BY <2>3, <2>7
  <2> QED BY <1>c, <2>6, <2>8, <2>9, <2>10, <2>11 DEF SidecarMoves
<1>4. RunMoves(p)
  <2>1. Run(p) =>
          /\ proc[p].pc = "run"
          /\ \/ GotoPc(p, "running")
             \/ GotoPc(p, "stop") /\ container # None /\ container' = container
    BY DEF Run
  <2>2. ContainerEnds(p) =>
          \/ proc[p].pc = "running" /\ GotoPc(p, "stop")
          \/ proc[p].pc = "dead" /\ proc' = proc
    BY DEF ContainerEnds
  <2>3. StopSidecar(p) => proc[p].pc = "stop" /\ GoesOn(p, "stop")
    BY FieldsSet, <1>p DEF StopSidecar, GoesOn
  <2>4. EndLaunch(p) => proc[p].pc = "stop" /\ Leave(p, "over")
    BY DEF EndLaunch
  <2>5. Interrupt(p) =>
          /\ proc[p].pc \in (Before \cup Under) \ {"running"}
          /\ \/ Leave(p, "over")
             \/ proc[p].pc \in Under /\ Goto(p, [proc[p] EXCEPT !.pc = "stop", !.context = 1])
    BY DEF Interrupt, UnderWay
  <2>6. Goto(p, [proc[p] EXCEPT !.pc = "stop", !.context = 1]) => GoesOn(p, "stop")
    BY <1>p, FieldsSet DEF GoesOn
  <2>7. Kill(p) => proc[p].pc \in Before \cup Under /\ Leave(p, "dead")
    BY DEF Kill, UnderWay
  <2> QED BY <1>p, <1>g, <1>l, <2>1, <2>2, <2>3, <2>4, <2>5, <2>6, <2>7 DEF RunMoves
<1> QED BY <1>1, <1>2, <1>3, <1>4

-----------------------------------------------------------------------------
(* Launches and shells. *)

LEMMA UnshelledStep ==
  ASSUME SidecarInv, Unshelled, NEW p \in Procs, Step(p)
  PROVE  Unshelled'
<1> DEFINE Quiet == SessionSteps \cup {"idle", "over", "dead"}
<1>t. TypeOK /\ Placed(p) /\ proc[p] \in Process
  BY DEF SidecarInv, Sidecar, TypeOK
<1>1. Local(p)
  BY <1>t, StepLocal
<1>m. TokenMoves(p) /\ VolumeMoves(p) /\ SidecarMoves(p) /\ RunMoves(p)
  BY <1>t, Moves
<1>2. proc'[p].pc \in Quiet => ~proc'[p].shell
  <2>1. proc[p].pc \in Quiet => ~proc[p].shell
    BY DEF Unshelled
  <2>2. CASE \/ LaunchSession(p) \/ LaunchShell(p) \/ FindToken(p) \/ OpenTokenFile(p)
             \/ WriteToken(p) \/ PrepareSidecars(p) \/ BuildImage(p)
    BY <1>m, <2>1, <2>2 DEF TokenMoves, GoesOn, Ended, SessionSteps
  <2>3. CASE \/ InspectVolume(p) \/ CreateVolume(p) \/ SeedVolume(p) \/ SeedFails(p)
             \/ DropVolume(p)
    BY <1>m, <2>1, <2>3 DEF VolumeMoves, GoesOn, Ended, SessionSteps
  <2>4. CASE \/ StartServer(p) \/ StartKubectl(p) \/ StartProxyProcess(p)
             \/ StartRbacServer(p) \/ WriteKubeconfig(p)
    BY <1>m, <2>1, <2>4 DEF SidecarMoves, GoesOn, SessionSteps
  <2>5. CASE \/ Run(p) \/ ContainerEnds(p) \/ StopSidecar(p) \/ EndLaunch(p)
             \/ Interrupt(p) \/ Kill(p)
    BY <1>m, <2>1, <2>5 DEF RunMoves, GoesOn, Ended, SessionSteps
  <2> QED BY <2>2, <2>3, <2>4, <2>5 DEF Step
<1>3. proc'[p].pc = "idle" => proc'[p].at = 1
  <2>1. proc'[p].pc # "idle"
    BY <1>m DEF Step, TokenMoves, VolumeMoves, SidecarMoves, RunMoves, GoesOn, Ended
  <2> QED BY <2>1
<1>4. container' # None => proc'[container'].pc \in {"running", "dead"} /\ ~proc'[container'].shell
  <2>c. container # None => container \in Procs
    BY <1>t DEF TypeOK
  <2>1. CASE Run(p)
    <3>1. proc[p].pc = "run" /\ (GoesOn(p, "running") \/ container' = container)
      BY <1>m, <2>1 DEF RunMoves
    <3>2. container # None => container # p
      BY <3>1 DEF Unshelled
    <3>3. container' = container \/ (container' = p /\ ~proc[p].shell)
      BY <2>1 DEF Run
    <3>4. CASE container' = container
      BY <1>1, <2>c, <3>2, <3>4 DEF Unshelled, Local
    <3>5. CASE container' # container
      BY <3>1, <3>3, <3>5 DEF GoesOn
    <3> QED BY <3>4, <3>5
  <2>2. CASE ContainerEnds(p)
    BY <1>1, <2>2, <2>c DEF ContainerEnds, Unshelled, Local
  <2>3. CASE Kill(p)
    <3>1. container' = container
      BY <2>3 DEF Kill
    <3>2. proc'[p].pc = "dead" /\ ~proc'[p].shell
      BY <1>m, <2>3 DEF RunMoves
    <3> QED BY <1>1, <2>c, <3>1, <3>2 DEF Unshelled, Local
  <2>4. CASE ~Run(p) /\ ~ContainerEnds(p) /\ ~Kill(p)
    <3>1. container' = container /\ proc[p].pc \notin {"running", "dead"}
      BY <2>4 DEF Step, LaunchSession, LaunchShell, FindToken, OpenTokenFile, WriteToken,
         PrepareSidecars, BuildImage, InspectVolume, CreateVolume, SeedVolume, SeedFails,
         DropVolume, StartServer, StartKubectl, StartProxyProcess, StartRbacServer,
         WriteKubeconfig, StopSidecar, EndLaunch, Interrupt, UnderWay, Before, Under
    <3> QED BY <1>1, <2>c, <3>1 DEF Unshelled, Local
  <2> QED BY <2>1, <2>2, <2>3, <2>4
<1>5. ASSUME NEW q \in Procs
      PROVE  /\ proc'[q].pc \in Quiet => ~proc'[q].shell
             /\ proc'[q].pc = "idle" => proc'[q].at = 1
  BY <1>1, <1>2, <1>3 DEF Unshelled, Local
<1> QED BY <1>4, <1>5 DEF Unshelled

\* A step outside the session leaves what the session keeps alone, but for volumes
\* without a seed.
LEMMA ShellStep ==
  ASSUME SidecarInv, Unshelled, NEW p \in Procs, Step(p), ~InSession(p), ~InSession(p)'
  PROVE  /\ tokenFile' = tokenFile /\ client' = client /\ cutOff' = cutOff
         /\ container' \in {container, None}
         /\ \A v \in 1..Volumes : \/ volume'[v] = volume[v]
                                  \/ v \notin Seeded /\ volume[v] = None /\ volume'[v] = Empty
         /\ used \subseteq used'
         /\ \A v \in used' : v \in used \/ (v \in (1..Volumes) \ Seeded /\ volume'[v] # None)
<1> USE ConstantsAssumption DEF ConstantsAssumption
<1>t. TypeOK /\ Placed(p) /\ proc[p] \in Process
  BY DEF SidecarInv, Sidecar, TypeOK
<1>m. TokenMoves(p)
  BY <1>t, Moves
<1>1. proc[p].pc \notin SessionSteps /\ (UnderWay(p) => proc[p].shell)
  BY <1>t DEF InSession, Unshelled, UnderWay, SessionSteps, Before, Process
<1>2. ~Seeding(p)
  BY <1>1 DEF Seeding, SessionSteps
<1>3. ~LaunchSession(p)
  <2> SUFFICES ASSUME LaunchSession(p) PROVE FALSE
    OBVIOUS
  <2>1. proc'[p].pc = "token" /\ proc'[p].shell = proc[p].shell /\ proc[p].pc = "idle"
    BY <1>m DEF TokenMoves, GoesOn
  <2>2. ~proc'[p].shell
    BY <2>1 DEF Unshelled
  <2> QED BY <2>1, <2>2 DEF InSession, UnderWay, Before
<1>4. CASE Run(p)
  <2>1. proc[p].shell
    BY <1>1, <1>4 DEF Run, UnderWay, Under
  <2>2. /\ container' = container
        /\ volume' = [v \in 1..Volumes |->
                        IF v \in (1..Volumes) \ Seeded /\ volume[v] = None THEN Empty ELSE volume[v]]
        /\ used' = used \cup ((1..Volumes) \ Seeded)
        /\ UNCHANGED <<host, cutOff>>
    BY <1>4, <2>1 DEF Run
  <2> QED BY <2>2 DEF host
<1>5. CASE ContainerEnds(p)
  BY <1>5 DEF ContainerEnds, host, disk
<1>6. CASE Interrupt(p) \/ Kill(p)
  BY <1>2, <1>6 DEF Interrupt, Kill, CutOff, host
<1>7. CASE StartServer(p) \/ WriteKubeconfig(p)
  <2>1. proc[p].shell
    BY <1>1, <1>7 DEF StartServer, WriteKubeconfig, UnderWay, Under
  <2> QED BY <1>7, <2>1 DEF StartServer, WriteKubeconfig, disk
<1>8. CASE \/ LaunchShell(p) \/ PrepareSidecars(p) \/ BuildImage(p) \/ StartKubectl(p)
           \/ StartProxyProcess(p) \/ StartRbacServer(p) \/ StopSidecar(p) \/ EndLaunch(p)
  BY <1>8 DEF LaunchShell, PrepareSidecars, BuildImage, StartKubectl, StartProxyProcess,
              StartRbacServer, StopSidecar, EndLaunch, host, disk
<1>9. CASE \/ FindToken(p) \/ OpenTokenFile(p) \/ WriteToken(p) \/ InspectVolume(p)
           \/ CreateVolume(p) \/ SeedVolume(p) \/ SeedFails(p) \/ DropVolume(p)
  BY <1>1, <1>9 DEF SessionSteps, FindToken, OpenTokenFile, WriteToken, InspectVolume,
                    CreateVolume, SeedVolume, SeedFails, DropVolume
<1> QED BY <1>3, <1>4, <1>5, <1>6, <1>7, <1>8, <1>9 DEF Step

-----------------------------------------------------------------------------
(* The launch that is in the session. *)

\* No other launch is seeding a volume.
LEMMA Lone ==
  ASSUME SidecarInv, Unshelled, Serial, NEW p \in Procs, InSession(p)
  PROVE  /\ Relies(p)
         /\ \A v \in Seeded : volume[v] = Empty =>
              v \in cutOff \/ (Seeding(p) /\ proc[p].at = v)
<1>1. \A q \in Procs : Seeding(q) => InSession(q)
  BY DEF Seeding, InSession, UnderWay, Unshelled, SessionSteps, Before
<1> QED BY <1>1 DEF Serial, Alone, Stored

LEMMA TokenPart ==
  ASSUME SidecarInv, Unshelled, Serial, NEW p \in Procs, InSession(p),
         \/ FindToken(p) \/ OpenTokenFile(p) \/ WriteToken(p) \/ PrepareSidecars(p) \/ BuildImage(p)
  PROVE  Stored' /\ (InSession(p)' => Relies(p)')
<1>t. TypeOK
  BY DEF SidecarInv
<1>m. TokenMoves(p)
  BY <1>t, Moves
<1>f. AtToken(p) /\ AtVolumes(p)
  BY Lone DEF Relies
<1>1. /\ proc[p].pc \in {"token", "mint", "write", "prepare", "build"}
      /\ UNCHANGED <<volume, cutOff, container, used>>
  BY DEF FindToken, OpenTokenFile, WriteToken, PrepareSidecars, BuildImage, disk
<1>2. ~Seeding(p) /\ proc[p].at = 1
  BY <1>1, <1>f DEF Seeding, AtVolumes
<1>3. \A v \in Seeded : volume[v] = Empty => v \in cutOff
  BY <1>2, Lone
<1>4. \A v \in 1..Volumes : volume[v] \in {None, Empty, tokenFile}
  BY DEF Serial, Stored
<1>5. \/ tokenFile' = tokenFile
      \/ OpenTokenFile(p) /\ tokenFile = None /\ tokenFile' = Blank
      \/ WriteToken(p) /\ tokenFile' = p
  BY <1>f DEF FindToken, OpenTokenFile, WriteToken, PrepareSidecars, BuildImage, host, AtToken
<1>6. tokenFile' # tokenFile => \A v \in 1..Volumes : volume[v] \in {None, Empty}
  BY <1>4, <1>5, <1>f DEF AtToken, WriteToken
<1>7. Stored'
  <2>1. \A v \in 1..Volumes : volume'[v] \in {None, Empty, tokenFile'}
    BY <1>1, <1>4, <1>6
  <2> QED BY <1>1, <1>3, <2>1 DEF Serial, Stored
<1>8. InSession(p)' =>
        /\ proc'[p].pc \in {"prepare", "mint", "write", "build", "volumes"}
        /\ proc'[p].at = 1
  BY <1>m, <1>2 DEF InSession, UnderWay, Before, Under, TokenMoves, GoesOn, Ended
<1>9. InSession(p)' => AtToken(p)'
  <2>1. p # None /\ Blank # None
    BY ConstantsAssumption DEF ConstantsAssumption
  <2>2. CASE FindToken(p)
    BY <1>m, <2>2 DEF TokenMoves, FindToken, host, AtToken
  <2>3. CASE OpenTokenFile(p)
    BY <1>m, <1>1, <1>4, <1>f, <2>3 DEF TokenMoves, GoesOn, AtToken
  <2>4. CASE WriteToken(p)
    BY <1>m, <2>1, <2>4 DEF TokenMoves, WriteToken, AtToken
  <2>5. CASE PrepareSidecars(p) \/ BuildImage(p)
    <3>1. proc[p].pc \in {"prepare", "build"} /\ tokenFile' = tokenFile
      BY <2>5 DEF PrepareSidecars, BuildImage, host
    <3>2. InSession(p)' => proc'[p].pc \in {"build", "volumes"} /\ proc'[p].tok = proc[p].tok
      BY <1>m, <1>8, <2>5 DEF TokenMoves, GoesOn, Ended
    <3> QED BY <1>f, <3>1, <3>2 DEF AtToken
  <2> QED BY <2>2, <2>3, <2>4, <2>5
<1>10. InSession(p)' => AtVolumes(p)' /\ AtClient(p)'
  BY <1>8 DEF AtVolumes, AtClient, Seeding, Under
<1> QED BY <1>7, <1>9, <1>10 DEF Relies

LEMMA VolumePart ==
  ASSUME SidecarInv, Unshelled, Serial, NEW p \in Procs, InSession(p),
         \/ InspectVolume(p) \/ CreateVolume(p) \/ SeedVolume(p) \/ SeedFails(p) \/ DropVolume(p)
  PROVE  Stored' /\ (InSession(p)' => Relies(p)')
<1> USE ConstantsAssumption DEF ConstantsAssumption
<1> DEFINE v0 == proc[p].at
<1>t. TypeOK /\ Placed(p) /\ proc[p] \in Process
  BY DEF SidecarInv, Sidecar, TypeOK
<1>m. VolumeMoves(p)
  BY <1>t, Moves
<1>f. AtToken(p) /\ AtVolumes(p)
  BY Lone DEF Relies
<1>1. /\ proc[p].pc \in {"volumes", "create", "seed", "rollback"}
      /\ UNCHANGED <<tokenFile, client, cutOff, container>>
  BY DEF InspectVolume, CreateVolume, SeedVolume, SeedFails, DropVolume, host, disk
<1>2. /\ tokenFile # None /\ tokenFile # Empty /\ proc[p].tok = tokenFile
      /\ \A v \in 1..Volumes : v < v0 => volume[v] # None
      /\ v0 \in Nat
      /\ proc[p].pc # "volumes" => v0 \in 1..Volumes
  BY <1>t, <1>1, <1>f DEF AtToken, AtVolumes, TypeOK, Token, Placed, Process
<1>3. /\ \A v \in Seeded : volume[v] = Empty => v \in cutOff \/ (Seeding(p) /\ v0 = v)
      /\ \A v \in 1..Volumes : volume[v] \in {None, Empty, tokenFile}
      /\ \A v \in used : volume[v] # None
      /\ container # None => \A v \in 1..Volumes : volume[v] # None
  BY Lone DEF Serial, Stored
<1>4. InSession(p)' => ~Ended(p)
  BY DEF InSession, UnderWay, Before, Under, Ended
<1>5. \A pc : GoesOn(p, pc) => proc'[p].pc = pc /\ proc'[p].tok = proc[p].tok
  BY DEF GoesOn
<1>6. InSession(p)' => AtToken(p)'
  <2>1. InSession(p)' => /\ proc'[p].pc \in {"sidecars", "volumes", "create", "seed", "rollback"}
                         /\ proc'[p].tok = proc[p].tok
    BY <1>m, <1>4, <1>5 DEF VolumeMoves
  <2> QED BY <1>1, <1>2, <2>1 DEF AtToken
<1>7. CASE InspectVolume(p)
  <2>1. proc[p].pc = "volumes" /\ volume' = volume /\ used' = used
    BY <1>7 DEF InspectVolume, disk
  <2>2. Stored'
    BY <1>1, <1>3, <2>1 DEF Stored, Seeding
  <2>3. CASE GoesOn(p, "sidecars") /\ proc'[p].started = proc[p].started /\ v0 > Volumes
    <3>1. proc'[p].pc = "sidecars" /\ proc'[p].started = 0
      BY <1>t, <2>1, <2>3 DEF GoesOn, Placed, Under
    <3>2. \A v \in 1..Volumes : volume'[v] # None
      BY <1>2, <2>1, <2>3
    <3>3. AtVolumes(p)'
      BY <3>1, <3>2 DEF AtVolumes, Seeding
    <3>4. AtClient(p)'
      BY <3>1 DEF AtClient, Under
    <3> QED BY <1>6, <2>2, <3>3, <3>4 DEF Relies
  <2>4. CASE /\ GoesOn(p, "volumes") /\ proc'[p].at = v0 + 1
             /\ v0 \in 1..Volumes /\ volume[v0] # None
    <3>1. \A v \in 1..Volumes : v < v0 + 1 => volume'[v] # None
      BY <1>2, <2>1, <2>4
    <3>2. AtVolumes(p)' /\ AtClient(p)'
      BY <2>4, <3>1 DEF GoesOn, AtVolumes, AtClient, Seeding, Under
    <3> QED BY <1>6, <2>2, <3>2 DEF Relies
  <2>5. CASE /\ GoesOn(p, "create") /\ proc'[p].at = v0
             /\ v0 \in 1..Volumes /\ volume[v0] = None
    <3>1. AtVolumes(p)' /\ AtClient(p)'
      BY <1>2, <2>1, <2>5 DEF GoesOn, AtVolumes, AtClient, Seeding, Under
    <3> QED BY <1>6, <2>2, <3>1 DEF Relies
  <2> QED BY <1>m, <1>7, <2>3, <2>4, <2>5 DEF VolumeMoves
<1>8. CASE CreateVolume(p)
  <2>1. proc[p].pc = "create" /\ used' = used /\ v0 \in 1..Volumes
    BY <1>2, <1>8 DEF CreateVolume
  <2>2. CASE Ended(p) /\ volume' = volume
    BY <1>1, <1>3, <1>4, <2>1, <2>2 DEF Stored, Seeding
  <2>3. CASE volume' = [volume EXCEPT ![v0] = IF @ = None THEN Empty ELSE @]
    <3>1. \A v \in 1..Volumes : /\ volume'[v] = IF v = v0 /\ volume[v] = None THEN Empty ELSE volume[v]
                                /\ volume[v] # None => volume'[v] # None
      BY <1>t, <2>1, <2>3 DEF TypeOK
    <3>2. volume'[v0] # None
      BY <2>1, <3>1
    <3>3. CASE GoesOn(p, "seed") /\ proc'[p].at = v0 /\ v0 \in Seeded
      <4>1. volume[v0] = None /\ v0 \notin used /\ container = None
        BY <1>3, <1>f, <2>1, <3>3 DEF AtVolumes
      <4>2. Seeding(p)' /\ proc'[p].pc = "seed"
        BY <3>3 DEF Seeding, GoesOn
      <4>3. \A v \in Seeded : volume'[v] = Empty => v \in cutOff \/ v = v0
        BY <1>3, <2>1, <3>1 DEF Seeding
      <4>4. Stored'
        <5>1. used' \subseteq 1..Volumes
          BY <1>t, <2>1 DEF TypeOK
        <5> QED BY <1>1, <1>3, <2>1, <3>1, <3>3, <4>1, <4>2, <4>3, <5>1 DEF Stored
      <4>5. AtVolumes(p)' /\ AtClient(p)'
        BY <1>1, <1>2, <2>1, <3>1, <3>3, <4>1, <4>2 DEF AtVolumes, AtClient, Under
      <4> QED BY <1>6, <4>4, <4>5 DEF Relies
    <3>4. CASE GoesOn(p, "volumes") /\ proc'[p].at = v0 + 1 /\ v0 \notin Seeded
      <4>1. \A v \in Seeded : volume'[v] = Empty => v \in cutOff
        BY <1>3, <2>1, <3>1, <3>4 DEF Seeding
      <4>2. Stored'
        <5>1. used' \subseteq 1..Volumes
          BY <1>t, <2>1 DEF TypeOK
        <5> QED BY <1>1, <1>3, <2>1, <3>1, <4>1, <5>1 DEF Stored
      <4>3. \A v \in 1..Volumes : v < v0 + 1 => volume'[v] # None
        BY <1>2, <3>1, <3>2
      <4>4. AtVolumes(p)' /\ AtClient(p)'
        BY <3>4, <4>3 DEF GoesOn, AtVolumes, AtClient, Seeding, Under
      <4> QED BY <1>6, <4>2, <4>4 DEF Relies
    <3> QED BY <1>m, <1>8, <1>4, <3>3, <3>4, <2>2 DEF VolumeMoves
  <2> QED BY <1>m, <1>8, <2>2, <2>3 DEF VolumeMoves
<1>9. CASE SeedVolume(p)
  <2>1. /\ proc[p].pc = "seed" /\ v0 \in 1..Volumes /\ used' = used \ {v0}
        /\ GoesOn(p, "volumes") /\ proc'[p].at = v0 + 1
    BY <1>m, <1>2, <1>9 DEF SeedVolume, VolumeMoves
  <2>2. \A v \in 1..Volumes : volume'[v] = IF v = v0 THEN tokenFile ELSE volume[v]
    BY <1>t, <1>2, <1>9 DEF SeedVolume, TypeOK
  <2>3. \A v \in Seeded : volume'[v] = Empty => v \in cutOff
    BY <1>2, <1>3, <2>2
  <2>4. Stored'
    <3>1. used' \subseteq 1..Volumes
      BY <1>t, <2>1 DEF TypeOK
    <3> QED BY <1>1, <1>2, <1>3, <2>1, <2>2, <2>3, <3>1 DEF Stored
  <2>5. \A v \in 1..Volumes : v < v0 + 1 => volume'[v] # None
    BY <1>2, <2>2
  <2>6. AtVolumes(p)' /\ AtClient(p)'
    BY <2>1, <2>5 DEF GoesOn, AtVolumes, AtClient, Seeding, Under
  <2> QED BY <1>6, <2>4, <2>6 DEF Relies
<1>10. CASE SeedFails(p)
  <2>1. /\ proc[p].pc = "seed" /\ volume' = volume /\ used' = used
        /\ GoesOn(p, "rollback") /\ proc'[p].at = v0
    BY <1>m, <1>10 DEF SeedFails, VolumeMoves, disk
  <2>2. Seeding(p)' /\ Seeding(p)
    BY <2>1 DEF Seeding, GoesOn
  <2>3. Stored'
    BY <1>1, <1>3, <2>1, <2>2 DEF Stored
  <2>4. AtVolumes(p)' /\ AtClient(p)'
    BY <1>1, <1>2, <1>f, <2>1, <2>2 DEF GoesOn, AtVolumes, AtClient, Under
  <2> QED BY <1>6, <2>3, <2>4 DEF Relies
<1>11. CASE DropVolume(p)
  <2>1. proc[p].pc = "rollback" /\ Ended(p) /\ container = None /\ v0 \in 1..Volumes
    BY <1>m, <1>2, <1>11, <1>f DEF VolumeMoves, AtVolumes, Seeding
  <2>2. used' = used \ {v0} /\ \A v \in 1..Volumes : volume'[v] = IF v = v0 THEN None ELSE volume[v]
    BY <1>t, <1>11, <2>1 DEF DropVolume, TypeOK
  <2>3. \A v \in Seeded : volume'[v] = Empty => v \in cutOff
    BY <1>3, <2>2
  <2>4. Stored'
    <3>1. used' \subseteq 1..Volumes
      BY <1>t, <2>2 DEF TypeOK
    <3> QED BY <1>1, <1>3, <2>1, <2>2, <2>3, <3>1 DEF Stored
  <2> QED BY <1>4, <2>1, <2>4
<1> QED BY <1>7, <1>8, <1>9, <1>10, <1>11

\* Under run_sidecars the token and the volumes stay.
LEMMA UnderKept ==
  ASSUME SidecarInv, Unshelled, Serial, NEW p \in Procs, InSession(p), proc[p].pc \in Under,
         UNCHANGED <<tokenFile, volume, cutOff>>,
         InSession(p)' => proc'[p].pc \in Under /\ proc'[p].tok = proc[p].tok
  PROVE  /\ used' \subseteq 1..Volumes => Stored'
         /\ InSession(p)' => AtToken(p)' /\ AtVolumes(p)'
<1>1. AtToken(p) /\ AtVolumes(p)
  BY Lone DEF Relies
<1>2. ~Seeding(p)
  BY DEF Seeding, Under
<1>3. \A v \in Seeded : volume[v] = Empty => v \in cutOff
  BY <1>2, Lone
<1>4. \A v \in 1..Volumes : volume[v] # None
  BY <1>1 DEF AtVolumes
<1>5. Under \cap {"token", "mint", "write", "prepare", "build", "volumes", "create", "seed", "rollback"} = {}
  BY DEF Under
<1>6. used' \subseteq 1..Volumes => Stored'
  BY <1>3, <1>4 DEF Serial, Stored
<1>7. InSession(p)' => AtToken(p)' /\ AtVolumes(p)'
  BY <1>1, <1>4, <1>5 DEF AtToken, AtVolumes, Seeding
<1> QED BY <1>6, <1>7

LEMMA SidecarPart ==
  ASSUME SidecarInv, Unshelled, Serial, NEW p \in Procs, InSession(p),
         \/ StartServer(p) \/ StartKubectl(p) \/ StartProxyProcess(p) \/ StartRbacServer(p)
         \/ WriteKubeconfig(p)
  PROVE  Stored' /\ (InSession(p)' => Relies(p)')
<1> USE ConstantsAssumption DEF ConstantsAssumption
<1>t. TypeOK /\ Placed(p) /\ proc[p] \in Process /\ ~proc[p].shell
  BY DEF SidecarInv, Sidecar, TypeOK, InSession
<1>m. SidecarMoves(p)
  BY <1>t, Moves
<1>f. AtClient(p)
  BY Lone DEF Relies
<1>1. /\ proc[p].pc \in {"sidecars", "context", "rbac"}
      /\ UNCHANGED <<tokenFile, volume, cutOff, used, container>>
  BY DEF StartServer, StartKubectl, StartProxyProcess, StartRbacServer, WriteKubeconfig, host, disk
<1>2. proc'[p].pc \in Under /\ proc'[p].tok = proc[p].tok
  BY <1>m DEF SidecarMoves, GoesOn, Under
<1>3. Stored' /\ (InSession(p)' => AtToken(p)' /\ AtVolumes(p)')
  BY <1>t, <1>1, <1>2, UnderKept DEF Under, TypeOK
<1>4. /\ \A k \in FileServers : k <= proc[p].started => client[k] = p
      /\ proc[p].started \in Nat
      /\ FileServers \subseteq 1..Servers /\ Kubectl \notin FileServers
      /\ proc[p].pc \in {"context", "rbac"} => proc[p].started = Kubectl
  BY <1>t, <1>1, <1>f DEF AtClient, Under, Process, Kubectl, Placed
<1>5. AtClient(p)'
  <2>1. CASE StartServer(p)
    <3>1. CASE GoesOn(p, "stop")
      BY <3>1 DEF GoesOn, AtClient
    <3>2. CASE /\ GoesOn(p, "sidecars") /\ proc'[p].started = proc[p].started + 1
               /\ client' = IF ~proc[p].shell /\ proc[p].started + 1 \in FileServers
                              THEN [client EXCEPT ![proc[p].started + 1] = p] ELSE client
      <4>1. \A k \in FileServers : k <= proc[p].started + 1 => client'[k] = p
        BY <1>t, <1>4, <3>2 DEF TypeOK
      <4> QED BY <3>2, <4>1 DEF GoesOn, AtClient
    <3> QED BY <1>m, <2>1, <3>1, <3>2 DEF SidecarMoves
  <2>2. CASE StartKubectl(p)
    <3>1. client' = client /\ proc[p].started = Servers
      BY <2>2 DEF StartKubectl, host
    <3>2. \A k \in FileServers : client'[k] = p
      BY <1>4, <3>1
    <3>3. (Contexts = 0 /\ proc'[p].pc = "run") \/ proc'[p].pc = "context"
      BY <1>m, <2>2 DEF SidecarMoves, GoesOn
    <3> QED BY <3>2, <3>3 DEF AtClient
  <2>3. CASE StartProxyProcess(p) \/ StartRbacServer(p)
    <3>1. client' = client /\ proc'[p].started = proc[p].started
      BY <1>m, <2>3 DEF StartProxyProcess, StartRbacServer, host, SidecarMoves
    <3>2. proc'[p].pc \in {"rbac", "context"}
      BY <1>m, <2>3 DEF SidecarMoves, GoesOn
    <3> QED BY <1>4, <3>1, <3>2 DEF AtClient
  <2>4. CASE WriteKubeconfig(p)
    <3>1. CASE GoesOn(p, "stop")
      BY <3>1 DEF GoesOn, AtClient
    <3>2. CASE GoesOn(p, "run") /\ client' = [client EXCEPT ![Kubectl] = p]
      <4>1. proc'[p].started = proc[p].started
        BY <1>m, <2>4 DEF SidecarMoves
      <4>2. client'[Kubectl] = p /\ \A k \in FileServers : client'[k] = client[k]
        BY <1>t, <1>4, <3>2 DEF TypeOK
      <4> QED BY <1>4, <4>1, <4>2 DEF AtClient
    <3> QED BY <1>t, <1>m, <2>4, <3>1, <3>2 DEF SidecarMoves
  <2> QED BY <2>1, <2>2, <2>3, <2>4
<1> QED BY <1>3, <1>5 DEF Relies

LEMMA RunPart ==
  ASSUME SidecarInv, Unshelled, Serial, NEW p \in Procs, InSession(p),
         \/ Run(p) \/ ContainerEnds(p) \/ StopSidecar(p) \/ EndLaunch(p)
  PROVE  Stored' /\ (InSession(p)' => Relies(p)')
<1>t. TypeOK /\ proc[p] \in Process /\ ~proc[p].shell
  BY DEF SidecarInv, TypeOK, InSession
<1>m. RunMoves(p)
  BY <1>t, Moves
<1>f. AtVolumes(p) /\ AtClient(p)
  BY Lone DEF Relies
<1>1. proc[p].pc \in {"run", "running", "stop"}
  BY DEF Run, ContainerEnds, StopSidecar, EndLaunch, InSession, UnderWay, Before, Under
<1>2. UNCHANGED <<tokenFile, volume, cutOff, client>>
  <2>1. CASE Run(p)
    <3>1. \A v \in 1..Volumes : volume[v] # None
      BY <1>1, <1>f DEF AtVolumes, Under
    <3>2. volume' = [v \in 1..Volumes |-> volume[v]]
      BY <1>t, <2>1, <3>1 DEF Run
    <3> QED BY <1>t, <2>1, <3>2 DEF Run, host, TypeOK
  <2>2. CASE ContainerEnds(p) \/ StopSidecar(p) \/ EndLaunch(p)
    BY <2>2 DEF ContainerEnds, StopSidecar, EndLaunch, host, disk
  <2> QED BY <2>1, <2>2
<1>3. InSession(p)' => proc'[p].pc \in {"running", "stop"} /\ proc'[p].tok = proc[p].tok
  BY <1>m, <1>1 DEF RunMoves, GoesOn, Ended, InSession, UnderWay, Before, Under
<1>4. used' \subseteq 1..Volumes
  BY <1>t DEF Run, ContainerEnds, StopSidecar, EndLaunch, TypeOK
<1>5. Stored' /\ (InSession(p)' => AtToken(p)' /\ AtVolumes(p)')
  BY <1>1, <1>2, <1>3, <1>4, UnderKept DEF Under
<1>6. InSession(p)' => AtClient(p)'
  <2>1. CASE Run(p)
    BY <1>m, <1>2, <1>3, <1>f, <2>1 DEF RunMoves, AtClient, Under
  <2>2. CASE ContainerEnds(p) \/ StopSidecar(p) \/ EndLaunch(p)
    <3>1. InSession(p)' => proc'[p].pc = "stop"
      BY <1>m, <1>1, <2>2 DEF RunMoves, GoesOn, Ended, InSession, UnderWay, Before, Under
    <3> QED BY <3>1 DEF AtClient
  <2> QED BY <2>1, <2>2
<1> QED BY <1>5, <1>6 DEF Relies

LEMMA CutPart ==
  ASSUME SidecarInv, Unshelled, Serial, NEW p \in Procs, InSession(p), Interrupt(p) \/ Kill(p)
  PROVE  Stored' /\ (InSession(p)' => Relies(p)')
<1>t. TypeOK
  BY DEF SidecarInv
<1>m. RunMoves(p)
  BY <1>t, Moves
<1>1. UNCHANGED <<tokenFile, volume, client, container, used>> /\ CutOff(p)
  BY DEF Interrupt, Kill, host
<1>2. Stored'
  <2>1. \A v \in Seeded : volume[v] = Empty => v \in cutOff'
    BY <1>1, Lone DEF CutOff
  <2> QED BY <1>1, <2>1 DEF Serial, Stored
<1>3. InSession(p)' => proc[p].pc \in Under /\ GoesOn(p, "stop")
  BY <1>m DEF RunMoves, Ended, InSession, UnderWay, Before, Under
<1>4. InSession(p)' => AtToken(p)' /\ AtVolumes(p)'
  <2> SUFFICES ASSUME InSession(p)' PROVE AtToken(p)' /\ AtVolumes(p)'
    OBVIOUS
  <2>1. cutOff' = cutOff
    BY <1>1, <1>3 DEF CutOff, Seeding, Under
  <2> QED BY <1>1, <1>3, <2>1, UnderKept DEF GoesOn, Under
<1>5. InSession(p)' => AtClient(p)'
  BY <1>3 DEF GoesOn, AtClient
<1> QED BY <1>2, <1>4, <1>5 DEF Relies

-----------------------------------------------------------------------------
(* The session's invariant. *)

\* The launch that is in the session makes a step.
LEMMA OwnStep ==
  ASSUME SidecarInv, Unshelled, Serial, NEW p \in Procs, InSession(p), Step(p)
  PROVE  Stored' /\ (InSession(p)' => Relies(p)')
<1>1. ~LaunchSession(p) /\ ~LaunchShell(p)
  BY DEF LaunchSession, LaunchShell, InSession, UnderWay, Before, Under
<1> QED BY <1>1, TokenPart, VolumePart, SidecarPart, RunPart, CutPart DEF Step

\* Only sessions.launch enters the session.
LEMMA Entered ==
  ASSUME SidecarInv, Unshelled, NEW p \in Procs, ~InSession(p), InSession(p)', Step(p)
  PROVE  LaunchSession(p)
<1>t. TypeOK /\ proc[p].shell \in BOOLEAN
  BY DEF SidecarInv, TypeOK, Process
<1>m. TokenMoves(p) /\ VolumeMoves(p) /\ SidecarMoves(p) /\ RunMoves(p)
  BY <1>t, Moves
<1>1. proc'[p].pc \in Before \cup Under /\ ~proc'[p].shell
  BY DEF InSession, UnderWay
<1>2. proc[p].pc \notin Before \cup Under \/ proc[p].shell
  BY DEF InSession, UnderWay
<1>3. ~Ended(p) /\ (proc[p].shell => \A pc : ~GoesOn(p, pc))
  BY <1>1 DEF Ended, GoesOn, Before, Under
<1>4. ~LaunchShell(p) /\ ~FindToken(p) /\ ~OpenTokenFile(p) /\ ~WriteToken(p)
      /\ ~PrepareSidecars(p) /\ ~BuildImage(p)
  BY <1>m, <1>1, <1>2, <1>3 DEF TokenMoves, Before
<1>5. ~InspectVolume(p) /\ ~CreateVolume(p) /\ ~SeedVolume(p) /\ ~SeedFails(p) /\ ~DropVolume(p)
  BY <1>m, <1>1, <1>2, <1>3 DEF VolumeMoves, Before
<1>6. ~StartServer(p) /\ ~StartKubectl(p) /\ ~StartProxyProcess(p) /\ ~StartRbacServer(p)
      /\ ~WriteKubeconfig(p)
  BY <1>m, <1>1, <1>2, <1>3 DEF SidecarMoves, Under
<1>7. ~Run(p) /\ ~ContainerEnds(p) /\ ~StopSidecar(p) /\ ~EndLaunch(p)
  BY <1>m, <1>1, <1>2, <1>3 DEF RunMoves, Before, Under
<1>8. ~Interrupt(p) /\ ~Kill(p)
  BY <1>m, <1>1, <1>2, <1>3 DEF RunMoves, Before, Under
<1> QED BY <1>4, <1>5, <1>6, <1>7, <1>8 DEF Step

LEMMA SessionStep ==
  ASSUME SessionInv, NEW p \in Procs, Step(p)
  PROVE  SessionInv'
<1>i. SidecarInv /\ Unshelled
  BY DEF SessionInv
<1>t. TypeOK /\ Placed(p)
  BY <1>i DEF SidecarInv, Sidecar
<1>l. Local(p)
  BY <1>t, StepLocal
<1>1. SidecarInv' /\ Unshelled'
  BY <1>i, SidecarStep, UnshelledStep
<1>2. ASSUME ~overlapped' PROVE Serial'
  <2>0. overlapped' = overlapped \/ LaunchSession(p)
    BY DEF Step, LaunchSession, LaunchShell, FindToken, OpenTokenFile, WriteToken, PrepareSidecars,
         BuildImage, InspectVolume, CreateVolume, SeedVolume, SeedFails, DropVolume,
         StartServer, StartKubectl, StartProxyProcess, StartRbacServer, WriteKubeconfig,
         Run, ContainerEnds, StopSidecar, EndLaunch, Interrupt, Kill, host
  <2>1. /\ ~overlapped
        /\ LaunchSession(p) => \A q \in Procs : ~InSession(q)
    <3>1. LaunchSession(p) => ~overlapped /\ {q \in Procs : UnderWay(q) /\ ~proc[q].shell} = {}
      BY <1>2 DEF LaunchSession
    <3> QED BY <1>2, <2>0, <3>1 DEF InSession
  <2>2. Serial
    BY <2>1 DEF SessionInv
  <2>3. \A q \in Procs : q # p => (InSession(q)' <=> InSession(q))
    BY <1>l DEF Local, InSession, UnderWay
  <2>4. CASE InSession(p)
    <3>1. \A q \in Procs : InSession(q)' => q = p
      BY <2>2, <2>3, <2>4 DEF Serial, Alone
    <3>2. Stored' /\ (InSession(p)' => Relies(p)')
      BY <1>i, <2>2, <2>4, OwnStep
    <3> QED BY <3>1, <3>2 DEF Serial, Alone
  <2>5. CASE ~InSession(p) /\ InSession(p)'
    <3>1. LaunchSession(p)
      BY <1>i, <2>5, Entered
    <3>2. \A q \in Procs : InSession(q)' => q = p
      BY <2>1, <2>3, <3>1
    <3>3. UNCHANGED <<tokenFile, volume, cutOff, used, container>>
      BY <3>1 DEF LaunchSession, disk
    <3>4. proc[p].pc = "idle" /\ proc'[p].pc = "token" /\ proc'[p].at = 1
      BY <1>t, <1>i, <3>1, Moves DEF TokenMoves, GoesOn, Unshelled
    <3>5. Stored'
      <4>1. \A q \in Procs : ~Seeding(q)
        BY <1>i, <2>1, <3>1 DEF Seeding, Unshelled, SessionSteps, InSession, UnderWay, Before
      <4>2. \A v \in Seeded : volume[v] = Empty => v \in cutOff
        BY <2>2, <4>1 DEF Serial, Stored
      <4> QED BY <2>2, <3>3, <4>2 DEF Serial, Stored
    <3>6. Relies(p)'
      BY <3>4 DEF Relies, AtToken, AtVolumes, AtClient, Seeding, Under
    <3> QED BY <3>2, <3>5, <3>6 DEF Serial, Alone
  <2>6. CASE ~InSession(p) /\ ~InSession(p)'
    <3>1. /\ tokenFile' = tokenFile /\ client' = client /\ cutOff' = cutOff
          /\ container' \in {container, None}
          /\ \A v \in 1..Volumes : \/ volume'[v] = volume[v]
                                   \/ v \notin Seeded /\ volume[v] = None /\ volume'[v] = Empty
          /\ used \subseteq used'
          /\ \A v \in used' : v \in used \/ (v \in (1..Volumes) \ Seeded /\ volume'[v] # None)
      BY <1>i, <2>6, ShellStep
    <3>2. Alone'
      BY <2>2, <2>3, <2>6 DEF Serial, Alone
    <3>e. /\ \A v \in 1..Volumes : volume[v] # None => volume'[v] # None
          /\ Seeded \subseteq 1..Volumes /\ used \subseteq 1..Volumes
      BY <1>t, <3>1, ConstantsAssumption DEF ConstantsAssumption, TypeOK
    <3>3. Stored'
      <4>1. ~Seeding(p)
        BY <1>i, <2>6 DEF Seeding, Unshelled, SessionSteps, InSession, UnderWay, Before
      <4>2. \A q \in Procs : Seeding(q) => Seeding(q)' /\ proc'[q].at = proc[q].at
        BY <1>l, <4>1 DEF Seeding, Local
      <4>3. \A v \in Seeded : volume'[v] = Empty =>
              v \in cutOff' \/ \E q \in Procs : Seeding(q)' /\ proc'[q].at = v
        <5> SUFFICES ASSUME NEW v \in Seeded, volume'[v] = Empty, v \notin cutOff'
                     PROVE  \E q \in Procs : Seeding(q)' /\ proc'[q].at = v
          OBVIOUS
        <5>1. volume[v] = Empty /\ v \notin cutOff
          BY <3>1, <3>e
        <5>2. PICK q \in Procs : Seeding(q) /\ proc[q].at = v
          BY <2>2, <5>1 DEF Serial, Stored
        <5> QED BY <4>2, <5>2
      <4>4. \A v \in 1..Volumes : volume'[v] \in {None, Empty, tokenFile'}
        BY <2>2, <3>1 DEF Serial, Stored
      <4>5. \A v \in used' : volume'[v] # None
        BY <2>2, <3>1, <3>e DEF Serial, Stored
      <4>6. container' # None => \A v \in 1..Volumes : volume'[v] # None
        BY <2>2, <3>1, <3>e DEF Serial, Stored
      <4> QED BY <4>3, <4>4, <4>5, <4>6 DEF Stored
    <3>4. ASSUME NEW q \in Procs, InSession(q)' PROVE Relies(q)'
      <4>1. q # p /\ InSession(q) /\ proc'[q] = proc[q]
        BY <1>l, <2>3, <2>6, <3>4 DEF Local
      <4>2. AtToken(q) /\ AtVolumes(q) /\ AtClient(q) /\ Placed(q)
        BY <1>i, <2>2, <4>1 DEF Serial, Relies, SidecarInv, Sidecar
      <4>3. AtToken(q)'
        BY <3>1, <4>1, <4>2 DEF AtToken
      <4>4. AtClient(q)'
        BY <3>1, <4>1, <4>2 DEF AtClient
      <4>5. AtVolumes(q)'
        <5>1. proc[q].pc = "create" /\ proc[q].at \in Seeded => volume'[proc[q].at] = None
          BY <3>1, <3>e, <4>2 DEF AtVolumes
        <5>2. Seeding(q) => proc[q].at \notin used' /\ container' = None
          BY <3>1, <4>2 DEF AtVolumes, Placed, Seeding
        <5>3. \A v \in 1..Volumes : volume[v] # None => volume'[v] # None
          BY <3>e
        <5> QED BY <4>1, <4>2, <5>1, <5>2, <5>3 DEF AtVolumes, Seeding
      <4> QED BY <4>3, <4>4, <4>5 DEF Relies
    <3> QED BY <3>2, <3>3, <3>4 DEF Serial
  <2> QED BY <2>4, <2>5, <2>6
<1> QED BY <1>1, <1>2 DEF SessionInv

LEMMA SessionInit == Init => SessionInv
<1> SUFFICES ASSUME Init PROVE SessionInv
  OBVIOUS
<1> USE ConstantsAssumption DEF ConstantsAssumption
<1>1. \A p \in Procs : proc[p].pc = "idle" /\ ~proc[p].shell /\ proc[p].at = 1
  BY DEF Init, NewProcess
<1>2. container = None /\ used = {} /\ \A v \in 1..Volumes : volume[v] = None
  BY DEF Init
<1>3. \A p \in Procs : ~InSession(p)
  BY <1>1 DEF InSession, UnderWay, Before, Under
<1>4. Stored
  BY <1>2 DEF Stored
<1> QED BY <1>1, <1>2, <1>3, <1>4, SidecarInit DEF SessionInv, Unshelled, Serial, Alone

THEOREM SessionInvariance == Spec => []SessionInv
<1>1. SessionInv /\ [Next]_vars => SessionInv'
  <2> SUFFICES ASSUME SessionInv, [Next]_vars PROVE SessionInv'
    OBVIOUS
  <2>1. CASE UNCHANGED vars
    BY <2>1 DEF vars, host, disk, SessionInv, SidecarInv, TypeOK, Sidecar, Placed, Accounted,
                Standing, Swept, Unshelled, Serial, Alone, Stored, Relies, AtToken, AtVolumes,
                AtClient, InSession, UnderWay, Seeding
  <2>2. CASE \E p \in Procs : Step(p)
    BY <2>2, SessionStep
  <2> QED BY <2>1, <2>2 DEF Next, Finished
<1> QED BY <1>1, SessionInit, PTL DEF Spec

\* Of launches that do not overlap, each runs its agent on volumes and client files
\* that fit its own proxies, whatever failed in the launches before it.
THEOREM AgentServedHolds == Spec => []AgentServed
<1>1. SessionInv => AgentServed
  <2> SUFFICES ASSUME SessionInv, container # None, proc[container].pc = "running", ~overlapped
               PROVE  /\ \A v \in Seeded \ cutOff : volume[v] = proc[container].tok
                      /\ \A k \in Sidecars \cap DOMAIN client : client[k] = container
    BY DEF AgentServed
  <2> USE ConstantsAssumption DEF ConstantsAssumption
  <2>1. SidecarInv /\ Unshelled /\ Serial /\ TypeOK
    BY DEF SessionInv, SidecarInv
  <2>2. container \in Procs /\ InSession(container)
    BY <2>1 DEF TypeOK, InSession, UnderWay, Under, Unshelled
  <2>3. Relies(container) /\ ~Seeding(container)
    BY <2>1, <2>2, Lone DEF Seeding
  <2>4. \A v \in Seeded : volume[v] = Empty => v \in cutOff
    BY <2>1, <2>2, <2>3, Lone
  <2>5. \A v \in 1..Volumes : volume[v] # None /\ volume[v] \in {None, Empty, tokenFile}
    BY <2>1, <2>3 DEF Serial, Stored, Relies, AtVolumes, Under
  <2>6. proc[container].tok = tokenFile
    BY <2>3 DEF Relies, AtToken
  <2>7. \A k \in FileServers : client[k] = container
    <3>1. proc[container].started = IF Contexts = 0 THEN Servers ELSE Kubectl
      BY <2>1, <2>2 DEF SidecarInv, Sidecar, Placed
    <3>2. \A k \in FileServers : k <= proc[container].started
      BY <3>1 DEF Kubectl
    <3> QED BY <2>3, <3>2 DEF Relies, AtClient, Under
  <2>8. Contexts # 0 => client[Kubectl] = container
    BY <2>3 DEF Relies, AtClient, Under
  <2>9. DOMAIN client = FileServers \cup {Kubectl} /\ (Contexts = 0 => Kubectl \notin Sidecars)
    BY <2>1 DEF TypeOK, Sidecars, Kubectl
  <2> QED BY <2>4, <2>5, <2>6, <2>7, <2>8, <2>9
<1> QED BY <1>1, SessionInvariance, PTL

\* Of launches that do not overlap, none seeds or removes a volume that an agent
\* has written to.
THEOREM WritesKeptHolds == Spec => WritesKept
<1>1. SessionInv /\ [Next]_vars => [used \subseteq used' \/ overlapped']_vars
  <2> SUFFICES ASSUME SessionInv, NEW p \in Procs, Step(p), ~overlapped'
               PROVE  used \subseteq used'
    BY DEF Next, Finished
  <2>1. CASE SeedVolume(p) \/ DropVolume(p)
    <3>1. ~overlapped /\ Seeding(p)
      BY <2>1 DEF SeedVolume, DropVolume, host, Seeding
    <3>2. InSession(p)
      BY <3>1 DEF SessionInv, Unshelled, SessionSteps, Seeding, InSession, UnderWay, Before
    <3>3. proc[p].at \notin used
      BY <3>1, <3>2 DEF SessionInv, Serial, Relies, AtVolumes
    <3> QED BY <2>1, <3>3 DEF SeedVolume, DropVolume
  <2>2. CASE ~SeedVolume(p) /\ ~DropVolume(p)
    BY <2>2 DEF Step, LaunchSession, LaunchShell, FindToken, OpenTokenFile, WriteToken,
         PrepareSidecars, BuildImage, InspectVolume, CreateVolume, SeedFails,
         StartServer, StartKubectl, StartProxyProcess, StartRbacServer, WriteKubeconfig,
         Run, ContainerEnds, StopSidecar, EndLaunch, Interrupt, Kill
  <2> QED BY <2>1, <2>2
<1> QED BY <1>1, SessionInvariance, PTL DEF Spec, WritesKept
=============================================================================
