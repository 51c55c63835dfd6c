----------------------- MODULE SessionLifecycleProofs -----------------------
(***************************************************************************)
(* SessionLifecycle for any number of terminals, names, branches and       *)
(* commands, with and without pollers: its variables keep their types, a   *)
(* session's runtime identity never changes, and a branch of the user is   *)
(* neither deleted nor reset unless it was a session's generated branch.   *)
(*                                                                         *)
(* When no name is used twice, the agents' commits and conversations are   *)
(* kept, and no two sessions share resources.                              *)
(*                                                                         *)
(* One inductive invariant carries the first three.  The last two of them  *)
(* hold because every copy of a session's metadata, on disk, in a process  *)
(* or in a poller, agrees with the session's birth name and disowns the    *)
(* user's branches, those aside that were generated branches: a stale copy *)
(* written back is stale in its status, never in these.                    *)
(***************************************************************************)
EXTENDS SessionLifecycle, TLAPS

\* A copy names the resources under which its session was created.
Sound(m) == RuntimeName(m) = resOf[m.uid]

\* A copy does not own a branch of the user, but for one that was some
\* session's generated branch.
Disowns(m) == m.branch \in UserBranches \ taken => ~m.owned

\* Only before its worktree is made does a new session claim any branch: the one
\* generated from its name, or the one given with --branch.
Fits(pc, m) ==
  CASE pc = "worktree" -> m.branch = m.name
    [] pc = "attach"   -> HasWorktree(m)
    [] OTHER           -> Disowns(m)

StoreInv ==
  /\ meta \in [Names -> SessionMeta \cup {NoMeta}]
  /\ dirs \subseteq Names
  /\ \A n \in Names : meta[n] # NoMeta => Sound(meta[n]) /\ Disowns(meta[n])

ProcInv ==
  /\ proc \in [Procs -> Process]
  /\ \A p \in Procs : proc[p].m = NoMeta <=> proc[p].pc = "idle"
  /\ \A p \in Procs : proc[p].m # NoMeta =>
       Sound(proc[p].m) /\ Fits(proc[p].pc, proc[p].m)
  /\ \A p \in Procs : proc[p].pc \in {"promote", "rename"} => proc[p].key \in Names

PollInv ==
  /\ poll \in [Procs -> SUBSET SessionMeta]
  /\ \A p \in Procs : \A m \in poll[p] : Sound(m) /\ Disowns(m)

GitInv ==
  /\ wt \in [Names -> Branches \cup {NoBranch}]
  /\ branches \subseteq Branches
  /\ work \in [Branches -> SUBSET (Uids \cup {User})]
  /\ UserBranchSafe

VolInv == vol \in [Names -> SUBSET Uids]

SeenInv ==
  /\ used \subseteq Names
  /\ resOf \in [Uids -> Names \cup {NoName}]
  /\ taken \subseteq UserBranches \cap Names
  /\ saved \subseteq Uids
  /\ committed \subseteq Uids \X Branches
  /\ talked \subseteq Uids
  /\ givenUp \subseteq Uids
  /\ cancelled \subseteq Uids
  /\ ops \in Nat
  /\ kills \in Nat

IInv == StoreInv /\ ProcInv /\ PollInv /\ GitInv /\ VolInv /\ SeenInv

-----------------------------------------------------------------------------
(* Copies of the metadata. *)

\* A typed copy has a runtime name, and updating a status, a session id or
\* the ownership keeps its type, its runtime name and its branch.
LEMMA Copies ==
  ASSUME NEW m \in SessionMeta
  PROVE  /\ RuntimeName(m) \in Names
         /\ m # NoMeta
         /\ \A s \in {"in-progress", "running", "complete", "archived"} :
              LET c == [m EXCEPT !.status = s]
              IN  c \in SessionMeta /\ c.name = m.name /\ c.branch = m.branch
                  /\ (Sound(m) => Sound(c)) /\ (Disowns(m) => Disowns(c))
         /\ LET c == [m EXCEPT !.sid = "known"]
            IN  c \in SessionMeta /\ c.name = m.name /\ c.branch = m.branch
                /\ (Sound(m) => Sound(c)) /\ (Disowns(m) => Disowns(c))
         /\ LET c == [m EXCEPT !.owned = FALSE]
            IN  c \in SessionMeta /\ (Sound(m) => Sound(c)) /\ Disowns(c)
<1>1. RuntimeName(m) \in Names
  BY DEF RuntimeName, SessionMeta
<1>2. m # NoMeta
  BY NoMetaAssumption
<1>3. ASSUME NEW s \in {"in-progress", "running", "complete", "archived"}
      PROVE  LET c == [m EXCEPT !.status = s]
             IN  c \in SessionMeta /\ c.name = m.name /\ c.branch = m.branch
                 /\ (Sound(m) => Sound(c)) /\ (Disowns(m) => Disowns(c))
  BY DEF SessionMeta, Sound, Disowns, Fits, HasWorktree, RuntimeName
<1>4. LET c == [m EXCEPT !.sid = "known"]
      IN  c \in SessionMeta /\ c.name = m.name /\ c.branch = m.branch
          /\ (Sound(m) => Sound(c)) /\ (Disowns(m) => Disowns(c))
  BY DEF SessionMeta, Sound, Disowns, Fits, HasWorktree, RuntimeName
<1>5. LET c == [m EXCEPT !.owned = FALSE]
      IN  c \in SessionMeta /\ (Sound(m) => Sound(c)) /\ Disowns(c)
  BY DEF SessionMeta, Sound, Disowns, Fits, HasWorktree, RuntimeName
<1> QED
  BY <1>1, <1>2, <1>3, <1>4, <1>5

\* What create() fills in is a typed copy.
LEMMA NewCopies ==
  ASSUME NEW n \in Names, NEW t \in {"task", "chat"},
         NEW b \in Branches \cup {NoBranch}, NEW r \in Names,
         NEW s \in {"none", "known"}, NEW u \in Uids
  PROVE  LET c == CreatedMeta(n, t, b, r, s, u)
         IN  c \in SessionMeta /\ c.uid = u /\ c.branch = b /\ RuntimeName(c) = r
             /\ c.name = n
BY ConstantsAssumption DEF CreatedMeta, SessionMeta, RuntimeName

\* The process at work: its copy is typed and sound.
LEMMA AtWork ==
  ASSUME IInv, NEW p \in Procs, proc[p].pc # "idle"
  PROVE  /\ proc[p].m \in SessionMeta
         /\ Sound(proc[p].m)
         /\ Fits(proc[p].pc, proc[p].m)
         /\ proc[p].pc \in {"promote", "rename"} => proc[p].key \in Names
BY DEF IInv, ProcInv, Process

\* What is read from the store is a sound copy.
LEMMA Loaded ==
  ASSUME IInv, NEW n \in Names, meta[n] # NoMeta
  PROVE  meta[n] \in SessionMeta /\ Sound(meta[n]) /\ Disowns(meta[n])
BY DEF IInv, StoreInv

-----------------------------------------------------------------------------
(* What the building blocks preserve while no session is born. *)

LEMMA SaveKeeps ==
  ASSUME IInv, resOf' = resOf, taken \subseteq taken', NEW m \in SessionMeta, Sound(m), Disowns(m), Save(m)
  PROVE  StoreInv'
BY DEF IInv, StoreInv, Save, Sound, Disowns, Fits, HasWorktree, RuntimeName, SessionMeta

LEMMA StoreKeeps ==
  ASSUME IInv, resOf' = resOf, taken \subseteq taken', UNCHANGED store
  PROVE  StoreInv'
BY DEF IInv, StoreInv, store, Sound, Disowns, Fits, HasWorktree

LEMMA MoveDirKeeps ==
  ASSUME IInv, resOf' = resOf, taken \subseteq taken', NEW old \in Names, NEW new \in Names,
         MoveDir(old, new)
  PROVE  StoreInv'
BY DEF IInv, StoreInv, MoveDir, Sound, Disowns, Fits, HasWorktree

LEMMA ExitKeeps ==
  ASSUME IInv, resOf' = resOf, taken \subseteq taken', NEW p \in Procs, Exit(p)
  PROVE  ProcInv' /\ PollInv'
<1>1. Idle \in Process
  BY DEF Idle, Process, PCs, Commands
<1>2. ProcInv'
  BY <1>1 DEF IInv, ProcInv, Exit, Sound, Disowns, Fits, HasWorktree, Idle
<1>3. PollInv'
  BY DEF IInv, PollInv, Exit, Sound, Disowns, Fits, HasWorktree
<1> QED
  BY <1>2, <1>3

LEMMA GotoKeeps ==
  ASSUME IInv, resOf' = resOf, taken \subseteq taken', NEW p \in Procs, NEW m \in SessionMeta, Sound(m),
         NEW pc \in PCs \ {"idle", "promote", "rename"},
         Goto(p, pc, m),
         \/ Fits(pc, m)
         \/ pc = "scaffold" /\ (m.branch \in UserBranches \ taken' => ~m.owned)
  PROVE  ProcInv' /\ PollInv'
<1>1. m # NoMeta
  BY NoMetaAssumption
<1> DEFINE new == [proc[p] EXCEPT !.pc = pc, !.m = m]
<1>2. proc' = [proc EXCEPT ![p] = new]
  BY DEF IInv, ProcInv, Goto, Process
<1>3. new \in Process /\ new.pc = pc /\ new.m = m
  BY DEF IInv, ProcInv, Process
<1> HIDE DEF new
<1>4. ProcInv'
  BY <1>1, <1>2, <1>3 DEF IInv, ProcInv, Sound, Disowns, Fits, HasWorktree
<1>5. PollInv'
  BY DEF IInv, PollInv, Goto, Sound, Disowns, Fits, HasWorktree
<1> QED
  BY <1>4, <1>5

LEMMA GitKeeps ==
  ASSUME IInv, taken \subseteq taken', UNCHANGED git
  PROVE  GitInv'
BY DEF IInv, GitInv, git, UserBranchSafe

LEMMA AddWorktreeKeeps ==
  ASSUME IInv, NEW n \in Names, NEW b \in Branches,
         NEW commits \in SUBSET (Uids \cup {User}),
         taken \subseteq taken', b \in UserBranches \ taken' => User \in commits,
         AddWorktree(n, b, commits)
  PROVE  GitInv'
BY ConstantsAssumption
   DEF IInv, GitInv, AddWorktree, UserBranchSafe, Branches

LEMMA AddWorktreeFailsKeeps ==
  ASSUME IInv, taken \subseteq taken', NEW n \in Names, NEW b,
         AddWorktreeFails(n, b)
  PROVE  GitInv'
BY DEF IInv, GitInv, AddWorktreeFails, UserBranchSafe, WithoutWorktree

LEMMA RemoveKeeps ==
  ASSUME IInv, taken \subseteq taken', NEW m \in SessionMeta, Disowns(m),
         RemoveWorktreeAndBranch(m)
  PROVE  GitInv'
<1>1. m.name \in Names
  BY DEF SessionMeta
<1>2. wt' \in [Names -> Branches \cup {NoBranch}]
  BY <1>1 DEF IInv, GitInv, RemoveWorktreeAndBranch, WithoutWorktree
<1>3. CASE UNCHANGED <<branches, work>>
  BY <1>2, <1>3 DEF IInv, GitInv, UserBranchSafe
<1>4. CASE m.owned /\ DeleteBranch(wt', m.branch)
  <2>1. m.branch \notin UserBranches \ taken
    BY <1>4 DEF Disowns
  <2> QED
    BY <2>1, <1>2, <1>4, ConstantsAssumption
    DEF IInv, GitInv, UserBranchSafe, DeleteBranch, Branches
<1> QED
  BY <1>3, <1>4 DEF RemoveWorktreeAndBranch

\* A command starts with a sound copy.
LEMMA IssueKeeps ==
  ASSUME IInv, resOf' = resOf, taken \subseteq taken', NEW p \in Procs, NEW op \in Commands,
         NEW pc \in PCs, pc # "idle", NEW key \in Names \cup {NoName},
         pc \in {"promote", "rename"} => key \in Names,
         NEW m \in SessionMeta, Sound(m), Fits(pc, m),
         Issue(p, op, pc, m, key)
  PROVE  ProcInv' /\ PollInv' /\ ops' \in Nat
<1> DEFINE new == [pc |-> pc, op |-> op, m |-> m, key |-> key]
<1>1. m # NoMeta
  BY NoMetaAssumption
<1>2. new \in Process /\ new.pc = pc /\ new.m = m /\ new.key = key
  BY DEF Process
<1>3. proc' = [proc EXCEPT ![p] = new]
  BY DEF Issue
<1> HIDE DEF new
<1>4. ProcInv'
  BY <1>1, <1>2, <1>3 DEF IInv, ProcInv, Sound, Disowns, Fits, HasWorktree
<1>5. PollInv'
  BY DEF IInv, PollInv, Issue, Sound, Disowns, Fits, HasWorktree
<1>6. ops' \in Nat
  BY DEF IInv, SeenInv, Issue
<1> QED
  BY <1>4, <1>5, <1>6

-----------------------------------------------------------------------------
(* Commands. *)

\* The birth of a session leaves every other copy's identity alone: a copy's
\* uid has a name already, so it is not the fresh one.
LEMMA StartCreateKeeps ==
  ASSUME IInv, NEW p \in Procs, NEW op \in Commands, NEW t \in {"task", "chat"},
         NEW pc \in {"worktree", "attach", "scaffold"}, NEW n \in Names,
         NEW b \in Branches \cup {NoBranch},
         pc = "worktree" => b = n,
         pc = "attach" => b # NoBranch,
         pc = "scaffold" => b \notin UserBranches,
         StartCreate(p, op, t, pc, n, b)
  PROVE  IInv'
<1>1. PICK u \in Uids :
        /\ FreshUid(u)
        /\ Issue(p, op, pc,
                 CreatedMeta(n, t, b, n, IF Polling THEN "none" ELSE "known", u),
                 NoName)
        /\ used' = used \cup {n}
        /\ resOf' = [resOf EXCEPT ![u] = n]
        /\ UNCHANGED <<store, git, vol, taken, progress, wishes, kills>>
  BY DEF StartCreate
<1> DEFINE sid == IF Polling THEN "none" ELSE "known"
           new == CreatedMeta(n, t, b, n, sid, u)
           rec == [pc |-> pc, op |-> op, m |-> new, key |-> NoName]
<1>2. new \in SessionMeta /\ new.uid = u /\ new.branch = b /\ RuntimeName(new) = n
      /\ new.name = n
  BY NewCopies
<1>3. new # NoMeta
  BY <1>2, NoMetaAssumption
<1>4. rec \in Process /\ rec.pc = pc /\ rec.m = new
  BY <1>2 DEF Process, PCs
<1>5. proc' = [proc EXCEPT ![p] = rec] /\ poll' = poll /\ ops' = ops + 1
  BY <1>1 DEF Issue
<1> HIDE DEF new, sid, rec
<1>6. resOf \in [Uids -> Names \cup {NoName}] /\ resOf[u] = NoName
  BY <1>1 DEF IInv, SeenInv, FreshUid
<1>7. ASSUME NEW m \in SessionMeta, Sound(m)
      PROVE  Sound(m)'
  <2>1. m.uid \in Uids /\ RuntimeName(m) \in Names
    BY Copies DEF SessionMeta
  <2>2. m.uid # u
    BY <2>1, <1>6, <1>7, ConstantsAssumption DEF Sound
  <2> QED
    BY <2>1, <2>2, <1>1, <1>6, <1>7 DEF Sound
<1>8. Sound(new)'
  BY <1>1, <1>2, <1>6 DEF Sound
<1>9. StoreInv'
  <2>1. meta' = meta /\ dirs' = dirs /\ taken' = taken
    BY <1>1 DEF store
  <2> QED
    BY <2>1, <1>7 DEF IInv, StoreInv, Disowns
<1>10. ProcInv'
  <2>1. proc' \in [Procs -> Process]
    BY <1>4, <1>5 DEF IInv, ProcInv
  <2>2. \A q \in Procs : proc'[q].m = NoMeta <=> proc'[q].pc = "idle"
    BY <1>3, <1>4, <1>5 DEF IInv, ProcInv
  <2>3. ASSUME NEW q \in Procs, proc'[q].m # NoMeta
        PROVE  Sound(proc[q].m)' /\ Fits(proc[q].pc, proc[q].m)'
    <3>1. CASE q = p
      <4>1. proc'[q] = rec
        BY <3>1, <1>5 DEF IInv, ProcInv
      <4>2. Sound(proc[q].m)'
        BY <4>1, <1>4, <1>8 DEF Sound
      <4> QED
        BY <4>1, <4>2, <1>2, <1>4 DEF Disowns, Fits, HasWorktree
    <3>2. CASE q # p
      <4>1. proc'[q] = proc[q]
        BY <3>2, <1>5 DEF IInv, ProcInv
      <4>2. proc[q].m \in SessionMeta /\ Sound(proc[q].m)
        BY <2>3, <4>1 DEF IInv, ProcInv, Process
      <4>3. Sound(proc[q].m)'
        BY <4>1, <4>2, <1>7 DEF Sound
      <4> QED
        BY <1>1, <2>3, <4>1, <4>3 DEF IInv, ProcInv, Disowns, Fits, HasWorktree
    <3> QED
      BY <3>1, <3>2
  <2>4. \A q \in Procs : proc'[q].pc \in {"promote", "rename"} => proc'[q].key \in Names
    BY <1>4, <1>5 DEF IInv, ProcInv
  <2> QED
    BY <2>1, <2>2, <2>3, <2>4 DEF ProcInv
<1>11. PollInv'
  BY <1>1, <1>5, <1>7 DEF IInv, PollInv, Disowns
<1>12. GitInv'
  BY <1>1, GitKeeps
<1>13. VolInv'
  BY <1>1 DEF IInv, VolInv
<1>14. SeenInv'
  BY <1>1, <1>5 DEF IInv, SeenInv, progress, wishes
<1> QED
  BY <1>9, <1>10, <1>11, <1>12, <1>13, <1>14 DEF IInv

\* A command that reads one session's copy.
LEMMA LoadKeeps ==
  ASSUME IInv, NEW p \in Procs, NEW op \in Commands,
         NEW pc \in PCs \ {"idle", "worktree", "attach", "promote", "rename"},
         LoadFor(p, op, pc)
  PROVE  IInv'
<1>1. PICK n \in Names :
        /\ meta[n] # NoMeta
        /\ Issue(p, op, pc, meta[n], NoName)
        /\ UNCHANGED <<store, git, vol, identity, progress, wishes, kills>>
  BY DEF LoadFor
<1>2. meta[n] \in SessionMeta /\ Sound(meta[n]) /\ Disowns(meta[n])
  BY <1>1, Loaded
<1>3. ProcInv' /\ PollInv' /\ ops' \in Nat
  BY <1>1, <1>2, IssueKeeps DEF identity, Fits
<1> QED
  BY <1>1, <1>3, StoreKeeps, GitKeeps
  DEF IInv, VolInv, SeenInv, identity, progress, wishes

LEMMA CommandKeeps ==
  ASSUME IInv, NEW p \in Procs, Command(p)
  PROVE  IInv'
<1>1. CASE New(p)
  <2>1. PICK n \in Names :
          \/ StartCreate(p, "new", "task", "worktree", n, n)
          \/ \E b \in BranchArgs :
                 StartCreate(p, "new", "task", "attach", n, b)
          \/ StartCreate(p, "new", "task", "scaffold", n, NoBranch)
    BY <1>1 DEF New
  <2>2. NoBranch \notin UserBranches
    BY ConstantsAssumption DEF Branches
  <2>3. n \in Branches /\ BranchArgs \subseteq Branches \ {NoBranch}
    BY ConstantsAssumption DEF Branches
  <2>4. "new" \in Commands
    BY DEF Commands
  <2> QED
    BY <2>1, <2>2, <2>3, <2>4, StartCreateKeeps
<1>2. CASE Chat(p)
  <2>1. NoBranch \notin UserBranches
    BY ConstantsAssumption DEF Branches
  <2>2. "chat" \in Commands
    BY DEF Commands
  <2> QED
    BY <1>2, <2>1, <2>2, StartCreateKeeps DEF Chat
<1>3. ASSUME NEW op \in {"promote", "rename"}, NEW c \in Names, NEW n \in Names,
             meta[c] # NoMeta, Issue(p, op, op, meta[c], n),
             used' = used \cup {n},
             UNCHANGED <<store, git, vol, resOf, taken, progress, wishes, kills>>
      PROVE  IInv'
  <2>1. meta[c] \in SessionMeta /\ Sound(meta[c]) /\ Disowns(meta[c])
    BY <1>3, Loaded
  <2>2. op \in PCs \ {"idle"} /\ op \in Commands
    BY DEF PCs, Commands
  <2>3. ProcInv' /\ PollInv' /\ ops' \in Nat
    BY <1>3, <2>1, <2>2, IssueKeeps DEF Fits
  <2> QED
    BY <1>3, <2>3, StoreKeeps, GitKeeps DEF IInv, VolInv, SeenInv, progress, wishes
<1>4. CASE Promote(p)
  BY <1>3, <1>4 DEF Promote
<1>5. CASE Rename(p)
  BY <1>3, <1>5 DEF Rename
<1>6. CASE Resume(p) \/ Done(p) \/ Archive(p) \/ Delete(p)
  <2>1. /\ {"restore", "done", "archive", "confirm"} \subseteq
             PCs \ {"idle", "worktree", "attach", "promote", "rename"}
        /\ {"resume", "done", "archive", "delete"} \subseteq Commands
    BY DEF PCs, Commands
  <2> QED
    BY <1>6, <2>1, LoadKeeps DEF Resume, Done, Archive, Delete
<1> QED
  BY <1>1, <1>2, <1>4, <1>5, <1>6 DEF Command

-----------------------------------------------------------------------------
(* The steps of create() and rename. *)

\* A step that leaves the observations other than its own alone.
LEMMA SeenKeeps ==
  ASSUME IInv, UNCHANGED observed
  PROVE  SeenInv' /\ resOf' = resOf /\ taken \subseteq taken'
BY DEF IInv, SeenInv, observed, identity, progress, wishes

\* Promotion keeps the chat's identity and runtime name.
LEMMA PromotedCopies ==
  ASSUME NEW m \in SessionMeta, Sound(m), NEW n \in Names,
         NEW b \in Branches \cup {NoBranch}
  PROVE  LET c == PromotedMeta(m, n, b)
         IN  c \in SessionMeta /\ Sound(c) /\ c.branch = b /\ c.name = n
<1>1. RuntimeName(m) \in Names
  BY Copies
<1>2. m.sid \in {"none", "known"} /\ m.uid \in Uids
  BY DEF SessionMeta
<1> QED
  BY <1>1, <1>2, NewCopies DEF PromotedMeta, Sound

\* A renamed chat keeps its runtime name.
LEMMA RenamedCopies ==
  ASSUME NEW m \in SessionMeta, Sound(m), Disowns(m), NEW n \in Names
  PROVE  Renamed(m, n) \in SessionMeta /\ Sound(Renamed(m, n)) /\ Disowns(Renamed(m, n))
<1>1. RuntimeName(m) \in Names /\ RuntimeName(m) # NoName
  BY Copies, ConstantsAssumption
<1> DEFINE c == Renamed(m, n)
<1>2. /\ c \in SessionMeta /\ c.uid = m.uid /\ c.branch = m.branch
      /\ c.owned = m.owned /\ c.resource = RuntimeName(m)
  BY <1>1 DEF Renamed, SessionMeta
<1> HIDE DEF c
<1>3. RuntimeName(c) = RuntimeName(m)
  BY <1>1, <1>2 DEF RuntimeName
<1> QED
  BY <1>2, <1>3 DEF Sound, Disowns, Fits, HasWorktree, c

LEMMA PromoteCheckKeeps ==
  ASSUME IInv, NEW p \in Procs, PromoteCheck(p)
  PROVE  IInv'
<1> DEFINE m == proc[p].m
           n == proc[p].key
<1>1. m \in SessionMeta /\ Sound(m) /\ n \in Names
  BY AtWork DEF PromoteCheck
<1>2. SeenInv' /\ resOf' = resOf /\ taken \subseteq taken' /\ StoreInv' /\ GitInv' /\ VolInv'
  BY SeenKeeps, StoreKeeps, GitKeeps DEF PromoteCheck, IInv, VolInv
<1>3. CASE Exit(p)
  BY <1>2, <1>3, ExitKeeps DEF IInv
<1>4. ASSUME NEW pc \in {"worktree", "attach", "scaffold"},
             NEW b \in Branches \cup {NoBranch},
             pc = "worktree" => b = n,
             pc = "attach" => b # NoBranch,
             pc = "scaffold" => b \notin UserBranches,
             proc' = [proc EXCEPT ![p].pc = pc, ![p].key = m.name,
                                  ![p].m = PromotedMeta(m, n, b)],
             poll' = poll
      PROVE  IInv'
  <2> DEFINE new == PromotedMeta(m, n, b)
             rec == [proc[p] EXCEPT !.pc = pc, !.key = m.name, !.m = new]
  <2>1. new \in SessionMeta /\ Sound(new) /\ new.branch = b /\ new # NoMeta
        /\ new.name = n
    BY <1>1, <1>4, PromotedCopies, NoMetaAssumption
  <2>2. m.name \in Names /\ pc \in PCs
    BY <1>1 DEF SessionMeta, PCs
  <2>3. proc' = [proc EXCEPT ![p] = rec]
    BY <1>4 DEF IInv, ProcInv, Process
  <2> HIDE DEF new
  <2>4. rec \in Process /\ rec.pc = pc /\ rec.m = new
    BY <2>1, <2>2 DEF IInv, ProcInv, Process
  <2> HIDE DEF rec
  <2>5. rec.pc \notin {"idle", "promote", "rename"}
    BY <2>4
  <2>6. ProcInv'
    <3>1. proc' \in [Procs -> Process]
      BY <2>3, <2>4 DEF IInv, ProcInv
    <3>2. proc'[p] = rec
      BY <2>3 DEF IInv, ProcInv
    <3>3. Sound(proc[p].m)' /\ Fits(proc[p].pc, proc[p].m)'
      BY <1>2, <1>4, <2>1, <2>4, <3>2 DEF Sound, Disowns, Fits, HasWorktree
    <3>4. ASSUME NEW q \in Procs, q # p
          PROVE  proc'[q] = proc[q]
      BY <3>4, <2>3 DEF IInv, ProcInv
    <3> QED
      BY <1>2, <2>1, <2>4, <2>5, <3>1, <3>2, <3>3, <3>4
      DEF IInv, ProcInv, Sound, Disowns, Fits, HasWorktree
  <2>7. PollInv'
    BY <1>2, <1>4 DEF IInv, PollInv, Sound, Disowns, Fits, HasWorktree
  <2> QED
    BY <1>2, <2>6, <2>7 DEF IInv
<1>5. CASE MayPromote(m, n)
  <2>1. /\ NoBranch \notin UserBranches
        /\ n \in Branches /\ BranchArgs \subseteq Branches \ {NoBranch}
    BY <1>1, ConstantsAssumption DEF Branches
  <2> QED
    BY <1>4, <1>5, <2>1 DEF PromoteCheck
<1> QED
  BY <1>3, <1>5 DEF PromoteCheck

\* An existing --branch is attached to as it is and disowned.
LEMMA CreateWorktreeKeeps ==
  ASSUME IInv, NEW p \in Procs, CreateWorktree(p)
  PROVE  IInv'
<1> DEFINE m == proc[p].m
           b == m.branch
<1>1. m \in SessionMeta /\ Sound(m)
  BY AtWork DEF CreateWorktree
<1>2. /\ m.name \in Names /\ b \in Branches
      /\ proc[p].pc = "worktree" => b = m.name
  BY <1>1, AtWork DEF SessionMeta, CreateWorktree, Fits, HasWorktree, Branches
<1>3. resOf' = resOf /\ taken \subseteq taken' /\ StoreInv' /\ VolInv' /\ SeenInv'
  BY <1>2, StoreKeeps DEF CreateWorktree, IInv, VolInv, SeenInv, progress, wishes
<1>4. "scaffold" \in PCs \ {"idle", "promote", "rename"}
  BY DEF PCs
<1>5. CASE /\ Reuse(proc[p].pc, b)
           /\ AddWorktree(m.name, b, work[b])
           /\ Goto(p, "scaffold", [m EXCEPT !.owned = FALSE])
           /\ UNCHANGED taken
  <2>1. work[b] \in SUBSET (Uids \cup {User})
        /\ (b \in UserBranches \ taken' => User \in work[b])
    BY <1>2, <1>5 DEF IInv, GitInv, UserBranchSafe
  <2>2. GitInv'
    BY <1>2, <1>3, <1>5, <2>1, AddWorktreeKeeps
  <2> DEFINE c == [m EXCEPT !.owned = FALSE]
  <2>3. c \in SessionMeta /\ Sound(c) /\ Disowns(c)
    BY <1>1, Copies
  <2> HIDE DEF c
  <2>4. ProcInv' /\ PollInv'
    BY <1>3, <1>4, <1>5, <2>3, GotoKeeps DEF c, Fits
  <2> QED
    BY <1>3, <2>2, <2>4 DEF IInv
<1>6. CASE /\ ~Reuse(proc[p].pc, b)
           /\ AddWorktree(m.name, b, {})
           /\ Goto(p, "scaffold", m)
           /\ taken' = taken \cup {c \in UserBranches : proc[p].pc = "worktree" /\ c = b}
  <2>1. b \notin UserBranches \ taken'
    <3>1. CASE proc[p].pc = "worktree"
      BY <1>6, <3>1
    <3>2. CASE proc[p].pc = "attach"
      BY <1>3, <1>6, <3>2 DEF IInv, GitInv, UserBranchSafe, Reuse
    <3> QED
      BY <3>1, <3>2 DEF CreateWorktree
  <2>2. GitInv'
    BY <1>2, <1>3, <1>6, <2>1, AddWorktreeKeeps
  <2>4. ProcInv' /\ PollInv'
    BY <1>1, <1>3, <1>4, <1>6, <2>1, GotoKeeps DEF Disowns, Fits
  <2> QED
    BY <1>3, <2>2, <2>4 DEF IInv
<1>7. CASE AddWorktreeFails(m.name, b) /\ Exit(p) /\ UNCHANGED taken
  BY <1>2, <1>3, <1>7, AddWorktreeFailsKeeps, ExitKeeps DEF IInv
<1> QED
  BY <1>5, <1>6, <1>7 DEF CreateWorktree

\* The scaffolding, directory and saving steps work on a copy that disowns the
\* user's branches.
LEMMA CreationKeeps ==
  ASSUME IInv, NEW p \in Procs, Creation(p)
  PROVE  IInv'
<1> DEFINE m == proc[p].m
<1>1. CASE PromoteCheck(p)
  BY <1>1, PromoteCheckKeeps
<1>2. CASE CreateWorktree(p)
  BY <1>2, CreateWorktreeKeeps
<1>3. ASSUME proc[p].pc \in {"scaffold", "save", "rename", "renameSave"}
      PROVE  m \in SessionMeta /\ Sound(m) /\ Disowns(m) /\ m.name \in Names
  BY <1>3, AtWork DEF Fits, SessionMeta
<1>4. {"save", "launch", "renameSave"} \subseteq PCs \ {"idle", "promote", "rename"}
  BY DEF PCs
<1>5. CASE CancelCreate(p)
  <2>1. GitInv'
    BY <1>3, <1>5, SeenKeeps, RemoveKeeps, GitKeeps DEF CancelCreate
  <2> QED
    BY <1>5, <2>1, SeenKeeps, StoreKeeps, ExitKeeps DEF CancelCreate, IInv, VolInv
<1>6. CASE PromoteMove(p)
  <2>1. SeenInv' /\ resOf' = resOf /\ taken \subseteq taken' /\ GitInv' /\ VolInv'
    BY <1>6, SeenKeeps, GitKeeps DEF PromoteMove, IInv, VolInv
  <2>2. CASE MoveDir(proc[p].key, m.name) /\ Goto(p, "save", m)
    <3>1. proc[p].key \in Names
      BY <2>2 DEF MoveDir, IInv, StoreInv
    <3>2. StoreInv'
      BY <1>3, <1>6, <2>1, <2>2, <3>1, MoveDirKeeps DEF PromoteMove
    <3>3. ProcInv' /\ PollInv'
      BY <1>3, <1>4, <1>6, <2>1, <2>2, GotoKeeps DEF PromoteMove, Fits
    <3> QED
      BY <2>1, <3>2, <3>3 DEF IInv
  <2>3. CASE MoveDirFails(proc[p].key, m.name) /\ Exit(p)
    BY <2>1, <2>3, StoreKeeps, ExitKeeps DEF MoveDirFails, IInv
  <2> QED
    BY <1>6, <2>2, <2>3 DEF PromoteMove
<1>7. CASE CreateSave(p)
  <2>1. resOf' = resOf /\ taken \subseteq taken' /\ GitInv' /\ VolInv'
    BY <1>7, GitKeeps DEF CreateSave, identity, IInv, VolInv
  <2>2. SeenInv'
    BY <1>3, <1>7 DEF CreateSave, IInv, SeenInv, identity, wishes, SessionMeta
  <2>3. StoreInv'
    BY <1>3, <1>7, <2>1, SaveKeeps DEF CreateSave
  <2>4. ProcInv' /\ PollInv'
    BY <1>3, <1>4, <1>7, <2>1, GotoKeeps, ExitKeeps DEF CreateSave, Fits
  <2> QED
    BY <2>1, <2>2, <2>3, <2>4 DEF IInv
<1>8. CASE RenameMove(p)
  <2> DEFINE n == proc[p].key
  <2>1. SeenInv' /\ resOf' = resOf /\ taken \subseteq taken' /\ GitInv' /\ VolInv'
    BY <1>8, SeenKeeps, GitKeeps DEF RenameMove, IInv, VolInv
  <2>2. n \in Names
    BY <1>8, AtWork DEF RenameMove
  <2>3. CASE MoveDir(m.name, n) /\ Goto(p, "renameSave", Renamed(m, n))
    <3>1. StoreInv'
      BY <1>3, <1>8, <2>1, <2>2, <2>3, MoveDirKeeps DEF RenameMove
    <3>2. ProcInv' /\ PollInv'
      BY <1>3, <1>4, <1>8, <2>1, <2>2, <2>3, RenamedCopies, GotoKeeps
      DEF RenameMove, Fits
    <3> QED
      BY <2>1, <3>1, <3>2 DEF IInv
  <2>4. CASE Exit(p) /\ UNCHANGED store
    BY <2>1, <2>4, StoreKeeps, ExitKeeps DEF IInv
  <2> QED
    BY <1>8, <2>3, <2>4 DEF RenameMove
<1>9. CASE RenameSave(p)
  <2>1. SeenInv' /\ resOf' = resOf /\ taken \subseteq taken' /\ GitInv' /\ VolInv'
    BY <1>9, SeenKeeps, GitKeeps DEF RenameSave, IInv, VolInv
  <2> QED
    BY <1>3, <1>9, <2>1, SaveKeeps, ExitKeeps DEF RenameSave, IInv
<1> QED
  BY <1>1, <1>2, <1>5, <1>6, <1>7, <1>8, <1>9 DEF Creation

-----------------------------------------------------------------------------
(* The run of the agent. *)

\* Setting the status of a session found in the store.
LEMMA SetStatusKeeps ==
  ASSUME IInv, resOf' = resOf, taken \subseteq taken', NEW n \in Names, meta[n] # NoMeta,
         NEW s \in {"in-progress", "running", "complete", "archived"},
         SetStatus(n, s)
  PROVE  StoreInv'
<1>1. meta[n] \in SessionMeta /\ Sound(meta[n]) /\ Disowns(meta[n])
  BY Loaded
<1> DEFINE c == [meta[n] EXCEPT !.status = s]
<1>2. c \in SessionMeta /\ Sound(c) /\ Disowns(c)
  BY <1>1, Copies
<1> HIDE DEF c
<1>3. Save(c)
  BY DEF SetStatus, c
<1> QED
  BY <1>2, <1>3, SaveKeeps

\* A worktree is recreated on the session's own branch, from that branch.
LEMMA RestoreKeeps ==
  ASSUME IInv, NEW p \in Procs, Restore(p)
  PROVE  IInv'
<1> DEFINE m == proc[p].m
           c == [m EXCEPT !.status = "in-progress"]
<1>1. m \in SessionMeta /\ Sound(m) /\ Disowns(m) /\ m.name \in Names
  BY AtWork DEF Restore, Fits, SessionMeta
<1>2. c \in SessionMeta /\ Sound(c) /\ Disowns(c)
  BY <1>1, Copies
<1>3. SeenInv' /\ resOf' = resOf /\ taken \subseteq taken' /\ StoreInv' /\ VolInv'
  BY SeenKeeps, StoreKeeps DEF Restore, IInv, VolInv
<1>4. {"kind", "restoreSave"} \subseteq PCs \ {"idle", "promote", "rename"}
  BY DEF PCs
<1>5. CASE Goto(p, "kind", m) /\ UNCHANGED git
  BY <1>1, <1>3, <1>4, <1>5, GotoKeeps, GitKeeps DEF IInv, Fits
<1>6. CASE /\ HasWorktree(m)
           /\ AddWorktree(m.name, m.branch, RecreateBase(m.branch))
           /\ Goto(p, "restoreSave", c)
  <2> HIDE DEF c
  <2>1. m.branch \in Branches
    BY <1>1, <1>6 DEF SessionMeta, HasWorktree
  <2>2. /\ RecreateBase(m.branch) \in SUBSET (Uids \cup {User})
        /\ m.branch \in UserBranches \ taken' => User \in RecreateBase(m.branch)
    BY <1>3, <2>1 DEF RecreateBase, IInv, GitInv, UserBranchSafe
  <2>3. GitInv'
    BY <1>1, <1>3, <1>6, <2>1, <2>2, AddWorktreeKeeps
  <2>4. ProcInv' /\ PollInv'
    BY <1>2, <1>3, <1>4, <1>6, GotoKeeps DEF Fits
  <2> QED
    BY <1>3, <2>3, <2>4 DEF IInv
<1>7. CASE AddWorktreeFails(m.name, m.branch) /\ Exit(p)
  BY <1>1, <1>3, <1>7, AddWorktreeFailsKeeps, ExitKeeps DEF IInv
<1>8. CASE Exit(p) /\ UNCHANGED git
  BY <1>3, <1>8, ExitKeeps, GitKeeps DEF IInv
<1> QED
  BY <1>5, <1>6, <1>7, <1>8 DEF Restore

\* The poller starts with the copy the run was started with.
LEMMA LaunchKeeps ==
  ASSUME IInv, NEW p \in Procs, Launch(p)
  PROVE  IInv'
<1> DEFINE m == proc[p].m
<1>1. m \in SessionMeta /\ Sound(m) /\ Disowns(m) /\ m.name \in Names
  BY AtWork DEF Launch, Fits, SessionMeta
<1>2. SeenInv' /\ resOf' = resOf /\ taken \subseteq taken' /\ GitInv' /\ VolInv'
  BY SeenKeeps, GitKeeps DEF Launch, IInv, VolInv
<1>3. CASE Exit(p) /\ meta' = meta /\ dirs' = dirs \cup {m.name}
  <2>1. StoreInv'
    BY <1>1, <1>2, <1>3 DEF IInv, StoreInv, Sound, Disowns, Fits, HasWorktree
  <2> QED
    BY <1>2, <1>3, <2>1, ExitKeeps DEF IInv
<1>4. CASE /\ meta[m.name] # NoMeta
           /\ SetStatus(m.name, "running")
           /\ proc' = [proc EXCEPT ![p].pc = "agent"]
           /\ poll' = IF Polling THEN [poll EXCEPT ![p] = @ \cup {m}] ELSE poll
  <2>1. StoreInv'
    BY <1>1, <1>2, <1>4, SetStatusKeeps
  <2>2. ProcInv'
    <3> DEFINE rec == [proc[p] EXCEPT !.pc = "agent"]
    <3>1. proc[p] \in Process /\ proc' = [proc EXCEPT ![p] = rec]
      BY <1>4 DEF IInv, ProcInv
    <3>2. rec \in Process /\ rec.pc = "agent" /\ rec.m = m
      BY <3>1 DEF Process, PCs
    <3>3. m # NoMeta
      BY <1>1, NoMetaAssumption
    <3> HIDE DEF rec
    <3>4. proc' \in [Procs -> Process] /\ proc'[p] = rec
      BY <3>1, <3>2 DEF IInv, ProcInv
    <3>5. ASSUME NEW q \in Procs, q # p
          PROVE  proc'[q] = proc[q]
      BY <3>5, <3>1 DEF IInv, ProcInv
    <3> QED
      BY <1>1, <1>2, <3>2, <3>3, <3>4, <3>5
      DEF IInv, ProcInv, Sound, Disowns, Fits, HasWorktree
  <2>3. PollInv'
    BY <1>1, <1>2, <1>4 DEF IInv, PollInv, Sound, Disowns
  <2> QED
    BY <1>2, <2>1, <2>2, <2>3 DEF IInv
<1> QED
  BY <1>3, <1>4 DEF Launch

LEMMA AgentWorksKeeps ==
  ASSUME IInv, NEW p \in Procs, AgentWorks(p)
  PROVE  IInv'
<1> DEFINE m == proc[p].m
           b == wt[m.name]
<1>1. m \in SessionMeta /\ m.name \in Names /\ m.uid \in Uids
  BY AtWork DEF AgentWorks, SessionMeta
<1>2. resOf' = resOf /\ taken \subseteq taken' /\ UNCHANGED <<store, wt, branches, proc, poll>>
  BY DEF AgentWorks, identity
<1>3. StoreInv'
  BY <1>2, StoreKeeps
<1>4. ProcInv'
  BY <1>2 DEF IInv, ProcInv, Sound, Disowns, Fits, HasWorktree
<1>5. PollInv'
  BY <1>2 DEF IInv, PollInv, Sound, Disowns
<1>6. GitInv'
  <2>1. CASE b # NoBranch /\ work' = [work EXCEPT ![b] = @ \cup {m.uid}]
    <3>1. b \in Branches
      BY <1>1, <2>1 DEF IInv, GitInv
    <3> QED
      BY <1>1, <1>2, <2>1, <3>1 DEF IInv, GitInv, UserBranchSafe
  <2>2. CASE UNCHANGED work
    BY <1>2, <2>2 DEF IInv, GitInv, UserBranchSafe
  <2> QED
    BY <2>1, <2>2 DEF AgentWorks
<1>7. VolInv'
  BY <1>1, Copies DEF AgentWorks, IInv, VolInv
<1>8. SeenInv'
  <2>1. b # NoBranch => b \in Branches
    BY <1>1 DEF IInv, GitInv
  <2> QED
    BY <1>1, <2>1 DEF AgentWorks, IInv, SeenInv, identity, wishes
<1> QED
  BY <1>3, <1>4, <1>5, <1>6, <1>7, <1>8 DEF IInv

\* However late a poller saves, its copy is a sound one.
LEMMA PollerKeeps ==
  ASSUME IInv, NEW p \in Procs, PollerSaves(p) \/ PollerEnds(p)
  PROVE  IInv'
<1>1. PICK m \in poll[p] :
        /\ poll' = [poll EXCEPT ![p] = @ \ {m}]
        /\ Save([m EXCEPT !.sid = "known"]) \/ UNCHANGED store
        /\ UNCHANGED <<git, vol, proc, observed>>
  BY DEF PollerSaves, PollerEnds
<1>2. m \in SessionMeta /\ Sound(m) /\ Disowns(m)
  BY <1>1 DEF IInv, PollInv
<1>3. SeenInv' /\ resOf' = resOf /\ taken \subseteq taken' /\ GitInv' /\ VolInv'
  BY <1>1, SeenKeeps, GitKeeps DEF IInv, VolInv
<1>4. StoreInv'
  <2> DEFINE c == [m EXCEPT !.sid = "known"]
  <2>1. c \in SessionMeta /\ Sound(c) /\ Disowns(c)
    BY <1>2, Copies
  <2> HIDE DEF c
  <2>2. Save(c) \/ UNCHANGED store
    BY <1>1 DEF c
  <2> QED
    BY <1>3, <2>1, <2>2, SaveKeeps, StoreKeeps
<1>5. ProcInv'
  BY <1>1, <1>3 DEF IInv, ProcInv, Sound, Disowns, Fits, HasWorktree
<1>6. PollInv'
  BY <1>1, <1>3 DEF IInv, PollInv, Sound, Disowns
<1> QED
  BY <1>3, <1>4, <1>5, <1>6 DEF IInv

\* An interrupted `new` removes a branch only if the session made it.
LEMMA CancelNewKeeps ==
  ASSUME IInv, taken \subseteq taken', NEW p \in Procs,
         proc[p].pc \notin {"idle", "worktree", "attach"},
         CancelNew(p) \/ UNCHANGED <<git, cancelled>>
  PROVE  GitInv' /\ (cancelled' \subseteq Uids)
<1>1. proc[p].m \in SessionMeta /\ Disowns(proc[p].m) /\ proc[p].m.uid \in Uids
  BY AtWork DEF Fits, SessionMeta
<1> QED
  BY <1>1, RemoveKeeps, GitKeeps DEF CancelNew, IInv, SeenInv

LEMMA RunKeeps ==
  ASSUME IInv, NEW p \in Procs, Run(p)
  PROVE  IInv'
<1> DEFINE m == proc[p].m
<1>1. ASSUME proc[p].pc \in {"restoreSave", "kind", "agent"}
      PROVE  m \in SessionMeta /\ Sound(m) /\ Disowns(m) /\ m.name \in Names
  BY <1>1, AtWork DEF Fits, SessionMeta
<1>2. {"kind", "launch", "menu", "post"} \subseteq PCs \ {"idle", "promote", "rename"}
  BY DEF PCs
<1>3. CASE RestoreSave(p)
  <2>1. SeenInv' /\ resOf' = resOf /\ taken \subseteq taken' /\ GitInv' /\ VolInv'
    BY <1>3, SeenKeeps, GitKeeps DEF RestoreSave, IInv, VolInv
  <2> QED
    BY <1>1, <1>2, <1>3, <2>1, SaveKeeps, GotoKeeps DEF RestoreSave, IInv, Fits
<1>4. CASE ResumeKind(p)
  <2> DEFINE c == [m EXCEPT !.sid = "known"]
  <2>1. SeenInv' /\ resOf' = resOf /\ taken \subseteq taken' /\ GitInv' /\ VolInv'
    BY <1>4, SeenKeeps, GitKeeps DEF ResumeKind, IInv, VolInv
  <2>2. c \in SessionMeta /\ Sound(c) /\ Disowns(c)
    BY <1>1, <1>4, Copies DEF ResumeKind
  <2> HIDE DEF c
  <2>3. Goto(p, "launch", c) /\ (Save(c) \/ UNCHANGED store)
    BY <1>4 DEF ResumeKind, c
  <2> QED
    BY <1>2, <2>1, <2>2, <2>3, SaveKeeps, StoreKeeps, GotoKeeps DEF IInv, Fits
<1>5. CASE AgentExits(p)
  <2>1. SeenInv' /\ resOf' = resOf /\ taken \subseteq taken' /\ GitInv' /\ VolInv'
    BY <1>5, SeenKeeps, GitKeeps DEF AgentExits, IInv, VolInv
  <2>2. CASE Exit(p) /\ UNCHANGED store
    BY <2>1, <2>2, StoreKeeps, ExitKeeps DEF IInv
  <2>3. CASE /\ meta[m.name] # NoMeta
             /\ SetStatus(m.name, "in-progress")
             /\ Goto(p, "menu", m) \/ Goto(p, "post", m)
    BY <1>1, <1>2, <1>5, <2>1, <2>3, SetStatusKeeps, GotoKeeps
    DEF AgentExits, IInv, Fits
  <2> QED
    BY <1>5, <2>2, <2>3 DEF AgentExits, StatusBack
<1>6. CASE AgentInterrupted(p)
  <2>1. resOf' = resOf /\ taken \subseteq taken' /\ VolInv' /\ GitInv' /\ (cancelled' \subseteq Uids)
    BY <1>6, CancelNewKeeps DEF AgentInterrupted, identity, IInv, VolInv
  <2>2. SeenInv'
    BY <1>6, <2>1 DEF AgentInterrupted, IInv, SeenInv, identity, progress
  <2>3. StoreInv'
    BY <1>1, <1>6, <2>1, SetStatusKeeps, StoreKeeps DEF AgentInterrupted, StatusBack
  <2> QED
    BY <1>6, <2>1, <2>2, <2>3, ExitKeeps DEF AgentInterrupted, IInv
<1> QED
  BY <1>3, <1>4, <1>5, <1>6, RestoreKeeps, LaunchKeeps, AgentWorksKeeps, PollerKeeps
  DEF Run

-----------------------------------------------------------------------------
(* After the run: the prompts, done, archive and delete. *)

LEMMA EndingKeeps ==
  ASSUME IInv, NEW p \in Procs, Ending(p)
  PROVE  IInv'
<1> DEFINE m == proc[p].m
<1>1. ASSUME proc[p].pc \notin {"idle", "worktree", "attach"}
      PROVE  m \in SessionMeta /\ Sound(m) /\ Disowns(m) /\ m.name \in Names
  BY <1>1, AtWork DEF Fits, SessionMeta
<1>2. {"menu", "done", "confirm", "launch", "doneSave", "archiveSave",
       "cleanup", "unlink", "volumes"} \subseteq PCs \ {"idle", "promote", "rename"}
  BY DEF PCs
<1>3. CASE PostExit(p) \/ MenuDone(p) \/ MenuDelete(p)
  <2>1. /\ proc[p].pc \notin {"idle", "worktree", "attach"}
        /\ UNCHANGED <<store, git, vol, observed>>
        /\ Reload(p, "menu") \/ Reload(p, "done") \/ Reload(p, "confirm")
    BY <1>3 DEF PostExit, MenuDone, MenuDelete
  <2>2. SeenInv' /\ resOf' = resOf /\ taken \subseteq taken' /\ StoreInv' /\ GitInv' /\ VolInv'
    BY <2>1, SeenKeeps, StoreKeeps, GitKeeps DEF IInv, VolInv
  <2>3. PICK pc \in {"menu", "done", "confirm"} : Reload(p, pc)
    BY <2>1
  <2>4. CASE Exit(p)
    BY <2>2, <2>4, ExitKeeps DEF IInv
  <2>5. CASE meta[m.name] # NoMeta /\ Goto(p, pc, meta[m.name])
    <3>1. /\ meta[m.name] \in SessionMeta
          /\ Sound(meta[m.name]) /\ Disowns(meta[m.name])
      BY <1>1, <2>1, <2>5, Loaded
    <3> QED
      BY <1>2, <2>2, <2>5, <3>1, GotoKeeps DEF IInv, Fits
  <2> QED
    BY <2>3, <2>4, <2>5 DEF Reload
<1>4. CASE MenuChatComplete(p)
  <2>1. SeenInv' /\ resOf' = resOf /\ taken \subseteq taken' /\ GitInv' /\ VolInv'
    BY <1>4, SeenKeeps, GitKeeps DEF MenuChatComplete, IInv, VolInv
  <2>2. StoreInv'
    BY <1>1, <1>4, <2>1, SetStatusKeeps, StoreKeeps DEF MenuChatComplete, SetStatus
  <2>3. ProcInv' /\ PollInv'
    BY <1>1, <1>2, <1>4, <2>1, ExitKeeps, GotoKeeps DEF MenuChatComplete, Fits
  <2> QED
    BY <2>1, <2>2, <2>3 DEF IInv
<1>5. CASE MenuWrapUp(p)
  BY <1>1, <1>2, <1>5, SeenKeeps, StoreKeeps, GitKeeps, GotoKeeps
  DEF MenuWrapUp, IInv, VolInv, Fits
<1>6. CASE Leave(p) \/ Cleanup(p)
  BY <1>6, SeenKeeps, StoreKeeps, GitKeeps, ExitKeeps DEF Leave, Cleanup, IInv, VolInv
<1>7. CASE PromptInterrupted(p)
  <2>1. resOf' = resOf /\ taken \subseteq taken' /\ VolInv' /\ GitInv' /\ (cancelled' \subseteq Uids)
    BY <1>7, CancelNewKeeps DEF PromptInterrupted, identity, IInv, VolInv
  <2>2. SeenInv'
    BY <1>7, <2>1 DEF PromptInterrupted, IInv, SeenInv, identity, progress
  <2> QED
    BY <1>7, <2>1, <2>2, StoreKeeps, ExitKeeps DEF PromptInterrupted, IInv
<1>8. CASE DoneWorktree(p) \/ ArchiveWorktree(p)
  <2>1. PICK from \in {"done", "archive"}, to \in {"doneSave", "archiveSave"} :
          ParkWorktree(p, from, to)
    BY <1>8 DEF DoneWorktree, ArchiveWorktree
  <2>2. SeenInv' /\ resOf' = resOf /\ taken \subseteq taken' /\ StoreInv' /\ VolInv'
    BY <2>1, SeenKeeps, StoreKeeps DEF ParkWorktree, IInv, VolInv
  <2>3. GitInv'
    BY <2>1, <2>2 DEF ParkWorktree, WorktreeAfterParking, WithoutWorktree, IInv,
                      GitInv, UserBranchSafe
  <2>4. ProcInv' /\ PollInv'
    BY <1>1, <1>2, <2>1, <2>2, GotoKeeps DEF ParkWorktree, Fits
  <2> QED
    BY <2>2, <2>3, <2>4 DEF IInv
<1>9. CASE DoneSave(p) \/ ArchiveSave(p)
  <2>1. PICK from \in {"doneSave", "archiveSave"}, s \in {"complete", "archived"} :
          ParkSave(p, from, s)
    BY <1>9 DEF DoneSave, ArchiveSave
  <2>2. SeenInv' /\ resOf' = resOf /\ taken \subseteq taken' /\ GitInv' /\ VolInv'
    BY <2>1, SeenKeeps, GitKeeps DEF ParkSave, IInv, VolInv
  <2> DEFINE c == [m EXCEPT !.status = s]
  <2>3. c \in SessionMeta /\ Sound(c) /\ Disowns(c) /\ Save(c)
    BY <1>1, <2>1, Copies DEF ParkSave
  <2> HIDE DEF c
  <2>4. StoreInv'
    BY <2>2, <2>3, SaveKeeps
  <2>5. ProcInv' /\ PollInv'
    BY <1>1, <1>2, <1>9, <2>1, <2>2, GotoKeeps, ExitKeeps
    DEF DoneSave, ArchiveSave, ParkSave, Fits
  <2> QED
    BY <2>2, <2>4, <2>5 DEF IInv
<1>10. CASE DeleteGit(p)
  <2>1. resOf' = resOf /\ taken \subseteq taken' /\ StoreInv' /\ VolInv'
    BY <1>10, StoreKeeps DEF DeleteGit, identity, IInv, VolInv
  <2>2. SeenInv'
    BY <1>1, <1>10 DEF DeleteGit, IInv, SeenInv, identity, progress, SessionMeta
  <2>3. GitInv'
    BY <1>1, <1>10, <2>1, RemoveKeeps, GitKeeps DEF DeleteGit
  <2>4. ProcInv' /\ PollInv'
    BY <1>1, <1>2, <1>10, <2>1, GotoKeeps DEF DeleteGit, Fits
  <2> QED
    BY <2>1, <2>2, <2>3, <2>4 DEF IInv
<1>11. CASE DeleteMeta(p)
  <2>1. SeenInv' /\ resOf' = resOf /\ taken \subseteq taken' /\ GitInv' /\ VolInv'
    BY <1>11, SeenKeeps, GitKeeps DEF DeleteMeta, IInv, VolInv
  <2>2. StoreInv'
    BY <1>11, <2>1 DEF DeleteMeta, IInv, StoreInv, Sound, Disowns
  <2>3. ProcInv' /\ PollInv'
    BY <1>1, <1>2, <1>11, <2>1, GotoKeeps DEF DeleteMeta, Fits
  <2> QED
    BY <2>1, <2>2, <2>3 DEF IInv
<1>12. CASE DeleteVolumes(p)
  <2>1. VolInv'
    BY <1>12 DEF DeleteVolumes, VolumesRemoved, IInv, VolInv
  <2> QED
    BY <1>12, <2>1, SeenKeeps, StoreKeeps, GitKeeps, ExitKeeps DEF DeleteVolumes, IInv
<1> QED
  BY <1>3, <1>4, <1>5, <1>6, <1>7, <1>8, <1>9, <1>10, <1>11, <1>12 DEF Ending

-----------------------------------------------------------------------------
(* The invariant. *)

LEMMA InitInv == Init => IInv
<1> SUFFICES ASSUME Init PROVE IInv
  OBVIOUS
<1>1. LegacyChat \in Names => LegacyMeta \in SessionMeta
  BY ConstantsAssumption DEF LegacyMeta, SessionMeta
<1>2. LegacyChat \in Names => Sound(LegacyMeta) /\ Disowns(LegacyMeta)
  BY ConstantsAssumption
  DEF Init, LegacyMeta, Sound, Disowns, RuntimeName, Branches
<1>3. StoreInv
  BY <1>1, <1>2 DEF Init, StoreInv
<1>4. ProcInv
  BY DEF Init, ProcInv, Idle, Process, PCs, Commands
<1>5. PollInv
  BY DEF Init, PollInv
<1>6. GitInv
  BY ConstantsAssumption DEF Init, GitInv, UserBranchSafe, Branches
<1>7. VolInv
  BY DEF Init, VolInv
<1>8. SeenInv
  BY ConstantsAssumption DEF Init, SeenInv
<1> QED
  BY <1>3, <1>4, <1>5, <1>6, <1>7, <1>8 DEF IInv

LEMMA NextInv == IInv /\ [Next]_vars => IInv'
<1> SUFFICES ASSUME IInv, [Next]_vars PROVE IInv'
  OBVIOUS
<1>1. CASE UNCHANGED vars
  <2>1. SeenInv' /\ resOf' = resOf /\ taken \subseteq taken' /\ StoreInv' /\ GitInv' /\ VolInv'
    BY <1>1, SeenKeeps, StoreKeeps, GitKeeps DEF vars, IInv, VolInv
  <2> QED
    BY <1>1, <2>1
    DEF vars, IInv, ProcInv, PollInv, Sound, Disowns, Fits, HasWorktree
<1>2. ASSUME NEW p \in Procs, Kill(p)
      PROVE  IInv'
  <2>1. resOf' = resOf /\ taken \subseteq taken' /\ VolInv' /\ SeenInv'
    BY <1>2 DEF Kill, IInv, VolInv, SeenInv, identity, progress, wishes
  <2> QED
    BY <1>2, <2>1, StoreKeeps, GitKeeps, ExitKeeps DEF Kill, IInv
<1> QED
  BY <1>1, <1>2, CommandKeeps, CreationKeeps, RunKeeps, EndingKeeps
  DEF Next, Finished

THEOREM Invariance == Spec => []IInv
BY InitInv, NextInv, PTL DEF Spec

\* Every variable keeps its type, for any sets of terminals, names, branches
\* and sessions, with pollers and kills.
THEOREM TypeCorrect == Spec => []TypeOK
<1>1. IInv => TypeOK
  BY DEF IInv, StoreInv, ProcInv, PollInv, GitInv, VolInv, SeenInv, TypeOK
<1> QED
  BY <1>1, Invariance, PTL

\* A session found on disk always uses the container and volume name it was
\* created with, whatever was renamed, promoted, killed or saved late.
THEOREM RuntimeIdentityHolds == Spec => []RuntimeIdentity
<1>1. IInv => RuntimeIdentity
  BY DEF IInv, StoreInv, RuntimeIdentity, Sound
<1> QED
  BY <1>1, Invariance, PTL

\* A branch of the user is never deleted and never loses the user's commits,
\* unless create() was given that very branch as a session's generated branch (an
\* empty branch_prefix and a task of that name): then it is reset, and owned.
THEOREM UserBranchSafety == Spec => []UserBranchSafe
<1>1. IInv => UserBranchSafe
  BY DEF IInv, GitInv
<1> QED
  BY <1>1, Invariance, PTL

-----------------------------------------------------------------------------
(***************************************************************************)
(* Names used once.                                                        *)
(*                                                                         *)
(* Every copy of a session's metadata claims a name, and with it a branch. *)
(* A name is used by one command, which may still have to claim it (it is  *)
(* pending while a promotion or a rename waits for the user); once it is   *)
(* claimed, all copies that claim it are of the same session and agree on  *)
(* its branch.  So whoever deletes or resets a branch that hatchery made   *)
(* takes only commits of the session he has in hand, and whoever removes   *)
(* volumes only the conversation of the session deleted.                   *)
(***************************************************************************)

\* Every new session, promotion and rename is given a name not used before.
NamesOnce == FreshNames /\ AutoNames = <<>>

\* --branch names branches of the user only, not a session's generated one.
OwnBranches == BranchArgs \subseteq UserBranches /\ Names \cap BranchArgs = {}

\* What a copy of a session's metadata claims.
Claim(m) == [name |-> m.name, type |-> m.type, branch |-> m.branch, uid |-> m.uid]

InStore == {Claim(meta[n]) : n \in {k \in Names : meta[k] # NoMeta}}
InPolls == {Claim(m) : m \in UNION {poll[q] : q \in Procs}}
Held == InStore \cup InPolls

Mine(p) == IF proc[p].m = NoMeta THEN {} ELSE {Claim(proc[p].m)}

Claims == Held \cup UNION {Mine(q) : q \in Procs}

Waiting == {"promote", "rename"}
Making == {"worktree", "attach", "scaffold", "save"}

\* Names that commands were given and have not claimed yet.
Pending == {proc[q].key : q \in {r \in Procs : proc[r].pc \in Waiting}}

Settled == used \ Pending

Claimed ==
  \A c \in Claims : /\ c.name \in Settled
                    /\ c.branch \in Names => c.branch = c.name
                    /\ c.type = "chat" => c.branch = NoBranch

Agreed ==
  \A c, d \in Claims : c.name = d.name =>
    /\ c.uid = d.uid
    /\ c.branch # NoBranch /\ d.branch # NoBranch => c.branch = d.branch

Distinct ==
  \A p, q \in Procs : proc[p].pc \in Waiting =>
    /\ proc[p].key \in used
    /\ proc[q].pc \in Waiting /\ proc[q].key = proc[p].key => p = q

\* Commits on a session's branch are of the session that claims the name.
Credited ==
  \A u \in Uids, b \in Names : <<u, b>> \in committed =>
    b \in Settled /\ \A c \in Claims : c.name = b => c.uid = u

\* A session that is being made is the only one to claim its name.
Sole(p) ==
  proc[p].pc \in Making =>
    /\ \A c \in Held : c.name # proc[p].m.name
    /\ \A q \in Procs \ {p} : \A c \in Mine(q) : c.name # proc[p].m.name
    /\ \A u \in Uids : <<u, proc[p].m.name>> \notin committed

ClaimsOK == Claimed /\ Agreed /\ Distinct /\ Credited /\ \A p \in Procs : Sole(p)

\* A worktree has the branch that its session's copies claim.
Trees ==
  \A x \in Names : wt[x] # NoBranch =>
    /\ x \in Settled /\ wt[x] \in branches
    /\ \A c \in Claims : c.name = x /\ c.branch # NoBranch => c.branch = wt[x]

\* Commits are lost only with the user's consent.
Kept ==
  \A u \in Uids, b \in Branches :
    <<u, b>> \in committed /\ u \notin givenUp \cup cancelled =>
      b \in branches /\ u \in work[b]

WorkInv == ClaimsOK /\ Trees /\ Kept

-----------------------------------------------------------------------------
(* What a step may do to the claims. *)

\* Process p claims nothing that it, the store or a poller did not claim.
Shrinks(p) ==
  /\ \A q \in Procs \ {p} : proc'[q] = proc[q]
  /\ Held' \subseteq Held \cup Mine(p)
  /\ Mine(p)' \subseteq Held \cup Mine(p)
  /\ proc'[p].pc \in Making =>
       /\ proc[p].pc \in Making /\ proc'[p].m.name = proc[p].m.name
       /\ Held' \subseteq Held

LEMMA ClaimsShrink ==
  ASSUME NEW p \in Procs, Shrinks(p)
  PROVE  Claims' \subseteq Claims
<1>1. \A q \in Procs \ {p} : Mine(q)' = Mine(q)
  BY DEF Shrinks, Mine, Claim
<1> QED
  BY <1>1 DEF Shrinks, Claims

\* Then the claims stay in order, if names settled stay settled.
LEMMA ShrinksKeeps ==
  ASSUME ClaimsOK, NEW p \in Procs, Shrinks(p), Distinct', Settled \subseteq Settled',
         committed' = committed
  PROVE  ClaimsOK'
<1>1. Claims' \subseteq Claims
  BY ClaimsShrink
<1>2. Claimed'
  BY <1>1 DEF ClaimsOK, Claimed
<1>3. Agreed'
  BY <1>1 DEF ClaimsOK, Agreed
<1>4. Credited'
  BY <1>1 DEF ClaimsOK, Credited
<1>5. \A q \in Procs \ {p} : Mine(q)' = Mine(q)
  BY DEF Shrinks, Mine, Claim
<1>6. ASSUME NEW q \in Procs
      PROVE  Sole(q)'
  <2>1. CASE q = p
    <3> SUFFICES ASSUME proc'[p].pc \in Making
                 PROVE  /\ \A c \in Held' : c.name # proc'[p].m.name
                        /\ \A r \in Procs \ {p} : \A c \in Mine(r)' : c.name # proc'[p].m.name
                        /\ \A u \in Uids : <<u, proc'[p].m.name>> \notin committed'
      BY <2>1 DEF Sole
    <3> QED
      BY <1>5 DEF ClaimsOK, Sole, Shrinks
  <2>2. CASE q # p
    <3> SUFFICES ASSUME proc[q].pc \in Making
                 PROVE  /\ \A c \in Held' : c.name # proc[q].m.name
                        /\ \A r \in Procs \ {q} : \A c \in Mine(r)' : c.name # proc[q].m.name
                        /\ \A u \in Uids : <<u, proc[q].m.name>> \notin committed'
      BY <2>2 DEF Sole, Shrinks
    <3>1. Sole(q)
      BY DEF ClaimsOK
    <3>2. \A c \in Held \cup Mine(p) : c.name # proc[q].m.name
      BY <2>2, <3>1 DEF Sole
    <3> QED
      BY <1>5, <2>2, <3>1, <3>2 DEF Sole, Shrinks
  <2> QED
    BY <2>1, <2>2
<1> QED
  BY <1>2, <1>3, <1>4, <1>6 DEF ClaimsOK

\* p does not begin to wait for the user's name.
Settles(p) == proc'[p].pc \in Waiting => proc'[p] = proc[p]

LEMMA SettlesKeeps ==
  ASSUME Distinct, NEW p \in Procs, Settles(p), used' = used,
         \A q \in Procs \ {p} : proc'[q] = proc[q]
  PROVE  Distinct' /\ Settled \subseteq Settled'
<1>1. \A q \in Procs : proc'[q].pc \in Waiting => proc'[q] = proc[q]
  BY DEF Settles
<1>2. Distinct'
  BY <1>1 DEF Distinct
<1>3. Pending' \subseteq Pending
  BY <1>1 DEF Pending
<1> QED
  BY <1>2, <1>3 DEF Settled

\* The name n, used but not settled, is claimed by process p's copy.
LEMMA BirthKeeps ==
  ASSUME IInv, ClaimsOK, NEW p \in Procs, NEW new, NEW n \in Names,
         \A q \in Procs \ {p} : proc'[q] = proc[q],
         Held' \subseteq Held, Mine(p)' = {new}, proc'[p].m.name = n,
         new.name = n, new.uid \in Uids, new.branch \in Names => new.branch = n,
         new.type = "chat" => new.branch = NoBranch,
         n \notin Settled, n \in Settled', Settled \subseteq Settled', Distinct',
         committed' = committed
  PROVE  ClaimsOK' /\ Claims' \subseteq Claims \cup {new}
<1>3. \A q \in Procs \ {p} : Mine(q)' = Mine(q)
  BY DEF Mine, Claim
<1>4. Claims' \subseteq Claims \cup {new}
  BY <1>3 DEF Claims
<1>5. \A c \in Claims : c.name # n
  BY DEF ClaimsOK, Claimed
<1>6. Claimed'
  BY <1>4 DEF ClaimsOK, Claimed
<1>7. Agreed'
  BY <1>4, <1>5 DEF ClaimsOK, Agreed
<1>8. \A v \in Uids : <<v, n>> \notin committed
  BY DEF ClaimsOK, Credited
<1>9. Credited'
  BY <1>4, <1>8 DEF ClaimsOK, Credited
<1>10. ASSUME NEW q \in Procs
       PROVE  Sole(q)'
  <2>1. CASE q = p
    <3>1. \A c \in Held' : c.name # n
      BY <1>5 DEF Claims
    <3>2. \A r \in Procs \ {p} : \A c \in Mine(r)' : c.name # n
      BY <1>3, <1>5 DEF Claims
    <3> QED
      BY <1>8, <2>1, <3>1, <3>2 DEF Sole
  <2>2. CASE q # p
    <3> SUFFICES ASSUME proc[q].pc \in Making
                 PROVE  /\ \A c \in Held' : c.name # proc[q].m.name
                        /\ \A r \in Procs \ {q} : \A c \in Mine(r)' : c.name # proc[q].m.name
                        /\ \A v \in Uids : <<v, proc[q].m.name>> \notin committed'
      BY <2>2 DEF Sole
    <3>1. Sole(q)
      BY DEF ClaimsOK
    <3>2. proc[q].m.name # n
      <4>1. proc[q].m # NoMeta
        BY DEF IInv, ProcInv, Making
      <4>2. Claim(proc[q].m) \in Claims
        BY <4>1 DEF Mine, Claims
      <4>3. Claim(proc[q].m).name = proc[q].m.name
        BY DEF Claim
      <4> QED
        BY <1>5, <4>2, <4>3
    <3> QED
      BY <1>3, <2>2, <3>1, <3>2 DEF Sole
  <2> QED
    BY <2>1, <2>2
<1> QED
  BY <1>4, <1>6, <1>7, <1>9, <1>10 DEF ClaimsOK

-----------------------------------------------------------------------------
(* What the building blocks do to the claims. *)

PollsShrink == \A q \in Procs : poll'[q] \subseteq poll[q]

LEMMA SaveHeld ==
  ASSUME IInv, NEW c \in SessionMeta, Save(c), PollsShrink
  PROVE  Held' \subseteq Held \cup {Claim(c)}
<1>1. c.name \in Names
  BY DEF SessionMeta
<1>2. meta'[c.name] = c /\ \A n \in Names \ {c.name} : meta'[n] = meta[n]
  BY <1>1 DEF Save, IInv, StoreInv
<1>3. InStore' \subseteq InStore \cup {Claim(c)}
  BY <1>2 DEF InStore, Claim
<1>4. InPolls' \subseteq InPolls
  BY DEF InPolls, PollsShrink, Claim
<1> QED
  BY <1>3, <1>4 DEF Held

\* A step after which the store holds no entry that it did not hold.
LEMMA SameHeld ==
  ASSUME \A n \in Names : meta'[n] # NoMeta => \E k \in Names : meta'[n] = meta[k],
         PollsShrink
  PROVE  Held' \subseteq Held
<1>1. InStore' \subseteq InStore
  BY DEF InStore, Claim
<1>2. InPolls' \subseteq InPolls
  BY DEF InPolls, PollsShrink, Claim
<1> QED
  BY <1>1, <1>2 DEF Held

LEMMA StoreHeld ==
  ASSUME UNCHANGED store, PollsShrink
  PROVE  Held' \subseteq Held
BY SameHeld DEF store

LEMMA MoveHeld ==
  ASSUME IInv, NEW old \in Names, NEW new \in Names, MoveDir(old, new), PollsShrink
  PROVE  Held' \subseteq Held
<1>1. \A n \in Names : meta'[n] # NoMeta => \E k \in Names : meta'[n] = meta[k]
  BY DEF MoveDir, IInv, StoreInv
<1> QED
  BY <1>1, SameHeld

\* The claim of what is found in the store.
LEMMA LoadedHeld ==
  ASSUME NEW n \in Names, meta[n] # NoMeta
  PROVE  Claim(meta[n]) \in Held /\ Claim(meta[n]) \in Claims
BY DEF Held, InStore, Claims

LEMMA AtWorkClaims ==
  ASSUME IInv, NEW p \in Procs, proc[p].pc # "idle"
  PROVE  Mine(p) = {Claim(proc[p].m)} /\ Claim(proc[p].m) \in Claims
BY DEF IInv, ProcInv, Mine, Claims

\* A copy with another status, session id or ownership claims the same.
LEMMA SameClaim ==
  ASSUME NEW m \in SessionMeta
  PROVE  /\ \A s : Claim([m EXCEPT !.status = s]) = Claim(m)
         /\ \A s : Claim([m EXCEPT !.sid = s]) = Claim(m)
         /\ \A o : Claim([m EXCEPT !.owned = o]) = Claim(m)
BY DEF Claim, SessionMeta

\* What a step leaves in order.
Orderly == ClaimsOK' /\ Claims' \subseteq Claims /\ Settled \subseteq Settled'

\* A process that leaves claims nothing any more.
LEMMA ExitClaims ==
  ASSUME IInv, ClaimsOK, NEW p \in Procs, Exit(p), Held' \subseteq Held \cup Mine(p),
         used' = used, committed' = committed
  PROVE  Orderly
<1>1. /\ proc'[p].pc = "idle" /\ proc'[p].m = NoMeta
      /\ \A q \in Procs \ {p} : proc'[q] = proc[q]
  BY DEF Exit, Idle, IInv, ProcInv
<1>2. Mine(p)' = {}
  BY <1>1 DEF Mine
<1>3. Shrinks(p) /\ Settles(p)
  BY <1>1, <1>2 DEF Shrinks, Settles, Making, Waiting
<1>4. Distinct' /\ Settled \subseteq Settled'
  BY <1>1, <1>3, SettlesKeeps DEF ClaimsOK
<1> QED
  BY <1>3, <1>4, ShrinksKeeps, ClaimsShrink DEF Orderly

\* A process goes on with a copy of what it had, or of what is in the store.
LEMMA GotoClaims ==
  ASSUME IInv, ClaimsOK, NEW p \in Procs, proc[p].pc # "idle",
         NEW pc \in PCs \ Waiting, NEW c, c # NoMeta, Goto(p, pc, c),
         Claim(c) \in Held \cup Mine(p), Held' \subseteq Held \cup Mine(p),
         pc \in Making =>
           proc[p].pc \in Making /\ c.name = proc[p].m.name /\ Held' \subseteq Held,
         used' = used, committed' = committed
  PROVE  Orderly
<1>1. /\ proc'[p].pc = pc /\ proc'[p].m = c
      /\ \A q \in Procs \ {p} : proc'[q] = proc[q]
  BY DEF Goto, IInv, ProcInv, Process
<1>2. Mine(p)' = {Claim(c)}
  BY <1>1 DEF Mine, Claim
<1>3. Shrinks(p) /\ Settles(p)
  BY <1>1, <1>2 DEF Shrinks, Settles
<1>4. Distinct' /\ Settled \subseteq Settled'
  BY <1>1, <1>3, SettlesKeeps DEF ClaimsOK
<1> QED
  BY <1>3, <1>4, ShrinksKeeps, ClaimsShrink DEF Orderly

\* A step of pollers and of the store, processes unchanged.
LEMMA StayClaims ==
  ASSUME IInv, ClaimsOK, proc' = proc, Held' \subseteq Held, used' = used,
         committed' = committed
  PROVE  Orderly
<1>1. \A q \in Procs : Mine(q)' = Mine(q)
  BY DEF Mine, Claim
<1>2. Claims' \subseteq Claims
  BY <1>1 DEF Claims
<1>3. Distinct' /\ Settled' = Settled
  BY DEF ClaimsOK, Distinct, Settled, Pending
<1>4. Claimed' /\ Agreed' /\ Credited'
  BY <1>2, <1>3 DEF ClaimsOK, Claimed, Agreed, Credited
<1>5. \A q \in Procs : Sole(q)'
  BY <1>1 DEF ClaimsOK, Sole
<1> QED
  BY <1>2, <1>3, <1>4, <1>5 DEF Orderly, ClaimsOK

-----------------------------------------------------------------------------
(* What the building blocks do to the worktrees and to the work. *)

\* Worktrees go, and nothing new is claimed but names without worktrees.
LEMMA TreesStay ==
  ASSUME IInv, Trees, \A c \in Claims' : c \in Claims \/ c.name \notin Settled,
         Settled \subseteq Settled',
         \A x \in Names : wt'[x] # NoBranch => wt'[x] = wt[x] /\ wt[x] \in branches'
  PROVE  Trees'
BY DEF Trees

LEMMA KeptStays ==
  ASSUME IInv, Kept, committed' = committed, givenUp \subseteq givenUp',
         cancelled \subseteq cancelled', UNCHANGED <<branches, work>>
  PROVE  Kept'
BY DEF Kept

\* The removal of m's worktree and own branch takes only commits of a session
\* whose user consents.
LEMMA RemovalKept ==
  ASSUME IInv, OwnBranches, ClaimsOK, Kept, NEW p \in Procs,
         proc[p].pc \notin {"idle", "worktree", "attach"},
         HasWorktree(proc[p].m), RemoveWorktreeAndBranch(proc[p].m),
         proc[p].pc \in Making \/ proc[p].m.uid \in givenUp' \cup cancelled',
         committed' = committed, givenUp \subseteq givenUp', cancelled \subseteq cancelled'
  PROVE  Kept' /\ \A x \in Names : wt'[x] # NoBranch => wt'[x] = wt[x] /\ (wt[x] \in branches => wt[x] \in branches')
<1> DEFINE m == proc[p].m
           b == m.branch
<1>1. /\ m \in SessionMeta /\ Disowns(m) /\ m.name \in Names /\ m.uid \in Uids
      /\ b \in Branches
  BY AtWork DEF Fits, SessionMeta, HasWorktree
<1>2. Claim(m) \in Claims /\ Claim(m).name = m.name /\ Claim(m).branch = b /\ Claim(m).uid = m.uid
  BY AtWorkClaims DEF Claim
<1>3. wt' = [wt EXCEPT ![m.name] = NoBranch]
  BY DEF RemoveWorktreeAndBranch, WithoutWorktree
<1>4. \A x \in Names : wt'[x] # NoBranch => wt'[x] = wt[x]
  BY <1>1, <1>3 DEF IInv, GitInv
<1>5. CASE UNCHANGED <<branches, work>>
  BY <1>4, <1>5, KeptStays
<1>6. CASE m.owned /\ ~CheckedOut(wt', b) /\ branches' = branches \ {b} /\ work' = [work EXCEPT ![b] = {}]
  <2>1. b \in Names /\ b = m.name
    BY <1>1, <1>2, <1>6
    DEF Disowns, OwnBranches, Branches, ClaimsOK, Claimed, IInv, SeenInv
  <2>2. \A u \in Uids : <<u, b>> \in committed => u \in givenUp' \cup cancelled'
    BY <1>2, <2>1 DEF ClaimsOK, Credited, Sole
  <2>3. Kept'
    BY <1>1, <1>6, <2>2 DEF Kept, IInv, GitInv
  <2>4. \A x \in Names : wt'[x] # b
    BY <1>6 DEF CheckedOut
  <2> QED
    BY <1>4, <1>6, <2>3, <2>4
<1> QED
  BY <1>5, <1>6 DEF RemoveWorktreeAndBranch, DeleteBranch

\* A worktree on the branch that the session claims, created or reset so that it
\* keeps what is to be kept.
LEMMA AddKept ==
  ASSUME IInv, ClaimsOK, Trees, Kept, NEW n \in Names, NEW b \in Branches,
         NEW commits \in SUBSET (Uids \cup {User}), AddWorktree(n, b, commits),
         n \in Settled, \A c \in Claims : c.name = n /\ c.branch # NoBranch => c.branch = b,
         \A u \in Uids : <<u, b>> \in committed /\ u \notin givenUp \cup cancelled => u \in commits,
         Claims' \subseteq Claims, Settled \subseteq Settled',
         committed' = committed, givenUp' = givenUp, cancelled' = cancelled
  PROVE  Trees' /\ Kept'
<1>1. wt'[n] = b /\ \A x \in Names \ {n} : wt'[x] = wt[x]
  BY DEF AddWorktree, IInv, GitInv
<1>2. b \in branches' /\ branches \subseteq branches'
  BY DEF AddWorktree
<1>3. work'[b] = commits /\ \A c \in Branches \ {b} : work'[c] = work[c]
  BY DEF AddWorktree, IInv, GitInv
<1>4. Trees'
  BY <1>1, <1>2 DEF Trees
<1>5. Kept'
  BY <1>2, <1>3 DEF Kept
<1> QED
  BY <1>4, <1>5

\* A step that leaves git alone.
LEMMA PlainWork ==
  ASSUME IInv, WorkInv, Orderly, UNCHANGED git, committed' = committed,
         givenUp \subseteq givenUp', cancelled \subseteq cancelled'
  PROVE  WorkInv'
<1>1. wt' = wt /\ branches' = branches /\ work' = work
  BY DEF git
<1>2. Trees'
  BY <1>1, TreesStay DEF WorkInv, Orderly, Trees
<1>3. Kept'
  BY <1>1, KeptStays DEF WorkInv
<1> QED
  BY <1>2, <1>3 DEF WorkInv, Orderly

\* A step that only removes worktrees, and branches with consent.
LEMMA LessWork ==
  ASSUME IInv, WorkInv, Orderly, Kept',
         \A x \in Names : wt'[x] # NoBranch =>
           wt'[x] = wt[x] /\ (wt[x] \in branches => wt[x] \in branches')
  PROVE  WorkInv'
<1>1. Trees'
  BY TreesStay DEF WorkInv, Orderly, Trees
<1> QED
  BY <1>1 DEF WorkInv, Orderly

LEMMA SameObserved ==
  ASSUME UNCHANGED observed
  PROVE  /\ used' = used /\ committed' = committed
         /\ givenUp' = givenUp /\ cancelled' = cancelled
BY DEF observed, identity, progress, wishes

-----------------------------------------------------------------------------
(* Commands. *)

LEMMA StartWork ==
  ASSUME IInv, IInv', WorkInv, NEW p \in Procs, NEW op, NEW t \in {"task", "chat"},
         NEW pc \in {"worktree", "attach", "scaffold"}, NEW n \in Names, n \notin used,
         NEW b, b \in Names => b = n, t = "chat" => b = NoBranch,
         StartCreate(p, op, t, pc, n, b)
  PROVE  WorkInv'
<1> DEFINE sid == IF Polling THEN "none" ELSE "known"
<1>1. PICK u \in Uids :
        /\ Issue(p, op, pc, CreatedMeta(n, t, b, n, sid, u), NoName)
        /\ used' = used \cup {n}
        /\ UNCHANGED <<store, git, vol, taken, progress, wishes, kills>>
  BY DEF StartCreate
<1> DEFINE new == CreatedMeta(n, t, b, n, sid, u)
           rec == [pc |-> pc, op |-> op, m |-> new, key |-> NoName]
           c == [name |-> n, type |-> t, branch |-> b, uid |-> u]
<1>2. proc[p].pc = "idle" /\ proc' = [proc EXCEPT ![p] = rec] /\ poll' = poll
  BY <1>1 DEF Issue
<1>3. /\ proc'[p].pc = pc /\ proc'[p].m = new
      /\ \A q \in Procs \ {p} : proc'[q] = proc[q]
  BY <1>2 DEF IInv, ProcInv
<1>4. new.name = n /\ Claim(new) = c
  BY DEF CreatedMeta, Claim
<1>5. new # NoMeta
  BY <1>3 DEF IInv, ProcInv
<1> HIDE DEF new, c, rec
<1>6. Mine(p)' = {c}
  BY <1>3, <1>4, <1>5 DEF Mine, Claim
<1>7. Held' \subseteq Held
  BY <1>1, <1>2, StoreHeld DEF PollsShrink
<1>8. \A q \in Procs : proc'[q].pc \in Waiting => proc[q] = proc'[q]
  BY <1>3 DEF Waiting
<1>9. Pending' \subseteq Pending /\ n \notin Pending
  BY <1>8 DEF Pending, WorkInv, ClaimsOK, Distinct
<1>10. Distinct'
  BY <1>1, <1>8 DEF WorkInv, ClaimsOK, Distinct
<1>11. n \notin Settled /\ n \in Settled' /\ Settled \subseteq Settled'
  BY <1>1, <1>9 DEF Settled
<1>12. committed' = committed /\ givenUp' = givenUp /\ cancelled' = cancelled
       /\ branches' = branches /\ work' = work /\ wt' = wt
  BY <1>1 DEF progress, wishes, git
<1>13. ClaimsOK' /\ Claims' \subseteq Claims \cup {c}
  <2>1. c.name = n /\ c.type = t /\ c.branch = b /\ c.uid = u
    BY DEF c
  <2> QED
    BY <1>3, <1>4, <1>6, <1>7, <1>10, <1>11, <1>12, <2>1, BirthKeeps DEF WorkInv
<1>14. Trees'
  BY <1>11, <1>12, <1>13, TreesStay DEF WorkInv, Trees, c
<1>15. Kept'
  BY <1>12, KeptStays DEF WorkInv
<1> QED
  BY <1>13, <1>14, <1>15 DEF WorkInv

\* A command that reads a session's copy, and may be given a new name.
LEMMA LoadWork ==
  ASSUME IInv, IInv', WorkInv, NEW p \in Procs, NEW op, NEW pc, pc \notin Making,
         NEW n \in Names, meta[n] # NoMeta, NEW key,
         Issue(p, op, pc, meta[n], key),
         \/ pc \notin Waiting /\ used' = used
         \/ pc \in Waiting /\ key \in Names \ used /\ used' = used \cup {key},
         UNCHANGED <<store, git, vol, progress, wishes>>
  PROVE  WorkInv'
<1>1. /\ proc[p].pc = "idle" /\ poll' = poll
      /\ proc' = [proc EXCEPT ![p] = [pc |-> pc, op |-> op, m |-> meta[n], key |-> key]]
  BY DEF Issue
<1>2. /\ proc'[p].pc = pc /\ proc'[p].m = meta[n] /\ proc'[p].key = key
      /\ \A q \in Procs \ {p} : proc'[q] = proc[q]
  BY <1>1 DEF IInv, ProcInv
<1>3. Held' \subseteq Held
  BY <1>1, StoreHeld DEF PollsShrink
<1>4. Mine(p)' \subseteq Held
  BY <1>2, LoadedHeld DEF Mine, Claim
<1>5. Shrinks(p)
  BY <1>2, <1>3, <1>4 DEF Shrinks
<1>6. Distinct' /\ Settled \subseteq Settled'
  <2>1. CASE pc \notin Waiting /\ used' = used
    BY <1>2, <2>1, SettlesKeeps DEF Settles, WorkInv, ClaimsOK
  <2>2. CASE pc \in Waiting /\ key \in Names \ used /\ used' = used \cup {key}
    <3>1. Distinct'
      BY <1>2, <2>2 DEF WorkInv, ClaimsOK, Distinct
    <3>2. Pending' \subseteq Pending \cup {key}
      BY <1>2 DEF Pending
    <3> QED
      BY <2>2, <3>1, <3>2 DEF Settled
  <2> QED
    BY <2>1, <2>2
<1>7. Orderly
  BY <1>5, <1>6, ShrinksKeeps, ClaimsShrink DEF Orderly, WorkInv, progress
<1> QED
  BY <1>7, PlainWork DEF progress, wishes

LEMMA CommandWork ==
  ASSUME NamesOnce, OwnBranches, IInv, IInv', WorkInv, NEW p \in Procs,
         Command(p)
  PROVE  WorkInv'
<1>1. \A n \in Names : MayName(n) => n \notin used
  BY DEF MayName, NamesOnce
<1>2. \A n \in Names : ~NextChatName(n)
  BY DEF NextChatName, NamesOnce
<1>3. CASE New(p)
  <2>1. PICK n \in Names, pc \in {"worktree", "attach", "scaffold"} :
          \E b \in BranchArgs \cup {n, NoBranch} :
            MayName(n) /\ StartCreate(p, "new", "task", pc, n, b)
    BY <1>3 DEF New
  <2>2. \A b \in BranchArgs \cup {n, NoBranch} : b \in Names => b = n
    BY ConstantsAssumption DEF Branches, OwnBranches
  <2> QED
    BY <1>1, <2>1, <2>2, StartWork
<1>4. CASE Chat(p)
  <2>1. PICK n \in Names :
          MayName(n) /\ StartCreate(p, "chat", "chat", "scaffold", n, NoBranch)
    BY <1>2, <1>4 DEF Chat
  <2>2. NoBranch \notin Names
    BY ConstantsAssumption DEF Branches
  <2> QED
    BY <1>1, <2>1, <2>2, StartWork
<1>5. CASE Promote(p) \/ Rename(p)
  <2>1. PICK op \in {"promote", "rename"}, c \in Names, n \in Names :
          /\ meta[c] # NoMeta /\ MayName(n)
          /\ Issue(p, op, op, meta[c], n)
          /\ used' = used \cup {n}
          /\ UNCHANGED <<store, git, vol, resOf, taken, progress, wishes, kills>>
    BY <1>5 DEF Promote, Rename
  <2>2. op \in Waiting /\ op \notin Making
    BY DEF Waiting, Making
  <2> QED
    BY <1>1, <2>1, <2>2, LoadWork
<1>6. CASE Resume(p) \/ Done(p) \/ Archive(p) \/ Delete(p)
  <2>1. PICK op \in Commands, pc \in {"restore", "done", "archive", "confirm"}, n \in Names :
          /\ meta[n] # NoMeta
          /\ Issue(p, op, pc, meta[n], NoName)
          /\ UNCHANGED <<store, git, vol, identity, progress, wishes, kills>>
    BY <1>6 DEF Resume, Done, Archive, Delete, LoadFor, Commands
  <2>2. pc \notin Waiting /\ pc \notin Making
    BY DEF Waiting, Making
  <2> QED
    BY <2>1, <2>2, LoadWork DEF identity
<1> QED
  BY <1>3, <1>4, <1>5, <1>6 DEF Command

-----------------------------------------------------------------------------
(* The steps of create() and rename. *)

\* The name that process p was given is claimed by its copy c.
LEMMA PendingClaimed ==
  ASSUME IInv, IInv', WorkInv, NEW p \in Procs, proc[p].pc \in Waiting,
         NEW c \in SessionMeta, c.name = proc[p].key,
         c.branch \in Names => c.branch = c.name, c.type = "chat" => c.branch = NoBranch,
         proc'[p].m = c, proc'[p].pc \notin Waiting,
         \A q \in Procs \ {p} : proc'[q] = proc[q],
         Held' \subseteq Held, UNCHANGED <<git, observed>>
  PROVE  WorkInv'
<1> DEFINE n == proc[p].key
           new == Claim(c)
<1>1. n \in Names /\ c.uid \in Uids /\ c # NoMeta
  BY NoMetaAssumption DEF SessionMeta
<1>2. /\ used' = used /\ committed' = committed /\ givenUp' = givenUp
      /\ cancelled' = cancelled /\ branches' = branches /\ work' = work /\ wt' = wt
  BY SameObserved DEF git
<1>3. \A q \in Procs : proc'[q].pc \in Waiting => q # p /\ proc[q] = proc'[q]
  OBVIOUS
<1>4. Distinct /\ n \in used /\ n \in Pending
  BY DEF WorkInv, ClaimsOK, Distinct, Pending
<1>5. Distinct'
  BY <1>2, <1>3, <1>4 DEF Distinct
<1>6. Pending' \subseteq Pending /\ n \notin Pending'
  BY <1>3, <1>4 DEF Pending, Distinct
<1>7. n \notin Settled /\ n \in Settled' /\ Settled \subseteq Settled'
  BY <1>2, <1>4, <1>6 DEF Settled
<1>8. Mine(p)' = {new}
  BY <1>1 DEF Mine, Claim
<1>9. /\ new.name = n /\ new.type = c.type /\ new.branch = c.branch /\ new.uid = c.uid
  BY DEF Claim
<1> HIDE DEF new
<1>10. ClaimsOK' /\ Claims' \subseteq Claims \cup {new}
  BY <1>1, <1>2, <1>5, <1>7, <1>8, <1>9, BirthKeeps DEF WorkInv
<1>11. Trees'
  BY <1>2, <1>7, <1>9, <1>10, TreesStay DEF WorkInv, Trees
<1>12. Kept'
  BY <1>2, KeptStays DEF WorkInv
<1> QED
  BY <1>10, <1>11, <1>12 DEF WorkInv

LEMMA PromoteCheckWork ==
  ASSUME OwnBranches, IInv, IInv', WorkInv, NEW p \in Procs, PromoteCheck(p)
  PROVE  WorkInv'
<1> DEFINE m == proc[p].m
           n == proc[p].key
<1>1. proc[p].pc = "promote" /\ UNCHANGED <<store, git, vol, observed>>
  BY DEF PromoteCheck
<1>2. m \in SessionMeta /\ Sound(m) /\ n \in Names
  BY <1>1, AtWork
<1>3. CASE Exit(p)
  <2>1. Held' \subseteq Held
    BY <1>1, <1>3, StoreHeld DEF Exit, PollsShrink, IInv, PollInv
  <2> QED
    BY <1>1, <1>3, <2>1, ExitClaims, PlainWork, SameObserved DEF WorkInv
<1>4. ASSUME NEW pc \in {"worktree", "attach", "scaffold"},
             NEW b \in Branches \cup {NoBranch}, b \in Names => b = n,
             proc' = [proc EXCEPT ![p].pc = pc, ![p].key = m.name,
                                  ![p].m = PromotedMeta(m, n, b)],
             poll' = poll
      PROVE  WorkInv'
  <2> DEFINE new == PromotedMeta(m, n, b)
  <2>1. new \in SessionMeta
    BY <1>2, PromotedCopies
  <2>2. new.name = n /\ new.branch = b /\ new.type = "task"
    BY DEF PromotedMeta, CreatedMeta
  <2> HIDE DEF new
  <2>3. /\ proc'[p].pc = pc /\ proc'[p].m = new
        /\ \A q \in Procs \ {p} : proc'[q] = proc[q]
    BY <1>4 DEF IInv, ProcInv, Process, new
  <2>4. Held' \subseteq Held
    BY <1>1, <1>4, StoreHeld DEF PollsShrink
  <2>5. pc \notin Waiting /\ proc[p].pc \in Waiting
    BY <1>1 DEF Waiting
  <2> QED
    BY <1>1, <1>4, <2>1, <2>2, <2>3, <2>4, <2>5, PendingClaimed
<1>5. CASE MayPromote(m, n)
  <2>1. \A b \in BranchArgs \cup {n, NoBranch} :
          b \in Branches \cup {NoBranch} /\ (b \in Names => b = n)
    BY <1>2, ConstantsAssumption DEF Branches, OwnBranches
  <2> QED
    BY <1>4, <1>5, <2>1 DEF PromoteCheck
<1> QED
  BY <1>3, <1>5 DEF PromoteCheck

\* What the process at work has: a typed copy, whose claim counts.
LEMMA Have ==
  ASSUME IInv, WorkInv, NEW p \in Procs, proc[p].pc # "idle"
  PROVE  /\ proc[p].m \in SessionMeta /\ proc[p].m.name \in Names
         /\ proc[p].m # NoMeta /\ proc[p].m.uid \in Uids
         /\ Mine(p) = {Claim(proc[p].m)} /\ Claim(proc[p].m) \in Claims
         /\ proc[p].m.name \in Settled
         /\ proc[p].m.branch \in Names => proc[p].m.branch = proc[p].m.name
         /\ ClaimsOK /\ Trees /\ Kept
<1>1. /\ proc[p].m \in SessionMeta /\ proc[p].m.name \in Names
      /\ proc[p].m # NoMeta /\ proc[p].m.uid \in Uids
  BY AtWork, NoMetaAssumption DEF SessionMeta
<1>2. Mine(p) = {Claim(proc[p].m)} /\ Claim(proc[p].m) \in Claims
  BY AtWorkClaims
<1>3. /\ proc[p].m.name \in Settled
      /\ proc[p].m.branch \in Names => proc[p].m.branch = proc[p].m.name
  BY <1>2 DEF WorkInv, ClaimsOK, Claimed, Claim
<1> QED
  BY <1>1, <1>2, <1>3 DEF WorkInv

\* A process that leaves everything as it is but for its own state.
LEMMA ExitHeld ==
  ASSUME IInv, NEW p \in Procs, Exit(p)
  PROVE  PollsShrink
BY DEF Exit, PollsShrink, IInv, PollInv

LEMMA GotoHeld ==
  ASSUME NEW p \in Procs, NEW pc, NEW c, Goto(p, pc, c)
  PROVE  PollsShrink
BY DEF Goto, PollsShrink

LEMMA CreateWorktreeWork ==
  ASSUME OwnBranches, IInv, IInv', WorkInv, NEW p \in Procs, CreateWorktree(p)
  PROVE  WorkInv'
<1> DEFINE m == proc[p].m
           n == m.name
           b == m.branch
<1>1. /\ proc[p].pc \in {"worktree", "attach"} /\ proc[p].pc \in Making
      /\ UNCHANGED <<store, vol, used, progress, wishes>>
  BY DEF CreateWorktree, Making
<1>2. /\ m \in SessionMeta /\ n \in Names /\ m # NoMeta /\ m.uid \in Uids
      /\ Mine(p) = {Claim(m)} /\ Claim(m) \in Claims /\ n \in Settled
      /\ b \in Names => b = n
      /\ ClaimsOK /\ Trees /\ Kept
  BY <1>1, Have
<1>3. b \in Branches /\ (proc[p].pc = "worktree" => b = n)
  BY <1>1, <1>2, AtWork DEF SessionMeta, Fits, HasWorktree, Branches
<1>4. used' = used /\ committed' = committed /\ givenUp' = givenUp /\ cancelled' = cancelled
  BY <1>1 DEF progress, wishes
<1>5. CASE AddWorktreeFails(n, b) /\ Exit(p)
  <2>1. Held' \subseteq Held
    BY <1>1, <1>5, StoreHeld, ExitHeld
  <2>2. Orderly
    BY <1>2, <1>4, <1>5, <2>1, ExitClaims
  <2>3. Kept'
    BY <1>2, <1>4, <1>5, KeptStays DEF AddWorktreeFails
  <2> QED
    BY <1>2, <1>5, <2>2, <2>3, LessWork DEF AddWorktreeFails, WithoutWorktree, IInv, GitInv
<1>6. ASSUME NEW c \in {m, [m EXCEPT !.owned = FALSE]}, Goto(p, "scaffold", c),
             NEW commits \in SUBSET (Uids \cup {User}), AddWorktree(n, b, commits),
             \A u \in Uids : <<u, b>> \in committed /\ u \notin givenUp \cup cancelled => u \in commits
      PROVE  WorkInv'
  <2>1. Claim(c) = Claim(m) /\ c.name = n /\ c # NoMeta
    <3>1. Claim(c) = Claim(m) /\ c.name = n /\ c \in SessionMeta
      BY <1>2 DEF Claim, SessionMeta
    <3> QED
      BY <3>1, NoMetaAssumption
  <2>2. Held' \subseteq Held
    BY <1>1, <1>6, StoreHeld, GotoHeld
  <2>3. "scaffold" \in PCs \ Waiting
    BY DEF PCs, Waiting
  <2>4. Orderly
    BY <1>1, <1>2, <1>4, <1>6, <2>1, <2>2, <2>3, GotoClaims
  <2>5. \A d \in Claims : d.name = n /\ d.branch # NoBranch => d.branch = b
    BY <1>2, <1>3, ConstantsAssumption DEF ClaimsOK, Agreed, Claim
  <2>6. Trees' /\ Kept'
    BY <1>2, <1>3, <1>4, <1>6, <2>4, <2>5, AddKept DEF Orderly
  <2> QED
    BY <2>4, <2>6 DEF WorkInv, Orderly
<1>7. CASE Reuse(proc[p].pc, b) /\ AddWorktree(n, b, work[b]) /\ Goto(p, "scaffold", [m EXCEPT !.owned = FALSE])
  <2>1. work[b] \in SUBSET (Uids \cup {User})
    BY <1>3 DEF IInv, GitInv
  <2>2. \A u \in Uids : <<u, b>> \in committed /\ u \notin givenUp \cup cancelled => u \in work[b]
    BY <1>2, <1>3 DEF Kept
  <2> QED
    BY <1>6, <1>7, <2>1, <2>2
<1>8. CASE ~Reuse(proc[p].pc, b) /\ AddWorktree(n, b, {}) /\ Goto(p, "scaffold", m)
  <2>1. b = n
    BY <1>1, <1>2, <1>3, <1>8
    DEF Reuse, OwnBranches, Branches, IInv, SeenInv, GitInv, UserBranchSafe
  <2>2. \A u \in Uids : <<u, b>> \notin committed
    BY <1>1, <1>2, <2>1 DEF ClaimsOK, Sole
  <2> QED
    BY <1>6, <1>8, <2>2
<1> QED
  BY <1>5, <1>7, <1>8 DEF CreateWorktree

\* The rollback finds only the branch it made, without a commit.
LEMMA CancelCreateWork ==
  ASSUME OwnBranches, IInv, IInv', WorkInv, NEW p \in Procs, CancelCreate(p)
  PROVE  WorkInv'
<1> DEFINE m == proc[p].m
<1>1. /\ proc[p].pc = "scaffold" /\ proc[p].pc \in Making /\ Exit(p)
      /\ UNCHANGED <<store, vol, observed>>
  BY DEF CancelCreate, Making
<1>2. used' = used /\ committed' = committed /\ givenUp' = givenUp /\ cancelled' = cancelled
  BY <1>1, SameObserved
<1>3. Held' \subseteq Held
  BY <1>1, StoreHeld, ExitHeld
<1>4. Orderly
  BY <1>1, <1>2, <1>3, ExitClaims DEF WorkInv
<1>5. CASE HasWorktree(m)
  <2>1. RemoveWorktreeAndBranch(m)
    BY <1>5 DEF CancelCreate
  <2>2. Kept' /\ \A x \in Names : wt'[x] # NoBranch =>
          wt'[x] = wt[x] /\ (wt[x] \in branches => wt[x] \in branches')
    BY <1>1, <1>2, <1>5, <2>1, RemovalKept DEF WorkInv
  <2> QED
    BY <1>4, <2>2, LessWork
<1>6. CASE ~HasWorktree(m)
  BY <1>2, <1>4, <1>6, PlainWork DEF CancelCreate
<1> QED
  BY <1>5, <1>6

LEMMA CreationWork ==
  ASSUME OwnBranches, IInv, IInv', WorkInv, NEW p \in Procs, Creation(p)
  PROVE  WorkInv'
<1> DEFINE m == proc[p].m
           key == proc[p].key
<1>1. ASSUME proc[p].pc # "idle"
      PROVE  /\ m \in SessionMeta /\ m.name \in Names /\ m # NoMeta
             /\ Mine(p) = {Claim(m)} /\ Claim(m) \in Claims /\ ClaimsOK
  BY <1>1, Have
<1>2. CASE PromoteCheck(p) \/ CreateWorktree(p) \/ CancelCreate(p)
  BY <1>2, PromoteCheckWork, CreateWorktreeWork, CancelCreateWork
<1>3. {"save", "launch", "renameSave"} \subseteq PCs \ Waiting
  BY DEF PCs, Waiting
<1>4. CASE PromoteMove(p)
  <2>1. proc[p].pc = "scaffold" /\ proc[p].pc \in Making /\ UNCHANGED <<git, vol, observed>>
    BY <1>4 DEF PromoteMove, Making
  <2>2. CASE MoveDir(key, m.name) /\ Goto(p, "save", m)
    <3>1. key \in Names
      BY <2>2 DEF MoveDir, IInv, StoreInv
    <3>2. Held' \subseteq Held
      BY <1>1, <2>1, <2>2, <3>1, MoveHeld, GotoHeld
    <3>3. Orderly
      BY <1>1, <1>3, <2>1, <2>2, <3>2, GotoClaims, SameObserved
    <3> QED
      BY <2>1, <3>3, PlainWork, SameObserved
  <2>3. CASE MoveDirFails(key, m.name) /\ Exit(p)
    <3>1. Held' \subseteq Held
      BY <2>3, StoreHeld, ExitHeld DEF MoveDirFails
    <3>2. Orderly
      BY <1>1, <2>1, <2>3, <3>1, ExitClaims, SameObserved
    <3> QED
      BY <2>1, <3>2, PlainWork, SameObserved
  <2> QED
    BY <1>4, <2>2, <2>3 DEF PromoteMove
<1>5. CASE CreateSave(p)
  <2>1. /\ proc[p].pc # "idle" /\ Save(m)
        /\ used' = used /\ committed' = committed /\ givenUp' = givenUp
        /\ cancelled' = cancelled /\ UNCHANGED git
        /\ Exit(p) \/ Goto(p, "launch", m)
    BY <1>5 DEF CreateSave, identity, wishes
  <2>2. PollsShrink
    BY <2>1, ExitHeld, GotoHeld
  <2>3. Held' \subseteq Held \cup Mine(p)
    BY <1>1, <2>1, <2>2, SaveHeld
  <2>4. "launch" \notin Making
    BY DEF Making
  <2>5. Orderly
    BY <1>1, <1>3, <2>1, <2>3, <2>4, ExitClaims, GotoClaims
  <2> QED
    BY <2>1, <2>5, PlainWork
<1>6. CASE RenameMove(p)
  <2>1. proc[p].pc = "rename" /\ proc[p].pc \in Waiting /\ UNCHANGED <<git, vol, observed>>
    BY <1>6 DEF RenameMove, Waiting
  <2>2. key \in Names
    BY <2>1, AtWork
  <2>3. CASE MayRename(m, key) /\ MoveDir(m.name, key) /\ Goto(p, "renameSave", Renamed(m, key))
    <3> DEFINE c == Renamed(m, key)
    <3>1. /\ c \in SessionMeta /\ c.name = key /\ c.branch = m.branch /\ c.type = m.type
      BY <1>1, <2>1, <2>2, Copies DEF Renamed, SessionMeta
    <3> HIDE DEF c
    <3>2. m.type = "chat" /\ m.branch = NoBranch
      BY <1>1, <2>1, <2>3 DEF MayRename, ClaimsOK, Claimed, Claim
    <3>3. NoBranch \notin Names
      BY ConstantsAssumption DEF Branches
    <3>4. Held' \subseteq Held
      BY <1>1, <2>1, <2>2, <2>3, MoveHeld, GotoHeld
    <3>5. /\ proc'[p].m = c /\ proc'[p].pc \notin Waiting
          /\ \A q \in Procs \ {p} : proc'[q] = proc[q]
      BY <1>3, <2>3 DEF Goto, IInv, ProcInv, Process, c
    <3> QED
      BY <2>1, <3>1, <3>2, <3>3, <3>4, <3>5, PendingClaimed
  <2>4. CASE Exit(p) /\ UNCHANGED store
    <3>1. Held' \subseteq Held
      BY <2>4, StoreHeld, ExitHeld
    <3>2. Orderly
      BY <1>1, <2>1, <2>4, <3>1, ExitClaims, SameObserved
    <3> QED
      BY <2>1, <3>2, PlainWork, SameObserved
  <2> QED
    BY <1>6, <2>3, <2>4 DEF RenameMove
<1>7. CASE RenameSave(p)
  <2>1. proc[p].pc # "idle" /\ Save(m) /\ Exit(p) /\ UNCHANGED <<git, vol, observed>>
    BY <1>7 DEF RenameSave
  <2>2. Held' \subseteq Held \cup Mine(p)
    BY <1>1, <2>1, SaveHeld, ExitHeld
  <2>3. Orderly
    BY <1>1, <2>1, <2>2, ExitClaims, SameObserved
  <2> QED
    BY <2>1, <2>3, PlainWork, SameObserved
<1> QED
  BY <1>2, <1>4, <1>5, <1>6, <1>7 DEF Creation

-----------------------------------------------------------------------------
(* The run of the agent, and what follows it. *)

\* A step that saves a copy of what is claimed, or leaves the store, and then
\* exits or goes on with such a copy, and leaves git alone.
LEMMA UsingWork ==
  ASSUME IInv, IInv', WorkInv, NEW p \in Procs, proc[p].pc # "idle",
         \/ UNCHANGED store
         \/ \E c \in SessionMeta : Claim(c) \in Held \cup Mine(p) /\ Save(c),
         \/ Exit(p)
         \/ \E pc \in PCs \ (Waiting \cup Making), c \in SessionMeta :
              Claim(c) \in Held \cup Mine(p) /\ Goto(p, pc, c),
         used' = used, committed' = committed
  PROVE  Orderly
<1>1. ClaimsOK
  BY DEF WorkInv
<1>2. PollsShrink
  BY ExitHeld, GotoHeld
<1>3. Held' \subseteq Held \cup Mine(p)
  BY <1>2, StoreHeld, SaveHeld
<1>4. CASE Exit(p)
  BY <1>1, <1>3, <1>4, ExitClaims
<1>5. ASSUME NEW pc \in PCs \ (Waiting \cup Making), NEW c \in SessionMeta,
             Claim(c) \in Held \cup Mine(p), Goto(p, pc, c)
      PROVE  Orderly
  BY <1>1, <1>3, <1>5, NoMetaAssumption, GotoClaims
<1> QED
  BY <1>4, <1>5

\* The copies a command works with claim what is claimed already.
LEMMA UsingClaims ==
  ASSUME IInv, WorkInv, NEW p \in Procs, proc[p].pc # "idle"
  PROVE  LET m == proc[p].m
             at == meta[m.name]
         IN  /\ m \in SessionMeta /\ Claim(m) \in Held \cup Mine(p)
             /\ \A s \in {"in-progress", "running", "complete", "archived"} :
                  LET c == [m EXCEPT !.status = s]
                  IN  c \in SessionMeta /\ Claim(c) \in Held \cup Mine(p)
             /\ LET c == [m EXCEPT !.sid = "known"]
                IN  c \in SessionMeta /\ Claim(c) \in Held \cup Mine(p)
             /\ at # NoMeta => at \in SessionMeta /\ Claim(at) \in Held \cup Mine(p)
             /\ at # NoMeta => \A s \in {"in-progress", "running", "complete", "archived"} :
                  LET c == [at EXCEPT !.status = s]
                  IN  c \in SessionMeta /\ Claim(c) \in Held \cup Mine(p)
<1> DEFINE m == proc[p].m
           at == meta[m.name]
<1>1. m \in SessionMeta /\ m.name \in Names /\ Claim(m) \in Held \cup Mine(p)
  BY Have
<1>2. at # NoMeta => at \in SessionMeta /\ Claim(at) \in Held \cup Mine(p)
  BY <1>1, Loaded, LoadedHeld
<1> HIDE DEF m, at
<1>3. ASSUME NEW x \in SessionMeta, Claim(x) \in Held \cup Mine(p)
      PROVE  /\ \A s \in {"in-progress", "running", "complete", "archived"} :
                  LET c == [x EXCEPT !.status = s]
                  IN  c \in SessionMeta /\ Claim(c) \in Held \cup Mine(p)
             /\ LET c == [x EXCEPT !.sid = "known"]
                IN  c \in SessionMeta /\ Claim(c) \in Held \cup Mine(p)
  BY <1>3, SameClaim, Copies
<1> QED
  BY <1>1, <1>2, <1>3 DEF m, at

\* A worktree comes back on the branch that the session claims, with what that
\* branch holds.
LEMMA RestoreWork ==
  ASSUME IInv, IInv', WorkInv, NEW p \in Procs, Restore(p)
  PROVE  WorkInv'
<1> DEFINE m == proc[p].m
           n == m.name
           b == m.branch
           c == [m EXCEPT !.status = "in-progress"]
<1>1. /\ proc[p].pc = "restore" /\ proc[p].pc # "idle"
      /\ UNCHANGED <<store, vol, observed>>
  BY DEF Restore
<1>2. used' = used /\ committed' = committed /\ givenUp' = givenUp /\ cancelled' = cancelled
  BY <1>1, SameObserved
<1>3. /\ m \in SessionMeta /\ n \in Names /\ Claim(m) \in Claims /\ n \in Settled
      /\ ClaimsOK /\ Trees /\ Kept
  BY <1>1, Have
<1>4. /\ Claim(m) \in Held \cup Mine(p)
      /\ c \in SessionMeta /\ Claim(c) \in Held \cup Mine(p)
  BY <1>1, UsingClaims
<1>5. {"kind", "restoreSave"} \subseteq PCs \ (Waiting \cup Making)
  BY DEF PCs, Waiting, Making
<1> HIDE DEF c
<1>6. CASE Goto(p, "kind", m) /\ UNCHANGED git
  <2>1. Orderly
    BY <1>1, <1>2, <1>3, <1>4, <1>5, <1>6, UsingWork
  <2> QED
    BY <1>2, <1>6, <2>1, PlainWork
<1>7. CASE HasWorktree(m) /\ AddWorktree(n, b, RecreateBase(b)) /\ Goto(p, "restoreSave", c)
  <2>1. Orderly
    BY <1>1, <1>2, <1>4, <1>5, <1>7, UsingWork
  <2>2. b \in Branches
    BY <1>3, <1>7 DEF SessionMeta, HasWorktree
  <2>3. RecreateBase(b) \in SUBSET (Uids \cup {User})
    BY <2>2 DEF RecreateBase, IInv, GitInv
  <2>4. \A u \in Uids : <<u, b>> \in committed /\ u \notin givenUp \cup cancelled =>
          u \in RecreateBase(b)
    BY <1>3, <2>2 DEF Kept, RecreateBase
  <2>5. \A d \in Claims : d.name = n /\ d.branch # NoBranch => d.branch = b
    BY <1>3, <1>7 DEF ClaimsOK, Agreed, Claim, HasWorktree
  <2>6. Trees' /\ Kept'
    BY <1>2, <1>3, <1>7, <2>1, <2>2, <2>3, <2>4, <2>5, AddKept DEF Orderly
  <2> QED
    BY <2>1, <2>6 DEF WorkInv, Orderly
<1>8. CASE AddWorktreeFails(n, b) /\ Exit(p)
  <2>1. Orderly
    BY <1>1, <1>2, <1>8, UsingWork
  <2>2. Kept'
    BY <1>2, <1>3, <1>8, KeptStays DEF AddWorktreeFails
  <2> QED
    BY <1>3, <1>8, <2>1, <2>2, LessWork DEF AddWorktreeFails, WithoutWorktree, IInv, GitInv
<1>9. CASE Exit(p) /\ UNCHANGED git
  <2>1. Orderly
    BY <1>1, <1>2, <1>9, UsingWork
  <2> QED
    BY <1>2, <1>9, <2>1, PlainWork
<1> QED
  BY <1>6, <1>7, <1>8, <1>9 DEF Restore, c

\* The poller claims what the process that starts it claims.
LEMMA LaunchWork ==
  ASSUME IInv, IInv', WorkInv, NEW p \in Procs, Launch(p)
  PROVE  WorkInv'
<1> DEFINE m == proc[p].m
           at == meta[m.name]
<1>1. proc[p].pc = "launch" /\ proc[p].pc # "idle" /\ UNCHANGED <<git, vol, observed>>
  BY DEF Launch
<1>2. used' = used /\ committed' = committed /\ givenUp' = givenUp /\ cancelled' = cancelled
      /\ UNCHANGED git
  BY <1>1, SameObserved
<1>3. m \in SessionMeta /\ m.name \in Names /\ Mine(p) = {Claim(m)} /\ ClaimsOK
  BY <1>1, Have
<1>4. CASE Exit(p) /\ meta' = meta
  <2>1. Held' \subseteq Held
    BY <1>4, ExitHeld, SameHeld
  <2>2. Orderly
    BY <1>2, <1>3, <1>4, <2>1, ExitClaims
  <2> QED
    BY <1>2, <2>2, PlainWork
<1>5. CASE /\ at # NoMeta
           /\ SetStatus(m.name, "running")
           /\ proc' = [proc EXCEPT ![p].pc = "agent"]
           /\ poll' = IF Polling THEN [poll EXCEPT ![p] = @ \cup {m}] ELSE poll
  <2> DEFINE c == [at EXCEPT !.status = "running"]
  <2>1. at \in SessionMeta /\ Claim(c) = Claim(at) /\ Claim(at) \in Held /\ c \in SessionMeta
    BY <1>3, <1>5, Loaded, LoadedHeld, SameClaim, Copies
  <2>2. at.name \in Names
    BY <2>1 DEF SessionMeta
  <2>3. c.name = at.name
    BY <2>1 DEF SessionMeta
  <2> HIDE DEF c
  <2>4. Save(c)
    BY <1>5 DEF SetStatus, c
  <2>5. meta'[at.name] = c /\ \A x \in Names \ {at.name} : meta'[x] = meta[x]
    BY <2>2, <2>3, <2>4 DEF Save, IInv, StoreInv
  <2>6. InStore' \subseteq Held
    BY <2>1, <2>2, <2>5 DEF InStore, Held, Claim
  <2>7. InPolls' \subseteq Held \cup Mine(p)
    <3>1. \A q \in Procs : poll'[q] \subseteq poll[q] \cup {m}
      BY <1>5 DEF IInv, PollInv
    <3> QED
      BY <1>3, <3>1 DEF InPolls, Held, Claim
  <2>8. Held' \subseteq Held \cup Mine(p)
    BY <2>6, <2>7 DEF Held
  <2>9. proc'[p].pc = "agent" /\ proc'[p].m = m /\ \A q \in Procs \ {p} : proc'[q] = proc[q]
    BY <1>5 DEF IInv, ProcInv, Process
  <2>10. Mine(p)' = Mine(p)
    BY <2>9 DEF Mine, Claim
  <2>11. Shrinks(p) /\ Settles(p)
    BY <2>8, <2>9, <2>10 DEF Shrinks, Settles, Making, Waiting
  <2>12. Distinct' /\ Settled \subseteq Settled'
    BY <1>2, <1>3, <2>9, <2>11, SettlesKeeps DEF ClaimsOK
  <2>13. Orderly
    BY <1>2, <1>3, <2>11, <2>12, ShrinksKeeps, ClaimsShrink DEF Orderly
  <2> QED
    BY <1>2, <2>13, PlainWork
<1> QED
  BY <1>4, <1>5 DEF Launch

\* The agent commits on the branch that its session claims, which is its own or
\* one of the user's.
LEMMA AgentWorksWork ==
  ASSUME IInv, IInv', WorkInv, NEW p \in Procs, AgentWorks(p)
  PROVE  WorkInv'
<1> DEFINE m == proc[p].m
           n == m.name
           b == wt[n]
<1>1. /\ proc[p].pc = "agent" /\ proc[p].pc # "idle" /\ proc[p].pc \notin Making
      /\ proc' = proc /\ wt' = wt /\ branches' = branches /\ used' = used
      /\ givenUp' = givenUp /\ cancelled' = cancelled
      /\ UNCHANGED store /\ poll' = poll
  BY DEF AgentWorks, Making, identity, wishes
<1>2. /\ m \in SessionMeta /\ n \in Names /\ m.uid \in Uids
      /\ Mine(p) = {Claim(m)} /\ Claim(m) \in Claims /\ n \in Settled
      /\ m.branch \in Names => m.branch = n
      /\ ClaimsOK /\ Trees /\ Kept
  BY <1>1, Have
<1>3. Held' \subseteq Held
  BY <1>1, StoreHeld DEF PollsShrink
<1>4. CASE UNCHANGED <<work, committed>>
  <2>1. Orderly
    BY <1>1, <1>2, <1>3, <1>4, StayClaims
  <2> QED
    BY <1>1, <1>4, <2>1, PlainWork DEF git
<1>5. CASE /\ HasWorktree(m) /\ b # NoBranch
           /\ work' = [work EXCEPT ![b] = @ \cup {m.uid}]
           /\ committed' = committed \cup {<<m.uid, b>>}
  <2>1. b \in Branches /\ b \in branches /\ m.branch = b
    BY <1>2, <1>5 DEF IInv, GitInv, Trees, Claim, HasWorktree
  <2>2. b \in Names => b = n
    BY <1>2, <2>1
  <2>3. \A q \in Procs : Mine(q)' = Mine(q)
    BY <1>1 DEF Mine, Claim
  <2>4. Claims' \subseteq Claims
    BY <1>3, <2>3 DEF Claims
  <2>5. Distinct' /\ Settled' = Settled
    BY <1>1, <1>2 DEF ClaimsOK, Distinct, Settled, Pending
  <2>6. Claimed' /\ Agreed'
    BY <1>2, <2>4, <2>5 DEF ClaimsOK, Claimed, Agreed
  <2>7. \A c \in Claims : c.name = n => c.uid = m.uid
    BY <1>2 DEF ClaimsOK, Agreed, Claim
  <2>8. Credited'
    BY <1>2, <1>5, <2>2, <2>4, <2>5, <2>7 DEF ClaimsOK, Credited
  <2>9. ASSUME NEW q \in Procs
        PROVE  Sole(q)'
    <3> SUFFICES ASSUME proc[q].pc \in Making
                 PROVE  /\ \A c \in Held' : c.name # proc[q].m.name
                        /\ \A r \in Procs \ {q} : \A c \in Mine(r)' : c.name # proc[q].m.name
                        /\ \A u \in Uids : <<u, proc[q].m.name>> \notin committed'
      BY <1>1 DEF Sole
    <3>1. Sole(q) /\ q # p
      BY <1>1, <1>2 DEF ClaimsOK
    <3>2. proc[q].m.name # n
      BY <1>2, <3>1 DEF Sole, Claim
    <3>3. proc[q].m.name \in Names
      BY AtWork DEF SessionMeta, Making
    <3>4. proc[q].m.name # b
      BY <2>2, <3>2, <3>3
    <3> QED
      BY <1>3, <1>5, <2>3, <3>1, <3>4 DEF Sole
  <2>10. Trees'
    BY <1>1, <1>2, <2>4, <2>5 DEF Trees
  <2>11. Kept'
    <3>1. work'[b] = work[b] \cup {m.uid} /\ \A x \in Branches \ {b} : work'[x] = work[x]
      BY <1>5, <2>1 DEF IInv, GitInv
    <3> QED
      BY <1>1, <1>2, <1>5, <2>1, <3>1 DEF Kept
  <2> QED
    BY <2>5, <2>6, <2>8, <2>9, <2>10, <2>11 DEF WorkInv, ClaimsOK
<1> QED
  BY <1>4, <1>5 DEF AgentWorks

\* However late a poller saves, it claims what it claimed before.
LEMMA PollerWork ==
  ASSUME IInv, IInv', WorkInv, NEW p \in Procs, PollerSaves(p) \/ PollerEnds(p)
  PROVE  WorkInv'
<1>1. PICK m \in poll[p] :
        /\ poll' = [poll EXCEPT ![p] = @ \ {m}]
        /\ Save([m EXCEPT !.sid = "known"]) \/ UNCHANGED store
        /\ UNCHANGED <<git, vol, proc, observed>>
  BY DEF PollerSaves, PollerEnds
<1> DEFINE c == [m EXCEPT !.sid = "known"]
<1>2. m \in SessionMeta
  BY <1>1 DEF IInv, PollInv
<1>3. c \in SessionMeta /\ Claim(c) = Claim(m)
  BY <1>2, SameClaim, Copies
<1> HIDE DEF c
<1>4. Claim(m) \in Held
  BY <1>1 DEF Held, InPolls
<1>5. PollsShrink
  BY <1>1 DEF PollsShrink, IInv, PollInv
<1>6. Save(c) \/ UNCHANGED store
  BY <1>1 DEF c
<1>7. Held' \subseteq Held
  BY <1>3, <1>4, <1>5, <1>6, SaveHeld, StoreHeld
<1>8. UNCHANGED git /\ proc' = proc
  BY <1>1
<1>9. Orderly
  BY <1>1, <1>7, <1>8, StayClaims, SameObserved DEF WorkInv
<1> QED
  BY <1>1, <1>8, <1>9, PlainWork, SameObserved

\* An interrupted `new` takes only commits of the session interrupted.
LEMMA InterruptWork ==
  ASSUME OwnBranches, IInv, IInv', WorkInv, NEW p \in Procs,
         proc[p].pc \notin {"idle", "worktree", "attach"}, Orderly,
         CancelNew(p) \/ UNCHANGED <<git, cancelled>>,
         committed' = committed, givenUp' = givenUp
  PROVE  WorkInv'
<1> DEFINE m == proc[p].m
<1>1. ClaimsOK /\ Kept
  BY DEF WorkInv
<1>2. CASE UNCHANGED <<git, cancelled>>
  BY <1>2, PlainWork
<1>3. CASE /\ HasWorktree(m) /\ RemoveWorktreeAndBranch(m)
           /\ cancelled' = cancelled \cup {m.uid}
  <2>1. m.uid \in cancelled' /\ cancelled \subseteq cancelled'
    BY <1>3
  <2>2. Kept' /\ \A x \in Names : wt'[x] # NoBranch =>
          wt'[x] = wt[x] /\ (wt[x] \in branches => wt[x] \in branches')
    BY <1>1, <1>3, <2>1, RemovalKept
  <2> QED
    BY <2>2, LessWork
<1> QED
  BY <1>2, <1>3 DEF CancelNew

LEMMA RunWork ==
  ASSUME OwnBranches, IInv, IInv', WorkInv, NEW p \in Procs, Run(p)
  PROVE  WorkInv'
<1> DEFINE m == proc[p].m
           at == meta[m.name]
<1>1. {"kind", "launch", "menu", "post"} \subseteq PCs \ (Waiting \cup Making)
  BY DEF PCs, Waiting, Making
<1>2. CASE RestoreSave(p)
  <2>1. /\ proc[p].pc # "idle" /\ Save(m) /\ Goto(p, "kind", m)
        /\ UNCHANGED <<git, vol, observed>>
    BY <1>2 DEF RestoreSave
  <2>2. Orderly
    BY <1>1, <2>1, UsingClaims, UsingWork, SameObserved
  <2> QED
    BY <2>1, <2>2, PlainWork, SameObserved
<1>3. CASE ResumeKind(p)
  <2> DEFINE c == [m EXCEPT !.sid = "known"]
  <2>1. c \in SessionMeta /\ Claim(c) \in Held \cup Mine(p)
    BY <1>3, UsingClaims DEF ResumeKind
  <2> HIDE DEF c
  <2>2. /\ proc[p].pc # "idle" /\ Goto(p, "launch", c) /\ (Save(c) \/ UNCHANGED store)
        /\ UNCHANGED <<git, vol, observed>>
    BY <1>3 DEF ResumeKind, c
  <2>3. Orderly
    BY <1>1, <2>1, <2>2, UsingWork, SameObserved
  <2> QED
    BY <2>2, <2>3, PlainWork, SameObserved
<1> DEFINE back == [at EXCEPT !.status = "in-progress"]
<1>4. ASSUME proc[p].pc = "agent"
      PROVE  /\ m \in SessionMeta /\ Claim(m) \in Held \cup Mine(p)
             /\ at # NoMeta => back \in SessionMeta /\ Claim(back) \in Held \cup Mine(p)
  BY <1>4, UsingClaims
<1> HIDE DEF back
<1>5. StatusBack(m.name) => Save(back)
  BY DEF StatusBack, SetStatus, back
<1>6. CASE AgentExits(p)
  <2>1. /\ proc[p].pc = "agent" /\ proc[p].pc # "idle"
        /\ UNCHANGED <<git, vol, observed>>
        /\ UNCHANGED store \/ (at # NoMeta /\ Save(back))
        /\ Exit(p) \/ Goto(p, "menu", m) \/ Goto(p, "post", m)
    BY <1>5, <1>6 DEF AgentExits
  <2>2. Orderly
    BY <1>1, <1>4, <2>1, UsingWork, SameObserved
  <2> QED
    BY <2>1, <2>2, PlainWork, SameObserved
<1>7. CASE AgentInterrupted(p)
  <2>1. /\ proc[p].pc = "agent" /\ proc[p].pc \notin {"idle", "worktree", "attach"} /\ Exit(p)
        /\ UNCHANGED store \/ (at # NoMeta /\ Save(back))
        /\ used' = used /\ committed' = committed /\ givenUp' = givenUp
        /\ CancelNew(p) \/ UNCHANGED <<git, cancelled>>
    BY <1>5, <1>7 DEF AgentInterrupted, identity, progress
  <2>2. Orderly
    BY <1>4, <2>1, UsingWork
  <2> QED
    BY <2>1, <2>2, InterruptWork
<1> QED
  BY <1>2, <1>3, <1>6, <1>7, RestoreWork, LaunchWork, AgentWorksWork, PollerWork DEF Run

LEMMA EndingWork ==
  ASSUME OwnBranches, IInv, IInv', WorkInv, NEW p \in Procs, Ending(p)
  PROVE  WorkInv'
<1> DEFINE m == proc[p].m
           at == meta[m.name]
<1>1. {"menu", "done", "confirm", "launch", "doneSave", "archiveSave",
       "cleanup", "unlink", "volumes"} \subseteq PCs \ (Waiting \cup Making)
  BY DEF PCs, Waiting, Making
<1>2. ASSUME proc[p].pc # "idle"
      PROVE  /\ m \in SessionMeta /\ m.name \in Names /\ Claim(m) \in Held \cup Mine(p)
             /\ at # NoMeta => at \in SessionMeta /\ Claim(at) \in Held \cup Mine(p)
  BY <1>2, UsingClaims, Have
<1>3. CASE PostExit(p) \/ MenuDone(p) \/ MenuDelete(p)
  <2>1. PICK pc \in {"menu", "done", "confirm"} :
          /\ proc[p].pc # "idle" /\ Reload(p, pc)
          /\ UNCHANGED <<store, git, vol, observed>>
    BY <1>3 DEF PostExit, MenuDone, MenuDelete
  <2>2. Exit(p) \/ (at # NoMeta /\ Goto(p, pc, at))
    BY <2>1 DEF Reload
  <2>3. Orderly
    BY <1>1, <1>2, <2>1, <2>2, UsingWork, SameObserved
  <2> QED
    BY <2>1, <2>3, PlainWork, SameObserved
<1>4. CASE MenuChatComplete(p)
  <2> DEFINE c == [at EXCEPT !.status = "complete"]
  <2>1. at # NoMeta => c \in SessionMeta /\ Claim(c) \in Held \cup Mine(p)
    BY <1>4, UsingClaims DEF MenuChatComplete
  <2> HIDE DEF c
  <2>2. /\ proc[p].pc # "idle" /\ UNCHANGED <<git, vol, observed>>
        /\ UNCHANGED store \/ (at # NoMeta /\ Save(c))
        /\ Exit(p) \/ Goto(p, "cleanup", m)
    BY <1>4 DEF MenuChatComplete, c
  <2>3. Orderly
    BY <1>1, <1>2, <2>1, <2>2, UsingWork, SameObserved
  <2> QED
    BY <2>2, <2>3, PlainWork, SameObserved
<1>5. CASE MenuWrapUp(p) \/ Leave(p) \/ Cleanup(p)
  <2>1. /\ proc[p].pc # "idle" /\ UNCHANGED <<store, git, vol, observed>>
        /\ Exit(p) \/ Goto(p, "launch", m)
    BY <1>5 DEF MenuWrapUp, Leave, Cleanup
  <2>2. Orderly
    BY <1>1, <1>2, <2>1, UsingWork, SameObserved
  <2> QED
    BY <2>1, <2>2, PlainWork, SameObserved
<1>6. CASE PromptInterrupted(p)
  <2>1. /\ proc[p].pc \notin {"idle", "worktree", "attach"} /\ proc[p].pc # "idle" /\ Exit(p)
        /\ UNCHANGED store /\ CancelNew(p)
        /\ used' = used /\ committed' = committed /\ givenUp' = givenUp
    BY <1>6 DEF PromptInterrupted, identity, progress
  <2>2. Orderly
    BY <2>1, UsingWork
  <2> QED
    BY <2>1, <2>2, InterruptWork
<1>7. CASE DoneWorktree(p) \/ ArchiveWorktree(p)
  <2>1. PICK from \in {"done", "archive"}, to \in {"doneSave", "archiveSave"} :
          ParkWorktree(p, from, to)
    BY <1>7 DEF DoneWorktree, ArchiveWorktree
  <2>2. /\ proc[p].pc # "idle" /\ Goto(p, to, m)
        /\ UNCHANGED <<store, branches, work, vol, observed>>
        /\ wt' = WorktreeAfterParking(m)
    BY <2>1 DEF ParkWorktree
  <2>3. Orderly
    BY <1>1, <1>2, <2>2, UsingWork, SameObserved
  <2>4. Kept'
    BY <2>2, KeptStays, SameObserved DEF WorkInv
  <2> QED
    BY <1>2, <2>2, <2>3, <2>4, LessWork
    DEF WorktreeAfterParking, WithoutWorktree, IInv, GitInv
<1>8. CASE DoneSave(p) \/ ArchiveSave(p)
  <2>1. PICK s \in {"complete", "archived"} :
          /\ proc[p].pc # "idle" /\ Save([m EXCEPT !.status = s])
          /\ Goto(p, "cleanup", m) \/ Exit(p)
          /\ UNCHANGED <<git, vol, observed>>
    BY <1>8 DEF DoneSave, ArchiveSave, ParkSave
  <2> DEFINE c == [m EXCEPT !.status = s]
  <2>2. c \in SessionMeta /\ Claim(c) \in Held \cup Mine(p)
    BY <2>1, UsingClaims
  <2> HIDE DEF c
  <2>3. Save(c)
    BY <2>1 DEF c
  <2>4. Orderly
    BY <1>1, <1>2, <2>1, <2>2, <2>3, UsingWork, SameObserved
  <2> QED
    BY <2>1, <2>4, PlainWork, SameObserved
<1>9. CASE DeleteGit(p)
  <2>1. /\ proc[p].pc # "idle" /\ proc[p].pc \notin {"idle", "worktree", "attach"}
        /\ Goto(p, "unlink", m) /\ UNCHANGED store
        /\ used' = used /\ committed' = committed /\ cancelled' = cancelled
        /\ givenUp' = givenUp \cup {m.uid}
    BY <1>9 DEF DeleteGit, identity, progress
  <2>2. Orderly
    BY <1>1, <1>2, <2>1, UsingWork
  <2>3. CASE HasWorktree(m) /\ RemoveWorktreeAndBranch(m)
    <3>1. Kept' /\ \A x \in Names : wt'[x] # NoBranch =>
            wt'[x] = wt[x] /\ (wt[x] \in branches => wt[x] \in branches')
      BY <2>1, <2>3, RemovalKept DEF WorkInv
    <3> QED
      BY <2>2, <3>1, LessWork
  <2>4. CASE UNCHANGED git
    BY <2>1, <2>2, <2>4, PlainWork
  <2> QED
    BY <1>9, <2>3, <2>4 DEF DeleteGit
<1>10. CASE DeleteMeta(p)
  <2>1. /\ proc[p].pc # "idle" /\ Goto(p, "volumes", m)
        /\ meta' = [meta EXCEPT ![m.name] = NoMeta]
        /\ UNCHANGED <<git, vol, observed>>
    BY <1>10 DEF DeleteMeta
  <2>2. \A x \in Names : meta'[x] # NoMeta => \E k \in Names : meta'[x] = meta[k]
    BY <1>2, <2>1 DEF IInv, StoreInv
  <2>3. Held' \subseteq Held
    BY <2>1, <2>2, SameHeld, GotoHeld
  <2>4. "volumes" \in PCs \ Waiting /\ "volumes" \notin Making /\ m # NoMeta
    BY <1>1, <1>2, <2>1, NoMetaAssumption
  <2>5. Orderly
    BY <1>2, <2>1, <2>3, <2>4, GotoClaims, SameObserved DEF WorkInv
  <2> QED
    BY <2>1, <2>5, PlainWork, SameObserved
<1>11. CASE DeleteVolumes(p)
  <2>1. proc[p].pc # "idle" /\ Exit(p) /\ UNCHANGED <<store, git, observed>>
    BY <1>11 DEF DeleteVolumes
  <2>2. Orderly
    BY <2>1, UsingWork, SameObserved
  <2> QED
    BY <2>1, <2>2, PlainWork, SameObserved
<1> QED
  BY <1>3, <1>4, <1>5, <1>6, <1>7, <1>8, <1>9, <1>10, <1>11 DEF Ending

-----------------------------------------------------------------------------
(* The invariant of claims and work. *)

LEMMA InitWork == Init => WorkInv
<1> SUFFICES ASSUME Init PROVE WorkInv
  OBVIOUS
<1>1. IInv
  BY InitInv
<1>2. /\ \A p \in Procs : proc[p] = Idle
      /\ \A p \in Procs : poll[p] = {}
      /\ \A n \in Names : wt[n] = NoBranch
      /\ committed = {}
      /\ used = {LegacyChat} \cap Names
  BY DEF Init
<1>3. \A p \in Procs : proc[p].pc \notin Waiting \cup Making /\ Mine(p) = {}
  <2>1. Idle.pc = "idle" /\ Idle.m = NoMeta
    BY DEF Idle
  <2>2. \A p \in Procs : proc[p].pc = "idle" /\ proc[p].m = NoMeta
    BY <1>2, <2>1
  <2> QED
    BY <2>2 DEF Waiting, Making, Mine
<1>4. InPolls = {}
  BY <1>2 DEF InPolls
<1>5. Claims = InStore
  BY <1>3, <1>4 DEF Claims, Held
<1>6. Settled = used
  BY <1>3 DEF Settled, Pending
<1>7. ASSUME NEW c \in Claims
      PROVE  c = Claim(LegacyMeta) /\ LegacyChat \in Names
  <2>1. PICK n \in Names : meta[n] # NoMeta /\ c = Claim(meta[n])
    BY <1>5 DEF InStore
  <2> QED
    BY <2>1 DEF Init
<1>8. /\ Claim(LegacyMeta).name = LegacyChat
      /\ Claim(LegacyMeta).branch = NoBranch
  BY DEF Claim, LegacyMeta
<1>9. Claimed /\ Agreed
  BY <1>2, <1>6, <1>7, <1>8, ConstantsAssumption DEF Claimed, Agreed, Branches
<1>10. Distinct /\ Credited /\ \A p \in Procs : Sole(p)
  BY <1>2, <1>3 DEF Distinct, Credited, Sole
<1>11. Trees /\ Kept
  BY <1>2 DEF Trees, Kept
<1> QED
  BY <1>9, <1>10, <1>11 DEF WorkInv, ClaimsOK

LEMMA NextWork ==
  ASSUME NamesOnce, OwnBranches
  PROVE  IInv /\ WorkInv /\ [Next]_vars => WorkInv'
<1> SUFFICES ASSUME IInv, WorkInv, [Next]_vars PROVE WorkInv'
  OBVIOUS
<1>1. IInv'
  BY NextInv
<1>2. CASE UNCHANGED vars
  <2>1. /\ UNCHANGED <<git, observed, store>> /\ proc' = proc /\ poll' = poll
    BY <1>2 DEF vars
  <2>2. Held' \subseteq Held
    BY <2>1, StoreHeld DEF PollsShrink
  <2>3. Orderly
    BY <2>1, <2>2, StayClaims, SameObserved DEF WorkInv
  <2> QED
    BY <2>1, <2>3, PlainWork, SameObserved
<1>3. ASSUME NEW p \in Procs, Kill(p)
      PROVE  WorkInv'
  <2>1. /\ proc[p].pc # "idle" /\ Exit(p) /\ UNCHANGED <<store, git>>
        /\ used' = used /\ committed' = committed
        /\ givenUp' = givenUp /\ cancelled' = cancelled
    BY <1>3 DEF Kill, identity, progress, wishes
  <2>2. Orderly
    BY <2>1, UsingWork, <1>1
  <2> QED
    BY <2>1, <2>2, PlainWork
<1> QED
  BY <1>1, <1>2, <1>3, CommandWork, CreationWork, RunWork, EndingWork
  DEF Next, Finished

\* What a session's agent has committed stays on its branch, over done, archive
\* and resume, late polls and kills, until the user confirms its deletion or
\* interrupts its `new`: for any number of terminals, as long as no name is
\* used twice and no session attaches to another one's branch.
THEOREM WorkRetained ==
  ASSUME NamesOnce, OwnBranches
  PROVE  Spec => []RetainedWork
<1>1. IInv /\ WorkInv => RetainedWork
  <2> SUFFICES ASSUME IInv, WorkInv, NEW n \in Names, meta[n] # NoMeta, HasWorktree(meta[n]),
                      <<meta[n].uid, meta[n].branch>> \in committed,
                      meta[n].uid \notin givenUp \cup cancelled
               PROVE  WorkOnBranch(meta[n])
    BY DEF RetainedWork
  <2>1. meta[n].uid \in Uids /\ meta[n].branch \in Branches
    BY DEF IInv, SeenInv
  <2> QED
    BY <2>1 DEF WorkInv, Kept, WorkOnBranch
<1> QED
  BY <1>1, InitInv, NextInv, InitWork, NextWork, PTL DEF Spec

-----------------------------------------------------------------------------
(* Conversations.  When no name is used twice, no two sessions are born with *)
(* the same runtime name, so a deletion empties the volume of one session.   *)

Born(u) == resOf[u] # NoName

ConvInv ==
  /\ \A u \in Uids : Born(u) => resOf[u] \in used
  /\ \A u, v \in Uids : Born(u) /\ resOf[u] = resOf[v] => u = v
  /\ \A u \in talked : Born(u)
  /\ \A p \in Procs : proc[p].pc \in {"unlink", "volumes"} => proc[p].m.uid \in givenUp
  /\ ConversationKept

\* A step that brings no session forth, takes no volume and starts no deletion.
LEMMA ConvStays ==
  ASSUME ConvInv, used \subseteq used', UNCHANGED <<vol, talked, resOf>>,
         givenUp \subseteq givenUp',
         \A p \in Procs : proc'[p] = proc[p] \/ proc'[p].pc \notin {"unlink", "volumes"}
  PROVE  ConvInv'
BY DEF ConvInv, Born, ConversationKept

\* What becomes of the processes' steps.
LEMMA IssueNoDeletion ==
  ASSUME IInv, NEW p \in Procs, NEW op, NEW pc, pc \notin {"unlink", "volumes"},
         NEW m, NEW key, Issue(p, op, pc, m, key)
  PROVE  \A q \in Procs : proc'[q] = proc[q] \/ proc'[q].pc \notin {"unlink", "volumes"}
BY DEF Issue, IInv, ProcInv

LEMMA ExitNoDeletion ==
  ASSUME IInv, NEW p \in Procs, Exit(p)
  PROVE  \A q \in Procs : proc'[q] = proc[q] \/ proc'[q].pc \notin {"unlink", "volumes"}
BY DEF Exit, Idle, IInv, ProcInv

LEMMA GotoNoDeletion ==
  ASSUME IInv, NEW p \in Procs, NEW pc, pc \notin {"unlink", "volumes"}, NEW m,
         Goto(p, pc, m)
  PROVE  \A q \in Procs : proc'[q] = proc[q] \/ proc'[q].pc \notin {"unlink", "volumes"}
BY DEF Goto, IInv, ProcInv, Process

LEMMA StartCreateConv ==
  ASSUME IInv, ConvInv, NEW p \in Procs, NEW op, NEW t, NEW pc \in {"worktree", "attach", "scaffold"},
         NEW n \in Names, n \notin used, NEW b, StartCreate(p, op, t, pc, n, b)
  PROVE  ConvInv'
<1>1. PICK u \in Uids :
        /\ FreshUid(u)
        /\ Issue(p, op, pc,
                 CreatedMeta(n, t, b, n, IF Polling THEN "none" ELSE "known", u), NoName)
        /\ used' = used \cup {n}
        /\ resOf' = [resOf EXCEPT ![u] = n]
        /\ UNCHANGED <<store, git, vol, taken, progress, wishes, kills>>
  BY DEF StartCreate
<1>2. \A q \in Procs : proc'[q] = proc[q] \/ proc'[q].pc \notin {"unlink", "volumes"}
  BY <1>1, IssueNoDeletion
<1>3. vol' = vol /\ talked' = talked /\ givenUp' = givenUp
  BY <1>1 DEF progress, wishes
<1>4. resOf'[u] = n /\ \A v \in Uids \ {u} : resOf'[v] = resOf[v]
  BY <1>1 DEF IInv, SeenInv
<1>5. n # NoName /\ resOf[u] = NoName /\ u \notin talked
  BY <1>1, ConstantsAssumption DEF FreshUid, ConvInv, Born
<1>6. talked \subseteq Uids
  BY DEF IInv, SeenInv
<1>7. ConversationKept'
  BY <1>3, <1>4, <1>5, <1>6 DEF ConvInv, ConversationKept
<1> QED
  BY <1>1, <1>2, <1>3, <1>4, <1>5, <1>6, <1>7 DEF ConvInv, Born

LEMMA CommandConv ==
  ASSUME NamesOnce, IInv, ConvInv, NEW p \in Procs, Command(p)
  PROVE  ConvInv'
<1>1. \A n \in Names : MayName(n) => n \notin used
  BY DEF MayName, NamesOnce
<1>2. \A n \in Names : ~NextChatName(n)
  BY DEF NextChatName, NamesOnce
<1>3. CASE New(p) \/ Chat(p)
  BY <1>1, <1>2, <1>3, StartCreateConv DEF New, Chat
<1>4. CASE Promote(p) \/ Rename(p)
  <2>1. PICK op \in {"promote", "rename"}, c \in Names, n \in Names :
          /\ Issue(p, op, op, meta[c], n)
          /\ used' = used \cup {n}
          /\ UNCHANGED <<store, git, vol, resOf, taken, progress, wishes, kills>>
    BY <1>4 DEF Promote, Rename
  <2> QED
    BY <2>1, IssueNoDeletion, ConvStays DEF progress, wishes
<1>5. CASE Resume(p) \/ Done(p) \/ Archive(p) \/ Delete(p)
  <2>1. PICK op \in Commands, pc \in {"restore", "done", "archive", "confirm"}, n \in Names :
          /\ Issue(p, op, pc, meta[n], NoName)
          /\ UNCHANGED <<store, git, vol, identity, progress, wishes, kills>>
    BY <1>5 DEF Resume, Done, Archive, Delete, LoadFor, Commands
  <2> QED
    BY <2>1, IssueNoDeletion, ConvStays DEF identity, progress, wishes
<1> QED
  BY <1>3, <1>4, <1>5 DEF Command

LEMMA SameSeen ==
  ASSUME UNCHANGED observed
  PROVE  used' = used /\ talked' = talked /\ resOf' = resOf /\ givenUp' = givenUp
BY DEF observed, identity, progress, wishes

LEMMA CreationConv ==
  ASSUME IInv, ConvInv, NEW p \in Procs, Creation(p)
  PROVE  ConvInv'
<1>1. vol' = vol /\ used' = used /\ talked' = talked /\ resOf' = resOf /\ givenUp' = givenUp
  BY SameSeen DEF Creation, PromoteCheck, CreateWorktree, CancelCreate, PromoteMove, CreateSave,
                  RenameMove, RenameSave, identity, progress, wishes
<1>2. \A q \in Procs : proc'[q] = proc[q] \/ proc'[q].pc \notin {"unlink", "volumes"}
  <2>1. CASE PromoteCheck(p)
    <3> DEFINE Continues(pc, b) ==
          proc' = [proc EXCEPT ![p].pc = pc, ![p].key = proc[p].m.name,
                               ![p].m = PromotedMeta(proc[p].m, proc[p].key, b)]
    <3>1. Exit(p) \/ \E pc \in {"worktree", "attach", "scaffold"} :
                        \E b : Continues(pc, b)
      BY <2>1 DEF PromoteCheck
    <3>2. ASSUME NEW pc \in {"worktree", "attach", "scaffold"}, NEW b, Continues(pc, b)
          PROVE  \A q \in Procs :
                   proc'[q] = proc[q] \/ proc'[q].pc \notin {"unlink", "volumes"}
      BY <3>2 DEF IInv, ProcInv, Process
    <3> QED
      BY <3>1, <3>2, ExitNoDeletion
  <2>2. CASE CreateWorktree(p) \/ CancelCreate(p) \/ PromoteMove(p) \/ CreateSave(p)
             \/ RenameMove(p) \/ RenameSave(p)
    <3>1. Exit(p) \/ \E pc \in {"scaffold", "save", "launch", "renameSave"} : \E m : Goto(p, pc, m)
      BY <2>2 DEF CreateWorktree, CancelCreate, PromoteMove, CreateSave, RenameMove, RenameSave
    <3> QED
      BY <3>1, ExitNoDeletion, GotoNoDeletion
  <2> QED
    BY <2>1, <2>2 DEF Creation
<1> QED
  BY <1>1, <1>2, ConvStays

\* The agent continues its conversation in the volume it was born with.
LEMMA RunConv ==
  ASSUME IInv, ConvInv, NEW p \in Procs, Run(p)
  PROVE  ConvInv'
<1> DEFINE m == proc[p].m
<1>1. CASE Restore(p) \/ RestoreSave(p) \/ ResumeKind(p) \/ AgentExits(p) \/ AgentInterrupted(p)
  <2>1. vol' = vol /\ used' = used /\ talked' = talked /\ resOf' = resOf /\ givenUp' = givenUp
    BY <1>1, SameSeen DEF Restore, RestoreSave, ResumeKind, AgentExits, AgentInterrupted,
                          identity, progress
  <2>2. Exit(p) \/ \E pc \in {"kind", "restoreSave", "launch", "menu", "post"} : \E c : Goto(p, pc, c)
    BY <1>1 DEF Restore, RestoreSave, ResumeKind, AgentExits, AgentInterrupted
  <2> QED
    BY <2>1, <2>2, ExitNoDeletion, GotoNoDeletion, ConvStays
<1>2. CASE Launch(p)
  <2>1. vol' = vol /\ used' = used /\ talked' = talked /\ resOf' = resOf /\ givenUp' = givenUp
    BY <1>2, SameSeen DEF Launch
  <2>2. Exit(p) \/ proc' = [proc EXCEPT ![p].pc = "agent"]
    BY <1>2 DEF Launch
  <2>3. \A q \in Procs : proc'[q] = proc[q] \/ proc'[q].pc \notin {"unlink", "volumes"}
    BY <2>2, ExitNoDeletion DEF IInv, ProcInv, Process
  <2> QED
    BY <2>1, <2>3, ConvStays
<1>3. CASE AgentWorks(p)
  <2>1. /\ m \in SessionMeta /\ Sound(m) /\ RuntimeName(m) \in Names /\ m.uid \in Uids
    BY <1>3, AtWork, Copies DEF AgentWorks, SessionMeta
  <2>2. /\ proc' = proc /\ used' = used /\ resOf' = resOf /\ givenUp' = givenUp
        /\ talked' = talked \cup {m.uid}
        /\ vol' = [vol EXCEPT ![resOf[m.uid]] = @ \cup {m.uid}]
    BY <1>3, <2>1 DEF AgentWorks, identity, wishes, Sound
  <2>3. Born(m.uid)
    BY <2>1, ConstantsAssumption DEF Sound, Born
  <2>4. resOf[m.uid] \in Names /\ vol \in [Names -> SUBSET Uids]
    BY <2>1 DEF Sound, IInv, VolInv
  <2>5. /\ m.uid \in vol'[resOf[m.uid]]
        /\ \A x \in Names : vol[x] \subseteq vol'[x]
    BY <2>2, <2>4
  <2>6. \A u \in talked : resOf[u] \in Names
    BY DEF ConvInv, Born, IInv, SeenInv
  <2>7. ConversationKept'
    BY <2>2, <2>5, <2>6 DEF ConvInv, ConversationKept
  <2> QED
    BY <2>2, <2>3, <2>7 DEF ConvInv, Born
<1>4. CASE PollerSaves(p) \/ PollerEnds(p)
  BY <1>4, SameSeen, ConvStays DEF PollerSaves, PollerEnds
<1> QED
  BY <1>1, <1>2, <1>3, <1>4 DEF Run

\* A deletion empties the volume of the session whose user confirmed it.
LEMMA EndingConv ==
  ASSUME IInv, ConvInv, NEW p \in Procs, Ending(p)
  PROVE  ConvInv'
<1> DEFINE m == proc[p].m
<1>1. CASE \/ PostExit(p) \/ MenuChatComplete(p) \/ MenuWrapUp(p) \/ MenuDone(p)
           \/ MenuDelete(p) \/ Leave(p) \/ PromptInterrupted(p) \/ DoneWorktree(p)
           \/ DoneSave(p) \/ ArchiveWorktree(p) \/ ArchiveSave(p) \/ Cleanup(p)
  <2>1. vol' = vol /\ used' = used /\ talked' = talked /\ resOf' = resOf /\ givenUp' = givenUp
    BY <1>1, SameSeen
    DEF PostExit, MenuChatComplete, MenuWrapUp, MenuDone, MenuDelete, Leave, PromptInterrupted,
        DoneWorktree, DoneSave, ArchiveWorktree, ArchiveSave, Cleanup, ParkWorktree, ParkSave,
        identity, progress
  <2>2. Exit(p) \/ \E pc \in {"menu", "cleanup", "launch", "done", "confirm", "doneSave",
                              "archiveSave"} : \E c : Goto(p, pc, c)
    BY <1>1
    DEF PostExit, MenuChatComplete, MenuWrapUp, MenuDone, MenuDelete, Leave, PromptInterrupted,
        DoneWorktree, DoneSave, ArchiveWorktree, ArchiveSave, Cleanup, ParkWorktree, Reload
  <2> QED
    BY <2>1, <2>2, ExitNoDeletion, GotoNoDeletion, ConvStays
<1>2. CASE DeleteGit(p) \/ DeleteMeta(p)
  <2>1. /\ vol' = vol /\ used' = used /\ talked' = talked /\ resOf' = resOf
        /\ givenUp \subseteq givenUp' /\ m.uid \in givenUp'
        /\ Goto(p, "unlink", m) \/ Goto(p, "volumes", m)
    BY <1>2, SameSeen DEF DeleteGit, DeleteMeta, identity, progress, ConvInv
  <2>2. proc'[p].m = m /\ \A q \in Procs \ {p} : proc'[q] = proc[q]
    BY <2>1 DEF Goto, IInv, ProcInv, Process
  <2> QED
    BY <2>1, <2>2 DEF ConvInv, Born, ConversationKept
<1>3. CASE DeleteVolumes(p)
  <2>1. /\ proc[p].pc = "volumes" /\ Exit(p)
        /\ used' = used /\ talked' = talked /\ resOf' = resOf /\ givenUp' = givenUp
        /\ vol' = [vol EXCEPT ![RuntimeName(m)] = {}]
    BY <1>3, SameSeen DEF DeleteVolumes, VolumesRemoved
  <2>2. m \in SessionMeta /\ Sound(m) /\ m.uid \in Uids /\ m.uid \in givenUp
    BY <2>1, AtWork DEF SessionMeta, ConvInv
  <2>3. ASSUME NEW u \in talked \ givenUp
        PROVE  u \in vol'[resOf[u]]
    <3>1. u \in Uids /\ Born(u) /\ u \in vol[resOf[u]]
      BY DEF ConvInv, ConversationKept, IInv, SeenInv
    <3>2. resOf[u] \in Names /\ resOf[u] # resOf[m.uid]
      BY <2>2, <3>1 DEF ConvInv, Born, IInv, SeenInv
    <3> QED
      BY <2>1, <2>2, <3>1, <3>2 DEF Sound, IInv, VolInv
  <2>4. \A q \in Procs : proc'[q] = proc[q] \/ proc'[q].pc \notin {"unlink", "volumes"}
    BY <2>1, ExitNoDeletion
  <2> QED
    BY <2>1, <2>3, <2>4 DEF ConvInv, Born, ConversationKept
<1> QED
  BY <1>1, <1>2, <1>3 DEF Ending

LEMMA InitConv == Init => ConvInv
BY ConstantsAssumption DEF Init, ConvInv, Born, ConversationKept, Idle

LEMMA NextConv ==
  ASSUME NamesOnce
  PROVE  IInv /\ ConvInv /\ [Next]_vars => ConvInv'
<1> SUFFICES ASSUME IInv, ConvInv, [Next]_vars PROVE ConvInv'
  OBVIOUS
<1>1. CASE UNCHANGED vars
  BY <1>1, SameSeen, ConvStays DEF vars
<1>2. ASSUME NEW p \in Procs, Kill(p)
      PROVE  ConvInv'
  BY <1>2, ExitNoDeletion, ConvStays DEF Kill, identity, progress, wishes
<1> QED
  BY <1>1, <1>2, CommandConv, CreationConv, RunConv, EndingConv DEF Next, Finished

\* The agent's conversation stays in its volume until the user confirms the
\* deletion of that very session, whatever other sessions are deleted.
THEOREM ConversationsKept ==
  ASSUME NamesOnce
  PROVE  Spec => []ConversationKept
<1>1. ConvInv => ConversationKept
  BY DEF ConvInv
<1> QED
  BY <1>1, InitInv, NextInv, InitConv, NextConv, PTL DEF Spec

\* Two sessions never share a container, an image or a volume, if no name is
\* used twice.
THEOREM ResourcesUnshared ==
  ASSUME NamesOnce
  PROVE  Spec => []ResourceUnshared
<1>1. IInv /\ ConvInv => ResourceUnshared
  <2> SUFFICES ASSUME IInv, ConvInv, NEW k \in Names, NEW n \in Names,
                      meta[k] # NoMeta, meta[n] # NoMeta,
                      RuntimeName(meta[k]) = RuntimeName(meta[n])
               PROVE  meta[k].uid = meta[n].uid
    BY DEF ResourceUnshared
  <2>1. ASSUME NEW x \in Names, meta[x] # NoMeta
        PROVE  Sound(meta[x]) /\ RuntimeName(meta[x]) \in Names /\ meta[x].uid \in Uids
    BY <2>1, Loaded, Copies DEF SessionMeta
  <2>2. Born(meta[k].uid)
    BY <2>1, ConstantsAssumption DEF Sound, Born
  <2> QED
    BY <2>1, <2>2 DEF Sound, ConvInv
<1> QED
  BY <1>1, InitInv, NextInv, InitConv, NextConv, PTL DEF Spec
=============================================================================
