----------------------- MODULE SessionSequentialProofs -----------------------
(***************************************************************************)
(* One terminal, no poller and no kill: commands follow one another, for   *)
(* any names, branches and sessions, and any number of commands.           *)
(*                                                                         *)
(* Then the store can be trusted.  The invariant says, at each step of a   *)
(* command, what the copy in memory has to do with the store: until its    *)
(* save, a new session is not there; a promoted or renamed chat is there   *)
(* under its old name or, once its directory has moved, under the new one; *)
(* every other copy is at home.  From it follow the three invariants of    *)
(* quiet moments and the refinement of SessionContract.                    *)
(***************************************************************************)
EXTENDS SessionLifecycleProofs

Sequential == /\ \E p : Procs = {p}
              /\ ~Polling
              /\ MaxKills = 0

\* A session is born with a session id, and a chat has no worktree.
Formed(m) == m.sid = "known" /\ (m.type = "chat" => ~HasWorktree(m))

Holds(n, u, type) ==
  n \in Names /\ meta[n] # NoMeta /\ meta[n].uid = u /\ meta[n].type = type

\* The session of a copy is in the store, under the name the copy carries.
AtHome(m) == Holds(m.name, m.uid, m.type)

Unborn(u) == u \notin saved /\ \A n \in Names : meta[n] # NoMeta => meta[n].uid # u

Using == {"restore", "restoreSave", "kind", "launch", "agent", "post", "menu",
          "done", "doneSave", "archive", "archiveSave", "cleanup", "confirm",
          "unlink"}

\* What create() knows of the store before it saves a session.
MakingNew(r) ==
  /\ r.op \in {"new", "chat"}
  /\ Unborn(r.m.uid)
  /\ NotInProgress(r.m.name)

MakingPromoted(r) ==
  /\ r.op = "promote"
  /\ Holds(r.key, r.m.uid, "chat")
  /\ r.m.name # r.key => meta[r.m.name] = NoMeta

\* What a command in the state r knows of the store.
Knows(r) ==
  /\ r.pc # "idle" => Formed(r.m)
  /\ r.pc \in {"promote", "rename"} => meta[r.m.name] = r.m
  /\ r.pc \in {"worktree", "attach", "scaffold"} => MakingNew(r) \/ MakingPromoted(r)
  /\ r.pc \in {"save", "renameSave"} => Holds(r.m.name, r.m.uid, "chat")
  /\ r.pc \in {"worktree", "attach", "scaffold", "save", "restoreSave"} =>
       r.m.status = "in-progress"
  /\ r.pc = "renameSave" => r.m.type = "chat" /\ r.m.status # "running"
  /\ r.pc \in {"promote", "save"} => r.op = "promote"
  /\ r.pc \in Using \cup {"rename", "renameSave", "volumes"} => r.op # "promote"
  /\ r.pc \in Using => AtHome(r.m)
  /\ r.pc \in {"doneSave", "archiveSave"} /\ HasWorktree(r.m) =>
       wt[r.m.name] = NoBranch

Filed ==
  \A n \in Names : meta[n] # NoMeta =>
    n \in dirs /\ meta[n].uid \in saved /\ Formed(meta[n])

\* Only the directory that is just being moved holds a file with another name.
Named(r) ==
  \A n \in Names : meta[n] # NoMeta =>
    meta[n].name = n \/ (r.pc \in {"save", "renameSave"} /\ r.m.name = n)

Hosted(r) ==
  \A n \in Names : meta[n] # NoMeta /\ meta[n].status = "running" =>
    r.pc = "agent" /\ r.m.name = n

\* A parked session has a worktree only while a command is about to save.
Treeless(r) ==
  \A n \in Names : meta[n] # NoMeta /\ HasWorktree(meta[n]) /\ Parked(meta[n]) =>
    \/ wt[n] = NoBranch
    \/ /\ r.pc \in {"scaffold", "restoreSave"}
       /\ r.m.name = n /\ HasWorktree(r.m)

StoreOK == /\ Filed
           /\ OneSessionPerConversation
           /\ \A u \in saved : resOf[u] # NoName

\* The state r of the command suits the store.
Suits(r) == Knows(r) /\ Named(r) /\ Hosted(r) /\ Treeless(r)

SeqInv == /\ StoreOK
          /\ \A p \in Procs : Suits(proc[p]) /\ poll[p] = {}

-----------------------------------------------------------------------------
(* What the building blocks do to the store and to the process. *)

\* A copy with another status or ownership is the same but for that.
LEMMA SameBut ==
  ASSUME NEW m \in SessionMeta
  PROVE  /\ m.name \in Names /\ m.uid \in Uids /\ m # NoMeta
         /\ \A s \in {"in-progress", "running", "complete", "archived"} :
              LET c == [m EXCEPT !.status = s]
              IN  /\ c \in SessionMeta /\ c.status = s
                  /\ c.name = m.name /\ c.type = m.type /\ c.branch = m.branch
                  /\ c.uid = m.uid /\ c.sid = m.sid
                  /\ RuntimeName(c) = RuntimeName(m)
         /\ LET c == [m EXCEPT !.owned = FALSE]
            IN  /\ c \in SessionMeta /\ c.status = m.status
                /\ c.name = m.name /\ c.type = m.type /\ c.branch = m.branch
                /\ c.uid = m.uid /\ c.sid = m.sid
         /\ m.sid = "known" => [m EXCEPT !.sid = "known"] = m
<1>1. m.name \in Names /\ m.uid \in Uids /\ m # NoMeta
  BY NoMetaAssumption DEF SessionMeta
<1>2. ASSUME NEW s \in {"in-progress", "running", "complete", "archived"}
      PROVE  LET c == [m EXCEPT !.status = s]
             IN  /\ c \in SessionMeta /\ c.status = s
                 /\ c.name = m.name /\ c.type = m.type /\ c.branch = m.branch
                 /\ c.uid = m.uid /\ c.sid = m.sid
                 /\ RuntimeName(c) = RuntimeName(m)
  BY DEF SessionMeta, RuntimeName
<1>3. LET c == [m EXCEPT !.owned = FALSE]
      IN  /\ c \in SessionMeta /\ c.status = m.status
          /\ c.name = m.name /\ c.type = m.type /\ c.branch = m.branch
          /\ c.uid = m.uid /\ c.sid = m.sid
  BY DEF SessionMeta
<1>4. m.sid = "known" => [m EXCEPT !.sid = "known"] = m
  BY DEF SessionMeta
<1> QED
  BY <1>1, <1>2, <1>3, <1>4

LEMMA Gone ==
  ASSUME IInv, NEW p \in Procs, Exit(p)
  PROVE  proc'[p].pc = "idle" /\ poll'[p] = {}
BY DEF IInv, ProcInv, PollInv, Exit, Idle

LEMMA Went ==
  ASSUME IInv, NEW p \in Procs, NEW pc, NEW m, Goto(p, pc, m)
  PROVE  /\ proc'[p].pc = pc /\ proc'[p].m = m
         /\ proc'[p].op = proc[p].op /\ proc'[p].key = proc[p].key
         /\ poll' = poll
BY DEF IInv, ProcInv, Process, Goto

\* A copy is saved where its session is, or where no other session is lost
\* to it; no entry elsewhere stands for the same conversation.
LEMMA SaveFiles ==
  ASSUME IInv, StoreOK, NEW m \in SessionMeta, Sound(m), Formed(m), Save(m),
         m.uid \in saved', saved \subseteq saved', saved' \subseteq saved \cup {m.uid},
         resOf' = resOf,
         \A n \in Names \ {m.name} : meta[n] # NoMeta => meta[n].uid # m.uid
  PROVE  /\ StoreOK'
         /\ meta'[m.name] = m
         /\ \A n \in Names \ {m.name} : meta'[n] = meta[n]
<1>1. m.name \in Names /\ m.uid \in Uids /\ m # NoMeta
  BY SameBut
<1>2. meta'[m.name] = m /\ \A n \in Names \ {m.name} : meta'[n] = meta[n]
  BY <1>1 DEF IInv, StoreInv, Save
<1>3. dirs' = dirs \cup {m.name}
  BY DEF Save
<1>4. Filed'
  BY <1>2, <1>3 DEF StoreOK, Filed, Formed, HasWorktree
<1>5. OneSessionPerConversation'
  BY <1>2 DEF StoreOK, OneSessionPerConversation
<1>6. RuntimeName(m) \in Names
  BY Copies
<1>7. resOf'[m.uid] # NoName
  BY <1>6, ConstantsAssumption DEF Sound
<1> QED
  BY <1>2, <1>4, <1>5, <1>7 DEF StoreOK

\* A command saves what is filed under the name that its copy carries.
LEMMA SaveSuits ==
  ASSUME IInv, SeqInv, NEW p \in Procs, NEW m \in SessionMeta, proc[p].m.name = m.name,
         Save(m), wt' = wt \/ wt' = WithoutWorktree(m.name),
         HasWorktree(m) /\ Parked(m) => wt[m.name] = NoBranch,
         m.status = "running" => proc'[p].pc = "agent" /\ proc'[p].m.name = m.name
  PROVE  (Named(proc[p]) /\ Hosted(proc[p]) /\ Treeless(proc[p]))'
<1>1. m.name \in Names
  BY SameBut
<1>2. meta'[m.name] = m /\ \A n \in Names \ {m.name} : meta'[n] = meta[n]
  BY <1>1 DEF IInv, StoreInv, Save
<1>3. Suits(proc[p])
  BY DEF SeqInv
<1>4. Named(proc[p])'
  BY <1>2, <1>3 DEF Suits, Named
<1>5. Hosted(proc[p])'
  BY <1>2, <1>3 DEF Suits, Hosted
<1>6. wt \in [Names -> Branches \cup {NoBranch}]
  BY DEF IInv, GitInv
<1>7. Treeless(proc[p])'
  BY <1>1, <1>2, <1>3, <1>6 DEF Suits, Treeless, HasWorktree, Parked, WithoutWorktree
<1> QED
  BY <1>4, <1>5, <1>7

\* A step that leaves the store as it is.
LEMMA StoreStays ==
  ASSUME IInv, SeqInv, UNCHANGED store, saved' = saved,
         \A u \in saved : resOf'[u] = resOf[u]
  PROVE  StoreOK'
BY DEF SeqInv, StoreOK, store, Filed, Formed, HasWorktree, OneSessionPerConversation

\* ... and takes no worktree away from under a copy about to be saved.
LEMMA StaySuits ==
  ASSUME IInv, SeqInv, NEW p \in Procs, UNCHANGED store,
         proc[p].pc \notin {"save", "renameSave", "agent"},
         \/ wt' = wt /\ proc[p].pc \notin {"scaffold", "restoreSave"}
         \/ /\ proc[p].pc # "idle"
            /\ wt' = WithoutWorktree(proc[p].m.name)
         \/ /\ proc'[p].pc \in {"scaffold", "restoreSave"}
            /\ HasWorktree(proc'[p].m) /\ proc'[p].m.name = proc[p].m.name
            /\ \E b \in Branches : wt' = [wt EXCEPT ![proc[p].m.name] = b]
            /\ proc[p].pc \notin {"scaffold", "restoreSave"}
  PROVE  (Named(proc[p]) /\ Hosted(proc[p]) /\ Treeless(proc[p]))'
<1>1. Suits(proc[p])
  BY DEF SeqInv
<1>2. meta' = meta
  BY DEF store
<1>3. Named(proc[p])' /\ Hosted(proc[p])'
  BY <1>1, <1>2 DEF Suits, Named, Hosted
<1>4. wt \in [Names -> Branches \cup {NoBranch}]
  BY DEF IInv, GitInv
<1>5. Treeless(proc[p])'
  BY <1>1, <1>2, <1>4 DEF Suits, Treeless, HasWorktree, Parked, WithoutWorktree
<1> QED
  BY <1>3, <1>5

\* The one terminal's command decides.
LEMMA Alone ==
  ASSUME Sequential, NEW p \in Procs, StoreOK', Suits(proc[p])', poll'[p] = {}
  PROVE  SeqInv'
BY DEF Sequential, SeqInv

\* A command that ends asks nothing of the store.
LEMMA ExitSuits ==
  ASSUME Sequential, IInv, NEW p \in Procs, Exit(p), StoreOK',
         (Named(proc[p]) /\ Hosted(proc[p]) /\ Treeless(proc[p]))'
  PROVE  SeqInv'
<1>1. proc'[p].pc = "idle" /\ poll'[p] = {}
  BY Gone
<1>2. Knows(proc[p])'
  BY <1>1 DEF Knows, Using
<1> QED
  BY <1>1, <1>2, Alone DEF Suits

-----------------------------------------------------------------------------
(* Commands. *)

LEMMA IssueSuits ==
  ASSUME Sequential, IInv, SeqInv, NEW p \in Procs,
         NEW op, NEW pc, NEW m, NEW key, Issue(p, op, pc, m, key),
         UNCHANGED store, saved' = saved, wt' = wt,
         \A u \in saved : resOf'[u] = resOf[u]
  PROVE  /\ StoreOK'
         /\ poll'[p] = {}
         /\ proc'[p] = [pc |-> pc, op |-> op, m |-> m, key |-> key]
         /\ (Named(proc[p]) /\ Hosted(proc[p]) /\ Treeless(proc[p]))'
<1>1. StoreOK'
  BY StoreStays
<1>2. proc[p].pc = "idle" /\ poll'[p] = {}
  BY DEF Issue, SeqInv
<1>3. proc'[p] = [pc |-> pc, op |-> op, m |-> m, key |-> key]
  BY DEF Issue, IInv, ProcInv
<1> QED
  BY <1>1, <1>2, <1>3, StaySuits

LEMMA StartSuits ==
  ASSUME Sequential, IInv, SeqInv, NEW p \in Procs,
         NEW op \in {"new", "chat"}, NEW t \in {"task", "chat"},
         NEW pc \in {"worktree", "attach", "scaffold"}, NEW n \in Names,
         NEW b \in Branches \cup {NoBranch}, t = "chat" => b = NoBranch,
         StartCreate(p, op, t, pc, n, b)
  PROVE  SeqInv'
<1>1. PICK u \in Uids :
        /\ FreshUid(u)
        /\ NotInProgress(n)
        /\ Issue(p, op, pc, CreatedMeta(n, t, b, n, "known", u), NoName)
        /\ resOf' = [resOf EXCEPT ![u] = n]
        /\ UNCHANGED <<store, git, vol, taken, progress, wishes, kills>>
  BY DEF StartCreate, Sequential
<1> DEFINE new == CreatedMeta(n, t, b, n, "known", u)
           rec == [pc |-> pc, op |-> op, m |-> new, key |-> NoName]
<1>2. u \notin saved
  BY <1>1 DEF SeqInv, StoreOK, FreshUid
<1>3. Unborn(u)
  BY <1>2 DEF SeqInv, StoreOK, Filed, Unborn
<1>4. /\ UNCHANGED store /\ saved' = saved /\ wt' = wt
      /\ \A v \in saved : resOf'[v] = resOf[v]
  BY <1>1, <1>2 DEF progress, git, IInv, SeenInv
<1>5. /\ StoreOK' /\ poll'[p] = {} /\ proc'[p] = rec
      /\ (Named(proc[p]) /\ Hosted(proc[p]) /\ Treeless(proc[p]))'
  BY <1>1, <1>4, IssueSuits
<1>6. new.sid = "known" /\ new.type = t /\ new.branch = b /\ new.uid = u /\ new.name = n
      /\ new.status = "in-progress"
  BY DEF CreatedMeta
<1> HIDE DEF new
<1>7. Unborn(u)' /\ NotInProgress(n)'
  BY <1>1, <1>3, <1>4 DEF Unborn, NotInProgress, store, Parked
<1>8. Knows(proc[p])'
  BY <1>5, <1>6, <1>7 DEF Knows, MakingNew, Formed, HasWorktree, Using,
                          Unborn, NotInProgress, Parked
<1> QED
  BY <1>5, <1>8, Alone DEF Suits

\* Between commands every session is at home.
LEMMA QuietHome ==
  ASSUME IInv, SeqInv, NEW p \in Procs, proc[p].pc = "idle",
         NEW n \in Names, meta[n] # NoMeta
  PROVE  /\ meta[n].name = n /\ AtHome(meta[n]) /\ Formed(meta[n])
         /\ meta[n].status # "running"
BY DEF SeqInv, Suits, Named, Hosted, StoreOK, Filed, AtHome, Holds

LEMMA LoadSuits ==
  ASSUME Sequential, IInv, SeqInv, NEW p \in Procs, NEW n \in Names, meta[n] # NoMeta,
         NEW op, NEW pc, NEW key, Issue(p, op, pc, meta[n], key),
         \/ pc \in {"restore", "done", "archive", "confirm", "rename"} /\ op # "promote"
         \/ pc = "promote" /\ op = "promote",
         UNCHANGED <<store, git, vol, resOf, taken, progress, wishes, kills>>
  PROVE  SeqInv'
<1>1. proc[p].pc = "idle"
  BY DEF Issue
<1>2. meta[n].name = n /\ AtHome(meta[n]) /\ Formed(meta[n])
  BY <1>1, QuietHome
<1>3. /\ StoreOK' /\ poll'[p] = {}
      /\ proc'[p] = [pc |-> pc, op |-> op, m |-> meta[n], key |-> key]
      /\ (Named(proc[p]) /\ Hosted(proc[p]) /\ Treeless(proc[p]))'
  BY IssueSuits DEF git, progress
<1>4. meta' = meta
  BY DEF store
<1>5. Knows(proc[p])'
  BY <1>2, <1>3, <1>4 DEF Knows, AtHome, Holds, Formed, HasWorktree, Using
<1> QED
  BY <1>3, <1>5, Alone DEF Suits

LEMMA CommandSuits ==
  ASSUME Sequential, IInv, SeqInv, NEW p \in Procs, Command(p)
  PROVE  SeqInv'
<1>1. CASE New(p)
  BY <1>1, StartSuits DEF New, Branches
<1>2. CASE Chat(p)
  BY <1>2, StartSuits DEF Chat
<1>3. CASE Promote(p) \/ Rename(p)
  <2>1. PICK op \in {"promote", "rename"}, c \in Names, n \in Names :
          /\ meta[c] # NoMeta
          /\ Issue(p, op, op, meta[c], n)
          /\ UNCHANGED <<store, git, vol, resOf, taken, progress, wishes, kills>>
    BY <1>3 DEF Promote, Rename
  <2> QED
    BY <2>1, LoadSuits
<1>4. CASE Resume(p) \/ Done(p) \/ Archive(p) \/ Delete(p)
  <2>1. PICK op \in {"resume", "done", "archive", "delete"},
             pc \in {"restore", "done", "archive", "confirm"}, n \in Names :
          /\ meta[n] # NoMeta
          /\ Issue(p, op, pc, meta[n], NoName)
          /\ UNCHANGED <<store, git, vol, identity, progress, wishes, kills>>
    BY <1>4 DEF Resume, Done, Archive, Delete, LoadFor
  <2> QED
    BY <2>1, LoadSuits DEF identity
<1> QED
  BY <1>1, <1>2, <1>3, <1>4 DEF Command

-----------------------------------------------------------------------------
(* The steps of create() and rename. *)

\* What the process at work knows, with the types.
LEMMA Working ==
  ASSUME IInv, SeqInv, NEW p \in Procs, proc[p].pc # "idle"
  PROVE  /\ proc[p].m \in SessionMeta /\ proc[p].m.name \in Names
         /\ proc[p].m.uid \in Uids /\ proc[p].m # NoMeta
         /\ Sound(proc[p].m) /\ Formed(proc[p].m)
         /\ StoreOK /\ Suits(proc[p]) /\ Knows(proc[p]) /\ poll[p] = {}
<1>1. proc[p].m \in SessionMeta /\ Sound(proc[p].m)
  BY AtWork
<1> QED
  BY <1>1, SameBut DEF SeqInv, Suits, Knows

LEMMA PromoteCheckSuits ==
  ASSUME Sequential, IInv, SeqInv, NEW p \in Procs, PromoteCheck(p)
  PROVE  SeqInv'
<1> DEFINE m == proc[p].m
           n == proc[p].key
<1>1. /\ m \in SessionMeta /\ Sound(m) /\ Formed(m) /\ m # NoMeta /\ m.name \in Names
      /\ Knows(proc[p]) /\ poll[p] = {} /\ n \in Names
  BY Working, AtWork DEF PromoteCheck
<1>2. StoreOK' /\ (Named(proc[p]) /\ Hosted(proc[p]) /\ Treeless(proc[p]))'
  BY StoreStays, StaySuits DEF PromoteCheck, observed, identity, progress, git
<1>3. CASE Exit(p)
  BY <1>2, <1>3, ExitSuits
<1>4. ASSUME MayPromote(m, n), NEW pc \in {"worktree", "attach", "scaffold"},
             NEW b \in Branches \cup {NoBranch},
             proc' = [proc EXCEPT ![p].pc = pc, ![p].key = m.name,
                                  ![p].m = PromotedMeta(m, n, b)],
             poll' = poll
      PROVE  SeqInv'
  <2> DEFINE new == PromotedMeta(m, n, b)
  <2>1. /\ new.name = n /\ new.uid = m.uid /\ new.type = "task" /\ new.sid = m.sid
        /\ new.status = "in-progress"
    BY DEF PromotedMeta, CreatedMeta
  <2> HIDE DEF new
  <2>2. /\ proc'[p].pc = pc /\ proc'[p].m = new /\ proc'[p].key = m.name
        /\ proc'[p].op = proc[p].op
    BY <1>4 DEF IInv, ProcInv, Process, new
  <2>3. meta[m.name] = m /\ proc[p].op = "promote"
    BY <1>1 DEF Knows, PromoteCheck
  <2>4. meta' = meta
    BY DEF PromoteCheck, store
  <2>5. MakingPromoted(proc[p])'
    BY <1>1, <1>4, <2>1, <2>2, <2>3, <2>4 DEF MakingPromoted, Holds, MayPromote
  <2>6. Knows(proc[p])'
    BY <1>1, <2>1, <2>2, <2>5 DEF Knows, Formed, Using
  <2> QED
    BY <1>1, <1>2, <1>4, <2>6, Alone DEF Suits
<1>5. CASE MayPromote(m, n)
  <2>1. n \in Branches /\ BranchArgs \subseteq Branches
    BY <1>1 DEF Branches
  <2> QED
    BY <1>4, <1>5, <2>1 DEF PromoteCheck
<1> QED
  BY <1>3, <1>5 DEF PromoteCheck

LEMMA CreateWorktreeSuits ==
  ASSUME Sequential, IInv, SeqInv, NEW p \in Procs, CreateWorktree(p)
  PROVE  SeqInv'
<1> DEFINE m == proc[p].m
           b == m.branch
<1>1. /\ m \in SessionMeta /\ Sound(m) /\ Formed(m) /\ m # NoMeta /\ m.name \in Names
      /\ Knows(proc[p]) /\ poll[p] = {}
  BY Working DEF CreateWorktree
<1>2. HasWorktree(m)
  BY <1>1, AtWork, ConstantsAssumption DEF CreateWorktree, Fits, HasWorktree, Branches
<1>3. b \in Branches
  BY <1>1, <1>2 DEF SessionMeta, HasWorktree
<1>4. UNCHANGED store /\ saved' = saved /\ resOf' = resOf
  BY DEF CreateWorktree, progress
<1>5. StoreOK'
  BY <1>4, StoreStays
<1>6. CASE AddWorktreeFails(m.name, b) /\ Exit(p)
  <2>1. (Named(proc[p]) /\ Hosted(proc[p]) /\ Treeless(proc[p]))'
    BY <1>4, <1>6, StaySuits DEF AddWorktreeFails, CreateWorktree
  <2> QED
    BY <1>5, <1>6, <2>1, ExitSuits
<1>7. ASSUME NEW commits, AddWorktree(m.name, b, commits),
             NEW c \in {m, [m EXCEPT !.owned = FALSE]}, Goto(p, "scaffold", c)
      PROVE  SeqInv'
  <2>1. /\ c.name = m.name /\ c.type = m.type /\ c.branch = m.branch /\ c.uid = m.uid
        /\ c.sid = m.sid /\ c.status = m.status
    BY <1>1 DEF SessionMeta
  <2>2. /\ proc'[p].pc = "scaffold" /\ proc'[p].m = c /\ proc'[p].op = proc[p].op
        /\ proc'[p].key = proc[p].key /\ poll' = poll
    BY <1>7, Went
  <2>3. HasWorktree(c)
    BY <1>2, <2>1 DEF HasWorktree
  <2>4. (Named(proc[p]) /\ Hosted(proc[p]) /\ Treeless(proc[p]))'
    BY <1>3, <1>4, <1>7, <2>1, <2>2, <2>3, StaySuits DEF AddWorktree, CreateWorktree
  <2>5. (MakingNew(proc[p]) \/ MakingPromoted(proc[p]))'
    BY <1>1, <1>4, <2>1, <2>2 DEF Knows, CreateWorktree, MakingNew, MakingPromoted, store,
       Unborn, NotInProgress, Parked, Holds
  <2>6. Knows(proc[p])'
    BY <1>1, <2>1, <2>2, <2>5 DEF Knows, CreateWorktree, Formed, HasWorktree, Using
  <2> QED
    BY <1>1, <1>5, <2>2, <2>4, <2>6, Alone DEF Suits
<1> QED
  BY <1>6, <1>7 DEF CreateWorktree

LEMMA CancelCreateSuits ==
  ASSUME Sequential, IInv, SeqInv, NEW p \in Procs, CancelCreate(p)
  PROVE  SeqInv'
<1>1. Suits(proc[p])
  BY Working DEF CancelCreate
<1>2. UNCHANGED store /\ saved' = saved /\ resOf' = resOf /\ Exit(p)
  BY DEF CancelCreate, observed, identity, progress
<1>3. StoreOK'
  BY <1>2, StoreStays
<1>4. (Named(proc[p]) /\ Hosted(proc[p]) /\ Treeless(proc[p]))'
  <2>1. CASE HasWorktree(proc[p].m)
    BY <1>2, <2>1, StaySuits DEF CancelCreate, RemoveWorktreeAndBranch
  <2>2. CASE ~HasWorktree(proc[p].m)
    BY <1>1, <1>2, <2>2 DEF CancelCreate, git, store, Suits, Named, Hosted, Treeless,
                            HasWorktree, Parked
  <2> QED
    BY <2>1, <2>2
<1> QED
  BY <1>2, <1>3, <1>4, ExitSuits

\* The directory of a chat moves: its session is found under the new name, in
\* a file that still carries the old one.
LEMMA MoveSuits ==
  ASSUME IInv, SeqInv, NEW p \in Procs, NEW old \in Names, NEW new \in Names,
         old # new, meta[old] # NoMeta, meta[old].type = "chat", MoveDir(old, new),
         wt' = wt, saved' = saved, resOf' = resOf,
         proc[p].pc \in {"scaffold", "rename"}, proc[p].pc = "scaffold" => proc[p].m.name = new,
         proc'[p].pc \in {"save", "renameSave"}, proc'[p].m.name = new
  PROVE  /\ StoreOK' /\ (Named(proc[p]) /\ Hosted(proc[p]) /\ Treeless(proc[p]))'
         /\ meta'[new] = meta[old]
<1>1. /\ meta'[new] = meta[old] /\ meta'[old] = NoMeta
      /\ \A n \in Names \ {old, new} : meta'[n] = meta[n]
  BY DEF MoveDir, IInv, StoreInv
<1>2. dirs' = (dirs \ {old}) \cup {new}
  BY DEF MoveDir
<1>3. Suits(proc[p]) /\ StoreOK
  BY DEF SeqInv
<1>4. ~HasWorktree(meta[old])
  BY <1>3 DEF StoreOK, Filed, Formed
<1>5. Filed'
  BY <1>1, <1>2, <1>3 DEF StoreOK, Filed, Formed, HasWorktree
<1>6. OneSessionPerConversation'
  BY <1>1, <1>3 DEF StoreOK, OneSessionPerConversation
<1>7. Named(proc[p])' /\ Hosted(proc[p])'
  BY <1>1, <1>3 DEF Suits, Named, Hosted
<1>8. Treeless(proc[p])'
  BY <1>1, <1>3, <1>4 DEF Suits, Treeless, HasWorktree, Parked
<1> QED
  BY <1>1, <1>3, <1>5, <1>6, <1>7, <1>8 DEF StoreOK

LEMMA PromoteMoveSuits ==
  ASSUME Sequential, IInv, SeqInv, NEW p \in Procs, PromoteMove(p)
  PROVE  SeqInv'
<1> DEFINE m == proc[p].m
           old == proc[p].key
<1>1. /\ m \in SessionMeta /\ Formed(m) /\ m # NoMeta /\ m.name \in Names
      /\ Knows(proc[p]) /\ poll[p] = {}
  BY Working DEF PromoteMove
<1>2. wt' = wt /\ saved' = saved /\ resOf' = resOf
  BY DEF PromoteMove, observed, identity, progress, git
<1>3. MakingPromoted(proc[p]) /\ m.status = "in-progress"
  BY <1>1 DEF Knows, PromoteMove, MovesDir, MakingNew
<1>4. /\ old # m.name /\ old \in Names /\ meta[old] # NoMeta
      /\ meta[old].uid = m.uid /\ meta[old].type = "chat"
      /\ meta[m.name] = NoMeta
  BY <1>3 DEF PromoteMove, MovesDir, MakingPromoted, Holds
<1>5. CASE MoveDir(old, m.name) /\ Goto(p, "save", m)
  <2>1. /\ proc'[p].pc = "save" /\ proc'[p].m = m /\ proc'[p].op = proc[p].op
        /\ poll' = poll
    BY <1>5, Went
  <2>2. /\ StoreOK' /\ (Named(proc[p]) /\ Hosted(proc[p]) /\ Treeless(proc[p]))'
        /\ meta'[m.name] = meta[old]
    BY <1>1, <1>2, <1>4, <1>5, <2>1, MoveSuits DEF PromoteMove
  <2>3. Holds(m.name, m.uid, "chat")'
    BY <1>1, <1>4, <2>1, <2>2 DEF Holds
  <2>4. Knows(proc[p])'
    BY <1>1, <1>3, <2>1, <2>3 DEF Knows, Formed, HasWorktree, Using, Holds, MakingPromoted
  <2> QED
    BY <1>1, <2>1, <2>2, <2>4, Alone DEF Suits
<1>6. CASE MoveDirFails(old, m.name) /\ Exit(p)
  <2>1. StoreOK'
    BY <1>2, <1>6, StoreStays DEF MoveDirFails
  <2>2. (Named(proc[p]) /\ Hosted(proc[p]) /\ Treeless(proc[p]))'
    BY <1>2, <1>4, <1>6, Working
    DEF MoveDirFails, PromoteMove, store, Suits, Named, Hosted, Treeless, HasWorktree, Parked
  <2> QED
    BY <1>6, <2>1, <2>2, ExitSuits
<1> QED
  BY <1>5, <1>6 DEF PromoteMove

\* The session that a command is about to save is the only one of its
\* conversation that will be in the store.
LEMMA CreateSaveSuits ==
  ASSUME Sequential, IInv, SeqInv, NEW p \in Procs, CreateSave(p)
  PROVE  SeqInv'
<1> DEFINE m == proc[p].m
<1>1. /\ m \in SessionMeta /\ Sound(m) /\ Formed(m) /\ m # NoMeta /\ m.name \in Names
      /\ Knows(proc[p]) /\ poll[p] = {} /\ StoreOK
  BY Working DEF CreateSave
<1>2. /\ Save(m) /\ saved' = saved \cup {m.uid} /\ resOf' = resOf /\ wt' = wt
      /\ m.status = "in-progress"
  BY <1>1 DEF CreateSave, identity, git, Knows
<1>3. \A n \in Names \ {m.name} : meta[n] # NoMeta => meta[n].uid # m.uid
  <2>1. CASE MakingNew(proc[p])
    BY <2>1 DEF MakingNew, Unborn
  <2>2. CASE Holds(m.name, m.uid, "chat")
    BY <1>1, <2>2 DEF Holds, StoreOK, OneSessionPerConversation
  <2>3. CASE proc[p].pc = "scaffold" /\ MakingPromoted(proc[p])
    BY <1>1, <2>2, <2>3 DEF CreateSave, MovesDir, MakingPromoted
  <2> QED
    BY <1>1, <2>1, <2>2, <2>3 DEF Knows, CreateSave
<1>4. StoreOK' /\ meta'[m.name] = m
  BY <1>1, <1>2, <1>3, SaveFiles
<1>5. (Named(proc[p]) /\ Hosted(proc[p]) /\ Treeless(proc[p]))'
  BY <1>1, <1>2, SaveSuits DEF Parked
<1>6. CASE Exit(p)
  BY <1>4, <1>5, <1>6, ExitSuits
<1>7. CASE proc[p].op # "promote" /\ Goto(p, "launch", m)
  <2>1. /\ proc'[p].pc = "launch" /\ proc'[p].m = m /\ proc'[p].op = proc[p].op
        /\ poll' = poll
    BY <1>7, Went
  <2>2. AtHome(m)'
    BY <1>1, <1>4, <2>1 DEF AtHome, Holds
  <2>3. Knows(proc[p])'
    BY <1>1, <1>7, <2>1, <2>2 DEF Knows, Formed, HasWorktree, Using, AtHome, Holds
  <2> QED
    BY <1>1, <1>4, <1>5, <2>1, <2>3, Alone DEF Suits
<1> QED
  BY <1>6, <1>7 DEF CreateSave

LEMMA RenameMoveSuits ==
  ASSUME Sequential, IInv, SeqInv, NEW p \in Procs, RenameMove(p)
  PROVE  SeqInv'
<1> DEFINE m == proc[p].m
           n == proc[p].key
           c == Renamed(m, n)
<1>1. /\ m \in SessionMeta /\ Formed(m) /\ m # NoMeta /\ m.name \in Names
      /\ Knows(proc[p]) /\ poll[p] = {} /\ n \in Names
  BY Working, AtWork DEF RenameMove
<1>2. wt' = wt /\ saved' = saved /\ resOf' = resOf
  BY DEF RenameMove, observed, identity, progress, git
<1>3. meta[m.name] = m /\ proc[p].op # "promote"
  BY <1>1 DEF Knows, RenameMove
<1>4. CASE MayRename(m, n) /\ MoveDir(m.name, n) /\ Goto(p, "renameSave", c)
  <2>1. /\ c.name = n /\ c.uid = m.uid /\ c.type = m.type /\ c.sid = m.sid
        /\ c.branch = m.branch /\ c.status = m.status
    BY <1>1 DEF Renamed, SessionMeta
  <2> HIDE DEF c
  <2>2. /\ proc'[p].pc = "renameSave" /\ proc'[p].m = c /\ proc'[p].op = proc[p].op
        /\ poll' = poll
    BY <1>4, Went
  <2>3. /\ StoreOK' /\ (Named(proc[p]) /\ Hosted(proc[p]) /\ Treeless(proc[p]))'
        /\ meta'[n] = m
    BY <1>1, <1>2, <1>3, <1>4, <2>1, <2>2, MoveSuits DEF RenameMove, MayRename
  <2>4. Holds(proc[p].m.name, proc[p].m.uid, "chat")'
    BY <1>1, <1>4, <2>1, <2>2, <2>3 DEF Holds, MayRename
  <2>5. Knows(proc[p])'
    BY <1>1, <1>3, <1>4, <2>1, <2>2, <2>4
    DEF Knows, Formed, HasWorktree, Using, Holds, MayRename
  <2> QED
    BY <1>1, <2>2, <2>3, <2>5, Alone DEF Suits
<1>5. CASE Exit(p) /\ UNCHANGED store
  <2>1. StoreOK' /\ (Named(proc[p]) /\ Hosted(proc[p]) /\ Treeless(proc[p]))'
    BY <1>2, <1>5, StoreStays, StaySuits DEF RenameMove
  <2> QED
    BY <1>5, <2>1, ExitSuits
<1> QED
  BY <1>4, <1>5 DEF RenameMove

LEMMA RenameSaveSuits ==
  ASSUME Sequential, IInv, SeqInv, NEW p \in Procs, RenameSave(p)
  PROVE  SeqInv'
<1> DEFINE m == proc[p].m
<1>1. /\ m \in SessionMeta /\ Sound(m) /\ Formed(m) /\ m # NoMeta /\ m.name \in Names
      /\ Knows(proc[p]) /\ StoreOK
  BY Working DEF RenameSave
<1>2. /\ Save(m) /\ saved' = saved /\ resOf' = resOf /\ wt' = wt /\ Exit(p)
  BY DEF RenameSave, observed, identity, progress, git
<1>3. /\ Holds(m.name, m.uid, "chat") /\ m.type = "chat" /\ m.status # "running"
  BY <1>1 DEF Knows, RenameSave
<1>4. m.uid \in saved /\ \A n \in Names \ {m.name} : meta[n] # NoMeta => meta[n].uid # m.uid
  BY <1>1, <1>3 DEF Holds, StoreOK, Filed, OneSessionPerConversation
<1>5. StoreOK'
  BY <1>1, <1>2, <1>4, SaveFiles
<1>6. (Named(proc[p]) /\ Hosted(proc[p]) /\ Treeless(proc[p]))'
  BY <1>1, <1>2, <1>3, SaveSuits DEF Formed
<1> QED
  BY <1>2, <1>5, <1>6, ExitSuits

-----------------------------------------------------------------------------
(* The run of the agent, and what follows it. *)

\* A command on a session that is in the store.
LEMMA UsingHome ==
  ASSUME IInv, SeqInv, NEW p \in Procs, proc[p].pc \in Using
  PROVE  LET m == proc[p].m IN
         /\ m \in SessionMeta /\ Sound(m) /\ Formed(m) /\ m # NoMeta
         /\ m.name \in Names /\ m.uid \in saved
         /\ meta[m.name] \in SessionMeta /\ Sound(meta[m.name]) /\ Formed(meta[m.name])
         /\ meta[m.name] # NoMeta /\ meta[m.name].name = m.name
         /\ meta[m.name].uid = m.uid /\ meta[m.name].type = m.type
         /\ \A n \in Names \ {m.name} : meta[n] # NoMeta => meta[n].uid # m.uid
         /\ proc[p].op # "promote" /\ StoreOK /\ Suits(proc[p]) /\ poll[p] = {}
<1> DEFINE m == proc[p].m
<1>1. proc[p].pc # "idle" /\ proc[p].pc \notin {"save", "renameSave"}
  BY DEF Using
<1>2. /\ m \in SessionMeta /\ Sound(m) /\ Formed(m) /\ m # NoMeta /\ m.name \in Names
      /\ StoreOK /\ Suits(proc[p]) /\ poll[p] = {}
  BY <1>1, Working
<1>3. AtHome(m) /\ proc[p].op # "promote"
  BY <1>2 DEF Suits, Knows
<1>4. /\ meta[m.name] # NoMeta /\ meta[m.name].uid = m.uid
      /\ meta[m.name].type = m.type
  BY <1>3 DEF AtHome, Holds
<1>5. meta[m.name] \in SessionMeta /\ Sound(meta[m.name])
  BY <1>2, <1>4, Loaded
<1>6. /\ Formed(meta[m.name]) /\ m.uid \in saved
      /\ \A n \in Names \ {m.name} : meta[n] # NoMeta => meta[n].uid # m.uid
  BY <1>2, <1>4 DEF StoreOK, Filed, OneSessionPerConversation
<1>7. meta[m.name].name = m.name
  BY <1>1, <1>2, <1>4 DEF Suits, Named
<1> QED
  BY <1>2, <1>3, <1>4, <1>5, <1>6, <1>7

\* It goes on with a copy of the same session.
LEMMA GoSuits ==
  ASSUME Sequential, IInv, SeqInv, NEW p \in Procs, proc[p].pc \in Using,
         NEW pc \in Using \ {"restoreSave"}, NEW c \in SessionMeta, Formed(c),
         c.name = proc[p].m.name, c.uid = proc[p].m.uid, c.type = proc[p].m.type,
         meta'[c.name] # NoMeta, meta'[c.name].uid = c.uid, meta'[c.name].type = c.type,
         Goto(p, pc, c),
         pc \in {"doneSave", "archiveSave"} /\ HasWorktree(c) => wt'[c.name] = NoBranch,
         StoreOK', (Named(proc[p]) /\ Hosted(proc[p]) /\ Treeless(proc[p]))'
  PROVE  SeqInv'
<1>1. proc[p].m.name \in Names /\ proc[p].op # "promote" /\ poll[p] = {}
  BY UsingHome
<1>2. /\ proc'[p].pc = pc /\ proc'[p].m = c /\ proc'[p].op = proc[p].op
      /\ poll' = poll
  BY Went
<1>3. AtHome(proc[p].m)'
  BY <1>1, <1>2 DEF AtHome, Holds
<1>4. Knows(proc[p])'
  BY <1>1, <1>2, <1>3 DEF Knows, Formed, HasWorktree, Using
<1> QED
  BY <1>1, <1>2, <1>4, Alone DEF Suits

\* It saves a copy of the same session.
LEMMA HomeSaveSuits ==
  ASSUME IInv, SeqInv, NEW p \in Procs, proc[p].pc \in Using,
         NEW c \in SessionMeta, Sound(c), Formed(c), Save(c),
         c.name = proc[p].m.name, c.uid = proc[p].m.uid, c.type = proc[p].m.type,
         saved' = saved, resOf' = resOf,
         wt' = wt \/ wt' = WithoutWorktree(c.name),
         HasWorktree(c) /\ Parked(c) => wt[c.name] = NoBranch,
         c.status = "running" => proc'[p].pc = "agent" /\ proc'[p].m.name = c.name
  PROVE  /\ StoreOK' /\ (Named(proc[p]) /\ Hosted(proc[p]) /\ Treeless(proc[p]))'
         /\ meta'[c.name] = c /\ c # NoMeta
<1>1. /\ StoreOK /\ proc[p].m.uid \in saved
      /\ \A n \in Names \ {proc[p].m.name} :
           meta[n] # NoMeta => meta[n].uid # proc[p].m.uid
  BY UsingHome
<1>2. StoreOK' /\ meta'[c.name] = c /\ c # NoMeta
  BY <1>1, SaveFiles, NoMetaAssumption
<1> QED
  BY <1>1, <1>2, SaveSuits

\* The copy in the store, with another status.
LEMMA HomeStatus ==
  ASSUME IInv, SeqInv, NEW p \in Procs, proc[p].pc \in Using,
         NEW s \in {"in-progress", "running", "complete", "archived"}
  PROVE  /\ LET c == [meta[proc[p].m.name] EXCEPT !.status = s]
            IN  /\ c \in SessionMeta /\ Sound(c) /\ Formed(c) /\ c.status = s
                /\ c.name = proc[p].m.name /\ c.uid = proc[p].m.uid
                /\ c.type = proc[p].m.type
         /\ LET c == [proc[p].m EXCEPT !.status = s]
            IN  /\ c \in SessionMeta /\ Sound(c) /\ Formed(c) /\ c.status = s
                /\ c.name = proc[p].m.name /\ c.uid = proc[p].m.uid
                /\ c.type = proc[p].m.type /\ c.branch = proc[p].m.branch
<1>1. ASSUME NEW m \in SessionMeta, Sound(m), Formed(m)
      PROVE  LET c == [m EXCEPT !.status = s]
             IN  /\ c \in SessionMeta /\ Sound(c) /\ Formed(c) /\ c.status = s
                 /\ c.name = m.name /\ c.uid = m.uid /\ c.type = m.type
                 /\ c.branch = m.branch
  BY <1>1 DEF SessionMeta, Sound, RuntimeName, Formed, HasWorktree
<1> DEFINE m == proc[p].m
           at == meta[m.name]
<1>2. m \in SessionMeta /\ Sound(m) /\ Formed(m)
  BY UsingHome
<1>3. /\ at \in SessionMeta /\ Sound(at) /\ Formed(at)
      /\ at.name = m.name /\ at.uid = m.uid /\ at.type = m.type
  BY UsingHome
<1> HIDE DEF m, at
<1> QED
  BY <1>1, <1>2, <1>3 DEF m, at

\* A command on a session at home that touches no file.
LEMMA UsingStays ==
  ASSUME Sequential, IInv, SeqInv, NEW p \in Procs, proc[p].pc \in Using \ {"agent"},
         UNCHANGED store, saved' = saved, resOf' = resOf,
         \/ wt' = wt /\ proc[p].pc # "restoreSave"
         \/ wt' = WithoutWorktree(proc[p].m.name),
         \/ Exit(p)
         \/ /\ \E pc \in Using \ {"restoreSave", "doneSave", "archiveSave"} :
                 \E c \in {proc[p].m, meta[proc[p].m.name]} : Goto(p, pc, c)
         \/ /\ \E pc \in {"doneSave", "archiveSave"} : Goto(p, pc, proc[p].m)
            /\ HasWorktree(proc[p].m) => wt' = WithoutWorktree(proc[p].m.name)
  PROVE  SeqInv'
<1> DEFINE m == proc[p].m
           at == meta[m.name]
<1>1. proc[p].pc \notin {"idle", "save", "renameSave", "agent", "scaffold"}
  BY DEF Using
<1>2. StoreOK' /\ (Named(proc[p]) /\ Hosted(proc[p]) /\ Treeless(proc[p]))'
  BY <1>1, StoreStays, StaySuits
<1>3. CASE Exit(p)
  BY <1>2, <1>3, ExitSuits
<1>4. m \in SessionMeta /\ Formed(m) /\ m.name \in Names
  BY UsingHome
<1>5. /\ at \in SessionMeta /\ Formed(at) /\ at # NoMeta
      /\ at.name = m.name /\ at.uid = m.uid /\ at.type = m.type
  BY UsingHome
<1>6. meta' = meta
  BY DEF store
<1>7. HasWorktree(m) /\ wt' = WithoutWorktree(m.name) => wt'[m.name] = NoBranch
  BY <1>4 DEF WithoutWorktree, IInv, GitInv
<1>8. ASSUME NEW pc \in Using \ {"restoreSave", "doneSave", "archiveSave"},
             NEW c \in {m, at}, Goto(p, pc, c)
      PROVE  SeqInv'
  <2>1. /\ c \in SessionMeta /\ Formed(c)
        /\ c.name = m.name /\ c.uid = m.uid /\ c.type = m.type
    BY <1>4, <1>5
  <2>2. /\ meta'[c.name] # NoMeta /\ meta'[c.name].uid = c.uid
        /\ meta'[c.name].type = c.type
    BY <1>5, <1>6, <2>1
  <2> QED
    BY <1>2, <1>8, <2>1, <2>2, GoSuits
<1>9. CASE /\ \E pc \in {"doneSave", "archiveSave"} : Goto(p, pc, m)
           /\ HasWorktree(m) => wt' = WithoutWorktree(m.name)
  <2>1. /\ meta'[m.name] # NoMeta /\ meta'[m.name].uid = m.uid
        /\ meta'[m.name].type = m.type
    BY <1>5, <1>6
  <2>2. {"doneSave", "archiveSave"} \subseteq Using \ {"restoreSave"}
    BY DEF Using
  <2> QED
    BY <1>2, <1>4, <1>7, <1>9, <2>1, <2>2, GoSuits
<1> QED
  BY <1>3, <1>8, <1>9

LEMMA RestoreSuits ==
  ASSUME Sequential, IInv, SeqInv, NEW p \in Procs, Restore(p)
  PROVE  SeqInv'
<1> DEFINE m == proc[p].m
           c == [m EXCEPT !.status = "in-progress"]
<1>1. proc[p].pc = "restore" /\ "restore" \in Using /\ "kind" \in Using
  BY DEF Restore, Using
<1>2. UNCHANGED store /\ saved' = saved /\ resOf' = resOf
  BY DEF Restore, observed, identity, progress
<1>3. CASE (Goto(p, "kind", m) \/ Exit(p)) /\ UNCHANGED git
  BY <1>1, <1>2, <1>3, UsingStays DEF git
<1>4. CASE AddWorktreeFails(m.name, m.branch) /\ Exit(p)
  BY <1>1, <1>2, <1>4, UsingStays DEF AddWorktreeFails
<1>5. CASE /\ HasWorktree(m)
           /\ AddWorktree(m.name, m.branch, RecreateBase(m.branch))
           /\ Goto(p, "restoreSave", c)
  <2>1. /\ c \in SessionMeta /\ Formed(c) /\ c.status = "in-progress"
        /\ c.name = m.name /\ c.uid = m.uid /\ c.type = m.type /\ c.branch = m.branch
    BY <1>1, HomeStatus
  <2>2. /\ m \in SessionMeta /\ m.name \in Names /\ proc[p].op # "promote"
        /\ poll[p] = {} /\ meta[m.name] # NoMeta /\ meta[m.name].uid = m.uid
        /\ meta[m.name].type = m.type
    BY <1>1, UsingHome
  <2> HIDE DEF c
  <2>3. /\ proc'[p].pc = "restoreSave" /\ proc'[p].m = c /\ proc'[p].op = proc[p].op
        /\ poll' = poll
    BY <1>5, Went
  <2>4. m.branch \in Branches /\ HasWorktree(c)
    BY <1>5, <2>1, <2>2 DEF SessionMeta, HasWorktree
  <2>5. wt' = [wt EXCEPT ![m.name] = m.branch]
    BY <1>5 DEF AddWorktree
  <2>6. StoreOK' /\ (Named(proc[p]) /\ Hosted(proc[p]) /\ Treeless(proc[p]))'
    <3>1. StoreOK'
      BY <1>2, StoreStays
    <3>2. HasWorktree(proc'[p].m) /\ proc'[p].m.name = m.name
      BY <2>1, <2>3, <2>4
    <3> QED
      BY <1>1, <1>2, <2>3, <2>4, <2>5, <3>1, <3>2, StaySuits
  <2>7. AtHome(proc[p].m)'
    BY <1>2, <2>1, <2>2, <2>3 DEF AtHome, Holds, store
  <2>8. Knows(proc[p])'
    BY <2>1, <2>2, <2>3, <2>7 DEF Knows, Formed, HasWorktree, Using
  <2> QED
    BY <2>2, <2>3, <2>6, <2>8, Alone DEF Suits
<1> QED
  BY <1>3, <1>4, <1>5 DEF Restore

LEMMA LaunchSuits ==
  ASSUME Sequential, IInv, SeqInv, NEW p \in Procs, Launch(p)
  PROVE  SeqInv'
<1> DEFINE m == proc[p].m
           c == [meta[m.name] EXCEPT !.status = "running"]
<1>1. proc[p].pc = "launch" /\ "launch" \in Using
  BY DEF Launch, Using
<1>2. saved' = saved /\ resOf' = resOf /\ wt' = wt
  BY DEF Launch, observed, identity, progress, git
<1>3. /\ m \in SessionMeta /\ Formed(m) /\ m.name \in Names /\ meta[m.name] # NoMeta
      /\ proc[p].op # "promote" /\ poll[p] = {}
  BY <1>1, UsingHome
<1>4. /\ c \in SessionMeta /\ Sound(c) /\ Formed(c) /\ c.status = "running"
      /\ c.name = m.name /\ c.uid = m.uid /\ c.type = m.type
  BY <1>1, HomeStatus
<1>5. Save(c) /\ poll' = poll /\ proc' = [proc EXCEPT ![p].pc = "agent"]
  BY <1>3 DEF Launch, SetStatus, Sequential
<1> HIDE DEF c
<1>6. /\ proc'[p].pc = "agent" /\ proc'[p].m = m /\ proc'[p].op = proc[p].op
  BY <1>5 DEF IInv, ProcInv, Process
<1>7. /\ StoreOK' /\ (Named(proc[p]) /\ Hosted(proc[p]) /\ Treeless(proc[p]))'
      /\ meta'[c.name] = c /\ c # NoMeta
  BY <1>1, <1>2, <1>4, <1>5, <1>6, HomeSaveSuits DEF Parked
<1>8. AtHome(proc[p].m)'
  BY <1>3, <1>4, <1>6, <1>7 DEF AtHome, Holds
<1>9. Knows(proc[p])'
  BY <1>3, <1>6, <1>8 DEF Knows, Formed, HasWorktree, Using
<1> QED
  BY <1>3, <1>5, <1>7, <1>9, Alone, <1>6 DEF Suits

\* A step that saves a copy c of the session and leaves, or goes on with the
\* copy it has.
LEMMA UsingSaves ==
  ASSUME Sequential, IInv, SeqInv, NEW p \in Procs, proc[p].pc \in Using,
         NEW c \in SessionMeta, Sound(c), Formed(c), Save(c), c.status # "running",
         c.name = proc[p].m.name, c.uid = proc[p].m.uid, c.type = proc[p].m.type,
         saved' = saved, resOf' = resOf,
         wt' = wt \/ wt' = WithoutWorktree(c.name),
         HasWorktree(c) /\ Parked(c) => wt[c.name] = NoBranch,
         \/ Exit(p)
         \/ \E pc \in Using \ {"restoreSave", "doneSave", "archiveSave"} :
              Goto(p, pc, proc[p].m)
  PROVE  SeqInv'
<1>1. /\ StoreOK' /\ (Named(proc[p]) /\ Hosted(proc[p]) /\ Treeless(proc[p]))'
      /\ meta'[c.name] = c /\ c # NoMeta
  BY HomeSaveSuits
<1>2. CASE Exit(p)
  BY <1>1, <1>2, ExitSuits
<1>3. ASSUME NEW pc \in Using \ {"restoreSave", "doneSave", "archiveSave"},
             Goto(p, pc, proc[p].m)
      PROVE  SeqInv'
  <2>1. proc[p].m \in SessionMeta /\ Formed(proc[p].m)
    BY UsingHome
  <2> QED
    BY <1>1, <1>3, <2>1, GoSuits
<1> QED
  BY <1>2, <1>3

LEMMA RunSuits ==
  ASSUME Sequential, IInv, SeqInv, NEW p \in Procs, Run(p)
  PROVE  SeqInv'
<1> DEFINE m == proc[p].m
           n == m.name
           back == [meta[n] EXCEPT !.status = "in-progress"]
<1>1. {"restoreSave", "kind", "agent", "launch", "menu", "post"} \subseteq Using
  BY DEF Using
<1>2. CASE Restore(p) \/ Launch(p)
  BY <1>2, RestoreSuits, LaunchSuits
<1>3. CASE RestoreSave(p)
  <2>1. /\ proc[p].pc = "restoreSave" /\ Save(m) /\ Goto(p, "kind", m)
        /\ saved' = saved /\ resOf' = resOf /\ wt' = wt
    BY <1>3 DEF RestoreSave, observed, identity, progress, git
  <2>2. m \in SessionMeta /\ Sound(m) /\ Formed(m) /\ m.status = "in-progress"
    BY <1>1, <2>1, UsingHome DEF Suits, Knows
  <2> QED
    BY <1>1, <2>1, <2>2, UsingSaves DEF Parked
<1>4. CASE ResumeKind(p)
  <2>1. proc[p].pc = "kind" /\ saved' = saved /\ resOf' = resOf /\ wt' = wt
    BY <1>4 DEF ResumeKind, observed, identity, progress, git
  <2>2. m \in SessionMeta /\ m.sid = "known"
    BY <1>1, <2>1, UsingHome DEF Formed
  <2>3. [m EXCEPT !.sid = "known"] = m
    BY <2>2, SameBut
  <2>4. UNCHANGED store /\ Goto(p, "launch", m)
    BY <1>4, <2>2, <2>3 DEF ResumeKind
  <2> QED
    BY <1>1, <2>1, <2>4, UsingStays
<1>5. CASE AgentWorks(p)
  <2>1. UNCHANGED <<store, wt, proc, poll, resOf, saved>>
    BY <1>5 DEF AgentWorks, identity
  <2>2. meta' = meta /\ dirs' = dirs
    BY <2>1 DEF store
  <2> QED
    BY <2>1, <2>2
    DEF SeqInv, StoreOK, Filed, Formed, HasWorktree, OneSessionPerConversation, Suits, Knows,
        MakingNew, MakingPromoted, Unborn, NotInProgress, Parked, Holds, AtHome, Named,
        Hosted, Treeless
<1>6. ASSUME proc[p].pc = "agent"
      PROVE  /\ back \in SessionMeta /\ Sound(back) /\ Formed(back)
             /\ back.status = "in-progress" /\ back.name = n
             /\ back.uid = m.uid /\ back.type = m.type /\ meta[n] # NoMeta
  BY <1>1, <1>6, HomeStatus, UsingHome
<1>7. CASE AgentExits(p)
  <2>1. proc[p].pc = "agent" /\ saved' = saved /\ resOf' = resOf /\ wt' = wt
    BY <1>7 DEF AgentExits, observed, identity, progress, git
  <2>2. /\ Save(back)
        /\ \E pc \in {"menu", "post"} : Goto(p, pc, m)
    BY <1>6, <1>7, <2>1 DEF AgentExits, StatusBack, SetStatus
  <2>3. {"menu", "post"} \subseteq Using \ {"restoreSave", "doneSave", "archiveSave"}
    BY DEF Using
  <2> HIDE DEF back
  <2> QED
    BY <1>1, <1>6, <2>1, <2>2, <2>3, UsingSaves DEF Parked
<1>8. CASE AgentInterrupted(p)
  <2>1. proc[p].pc = "agent" /\ saved' = saved /\ resOf' = resOf /\ Exit(p)
    BY <1>8 DEF AgentInterrupted, identity, progress
  <2>2. Save(back) /\ CancelNew(p)
    BY <1>6, <1>8, <2>1 DEF AgentInterrupted, StatusBack, SetStatus
  <2>3. wt' = wt \/ wt' = WithoutWorktree(n)
    BY <2>2 DEF CancelNew, RemoveWorktreeAndBranch, git
  <2> HIDE DEF back
  <2> QED
    BY <1>1, <1>6, <2>1, <2>2, <2>3, UsingSaves DEF Parked
<1>9. CASE PollerSaves(p) \/ PollerEnds(p)
  BY <1>9 DEF PollerSaves, PollerEnds, SeqInv
<1> QED
  BY <1>2, <1>3, <1>4, <1>5, <1>7, <1>8, <1>9 DEF Run

LEMMA EndingSuits ==
  ASSUME Sequential, IInv, SeqInv, NEW p \in Procs, Ending(p)
  PROVE  SeqInv'
<1> DEFINE m == proc[p].m
           n == m.name
<1>1. {"post", "menu", "done", "doneSave", "archive", "archiveSave", "cleanup",
       "confirm", "unlink", "launch"} \subseteq Using \ {"agent", "restoreSave"}
  BY DEF Using
<1>2. ASSUME UNCHANGED observed
      PROVE  saved' = saved /\ resOf' = resOf
  BY <1>2 DEF observed, identity, progress
<1>3. ASSUME UNCHANGED git
      PROVE  wt' = wt
  BY <1>3 DEF git
<1>4. ASSUME proc[p].pc \in Using
      PROVE  meta[n] # NoMeta
  BY <1>4, UsingHome
<1>5. CASE PostExit(p) \/ MenuDone(p) \/ MenuDelete(p)
  <2>1. /\ proc[p].pc \in {"post", "menu"} /\ UNCHANGED <<store, git, vol, observed>>
        /\ Reload(p, "menu") \/ Reload(p, "done") \/ Reload(p, "confirm")
    BY <1>5 DEF PostExit, MenuDone, MenuDelete
  <2>2. {"menu", "done", "confirm"} \subseteq
          Using \ {"restoreSave", "doneSave", "archiveSave"}
    BY DEF Using
  <2>3. Exit(p) \/ \E pc \in {"menu", "done", "confirm"} : Goto(p, pc, meta[n])
    BY <2>1 DEF Reload
  <2> QED
    BY <1>1, <1>2, <1>3, <2>1, <2>2, <2>3, UsingStays
<1>6. CASE MenuChatComplete(p)
  <2> DEFINE c == [meta[n] EXCEPT !.status = "complete"]
  <2>1. /\ proc[p].pc = "menu" /\ m.type = "chat"
        /\ saved' = saved /\ resOf' = resOf /\ wt' = wt
    BY <1>2, <1>3, <1>6 DEF MenuChatComplete
  <2>2. /\ c \in SessionMeta /\ Sound(c) /\ Formed(c) /\ c.status = "complete"
        /\ c.name = n /\ c.uid = m.uid /\ c.type = m.type
    BY <1>1, <2>1, HomeStatus
  <2>3. Save(c) /\ Goto(p, "cleanup", m)
    BY <1>1, <1>4, <1>6, <2>1 DEF MenuChatComplete
  <2>4. "cleanup" \in Using \ {"restoreSave", "doneSave", "archiveSave"}
    BY DEF Using
  <2> HIDE DEF c
  <2> QED
    BY <1>1, <2>1, <2>2, <2>3, <2>4, UsingSaves DEF Formed
<1>7. CASE MenuWrapUp(p) \/ Leave(p) \/ Cleanup(p)
  <2>1. /\ proc[p].pc \in {"menu", "confirm", "cleanup"}
        /\ UNCHANGED <<store, git, vol, observed>>
        /\ Exit(p) \/ Goto(p, "launch", m)
    BY <1>7 DEF MenuWrapUp, Leave, Cleanup
  <2>2. "launch" \in Using \ {"restoreSave", "doneSave", "archiveSave"}
    BY DEF Using
  <2> QED
    BY <1>1, <1>2, <1>3, <2>1, <2>2, UsingStays
<1>8. CASE PromptInterrupted(p)
  <2>1. /\ proc[p].pc \in {"menu", "done", "confirm"} /\ UNCHANGED store /\ Exit(p)
        /\ saved' = saved /\ resOf' = resOf /\ CancelNew(p)
    BY <1>8 DEF PromptInterrupted, identity, progress
  <2>2. wt' = wt \/ wt' = WithoutWorktree(n)
    BY <2>1 DEF CancelNew, RemoveWorktreeAndBranch, git
  <2> QED
    BY <1>1, <2>1, <2>2, UsingStays
<1>9. CASE DoneWorktree(p) \/ ArchiveWorktree(p)
  <2>1. /\ proc[p].pc \in {"done", "archive"} /\ UNCHANGED <<store, observed>>
        /\ wt' = WorktreeAfterParking(m)
        /\ \E pc \in {"doneSave", "archiveSave"} : Goto(p, pc, m)
    BY <1>9 DEF DoneWorktree, ArchiveWorktree, ParkWorktree
  <2>2. wt' = WithoutWorktree(n) \/ (wt' = wt /\ ~HasWorktree(m))
    BY <2>1 DEF WorktreeAfterParking
  <2> QED
    BY <1>1, <1>2, <2>1, <2>2, UsingStays
<1>10. CASE DoneSave(p) \/ ArchiveSave(p)
  <2>1. PICK from \in {"doneSave", "archiveSave"}, s \in {"complete", "archived"} :
          ParkSave(p, from, s)
    BY <1>10 DEF DoneSave, ArchiveSave
  <2> DEFINE c == [m EXCEPT !.status = s]
  <2>2. /\ proc[p].pc \in {"doneSave", "archiveSave"} /\ Save(c)
        /\ saved' = saved /\ resOf' = resOf /\ wt' = wt
    BY <1>2, <1>3, <2>1 DEF ParkSave
  <2>3. /\ c \in SessionMeta /\ Sound(c) /\ Formed(c) /\ c.status = s
        /\ c.name = n /\ c.uid = m.uid /\ c.type = m.type /\ c.branch = m.branch
    <3>1. s \in {"in-progress", "running", "complete", "archived"} /\ proc[p].pc \in Using
      BY <1>1, <2>2
    <3> HIDE DEF c
    <3> QED
      BY <3>1, HomeStatus DEF c
  <2>4. Exit(p) \/ Goto(p, "cleanup", m)
    BY <1>10 DEF DoneSave, ArchiveSave
  <2>5. HasWorktree(c) => wt[n] = NoBranch
    BY <1>1, <2>2, <2>3, UsingHome DEF Suits, Knows, HasWorktree
  <2>6. "cleanup" \in Using \ {"restoreSave", "doneSave", "archiveSave"}
    BY DEF Using
  <2> HIDE DEF c
  <2> QED
    BY <1>1, <2>2, <2>3, <2>4, <2>5, <2>6, UsingSaves
<1>11. CASE DeleteGit(p)
  <2>1. /\ proc[p].pc = "confirm" /\ UNCHANGED store /\ Goto(p, "unlink", m)
        /\ saved' = saved /\ resOf' = resOf
    BY <1>11 DEF DeleteGit, identity, progress
  <2>2. wt' = wt \/ wt' = WithoutWorktree(n)
    BY <1>11 DEF DeleteGit, RemoveWorktreeAndBranch, git
  <2>3. "unlink" \in Using \ {"restoreSave", "doneSave", "archiveSave"}
    BY DEF Using
  <2> QED
    BY <1>1, <2>1, <2>2, <2>3, UsingStays
<1>12. CASE DeleteMeta(p)
  <2>1. /\ proc[p].pc = "unlink" /\ meta' = [meta EXCEPT ![n] = NoMeta]
        /\ dirs' = dirs /\ saved' = saved /\ resOf' = resOf /\ wt' = wt
        /\ Goto(p, "volumes", m)
    BY <1>2, <1>3, <1>12 DEF DeleteMeta
  <2>2. /\ StoreOK /\ Suits(proc[p]) /\ Formed(m) /\ n \in Names
        /\ proc[p].op # "promote" /\ poll[p] = {}
    BY <1>1, <2>1, UsingHome
  <2>3. meta'[n] = NoMeta /\ \A k \in Names \ {n} : meta'[k] = meta[k]
    BY <2>1, <2>2 DEF IInv, StoreInv
  <2>4. /\ proc'[p].pc = "volumes" /\ proc'[p].m = m /\ proc'[p].op = proc[p].op
        /\ poll' = poll
    BY <2>1, Went
  <2>5. StoreOK'
    BY <2>1, <2>2, <2>3 DEF StoreOK, Filed, Formed, HasWorktree, OneSessionPerConversation
  <2>6. (Named(proc[p]) /\ Hosted(proc[p]) /\ Treeless(proc[p]))'
    BY <2>1, <2>2, <2>3 DEF Suits, Named, Hosted, Treeless, HasWorktree, Parked
  <2>7. Knows(proc[p])'
    BY <2>2, <2>4 DEF Knows, Formed, HasWorktree, Using
  <2> QED
    BY <2>2, <2>4, <2>5, <2>6, <2>7, Alone DEF Suits
<1>13. CASE DeleteVolumes(p)
  <2>1. proc[p].pc = "volumes" /\ UNCHANGED <<store, git, observed>> /\ Exit(p)
    BY <1>13 DEF DeleteVolumes
  <2> QED
    BY <1>2, <1>3, <2>1, StoreStays, StaySuits, ExitSuits
<1> QED
  BY <1>5, <1>6, <1>7, <1>8, <1>9, <1>10, <1>11, <1>12, <1>13 DEF Ending

-----------------------------------------------------------------------------
(* The invariant. *)

LEMMA InitSeq == Init => SeqInv
<1> SUFFICES ASSUME Init PROVE SeqInv
  OBVIOUS
<1>1. \A n \in Names : meta[n] # NoMeta => n = LegacyChat /\ meta[n] = LegacyMeta
  BY DEF Init
<1>2. StoreOK
  BY <1>1, ConstantsAssumption
  DEF Init, StoreOK, Filed, OneSessionPerConversation, LegacyMeta, Formed, HasWorktree
<1>3. ASSUME NEW p \in Procs
      PROVE  Suits(proc[p]) /\ poll[p] = {}
  <2>1. proc[p].pc = "idle" /\ poll[p] = {}
    BY DEF Init, Idle
  <2>2. Knows(proc[p])
    BY <2>1 DEF Knows, Using
  <2>3. Named(proc[p]) /\ Hosted(proc[p]) /\ Treeless(proc[p])
    BY <1>1 DEF Named, Hosted, Treeless, LegacyMeta, HasWorktree
  <2> QED
    BY <2>1, <2>2, <2>3 DEF Suits
<1> QED
  BY <1>2, <1>3 DEF SeqInv

LEMMA NextSeq ==
  ASSUME Sequential
  PROVE  IInv /\ SeqInv /\ [Next]_vars => SeqInv'
<1> SUFFICES ASSUME IInv, SeqInv, [Next]_vars PROVE SeqInv'
  OBVIOUS
<1>1. CASE UNCHANGED vars
  <2>1. UNCHANGED <<meta, dirs, wt, proc, poll, resOf, saved>>
    BY <1>1 DEF vars, store, git, observed, identity, progress
  <2> QED
    BY <2>1
    DEF SeqInv, StoreOK, Filed, Formed, HasWorktree, OneSessionPerConversation, Suits, Knows,
        MakingNew, MakingPromoted, Unborn, NotInProgress, Parked, Holds, AtHome, Named,
        Hosted, Treeless
<1>2. ASSUME NEW p \in Procs
      PROVE  ~Kill(p)
  BY DEF Kill, Sequential, IInv, SeenInv
<1> QED
  BY <1>1, <1>2, CommandSuits, PromoteCheckSuits, CreateWorktreeSuits, CancelCreateSuits,
     PromoteMoveSuits, CreateSaveSuits, RenameMoveSuits, RenameSaveSuits, RunSuits,
     EndingSuits
  DEF Next, Finished, Creation

LEMMA SeqInvariance ==
  ASSUME Sequential
  PROVE  Spec => [](IInv /\ SeqInv)
BY InitInv, NextInv, InitSeq, NextSeq, PTL DEF Spec

\* Between commands, a session that is complete or archived has no worktree,
\* with one terminal, no poller and no kill.
THEOREM ParkedSequentially ==
  ASSUME Sequential
  PROVE  Spec => []ParkedHasNoWorktree
<1>1. SeqInv => ParkedHasNoWorktree
  <2> SUFFICES ASSUME SeqInv, Quiet, NEW n \in Names, meta[n] # NoMeta,
                      HasWorktree(meta[n]), Parked(meta[n])
               PROVE  wt[n] = NoBranch
    BY DEF ParkedHasNoWorktree
  <2>1. PICK p \in Procs : proc[p].pc = "idle" /\ Treeless(proc[p])
    BY DEF Sequential, SeqInv, Suits, Quiet
  <2> QED
    BY <2>1 DEF Treeless
<1> QED
  BY <1>1, SeqInvariance, PTL

\* A session is marked running only while its agent runs, with one terminal, no
\* poller and no kill.
THEOREM RunningSequentially ==
  ASSUME Sequential
  PROVE  Spec => []RunningIsHosted
<1>1. SeqInv => RunningIsHosted
  BY DEF Sequential, SeqInv, Suits, Hosted, RunningIsHosted
<1> QED
  BY <1>1, SeqInvariance, PTL

\* Renames and promotions leave no second session for a conversation, with one
\* terminal, no poller and no kill.
THEOREM OneSessionSequentially ==
  ASSUME Sequential
  PROVE  Spec => []OneSessionPerConversation
<1>1. SeqInv => OneSessionPerConversation
  BY DEF SeqInv, StoreOK
<1> QED
  BY <1>1, SeqInvariance, PTL

-----------------------------------------------------------------------------
(* The contract. *)

\* What the contract's view shows of a session in the store, and of one that is
\* not there.
ViewOK ==
  /\ \A n \in Names : meta[n] # NoMeta =>
       /\ Phase[meta[n].uid] = IF Parked(meta[n]) THEN "parked" ELSE "open"
       /\ Resource[meta[n].uid] = RuntimeName(meta[n])
  /\ \A u \in Uids : (\A n \in Names : meta[n] # NoMeta => meta[n].uid # u) =>
       /\ Phase[u] = IF u \in saved THEN "gone" ELSE "unborn"
       /\ Resource[u] = NoName
  /\ Phase = [u \in Uids |-> Phase[u]]
  /\ Resource = [u \in Uids |-> Resource[u]]

LEMMA ViewHolds == IInv /\ SeqInv => ViewOK
<1> SUFFICES ASSUME IInv, SeqInv PROVE ViewOK
  OBVIOUS
<1>1. ASSUME NEW n \in Names, meta[n] # NoMeta
      PROVE  /\ Phase[meta[n].uid] = IF Parked(meta[n]) THEN "parked" ELSE "open"
             /\ Resource[meta[n].uid] = RuntimeName(meta[n])
  <2>1. meta[n].uid \in Uids
    BY <1>1, Loaded DEF SessionMeta
  <2>2. Keys(meta[n].uid) = {n}
    BY <1>1 DEF Keys, SeqInv, StoreOK, OneSessionPerConversation
  <2>3. Key(meta[n].uid) = n
    BY <2>2 DEF Key
  <2> QED
    BY <2>1, <2>2, <2>3 DEF Phase, Resource
<1>2. ASSUME NEW u \in Uids, \A n \in Names : meta[n] # NoMeta => meta[n].uid # u
      PROVE  /\ Phase[u] = IF u \in saved THEN "gone" ELSE "unborn"
             /\ Resource[u] = NoName
  <2>1. Keys(u) = {}
    BY <1>2 DEF Keys
  <2> QED
    BY <2>1 DEF Phase, Resource
<1>3. Phase = [u \in Uids |-> Phase[u]] /\ Resource = [u \in Uids |-> Resource[u]]
  BY DEF Phase, Resource
<1> QED
  BY <1>1, <1>2, <1>3 DEF ViewOK

Views == IInv /\ SeqInv /\ ViewOK /\ IInv' /\ SeqInv' /\ ViewOK'

\* A session whose file is as parked as it was, wherever it is filed.
LEMMA ViewStays ==
  ASSUME Views, NEW u \in Uids,
         \A n \in Names : meta[n] # NoMeta /\ meta[n].uid = u =>
           \E k \in Names : /\ meta'[k] # NoMeta /\ meta'[k].uid = u
                            /\ Parked(meta'[k]) <=> Parked(meta[n])
                            /\ RuntimeName(meta'[k]) = RuntimeName(meta[n]),
         (\A n \in Names : meta[n] # NoMeta => meta[n].uid # u) =>
           /\ \A n \in Names : meta'[n] # NoMeta => meta'[n].uid # u
           /\ u \in saved' <=> u \in saved
  PROVE  Phase'[u] = Phase[u] /\ Resource'[u] = Resource[u]
<1>1. ASSUME NEW n \in Names, meta[n] # NoMeta, meta[n].uid = u
      PROVE  Phase'[u] = Phase[u] /\ Resource'[u] = Resource[u]
  <2>1. PICK k \in Names :
          /\ meta'[k] # NoMeta /\ meta'[k].uid = u
          /\ Parked(meta'[k]) <=> Parked(meta[n])
          /\ RuntimeName(meta'[k]) = RuntimeName(meta[n])
    BY <1>1
  <2>2. /\ Phase[meta[n].uid] = IF Parked(meta[n]) THEN "parked" ELSE "open"
        /\ Resource[meta[n].uid] = RuntimeName(meta[n])
    BY <1>1 DEF Views, ViewOK
  <2>3. /\ Phase'[meta'[k].uid] = IF Parked(meta'[k]) THEN "parked" ELSE "open"
        /\ Resource'[meta'[k].uid] = RuntimeName(meta'[k])
    BY <2>1 DEF Views, ViewOK, Parked, RuntimeName
  <2> QED
    BY <1>1, <2>1, <2>2, <2>3
<1>2. CASE \A n \in Names : meta[n] # NoMeta => meta[n].uid # u
  BY <1>2 DEF Views, ViewOK
<1> QED
  BY <1>1, <1>2

LEMMA ViewUnchanged ==
  ASSUME Views, \A u \in Uids : Phase'[u] = Phase[u] /\ Resource'[u] = Resource[u]
  PROVE  Phase' = Phase /\ Resource' = Resource
BY DEF Views, ViewOK

\* A step that writes no meta.json.
LEMMA StoreStutters ==
  ASSUME Views, meta' = meta, saved' = saved
  PROVE  [Contract!Next]_Contract!vars
<1>1. ASSUME NEW u \in Uids
      PROVE  Phase'[u] = Phase[u] /\ Resource'[u] = Resource[u]
  BY ViewStays
<1> QED
  BY <1>1, ViewUnchanged DEF Contract!vars

\* A step that moves a session's directory.
LEMMA MoveStutters ==
  ASSUME Views, NEW old \in Names, NEW new \in Names, old # new, MoveDir(old, new),
         saved' = saved
  PROVE  [Contract!Next]_Contract!vars
<1>1. /\ meta'[new] = meta[old] /\ meta'[old] = NoMeta /\ meta[new] = NoMeta
      /\ \A n \in Names \ {old, new} : meta'[n] = meta[n]
  BY DEF MoveDir, Views, IInv, StoreInv
<1>2. ASSUME NEW u \in Uids
      PROVE  Phase'[u] = Phase[u] /\ Resource'[u] = Resource[u]
  <2>1. ASSUME NEW n \in Names, meta[n] # NoMeta, meta[n].uid = u
        PROVE  \E k \in Names : meta'[k] = meta[n]
    BY <1>1, <2>1
  <2>2. \A n \in Names : meta'[n] # NoMeta =>
          \E k \in Names : meta[k] # NoMeta /\ meta'[n] = meta[k]
    BY <1>1
  <2> QED
    BY <2>1, <2>2, ViewStays
<1> QED
  BY <1>2, ViewUnchanged DEF Contract!vars

\* A step that writes a session's file anew where it is filed: the session is
\* parked, or opened again, or neither.
LEMMA SaveRefines ==
  ASSUME Views, NEW c \in SessionMeta, Sound(c), Save(c), resOf' = resOf,
         meta[c.name] # NoMeta, meta[c.name].uid = c.uid,
         saved' = saved \/ saved' = saved \cup {c.uid}
  PROVE  [Contract!Next]_Contract!vars
<1> DEFINE n == c.name
           u == c.uid
<1>1. n \in Names /\ u \in Uids /\ c # NoMeta
  BY SameBut
<1>2. meta'[n] = c /\ \A k \in Names \ {n} : meta'[k] = meta[k]
  BY <1>1 DEF Save, Views, IInv, StoreInv
<1>3. u \in saved /\ saved' = saved
  <2>1. u \in saved
    BY <1>1 DEF Views, SeqInv, StoreOK, Filed
  <2> QED
    BY <2>1
<1>4. RuntimeName(c) = RuntimeName(meta[n])
  BY <1>1 DEF Views, IInv, StoreInv, Sound
<1>5. /\ Phase[u] = IF Parked(meta[n]) THEN "parked" ELSE "open"
      /\ Phase'[u] = IF Parked(c) THEN "parked" ELSE "open"
      /\ Resource[u] = RuntimeName(c) /\ Resource'[u] = RuntimeName(c)
  <2>1. meta'[n] # NoMeta /\ meta'[n].uid = u
    BY <1>1, <1>2
  <2>2. Phase'[meta'[n].uid] = IF Parked(meta'[n]) THEN "parked" ELSE "open"
    BY <1>1, <2>1 DEF Views, ViewOK, Parked
  <2>3. Resource'[meta'[n].uid] = RuntimeName(meta'[n])
    BY <1>1, <2>1 DEF Views, ViewOK, RuntimeName
  <2>4. /\ Phase[meta[n].uid] = IF Parked(meta[n]) THEN "parked" ELSE "open"
        /\ Resource[meta[n].uid] = RuntimeName(meta[n])
    BY <1>1 DEF Views, ViewOK
  <2> QED
    BY <1>1, <1>2, <1>4, <2>1, <2>2, <2>3, <2>4
<1>6. ASSUME NEW v \in Uids \ {u}
      PROVE  Phase'[v] = Phase[v] /\ Resource'[v] = Resource[v]
  <2>1. ASSUME NEW k \in Names, meta[k] # NoMeta, meta[k].uid = v
        PROVE  k # n /\ meta'[k] = meta[k]
    BY <1>2, <2>1
  <2>2. ASSUME NEW k \in Names, meta'[k] # NoMeta, meta'[k].uid = v
        PROVE  meta[k] = meta'[k]
    BY <1>2, <2>2
  <2> QED
    BY <1>3, <2>1, <2>2, ViewStays
<1>7. Resource' = Resource
  BY <1>5, <1>6 DEF Views, ViewOK
<1>8. CASE Parked(c) <=> Parked(meta[n])
  <2>1. Phase' = Phase
    BY <1>5, <1>6, <1>8 DEF Views, ViewOK
  <2> QED
    BY <1>7, <2>1 DEF Contract!vars
<1>9. CASE Parked(c) /\ ~Parked(meta[n])
  <2>1. Phase' = [Phase EXCEPT ![u] = "parked"]
    BY <1>1, <1>5, <1>6, <1>9 DEF Views, ViewOK
  <2>2. Contract!Park(u)
    BY <1>5, <1>7, <1>9, <2>1 DEF Contract!Park
  <2> QED
    BY <1>1, <2>2 DEF Contract!Next
<1>10. CASE ~Parked(c) /\ Parked(meta[n])
  <2>1. Phase' = [Phase EXCEPT ![u] = "open"]
    BY <1>1, <1>5, <1>6, <1>10 DEF Views, ViewOK
  <2>2. Contract!Reopen(u)
    BY <1>5, <1>7, <1>10, <2>1 DEF Contract!Reopen
  <2> QED
    BY <1>1, <2>2 DEF Contract!Next
<1> QED
  BY <1>8, <1>9, <1>10

\* A step that writes the file of a new session: it is opened, in the place of
\* a parked one or where there was none.
LEMMA BirthRefines ==
  ASSUME Views, NEW c \in SessionMeta, Save(c), Unborn(c.uid), NotInProgress(c.name),
         ~Parked(c), saved' = saved \cup {c.uid}
  PROVE  [Contract!Next]_Contract!vars
<1> DEFINE n == c.name
           u == c.uid
           r == RuntimeName(c)
<1>1. n \in Names /\ u \in Uids /\ c # NoMeta /\ r \in Names
  BY SameBut, Copies
<1>2. meta'[n] = c /\ \A k \in Names \ {n} : meta'[k] = meta[k]
  BY <1>1 DEF Save, Views, IInv, StoreInv
<1>3. Phase[u] = "unborn"
  BY <1>1 DEF Unborn, Views, ViewOK
<1>4. Phase'[u] = "open" /\ Resource'[u] = r
  <2>1. meta'[n] # NoMeta /\ meta'[n].uid = u
    BY <1>1, <1>2
  <2>2. /\ Phase'[meta'[n].uid] = IF Parked(meta'[n]) THEN "parked" ELSE "open"
        /\ Resource'[meta'[n].uid] = RuntimeName(meta'[n])
    BY <1>1, <2>1 DEF Views, ViewOK, Parked, RuntimeName
  <2> QED
    BY <1>2, <2>1, <2>2
<1>5. ASSUME NEW v \in Uids \ {u}, meta[n] # NoMeta => meta[n].uid # v
      PROVE  Phase'[v] = Phase[v] /\ Resource'[v] = Resource[v]
  <2>1. ASSUME NEW k \in Names, meta[k] # NoMeta, meta[k].uid = v
        PROVE  k # n /\ meta'[k] = meta[k]
    BY <1>2, <1>5, <2>1
  <2>2. ASSUME NEW k \in Names, meta'[k] # NoMeta, meta'[k].uid = v
        PROVE  meta[k] = meta'[k]
    BY <1>2, <2>2
  <2>3. v \in saved' <=> v \in saved
    OBVIOUS
  <2> QED
    BY <2>1, <2>2, <2>3, ViewStays
<1>6. CASE meta[n] = NoMeta
  <2>1. /\ Phase' = [Phase EXCEPT ![u] = "open"]
        /\ Resource' = [Resource EXCEPT ![u] = r]
    BY <1>1, <1>4, <1>5, <1>6 DEF Views, ViewOK
  <2>2. Contract!Open(u, r)
    BY <1>3, <2>1 DEF Contract!Open
  <2> QED
    BY <1>1, <2>2 DEF Contract!Next
<1>7. CASE meta[n] # NoMeta
  <2> DEFINE s == meta[n].uid
  <2>1. s \in Uids /\ s # u /\ s \in saved
    BY <1>1, <1>7, Loaded DEF Views, SeqInv, StoreOK, Filed, Unborn, SessionMeta
  <2>2. Phase[s] = "parked"
    BY <1>1, <1>7 DEF Views, ViewOK, NotInProgress
  <2>3. Phase'[s] = "gone" /\ Resource'[s] = NoName
    <3>1. \A k \in Names \ {n} : meta[k] # NoMeta => meta[k].uid # s
      BY <1>1, <1>7 DEF Views, SeqInv, StoreOK, OneSessionPerConversation
    <3>2. \A k \in Names : meta'[k] # NoMeta => meta'[k].uid # s
      BY <1>2, <2>1, <3>1
    <3>3. s \in saved'
      BY <2>1
    <3> HIDE DEF s
    <3> QED
      BY <2>1, <3>2, <3>3 DEF Views, ViewOK
  <2> HIDE DEF s
  <2>4. ASSUME NEW v \in Uids \ {u, s}
        PROVE  Phase'[v] = Phase[v] /\ Resource'[v] = Resource[v]
    BY <1>5 DEF s
  <2>5. /\ Phase' = [Phase EXCEPT ![s] = "gone", ![u] = "open"]
        /\ Resource' = [Resource EXCEPT ![s] = NoName, ![u] = r]
    BY <1>1, <1>4, <2>1, <2>3, <2>4 DEF Views, ViewOK
  <2>6. Contract!Replace(s, u, r)
    BY <1>3, <2>2, <2>5 DEF Contract!Replace
  <2> QED
    BY <1>1, <2>1, <2>6 DEF Contract!Next
<1> QED
  BY <1>6, <1>7

LEMMA DeleteRefines ==
  ASSUME Views, NEW n \in Names, meta[n] # NoMeta, meta' = [meta EXCEPT ![n] = NoMeta],
         saved' = saved
  PROVE  [Contract!Next]_Contract!vars
<1> DEFINE s == meta[n].uid
<1>1. meta'[n] = NoMeta /\ \A k \in Names \ {n} : meta'[k] = meta[k]
  BY DEF Views, IInv, StoreInv
<1>2. s \in Uids /\ s \in saved
  BY Loaded DEF Views, SeqInv, StoreOK, Filed, SessionMeta
<1>3. Phase[s] \in {"parked", "open"}
  BY DEF Views, ViewOK
<1>4. Phase'[s] = "gone" /\ Resource'[s] = NoName
  <2>1. \A k \in Names \ {n} : meta[k] # NoMeta => meta[k].uid # s
    BY DEF Views, SeqInv, StoreOK, OneSessionPerConversation
  <2>2. \A k \in Names : meta'[k] # NoMeta => meta'[k].uid # s
    BY <1>1, <2>1
  <2> HIDE DEF s
  <2> QED
    BY <1>2, <2>2 DEF Views, ViewOK
<1>5. ASSUME NEW v \in Uids \ {s}
      PROVE  Phase'[v] = Phase[v] /\ Resource'[v] = Resource[v]
  <2>1. ASSUME NEW k \in Names, meta[k] # NoMeta, meta[k].uid = v
        PROVE  meta'[k] = meta[k]
    BY <1>1, <2>1
  <2>2. ASSUME NEW k \in Names, meta'[k] # NoMeta, meta'[k].uid = v
        PROVE  meta[k] = meta'[k]
    BY <1>1, <2>2
  <2> HIDE DEF s
  <2> QED
    BY <2>1, <2>2, ViewStays
<1> HIDE DEF s
<1>6. /\ Phase' = [Phase EXCEPT ![s] = "gone"]
      /\ Resource' = [Resource EXCEPT ![s] = NoName]
  BY <1>2, <1>4, <1>5 DEF Views, ViewOK
<1>7. Contract!Delete(s)
  BY <1>3, <1>6 DEF Contract!Delete, Contract!Exists
<1> QED
  BY <1>2, <1>7 DEF Contract!Next

\* A save of a session at home refines the contract.
LEMMA HomeRefines ==
  ASSUME Views, NEW p \in Procs, proc[p].pc \in Using,
         NEW c \in SessionMeta, Sound(c), Save(c), c.name = proc[p].m.name,
         c.uid = proc[p].m.uid, saved' = saved, resOf' = resOf
  PROVE  [Contract!Next]_Contract!vars
<1>1. meta[c.name] # NoMeta /\ meta[c.name].uid = c.uid
  BY UsingHome DEF Views
<1> QED
  BY <1>1, SaveRefines

LEMMA CreationRefines ==
  ASSUME Views, NEW p \in Procs, Creation(p)
  PROVE  [Contract!Next]_Contract!vars
<1> DEFINE m == proc[p].m
           key == proc[p].key
<1>1. ASSUME UNCHANGED store, UNCHANGED observed
      PROVE  meta' = meta /\ saved' = saved
  BY <1>1 DEF store, observed, progress
<1>2. CASE PromoteCheck(p) \/ CreateWorktree(p) \/ CancelCreate(p)
  BY <1>1, <1>2, StoreStutters DEF PromoteCheck, CreateWorktree, CancelCreate, store, progress
<1>3. ASSUME proc[p].pc # "idle"
      PROVE  /\ m \in SessionMeta /\ Sound(m) /\ m # NoMeta /\ m.name \in Names
             /\ Knows(proc[p])
  BY <1>3, Working DEF Views
<1>4. CASE PromoteMove(p)
  <2>1. saved' = saved /\ m.name \in Names
    BY <1>3, <1>4 DEF PromoteMove, observed, progress
  <2>2. CASE MoveDir(key, m.name)
    <3>1. key # m.name /\ key \in Names
      BY <1>4, <2>2 DEF PromoteMove, MovesDir, MoveDir, Views, IInv, StoreInv
    <3> QED
      BY <2>1, <2>2, <3>1, MoveStutters
  <2>3. CASE MoveDirFails(key, m.name)
    BY <1>1, <1>4, <2>3, StoreStutters DEF MoveDirFails, PromoteMove
  <2> QED
    BY <1>4, <2>2, <2>3 DEF PromoteMove
<1>5. CASE CreateSave(p)
  <2>1. /\ proc[p].pc \in {"scaffold", "save"} /\ Save(m)
        /\ saved' = saved \cup {m.uid} /\ resOf' = resOf
    BY <1>5 DEF CreateSave, identity
  <2>2. m \in SessionMeta /\ Sound(m) /\ Knows(proc[p]) /\ m.status = "in-progress"
    BY <1>3, <2>1 DEF Knows
  <2>3. CASE MakingNew(proc[p])
    BY <2>1, <2>2, <2>3, BirthRefines DEF MakingNew, Parked
  <2>4. CASE Holds(m.name, m.uid, "chat")
    BY <2>1, <2>2, <2>4, SaveRefines DEF Holds
  <2>5. CASE proc[p].pc = "scaffold" /\ MakingPromoted(proc[p])
    BY <1>5, <2>4, <2>5 DEF CreateSave, MovesDir, MakingPromoted
  <2> QED
    BY <2>1, <2>2, <2>3, <2>4, <2>5 DEF Knows
<1>6. CASE RenameMove(p)
  <2>1. saved' = saved /\ m.name \in Names /\ key \in Names
    BY <1>3, <1>6, AtWork DEF RenameMove, observed, progress, Views
  <2>2. CASE MayRename(m, key) /\ MoveDir(m.name, key)
    BY <2>1, <2>2, MoveStutters DEF MayRename
  <2>3. CASE UNCHANGED store
    BY <1>1, <1>6, <2>3, StoreStutters DEF RenameMove
  <2> QED
    BY <1>6, <2>2, <2>3 DEF RenameMove
<1>7. CASE RenameSave(p)
  <2>1. Save(m) /\ saved' = saved /\ resOf' = resOf /\ proc[p].pc = "renameSave"
    BY <1>7 DEF RenameSave, observed, progress, identity
  <2>2. m \in SessionMeta /\ Sound(m) /\ Holds(m.name, m.uid, "chat")
    BY <1>3, <2>1 DEF Knows
  <2> QED
    BY <2>1, <2>2, SaveRefines DEF Holds
<1> QED
  BY <1>2, <1>4, <1>5, <1>6, <1>7 DEF Creation

LEMMA RunRefines ==
  ASSUME Sequential, Views, NEW p \in Procs, Run(p)
  PROVE  [Contract!Next]_Contract!vars
<1> DEFINE m == proc[p].m
           To(s) == [meta[m.name] EXCEPT !.status = s]
<1>1. {"restoreSave", "kind", "launch", "agent"} \subseteq Using
  BY DEF Using
<1>2. UNCHANGED observed => saved' = saved /\ resOf' = resOf
  BY DEF observed, progress, identity
<1>3. ASSUME proc[p].pc \in Using, NEW s \in {"in-progress", "running"}
      PROVE  /\ To(s) \in SessionMeta /\ Sound(To(s))
             /\ To(s).name = m.name /\ To(s).uid = m.uid
             /\ meta[m.name] # NoMeta /\ m \in SessionMeta /\ Sound(m) /\ m.sid = "known"
  <2>1. IInv /\ SeqInv /\ s \in {"in-progress", "running", "complete", "archived"}
    BY DEF Views
  <2>2. To(s) \in SessionMeta /\ Sound(To(s)) /\ To(s).name = m.name /\ To(s).uid = m.uid
    BY <1>3, <2>1, HomeStatus
  <2>3. meta[m.name] # NoMeta /\ m \in SessionMeta /\ Sound(m) /\ m.sid = "known"
    BY <1>3, <2>1, UsingHome DEF Formed
  <2> QED
    BY <2>2, <2>3
<1>4. CASE Restore(p)
  BY <1>2, <1>4, StoreStutters DEF Restore, store
<1>5. CASE RestoreSave(p)
  BY <1>1, <1>2, <1>3, <1>5, HomeRefines DEF RestoreSave
<1>6. CASE ResumeKind(p)
  BY <1>1, <1>2, <1>3, <1>6, StoreStutters DEF ResumeKind, store
<1>7. CASE Launch(p)
  <2>1. proc[p].pc = "launch" /\ saved' = saved /\ resOf' = resOf
    BY <1>2, <1>7 DEF Launch
  <2>2. Save(To("running"))
    BY <1>1, <1>3, <1>7, <2>1 DEF Launch, SetStatus
  <2> HIDE DEF To
  <2> QED
    BY <1>1, <1>3, <2>1, <2>2, HomeRefines
<1>8. CASE AgentExits(p) \/ AgentInterrupted(p)
  <2>1. proc[p].pc = "agent" /\ saved' = saved /\ resOf' = resOf
    BY <1>2, <1>8 DEF AgentExits, AgentInterrupted, identity, progress
  <2>2. Save(To("in-progress"))
    BY <1>1, <1>3, <1>8, <2>1 DEF AgentExits, AgentInterrupted, StatusBack, SetStatus
  <2> HIDE DEF To
  <2> QED
    BY <1>1, <1>3, <2>1, <2>2, HomeRefines
<1>9. CASE AgentWorks(p)
  BY <1>9, StoreStutters DEF AgentWorks, store
<1>10. CASE PollerSaves(p) \/ PollerEnds(p)
  BY <1>10 DEF PollerSaves, PollerEnds, Views, SeqInv
<1> QED
  BY <1>4, <1>5, <1>6, <1>7, <1>8, <1>9, <1>10 DEF Run

LEMMA EndingRefines ==
  ASSUME Views, NEW p \in Procs, Ending(p)
  PROVE  [Contract!Next]_Contract!vars
<1> DEFINE m == proc[p].m
<1>1. {"menu", "doneSave", "archiveSave", "unlink"} \subseteq Using
  BY DEF Using
<1>2. UNCHANGED observed => saved' = saved /\ resOf' = resOf
  BY DEF observed, progress, identity
<1>3. UNCHANGED store => meta' = meta
  BY DEF store
<1>4. CASE \/ PostExit(p) \/ MenuDone(p) \/ MenuDelete(p) \/ MenuWrapUp(p) \/ Leave(p)
           \/ Cleanup(p) \/ DoneWorktree(p) \/ ArchiveWorktree(p) \/ DeleteVolumes(p)
  BY <1>2, <1>3, <1>4, StoreStutters
  DEF PostExit, MenuDone, MenuDelete, MenuWrapUp, Leave, Cleanup, DoneWorktree,
      ArchiveWorktree, ParkWorktree, DeleteVolumes
<1>5. CASE PromptInterrupted(p) \/ DeleteGit(p)
  BY <1>3, <1>5, StoreStutters DEF PromptInterrupted, DeleteGit, progress
<1>6. CASE MenuChatComplete(p)
  <2> DEFINE c == [meta[m.name] EXCEPT !.status = "complete"]
  <2>1. proc[p].pc = "menu" /\ saved' = saved /\ resOf' = resOf
    BY <1>2, <1>6 DEF MenuChatComplete
  <2>2. /\ c \in SessionMeta /\ Sound(c) /\ c.name = m.name /\ c.uid = m.uid
        /\ meta[m.name] # NoMeta
    BY <1>1, <2>1, HomeStatus, UsingHome DEF Views
  <2>3. Save(c)
    BY <1>6, <2>2 DEF MenuChatComplete
  <2> HIDE DEF c
  <2> QED
    BY <1>1, <2>1, <2>2, <2>3, HomeRefines
<1>7. CASE DoneSave(p) \/ ArchiveSave(p)
  <2>1. PICK from \in {"doneSave", "archiveSave"}, s \in {"complete", "archived"} :
          ParkSave(p, from, s)
    BY <1>7 DEF DoneSave, ArchiveSave
  <2> DEFINE c == [m EXCEPT !.status = s]
  <2>2. /\ proc[p].pc \in Using /\ Save(c) /\ saved' = saved /\ resOf' = resOf
    BY <1>1, <1>2, <2>1 DEF ParkSave
  <2>3. c \in SessionMeta /\ Sound(c) /\ c.name = m.name /\ c.uid = m.uid
    <3>1. s \in {"in-progress", "running", "complete", "archived"}
      OBVIOUS
    <3> HIDE DEF c
    <3> QED
      BY <2>2, <3>1, HomeStatus DEF c, Views
  <2> HIDE DEF c
  <2> QED
    BY <2>2, <2>3, HomeRefines
<1>8. CASE DeleteMeta(p)
  <2>1. /\ proc[p].pc = "unlink" /\ meta' = [meta EXCEPT ![m.name] = NoMeta]
        /\ saved' = saved
    BY <1>2, <1>8 DEF DeleteMeta
  <2>2. m.name \in Names /\ meta[m.name] # NoMeta
    BY <1>1, <2>1, UsingHome DEF Views
  <2> QED
    BY <2>1, <2>2, DeleteRefines
<1> QED
  BY <1>4, <1>5, <1>6, <1>7, <1>8 DEF Ending

LEMMA StepRefines ==
  ASSUME Sequential
  PROVE  Views /\ [Next]_vars => [Contract!Next]_Contract!vars
<1> SUFFICES ASSUME Views, [Next]_vars PROVE [Contract!Next]_Contract!vars
  OBVIOUS
<1>1. CASE UNCHANGED vars
  BY <1>1, StoreStutters DEF vars, store, observed, progress
<1>2. ASSUME NEW p \in Procs, Command(p) \/ Kill(p)
      PROVE  [Contract!Next]_Contract!vars
  <2>1. meta' = meta /\ saved' = saved
    BY <1>2 DEF Command, New, Chat, StartCreate, Promote, Rename, Resume, Done, Archive,
                Delete, LoadFor, Kill, store, progress
  <2> QED
    BY <2>1, StoreStutters
<1> QED
  BY <1>1, <1>2, CreationRefines, RunRefines, EndingRefines DEF Next, Finished

LEMMA InitRefines == Init => Contract!Init
<1> SUFFICES ASSUME Init PROVE Contract!Init
  OBVIOUS
<1>1. ViewOK
  BY InitInv, InitSeq, ViewHolds
<1>2. \A n \in Names : meta[n] # NoMeta =>
        n = LegacyChat /\ meta[n].uid = LegacyUid /\ ~Parked(meta[n])
        /\ RuntimeName(meta[n]) = LegacyChat
  BY DEF Init, LegacyMeta, Parked, RuntimeName
<1>3. LegacyChat \in Names => meta[LegacyChat] # NoMeta /\ meta[LegacyChat].uid = LegacyUid
  <2>1. LegacyChat \in Names => meta[LegacyChat] = LegacyMeta
    BY DEF Init
  <2>2. LegacyChat \in Names => LegacyMeta \in SessionMeta
    BY ConstantsAssumption DEF LegacyMeta, SessionMeta
  <2>3. LegacyMeta.uid = LegacyUid
    BY DEF LegacyMeta
  <2> QED
    BY <2>1, <2>2, <2>3, NoMetaAssumption
<1>4. saved = IF LegacyChat \in Names THEN {LegacyUid} ELSE {}
  BY ConstantsAssumption DEF Init
<1>5. ASSUME NEW u \in Uids
      PROVE  /\ Phase[u] \in {"unborn", "open"}
             /\ Resource[u] \in Names \cup {NoName}
             /\ Phase[u] = "unborn" <=> Resource[u] = NoName
  <2>1. CASE LegacyChat \in Names /\ u = LegacyUid
    <3>1. /\ meta[LegacyChat] # NoMeta /\ meta[LegacyChat].uid = u
          /\ ~Parked(meta[LegacyChat]) /\ RuntimeName(meta[LegacyChat]) = LegacyChat
      BY <1>2, <1>3, <2>1
    <3>2. Phase[u] = "open" /\ Resource[u] = LegacyChat
      BY <1>1, <2>1, <3>1 DEF ViewOK
    <3> QED
      BY <2>1, <3>2, ConstantsAssumption
  <2>2. CASE ~(LegacyChat \in Names /\ u = LegacyUid)
    BY <1>1, <1>2, <1>4, <2>2 DEF ViewOK
  <2> QED
    BY <2>1, <2>2
<1> QED
  BY <1>1, <1>5 DEF Contract!Init, ViewOK

\* Commands issued one after another treat every session as SessionContract
\* says: opened once, parked and reopened, replaced only when parked, deleted
\* for good, always on the resources it was opened with.
THEOREM ContractImplemented ==
  ASSUME Sequential
  PROVE  Spec => ImplementsContract
<1>1. IInv /\ SeqInv /\ ViewOK /\ (IInv /\ SeqInv /\ ViewOK)' /\ [Next]_vars
        => [Contract!Next]_Contract!vars
  BY StepRefines DEF Views
<1> QED
  BY <1>1, SeqInvariance, ViewHolds, InitRefines, PTL DEF Spec, ImplementsContract, Contract!Spec
=============================================================================
