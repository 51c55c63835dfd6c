-------------------------- MODULE SessionLifecycle --------------------------
(***************************************************************************)
(* The lifecycle of hatchery sessions in one repository.                   *)
(*                                                                         *)
(* Several `hatchery` CLI processes work on the same on-disk store: one    *)
(* meta.json per session directory, one git worktree and branch per task,  *)
(* and the runtime volumes of the session's container.  No lock protects   *)
(* any of it.  A command loads meta.json into memory, prompts the user,    *)
(* changes git, and writes its in-memory copy back; each of those is an    *)
(* action here, so that another process, a background session-id poller    *)
(* or a kill can come in between.                                          *)
(*                                                                         *)
(* The remote is out of the model: `git fetch` fails, so that only the     *)
(* local tiers of branch resolution apply.  Includes are out as well.      *)
(***************************************************************************)
EXTENDS Naturals, Sequences

CONSTANTS
  Procs,          \* CLI processes (terminals)
  Names,          \* user-facing session names; also the task's generated branch
                  \*   <branch_prefix><name>, and the container and volume
                  \*   names derived from a name
  BranchArgs,     \* branches a user may pass to --branch
  UserBranches,   \* branches that exist before hatchery runs; with an empty
                  \*   branch_prefix one may have the very name of a session
  Uids,           \* identities of sessions over renames and promotions
  LegacyChat,     \* a chat whose meta.json predates resource_name, or NoName
  LegacyUid,      \* its identity
  AutoNames,      \* the automatic chat names chat-1, chat-2, ... in order
  NoName, NoBranch, NoMeta, User,
  Polling,        \* the backend captures its session id with a poller (codex)
  FreshNames,     \* the user never gives a new session a name used before
  MaxOps,         \* bound: commands issued
  MaxKills        \* bound: processes killed

Branches == Names \cup BranchArgs

ASSUME ConstantsAssumption ==
  /\ UserBranches \subseteq Branches
  /\ NoName \notin Names
  /\ NoBranch \notin Branches
  /\ User \notin Uids
  /\ Polling \in BOOLEAN
  /\ FreshNames \in BOOLEAN
  /\ MaxOps \in Nat
  /\ MaxKills \in Nat
  /\ LegacyChat \in Names \cup {NoName}
  /\ LegacyUid \in Uids
  /\ AutoNames \in Seq(Names)

(***************************************************************************)
(* SessionMeta, restricted to the fields that steer the lifecycle.  A      *)
(* session has a worktree iff it has a branch (no_worktree <=> branch "").  *)
(* `uid` is not in the file: it names the agent conversation that the      *)
(* session stands for.                                                     *)
(***************************************************************************)
SessionMeta ==
  [name     : Names,
   type     : {"task", "chat"},
   status   : {"in-progress", "running", "complete", "archived"},
   branch   : Branches \cup {NoBranch},
   owned    : BOOLEAN,
   resource : Names \cup {NoName},
   sid      : {"none", "known"},
   uid      : Uids]

ASSUME NoMetaAssumption == NoMeta \notin SessionMeta


RuntimeName(m) == IF m.resource = NoName THEN m.name ELSE m.resource

HasWorktree(m) == m.branch # NoBranch

Parked(m) == m.status \in {"complete", "archived"}

PCs == {"idle", "promote", "worktree", "attach", "scaffold", "save",
        "rename", "renameSave", "restore", "restoreSave", "kind", "launch",
        "agent", "post", "menu", "done", "doneSave", "archive",
        "archiveSave", "cleanup", "confirm", "unlink", "volumes"}

Commands == {"none", "new", "chat", "promote", "rename", "resume", "done",
             "archive", "delete"}

VARIABLES
  meta,       \* [Names -> SessionMeta or NoMeta]: meta.json by directory
  dirs,       \* session directories that exist, with or without meta.json
  wt,         \* [Names -> Branches or NoBranch]: registered worktrees
  branches,   \* branches that exist
  work,       \* [Branches -> SUBSET]: whose commits a branch holds
  vol,        \* [Names -> SUBSET Uids]: conversations in a runtime volume
  proc,       \* [Procs -> Process]
  poll,       \* [Procs -> SUBSET SessionMeta]: live pollers' meta objects
  \* Observations: nothing in the code reads them.
  used,       \* names ever given to a session
  resOf,      \* [Uids -> Names or NoName]: runtime name at creation
  taken,      \* the user's branches that were a session's generated branch
  saved,      \* sessions whose meta.json has been written
  committed,  \* <<session, branch>>: its agent has committed there
  talked,     \* sessions whose agent has a conversation in its volume
  givenUp,    \* sessions whose deletion the user confirmed
  cancelled,  \* sessions whose `new` the user interrupted
  ops, kills

store == <<meta, dirs>>
git == <<wt, branches, work>>
identity == <<used, resOf, taken>>
progress == <<saved, committed, talked>>
wishes == <<givenUp, cancelled>>
observed == <<identity, progress, wishes, ops, kills>>
vars == <<store, git, vol, proc, poll, observed>>

Process == [pc  : PCs,
            op  : Commands,
            m   : SessionMeta \cup {NoMeta},
            key : Names \cup {NoName}]

Idle == [pc |-> "idle", op |-> "none", m |-> NoMeta, key |-> NoName]

LegacyMeta ==
  [name |-> LegacyChat, type |-> "chat", status |-> "in-progress",
   branch |-> NoBranch, owned |-> TRUE, resource |-> NoName,
   sid |-> "known", uid |-> LegacyUid]

Init ==
  /\ meta = [n \in Names |-> IF n = LegacyChat THEN LegacyMeta ELSE NoMeta]
  /\ dirs = {LegacyChat} \cap Names
  /\ wt = [n \in Names |-> NoBranch]
  /\ branches = UserBranches
  /\ work = [b \in Branches |-> IF b \in UserBranches THEN {User} ELSE {}]
  /\ vol = [n \in Names |-> {}]
  /\ proc = [p \in Procs |-> Idle]
  /\ poll = [p \in Procs |-> {}]
  /\ used = {LegacyChat} \cap Names
  /\ resOf = [u \in Uids |->
                IF u = LegacyUid THEN LegacyChat ELSE NoName]
  /\ taken = {}
  /\ saved = {u \in {LegacyUid} : LegacyChat # NoName}
  /\ committed = {}
  /\ talked = {}
  /\ givenUp = {}
  /\ cancelled = {}
  /\ ops = 0
  /\ kills = 0

-----------------------------------------------------------------------------
(* Building blocks. *)

\* The process leaves; its daemon pollers die with it.
Exit(p) == /\ proc' = [proc EXCEPT ![p] = Idle]
           /\ poll' = [poll EXCEPT ![p] = {}]

\* The process goes on to step pc with in-memory meta m.
Goto(p, pc, m) == /\ proc' = [proc EXCEPT ![p].pc = pc, ![p].m = m]
                  /\ poll' = poll

\* save(): write the whole in-memory copy under the name it carries.
Save(m) == /\ meta' = [meta EXCEPT ![m.name] = m]
           /\ dirs' = dirs \cup {m.name}

CheckedOut(w, b) == \E n \in Names : w[n] = b

\* git branch -D refuses a branch that some worktree has checked out.
DeleteBranch(w, b) ==
  IF b \in branches /\ ~CheckedOut(w, b)
    THEN /\ branches' = branches \ {b}
         /\ work' = [work EXCEPT ![b] = {}]
    ELSE UNCHANGED <<branches, work>>

WithoutWorktree(n) == [wt EXCEPT ![n] = NoBranch]

\* git worktree add -B b <worktree n> <base>, after the stale registration of
\* the path is removed: the branch is created, or reset, to `commits`.
AddWorktree(n, b, commits) ==
  /\ ~CheckedOut(WithoutWorktree(n), b)
  /\ wt' = [wt EXCEPT ![n] = b]
  /\ branches' = branches \cup {b}
  /\ work' = [work EXCEPT ![b] = commits]

\* The same command fails: only the removal of the registration remains.
AddWorktreeFails(n, b) ==
  /\ CheckedOut(WithoutWorktree(n), b)
  /\ wt' = WithoutWorktree(n)
  /\ UNCHANGED <<branches, work>>

\* A name the user may give to a new session.
MayName(n) == FreshNames => n \notin used

-----------------------------------------------------------------------------
(* create(): `new`, `chat` and `promote`. *)

Issue(p, op, pc, m, key) ==
  /\ proc[p].pc = "idle"
  /\ ops < MaxOps
  /\ ops' = ops + 1
  /\ proc' = [proc EXCEPT ![p] = [pc |-> pc, op |-> op, m |-> m, key |-> key]]
  /\ poll' = poll

CreatedMeta(n, type, b, resource, sid, u) ==
  [name |-> n, type |-> type, status |-> "in-progress", branch |-> b,
   owned |-> TRUE, resource |-> resource, sid |-> sid, uid |-> u]

\* MUTANT: a session's name is free whatever its status.
AnyNameIsFree(n) == TRUE

\* _check_not_in_progress: only a session that is not parked blocks its name.
NotInProgress(n) == meta[n] # NoMeta => Parked(meta[n])

FreshUid(u) == resOf[u] = NoName

\* A new session n with identity u; a backend that polls starts without an id.
StartCreate(p, op, type, pc, n, b) ==
  \E u \in Uids :
    /\ FreshUid(u)
    /\ NotInProgress(n)
    /\ Issue(p, op, pc,
             CreatedMeta(n, type, b, n, IF Polling THEN "none" ELSE "known", u),
             NoName)
    /\ used' = used \cup {n}
    /\ resOf' = [resOf EXCEPT ![u] = n]
    /\ UNCHANGED <<store, git, vol, taken, progress, wishes, kills>>

\* hatchery new: with a worktree on the generated branch (here n itself) or on
\* --branch b, or with --no-worktree.
New(p) ==
  \E n \in Names :
    /\ MayName(n)
    /\ \/ StartCreate(p, "new", "task", "worktree", n, n)
       \/ \E b \in BranchArgs :
            StartCreate(p, "new", "task", "attach", n, b)
       \/ StartCreate(p, "new", "task", "scaffold", n, NoBranch)

\* The lookup keys of chats in the store, as `list` and naming see them.
IsChatName(n) ==
  \E k \in Names : meta[k] # NoMeta /\ meta[k].type = "chat" /\ meta[k].name = n

\* next_chat_name: the first automatic name that no chat has at the moment.
NextChatName(n) ==
  \E i \in DOMAIN AutoNames :
    /\ n = AutoNames[i]
    /\ ~IsChatName(n)
    /\ \A j \in 1..(i - 1) : IsChatName(AutoNames[j])

\* hatchery chat, with a name or with the next automatic one.
Chat(p) ==
  \E n \in Names :
    /\ MayName(n) \/ NextChatName(n)
    /\ StartCreate(p, "chat", "chat", "scaffold", n, NoBranch)

\* hatchery promote c n: meta.json is read, then the objective is prompted for.
Promote(p) ==
  \E c \in Names, n \in Names :
    /\ meta[c] # NoMeta
    /\ MayName(n)
    /\ Issue(p, "promote", "promote", meta[c], n)
    /\ used' = used \cup {n}
    /\ UNCHANGED <<store, git, vol, resOf, taken, progress, wishes, kills>>

\* promote_chat's guards, on the copy read before the prompt.
MayPromote(m, n) ==
  /\ m.type = "chat"
  /\ m.status # "running"
  /\ n # m.name => meta[n] = NoMeta

\* MUTANT: the promoted task is given its own name as runtime name.
PromotedMetaRenamed(m, n, b) == CreatedMeta(n, "task", b, n, m.sid, m.uid)

\* The task that replaces chat m keeps its identity, session id and resources.
PromotedMeta(m, n, b) ==
  CreatedMeta(n, "task", b, RuntimeName(m), m.sid, m.uid)

PromoteCheck(p) ==
  LET m == proc[p].m
      n == proc[p].key
      Continue(pc, b) ==
        /\ proc' = [proc EXCEPT ![p].pc = pc, ![p].key = m.name,
                                ![p].m = PromotedMeta(m, n, b)]
        /\ poll' = poll
  IN /\ proc[p].pc = "promote"
     /\ IF MayPromote(m, n)
          THEN \/ Continue("worktree", n)
               \/ \E b \in BranchArgs : Continue("attach", b)
               \/ Continue("scaffold", NoBranch)
          ELSE Exit(p)
     /\ UNCHANGED <<store, git, vol, observed>>

\* --branch names a branch that exists: attach, do not reset, do not own.
Reuse(pc, b) == pc = "attach" /\ b \in branches

\* git.create_worktree, from create(): reuse is allowed only under --branch; the
\* generated branch is reset, whoever made it.
CreateWorktree(p) ==
  LET pc == proc[p].pc
      m == proc[p].m
      b == m.branch
  IN /\ pc \in {"worktree", "attach"}
     /\ \/ /\ Reuse(pc, b)
           /\ AddWorktree(m.name, b, work[b])
           /\ Goto(p, "scaffold", [m EXCEPT !.owned = FALSE])
           /\ UNCHANGED taken
        \/ /\ ~Reuse(pc, b)
           /\ AddWorktree(m.name, b, {})
           /\ Goto(p, "scaffold", m)
           /\ taken' = taken \cup {c \in UserBranches : pc = "worktree" /\ c = b}
        \/ /\ AddWorktreeFails(m.name, b)
           /\ Exit(p)
           /\ UNCHANGED taken
     /\ UNCHANGED <<store, vol, used, resOf, progress, wishes, ops, kills>>

\* MUTANT: a branch the user owned is deleted with the rest.
RemoveAnyBranch(m) ==
  /\ wt' = WithoutWorktree(m.name)
  /\ DeleteBranch(wt', m.branch)

\* Remove m's worktree, and its branch when hatchery created it.
RemoveWorktreeAndBranch(m) ==
  /\ wt' = WithoutWorktree(m.name)
  /\ IF m.owned THEN DeleteBranch(wt', m.branch)
                ELSE UNCHANGED <<branches, work>>

\* While the Docker files and the task file are written, edited and committed:
\* the editor left the task file unchanged, or Ctrl-C.  Roll back.
CancelCreate(p) ==
  LET m == proc[p].m IN
  /\ proc[p].pc = "scaffold"
  /\ IF HasWorktree(m) THEN RemoveWorktreeAndBranch(m) ELSE UNCHANGED git
  /\ Exit(p)
  /\ UNCHANGED <<store, vol, observed>>

\* MUTANT: the chat's directory stays behind.
NeverMoves(p) == FALSE

\* A promotion under a new name moves the chat's directory first.
MovesDir(p) == proc[p].op = "promote" /\ proc[p].key # proc[p].m.name

\* Path.rename(old, new): it fails when the chat's directory is gone, and when
\* the target's holds files; what a deleted session leaves (a token, a log)
\* may be nothing or not.
MoveDir(old, new) ==
  /\ old \in dirs /\ meta[new] = NoMeta
  /\ dirs' = (dirs \ {old}) \cup {new}
  /\ meta' = [meta EXCEPT ![new] = meta[old], ![old] = NoMeta]

MoveDirFails(old, new) ==
  /\ old \in dirs => new \in dirs
  /\ UNCHANGED store

PromoteMove(p) ==
  LET m == proc[p].m IN
  /\ proc[p].pc = "scaffold" /\ MovesDir(p)
  /\ \/ MoveDir(proc[p].key, m.name) /\ Goto(p, "save", m)
     \/ MoveDirFails(proc[p].key, m.name) /\ Exit(p)
  /\ UNCHANGED <<git, vol, observed>>

\* save_task.  `new` and `chat` go on to launch the agent; promote ends.
CreateSave(p) ==
  LET m == proc[p].m IN
  /\ proc[p].pc \in {"scaffold", "save"}
  /\ proc[p].pc = "scaffold" => ~MovesDir(p)
  /\ Save(m)
  /\ saved' = saved \cup {m.uid}
  /\ IF proc[p].op = "promote" THEN Exit(p) ELSE Goto(p, "launch", m)
  /\ UNCHANGED <<git, vol, identity, committed, talked, wishes, ops, kills>>

-----------------------------------------------------------------------------
(* rename. *)

\* hatchery rename c n: load, then rename_chat's guards on what was loaded.
Rename(p) ==
  \E c \in Names, n \in Names :
    /\ meta[c] # NoMeta
    /\ MayName(n)
    /\ Issue(p, "rename", "rename", meta[c], n)
    /\ used' = used \cup {n}
    /\ UNCHANGED <<store, git, vol, resOf, taken, progress, wishes, kills>>

MayRename(m, n) ==
  /\ m.type = "chat"
  /\ m.status # "running"
  /\ n # m.name
  /\ meta[n] = NoMeta

\* MUTANT: a file without resource_name gets none when it is renamed.
RenamedKeepsNoResource(m, n) == [m EXCEPT !.name = n]

\* The renamed chat captures the runtime name it had so far.
Renamed(m, n) == [m EXCEPT !.name = n, !.resource = RuntimeName(m)]

RenameMove(p) ==
  LET m == proc[p].m
      n == proc[p].key
  IN /\ proc[p].pc = "rename"
     /\ \/ /\ MayRename(m, n)
           /\ MoveDir(m.name, n)
           /\ Goto(p, "renameSave", Renamed(m, n))
        \/ /\ MayRename(m, n) => MoveDirFails(m.name, n)
           /\ Exit(p)
           /\ UNCHANGED store
     /\ UNCHANGED <<git, vol, observed>>

RenameSave(p) ==
  /\ proc[p].pc = "renameSave"
  /\ Save(proc[p].m)
  /\ Exit(p)
  /\ UNCHANGED <<git, vol, observed>>

-----------------------------------------------------------------------------
(* resume, and the launch that new, chat and resume end in. *)

\* A command that starts by reading one session's meta.json.
LoadFor(p, op, pc) ==
  \E n \in Names :
    /\ meta[n] # NoMeta
    /\ Issue(p, op, pc, meta[n], NoName)
    /\ UNCHANGED <<store, git, vol, identity, progress, wishes, kills>>

Resume(p) == LoadFor(p, "resume", "restore")

\* MUTANT: a worktree is recreated from the default branch.
RecreateFromDefault(b) == {}

\* _resolve_recreate_base: the task's branch, else the default branch.
RecreateBase(b) == IF b \in branches THEN work[b] ELSE {}

\* restore_worktree_if_needed up to git; a session that is not parked is
\* restored only when the user agrees.
Restore(p) ==
  LET m == proc[p].m
      missing == HasWorktree(m) /\ wt[m.name] = NoBranch
  IN /\ proc[p].pc = "restore"
     /\ \/ /\ ~missing
           /\ Goto(p, "kind", m)
           /\ UNCHANGED git
        \/ /\ missing
           /\ AddWorktree(m.name, m.branch, RecreateBase(m.branch))
           /\ Goto(p, "restoreSave", [m EXCEPT !.status = "in-progress"])
        \/ /\ missing
           /\ AddWorktreeFails(m.name, m.branch)
           /\ Exit(p)
        \/ /\ missing /\ ~Parked(m)
           /\ Exit(p)
           /\ UNCHANGED git
     /\ UNCHANGED <<store, vol, observed>>

RestoreSave(p) ==
  LET m == proc[p].m IN
  /\ proc[p].pc = "restoreSave"
  /\ Save(m)
  /\ Goto(p, "kind", m)
  /\ UNCHANGED <<git, vol, observed>>

\* resolve_resume_kind: without a session id, mint one and save it.
ResumeKind(p) ==
  LET m == proc[p].m
      minted == [m EXCEPT !.sid = "known"]
  IN /\ proc[p].pc = "kind"
     /\ Goto(p, "launch", minted)
     /\ IF m.sid = "none" THEN Save(minted) ELSE UNCHANGED store
     /\ UNCHANGED <<git, vol, observed>>

\* set_status: read, change one field, write; exit(1) when the file is gone.
SetStatus(n, s) == Save([meta[n] EXCEPT !.status = s])

\* launch(): the log file makes the session directory anew if it is gone; status
\* "running"; then the poller thread starts with the in-memory object, whose
\* own status field is not touched.
Launch(p) ==
  LET m == proc[p].m IN
  /\ proc[p].pc = "launch"
  /\ dirs' = dirs \cup {m.name}
  /\ IF meta[m.name] = NoMeta
       THEN Exit(p) /\ meta' = meta
       ELSE /\ SetStatus(m.name, "running")
            /\ proc' = [proc EXCEPT ![p].pc = "agent"]
            /\ poll' = IF Polling THEN [poll EXCEPT ![p] = @ \cup {m}]
                                  ELSE poll
  /\ UNCHANGED <<git, vol, observed>>

\* The agent works: it commits on the branch its worktree has checked out and
\* continues the conversation in the volume of the session's runtime name.
AgentWorks(p) ==
  LET m == proc[p].m
      b == wt[m.name]
  IN /\ proc[p].pc = "agent"
     /\ IF HasWorktree(m) /\ b # NoBranch
          THEN /\ work' = [work EXCEPT ![b] = @ \cup {m.uid}]
               /\ committed' = committed \cup {<<m.uid, b>>}
          ELSE UNCHANGED <<work, committed>>
     /\ vol' = [vol EXCEPT ![RuntimeName(m)] = @ \cup {m.uid}]
     /\ talked' = talked \cup {m.uid}
     /\ UNCHANGED <<store, wt, branches, proc, poll, identity, saved, wishes,
                    ops, kills>>

\* A poller found a session id that differs from the one it has: it saves the
\* whole meta object it was started with.
PollerSaves(p) ==
  \E m \in poll[p] :
    /\ Save([m EXCEPT !.sid = "known"])
    /\ poll' = [poll EXCEPT ![p] = @ \ {m}]
    /\ UNCHANGED <<git, vol, proc, observed>>

\* A poller confirmed the id it has, or saw the stop event.
PollerEnds(p) ==
  \E m \in poll[p] :
    /\ m.sid = "known" \/ proc[p].pc # "agent"
    /\ poll' = [poll EXCEPT ![p] = @ \ {m}]
    /\ UNCHANGED <<store, git, vol, proc, observed>>

\* MUTANT: the status stays as it is.
StatusLeft(n) == UNCHANGED store

\* launch()'s finally clause.
StatusBack(n) == SetStatus(n, "in-progress")

\* The agent exits and launch() puts the status back.
AgentExits(p) ==
  LET m == proc[p].m IN
  /\ proc[p].pc = "agent"
  /\ IF meta[m.name] = NoMeta
       THEN Exit(p) /\ UNCHANGED store
       ELSE /\ StatusBack(m.name)
            /\ Goto(p, IF m.type = "chat" THEN "menu" ELSE "post", m)
  /\ UNCHANGED <<git, vol, observed>>

\* cmd_new's KeyboardInterrupt handler encloses the launch, every wrap-up and
\* the prompts after them: it removes what create() made in git.
CancelNew(p) ==
  LET m == proc[p].m IN
  IF proc[p].op = "new" /\ HasWorktree(m)
    THEN /\ RemoveWorktreeAndBranch(m)
         /\ cancelled' = cancelled \cup {m.uid}
    ELSE UNCHANGED <<git, cancelled>>

\* Ctrl-C during the run: the status goes back first (and a missing file ends
\* the process before the handler).
AgentInterrupted(p) ==
  LET n == proc[p].m.name IN
  /\ proc[p].pc = "agent"
  /\ IF meta[n] = NoMeta
       THEN UNCHANGED <<store, git, cancelled>>
       ELSE StatusBack(n) /\ CancelNew(p)
  /\ Exit(p)
  /\ UNCHANGED <<vol, identity, progress, givenUp, ops, kills>>

\* Ctrl-C at one of the prompts after the run.
PromptInterrupted(p) ==
  /\ proc[p].pc \in {"menu", "done", "confirm"}
  /\ CancelNew(p)
  /\ Exit(p)
  /\ UNCHANGED <<store, vol, identity, progress, givenUp, ops, kills>>

-----------------------------------------------------------------------------
(* After the run: _post_exit_check and _chat_post_exit. *)

\* MUTANT: a missing meta.json is not noticed.
ReloadUnchecked(p, pc) == Goto(p, pc, meta[proc[p].m.name])

\* Read n's meta.json again and go on to step pc; exit(1) when it is gone.
Reload(p, pc) ==
  LET n == proc[p].m.name IN
  IF meta[n] = NoMeta THEN Exit(p) ELSE Goto(p, pc, meta[n])

PostExit(p) ==
  /\ proc[p].pc = "post"
  /\ Reload(p, "menu")
  /\ UNCHANGED <<store, git, vol, observed>>

MenuChatComplete(p) ==
  LET m == proc[p].m IN
  /\ proc[p].pc = "menu" /\ m.type = "chat"
  /\ IF meta[m.name] = NoMeta
       THEN UNCHANGED store
       ELSE Save([meta[m.name] EXCEPT !.status = "complete"])
  /\ IF meta[m.name] = NoMeta THEN Exit(p) ELSE Goto(p, "cleanup", m)
  /\ UNCHANGED <<git, vol, observed>>

\* w: relaunch to finalize, with the copy loaded before the prompt.
MenuWrapUp(p) ==
  LET m == proc[p].m IN
  /\ proc[p].pc = "menu" /\ m.type = "task" /\ m.sid = "known"
  /\ Goto(p, "launch", m)
  /\ UNCHANGED <<store, git, vol, observed>>

MenuDone(p) ==
  /\ proc[p].pc = "menu" /\ proc[p].m.type = "task"
  /\ Reload(p, "done")
  /\ UNCHANGED <<store, git, vol, observed>>

MenuDelete(p) ==
  /\ proc[p].pc = "menu" /\ proc[p].m.type = "task"
  /\ Reload(p, "confirm")
  /\ UNCHANGED <<store, git, vol, observed>>

\* Leave for later; the delete prompt declined.
Leave(p) ==
  /\ proc[p].pc \in {"menu", "confirm"}
  /\ Exit(p)
  /\ UNCHANGED <<store, git, vol, observed>>

-----------------------------------------------------------------------------
(* done, archive and delete. *)

Done(p) == LoadFor(p, "done", "done")
Archive(p) == LoadFor(p, "archive", "archive")
Delete(p) == LoadFor(p, "delete", "confirm")

\* MUTANT: parking leaves the worktree where it is.
KeepWorktree(m) == wt

WorktreeAfterParking(m) ==
  IF HasWorktree(m) THEN WithoutWorktree(m.name) ELSE wt

\* mark_done and archive: the worktree goes, the branch stays.
ParkWorktree(p, from, to) ==
  LET m == proc[p].m IN
  /\ proc[p].pc = from
  /\ wt' = WorktreeAfterParking(m)
  /\ Goto(p, to, m)
  /\ UNCHANGED <<store, branches, work, vol, observed>>

ParkSave(p, from, status) ==
  /\ proc[p].pc = from
  /\ Save([proc[p].m EXCEPT !.status = status])
  /\ UNCHANGED <<git, vol, observed>>

DoneWorktree(p) == ParkWorktree(p, "done", "doneSave")
DoneSave(p) == ParkSave(p, "doneSave", "complete") /\ Goto(p, "cleanup", proc[p].m)
ArchiveWorktree(p) == ParkWorktree(p, "archive", "archiveSave")
ArchiveSave(p) == ParkSave(p, "archiveSave", "archived") /\ Exit(p)

\* _cleanup_task touches no state of the model, but a poller is alive meanwhile.
Cleanup(p) ==
  /\ proc[p].pc = "cleanup"
  /\ Exit(p)
  /\ UNCHANGED <<store, git, vol, observed>>

\* delete(), confirmed: worktree and own branch, then meta.json, then volumes.
DeleteGit(p) ==
  LET m == proc[p].m IN
  /\ proc[p].pc = "confirm"
  /\ IF HasWorktree(m) THEN RemoveWorktreeAndBranch(m) ELSE UNCHANGED git
  /\ Goto(p, "unlink", m)
  /\ givenUp' = givenUp \cup {m.uid}
  /\ UNCHANGED <<store, vol, identity, progress, cancelled, ops,
                 kills>>

\* Only meta.json is unlinked: the directory stays.
DeleteMeta(p) ==
  LET m == proc[p].m IN
  /\ proc[p].pc = "unlink"
  /\ meta' = [meta EXCEPT ![m.name] = NoMeta]
  /\ Goto(p, "volumes", m)
  /\ UNCHANGED <<dirs, git, vol, observed>>

\* MUTANT: the volumes of the session's current name are removed.
VolumesByName(m) == [vol EXCEPT ![m.name] = {}]

VolumesRemoved(m) == [vol EXCEPT ![RuntimeName(m)] = {}]

DeleteVolumes(p) ==
  /\ proc[p].pc = "volumes"
  /\ vol' = VolumesRemoved(proc[p].m)
  /\ Exit(p)
  /\ UNCHANGED <<store, git, observed>>

-----------------------------------------------------------------------------

\* SIGKILL, a closed terminal, or an error that ends the command half-way.
Kill(p) ==
  /\ proc[p].pc # "idle"
  /\ kills < MaxKills
  /\ kills' = kills + 1
  /\ Exit(p)
  /\ UNCHANGED <<store, git, vol, identity, progress, wishes, ops>>

\* No command is in progress, and none need follow.
Finished ==
  /\ \A p \in Procs : proc[p].pc = "idle"
  /\ UNCHANGED vars

Command(p) == \/ New(p) \/ Chat(p) \/ Promote(p) \/ Rename(p) \/ Resume(p)
              \/ Done(p) \/ Archive(p) \/ Delete(p)

Creation(p) == \/ PromoteCheck(p) \/ CreateWorktree(p) \/ CancelCreate(p)
               \/ PromoteMove(p) \/ CreateSave(p)
               \/ RenameMove(p) \/ RenameSave(p)

Run(p) == \/ Restore(p) \/ RestoreSave(p) \/ ResumeKind(p) \/ Launch(p)
          \/ AgentWorks(p) \/ AgentExits(p) \/ AgentInterrupted(p)
          \/ PollerSaves(p) \/ PollerEnds(p)

Ending(p) == \/ PostExit(p) \/ MenuChatComplete(p) \/ MenuWrapUp(p)
             \/ MenuDone(p) \/ MenuDelete(p) \/ Leave(p)
             \/ PromptInterrupted(p)
             \/ DoneWorktree(p) \/ DoneSave(p) \/ ArchiveWorktree(p)
             \/ ArchiveSave(p) \/ Cleanup(p) \/ DeleteGit(p) \/ DeleteMeta(p)
             \/ DeleteVolumes(p)

Next == \/ \E p \in Procs : Command(p) \/ Creation(p) \/ Run(p) \/ Ending(p)
                            \/ Kill(p)
        \/ Finished

Spec == Init /\ [][Next]_vars

\* The program's own steps are taken; commands, answers of the user, the
\* agent's work, its exit and kills need not be.
FairSpec ==
  /\ Spec
  /\ \A p \in Procs : WF_vars(\/ PromoteCheck(p) \/ CreateWorktree(p)
                              \/ PromoteMove(p) \/ CreateSave(p)
                              \/ RenameMove(p) \/ RenameSave(p) \/ Restore(p)
                              \/ RestoreSave(p) \/ ResumeKind(p) \/ Launch(p)
                              \/ PostExit(p) \/ DoneSave(p) \/ ArchiveSave(p)
                              \/ Cleanup(p) \/ DeleteMeta(p) \/ DeleteVolumes(p))

-----------------------------------------------------------------------------
(* Properties. *)

\* Every variable has its type: what is on disk and every in-memory copy is a
\* well-formed SessionMeta.
TypeOK ==
  /\ meta \in [Names -> SessionMeta \cup {NoMeta}]
  /\ dirs \subseteq Names
  /\ wt \in [Names -> Branches \cup {NoBranch}]
  /\ branches \subseteq Branches
  /\ work \in [Branches -> SUBSET (Uids \cup {User})]
  /\ vol \in [Names -> SUBSET Uids]
  /\ proc \in [Procs -> Process]
  /\ \A p \in Procs : proc[p].m = NoMeta <=> proc[p].pc = "idle"
  /\ poll \in [Procs -> SUBSET SessionMeta]
  /\ used \subseteq Names
  /\ resOf \in [Uids -> Names \cup {NoName}]
  /\ taken \subseteq UserBranches
  /\ saved \subseteq Uids
  /\ committed \subseteq Uids \X Branches
  /\ talked \subseteq Uids
  /\ givenUp \subseteq Uids
  /\ cancelled \subseteq Uids
  /\ ops \in Nat
  /\ kills \in Nat

\* "Immutable runtime identity" (SessionMeta.resource_name): whatever renames,
\* promotions, stale saves and kills happen, a session found on disk uses the
\* container and volume name under which it was first created.
RuntimeIdentity ==
  \A n \in Names : meta[n] # NoMeta => RuntimeName(meta[n]) = resOf[meta[n].uid]

\* A branch of the user keeps existing and keeps the user's commits, although
\* sessions attach to it with --branch, are rolled back, deleted and restored on
\* it; but for one that a session was given as its generated branch, which only an
\* empty (or an unlucky) branch_prefix can bring about (UserBranchKept).
UserBranchSafe ==
  \A b \in UserBranches \ taken : b \in branches /\ User \in work[b]

\* "delete()/rollback paths must never `git branch -D` a branch hatchery doesn't
\* own" (models.py), nor reset it: whatever the branch_prefix, a branch that was
\* there before hatchery stays, with the user's commits.
UserBranchKept ==
  \A b \in UserBranches : b \in branches /\ User \in work[b]

\* Two different sessions in the store never have the same runtime name, and
\* so never share a container, an image or a volume.
ResourceUnshared ==
  \A n1, n2 \in Names :
    /\ meta[n1] # NoMeta /\ meta[n2] # NoMeta
    /\ RuntimeName(meta[n1]) = RuntimeName(meta[n2])
    => meta[n1].uid = meta[n2].uid

\* What the session found at n has committed is on its branch.
WorkOnBranch(m) == m.branch \in branches /\ m.uid \in work[m.branch]

\* As long as a session is in the store, what its agent committed stays on its
\* branch, over done, archive and resume, unless the user confirmed its
\* deletion or interrupted its `new`.
RetainedWork ==
  \A n \in Names :
    /\ meta[n] # NoMeta
    /\ HasWorktree(meta[n])
    /\ <<meta[n].uid, meta[n].branch>> \in committed
    /\ meta[n].uid \notin givenUp \cup cancelled
    => WorkOnBranch(meta[n])

\* A conversation stays in the volume of its session's runtime name until the
\* user confirms the deletion of that very session.
ConversationKept ==
  \A u \in talked \ givenUp : u \in vol[resOf[u]]

Quiet == \A p \in Procs : proc[p].pc = "idle"

\* Between commands, a session that is complete or archived has no worktree.
ParkedHasNoWorktree ==
  Quiet => \A n \in Names :
    meta[n] # NoMeta /\ HasWorktree(meta[n]) /\ Parked(meta[n])
      => wt[n] = NoBranch

\* A session is marked running only while some process runs its agent.
RunningIsHosted ==
  \A n \in Names : meta[n] # NoMeta /\ meta[n].status = "running"
    => \E p \in Procs : proc[p].pc = "agent" /\ proc[p].m.name = n

\* Where the conversation u can be found in the store.
Keys(u) == {n \in Names : meta[n] # NoMeta /\ meta[n].uid = u}

\* No two sessions in the store stand for the same conversation.
OneSessionPerConversation ==
  \A n1, n2 \in Names :
    meta[n1] # NoMeta /\ meta[n2] # NoMeta /\ meta[n1].uid = meta[n2].uid
      => n1 = n2

AgentLive(u) == \E p \in Procs : proc[p].pc = "agent" /\ proc[p].m.uid = u

Is(type, u) == \E n \in Keys(u) : meta[n].type = type

\* "Promotion must be run after exiting the chat": a chat does not become a
\* task while its agent is running.
PromotedOnlyWhenStopped ==
  [][\A u \in Uids : AgentLive(u) /\ Is("chat", u) => ~Is("task", u)']_vars

\* What an agent committed is lost only if the user confirmed a deletion.
InterruptKeepsWork ==
  \A n \in Names :
    /\ meta[n] # NoMeta
    /\ HasWorktree(meta[n])
    /\ <<meta[n].uid, meta[n].branch>> \in committed
    /\ meta[n].uid \notin givenUp
    => WorkOnBranch(meta[n])

Reclaimed(u) ==
  /\ Keys(u) = {}
  /\ \A n \in Names : u \notin vol[n] /\ u \notin work[n]

\* A confirmed deletion eventually leaves nothing of the session behind: no
\* entry in the store, no conversation, and no branch of its own.
DeleteReclaims == \A u \in Uids : u \in givenUp ~> Reclaimed(u)

\* The contract's view of the store: a session is open or parked as its
\* meta.json says, under the runtime name found there.
Key(u) == CHOOSE n \in Keys(u) : TRUE

Phase == [u \in Uids |->
            IF Keys(u) # {}
              THEN IF Parked(meta[Key(u)]) THEN "parked" ELSE "open"
              ELSE IF u \in saved THEN "gone" ELSE "unborn"]

Resource == [u \in Uids |->
               IF Keys(u) = {} THEN NoName ELSE RuntimeName(meta[Key(u)])]

Contract == INSTANCE SessionContract WITH phase <- Phase, resource <- Resource,
                                          Sessions <- Uids, Resources <- Names,
                                          NoResource <- NoName

\* Commands issued one after another treat every session as the contract says.
ImplementsContract == Contract!Spec
=============================================================================
