------------------------------ MODULE Includes ------------------------------
(***************************************************************************)
(* The repositories a session includes.  An entry of mode "worktree" gives *)
(* the session a worktree of its own in the included repository, on the    *)
(* branch <prefix><name>; "rw" and "ro" mount the repository as it is.     *)
(* create, resume, done, archive, delete and the rollback of create go     *)
(* through the entries one by one; a kill, an interrupt or an error of git *)
(* may fall between any two.  Worktree and branch are found by the         *)
(* session's name alone: sessions of two repositories may share a name.    *)
(***************************************************************************)
EXTENDS Naturals, FiniteSets

CONSTANTS
    Sessions,   \* the sessions, of any repositories
    Repos,      \* the repositories they include
    Cases       \* the instances, see CaseType

Modes == {"none", "worktree", "rw", "ro"}

\* `sessions`: those that may be created; `name`: a session's name; `bare`: sessions
\* without a worktree of their own; `plans`: the entries a session may be created with,
\* and `later`: changed to; `prior`: repositories in which an earlier task left a branch
\* of every name.
CaseType == [sessions : SUBSET Sessions, name : [Sessions -> Sessions], bare : SUBSET Sessions,
             plans : SUBSET [Repos -> Modes], later : SUBSET (Repos \X Modes),
             prior : SUBSET Repos, kills : Nat]

ASSUME IncludesAssumption == \A c \in DOMAIN Cases : Cases[c] \in CaseType

VARIABLES
    case,       \* the instance, a constant of each behaviour
    life,       \* session -> "none", "ready", "running", "parked", "deleted"
    main,       \* session -> its own worktree exists
    include,    \* session -> meta.include
    tree,       \* repository -> name -> the worktree and who changed files in it
    branch,     \* repository -> name -> the branch and whose commits it has
    job,        \* session -> the command at work on it
    halts,      \* kills so far
    begun,      \* sessions that a create was begun for (history)
    committed,  \* <<session, repository>>: made a commit (history)
    broken,     \* sessions with a command that stopped half way (history)
    forsaken    \* <<repository, name>>: a rollback or a delete asked for the branch (history)

includesVars == <<case, life, main, include, tree, branch, job, halts, begun, committed,
                  broken, forsaken>>

Case == Cases[case]
Name(s) == Case.name[s]
Bare(s) == s \in Case.bare
NoTree == [there |-> FALSE, dirty |-> {}]
NoBranch == [there |-> FALSE, commits |-> {}]
\* `modes`: the entries at work on; `todo`: those still to do; `undo`: create's
\* cleanup_includes.
NoJob == [at |-> "idle", kind |-> "", modes |-> [r \in Repos |-> "none"], todo |-> {}, undo |-> {}]
Branched(modes) == {r \in Repos : modes[r] = "worktree"}
Alike(s) == {t \in Sessions \ {s} : Name(t) = Name(s)}

Work(s, j) == job' = [job EXCEPT ![s] = j]
At(s, stage) == [job[s] EXCEPT !.at = stage]

IncludesInit ==
    /\ case \in DOMAIN Cases
    /\ life = [s \in Sessions |-> "none"]
    /\ main = [s \in Sessions |-> FALSE]
    /\ include = [s \in Sessions |-> NoJob.modes]
    /\ tree = [r \in Repos |-> [n \in Sessions |-> NoTree]]
    /\ branch = [r \in Repos |-> [n \in Sessions |->
                    IF r \in Case.prior THEN [there |-> TRUE, commits |-> {"user"}] ELSE NoBranch]]
    /\ job = [s \in Sessions |-> NoJob]
    /\ halts = 0 /\ begun = {} /\ committed = {} /\ broken = {} /\ forsaken = {}
-----------------------------------------------------------------------------
\* create: the session's own worktree comes first.
CreateTask(s) ==
    /\ s \in Case.sessions /\ life[s] = "none" /\ job[s].at = "idle"
    /\ \E modes \in Case.plans :
          Work(s, [NoJob EXCEPT !.at = "add", !.kind = "create", !.modes = modes,
                   !.todo = Branched(modes)])
    /\ main' = [main EXCEPT ![s] = ~Bare(s)]
    /\ begun' = begun \cup {s}
    /\ UNCHANGED <<case, life, include, tree, branch, halts, committed, broken, forsaken>>

\* MUTANT: the branch is reset to its base in any case.
AddTreeAfresh(s) ==
    /\ job[s].at = "add"
    /\ \E r \in job[s].todo :
          /\ branch' = [branch EXCEPT ![r][Name(s)] = [there |-> TRUE, commits |-> {}]]
          /\ tree' = [tree EXCEPT ![r][Name(s)] = [there |-> TRUE, dirty |-> {}]]
          /\ Work(s, [job[s] EXCEPT !.todo = @ \ {r}])
    /\ UNCHANGED <<case, life, main, include, halts, begun, committed, broken, forsaken>>

\* create_include_worktrees: a branch that exists is attached as it is, and a worktree
\* that exists is left alone.
AddTree(s) ==
    /\ job[s].at = "add"
    /\ \E r \in job[s].todo :
          LET n == Name(s)
          IN  /\ branch' = IF branch[r][n].there THEN branch
                           ELSE [branch EXCEPT ![r][n] = [there |-> TRUE, commits |-> {}]]
              /\ tree' = IF branch[r][n].there /\ tree[r][n].there THEN tree
                         ELSE [tree EXCEPT ![r][n] = [there |-> TRUE, dirty |-> {}]]
              /\ Work(s, [job[s] EXCEPT !.todo = @ \ {r}])
    /\ UNCHANGED <<case, life, main, include, halts, begun, committed, broken, forsaken>>

\* git fails: the command ends, and create rolls nothing back.
AddFails(s) ==
    /\ job[s].at = "add" /\ job[s].todo # {}
    /\ Work(s, NoJob)
    /\ broken' = broken \cup {s}
    /\ UNCHANGED <<case, life, main, include, tree, branch, halts, begun, committed, forsaken>>

\* After the entries it was given, create adds those of the branch's own docker.yaml,
\* and only then are they known to the rollback.
MoreEntries(s) ==
    /\ job[s].at = "add" /\ job[s].todo = {} /\ job[s].kind \in {"create", "extra"}
    /\ \/ Work(s, [job[s] EXCEPT !.at = "editor", !.undo = Branched(job[s].modes)])
       \/ \E e \in Case.later :
             /\ job[s].kind = "create" /\ job[s].modes[e[1]] = "none"
             /\ Work(s, [job[s] EXCEPT !.kind = "extra", !.modes[e[1]] = e[2],
                           !.todo = IF e[2] = "worktree" THEN {e[1]} ELSE {},
                           !.undo = Branched(job[s].modes)])
    /\ UNCHANGED <<case, life, main, include, tree, branch, halts, begun, committed, broken,
                   forsaken>>

\* Ctrl-C in create, or the task file left unchanged in the editor: what was created
\* goes again, with the branches of the included repositories.
Rollback(s) ==
    /\ job[s].kind \in {"create", "extra"} /\ job[s].at \in {"add", "editor"}
    /\ Work(s, [job[s] EXCEPT !.at = "remove", !.kind = "rollback", !.todo = job[s].undo])
    /\ main' = [main EXCEPT ![s] = FALSE]
    /\ UNCHANGED <<case, life, include, tree, branch, halts, begun, committed, broken, forsaken>>

\* The meta is saved and the agent launched.
CreateDone(s) ==
    /\ job[s].at = "editor"
    /\ include' = [include EXCEPT ![s] = job[s].modes]
    /\ life' = [life EXCEPT ![s] = "running"]
    /\ Work(s, [NoJob EXCEPT !.kind = "first"])
    /\ UNCHANGED <<case, main, tree, branch, halts, begun, committed, broken, forsaken>>
-----------------------------------------------------------------------------
\* MUTANT: the included repositories are not restored with the worktree.
ResumeAlone(s) ==
    /\ life[s] \in {"ready", "parked"} /\ job[s].at = "idle"
    /\ main' = [main EXCEPT ![s] = ~Bare(s)]
    /\ Work(s, [NoJob EXCEPT !.at = "flags", !.kind = "resume", !.modes = include[s]])
    /\ UNCHANGED <<case, life, include, tree, branch, halts, begun, committed, broken, forsaken>>

\* resume: restore_worktree_if_needed, only when the session's own worktree is missing.
ResumeTask(s) ==
    /\ life[s] \in {"ready", "parked"} /\ job[s].at = "idle"
    /\ main' = [main EXCEPT ![s] = ~Bare(s)]
    /\ Work(s, [NoJob EXCEPT !.kind = "resume", !.modes = include[s],
                  !.at = IF main[s] \/ Bare(s) THEN "flags" ELSE "add",
                  !.todo = IF main[s] \/ Bare(s) THEN {} ELSE Branched(include[s])])
    /\ UNCHANGED <<case, life, include, tree, branch, halts, begun, committed, broken, forsaken>>

Restored(s) ==
    /\ job[s].at = "add" /\ job[s].kind = "resume" /\ job[s].todo = {}
    /\ life' = [life EXCEPT ![s] = "ready"]
    /\ Work(s, At(s, "flags"))
    /\ UNCHANGED <<case, main, include, tree, branch, halts, begun, committed, broken, forsaken>>

\* merge_include_updates with one --include flag: a worktree is added to an entry that
\* becomes one, and removed from one that becomes a reference.
Flag(s) ==
    /\ job[s].at = "flags"
    /\ \E e \in Case.later :
          LET r == e[1]
              old == job[s].modes[r]
              stage == CASE old # "worktree" /\ e[2] = "worktree" -> "add"
                         [] old = "worktree" /\ e[2] # "worktree" -> "remove"
                         [] OTHER -> "save"
          IN  Work(s, [job[s] EXCEPT !.kind = "flag", !.modes[r] = e[2], !.at = stage,
                         !.todo = IF stage = "save" THEN {} ELSE {r}])
    /\ UNCHANGED <<case, life, main, include, tree, branch, halts, begun, committed, broken,
                   forsaken>>

\* The entries are saved, and the agent launched.
Launched(s) ==
    /\ \/ job[s].at = "flags"
       \/ job[s].kind = "flag" /\ job[s].at \in {"add", "remove", "save"} /\ job[s].todo = {}
    /\ include' = [include EXCEPT ![s] = job[s].modes]
    /\ life' = [life EXCEPT ![s] = "running"]
    /\ Work(s, NoJob)
    /\ UNCHANGED <<case, main, tree, branch, halts, begun, committed, broken, forsaken>>
-----------------------------------------------------------------------------
\* The worktree is mounted for the agent; without it the repository itself is.
Isolates(s, r) == ~Bare(s) /\ tree[r][Name(s)].there

AgentEdits(s) ==
    /\ life[s] = "running"
    /\ \E r \in Branched(include[s]) :
          /\ Isolates(s, r)
          /\ tree' = [tree EXCEPT ![r][Name(s)].dirty = @ \cup {s}]
    /\ UNCHANGED <<case, life, main, include, branch, job, halts, begun, committed, broken,
                   forsaken>>

AgentCommits(s) ==
    /\ life[s] = "running"
    /\ \E r \in Branched(include[s]) :
          /\ Isolates(s, r) /\ s \in tree[r][Name(s)].dirty
          /\ branch' = [branch EXCEPT ![r][Name(s)].commits = @ \cup tree[r][Name(s)].dirty]
          /\ tree' = [tree EXCEPT ![r][Name(s)].dirty = {}]
          /\ committed' = committed \cup (tree[r][Name(s)].dirty \X {r})
    /\ UNCHANGED <<case, life, main, include, job, halts, begun, broken, forsaken>>

AgentLeaves(s) ==
    /\ life[s] = "running" /\ job[s].at = "idle"
    /\ life' = [life EXCEPT ![s] = "ready"]
    /\ Work(s, NoJob)
    /\ UNCHANGED <<case, main, include, tree, branch, halts, begun, committed, broken, forsaken>>

\* Ctrl-C of the first launch: new removes the worktrees and deletes the branches.
FirstLaunchInterrupted(s) ==
    /\ life[s] = "running" /\ job[s].at = "idle" /\ job[s].kind = "first"
    /\ life' = [life EXCEPT ![s] = "ready"]
    /\ main' = [main EXCEPT ![s] = FALSE]
    /\ Work(s, [NoJob EXCEPT !.at = "remove", !.kind = "rollback", !.todo = Branched(include[s]),
                  !.undo = Branched(include[s])])
    /\ UNCHANGED <<case, include, tree, branch, halts, begun, committed, broken, forsaken>>

\* done, archive and delete; a session without a worktree keeps those of its includes.
End(s, kind) ==
    /\ life[s] \in {"ready", "running"} \cup (IF kind = "delete" THEN {"parked"} ELSE {})
    /\ job[s].at = "idle"
    /\ main' = [main EXCEPT ![s] = FALSE]
    /\ Work(s, [NoJob EXCEPT !.kind = kind, !.at = IF Bare(s) THEN "ended" ELSE "remove",
                  !.todo = IF Bare(s) THEN {} ELSE Branched(include[s]),
                  !.undo = Branched(include[s])])
    /\ UNCHANGED <<case, life, include, tree, branch, halts, begun, committed, broken, forsaken>>

\* remove_include_worktrees, by force.
RemoveTree(s) ==
    /\ job[s].at = "remove"
    /\ \E r \in job[s].todo :
          /\ tree' = [tree EXCEPT ![r][Name(s)] = NoTree]
          /\ Work(s, [job[s] EXCEPT !.todo = @ \ {r}])
    /\ UNCHANGED <<case, life, main, include, branch, halts, begun, committed, broken, forsaken>>

TreesRemoved(s) ==
    /\ job[s].at = "remove" /\ job[s].todo = {} /\ job[s].kind \in {"park", "delete", "rollback"}
    /\ Work(s, [job[s] EXCEPT !.at = IF job[s].kind = "park" THEN "ended" ELSE "unbranch",
                  !.todo = IF job[s].kind = "park" THEN {} ELSE job[s].undo])
    /\ UNCHANGED <<case, life, main, include, tree, branch, halts, begun, committed, broken,
                   forsaken>>

\* delete_include_branches.
DeleteIncluded(s) ==
    /\ job[s].at = "unbranch"
    /\ \E r \in job[s].todo :
          LET n == Name(s)
          IN  /\ branch' = IF tree[r][n].there THEN branch ELSE [branch EXCEPT ![r][n] = NoBranch]
              /\ forsaken' = forsaken \cup {<<r, n>>}
              /\ Work(s, [job[s] EXCEPT !.todo = @ \ {r}])
    /\ UNCHANGED <<case, life, main, include, tree, halts, begun, committed, broken>>

\* The meta is saved or removed last.
Ended1(s) ==
    /\ \/ job[s].at = "ended"
       \/ job[s].at = "unbranch" /\ job[s].todo = {}
    /\ life' = [life EXCEPT ![s] = CASE job[s].kind = "park" -> "parked"
                                     [] job[s].kind = "delete" -> "deleted" [] OTHER -> @]
    /\ Work(s, NoJob)
    /\ UNCHANGED <<case, main, include, tree, branch, halts, begun, committed, broken, forsaken>>

KillCommand(s) ==
    /\ job[s].at # "idle" /\ halts < Case.kills
    /\ halts' = halts + 1 /\ broken' = broken \cup {s}
    /\ Work(s, NoJob)
    /\ UNCHANGED <<case, life, main, include, tree, branch, begun, committed, forsaken>>

IncludesNext ==
    \E s \in Sessions :
        \/ CreateTask(s) \/ AddTree(s) \/ AddFails(s) \/ MoreEntries(s) \/ Rollback(s)
        \/ CreateDone(s) \/ ResumeTask(s) \/ Restored(s) \/ Flag(s) \/ Launched(s)
        \/ AgentEdits(s) \/ AgentCommits(s) \/ AgentLeaves(s) \/ FirstLaunchInterrupted(s)
        \/ End(s, "park") \/ End(s, "delete")
        \/ RemoveTree(s) \/ TreesRemoved(s) \/ DeleteIncluded(s) \/ Ended1(s) \/ KillCommand(s)

IncludesSpec == IncludesInit /\ [][IncludesNext]_includesVars
-----------------------------------------------------------------------------
IncludesTypeOK ==
    /\ case \in DOMAIN Cases
    /\ life \in [Sessions -> {"none", "ready", "running", "parked", "deleted"}]
    /\ main \in [Sessions -> BOOLEAN]
    /\ include \in [Sessions -> [Repos -> Modes]]
    /\ tree \in [Repos -> [Sessions -> [there : BOOLEAN, dirty : SUBSET Sessions]]]
    /\ branch \in [Repos -> [Sessions -> [there : BOOLEAN,
                                          commits : SUBSET (Sessions \cup {"user"})]]]
    /\ job \in [Sessions -> [at : {"idle", "add", "editor", "flags", "save", "remove",
                                   "unbranch", "ended"},
                             kind : {"", "create", "first", "extra", "rollback", "resume",
                                     "flag", "park", "delete"},
                             modes : [Repos -> Modes], todo : SUBSET Repos, undo : SUBSET Repos]]
    /\ halts \in 0 .. Case.kills
    /\ begun \subseteq Sessions
    /\ committed \subseteq Sessions \X Repos
    /\ broken \subseteq Sessions
    /\ forsaken \subseteq Repos \X Sessions

\* Some other session of the name has been created: the two share worktree and branch.
Shares(s) == Alike(s) \cap begun # {}

\* What an agent committed in an included repository stays on its branch, and so does
\* what an earlier task left there, whatever sessions of the name are parked, resumed,
\* changed, killed or created beside it, until one of them is deleted or the create of
\* one rolled back, which asks for the branch in any case.
IncludedWorkKept ==
    \A s \in begun, r \in Repos :
        <<r, Name(s)>> \notin forsaken =>
            /\ <<s, r>> \in committed => s \in branch[r][Name(s)].commits
            /\ r \in Case.prior => "user" \in branch[r][Name(s)].commits

\* An agent that runs has a worktree in each repository included as one, so that it
\* never works in the repository's own checkout.  But restore goes no further than a
\* worktree that is there: after a kill or an error it misses the others for good.
Isolated ==
    \A s \in Sessions :
        life[s] = "running" /\ job[s].at = "idle" /\ ~Bare(s) /\ s \notin broken /\ ~Shares(s) =>
            \A r \in Branched(include[s]) : Isolates(s, r)
=============================================================================
