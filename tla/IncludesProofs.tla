--------------------------- MODULE IncludesProofs ---------------------------
(***************************************************************************)
(* Includes for any number of sessions, repositories, entries and kills.   *)
(*                                                                         *)
(* A step of a command touches the part of its own session, and the        *)
(* worktrees and branches of that session's name (Local).  KeptInv says    *)
(* what a branch holds: it outlives its worktree, and loses commits only   *)
(* when a delete or a rollback has asked for it.  Prepared says, for a     *)
(* session alone under its name and without a failed command, which        *)
(* worktrees are there at each stage of a command.  Only a session that    *)
(* was begun takes steps (Unbegun), so whoever touches the name has to be  *)
(* one of those that Lone excludes.                                        *)
(***************************************************************************)
EXTENDS Includes, TLAPS

Jobs == [at : {"idle", "add", "editor", "flags", "save", "remove", "unbranch", "ended"},
         kind : {"", "create", "first", "extra", "rollback", "resume", "flag", "park", "delete"},
         modes : [Repos -> Modes], todo : SUBSET Repos, undo : SUBSET Repos]
Trees == [there : BOOLEAN, dirty : SUBSET Sessions]
Branches == [there : BOOLEAN, commits : SUBSET (Sessions \cup {"user"})]

LEMMA CaseFacts ==
    ASSUME case \in DOMAIN Cases
    PROVE  /\ Case \in CaseType
           /\ \A s \in Sessions : Name(s) \in Sessions
           /\ Case.plans \subseteq [Repos -> Modes] /\ Case.later \subseteq Repos \X Modes
           /\ Case.prior \subseteq Repos /\ Case.kills \in Nat
BY IncludesAssumption DEF Case, CaseType, Name

LEMMA TreeRecord ==
    ASSUME NEW t \in Trees, NEW d
    PROVE  [t EXCEPT !.dirty = d] = [there |-> t.there, dirty |-> d]
BY DEF Trees

\* A worktree that is there, with other changes in it.
LEMMA Dirtied ==
    ASSUME NEW t \in Trees, t.there, NEW d \in SUBSET Sessions
    PROVE  /\ [t EXCEPT !.dirty = d] = [there |-> TRUE, dirty |-> d]
           /\ [there |-> TRUE, dirty |-> d] \in Trees
<1>1. t.there = TRUE
  BY DEF Trees
<1>2. [t EXCEPT !.dirty = d] = [there |-> t.there, dirty |-> d]
  BY TreeRecord
<1> QED BY <1>1, <1>2 DEF Trees

LEMMA NoFacts ==
    /\ NoTree \in Trees /\ NoTree.there = FALSE /\ NoTree.dirty = {}
    /\ NoBranch \in Branches /\ NoBranch.there = FALSE /\ NoBranch.commits = {}
    /\ NoJob \in Jobs /\ NoJob.at = "idle" /\ NoJob.kind = "" /\ NoJob.todo = {}
    /\ NoJob.modes \in [Repos -> Modes]
BY DEF NoTree, NoBranch, NoJob, Trees, Branches, Jobs, Modes

\* What a step does to the job of its session.
Did(s, at, kind, modes, todo) ==
    /\ job' \in [Sessions -> Jobs]
    /\ job'[s].at = at /\ job'[s].kind = kind /\ job'[s].modes = modes /\ job'[s].todo = todo
    /\ \A t \in Sessions : t # s => job'[t] = job[t]

LEMMA WorkDid ==
    ASSUME NEW s \in Sessions, job \in [Sessions -> Jobs], NEW j \in Jobs, Work(s, j)
    PROVE  Did(s, j.at, j.kind, j.modes, j.todo)
BY DEF Work, Did

\* The variables that carry no records.
Plain == /\ case \in DOMAIN Cases
         /\ life \in [Sessions -> {"none", "ready", "running", "parked", "deleted"}]
         /\ main \in [Sessions -> BOOLEAN]
         /\ include \in [Sessions -> [Repos -> Modes]]
         /\ halts \in 0 .. Case.kills
         /\ begun \subseteq Sessions /\ committed \subseteq Sessions \X Repos
         /\ broken \subseteq Sessions /\ forsaken \subseteq Repos \X Sessions

LEMMA Parts ==
    IncludesTypeOK <=> /\ Plain /\ job \in [Sessions -> Jobs]
                       /\ tree \in [Repos -> [Sessions -> Trees]]
                       /\ branch \in [Repos -> [Sessions -> Branches]]
BY DEF IncludesTypeOK, Plain, Jobs, Trees, Branches

LEMMA TypeInit == IncludesInit => IncludesTypeOK
<1> SUFFICES ASSUME IncludesInit PROVE IncludesTypeOK
  OBVIOUS
<1>1. case \in DOMAIN Cases /\ Case.kills \in Nat
  BY CaseFacts DEF IncludesInit
<1>2. tree \in [Repos -> [Sessions -> Trees]] /\ branch \in [Repos -> [Sessions -> Branches]]
  <2>1. [there |-> TRUE, commits |-> {"user"}] \in Branches
    BY DEF Branches
  <2> QED BY <2>1, NoFacts DEF IncludesInit
<1>3. job \in [Sessions -> Jobs] /\ include \in [Sessions -> [Repos -> Modes]]
  BY NoFacts DEF IncludesInit
<1> HIDE DEF Case
<1>4. Plain
  BY <1>1, <1>3 DEF IncludesInit, Plain
<1> QED BY <1>2, <1>3, <1>4, Parts

LEMMA JobFacts ==
    ASSUME IncludesTypeOK, NEW s \in Sessions
    PROVE  /\ job \in [Sessions -> Jobs] /\ job[s] \in Jobs
           /\ job[s].todo \subseteq Repos /\ job[s].undo \subseteq Repos /\ job[s].modes \in [Repos -> Modes]
           /\ include[s] \in [Repos -> Modes] /\ case \in DOMAIN Cases
           /\ \A modes : Branched(modes) \in SUBSET Repos
BY Parts DEF Plain, Branched, Jobs

LEMMA CreateDid ==
    ASSUME IncludesTypeOK, NEW s \in Sessions, CreateTask(s)
    PROVE  \E modes \in [Repos -> Modes] : Did(s, "add", "create", modes, Branched(modes))
<1>1. PICK modes \in Case.plans :
         Work(s, [NoJob EXCEPT !.at = "add", !.kind = "create", !.modes = modes,
                   !.todo = Branched(modes)])
  BY DEF CreateTask
<1>2. modes \in [Repos -> Modes] /\ Branched(modes) \in SUBSET Repos
  BY CaseFacts, JobFacts
<1> DEFINE j == [NoJob EXCEPT !.at = "add", !.kind = "create", !.modes = modes, !.todo = Branched(modes)]
<1>3. j \in Jobs /\ j.at = "add" /\ j.kind = "create" /\ j.modes = modes /\ j.todo = Branched(modes)
  BY <1>2, NoFacts DEF Jobs
<1> HIDE DEF j
<1>4. Did(s, j.at, j.kind, j.modes, j.todo)
  BY <1>1, <1>3, JobFacts, WorkDid DEF j
<1> QED BY <1>2, <1>3, <1>4

LEMMA MoreDid ==
    ASSUME IncludesTypeOK, NEW s \in Sessions, MoreEntries(s)
    PROVE  \/ Did(s, "editor", job[s].kind, job[s].modes, job[s].todo)
           \/ \E r \in Repos, m \in Modes : \E todo \in {{r}, {}} :
                 /\ m = "worktree" => todo = {r}
                 /\ job[s].modes[r] = "none"
                 /\ Did(s, "add", "extra", [job[s].modes EXCEPT ![r] = m], todo)
<1>1. job[s] \in Jobs /\ job \in [Sessions -> Jobs] /\ Branched(job[s].modes) \in SUBSET Repos
      /\ job[s].modes \in [Repos -> Modes]
  BY JobFacts
<1>2. CASE Work(s, [job[s] EXCEPT !.at = "editor", !.undo = Branched(job[s].modes)])
  <2> DEFINE j == [job[s] EXCEPT !.at = "editor", !.undo = Branched(job[s].modes)]
  <2>1. /\ j \in Jobs /\ j.at = "editor" /\ j.kind = job[s].kind /\ j.modes = job[s].modes
        /\ j.todo = job[s].todo
    BY <1>1 DEF Jobs
  <2> HIDE DEF j
  <2>2. Did(s, j.at, j.kind, j.modes, j.todo)
    BY <1>1, <1>2, <2>1, WorkDid DEF j
  <2> QED BY <2>1, <2>2
<1>3. ASSUME NEW e \in Case.later, job[s].modes[e[1]] = "none", job[s].at = "add",
             Work(s, [job[s] EXCEPT !.kind = "extra", !.modes[e[1]] = e[2],
                           !.todo = IF e[2] = "worktree" THEN {e[1]} ELSE {},
                           !.undo = Branched(job[s].modes)])
      PROVE  \E r \in Repos, m \in Modes : \E todo \in {{r}, {}} :
                 /\ m = "worktree" => todo = {r}
                 /\ job[s].modes[r] = "none"
                 /\ Did(s, "add", "extra", [job[s].modes EXCEPT ![r] = m], todo)
  <2>1. e[1] \in Repos /\ e[2] \in Modes
    BY CaseFacts, JobFacts
  <2> DEFINE r == e[1]
             m == e[2]
             todo == IF m = "worktree" THEN {r} ELSE {}
             modes == [job[s].modes EXCEPT ![r] = m]
             j == [job[s] EXCEPT !.kind = "extra", !.modes[e[1]] = e[2],
                           !.todo = IF e[2] = "worktree" THEN {e[1]} ELSE {},
                           !.undo = Branched(job[s].modes)]
  <2>2. todo \in SUBSET Repos /\ modes \in [Repos -> Modes] /\ todo \in {{r}, {}}
    BY <1>1, <2>1
  <2>3. j = [job[s] EXCEPT !.kind = "extra", !.modes = modes, !.todo = todo,
                           !.undo = Branched(job[s].modes)]
    BY <1>1 DEF Jobs
  <2> HIDE DEF modes, todo, r, m
  <2>4. j \in Jobs /\ j.at = "add" /\ j.kind = "extra" /\ j.modes = modes /\ j.todo = todo
    BY <1>1, <1>3, <2>2, <2>3 DEF Jobs
  <2> HIDE DEF j
  <2>5. Did(s, j.at, j.kind, j.modes, j.todo)
    BY <1>1, <1>3, <2>4, WorkDid DEF j
  <2>6. r \in Repos /\ m \in Modes /\ (m = "worktree" => todo = {r}) /\ job[s].modes[r] = "none"
        /\ modes = [job[s].modes EXCEPT ![r] = m]
    BY <2>1, <1>3 DEF modes, todo, r, m
  <2>7. Did(s, "add", "extra", [job[s].modes EXCEPT ![r] = m], todo)
    BY <2>4, <2>5, <2>6
  <2> QED BY <2>2, <2>6, <2>7
<1> QED BY <1>2, <1>3 DEF MoreEntries

LEMMA FlagDid ==
    ASSUME IncludesTypeOK, NEW s \in Sessions, Flag(s)
    PROVE  \E r \in Repos, m \in Modes :
              LET modes == [job[s].modes EXCEPT ![r] = m]
              IN  \/ m = "worktree" /\ Did(s, "add", "flag", modes, {r})
                  \/ m # "worktree" /\ Did(s, "remove", "flag", modes, {r})
                  \/ /\ m = "worktree" => job[s].modes[r] = "worktree"
                     /\ Did(s, "save", "flag", modes, {})
<1>1. job[s] \in Jobs /\ job \in [Sessions -> Jobs] /\ job[s].modes \in [Repos -> Modes]
  BY JobFacts
<1> DEFINE Stage(old, new) == CASE old # "worktree" /\ new = "worktree" -> "add"
                                [] old = "worktree" /\ new # "worktree" -> "remove"
                                [] OTHER -> "save"
<1>2. PICK e \in Case.later :
         Work(s, [job[s] EXCEPT !.kind = "flag", !.modes[e[1]] = e[2],
                         !.at = Stage(job[s].modes[e[1]], e[2]),
                         !.todo = IF Stage(job[s].modes[e[1]], e[2]) = "save" THEN {} ELSE {e[1]}])
  BY DEF Flag
<1>3. e[1] \in Repos /\ e[2] \in Modes
  BY CaseFacts, JobFacts
<1> DEFINE r == e[1]
           m == e[2]
           stage == Stage(job[s].modes[r], m)
           todo == IF stage = "save" THEN {} ELSE {r}
           modes == [job[s].modes EXCEPT ![r] = m]
           j == [job[s] EXCEPT !.kind = "flag", !.modes[e[1]] = e[2],
                         !.at = Stage(job[s].modes[e[1]], e[2]),
                         !.todo = IF Stage(job[s].modes[e[1]], e[2]) = "save" THEN {} ELSE {e[1]}]
<1>4. /\ r \in Repos /\ m \in Modes /\ todo \in SUBSET Repos /\ modes \in [Repos -> Modes]
      /\ modes = [job[s].modes EXCEPT ![r] = m]
      /\ \/ stage = "add" /\ m = "worktree" /\ todo = {r}
         \/ stage = "remove" /\ m # "worktree" /\ todo = {r}
         \/ stage = "save" /\ (m = "worktree" => job[s].modes[r] = "worktree") /\ todo = {}
  BY <1>1, <1>3
<1>5. j = [job[s] EXCEPT !.kind = "flag", !.modes = modes, !.at = stage, !.todo = todo]
  BY <1>1 DEF Jobs
<1> HIDE DEF modes, todo, stage, r, m, Stage
<1>6. j \in Jobs /\ j.at = stage /\ j.kind = "flag" /\ j.modes = modes /\ j.todo = todo
  BY <1>1, <1>4, <1>5 DEF Jobs
<1> HIDE DEF j
<1>7. Did(s, j.at, j.kind, j.modes, j.todo)
  BY <1>1, <1>2, <1>6, WorkDid DEF j
<1>8. Did(s, stage, "flag", modes, todo)
  BY <1>6, <1>7
<1> QED BY <1>4, <1>8

\* The steps of s whose new job is one record, or one that only loses an element.
LEMMA SimpleDid ==
    ASSUME IncludesTypeOK, NEW s \in Sessions
    PROVE  /\ AddFails(s) \/ Launched(s) \/ AgentLeaves(s) \/ Ended1(s) \/ KillCommand(s) =>
                 Did(s, "idle", "", NoJob.modes, {})
           /\ CreateDone(s) => Did(s, "idle", "first", NoJob.modes, {})
           /\ Rollback(s) => Did(s, "remove", "rollback", job[s].modes, job[s].undo)
           /\ Restored(s) => Did(s, "flags", job[s].kind, job[s].modes, job[s].todo)
           /\ \A r \in Repos : Work(s, [job[s] EXCEPT !.todo = @ \ {r}]) =>
                 Did(s, job[s].at, job[s].kind, job[s].modes, job[s].todo \ {r})
<1>1. /\ job[s] \in Jobs /\ job \in [Sessions -> Jobs] /\ job[s].todo \in SUBSET Repos
      /\ job[s].undo \in SUBSET Repos
  BY JobFacts
<1>2. AddFails(s) \/ Launched(s) \/ AgentLeaves(s) \/ Ended1(s) \/ KillCommand(s) =>
         Did(s, "idle", "", NoJob.modes, {})
  <2>1. Work(s, NoJob) => Did(s, NoJob.at, NoJob.kind, NoJob.modes, NoJob.todo)
    BY <1>1, NoFacts, WorkDid
  <2>2. Work(s, NoJob) => Did(s, "idle", "", NoJob.modes, {})
    BY <2>1, NoFacts
  <2> QED BY <2>2 DEF AddFails, Launched, AgentLeaves, Ended1, KillCommand
<1>3. CreateDone(s) => Did(s, "idle", "first", NoJob.modes, {})
  <2> DEFINE j == [NoJob EXCEPT !.kind = "first"]
  <2>1. /\ j \in Jobs /\ j.at = "idle" /\ j.kind = "first" /\ j.modes = NoJob.modes /\ j.todo = {}
    BY NoFacts DEF Jobs
  <2> HIDE DEF j
  <2>2. Work(s, j) => Did(s, j.at, j.kind, j.modes, j.todo)
    BY <1>1, <2>1, WorkDid
  <2>3. Work(s, j) => Did(s, "idle", "first", NoJob.modes, {})
    BY <2>1, <2>2
  <2> QED BY <2>3 DEF CreateDone, j
<1>4. Rollback(s) => Did(s, "remove", "rollback", job[s].modes, job[s].undo)
  <2> DEFINE j == [job[s] EXCEPT !.at = "remove", !.kind = "rollback", !.todo = job[s].undo]
  <2>1. /\ j \in Jobs /\ j.at = "remove" /\ j.kind = "rollback" /\ j.modes = job[s].modes
        /\ j.todo = job[s].undo
    BY <1>1 DEF Jobs
  <2> HIDE DEF j
  <2>2. Work(s, j) => Did(s, j.at, j.kind, j.modes, j.todo)
    BY <1>1, <2>1, WorkDid
  <2>3. Work(s, j) => Did(s, "remove", "rollback", job[s].modes, job[s].undo)
    BY <2>1, <2>2
  <2> QED BY <2>3 DEF Rollback, j
<1>5. Restored(s) => Did(s, "flags", job[s].kind, job[s].modes, job[s].todo)
  <2> DEFINE j == At(s, "flags")
  <2>1. /\ j \in Jobs /\ j.at = "flags" /\ j.kind = job[s].kind /\ j.modes = job[s].modes
        /\ j.todo = job[s].todo
    BY <1>1 DEF Jobs, At
  <2> HIDE DEF j
  <2>2. Work(s, j) => Did(s, j.at, j.kind, j.modes, j.todo)
    BY <1>1, <2>1, WorkDid
  <2>3. Work(s, j) => Did(s, "flags", job[s].kind, job[s].modes, job[s].todo)
    BY <2>1, <2>2
  <2> QED BY <2>3 DEF Restored, j
<1>6. ASSUME NEW r \in Repos, Work(s, [job[s] EXCEPT !.todo = @ \ {r}])
      PROVE  Did(s, job[s].at, job[s].kind, job[s].modes, job[s].todo \ {r})
  <2> DEFINE j == [job[s] EXCEPT !.todo = @ \ {r}]
  <2>1. /\ j \in Jobs /\ j.at = job[s].at /\ j.kind = job[s].kind /\ j.modes = job[s].modes
        /\ j.todo = job[s].todo \ {r}
    BY <1>1 DEF Jobs
  <2> HIDE DEF j
  <2>2. Did(s, j.at, j.kind, j.modes, j.todo)
    BY <1>1, <1>6, <2>1, WorkDid DEF j
  <2> QED BY <2>1, <2>2
<1> QED BY <1>2, <1>3, <1>4, <1>5, <1>6

\* The steps that begin on the trees of a session, to keep or to remove them.
LEMMA TurnsDid ==
    ASSUME IncludesTypeOK, NEW s \in Sessions
    PROVE  /\ TreesRemoved(s) =>
                 \/ job[s].kind = "park" /\ Did(s, "ended", "park", job[s].modes, {})
                 \/ /\ job[s].kind \in {"delete", "rollback"}
                    /\ Did(s, "unbranch", job[s].kind, job[s].modes, job[s].undo)
           /\ ResumeTask(s) =>
                 \/ (main[s] \/ Bare(s)) /\ Did(s, "flags", "resume", include[s], {})
                 \/ ~main[s] /\ ~Bare(s) /\ Did(s, "add", "resume", include[s], Branched(include[s]))
           /\ FirstLaunchInterrupted(s) =>
                 Did(s, "remove", "rollback", NoJob.modes, Branched(include[s]))
           /\ \A k \in {"park", "delete"} : End(s, k) =>
                 \/ Bare(s) /\ Did(s, "ended", k, NoJob.modes, {})
                 \/ ~Bare(s) /\ Did(s, "remove", k, NoJob.modes, Branched(include[s]))
<1>1. /\ job[s] \in Jobs /\ job \in [Sessions -> Jobs] /\ job[s].undo \in SUBSET Repos
      /\ include[s] \in [Repos -> Modes] /\ Branched(include[s]) \in SUBSET Repos
  BY JobFacts
<1>2. ASSUME TreesRemoved(s)
      PROVE  \/ job[s].kind = "park" /\ Did(s, "ended", "park", job[s].modes, {})
             \/ /\ job[s].kind \in {"delete", "rollback"}
                /\ Did(s, "unbranch", job[s].kind, job[s].modes, job[s].undo)
  <2> DEFINE a == IF job[s].kind = "park" THEN "ended" ELSE "unbranch"
             d == IF job[s].kind = "park" THEN {} ELSE job[s].undo
             j == [job[s] EXCEPT !.at = a, !.todo = d]
  <2>1. /\ j \in Jobs /\ j.at = a /\ j.kind = job[s].kind /\ j.modes = job[s].modes /\ j.todo = d
    BY <1>1 DEF Jobs
  <2>2. Work(s, j) /\ job[s].kind \in {"park", "delete", "rollback"}
    BY <1>2 DEF TreesRemoved
  <2>3. \/ a = "ended" /\ d = {} /\ job[s].kind = "park"
        \/ a = "unbranch" /\ d = job[s].undo /\ job[s].kind \in {"delete", "rollback"}
    BY <2>2
  <2> HIDE DEF a, d, j
  <2>4. Did(s, j.at, j.kind, j.modes, j.todo)
    BY <1>1, <2>1, <2>2, WorkDid
  <2> QED BY <2>1, <2>3, <2>4
<1>3. ASSUME ResumeTask(s)
      PROVE  \/ (main[s] \/ Bare(s)) /\ Did(s, "flags", "resume", include[s], {})
             \/ ~main[s] /\ ~Bare(s) /\ Did(s, "add", "resume", include[s], Branched(include[s]))
  <2> DEFINE a == IF main[s] \/ Bare(s) THEN "flags" ELSE "add"
             d == IF main[s] \/ Bare(s) THEN {} ELSE Branched(include[s])
             j == [NoJob EXCEPT !.kind = "resume", !.modes = include[s], !.at = a, !.todo = d]
  <2>1. /\ j \in Jobs /\ j.at = a /\ j.kind = "resume" /\ j.modes = include[s] /\ j.todo = d
    BY <1>1, NoFacts DEF Jobs
  <2>2. Work(s, j)
    BY <1>3 DEF ResumeTask
  <2>3. \/ a = "flags" /\ d = {} /\ (main[s] \/ Bare(s))
        \/ a = "add" /\ d = Branched(include[s]) /\ ~main[s] /\ ~Bare(s)
    OBVIOUS
  <2> HIDE DEF a, d, j
  <2>4. Did(s, j.at, j.kind, j.modes, j.todo)
    BY <1>1, <2>1, <2>2, WorkDid
  <2> QED BY <2>1, <2>3, <2>4
<1>4. ASSUME FirstLaunchInterrupted(s)
      PROVE  Did(s, "remove", "rollback", NoJob.modes, Branched(include[s]))
  <2> DEFINE j == [NoJob EXCEPT !.at = "remove", !.kind = "rollback", !.todo = Branched(include[s]),
                                !.undo = Branched(include[s])]
  <2>1. /\ j \in Jobs /\ j.at = "remove" /\ j.kind = "rollback" /\ j.modes = NoJob.modes
        /\ j.todo = Branched(include[s])
    BY <1>1, NoFacts DEF Jobs
  <2>2. Work(s, j)
    BY <1>4 DEF FirstLaunchInterrupted
  <2> HIDE DEF j
  <2>3. Did(s, j.at, j.kind, j.modes, j.todo)
    BY <1>1, <2>1, <2>2, WorkDid
  <2> QED BY <2>1, <2>3
<1>5. ASSUME NEW k \in {"park", "delete"}, End(s, k)
      PROVE  \/ Bare(s) /\ Did(s, "ended", k, NoJob.modes, {})
             \/ ~Bare(s) /\ Did(s, "remove", k, NoJob.modes, Branched(include[s]))
  <2> DEFINE a == IF Bare(s) THEN "ended" ELSE "remove"
             d == IF Bare(s) THEN {} ELSE Branched(include[s])
             j == [NoJob EXCEPT !.kind = k, !.at = a, !.todo = d, !.undo = Branched(include[s])]
  <2>1. /\ j \in Jobs /\ j.at = a /\ j.kind = k /\ j.modes = NoJob.modes /\ j.todo = d
    BY <1>1, NoFacts DEF Jobs
  <2>2. Work(s, j)
    BY <1>5 DEF End
  <2>3. \/ a = "ended" /\ d = {} /\ Bare(s)
        \/ a = "remove" /\ d = Branched(include[s]) /\ ~Bare(s)
    OBVIOUS
  <2> HIDE DEF a, d, j
  <2>4. Did(s, j.at, j.kind, j.modes, j.todo)
    BY <1>1, <2>1, <2>2, WorkDid
  <2> QED BY <2>1, <2>3, <2>4
<1> QED BY <1>2, <1>3, <1>4, <1>5
-----------------------------------------------------------------------------
StepOf(s) ==
    \/ CreateTask(s) \/ AddTree(s) \/ AddFails(s) \/ MoreEntries(s) \/ Rollback(s)
    \/ CreateDone(s) \/ ResumeTask(s) \/ Restored(s) \/ Flag(s) \/ Launched(s)
    \/ AgentEdits(s) \/ AgentCommits(s) \/ AgentLeaves(s) \/ FirstLaunchInterrupted(s)
    \/ End(s, "park") \/ End(s, "delete")
    \/ RemoveTree(s) \/ TreesRemoved(s) \/ DeleteIncluded(s) \/ Ended1(s) \/ KillCommand(s)

\* What a step does to a worktree and its branch in repository r.
TreeAt(r, s, t) == /\ t \in Trees /\ r \in Repos
                   /\ tree' = [tree EXCEPT ![r] = [tree[r] EXCEPT ![Name(s)] = t]]
BranchAt(r, s, b) == /\ b \in Branches /\ r \in Repos
                     /\ branch' = [branch EXCEPT ![r] = [branch[r] EXCEPT ![Name(s)] = b]]

\* The steps on trees and branches, with the record each leaves.
LEMMA TreeSteps ==
    ASSUME IncludesTypeOK, NEW s \in Sessions
    PROVE  /\ AddTree(s) => \E r \in job[s].todo :
                 LET b == branch[r][Name(s)]
                     t == tree[r][Name(s)]
                 IN  /\ \/ b.there /\ UNCHANGED branch
                        \/ ~b.there /\ BranchAt(r, s, [there |-> TRUE, commits |-> {}])
                     /\ \/ b.there /\ t.there /\ UNCHANGED tree
                        \/ ~(b.there /\ t.there) /\ TreeAt(r, s, [there |-> TRUE, dirty |-> {}])
                     /\ Did(s, "add", job[s].kind, job[s].modes, job[s].todo \ {r})
           /\ RemoveTree(s) => \E r \in job[s].todo :
                 TreeAt(r, s, NoTree) /\ Did(s, "remove", job[s].kind, job[s].modes, job[s].todo \ {r})
           /\ DeleteIncluded(s) => \E r \in job[s].todo :
                 /\ \/ tree[r][Name(s)].there /\ UNCHANGED branch
                    \/ ~tree[r][Name(s)].there /\ BranchAt(r, s, NoBranch)
                 /\ forsaken' = forsaken \cup {<<r, Name(s)>>}
                 /\ Did(s, "unbranch", job[s].kind, job[s].modes, job[s].todo \ {r})
           /\ AgentEdits(s) => \E r \in Repos :
                 LET t == tree[r][Name(s)]
                 IN  t.there /\ TreeAt(r, s, [there |-> TRUE, dirty |-> t.dirty \cup {s}])
           /\ AgentCommits(s) => \E r \in Repos :
                 LET t == tree[r][Name(s)]
                     b == branch[r][Name(s)]
                 IN  /\ t.there /\ TreeAt(r, s, [there |-> TRUE, dirty |-> {}])
                     /\ BranchAt(r, s, [there |-> b.there, commits |-> b.commits \cup t.dirty])
                     /\ committed' = committed \cup (t.dirty \X {r})
<1>1. /\ tree \in [Repos -> [Sessions -> Trees]] /\ branch \in [Repos -> [Sessions -> Branches]]
      /\ Name(s) \in Sessions /\ job[s].todo \subseteq Repos
  BY Parts, CaseFacts, JobFacts
<1> HIDE DEF Name
<1>a. ASSUME NEW r \in Repos
      PROVE  /\ tree[r][Name(s)] \in Trees /\ branch[r][Name(s)] \in Branches
             /\ \A t : [tree EXCEPT ![r][Name(s)] = t] = [tree EXCEPT ![r] = [tree[r] EXCEPT ![Name(s)] = t]]
             /\ \A b : [branch EXCEPT ![r][Name(s)] = b]
                          = [branch EXCEPT ![r] = [branch[r] EXCEPT ![Name(s)] = b]]
  BY <1>1
<1>b. /\ [there |-> TRUE, dirty |-> {}] \in Trees /\ [there |-> TRUE, commits |-> {}] \in Branches
  BY DEF Trees, Branches
<1>2. ASSUME AddTree(s)
      PROVE  \E r \in job[s].todo :
                 LET b == branch[r][Name(s)]
                     t == tree[r][Name(s)]
                 IN  /\ \/ b.there /\ UNCHANGED branch
                        \/ ~b.there /\ BranchAt(r, s, [there |-> TRUE, commits |-> {}])
                     /\ \/ b.there /\ t.there /\ UNCHANGED tree
                        \/ ~(b.there /\ t.there) /\ TreeAt(r, s, [there |-> TRUE, dirty |-> {}])
                     /\ Did(s, "add", job[s].kind, job[s].modes, job[s].todo \ {r})
  <2>1. PICK r \in job[s].todo :
          /\ branch' = IF branch[r][Name(s)].there THEN branch
                       ELSE [branch EXCEPT ![r][Name(s)] = [there |-> TRUE, commits |-> {}]]
          /\ tree' = IF branch[r][Name(s)].there /\ tree[r][Name(s)].there THEN tree
                     ELSE [tree EXCEPT ![r][Name(s)] = [there |-> TRUE, dirty |-> {}]]
          /\ Work(s, [job[s] EXCEPT !.todo = @ \ {r}])
    BY <1>2 DEF AddTree
  <2>2. job[s].at = "add" /\ r \in Repos
    BY <1>1, <1>2 DEF AddTree
  <2>3. Did(s, "add", job[s].kind, job[s].modes, job[s].todo \ {r})
    BY <2>1, <2>2, SimpleDid
  <2>4. \/ branch[r][Name(s)].there /\ UNCHANGED branch
        \/ ~branch[r][Name(s)].there /\ BranchAt(r, s, [there |-> TRUE, commits |-> {}])
    BY <2>1, <2>2, <1>a, <1>b DEF BranchAt
  <2>5. \/ branch[r][Name(s)].there /\ tree[r][Name(s)].there /\ UNCHANGED tree
        \/ /\ ~(branch[r][Name(s)].there /\ tree[r][Name(s)].there)
           /\ TreeAt(r, s, [there |-> TRUE, dirty |-> {}])
    BY <2>1, <2>2, <1>a, <1>b DEF TreeAt
  <2> QED BY <2>3, <2>4, <2>5
<1>3. ASSUME RemoveTree(s)
      PROVE  \E r \in job[s].todo :
                 TreeAt(r, s, NoTree) /\ Did(s, "remove", job[s].kind, job[s].modes, job[s].todo \ {r})
  <2>1. PICK r \in job[s].todo : /\ tree' = [tree EXCEPT ![r][Name(s)] = NoTree]
                                 /\ Work(s, [job[s] EXCEPT !.todo = @ \ {r}])
    BY <1>3 DEF RemoveTree
  <2>2. job[s].at = "remove" /\ r \in Repos
    BY <1>1, <1>3 DEF RemoveTree
  <2>3. Did(s, "remove", job[s].kind, job[s].modes, job[s].todo \ {r})
    BY <2>1, <2>2, SimpleDid
  <2>4. TreeAt(r, s, NoTree)
    BY <2>1, <2>2, <1>a, NoFacts DEF TreeAt
  <2> QED BY <2>3, <2>4
<1>4. ASSUME DeleteIncluded(s)
      PROVE  \E r \in job[s].todo :
                 /\ \/ tree[r][Name(s)].there /\ UNCHANGED branch
                    \/ ~tree[r][Name(s)].there /\ BranchAt(r, s, NoBranch)
                 /\ forsaken' = forsaken \cup {<<r, Name(s)>>}
                 /\ Did(s, "unbranch", job[s].kind, job[s].modes, job[s].todo \ {r})
  <2>1. PICK r \in job[s].todo :
           /\ branch' = IF tree[r][Name(s)].there THEN branch ELSE [branch EXCEPT ![r][Name(s)] = NoBranch]
           /\ forsaken' = forsaken \cup {<<r, Name(s)>>}
           /\ Work(s, [job[s] EXCEPT !.todo = @ \ {r}])
    BY <1>4 DEF DeleteIncluded
  <2>2. job[s].at = "unbranch" /\ r \in Repos
    BY <1>1, <1>4 DEF DeleteIncluded
  <2>3. Did(s, "unbranch", job[s].kind, job[s].modes, job[s].todo \ {r})
    BY <2>1, <2>2, SimpleDid
  <2>4. \/ tree[r][Name(s)].there /\ UNCHANGED branch
        \/ ~tree[r][Name(s)].there /\ BranchAt(r, s, NoBranch)
    BY <2>1, <2>2, <1>a, NoFacts DEF BranchAt
  <2> QED BY <2>1, <2>3, <2>4
<1>5. ASSUME AgentEdits(s)
      PROVE  \E r \in Repos :
                 LET t == tree[r][Name(s)]
                 IN  t.there /\ TreeAt(r, s, [there |-> TRUE, dirty |-> t.dirty \cup {s}])
  <2>1. PICK r \in Repos : /\ tree[r][Name(s)].there
                           /\ tree' = [tree EXCEPT ![r][Name(s)].dirty = @ \cup {s}]
    BY <1>5, <1>1 DEF AgentEdits, Isolates, Branched
  <2> DEFINE t == tree[r][Name(s)]
  <2>2. /\ t \in Trees /\ t.there
        /\ [t EXCEPT !.dirty = @ \cup {s}] = [there |-> TRUE, dirty |-> t.dirty \cup {s}]
        /\ [there |-> TRUE, dirty |-> t.dirty \cup {s}] \in Trees
    <3>1. t \in Trees /\ t.there
      BY <2>1, <1>a
    <3>2. t.dirty \cup {s} \in SUBSET Sessions
      BY <3>1 DEF Trees
    <3> HIDE DEF t
    <3> QED BY <3>1, <3>2, Dirtied
  <2>3. tree' = [tree EXCEPT ![r] = [tree[r] EXCEPT ![Name(s)] = [t EXCEPT !.dirty = @ \cup {s}]]]
    BY <2>1, <1>1
  <2> QED BY <2>2, <2>3 DEF TreeAt
<1>6. ASSUME AgentCommits(s)
      PROVE  \E r \in Repos :
                 LET t == tree[r][Name(s)]
                     b == branch[r][Name(s)]
                 IN  /\ t.there /\ TreeAt(r, s, [there |-> TRUE, dirty |-> {}])
                     /\ BranchAt(r, s, [there |-> b.there, commits |-> b.commits \cup t.dirty])
                     /\ committed' = committed \cup (t.dirty \X {r})
  <2>1. PICK r \in Repos :
           /\ tree[r][Name(s)].there
           /\ tree' = [tree EXCEPT ![r][Name(s)].dirty = {}]
           /\ branch' = [branch EXCEPT ![r][Name(s)].commits = @ \cup tree[r][Name(s)].dirty]
           /\ committed' = committed \cup (tree[r][Name(s)].dirty \X {r})
    BY <1>6, <1>1 DEF AgentCommits, Isolates, Branched
  <2> DEFINE t == tree[r][Name(s)]
             b == branch[r][Name(s)]
  <2>2. /\ t \in Trees /\ t.there /\ [t EXCEPT !.dirty = {}] = [there |-> TRUE, dirty |-> {}]
        /\ b \in Branches /\ t.dirty \subseteq Sessions
    <3>1. t \in Trees /\ t.there /\ b \in Branches
      BY <2>1, <1>a
    <3> HIDE DEF t, b
    <3>2. t.dirty \in SUBSET Sessions
      BY <3>1 DEF Trees
    <3> QED BY <3>1, <3>2, Dirtied
  <2>3. /\ [b EXCEPT !.commits = @ \cup t.dirty] = [there |-> b.there, commits |-> b.commits \cup t.dirty]
        /\ [there |-> b.there, commits |-> b.commits \cup t.dirty] \in Branches
    BY <2>2 DEF Branches
  <2>4. tree' = [tree EXCEPT ![r] = [tree[r] EXCEPT ![Name(s)] = [t EXCEPT !.dirty = {}]]]
    BY <2>1, <1>1
  <2>5. branch' = [branch EXCEPT ![r] = [branch[r] EXCEPT ![Name(s)] = [b EXCEPT !.commits = @ \cup t.dirty]]]
    BY <2>1, <1>1
  <2> QED BY <2>1, <2>2, <2>3, <2>4, <2>5, <1>b DEF TreeAt, BranchAt
<1> QED BY <1>2, <1>3, <1>4, <1>5, <1>6

\* A session that no create was begun for is in no command.
Unbegun == \A s \in Sessions \ begun : life[s] = "none" /\ job[s].at = "idle"

\* What a step of s may touch: its own part, and the worktrees and branches of its name.
LEMMA Local ==
    ASSUME IncludesTypeOK, Unbegun, NEW s \in Sessions, StepOf(s)
    PROVE  /\ case' = case /\ Case' = Case /\ s \in begun'
           /\ begun \subseteq begun' /\ broken \subseteq broken' /\ forsaken \subseteq forsaken'
           /\ \A t \in Sessions : t # s => life'[t] = life[t] /\ main'[t] = main[t]
                                           /\ include'[t] = include[t] /\ job'[t] = job[t]
           /\ \A r \in Repos, n \in Sessions : n # Name(s) =>
                 tree'[r][n] = tree[r][n] /\ branch'[r][n] = branch[r][n]
           /\ Plain' /\ job' \in [Sessions -> Jobs]
           /\ tree' \in [Repos -> [Sessions -> Trees]] /\ branch' \in [Repos -> [Sessions -> Branches]]
<1> USE DEF StepOf
<1>1. /\ Plain /\ job \in [Sessions -> Jobs] /\ job[s].modes \in [Repos -> Modes]
      /\ tree \in [Repos -> [Sessions -> Trees]] /\ branch \in [Repos -> [Sessions -> Branches]]
      /\ Name(s) \in Sessions /\ Case.kills \in Nat
  BY Parts, CaseFacts, JobFacts
<1>2. case' = case /\ Case' = Case
  BY DEF CreateTask, AddTree, AddFails, MoreEntries, Rollback, CreateDone, ResumeTask, Restored,
         Flag, Launched, AgentEdits, AgentCommits, AgentLeaves, FirstLaunchInterrupted, End,
         RemoveTree, TreesRemoved, DeleteIncluded, Ended1, KillCommand, Case
<1>3. job' \in [Sessions -> Jobs] /\ \A t \in Sessions : t # s => job'[t] = job[t]
  <2>1. CASE AgentEdits(s) \/ AgentCommits(s)
    BY <2>1, <1>1 DEF AgentEdits, AgentCommits
  <2>2. CASE ~(AgentEdits(s) \/ AgentCommits(s))
    <3>1. \E a, k, modes, todo : Did(s, a, k, modes, todo)
      <4>1. CASE CreateTask(s) \/ MoreEntries(s) \/ Flag(s)
        BY <4>1, CreateDid, MoreDid, FlagDid
      <4>2. CASE AddTree(s) \/ RemoveTree(s) \/ DeleteIncluded(s)
        BY <4>2, TreeSteps
      <4>3. CASE AddFails(s) \/ Launched(s) \/ AgentLeaves(s) \/ Ended1(s) \/ KillCommand(s)
                 \/ CreateDone(s) \/ Rollback(s) \/ Restored(s)
        BY <4>3, SimpleDid
      <4>4. CASE TreesRemoved(s) \/ ResumeTask(s) \/ FirstLaunchInterrupted(s)
                 \/ End(s, "park") \/ End(s, "delete")
        BY <4>4, TurnsDid
      <4> QED BY <2>2, <4>1, <4>2, <4>3, <4>4
    <3> QED BY <3>1 DEF Did
  <2> QED BY <2>1, <2>2
<1>4. s \in begun'
  <2>1. CASE CreateTask(s)
    BY <2>1 DEF CreateTask
  <2>2. CASE ~CreateTask(s)
    <3>1. life[s] # "none" \/ job[s].at # "idle"
      BY <2>2 DEF AddTree, AddFails, MoreEntries, Rollback, CreateDone, ResumeTask, Restored,
         Flag, Launched, AgentEdits, AgentCommits, AgentLeaves, FirstLaunchInterrupted, End,
         RemoveTree, TreesRemoved, DeleteIncluded, Ended1, KillCommand
    <3>2. begun' = begun
      BY <2>2 DEF AddTree, AddFails, MoreEntries, Rollback, CreateDone, ResumeTask, Restored,
         Flag, Launched, AgentEdits, AgentCommits, AgentLeaves, FirstLaunchInterrupted, End,
         RemoveTree, TreesRemoved, DeleteIncluded, Ended1, KillCommand
    <3> QED BY <3>1, <3>2 DEF Unbegun
  <2> QED BY <2>1, <2>2
<1>5. begun \subseteq begun' /\ broken \subseteq broken' /\ forsaken \subseteq forsaken'
  <2>1. begun' = begun \/ begun' = begun \cup {s}
    BY DEF CreateTask, AddTree, AddFails, MoreEntries, Rollback, CreateDone, ResumeTask, Restored,
         Flag, Launched, AgentEdits, AgentCommits, AgentLeaves, FirstLaunchInterrupted, End,
         RemoveTree, TreesRemoved, DeleteIncluded, Ended1, KillCommand
  <2>2. broken' = broken \/ broken' = broken \cup {s}
    BY DEF CreateTask, AddTree, AddFails, MoreEntries, Rollback, CreateDone, ResumeTask, Restored,
         Flag, Launched, AgentEdits, AgentCommits, AgentLeaves, FirstLaunchInterrupted, End,
         RemoveTree, TreesRemoved, DeleteIncluded, Ended1, KillCommand
  <2>3. forsaken' = forsaken \/ \E x : forsaken' = forsaken \cup {x}
    BY DEF CreateTask, AddTree, AddFails, MoreEntries, Rollback, CreateDone, ResumeTask, Restored,
         Flag, Launched, AgentEdits, AgentCommits, AgentLeaves, FirstLaunchInterrupted, End,
         RemoveTree, TreesRemoved, DeleteIncluded, Ended1, KillCommand
  <2> QED BY <2>1, <2>2, <2>3
<1>6. /\ \/ UNCHANGED tree
         \/ \E r, t : TreeAt(r, s, t)
      /\ \/ UNCHANGED branch
         \/ \E r, b : BranchAt(r, s, b)
  <2>1. CASE AddTree(s) \/ RemoveTree(s) \/ DeleteIncluded(s) \/ AgentEdits(s) \/ AgentCommits(s)
    <3>1. CASE AddTree(s)
      BY <3>1, TreeSteps
    <3>2. CASE RemoveTree(s)
      BY <3>2, TreeSteps DEF RemoveTree
    <3>3. CASE DeleteIncluded(s)
      BY <3>3, TreeSteps DEF DeleteIncluded
    <3>4. CASE AgentEdits(s)
      BY <3>4, TreeSteps DEF AgentEdits
    <3>5. CASE AgentCommits(s)
      BY <3>5, TreeSteps
    <3> QED BY <2>1, <3>1, <3>2, <3>3, <3>4, <3>5
  <2>2. CASE ~(AddTree(s) \/ RemoveTree(s) \/ DeleteIncluded(s) \/ AgentEdits(s) \/ AgentCommits(s))
    BY <2>2 DEF CreateTask, AddFails, MoreEntries, Rollback, CreateDone, ResumeTask, Restored,
         Flag, Launched, AgentLeaves, FirstLaunchInterrupted, End, TreesRemoved, Ended1, KillCommand
  <2> QED BY <2>1, <2>2
<1>7. /\ tree' \in [Repos -> [Sessions -> Trees]] /\ branch' \in [Repos -> [Sessions -> Branches]]
      /\ \A r \in Repos, n \in Sessions : n # Name(s) =>
            tree'[r][n] = tree[r][n] /\ branch'[r][n] = branch[r][n]
  <2> HIDE DEF Name
  <2>1. ASSUME NEW r, NEW t, TreeAt(r, s, t)
        PROVE  /\ tree' \in [Repos -> [Sessions -> Trees]]
               /\ \A q \in Repos, n \in Sessions : n # Name(s) => tree'[q][n] = tree[q][n]
    BY <2>1, <1>1 DEF TreeAt
  <2>2. ASSUME NEW r, NEW b, BranchAt(r, s, b)
        PROVE  /\ branch' \in [Repos -> [Sessions -> Branches]]
               /\ \A q \in Repos, n \in Sessions : n # Name(s) => branch'[q][n] = branch[q][n]
    BY <2>2, <1>1 DEF BranchAt
  <2> QED BY <1>1, <1>6, <2>1, <2>2
<1>8. /\ life' \in [Sessions -> {"none", "ready", "running", "parked", "deleted"}]
      /\ main' \in [Sessions -> BOOLEAN] /\ include' \in [Sessions -> [Repos -> Modes]]
      /\ \A t \in Sessions : t # s => life'[t] = life[t] /\ main'[t] = main[t] /\ include'[t] = include[t]
  <2>1. UNCHANGED life \/ \E l \in {"none", "ready", "running", "parked", "deleted"} :
                             life' = [life EXCEPT ![s] = l]
    <3>1. CASE Ended1(s)
      <4>1. life[s] \in {"none", "ready", "running", "parked", "deleted"}
        BY <1>1 DEF Plain
      <4> QED BY <3>1, <4>1 DEF Ended1
    <3>2. CASE ~Ended1(s)
      BY <3>2 DEF CreateTask, AddTree, AddFails, MoreEntries, Rollback, CreateDone, ResumeTask,
         Restored, Flag, Launched, AgentEdits, AgentCommits, AgentLeaves, FirstLaunchInterrupted, End,
         RemoveTree, TreesRemoved, DeleteIncluded, KillCommand
    <3> QED BY <3>1, <3>2
  <2>2. UNCHANGED main \/ \E m \in BOOLEAN : main' = [main EXCEPT ![s] = m]
    BY DEF CreateTask, AddTree, AddFails, MoreEntries, Rollback, CreateDone, ResumeTask, Restored,
         Flag, Launched, AgentEdits, AgentCommits, AgentLeaves, FirstLaunchInterrupted, End,
         RemoveTree, TreesRemoved, DeleteIncluded, Ended1, KillCommand, Bare
  <2>3. UNCHANGED include \/ include' = [include EXCEPT ![s] = job[s].modes]
    BY DEF CreateTask, AddTree, AddFails, MoreEntries, Rollback, CreateDone, ResumeTask, Restored,
         Flag, Launched, AgentEdits, AgentCommits, AgentLeaves, FirstLaunchInterrupted, End,
         RemoveTree, TreesRemoved, DeleteIncluded, Ended1, KillCommand
  <2> QED BY <1>1, <2>1, <2>2, <2>3 DEF Plain
<1>9. halts' \in 0 .. Case'.kills
  <2>1. halts \in 0 .. Case.kills /\ Case'.kills = Case.kills
    BY <1>1, <1>2 DEF Plain
  <2>2. halts' = halts \/ (halts' = halts + 1 /\ halts < Case.kills)
    BY DEF CreateTask, AddTree, AddFails, MoreEntries, Rollback, CreateDone, ResumeTask, Restored,
         Flag, Launched, AgentEdits, AgentCommits, AgentLeaves, FirstLaunchInterrupted, End,
         RemoveTree, TreesRemoved, DeleteIncluded, Ended1, KillCommand
  <2> QED BY <1>1, <2>1, <2>2
<1>10. /\ begun' \subseteq Sessions /\ broken' \subseteq Sessions
       /\ committed' \subseteq Sessions \X Repos /\ forsaken' \subseteq Repos \X Sessions
  <2>1. CASE AgentCommits(s)
    <3>1. PICK r \in Repos : committed' = committed \cup (tree[r][Name(s)].dirty \X {r})
      BY <2>1, TreeSteps
    <3>2. tree[r][Name(s)].dirty \subseteq Sessions
      BY <1>1 DEF Trees
    <3> HIDE DEF Name
    <3> QED BY <2>1, <3>1, <3>2, <1>1 DEF AgentCommits, Plain
  <2>2. CASE DeleteIncluded(s)
    <3>1. PICK r \in Repos : forsaken' = forsaken \cup {<<r, Name(s)>>}
      BY <2>2, TreeSteps, <1>1, JobFacts
    <3> HIDE DEF Name
    <3> QED BY <2>2, <3>1, <1>1 DEF DeleteIncluded, Plain
  <2>3. CASE ~(AgentCommits(s) \/ DeleteIncluded(s))
    BY <2>3, <1>1 DEF CreateTask, AddTree, AddFails, MoreEntries, Rollback, CreateDone, ResumeTask,
         Restored, Flag, Launched, AgentEdits, AgentLeaves, FirstLaunchInterrupted, End,
         RemoveTree, TreesRemoved, Ended1, KillCommand, Plain
  <2> QED BY <2>1, <2>2, <2>3
<1>11. Plain'
  BY <1>1, <1>2, <1>8, <1>9, <1>10 DEF Plain
<1> QED BY <1>2, <1>3, <1>4, <1>5, <1>7, <1>8, <1>11
-----------------------------------------------------------------------------
\* A worktree has its branch, a branch that is gone has no commits, and only sessions of
\* the name change files in the worktree.
Grounded(r, n) ==
    /\ tree[r][n].there => branch[r][n].there
    /\ branch[r][n].commits # {} => branch[r][n].there
    /\ \A d \in tree[r][n].dirty : Name(d) = n

\* The commits of the session, and those of an earlier task, are on the branch.
Kept(s, r) ==
    <<r, Name(s)>> \notin forsaken =>
        /\ <<s, r>> \in committed => s \in branch[r][Name(s)].commits
        /\ r \in Case.prior => "user" \in branch[r][Name(s)].commits

KeptInv == /\ \A r \in Repos, n \in Sessions : Grounded(r, n)
           /\ \A s \in Sessions, r \in Repos : Kept(s, r)

LEMMA KeptStep ==
    ASSUME IncludesTypeOK, Unbegun, KeptInv, NEW s \in Sessions, StepOf(s)
    PROVE  KeptInv'
<1>1. /\ tree \in [Repos -> [Sessions -> Trees]] /\ branch \in [Repos -> [Sessions -> Branches]]
      /\ job[s].todo \subseteq Repos /\ \A t \in Sessions : Name(t) \in Sessions
  BY Parts, CaseFacts, JobFacts
<1>2. /\ \A t \in Sessions : Name(t)' = Name(t)
      /\ Case' = Case /\ forsaken \subseteq forsaken'
      /\ \A r \in Repos, n \in Sessions : n # Name(s) =>
                 tree'[r][n] = tree[r][n] /\ branch'[r][n] = branch[r][n]
  BY Local DEF Name
<1>3. /\ \A r \in Repos, n \in Sessions : Grounded(r, n)
      /\ \A t \in Sessions, r \in Repos : Kept(t, r)
  BY DEF KeptInv
<1>n. \A r \in Repos, n \in Sessions : \A d \in tree[r][n].dirty : d \in Sessions
  BY <1>1 DEF Trees
<1> DEFINE m == Name(s)
\* It is enough to look at the worktree and the branch that the step changes.
<1>4. ASSUME NEW r \in Repos,
             /\ tree'[r][m].there => branch'[r][m].there
             /\ branch'[r][m].commits # {} => branch'[r][m].there
             /\ \A d \in tree'[r][m].dirty : d \in Sessions /\ Name(d) = m
             /\ \/ <<r, m>> \in forsaken'
                \/ /\ branch[r][m].commits \subseteq branch'[r][m].commits
                   /\ \A t \in Sessions : Name(t) = m /\ <<t, r>> \in committed' =>
                         <<t, r>> \in committed \/ t \in branch'[r][m].commits,
             \A q \in Repos \ {r} : /\ tree'[q][m] = tree[q][m] /\ branch'[q][m] = branch[q][m]
                                    /\ \A t \in Sessions : <<t, q>> \in committed' => <<t, q>> \in committed,
             \A t \in Sessions : <<t, r>> \in committed' => <<t, r>> \in committed \/ Name(t) = m
      PROVE  KeptInv'
  <2> HIDE DEF m, Name, Case
  <2>1. ASSUME NEW q \in Repos, NEW n \in Sessions PROVE Grounded(q, n)'
    <3>1. CASE q = r /\ n = m
      BY <3>1, <1>2, <1>4 DEF Grounded
    <3>2. CASE ~(q = r /\ n = m)
      <4>1. tree'[q][n] = tree[q][n] /\ branch'[q][n] = branch[q][n] /\ Grounded(q, n)
        BY <3>2, <1>2, <1>3, <1>4 DEF m
      <4> QED BY <4>1, <1>2, <1>n DEF Grounded
    <3> QED BY <3>1, <3>2
  <2>2. ASSUME NEW t \in Sessions, NEW q \in Repos PROVE Kept(t, q)'
    <3>1. Kept(t, q) /\ Name(t) \in Sessions /\ Name(t)' = Name(t)
      BY <1>1, <1>2, <1>3
    <3>2. CASE q = r /\ Name(t) = m
      BY <3>1, <3>2, <1>2, <1>4 DEF Kept
    <3>3. CASE ~(q = r /\ Name(t) = m)
      <4>1. branch'[q][Name(t)] = branch[q][Name(t)] /\ (<<t, q>> \in committed' => <<t, q>> \in committed)
        BY <3>1, <3>3, <1>2, <1>4 DEF m
      <4> QED BY <3>1, <4>1, <1>2 DEF Kept
    <3> QED BY <3>2, <3>3
  <2> QED BY <2>1, <2>2 DEF KeptInv
<1>g. \A r \in Repos : Grounded(r, m) /\ m \in Sessions
  BY <1>1, <1>3
<1>5. CASE AddTree(s)
  <2>1. PICK r \in job[s].todo :
           /\ \/ branch[r][m].there /\ UNCHANGED branch
              \/ ~branch[r][m].there /\ BranchAt(r, s, [there |-> TRUE, commits |-> {}])
           /\ \/ branch[r][m].there /\ tree[r][m].there /\ UNCHANGED tree
              \/ /\ ~(branch[r][m].there /\ tree[r][m].there)
                 /\ TreeAt(r, s, [there |-> TRUE, dirty |-> {}])
    BY <1>5, TreeSteps
  <2>2. r \in Repos /\ UNCHANGED committed
    BY <1>1, <1>5 DEF AddTree
  <2>n. Name(s) = m
    OBVIOUS
  <2> HIDE DEF Name, m
  <2>3. /\ tree'[r][m] = tree[r][m] \/ tree'[r][m].dirty = {}
        /\ \A q \in Repos \ {r} : tree'[q][m] = tree[q][m]
    BY <2>1, <2>2, <2>n, <1>1, <1>g DEF TreeAt
  <2>4. /\ branch'[r][m].there
        /\ branch'[r][m] = branch[r][m] \/ ~branch[r][m].there
        /\ \A q \in Repos \ {r} : branch'[q][m] = branch[q][m]
    BY <2>1, <2>2, <2>n, <1>1, <1>g DEF BranchAt
  <2>5. branch[r][m].commits \subseteq branch'[r][m].commits
    BY <2>2, <2>4, <1>g DEF Grounded
  <2>6. \A d \in tree'[r][m].dirty : d \in Sessions /\ Name(d) = m
    BY <2>2, <2>3, <1>g, <1>n DEF Grounded
  <2> QED BY <2>2, <2>3, <2>4, <2>5, <2>6, <1>4
<1>6. CASE RemoveTree(s)
  <2>1. PICK r \in job[s].todo : TreeAt(r, s, NoTree)
    BY <1>6, TreeSteps
  <2>2. r \in Repos /\ UNCHANGED <<committed, branch>>
    BY <1>1, <1>6 DEF RemoveTree
  <2> HIDE DEF Name
  <2>3. /\ tree'[r][m] = NoTree /\ ~tree'[r][m].there /\ tree'[r][m].dirty = {}
        /\ \A q \in Repos \ {r} : tree'[q][m] = tree[q][m]
    BY <2>1, <2>2, <1>1, <1>g, NoFacts DEF TreeAt
  <2> QED BY <2>2, <2>3, <1>4, <1>g DEF Grounded
<1>7. CASE DeleteIncluded(s)
  <2>1. PICK r \in job[s].todo : /\ \/ tree[r][m].there /\ UNCHANGED branch
                                    \/ ~tree[r][m].there /\ BranchAt(r, s, NoBranch)
                                 /\ forsaken' = forsaken \cup {<<r, m>>}
    BY <1>7, TreeSteps
  <2>2. r \in Repos /\ UNCHANGED <<committed, tree>>
    BY <1>1, <1>7 DEF DeleteIncluded
  <2>n. Name(s) = m
    OBVIOUS
  <2> HIDE DEF Name, m
  <2>3. /\ tree[r][m].there => branch'[r][m] = branch[r][m]
        /\ branch'[r][m] = branch[r][m] \/ branch'[r][m].commits = {}
        /\ \A q \in Repos \ {r} : branch'[q][m] = branch[q][m]
    <3>1. CASE UNCHANGED branch
      BY <3>1
    <3>2. CASE BranchAt(r, s, NoBranch) /\ ~tree[r][m].there
      <4>1. branch'[r][m] = NoBranch /\ \A q \in Repos \ {r} : branch'[q][m] = branch[q][m]
        BY <3>2, <2>2, <2>n, <1>1, <1>g DEF BranchAt
      <4> QED BY <3>2, <4>1, NoFacts
    <3> QED BY <2>1, <3>1, <3>2
  <2> QED BY <2>1, <2>2, <2>3, <1>4, <1>g, <1>n DEF Grounded
<1>8. CASE AgentEdits(s)
  <2>1. PICK r \in Repos : tree[r][m].there /\ TreeAt(r, s, [there |-> TRUE, dirty |-> tree[r][m].dirty \cup {s}])
    BY <1>8, TreeSteps
  <2>2. UNCHANGED <<committed, branch>>
    BY <1>8 DEF AgentEdits
  <2>n. Name(s) = m
    OBVIOUS
  <2> HIDE DEF Name, m
  <2>3. /\ tree'[r][m].dirty = tree[r][m].dirty \cup {s}
        /\ \A q \in Repos \ {r} : tree'[q][m] = tree[q][m]
    BY <2>1, <2>n, <1>1, <1>g DEF TreeAt
  <2> QED BY <2>1, <2>2, <2>3, <2>n, <1>4, <1>g, <1>n DEF Grounded
<1>9. CASE AgentCommits(s)
  <2>1. PICK r \in Repos :
           /\ tree[r][m].there /\ TreeAt(r, s, [there |-> TRUE, dirty |-> {}])
           /\ BranchAt(r, s, [there |-> branch[r][m].there, commits |-> branch[r][m].commits \cup tree[r][m].dirty])
           /\ committed' = committed \cup (tree[r][m].dirty \X {r})
    BY <1>9, TreeSteps
  <2>n. Name(s) = m
    OBVIOUS
  <2> HIDE DEF Name, m
  <2>3. /\ tree'[r][m].dirty = {} /\ branch'[r][m].there = branch[r][m].there
        /\ branch'[r][m].commits = branch[r][m].commits \cup tree[r][m].dirty
        /\ \A q \in Repos \ {r} : tree'[q][m] = tree[q][m] /\ branch'[q][m] = branch[q][m]
    BY <2>1, <2>n, <1>1, <1>g DEF TreeAt, BranchAt
  <2>4. branch[r][m].there /\ \A d \in tree[r][m].dirty : d \in Sessions /\ Name(d) = m
    BY <2>1, <1>g, <1>n DEF Grounded
  <2>5. ASSUME NEW t \in Sessions, NEW q \in Repos, <<t, q>> \in committed'
        PROVE  <<t, q>> \in committed \/ (q = r /\ t \in tree[r][m].dirty)
    BY <2>1, <2>5
  <2> QED BY <2>3, <2>4, <2>5, <1>4, <1>g
<1>10. CASE ~(AddTree(s) \/ RemoveTree(s) \/ DeleteIncluded(s) \/ AgentEdits(s) \/ AgentCommits(s))
  <2>1. UNCHANGED <<tree, branch, committed, forsaken>>
    BY <1>10 DEF StepOf, CreateTask, AddFails, MoreEntries, Rollback, CreateDone, ResumeTask,
       Restored, Flag, Launched, AgentLeaves, FirstLaunchInterrupted, End, TreesRemoved, Ended1,
       KillCommand
  <2> HIDE DEF Name, Case
  <2> QED BY <2>1, <1>1, <1>2, <1>3, <1>n DEF KeptInv, Grounded, Kept
<1> QED BY <1>5, <1>6, <1>7, <1>8, <1>9, <1>10
-----------------------------------------------------------------------------
\* The worktrees of the entries are there, but for those still to do.
Have(s, modes, todo) == \A r \in Branched(modes) \ todo : tree[r][Name(s)].there

Lone(s) == ~Bare(s) /\ s \notin broken /\ ~Shares(s)

\* Where a command has got to with the worktrees of its session.
Prepared(s) ==
    /\ job[s].at = "idle" =>
          /\ life[s] = "running" => Have(s, include[s], {})
          /\ life[s] = "ready" /\ main[s] => Have(s, include[s], {})
          /\ life[s] = "parked" => ~main[s]
    /\ job[s].at = "add" => /\ Have(s, job[s].modes, job[s].todo)
                            /\ job[s].kind \in {"create", "extra", "resume", "flag"}
    /\ job[s].at = "editor" => job[s].kind \in {"create", "extra"}
    /\ job[s].kind \in {"create", "extra"} => life[s] = "none"
    /\ job[s].at \in {"editor", "flags", "save"} => Have(s, job[s].modes, {})
    /\ job[s].at = "remove" /\ job[s].kind = "flag" =>
          Have(s, job[s].modes, {}) /\ job[s].todo \cap Branched(job[s].modes) = {}
    /\ job[s].kind \in {"park", "delete", "rollback"} => ~main[s]
    /\ job[s].kind = "rollback" => life[s] \in {"none", "ready"}
    /\ job[s].kind = "first" => job[s].at = "idle"
    /\ job[s].at \in {"unbranch", "ended"} => job[s].kind \in {"park", "delete", "rollback"}

IncludesInv == /\ IncludesTypeOK /\ Unbegun /\ KeptInv
               /\ \A s \in Sessions : Lone(s) => Prepared(s)

LEMMA IncludesHolds == IncludesInv => IncludedWorkKept /\ Isolated
<1> SUFFICES ASSUME IncludesInv PROVE IncludedWorkKept /\ Isolated
  OBVIOUS
<1>1. IncludedWorkKept
  BY Parts DEF IncludesInv, KeptInv, Kept, IncludedWorkKept, Plain
<1>2. Isolated
  BY DEF IncludesInv, Prepared, Lone, Have, Isolated, Isolates
<1> QED BY <1>1, <1>2

LEMMA IncludesInitInv == IncludesInit => IncludesInv
<1> SUFFICES ASSUME IncludesInit PROVE IncludesInv
  OBVIOUS
<1>1. /\ IncludesTypeOK /\ \A s \in Sessions : Name(s) \in Sessions
  BY TypeInit, CaseFacts DEF IncludesInit
<1>2. /\ \A s \in Sessions : /\ life[s] = "none" /\ job[s].at = "idle" /\ job[s].kind = ""
      /\ committed = {}
  BY NoFacts DEF IncludesInit
<1>3. ASSUME NEW r \in Repos, NEW n \in Sessions
      PROVE  /\ tree[r][n].there = FALSE /\ tree[r][n].dirty = {}
             /\ branch[r][n].commits # {} => branch[r][n].there
             /\ r \in Case.prior => "user" \in branch[r][n].commits
  <2>1. tree[r][n] = NoTree
    BY DEF IncludesInit
  <2>2. branch[r][n] = IF r \in Case.prior THEN [there |-> TRUE, commits |-> {"user"}] ELSE NoBranch
    BY DEF IncludesInit
  <2>3. CASE r \in Case.prior
    <3>1. branch[r][n] = [there |-> TRUE, commits |-> {"user"}]
      BY <2>2, <2>3
    <3> HIDE DEF Case
    <3>2. branch[r][n].there /\ "user" \in branch[r][n].commits
      BY <3>1
    <3> QED BY <2>1, <3>2, NoFacts
  <2>4. CASE r \notin Case.prior
    <3>1. branch[r][n] = NoBranch
      BY <2>2, <2>4
    <3> HIDE DEF Case
    <3> QED BY <2>1, <2>4, <3>1, NoFacts
  <2> QED BY <2>3, <2>4
<1>4. KeptInv
  BY <1>1, <1>2, <1>3 DEF KeptInv, Kept, Grounded
<1>5. Unbegun /\ \A s \in Sessions : Prepared(s)
  BY <1>2 DEF Unbegun, Prepared
<1> QED BY <1>1, <1>4, <1>5 DEF IncludesInv

\* A step of another session leaves what s has, or shares its name.
LEMMA OtherPrepared ==
    ASSUME IncludesInv, NEW s \in Sessions, NEW t \in Sessions, t # s, StepOf(t), Lone(s)'
    PROVE  Prepared(s)'
<1>1. /\ Case' = Case /\ t \in begun' /\ begun \subseteq begun' /\ broken \subseteq broken'
      /\ life'[s] = life[s] /\ main'[s] = main[s] /\ include'[s] = include[s] /\ job'[s] = job[s]
      /\ \A r \in Repos, n \in Sessions : n # Name(t) => tree'[r][n] = tree[r][n]
      /\ \A u \in Sessions : Name(u)' = Name(u)
  BY Local DEF IncludesInv, Name
<1>2. Name(s) \in Sessions
  BY CaseFacts, JobFacts DEF IncludesInv
<1>3. Name(t) # Name(s)
  <2> SUFFICES ASSUME Name(t) = Name(s) PROVE FALSE
    OBVIOUS
  <2>1. Alike(s)' \cap begun' # {}
    <3> HIDE DEF Name
    <3> QED BY <1>1 DEF Alike
  <2> QED BY <2>1 DEF Lone, Shares
<1>4. Lone(s)
  <2>1. Alike(s)' = Alike(s) /\ Bare(s)' = Bare(s)
    <3>1. Bare(s)' = Bare(s)
      BY <1>1 DEF Bare
    <3> HIDE DEF Name
    <3> QED BY <1>1, <3>1 DEF Alike
  <2> QED BY <2>1, <1>1 DEF Lone, Shares
<1>5. Prepared(s) /\ \A modes, todo : Have(s, modes, todo)' <=> Have(s, modes, todo)
  <2> HIDE DEF Name
  <2>1. \A modes : Branched(modes) \subseteq Repos
    BY DEF Branched
  <2> QED BY <1>1, <1>2, <1>3, <1>4, <2>1 DEF IncludesInv, Have
<1> QED BY <1>1, <1>5 DEF Prepared

\* A step of s leaves its worktrees as its place in the command says.
LEMMA OwnPrepared ==
    ASSUME IncludesInv, NEW s \in Sessions, StepOf(s), Lone(s)'
    PROVE  Prepared(s)'
<1>1. /\ IncludesTypeOK /\ Case' = Case /\ begun \subseteq begun' /\ broken \subseteq broken'
      /\ \A u \in Sessions : Name(u)' = Name(u)
  BY Local DEF IncludesInv, Name
<1>2. Lone(s) /\ ~Bare(s) /\ s \notin broken'
  <2>1. Alike(s)' = Alike(s) /\ Bare(s)' = Bare(s)
    <3>1. Bare(s)' = Bare(s)
      BY <1>1 DEF Bare
    <3> HIDE DEF Name
    <3> QED BY <1>1, <3>1 DEF Alike
  <2> QED BY <2>1, <1>1 DEF Lone, Shares
<1>3. /\ Prepared(s) /\ job[s].modes \in [Repos -> Modes] /\ job[s].todo \subseteq Repos
      /\ include[s] \in [Repos -> Modes] /\ Name(s) \in Sessions
      /\ life \in [Sessions -> {"none", "ready", "running", "parked", "deleted"}]
      /\ main \in [Sessions -> BOOLEAN] /\ include \in [Sessions -> [Repos -> Modes]]
      /\ tree \in [Repos -> [Sessions -> Trees]]
  BY <1>1, <1>2, JobFacts, CaseFacts, Parts DEF IncludesInv, Plain
<1>n. Name(s)' = Name(s) /\ \A modes : \A r : r \in Branched(modes) => r \in Repos
  BY <1>1 DEF Branched
<1> DEFINE m == Name(s)
\* With the trees as they were, the worktrees there are the same.
<1>u. ASSUME UNCHANGED tree
      PROVE  \A modes, todo : Have(s, modes, todo)' <=> Have(s, modes, todo)
  <2> HIDE DEF Name
  <2> QED BY <1>n, <1>u DEF Have
<1>4. CASE CreateTask(s)
  <2>1. PICK modes \in [Repos -> Modes] : Did(s, "add", "create", modes, Branched(modes))
    BY <1>1, <1>4, CreateDid
  <2>2. life[s] = "none" /\ UNCHANGED <<life, tree, include>> /\ Have(s, modes, Branched(modes))
    BY <1>4 DEF CreateTask, Have
  <2> HIDE DEF Name
  <2> QED BY <1>u, <2>1, <2>2 DEF Did, Prepared
<1>5. CASE AddTree(s)
  <2>1. PICK r \in job[s].todo :
           /\ \/ tree[r][m].there /\ UNCHANGED tree
              \/ TreeAt(r, s, [there |-> TRUE, dirty |-> {}])
           /\ Did(s, "add", job[s].kind, job[s].modes, job[s].todo \ {r})
    BY <1>1, <1>5, TreeSteps
  <2>2. job[s].at = "add" /\ r \in Repos /\ UNCHANGED <<life, main, include>>
    BY <1>3, <1>5 DEF AddTree
  <2>h. Have(s, job[s].modes, job[s].todo)
    BY <1>3, <2>2 DEF Prepared
  <2>n. Name(s) = m
    OBVIOUS
  <2> HIDE DEF Name, m
  <2>3. tree'[r][m].there /\ \A q \in Repos \ {r} : tree'[q][m] = tree[q][m]
    BY <1>3, <2>1, <2>2, <2>n DEF TreeAt
  <2>4. Have(s, job[s].modes, job[s].todo \ {r})'
        <=> \A q \in Branched(job[s].modes)' \ (job[s].todo \ {r})' : tree'[q][m].there
    BY <1>n, <2>n DEF Have
  <2>5. \A q \in Branched(job[s].modes) \ (job[s].todo \ {r}) : tree'[q][m].there
    BY <1>n, <2>3, <2>h, <2>n DEF Have
  <2>6. ASSUME NEW j, j = job'[s] PROVE Branched(j.modes) = Branched(job[s].modes) /\ j.todo = job[s].todo \ {r}
    BY <2>1, <2>6 DEF Did
  <2>7. Have(s, job[s].modes, job[s].todo)'
    BY <1>n, <2>n, <2>5, <2>6 DEF Have
  <2> QED BY <1>3, <2>1, <2>2, <2>7 DEF Did, Prepared
<1>6. CASE AddFails(s) \/ KillCommand(s)
  BY <1>2, <1>6 DEF AddFails, KillCommand
<1>7. CASE MoreEntries(s)
  <2>1. /\ job[s].at = "add" /\ job[s].todo = {} /\ job[s].kind \in {"create", "extra"}
        /\ UNCHANGED <<life, main, include, tree>> /\ Have(s, job[s].modes, {})
    BY <1>3, <1>7 DEF MoreEntries, Prepared
  <2>2. CASE Did(s, "editor", job[s].kind, job[s].modes, job[s].todo)
    <3> HIDE DEF Name
    <3> QED BY <1>3, <1>u, <2>1, <2>2 DEF Did, Prepared
  <2>3. ASSUME NEW r \in Repos, NEW mode \in Modes, NEW todo \in {{r}, {}},
               mode = "worktree" => todo = {r}, job[s].modes[r] = "none",
               Did(s, "add", "extra", [job[s].modes EXCEPT ![r] = mode], todo)
        PROVE  Prepared(s)'
    <3>1. Have(s, [job[s].modes EXCEPT ![r] = mode], todo)
      BY <1>3, <2>1, <2>3 DEF Have, Branched
    <3> HIDE DEF Name
    <3> QED BY <1>3, <1>u, <2>1, <2>3, <3>1 DEF Did, Prepared
  <2> QED BY <1>1, <1>7, <2>2, <2>3, MoreDid
<1>8. CASE Rollback(s)
  <2>1. /\ job[s].kind \in {"create", "extra"} /\ life' = life /\ main'[s] = FALSE
        /\ Did(s, "remove", "rollback", job[s].modes, job[s].undo)
    BY <1>1, <1>3, <1>8, SimpleDid DEF Rollback
  <2> QED BY <1>3, <2>1 DEF Did, Prepared
<1>9. CASE CreateDone(s)
  <2>1. /\ job[s].at = "editor" /\ life'[s] = "running" /\ include'[s] = job[s].modes /\ UNCHANGED tree
        /\ Did(s, "idle", "first", NoJob.modes, {})
    BY <1>1, <1>3, <1>9, SimpleDid DEF CreateDone
  <2> HIDE DEF Name
  <2> QED BY <1>3, <1>u, <2>1 DEF Did, Prepared
<1>10. CASE ResumeTask(s)
  <2>1. /\ life[s] \in {"ready", "parked"} /\ job[s].at = "idle" /\ UNCHANGED <<life, include, tree>>
        /\ \/ main[s] /\ Did(s, "flags", "resume", include[s], {})
           \/ Did(s, "add", "resume", include[s], Branched(include[s]))
    BY <1>1, <1>2, <1>10, TurnsDid DEF ResumeTask
  <2>2. Have(s, include[s], Branched(include[s])) /\ (main[s] => Have(s, include[s], {}))
    BY <1>3, <2>1 DEF Have, Prepared
  <2> HIDE DEF Name
  <2> QED BY <1>u, <2>1, <2>2 DEF Did, Prepared
<1>11. CASE Restored(s)
  <2>1. /\ job[s].at = "add" /\ job[s].kind = "resume" /\ job[s].todo = {} /\ UNCHANGED tree
        /\ Did(s, "flags", job[s].kind, job[s].modes, job[s].todo)
    BY <1>1, <1>11, SimpleDid DEF Restored
  <2> HIDE DEF Name
  <2> QED BY <1>3, <1>u, <2>1 DEF Did, Prepared
<1>12. CASE Flag(s)
  <2>1. /\ job[s].at = "flags" /\ UNCHANGED <<life, main, include, tree>> /\ Have(s, job[s].modes, {})
    BY <1>3, <1>12 DEF Flag, Prepared
  <2>2. PICK r \in Repos, mode \in Modes :
           LET modes == [job[s].modes EXCEPT ![r] = mode]
           IN  \/ mode = "worktree" /\ Did(s, "add", "flag", modes, {r})
               \/ mode # "worktree" /\ Did(s, "remove", "flag", modes, {r})
               \/ /\ mode = "worktree" => job[s].modes[r] = "worktree"
                  /\ Did(s, "save", "flag", modes, {})
    BY <1>1, <1>12, FlagDid
  <2> DEFINE modes == [job[s].modes EXCEPT ![r] = mode]
  <2>3. /\ mode = "worktree" => Have(s, modes, {r})
        /\ mode # "worktree" => Have(s, modes, {}) /\ {r} \cap Branched(modes) = {}
        /\ (mode = "worktree" => job[s].modes[r] = "worktree") => Have(s, modes, {})
    BY <1>3, <2>1 DEF Have, Branched
  <2> HIDE DEF Name, modes
  <2>4. \/ mode = "worktree" /\ Did(s, "add", "flag", modes, {r})
        \/ mode # "worktree" /\ Did(s, "remove", "flag", modes, {r})
        \/ /\ mode = "worktree" => job[s].modes[r] = "worktree"
           /\ Did(s, "save", "flag", modes, {})
    BY <2>2 DEF modes
  <2>5. \A j : j.modes = modes => Branched(j.modes) = Branched(modes)
    OBVIOUS
  <2> QED BY <1>3, <1>u, <2>1, <2>3, <2>4, <2>5 DEF Did, Prepared
<1>13. CASE Launched(s)
  <2>1. /\ Have(s, job[s].modes, {}) /\ life'[s] = "running" /\ include'[s] = job[s].modes
        /\ UNCHANGED tree /\ Did(s, "idle", "", NoJob.modes, {})
    BY <1>1, <1>3, <1>13, SimpleDid DEF Launched, Prepared
  <2> HIDE DEF Name
  <2> QED BY <1>u, <2>1 DEF Did, Prepared
<1>14. CASE AgentEdits(s) \/ AgentCommits(s)
  <2>1. PICK r \in Repos : \E d : tree[r][m].there /\ TreeAt(r, s, [there |-> TRUE, dirty |-> d])
    BY <1>1, <1>14, TreeSteps
  <2>2. UNCHANGED <<life, main, include, job>>
    BY <1>14 DEF AgentEdits, AgentCommits
  <2>n. Name(s) = m
    OBVIOUS
  <2> HIDE DEF Name, m
  <2>3. \A q \in Repos : tree[q][m].there => tree'[q][m].there
    BY <1>3, <2>1, <2>n DEF TreeAt
  <2>4. \A modes, todo : Have(s, modes, todo) => Have(s, modes, todo)'
    BY <1>n, <2>3, <2>n DEF Have
  <2> QED BY <1>3, <2>2, <2>4 DEF Prepared
<1>15. CASE AgentLeaves(s)
  <2>1. /\ life[s] = "running" /\ job[s].at = "idle" /\ life'[s] = "ready"
        /\ UNCHANGED <<main, include, tree>> /\ Did(s, "idle", "", NoJob.modes, {})
    BY <1>1, <1>3, <1>15, SimpleDid DEF AgentLeaves
  <2> HIDE DEF Name
  <2> QED BY <1>3, <1>u, <2>1 DEF Did, Prepared
<1>16. CASE FirstLaunchInterrupted(s)
  <2>1. /\ life'[s] = "ready" /\ main'[s] = FALSE
        /\ Did(s, "remove", "rollback", NoJob.modes, Branched(include[s]))
    BY <1>1, <1>3, <1>16, TurnsDid DEF FirstLaunchInterrupted
  <2> QED BY <2>1 DEF Did, Prepared
<1>17. ASSUME NEW k \in {"park", "delete"}, End(s, k)
       PROVE  Prepared(s)'
  <2>1. /\ main'[s] = FALSE /\ Did(s, "remove", k, NoJob.modes, Branched(include[s]))
    BY <1>1, <1>2, <1>3, <1>17, TurnsDid DEF End
  <2> QED BY <2>1 DEF Did, Prepared
<1>18. CASE RemoveTree(s)
  <2>1. PICK r \in job[s].todo :
           TreeAt(r, s, NoTree) /\ Did(s, "remove", job[s].kind, job[s].modes, job[s].todo \ {r})
    BY <1>1, <1>18, TreeSteps
  <2>2. job[s].at = "remove" /\ r \in Repos /\ UNCHANGED <<life, main, include>>
    BY <1>3, <1>18 DEF RemoveTree
  <2>n. Name(s) = m
    OBVIOUS
  <2> HIDE DEF Name, m
  <2>3. \A q \in Repos \ {r} : tree'[q][m] = tree[q][m]
    BY <1>3, <2>1, <2>2, <2>n DEF TreeAt
  <2>4. job[s].kind = "flag" => Have(s, job[s].modes, {}) /\ r \notin Branched(job[s].modes)
    BY <1>3, <2>1, <2>2 DEF Prepared
  <2>5. ASSUME NEW modes, Have(s, modes, {}), r \notin Branched(modes)
        PROVE  \A q \in Branched(modes) : tree'[q][m].there
    BY <1>n, <2>3, <2>5, <2>n DEF Have
  <2>6. job'[s].modes = job[s].modes /\ job'[s].todo = job[s].todo \ {r}
    BY <2>1 DEF Did
  <2>7. job[s].kind = "flag" => Have(s, job[s].modes, {})'
    BY <1>n, <2>n, <2>4, <2>5, <2>6 DEF Have
  <2> QED BY <1>3, <2>1, <2>2, <2>6, <2>7 DEF Did, Prepared
<1>19. CASE TreesRemoved(s)
  <2>1. /\ UNCHANGED <<life, main>>
        /\ \/ job[s].kind = "park" /\ Did(s, "ended", "park", job[s].modes, {})
           \/ /\ job[s].kind \in {"delete", "rollback"}
              /\ Did(s, "unbranch", job[s].kind, job[s].modes, job[s].undo)
    BY <1>1, <1>19, TurnsDid DEF TreesRemoved
  <2> QED BY <1>3, <2>1 DEF Did, Prepared
<1>20. CASE DeleteIncluded(s)
  <2>1. /\ job[s].at = "unbranch" /\ UNCHANGED <<life, main>>
        /\ \E r : Did(s, "unbranch", job[s].kind, job[s].modes, job[s].todo \ {r})
    BY <1>1, <1>20, TreeSteps DEF DeleteIncluded
  <2> QED BY <1>3, <2>1 DEF Did, Prepared
<1>21. CASE Ended1(s)
  <2>1. /\ job[s].at \in {"ended", "unbranch"} /\ UNCHANGED main
        /\ \/ job[s].kind = "park" /\ life'[s] = "parked"
           \/ job[s].kind = "delete" /\ life'[s] = "deleted"
           \/ job[s].kind \notin {"park", "delete"} /\ life'[s] = life[s]
        /\ Did(s, "idle", "", NoJob.modes, {})
    BY <1>1, <1>3, <1>21, SimpleDid DEF Ended1
  <2> QED BY <1>3, <2>1 DEF Did, Prepared
<1> QED BY <1>4, <1>5, <1>6, <1>7, <1>8, <1>9, <1>10, <1>11, <1>12, <1>13, <1>14, <1>15, <1>16,
           <1>17, <1>18, <1>19, <1>20, <1>21 DEF StepOf

LEMMA UnbegunStep ==
    ASSUME IncludesTypeOK, Unbegun, NEW s \in Sessions, StepOf(s)
    PROVE  Unbegun'
<1>1. /\ s \in begun' /\ begun \subseteq begun'
      /\ \A t \in Sessions : t # s => life'[t] = life[t] /\ job'[t] = job[t]
  BY Local
<1> QED BY <1>1 DEF Unbegun

LEMMA IncludesStep == IncludesInv /\ [IncludesNext]_includesVars => IncludesInv'
<1> SUFFICES ASSUME IncludesInv, [IncludesNext]_includesVars PROVE IncludesInv'
  OBVIOUS
<1>1. ASSUME UNCHANGED includesVars
      PROVE  IncludesInv'
  <2>1. IncludesTypeOK'
    BY <1>1 DEF includesVars, IncludesInv, IncludesTypeOK, Case
  <2>2. Unbegun' /\ KeptInv'
    BY <1>1 DEF includesVars, IncludesInv, Unbegun, KeptInv, Kept, Grounded, Name, Case
  <2>3. \A t \in Sessions : (Lone(t)' <=> Lone(t)) /\ (Prepared(t)' <=> Prepared(t))
    BY <1>1 DEF includesVars, Lone, Bare, Shares, Alike, Prepared, Have, Name, Case
  <2> QED BY <2>1, <2>2, <2>3 DEF IncludesInv
<1>2. ASSUME NEW s \in Sessions, StepOf(s)
      PROVE  IncludesInv'
  <2>1. IncludesTypeOK /\ Unbegun /\ KeptInv
    BY DEF IncludesInv
  <2>2. IncludesTypeOK'
    <3>1. /\ Plain' /\ job' \in [Sessions -> Jobs]
          /\ tree' \in [Repos -> [Sessions -> Trees]] /\ branch' \in [Repos -> [Sessions -> Branches]]
      BY <1>2, <2>1, Local
    <3> QED BY <3>1 DEF IncludesTypeOK, Plain, Jobs, Trees, Branches
  <2>3. Unbegun' /\ KeptInv'
    BY <1>2, <2>1, UnbegunStep, KeptStep
  <2>4. ASSUME NEW t \in Sessions, Lone(t)'
        PROVE  Prepared(t)'
    BY <1>2, <2>4, OwnPrepared, OtherPrepared
  <2> QED BY <2>2, <2>3, <2>4 DEF IncludesInv
<1> QED BY <1>1, <1>2 DEF IncludesNext, StepOf

LEMMA IncludesAlways == IncludesSpec => []IncludesInv
BY IncludesInitInv, IncludesStep, PTL DEF IncludesSpec
-----------------------------------------------------------------------------
\* The state stays well formed through any interleaving of the commands of
\* sessions.py, includes.py and git.py with kills and failures of git.
THEOREM IncludesTyped == IncludesSpec => []IncludesTypeOK
<1>1. IncludesInv => IncludesTypeOK
  BY DEF IncludesInv
<1> QED BY <1>1, IncludesAlways, PTL

\* Whatever sessions share a name, and wherever their commands are killed, the commits on
\* a branch of an included repository stay until a delete or a rollback asks for it.
THEOREM IncludedWorkIsKept == IncludesSpec => []IncludedWorkKept
BY IncludesAlways, IncludesHolds, PTL

\* The agent of a session that is alone under its name, and whose commands ran to their
\* end, has a worktree in every repository included as one, through any resumes and
\* changes of entries.
THEOREM AgentsAreIsolated == IncludesSpec => []Isolated
BY IncludesAlways, IncludesHolds, PTL
=============================================================================
