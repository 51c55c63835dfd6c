---------------------------- MODULE TaskRecords ----------------------------
(***************************************************************************)
(* The task files of a repository in no-commit mode: one directory         *)
(* .hatchery/tasks holds those of all its tasks, found again by the name   *)
(* that their directory ends in, and migrated from two older layouts as    *)
(* they are found.  A container sees the whole directory read-only and     *)
(* what was found for its task read-write.                                 *)
(***************************************************************************)
EXTENDS Mounts, FiniteSets

CONSTANTS
    TaskNames,  \* names of tasks, sequences of words ("my-fix" is <<"my", "fix">>)
    Days,       \* the dates, in order
    Alphabet,   \* the words in the order in which names are sorted
    Setups      \* the instances, see Instance

\* `names`: the tasks there are; `legacy`: files of older layouts with the name and date
\* of their task; `bare`: tasks run without a worktree; `config`: the mounts of the
\* agent and of docker.yaml and which host paths exist; `links`: the links in the checkout
\* and in those mounts; `includes`: the repositories the tasks include, with or without
\* (`there`) a worktree.
Layouts == {"dir", "sub", "flat"}
Key == [layout : Layouts, day : Range(Days), name : TaskNames]

Given(config) == Range(config.agent) \cup Range(config.mounts) \cup Range(config.volumes)

Instance(s) ==
    /\ s.names \subseteq TaskNames /\ s.bare \in BOOLEAN
    /\ s.legacy \subseteq [layout : {"sub", "flat"}, day : {Days[1]}, name : s.names]
    /\ IsFiniteSet(s.legacy)
    /\ IsSeq(s.config.agent) /\ IsSeq(s.config.mounts) /\ IsSeq(s.config.volumes)
    /\ IsSeq(s.includes) /\ \A m \in Given(s.config) : IsMount(m)
    /\ IsFiniteSet(s.links) /\ s.config.follow \in BOOLEAN
    /\ \A l \in s.links : IsSeq(l.at) /\ IsSeq(l.raw) /\ IsSeq(l.target)
    /\ \A e \in Range(s.includes) :
          IsSeq(e.path) /\ e.mode \in {"worktree", "rw", "ro"} /\ e.there \in BOOLEAN

ASSUME RecordsAssumption ==
    /\ IsSeq(Days) /\ Days # <<>> /\ IsSeq(Alphabet)
    /\ TaskNames \subseteq Seq(Range(Alphabet))
    /\ \A p \in System \cup {Repo, Home.host, Home.container} : IsSeq(p)
    /\ \A u \in DOMAIN Setups : Instance(Setups[u])

\* The repositories that a task works on lie in no other and in nothing of the image's,
\* and no other mount lies in them; where they do, the deeper mount decides.
Separate(s) ==
    LET roots == {Repo} \cup {e.path : e \in Range(s.includes)}
        others == {m.dst : m \in Given(s.config)}
                  \cup {GitConfig.dst, Append(Home.host, "clipboard")}
    IN  /\ \A r \in roots : /\ \A d \in others \cup System : ~Within(d, r)
                             /\ \A p \in System : ~Within(r, p)
        /\ \A i, j \in DOMAIN s.includes :
              /\ i # j => ~Within(s.includes[i].path, s.includes[j].path)
              /\ ~Within(s.includes[i].path, Repo) /\ ~Within(Repo, s.includes[i].path)

VARIABLES
    setup,      \* the instance, a constant of each behaviour
    today,      \* the date
    records,    \* the task files: key -> [status, by], by whom it was written last
    task,       \* name -> "none", "open", "running", "done"
    mounts      \* name -> the mounts of its container

recordsVars == <<setup, today, records, task, mounts>>

Setup == Setups[setup]
Stem(key) == <<key.day>> \o key.name
EndsIn(stem, name) == Len(stem) > Len(name) /\ IsSuffix(name, stem)

\* sorted() of paths, component by component.
Rank(word) == CHOOSE k \in DOMAIN (Days \o Alphabet) : (Days \o Alphabet)[k] = word
Before(s, t) ==
    \/ s # t /\ IsPrefix(s, t)
    \/ \E k \in 1 .. Len(s) : /\ k <= Len(t) /\ SubSeq(s, 1, k - 1) = SubSeq(t, 1, k - 1)
                              /\ Rank(s[k]) < Rank(t[k])
Latest(keys) == CHOOSE k \in keys : \A l \in keys : l = k \/ Before(Stem(l), Stem(k))

\* find_task_file: *-<name>/task.md, else <name>/*-<name>.md, else *-<name>.md.
Match(name) ==
    LET hits(layout) == {k \in DOMAIN records : k.layout = layout /\ EndsIn(Stem(k), name)}
        own == {k \in hits("sub") : k.name = name}
    IN  IF hits("dir") # {} THEN hits("dir") ELSE IF own # {} THEN own ELSE hits("flat")

Found(name) == Latest(Match(name))
NewKey(key) == [key EXCEPT !.layout = "dir"]

\* A file is written, in place of those of `gone`.
WithFile(files, gone, key, file) ==
    [k \in (DOMAIN files \ gone) \cup {key} |-> IF k = key THEN file ELSE files[k]]

\* The records once the file found for the name has been moved to its new layout, and
\* written with `status` unless that is "".
Migrated(name, status, by) ==
    LET old == Found(name)
        file == IF status \in {"", records[old].status} THEN records[old]
                ELSE [status |-> status, by |-> by]
    IN  IF Match(name) = {} THEN records ELSE WithFile(records, {old}, NewKey(old), file)

RecordsInit ==
    /\ setup \in DOMAIN Setups
    /\ today = 1
    /\ records = [k \in Setup.legacy |-> [status |-> "in-progress", by |-> k.name]]
    /\ task = [n \in TaskNames |-> IF \E k \in Setup.legacy : k.name = n THEN "open" ELSE "none"]
    /\ mounts = [n \in TaskNames |-> <<>>]
-----------------------------------------------------------------------------
Midnight ==
    /\ today < Len(Days) /\ today' = today + 1
    /\ UNCHANGED <<setup, records, task, mounts>>

\* create: write_task_file in a directory of today's date.
WriteTaskFile(n) ==
    /\ task[n] \in {"none", "done"}
    /\ records' = WithFile(records, {}, [layout |-> "dir", day |-> Days[today], name |-> n],
                      [status |-> "in-progress", by |-> n])
    /\ task' = [task EXCEPT ![n] = "open"]
    /\ UNCHANGED <<setup, today, mounts>>

GitDirs == {"refs", "logs", "worktrees"}
TaskDir(name, found) == Append(Tasks(Repo), Stem(found))

\* The session's checkout, and the repositories it includes.
CheckoutMounts(n) ==
    IF Setup.bare THEN <<Bind(Repo, Repo, "RW", Setup.config.follow)>>
    ELSE GitWorktreeMounts(Repo, n, GitDirs)
         \o <<Bind(Worktree(Repo, n), Worktree(Repo, n), "RW", Setup.config.follow)>>

Isolated1(e) == e.mode = "worktree" /\ e.there /\ ~Setup.bare

IncludedMounts(n) ==
    FlattenSeq([i \in DOMAIN Setup.includes |->
        LET e == Setup.includes[i] IN IncludeMounts(e.path, e.mode, n, Isolated1(e), GitDirs)])

Assembled(n, store) ==
    Validate(ExpandLinks(CheckoutMounts(n) \o CommonMounts(Setup.config) \o store
                         \o IncludedMounts(n), Setup.links))

\* MUTANT: the directory of all tasks is left as the checkout has it.
BuildMountsOpen(n) == Assembled(n, <<Mirror(Hatchery(Repo), "RW")>>)

\* build_mounts in no-commit mode; the task file is found once more.
BuildMounts(n) ==
    Assembled(n, <<Mirror(Hatchery(Repo), "RO")>>
                 \o IF Match(n) = {} THEN <<>>
                    ELSE <<Mirror(TaskDir(n, NewKey(Found(n))), "RW")>>)

LaunchTask(n) ==
    /\ task[n] = "open"
    /\ records' = Migrated(n, "", n)
    /\ mounts' = [mounts EXCEPT ![n] = BuildMounts(n)]
    /\ task' = [task EXCEPT ![n] = "running"]
    /\ UNCHANGED <<setup, today>>

\* The agent finishes the file it was told of, if its container may write it.
AgentCompletes(n) ==
    /\ task[n] = "running" /\ Match(n) # {}
    /\ Writable(mounts[n], TaskDir(n, NewKey(Found(n))))
    /\ records' = Migrated(n, "complete", n)
    /\ UNCHANGED <<setup, today, task, mounts>>

LeaveTask(n) ==
    /\ task[n] = "running"
    /\ task' = [task EXCEPT ![n] = "open"]
    /\ mounts' = [mounts EXCEPT ![n] = <<>>]
    /\ UNCHANGED <<setup, today, records>>

\* done: the file's status first; a missing file or one that matches is left.
CompleteTask(n) ==
    /\ task[n] = "open"
    /\ records' = Migrated(n, "complete", n)
    /\ task' = [task EXCEPT ![n] = "done"]
    /\ UNCHANGED <<setup, today, mounts>>

\* resume of a task that was done; without a worktree the file is left as it is.
ReviveTask(n) ==
    /\ task[n] = "done"
    /\ records' = IF Setup.bare THEN records ELSE Migrated(n, "in-progress", n)
    /\ task' = [task EXCEPT ![n] = "open"]
    /\ UNCHANGED <<setup, today, mounts>>

RecordsNext ==
    \/ Midnight
    \/ \E n \in Setup.names : WriteTaskFile(n) \/ LaunchTask(n) \/ AgentCompletes(n) \/ LeaveTask(n)
                            \/ CompleteTask(n) \/ ReviveTask(n)

RecordsSpec == RecordsInit /\ [][RecordsNext]_recordsVars
-----------------------------------------------------------------------------
RecordsTypeOK ==
    /\ setup \in DOMAIN Setups
    /\ today \in DOMAIN Days
    /\ DOMAIN records \subseteq Key
    /\ \A k \in DOMAIN records : /\ records[k].status \in {"in-progress", "complete"}
                                 /\ records[k].by \in TaskNames
    /\ task \in [TaskNames -> {"none", "open", "running", "done"}]
    /\ \A n \in TaskNames : task[n] # "running" => mounts[n] = <<>>

\* A task's file was last written for that task, by its commands or its agent.  The
\* exception is a name that the other's ends in: the newest file of *-fix may be that
\* of my-fix.
OwnRecords ==
    \A k \in DOMAIN records : records[k].by # k.name => EndsIn(k.name, records[k].by)

\* No task touches another's record: neither its commands nor its agent write it, and
\* its container can not, up to the same exception; what it was started for, its own
\* worktree and record, the container can write, and of an included repository what the
\* entry's mode says.
OwnFiles ==
    /\ OwnRecords
    /\ \A n \in TaskNames : task[n] = "running" =>
          /\ \A k \in DOMAIN records :
                k.layout = "dir" /\ Writable(mounts[n], TaskDir(n, k)) =>
                    k.name = n \/ EndsIn(k.name, n)
          /\ (\A m \in Setup.names : ~EndsIn(m, n)) =>
                \E k \in DOMAIN records : k.name = n /\ Writable(mounts[n], TaskDir(n, k))
          /\ Setup.bare \/ \A m \in TaskNames : Writable(mounts[n], Worktree(Repo, m)) <=> m = n
          /\ ~Writable(mounts[n], Append(Hatchery(Repo), "docker.yaml"))
          /\ \A i \in DOMAIN Setup.includes :
                LET e == Setup.includes[i]
                IN  /\ Writable(mounts[n], Append(e.path, "src")) <=>
                          e.mode = "rw" \/ (e.mode = "worktree" /\ ~Isolated1(e))
                    /\ \A m \in TaskNames : Isolated1(e) =>
                          (Writable(mounts[n], Worktree(e.path, m)) <=> m = n)
=============================================================================
