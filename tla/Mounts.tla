------------------------------- MODULE Mounts -------------------------------
(***************************************************************************)
(* The mounts of a container, as functions of what the launch knows.  A    *)
(* path is a sequence of components.  Container paths mirror host paths;   *)
(* where mounts nest the one with the longest destination is seen, and of  *)
(* two with the same the later.                                            *)
(***************************************************************************)
EXTENDS Naturals, Sequences, SequencesExt, FiniteSetsExt

CONSTANTS
    Repo,       \* the path of the main checkout
    System,     \* paths that the image provides (SYSTEM_MOUNT_BLOCKLIST)
    Home        \* the home directories: [host |-> ..., container |-> ...]

ASSUME MountsAssumption == Repo \notin System /\ Len(Repo) > 0

Bind(src, dst, mode, links) == [src |-> src, dst |-> dst, mode |-> mode, links |-> links]
Mirror(path, mode) == Bind(path, path, mode, FALSE)
Within(path, root) == IsPrefix(root, path)

IsSeq(p) == Len(p) \in Nat /\ p = [i \in 1 .. Len(p) |-> p[i]]
\* A named volume is a mount too; its source is no path of the host.
MountModes == {"RO", "RW", "VOLUME"}
IsMount(m) == /\ m = Bind(m.src, m.dst, m.mode, m.links) /\ IsSeq(m.src) /\ IsSeq(m.dst)
              /\ m.mode \in MountModes /\ m.links \in BOOLEAN
              /\ m.mode = "VOLUME" => ~m.links

\* The elements at the positions in `keep`.
Only(seq, keep) == FlattenSeq([i \in DOMAIN seq |-> IF i \in keep THEN <<seq[i]>> ELSE <<>>])

Git(root) == Append(root, "git")
Hatchery(root) == Append(root, "hatchery")
Worktree(root, name) == Hatchery(root) \o <<"worktrees", name>>
Tasks(root) == Append(Hatchery(root), "tasks")

\* _git_worktree_mounts: the repository read-only, and of its .git what a commit on the
\* task's branch has to write.  `there` holds the directories of .git that exist.
GitWorktreeMounts(root, name, there) ==
    LET rw(sub) == Mirror(Git(root) \o sub, "RW")
        wanted == <<<<"refs">>, <<"logs">>, <<"worktrees", name>>>>
    IN  <<Mirror(root, "RO"), rw(<<>>), rw(<<"objects">>)>>
        \o Only([i \in 1 .. 3 |-> rw(wanted[i])], {i \in 1 .. 3 : wanted[i][1] \in there})

\* What each container has besides: the user's .gitconfig, the volumes and directories of
\* the agent (construct_mounts), the mounts of docker.yaml whose host path exists, its
\* volumes, and the directory of pasted images.
GitConfig == Bind(Append(Home.host, "gitconfig"), Append(Home.container, "gitconfig"), "RO", FALSE)
CommonMounts(config) ==
    (IF GitConfig.src \in config.exist THEN <<GitConfig>> ELSE <<>>)
    \o config.agent
    \o Only(config.mounts, {i \in DOMAIN config.mounts : config.mounts[i].src \in config.exist})
    \o config.volumes
    \o (IF config.clipboard THEN <<Mirror(Append(Home.host, "clipboard"), "RW")>> ELSE <<>>)

\* _docker_mounts_includes, for one entry: a worktree that is there is mounted in
\* layers as the session's own is; without it the repository is, read-write.
IncludeMounts(path, mode, name, isolated, there) ==
    CASE mode = "worktree" /\ isolated ->
            GitWorktreeMounts(path, name, there) \o <<Mirror(Worktree(path, name), "RW")>>
      [] mode = "worktree" /\ ~isolated -> <<Mirror(path, "RW")>>
      [] mode \in {"rw", "ro"} -> <<Mirror(path, IF mode = "rw" THEN "RW" ELSE "RO")>>
      [] OTHER -> <<>>
-----------------------------------------------------------------------------
\* normpath of an absolute path with "..": the root is its own parent.
Descend(p, c) == IF c # ".." THEN Append(p, c) ELSE IF p = <<>> THEN p ELSE Front(p)
Normal(path) ==
    LET upTo[i \in 0 .. Len(path)] == IF i = 0 THEN <<>> ELSE Descend(upTo[i - 1], path[i])
    IN  upTo[Len(path)]

\* Where a link of a followed mount points to inside the container.
\* A link: where it is on the host, what is stored in it (`raw`, absolute or not), and
\* the host path it resolves to, <<>> when it dangles.
Destination(m, link) ==
    Normal(IF link.absolute THEN link.raw
           ELSE m.dst \o SubSeq(link.at, Len(m.src) + 1, Len(link.at) - 1) \o link.raw)

\* A link needs a mount of its target when its destination is in no mount's, contains
\* none, and the target is there.
Needs(m, link, mounts) ==
    LET d == Destination(m, link)
    IN  /\ Within(link.at, m.src) /\ link.at # m.src /\ link.target # <<>>
        /\ d # <<>>
        /\ \A i \in DOMAIN mounts : ~Within(d, mounts[i].dst) /\ ~Within(mounts[i].dst, d)

\* expand_link_mounts: the first of two links onto one path wins.
ExpandLinks(mounts, links) ==
    LET extra(m) ==
            LET needed == {l \in links : Needs(m, l, mounts)}
            IN  SetToSeq({Bind(l.target, Destination(m, l), m.mode, FALSE) : l \in needed})
        all == FlattenSeq([i \in DOMAIN mounts |->
                              IF mounts[i].links THEN extra(mounts[i]) ELSE <<>>])
    IN  [i \in DOMAIN mounts |-> [mounts[i] EXCEPT !.links = FALSE]]
        \o Only(all, {i \in DOMAIN all : \A j \in 1 .. i - 1 : all[j].dst # all[i].dst})

\* _validate_mounts drops what would cover the image's own files, but for volumes.
Validate(mounts) ==
    Only(mounts, {i \in DOMAIN mounts :
                     \/ mounts[i].mode = "VOLUME"
                     \/ \A root \in System : ~Within(mounts[i].dst, root)})
-----------------------------------------------------------------------------
\* The mount that a container path is served by, 0 for the image itself.
Serving(mounts, path) ==
    LET over == {i \in DOMAIN mounts : Within(path, mounts[i].dst)}
        deepest == {i \in over : \A j \in over : Len(mounts[j].dst) <= Len(mounts[i].dst)}
    IN  IF over = {} THEN 0 ELSE Max(deepest)

\* A host path of a mirrored tree can be written from the container.
Writable(mounts, path) ==
    LET i == Serving(mounts, path)
    IN  i # 0 /\ mounts[i].mode = "RW" /\ mounts[i].src = mounts[i].dst
=============================================================================
