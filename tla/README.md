# Verification of seekr-hatchery

Hatchery is a command line tool that runs coding agents in isolated sessions: a
*task* has a git worktree and a branch of its own, a *chat* has neither; both run
in a container whose volumes keep the agent's conversation. This directory holds
TLA+ models of the program, TLC configurations that check them on small
instances, and proofs checked by TLAPS. Paths below are relative to
`src/src/seekr_hatchery/`.

## Inventory

| Component | State | Operations | What is hard | Correct when |
|---|---|---|---|---|
| session lifecycle (`sessions.py`, `models.py`) | `~/.hatchery/tasks/<repo-id>/<name>/meta.json`, in-memory `SessionMeta` copies | create, promote_chat, rename_chat, restore_worktree_if_needed, launch, mark_done, archive, delete, set_status | no lock on meta.json; whole-file writes from stale copies; kills between steps; a background poller that also writes | a session keeps its runtime identity, its commits and its conversation until the user gives them up |
| command line (`cli.py`) | prompts, the process's own copy of the metadata | new, chat, promote, rename, resume, done, archive, delete, post-exit menus | state read before a prompt and used after it; Ctrl-C handlers that roll git back | a command does what it says or nothing; nothing is deleted unasked |
| git operations (`git.py`) | worktrees, branches | create_worktree (attach or reset), remove_worktree, delete_branch, include worktrees | `-B` resets, `-D` deletes; branches shared with the user | user branches survive; a parked task can be restored from its branch |
| agent backends (`agents/`) | credentials files, token in memory, session ids | command construction, id poller, token refresh, volume seeds | refresh by several threads of several processes; poller racing the run's end | one refresh at a time, tokens never go back |
| locks (`locks.py`) | flock files | hatchery_lock | death of the holder | mutual exclusion, released on death |
| seeded volumes (`seeded_volumes.py`) | container volumes | prepare_volume_mounts, cleanup_task_volumes | creation and seeding are two steps; racing launches | an agent never starts on an unseeded volume |
| container runtime (`docker.py`) | docker.yaml layers, images, the container | resolve_runtime, config merge, run_session | order of start and teardown, no silent downgrade to native | declared isolation is what runs |
| sidecars (`sidecars/`) | proxies, their ports and tokens | run_sidecars; API, kubectl, OCI and S3 proxies | partial start, teardown order, 401 retry, WebSocket relay, request policies | what was started is stopped; policies admit only what is declared |
| PTY proxy (`pty_proxy.py`, `stream_interceptor/`) | the pump's buffers, the terminal's mode and size, saved images | set-up, pump, interceptors, wait, restore | both directions in one thread, blocking and partial writes, signals between any two steps | no byte lost or reordered; the terminal is restored; the run ends |
| database migration (`sessions.py`) | the version stamp, records, stores | migrate_db at every start | no lock, kills half-way, copies across devices | nothing is lost, the stamp is true, some start completes it |
| sandbox files (`utils/`, `sessions.py`, `cli.py`) | Dockerfile, docker.yaml, configuration files, their `.bak` | edit, update, shell scaffolding, commit | what is put back was read earlier; backups left over | an edit is all or nothing |
| includes (`includes.py`, `git.py`) | a worktree and a branch per repository and session name | create, resume, done, archive, delete, rollback, --include | several repositories one after another; sessions that share a name | work done in an included repository is kept; the agent never works in the repository's own checkout |
| task files (`sessions.py`) | one directory per no-commit repository | find, migrate, write, mark | found by the end of a name, three layouts | no task touches another's file |
| mounts (`docker.py`, `mount_links.py`) | lists derived at launch | assembly, links, validation | nesting, order, links out of a mount | the container writes what its task owns |
| configuration | layered settings | merging | precedence | declared precedence |
| user interface, logging, templates | none | output | - | - |

Interactions: a CLI process calls `sessions`, which calls `git` and `docker`;
the processes share only files (metadata, worktrees, credentials, locks), the git
repository and the container runtime. Inside a process the agent run goes along
with poller threads, sidecar server threads and the PTY pump.

## Modules

| Module | What it is |
|---|---|
| `SessionLifecycle` | the session commands of several concurrent CLI processes on one store |
| `SessionContract` | what the store promises about a session (abstract specification) |
| `SessionLifecycleProofs` | theorems about `SessionLifecycle` for any number of processes, proved with TLAPS |
| `SessionSequentialProofs` | theorems about commands given one after another, the refinement of `SessionContract` among them, proved with TLAPS |
| `TokenRefresh` | the shared OAuth login: proxies, their threads, the refresh lock, agent CLIs |
| `SharedToken` | what sharing a login promises (abstract specification) |
| `TokenRefreshProofs` | theorems about `TokenRefresh`, proved with TLAPS |
| `Launch` | launching a session's container: token, image, volumes, sidecars, run, teardown |
| `LaunchProofs` | theorems about `Launch`: its sidecars, and what successive launches find, proved with TLAPS |
| `PtyPump` | the agent's terminal: run_with_pty, the pump, the paste interceptor |
| `RequestPolicy` | which requests the sidecars' proxies let through, as operators |
| `ProxyServer` | the four sidecar proxies: connections, handlers, close |
| `TrafficProofs` | theorems about `PtyPump` and `ProxyServer`, proved with TLAPS |
| `Migration` | migrate_db, run by several starts of the command line, with kills |
| `MigrationProofs` | theorems about `Migration`, proved with TLAPS |
| `Includes` | the repositories a session includes: their worktrees and branches |
| `IncludesProofs` | theorems about `Includes`, proved with TLAPS |
| `Mounts` | the mounts of a container, as operators |
| `TaskRecords` | the task files of a no-commit repository, and who can write them |
| `SandboxFiles` | the commands that edit or update a sandbox's files |
| `HostFilesProofs` | theorems about `TaskRecords` with `Mounts`, `SandboxFiles` and `MCHostFiles`, proved with TLAPS |
| `MCSessionLifecycle`, `MCTokenRefresh`, `MCLaunch` | finite values and symmetry for TLC |
| `MCTraffic` | `PtyPump` and `ProxyServer` side by side, with finite values |
| `MCHostFiles` | `Migration`, `Includes`, `TaskRecords` and `SandboxFiles` side by side, with finite values |

### SessionLifecycle

*State.* `meta[n]` is the meta.json in the directory of name n, reduced to the
fields that steer the lifecycle; `dirs` are the session directories that exist
(a deleted session leaves its directory). `wt`, `branches` and `work` are git:
which branch a worktree has checked out, which branches exist, and whose commits
each holds (`User` stands for commits made before hatchery came). `vol` says
which conversations a runtime volume holds. `proc[p]` is a CLI process: where it
is in its command, its in-memory `SessionMeta` m, and a key (the new name of a
rename, the old one of a promotion). `poll[p]` are the meta objects held by live
session-id pollers. The remaining variables are observations that nothing in the
code reads: what was committed (by which session, and to which branch: a session
that changes its branch, by a rename, leaves the commits where they are) and
said, what the user gave up, and the name under which each session was created. `uid` identifies a conversation across
renames; it is not in the file.

*Actions.* A command is cut wherever another process can come in between: after
loading meta.json (the user is prompted), after each git command, after moving a
directory, and before each save. So `Resume; Restore; RestoreSave; ResumeKind;
Launch; AgentExits; PostExit; ...` are the steps of `cmd_resume`. A save writes the
process's whole copy, as the code does. `Kill` ends a process at any step and
stands for SIGKILL, a closed terminal and every error that escapes a command.
`Finished` is a stutter for the state where no process is in a command.

*Abstractions.* The remote: `git fetch` fails, so bases and branches resolve
locally. Uncommitted changes are left out; includes, task files and Docker files have
modules of their own.
A new branch starts without commits of its own. `set_status` (load, change,
save, a few lines apart) is one step. Ctrl-C is taken while the agent runs, at
the prompts after it and while `create` prepares the worktree. `done a b` is
`done a; done b`, and `delete a b` likewise.

### TokenRefresh

*State.* `state[p]` is the token in the header mutator of proxy p, shared by its
handler threads; `lock` is the flock file; `req[h]` is the request thread h
serves: its step, the token sent, and the locals of `_refresh` (the CLI, the old
mtime, the token read). `up` are the proxies that run. The rest is external: the
login server issues numbered tokens and refuses all but the newest, which may
expire; the token file holds one and is unreadable between truncation and write;
CLIs rotate the login with the file's one-time refresh token, at hatchery's
request or the user's. `excused` is an observation.

*Actions.* `Send, Refused, Acquire, ..., Leave, Resend, Forward401` are
`_handle_request` with the single retry after a 401. Under the lock codex runs
`CheckFile; Spawn; FileChanged or TimedOut; ReadFile; Leave`, and pi, which asks
its CLI for the credential, `Spawn; CliAnswered; Leave`. Reading a token and
storing it in `state` are two steps. `Kill` ends a proxy with all its threads:
the kernel releases the lock, the CLI goes on.

*Abstractions.* OAuth only: API keys and custom providers are not refreshed.
WebSocket upgrades have no retry and are in `ProxyServer`. A 502 is an `Answer`. No
OPENAI_API_KEY is set. Two writes of the file never have one mtime.

### Launch

*State.* `tokenFile` is the session's `proxy_token`, named after the process that
wrote it, or `Blank` while `write_text` has emptied the file. `volume[v]` says
whether a volume is missing, `Empty`, or seeded with which token; volumes outside
`Seeded` are the ones from docker.yaml. `client[k]` is whose proxies the client files of
sidecar k (kubeconfig, aws/, oci/) name. `container` is the process whose container
has the session's container name. `proc[p]` is one launch: its step and the locals
of `run_session`, `prepare_volume_mounts`, `run_sidecars` (`started`) and
`KubectlSidecar.start`. `up[p]` is what p's sidecars keep up on the host: a server
thread per proxy, and per kubectl context an RBAC server and a child process.
`stranded`, `cutOff`, `overlapped` and `used` are observations.

*Actions.* `FindToken; OpenTokenFile; WriteToken; PrepareSidecars; BuildImage;`
then per volume `InspectVolume; CreateVolume; SeedVolume` (or `SeedFails;
DropVolume`), per proxy `StartServer`, for kubectl `StartKubectl`, per context
`StartProxyProcess; StartRbacServer`, and `WriteKubeconfig; Run; ContainerEnds;
StopSidecar; ...; EndLaunch`. Each external call may fail, and the failure goes
where the code's handlers send it: out of the launch before `run_sidecars`, to the
teardown under it. `Interrupt` is a KeyboardInterrupt, which no `except Exception`
catches. `Kill` takes the threads with the process, not its children nor the
container. `LaunchShell` is `launch_sandbox_shell`, which has no container name, no
seeded volumes and a directory of its own.

*Abstractions.* One session. Starting a server and writing its client files is one
step that may fail before or after the server is up. The kubectl proxy token is
found and written like the proxy token and left out. What an agent writes is that
its volumes are `used`. Failures of a runtime that has just answered are those its
callers check. Files of a launch that failed half-way through writing them are not
told from the old ones: no agent runs on them.

### PtyPump

*State.* `phase` is where `run_with_pty` is: its set-up, a step of `_pump`, the wait
for the child, or how it was left. `typed`, `read`, `toChild`, `taken` follow the
keys from the user through the pump to the child, `printed`, `outbuf`, `shown` the
output back; `pending` is what `_write_all` has still to write. `tty`, `winch`,
`sigwinch`, `ttySize`, `ptySize` are the terminal's mode, the handler, a pending
signal and the two sizes; `imageFiles` the pasted images on disk.

*Actions.* `OpenPty; EnterRaw; HandleWinch; Spawn`, then the loop `CheckRunning;
Select; ReadStdin; WriteMaster; ReadMaster; WriteStdout`, one per system call, then
`WaitForChild` or, with an interrupt, `AtExit`. An `Interrupt` may fall between any two
steps of the set-up and of the pump, and inside the finally clause, before or within the
restore. `Restore` is `_restore_termios`: it marks itself done before it calls tcsetattr,
so what fails (the terminal is gone) or is interrupted is "given up", and the atexit hook
does not try it again. A write may be partial and blocks
while the PTY is full. `OnWinch` may run between any two of them. `Intercepted` is the
paste interceptor over a whole chunk, with the answers of the clipboard tools: `Scanned`
is one byte of its scan, `Pasted` what becomes of a paste key.

*Abstractions.* Bytes are model values or the numbers of what was printed; a
reference typed in place of a key is a record of its path. The interceptor for
output does nothing, as in the code.

*Where the code does less than its words.* The pump blocks in a write of what a
child did not read before it exited (`Stuck`, against pty_proxy.py:74 "until
is_running() returns False"); a paste key whose image cannot be saved is dropped;
a resize that comes after the size was read and before the handler is
installed is not forwarded (pty_proxy.py:195); a restore that failed or was
interrupted is not tried again, against the comment "Either restore is idempotent"
(pty_proxy.py:179). The four are excuses in `EndsWithChild`, `KeysArrive`, `SizeInSync`
and `TerminalRestored`, which is silent, too, of a process killed outright: SIGTERM and
SIGKILL run no hook. What the child printed and the pump has not read when the child ends
is not shown; what an interrupt leaves in hand is dropped. `OutputArrives` and `KeysArrive`
claim completeness only while the pump runs.

### RequestPolicy and ProxyServer

*State.* `service` picks one sidecar with its profiles and the requests made of it.
`conn[c]` is a connection: where its handler is, the proxy's end of the socket,
whether the client is there, silent or gone, what the upstream does, and what the
client was sent. `tracked` is the OCI and S3 servers' list of active sockets, `toSever`
those that close() has still to close.

*Actions.* A handler goes `Connect; Handshake; ReadHead; ReadBody; Forward;
NoAnswer` or `Respond; Stream` (or `StreamBroken`)`; Release`, with
`RefreshAndResend` for the API proxy's one retry and `Switch; RelayRead; WriteUp;
WriteBack; RelayEnds; RelayJoin` for its WebSockets. `Withdraw` and `UpstreamActs` are
the two ends; `Shutdown; StopAccepting; ListActive; Sever; CloseServer` is the end of
the server, under running handlers. `Verdict` is what a handler makes of a request,
by the operators of `RequestPolicy`: credentials, the permission a request needs, the
rules that cover it. `ForwardedIsCovered` compares this with what the upstream does
on the request (`does`, given with the request, from the interfaces of the services).
`Truthful` is the part of this that is about the upstreams alone: they read a path segment
by segment as the policy does, and do on a request nothing but what the policy takes it
for. It is checked of the requests of the run (`TruthfulRequests`) and a hypothesis of the
theorem. It says nothing of the paths that the RBAC proxy takes for discovery.

*The exception of discovery.* The RBAC proxy looks its rules up for the resource it finds in
a path; where its patterns find none, it takes the path for discovery and forwards it
without asking the rules (rbac_proxy.py:279). `ForwardedIsCovered` claims nothing of the
effect of such a request (`TakenForDiscovery`), only that its token was valid. Among the
requests of the run is one of a resource whose path the proxy does not know, the status of a
node. This differs from docs/sidecars/kubernetes.md:35 ("Unmatched requests are denied")
and from the proxy's own docstring (rbac_proxy.py:13-14); it has no run of its own.

*Abstractions.* Names are sequences of parts and prefixes are prefixes of those; a query
is its set of keys. An answer has at most `MaxParts` parts.

*Divergences the properties excuse.* The kubectl handler, and the API handler of a
refused upgrade, answer a stream that breaks off with a second status line; the API and
kubectl handlers raise on a Content-Length that is no number, and with a negative one read
until the client ends the stream (`ReadBody`, `EndBody`; the OCI and S3 handlers refuse
both); their clients have no
time-outs and their close leaves handlers (daemon threads) running; kubectl makes the
TLS handshake in its accept loop, so that a silent client holds up others and the
shutdown. Closing the OCI and S3 servers severs what runs, and is proved to.

### Migration

*State.* The files of an older release: `stamp` (the version), `scoped[n]` and
`record[n]` (a session's two places), `store`, `hatchery` and `aside` (the three places of
an item of a no-commit repository), `shelf` (what else the store holds) and `exclude`.
`start[p]` is a start of the command line, with the list and the element of its loop.
`latest`, `overlapped` and `cut` are observations.

*Actions.* `ReadVersion; CheckName; OpenRecord; FillRecord; Unlink; ...; ListStore;
CheckItem; Move` (across devices `Move; CopyEnds; Clear`)`; OpenExclude; FillExclude;
RemoveStore; WriteStamp; Command`. Each write of a file is two steps, the truncation
and the content. `Kill` falls anywhere. Two starts at once on a store of
another device are excluded (`MigrationAssumption`) although the code, which takes no lock,
allows them: shutil.move copies into a directory that has come about meanwhile, and nests
the copy there. Nothing is claimed of that case, by the run or by the theorems.

*Excuses.* `DataKept` names the windows the code leaves: a kill between truncation and
content, a kill during the removal of a tree already copied aside (the next start
removes the copy first, against sessions.py:395), and, with two starts at once, a
record saved meanwhile and the lines of .git/info/exclude.

### Includes

*State.* `tree[r][n]` and `branch[r][n]` are the worktree and the branch of session name n
in repository r, with whose changes and commits they hold; `include[s]` is the saved list
of entries, `main[s]` whether the session's own worktree is there, `job[s]` the command at
work: its stage, its entries, those still to do and those a rollback undoes.
`begun`, `committed`, `broken` and `forsaken` are observations.

*Actions.* A command does one entry per step: `CreateTask; AddTree; MoreEntries;
CreateDone`, `ResumeTask; AddTree; Restored; Flag; Launched`, `End; RemoveTree;
TreesRemoved; DeleteIncluded; Ended1`; `Rollback` and `FirstLaunchInterrupted` are Ctrl-C,
`AddFails` a failure of git, `KillCommand` a kill. `AgentEdits` and `AgentCommits` are
the agents.

*What it shows of the code.* Sessions of one name share worktree and branch in an included
repository. A rollback and a delete ask for the branch also when it was there before
(git.py:271), and done and archive remove worktrees by force. A session without a
worktree leaves those of its includes behind. A restore that is interrupted never
restores the missing worktrees, and mounts the repository read-write in their place; an
interrupt inside create leaves the worktrees of the entries at work. The properties say
what remains true: see the conditions of `IncludedWorkKept` and `Isolated`.

### TaskRecords and Mounts

`TaskRecords` keeps the task files of one no-commit repository (`records`), its tasks and
the mounts of their containers. Commands find a file by the end of its name, move older
layouts to the new one and rewrite the status (`Found`, `Migrated`); a launch assembles its
mounts with the operators of `Mounts`: the repository's, the user's .gitconfig if there is
one, the agent's own volumes and directories (`construct_mounts`), those of docker.yaml, and
the pasted images; links are followed from directories, and the validation keeps volumes
and drops bind mounts that would cover the image's own files. `Mounts` also says which path
a container can write (`Writable`: the longest destination wins, and of two the later). What
resolves links on the host is given. `Instance` says what an instance may be; `Separate` is
what `OwnFiles` needs besides, and each instance that is run satisfies it: the mounts and
volumes of the agent and of docker.yaml do not lie in a repository of the task, the
repositories lie neither in one another nor around or in the image's own directories. Where
a user's docker.yaml mounts something into a repository, read-write say, the deeper mount
decides, as it should, and `OwnFiles` promises nothing. Three divergences: the pattern for
`fix` also finds the file of `my-fix` (the exception in `OwnFiles`, against docker.py:1112,
"exposes no other task's files"); a revived task without a worktree keeps the status
"complete" in its file; and the git metadata of other worktrees, which docker.py:1019-1020
says is protected read-only, lies in a `.git` that is mounted read-write. `OwnFiles` is
about worktrees and task files and says nothing of the last.

### SandboxFiles

`sandbox` and `backup` are one file and its `.bak`, `index` and `head` git's. Each of two
terminals runs `sandbox edit`, `harness edit` or `config edit` (`EditBegins; Seed;
Prepare; EditorSaves; EditorCloses; ContinueEditing; GiveUp; UnlinkBackup; Accept`),
`harness update` (`UpdateBegins; WritePin; DetectRuntime; Build; Revert`) or `sandbox
shell` (`ShellBegins`), each with its commit (`GitAdd; GitCommit`), and may be left
anywhere (`Leave`). Content is who wrote it, whether it is valid and the version
pinned. `AllOrNothing` speaks of commands that no other overlapped and that found no
backup: a killed edit leaves its backup and possibly an invalid file; a later edit
may restore a backup left over when the file is gone; edits that overlap share one
backup; an update that reverts overwrites an edit made meanwhile; and without a
container runtime an update ends with the new pin unbuilt.

## Runs

| Run | Instance | Shows |
|---|---|---|
| `session_concurrent` | 2 processes, 3 commands, 3 names, 3 sessions, 2 user branches, one with the name a session may be given, a chat from an older version | committed work and conversations survive every interleaving, and so do user branches but one that is given to a session as its generated branch |
| `session_poller` | 2 processes, 2 commands, 1 kill, pollers | copies are well formed, the runtime identity is immutable |
| `session_sequential` | 1 process, 3 commands, 2 names that may be used again, chat-N numbering, fairness | the store implements `SessionContract`; parking, status and deletion are complete |
| `session_numbered_chats` | 1 process, 3 commands | violated: two sessions with one runtime name |
| `session_promoted_while_running` | 2 processes, 2 commands | violated: a chat promoted under its running agent |
| `session_interrupted` | 1 process, 2 commands | violated: commits lost to Ctrl-C in `new` |
| `session_bare_prefix` | 1 process, 2 commands, an empty prefix and a user branch with the name of a task | violated: the user's branch is reset |
| `token_shared` | 2 proxies, 3 threads, 2 CLIs, 2 tokens after the first, or 1 and a kill; 1,570,462 states | one thread refreshes at a time, tokens move forward, a good token found is used |
| `launch_failures` | 2 launches, overlapping or not; a seeded and a plain volume, a proxy with client files, 2 kubectl contexts; kills | what was started is stopped, a running container has its proxies, later launches find and keep what earlier ones left |
| `launch_half_seeded` | 2 launches one after the other, 1 seeded volume, no kills | violated: an agent runs on an unseeded volume |
| `traffic` | a terminal with up to 2 bytes each way (5 scenarios), or a connection or two to one of 8 services, or a login: 1 proxy, 2 threads, 1 CLI at a time, 1 token after the first, 1 kill; 91,371 states | keys, pastes, output and sizes pass the pump in order and the run ends with its child; only covered requests are forwarded (but for the exception of discovery), each is answered once and ends, and closed servers are silent; every request is answered whatever becomes of its refresh |
| `host_files` | 7 disks with 1 or 2 starts and up to 2 kills; 3 cases of includes; 2 sets of tasks; 3 kinds of files with 2 commands; 354,433 states | a migration loses nothing and is completed; included work is kept and isolated; tasks write their own files; edits are all or nothing |

*Bounds.* `MaxOps` bounds the commands issued, `MaxKills` the kills. Two
processes and three commands are enough for the smallest harmful schedules we
know: one session created, and two commands on it or on another session that
attaches to the same branch. Three names allow a rename and a promotion away from
a name while it is used by a third session. Processes are interchangeable, and so
are the identities of sessions not in the store at the start, hence the symmetry
(used in runs without liveness only). `FreshNames` in the concurrent runs keeps a
user from reusing a name: doing so on purpose replaces a parked session, which
`session_sequential` allows and `SessionContract!Replace` describes.
In `TokenRefresh`, `Budgets` holds pairs of how many tokens are issued after the
first and how many processes are killed. One token more is the least with which an
old token can replace a newer one, or one be adopted that has expired since; with a
second one the user logs in again after a refresh. `token_shared` has two tokens
without a kill, or one with a kill; the theorems are for any number of tokens and
kills. Two threads of one proxy and one of another give both kinds of sharing, and a
second CLI lets the user's agent rotate the login during a refresh. The threads of
one proxy are interchangeable, and so are the CLIs.

In `Launch`, two processes give a launch its predecessor and its rival. One
volume with a seed and one without, and one server before kubectl, are each the
least with which a failure can come between two of them; two contexts allow one to
fail and one to serve. `MayOverlap` and `MayKill` admit overlapping launches and
kills. The processes are interchangeable. No property of `Launch` is a liveness
property, so it states no fairness.

`traffic` and `host_files` each explore several modules that share no state. A variable
`part` picks one, and the others stay in their first initial state, so the states of the
parts add up and do not multiply.

The login of `traffic` is `TokenRefresh` as it is, with one CLI, so that a hanging one is in
everybody's way, and codex for a backend in the other parts.

In `traffic`, two bytes with a read size of two cover a key and a paste key, a paste key
split over two reads, and two pastes in one second; a PTY that buffers one byte makes writes
partial and full. Each service comes once with all its requests and no faults, for the
policy, and once with a single request and every fault, for the handlers; one has two
connections, the least for a close between two. One part of an answer's body
(`MaxParts`) is enough for a break before and after it.

In `host_files`, the disks hold a record that parses and one that does not, a torn
version, one item and two, an item that collides, a store on another device, a repository
that is gone, and one that needs nothing; two starts race, two kills fall into a copy and
its repetition. The includes are a session without a worktree, one whose entries change,
with a branch from before, and two that share a name. `MaxRuns = 2` commands and one save (`MaxEdits`)
are the least with which one command finds what another left; `MaxPin = 2` is the least
with something to update to.

*Fairness.* `FairSpec` asks weak fairness of a process's own steps, that is of
straight-line code between prompts. The user's answers, the agent's work, its
exit and kills are not fair. `DeleteReclaims` needs it: once a deletion is
confirmed, unlinking and volume removal follow without a prompt. It holds for
commands issued one after another and without kills; a kill after the unlink
leaves the volumes, and another process with an old copy can bring the session
back, so it is not claimed there.

`TokenRefresh!FairSpec` asks weak fairness of the threads, time-outs included,
strong fairness of taking the lock (the kernel wakes flock waiters in turn) and of
starting a CLI (those of the instance stand for any number), and that a
CLI ends, except one that codex watches: that one may hang until the time-out. For
pi the assumption is needed, because its refresh waits without a time-out while
it holds the lock. Expiry, logins, kills and the arrival of requests are not fair.

`PtyFairness` asks weak fairness of the pump's own steps and of the signal handler, of
a child that reads what is in its terminal, and of one that has closed its end and exits. The user,
what the child prints and when it ends are not fair. `ProxyFairness` asks it of the
handlers' and the closing thread's steps, and that a client that has not fallen silent reads
what it is sent; time-outs are steps of the handlers where the code sets them. Neither
clients nor upstreams need do anything else. `MigrationFairness` asks that starts go on, and
that a killed or ended one is followed by another start: the command line is used again.
Kills are not fair and bounded.

*Findings.* (1) `next_chat_name` looks at the chats' present names, while the
runtime identity is the first name: a chat started as chat-1 and renamed, and the
next unnamed chat, share container and volumes; deleting one deletes the other's
conversation. (2) `cmd_promote` reads the status before the objective prompt.
(3) The Ctrl-C handler of `cmd_new` covers the entire agent run and the menus after it.
(4) `prepare_volume_mounts` rolls a new volume back on `Exception` only: Ctrl-C during
the seed leaves it empty, and the next launch takes it as seeded.
(5) With `branch_prefix: ""`, a setting the README documents, a task is given a branch of
its bare name: `create` resets a branch of the user that has this name, and, since it takes
the branch for its own, a deletion of the task removes it.
Not a finding, since nothing is said of it: codex's check under the lock (codex.py:721)
compares with the token of the process, not of the refused request, so that two threads of a
proxy may refresh one after the other for one expiry.

*Promised without overlap only.* `AgentServed` and `WritesKept` excuse launches of one
session that have overlapped. The code has no lock there: two launches can write
two tokens, one can mount a volume the other is seeding, and a second launch rewrites
the client files of the running agent before it fails on the container name.

## Proofs

`SessionLifecycleProofs` proves for every set of processes, names, branches,
sessions and every bound (about 2600 obligations):

- `TypeCorrect`: `Spec => []TypeOK`,
- `RuntimeIdentityHolds`: `Spec => []RuntimeIdentity`,
- `UserBranchSafety`: `Spec => []UserBranchSafe`,
- `WorkRetained`: `Spec => []RetainedWork`, from `NamesOnce` and `OwnBranches`,
- `ConversationsKept`: `Spec => []ConversationKept`, from `NamesOnce`,
- `ResourcesUnshared`: `Spec => []ResourceUnshared`, from `NamesOnce`.

The first three follow from one inductive invariant, `IInv` (`Invariance`). `RuntimeIdentity`
speaks of files only, but files are written from copies that processes and
pollers took earlier, and `UserBranchSafe` of branches, which are deleted because
such a copy says so. So `IInv` states the same facts of every copy: it is *sound*
(its runtime name is the one of its session's creation), it *disowns* user
branches (a copy that owns its branch names no user branch that is not `taken`), and it *fits*
the step its process is at (a worktree step has a branch, a rename has a target).
A copy never becomes unsound because the recorded runtime name of a session never
changes once it is born. `NextInv` has one lemma per action or group of actions,
each showing the conjuncts the action can disturb; the lemmas on `Save`, `Goto`,
`Exit`, `AddWorktree` and `RemoveWorktreeAndBranch` are shared. The assumptions are those of
`ConstantsAssumption` (any branches may be the user's, a session's generated one too) and
that `NoMeta` is no metadata. `taken` are the branches of the user that a session was given
as its generated one: of these `UserBranchSafe` says nothing, and finding 5 shows why;
`UserBranchKept` is the same without the exception.

The last three are about names used once, with any number of processes, pollers and
kills. Every copy of a session's metadata *claims* a name and its branch. `WorkInv` says
that a name is either *pending* (given to a promotion or a rename that waits for the user)
or *settled* (`Claimed`, `Distinct`), that all copies that claim a settled name are of one
session and agree on its branch (`Agreed`), that a session being made is the only one to
claim its name (`Sole`), that commits and worktrees are on branches of the session that
claims them (`Credited`, `Trees`), and that what is committed is there until it is given up
(`Kept`). So who deletes or resets a branch of hatchery's takes his own session's commits
only. `ConvInv` is the same for volumes. A step only shrinks the claims, settles a pending
name, or is the birth of a session (`ShrinksKeeps`, `SettlesKeeps`, `BirthKeeps`). Two
hypotheses say where this ends. `NamesOnce` (the user reuses no name, no chat is numbered):
without it finding 1 is a counterexample. `OwnBranches` (`--branch` is given branches that
were there before, and none that is generated): otherwise one session creates a branch by
`--branch` and owns it,
another attaches to it and commits, and deleting the first deletes the commits of the second.
`WorkRetained` is why `committed` names the branch: as first stated, by session alone,
`RetainedWork` was false of four commands (TLC shows it with `MaxOps = 4`): a rename goes on
with another branch, and the commits on the old one are nothing the session could lose later.

`SessionSequentialProofs` (about 1500 obligations) adds what needs commands one after
another: `Sequential` is one process, no poller and no kill, as in `session_sequential`,
with any names, sessions and number of commands, and names used again:

- `ParkedSequentially`: `Spec => []ParkedHasNoWorktree`,
- `RunningSequentially`: `Spec => []RunningIsHosted`,
- `OneSessionSequentially`: `Spec => []OneSessionPerConversation`,
- `ContractImplemented`: `Spec => ImplementsContract`, the refinement.

The three invariants speak of quiet moments; `SeqInv` says what is so at each step of a
command: what its copy has to do with the store (`Knows`: a new session is not there until
its save; a promoted or renamed one is under its old name or, once its directory moved,
under the new one; any other is at home), and which one file or worktree may be out of place
meanwhile (`Named`, `Hosted`, `Treeless`). The refinement maps a session to the phase its
file is in, wherever it is filed; `ViewOK` says which one that is, and each step is a step
of the contract (`SaveRefines`, `BirthRefines`, `DeleteRefines`) or a stutter
(`StoreStutters`, `MoveStutters`).

`TokenRefreshProofs` proves for every set of proxies, threads and CLIs and every
bound (about 770 obligations):

- `TypeCorrect`: `Spec => []TypeOK`,
- `OneRefresher`: `Spec => []MutualExclusion`,
- `TokensMoveForward`: `Spec => ImplementsSharedToken`, the refinement,
- `GoodTokensAreUsed`: `Spec => RefusedOnlyIfExcused`.

Their `IInv` orders the places where a token can be: `state[p]` <= a token a thread
of p has read, or its CLI has printed <= `file` <= `newest`. `SharedToken` speaks of
`state` only, but a thread that has read a token stores it later; that it does
not go back then needs that no other thread of the same proxy stores one in
between, which is mutual exclusion, and that a proxy that starts has no thread in
a refresh (`Alive`). `ExternalKeeps`, `UnlockedKeeps`, `AcquireKeeps`, `LockedKeeps`,
`LeaveKeeps`, `KillKeeps` and `StartKeeps` are the groups of actions.
`RefusedOnlyIfExcused` needs `FoundInv` besides: the token an unexcused thread found, will
send or has sent again is the newest (`Found`), and stays so, because the login stands
still while a good token lies in the file: a new one is issued only when the newest
has expired or the file has fallen behind it (`FileBehind`).

`LaunchProofs` proves for every number of processes, volumes, proxies and contexts
(about 1700 obligations):

- `TypeCorrect`: `Spec => []TypeOK`,
- `ReleasedHolds`: `Spec => []Released`,
- `ProxiedHolds`: `Spec => []Proxied`,
- `AgentServedHolds`: `Spec => []AgentServed`,
- `WritesKeptHolds`: `Spec => WritesKept`.

`SidecarInv` says of every launch where it may be (`Placed`: it has recorded
sidecars only under `run_sidecars`, and is past the proxies when it is at kubectl),
that what is up is accounted for (`Accounted`: by a recorded sidecar, by the
context that is coming up, or as stranded), that what is recorded stands until the
teardown (`Standing`), and that a launch that is over has swept it away (`Swept`).
`Released` needs `Accounted` because the teardown stops only what is recorded, and
`Proxied` needs `Standing` because a running container says nothing of how its
proxies came up. A launch touches only its own part of `proc`, `up` and
`stranded` (`OthersKeep`), so each action is looked at for its own process.

`AgentServed` speaks of the agent that runs, but what it finds was left by earlier
launches, each ended at some step. `SessionInv` says, of launches that have not
overlapped: at most one is in the session (`Alone`); the disk is in a state a launch
can take over (`Stored`: every volume is missing, without its seed or seeded with
the token of the token file, and one without its seed is being seeded or was cut
off); and what the launch has found or written so far is still so (`Relies`: its
token is the file's, the volumes it has passed exist, no agent has written to the one it
is seeding, its client files are its own). The volumes are the delicate part: a
token file is written again only while no volume is seeded, and `rollback` empties no
volume that was used, because `used` volumes exist and only missing ones are created.
A sandbox shell may create a volume without seed at any time (`ShellStep`).
`Moves` is a table of what every action does to its process; `TokenPart`,
`VolumePart`, `SidecarPart`, `RunPart` and `CutPart` are the groups of actions.

`TrafficProofs` (about 2700 obligations), for any bytes, limits, images, services and
connections:

- `KeysAlwaysArrive`, `PastesAlwaysKept`, `TerminalIsRestored`, `SizeStaysInSync`,
  `OutputIsKept` about `PtySpec`,
- `ProxyTypeCorrect`, `ClientIsServed`, `SilenceAfterClose` about `ProxySpec`, and
  `ForwardedOnlyIfCovered` about it under the hypothesis `Truthful`,
- `TrafficTyped`: `TrafficFairSpec => []TypeOK`. `TrafficIsBoth` is the step to the
  components: a behaviour of the run's specification is one of `PtySpec` and `ProxySpec`.

The way of the keys is the longest argument. `Keys` flattens a sequence, so its lemmas come
first: `KeysConcat`, that the keys of two pieces are those of the one and then those of
the other, and `KeysOfBytes`. The scan of a chunk is a recursive function; `ScanOK` says
of its first i bytes that what is in the output stands for them and for the rest of the key
the scan is in, that every reference in it names a file that has its image (`Referenced`),
that no file saved before is lost or changed (`Extends`), and that the counters in the
files' names are below the number of bytes read (`FilesOK`). The last is why a pasted
image always finds a free name (`FreePathIsFree`): the code counts up until it finds
one, the model within `limit.typed`, and each paste takes a byte at least. `ScannedKeeps`
is one step of the scan, and `InputInv` carries the same facts through the pump:
`Keyed`, what `_write_all` has in its hands, belongs to what was read.
Induction is done by the least counterexample: `HasLeast` gives a set of numbers its
least element from the well-foundedness of `<`, which is a fact about sets and needs no
operator as a parameter, and `UpTo` is the form in which it is used.

For `ForwardedOnlyIfCovered`, `AdmittedIsCovered` says that the four verdicts with their
policies admit only what the rules of the request's owner cover, and `AdmittedInv` that a handler
past the policy, and a request that has reached the upstream at any time, were admitted:
no retry, failure or closing leads around the verdict. Requests taken for discovery are
admitted without rules, and excepted.

`TerminalInv` and `SizeInv` tie the handler, the terminal's mode and the pending signal to the
phases. `OutputInv` says that what is shown, in hand and in the PTY are three intervals
that follow one another (`Follows`), instead of one concatenation, so that a partial
write moves a boundary. `ProxyInv` has three parts: `Progress`, what a connection has been
sent at each stage of its handler; `Served`, what it was sent in all, as long as nobody but
the client closes it; and `Severed`, that a socket that is open is one the closing server
knows of, which `SilentAfterClose` needs because handlers go on after close().

`MigrationProofs` (about 1200 obligations), for every disk, any number of starts and kills:

- `MigrationTyped`: `MigrationSpec => []MigrationTypeOK`,
- `DataIsKept`: `MigrationSpec => []DataKept`,
- `StampIsTruthful`: `MigrationSpec => []StampTruthful`.

`MigrationInv` says where each start is (`Walks`), that what is still to be migrated is on
the list of every start that is past the listing (`ScopedPending`, `StorePending`: this is
why the stamp is true), that a start alone finds what it left off with (`Single`, `Copied`,
`Excluded`), and what overlapping starts may do twice (`Recorded`, `Owned`, `Renamed`).
It uses `MigrationAssumption`: no two starts at once on a store of another device, which
the code does not exclude.

`IncludesProofs` (about 1100 obligations), for every set of sessions, repositories, entries
and any kills:

- `IncludesTyped`: `IncludesSpec => []IncludesTypeOK`,
- `IncludedWorkIsKept`: `IncludesSpec => []IncludedWorkKept`,
- `AgentsAreIsolated`: `IncludesSpec => []Isolated`.

`Local` says that a step touches its own session and the trees and branches of its name.
`KeptInv` says that a worktree stands on a branch and a branch without a demand for its
deletion keeps its commits. `Prepared` gives, for a session alone under its name and never
broken, the worktrees that are there at every stage of every command; another session's
step leaves it alone because it has another name (`OtherPrepared`).

`HostFilesProofs` (about 3300 obligations), for any tasks, names, dates, links, mounts and
included repositories, and any terminals, commands, saves and versions:

- `RecordsTyped`: `RecordsSpec => []RecordsTypeOK`,
- `RecordsAreOwn`: `RecordsSpec => []OwnRecords`,
- `FilesAreOwn`: `RecordsSpec => []OwnFiles`, under the hypothesis that every instance is
  `Separate`,
- `FilesTypeCorrect`: `FilesSpec => []FilesTypeOK`,
- `AllOrNothingHolds`: `FilesSpec => []AllOrNothing`,
- `HostTyped`: `HostFairSpec => []TypeOK`. `HostIsEach` is the step to the parts.

`OwnFiles` says of a running container what it can write, but its mounts were assembled at
the launch, and files have been found, moved and written since. `RecordsInv` says what lasts:
the mounts are those for the directory of one file (`MountsFor`), which was found for the
name and is still there (`Lasting`: a file only moves from an older layout to the new one).
That the newest match exists (`Latest` is a CHOOSE) needs that the files are finitely many
and that the order of their paths is total; that a match ends in the name, `StemEnds`, says
whose it is. What the mounts let through is then a question of lists. `Normal` resolves
".." into components the path had before; `ExpandLinks` keeps the mounts it is given and adds
only such that lie beside every one of them, neither in nor around it; `Validate` drops
nothing in a repository. So of the paths in a repository the mounts that the session or the
entry itself declares decide (`RootServed`), the deepest of those over a worktree or a task file
is known (`RepoTop`, `EntryTop`), and it is read-write only for the task's own. The links can
therefore not open what the mounts close, whatever they point to. Induction is by the least
counterexample, as for the scan of `PtyPump`.

`AllOrNothing` is about one file, and about commands that end done or undone: a command that
is killed or fails otherwise, and an update that finds no runtime, are in the model and
nothing is claimed of what they leave but to the next command.
`FilesInv` says what each command of `SandboxFiles` is (`Placed`), that while one is alone the
others have ended (`Sole`), that what it could put back is what it began with (`Undoable`), and
that what it has accepted is what is there (`Acceptable`).

These theorems are about the specification of each component without fairness
(`PtySpec`, `ProxySpec`, `MigrationSpec`, `IncludesSpec`, `RecordsSpec`, `FilesSpec`); the
runs check the compositions `TrafficFairSpec` and `HostFairSpec`, each step of which is a
step of one component and a stutter of the others (`TrafficIsBoth`, `HostIsEach`).

Every safety invariant and action property of the passing runs is proved, some under the
hypotheses named above (`NamesOnce`, `OwnBranches`, `Sequential`, `Truthful`, `Separate`).
Only model-checked: the liveness properties `Answered`, `DeleteReclaims`, `EndsWithChild`,
`RequestEnds`, `TunnelCloses` and `EventuallyMigrated`, which this prover cannot do.

## Plan

Done: the session core, the token refresh, the launch, the terminal, the sidecars'
proxies and policies, the migration, the includes, the task files with their mounts, and the
sandbox files. Left, in this order:

1. Branch resolution with a remote, in `SessionLifecycle` and `Includes`.
2. docker.yaml merging and layered settings as operators checked against a reference
   definition.
3. The credential cache of the OCI sidecar and the credentials of S3 profiles.

## Not modelled

The components without a module in `PROJECT.json`, and what the notes of the partly
modelled ones exclude, each with its reason. Output, logging, templates and argument parsing
carry no state of interest. Listing commands only read. Command construction of the agents,
image layers and the flags of the run command are plain data.
