---------------------------- MODULE SandboxFiles ----------------------------
(***************************************************************************)
(* The files that describe a sandbox and the commands that change them:    *)
(* `sandbox edit`, `harness edit`, `config edit`, `harness update` and the *)
(* scaffolding of `sandbox shell`, run from several terminals.  An edit    *)
(* keeps a copy beside the file and puts it back when the user gives up,   *)
(* an update puts back the text it read when the image does not build.     *)
(***************************************************************************)
EXTENDS Naturals

CONSTANTS
    Terms,      \* the terminals
    Kinds,      \* which files are modelled, of FileKinds
    MaxRuns,    \* how many commands are started
    MaxEdits,   \* how often an editor saves
    MaxPin      \* how many versions of the harness the registry publishes

FileKinds == {"Dockerfile", "docker.yaml", "docker.local.yaml", "repo config", "global config"}

ASSUME SandboxFilesAssumption ==
    Kinds \subseteq FileKinds /\ MaxRuns \in Nat /\ MaxEdits \in Nat /\ MaxPin \in Nat \ {0}

Validated == FileKinds \ {"Dockerfile"}
Committed == {"Dockerfile", "docker.yaml"}

\* Content: which save wrote it (0: the template), whether it is valid (a Dockerfile:
\* whether it builds), and the version pinned (0: none).
Contents == [save : 0 .. MaxEdits, valid : BOOLEAN, pin : 0 .. MaxPin]
Template(pin) == [save |-> 0, valid |-> TRUE, pin |-> pin]
NoFile == [save |-> 0, valid |-> FALSE, pin |-> 0]

VARIABLES
    kind,       \* the file of this behaviour
    sandbox,    \* its content
    backup,     \* that of <file>.bak
    index, head,    \* git's
    runs,       \* how many commands there were
    saves,      \* how many saves
    published,  \* the registry's latest version
    at,         \* term -> where its command is
    verb,       \* term -> the command: "edit", "update" or "shell"
    commits,    \* term -> whether the result is to be committed
    old,        \* term -> the text that an update read
    \* of the properties
    began,      \* term -> the file when the command began
    checked,    \* term -> the content that was validated or built last
    alone       \* term -> no other command overlapped, and there was no backup left over

filesVars == <<kind, sandbox, backup, index, head, runs, saves, published, at, verb, commits, old,
               began, checked, alone>>
observed == <<began, checked, alone>>
repository == <<index, head>>

Ended == {"idle", "done", "undone", "stopped"}
Go(t, where) == at' = [at EXCEPT ![t] = where]

FilesInit ==
    /\ kind \in Kinds
    /\ sandbox \in {NoFile, Template(0)}
    /\ backup = NoFile
    /\ index = sandbox /\ head = sandbox
    /\ runs = 0 /\ saves = 0 /\ published = 1
    /\ at = [t \in Terms |-> "idle"]
    /\ verb = [t \in Terms |-> "edit"]
    /\ commits = [t \in Terms |-> FALSE]
    /\ old = [t \in Terms |-> NoFile]
    /\ began = [t \in Terms |-> NoFile]
    /\ checked = [t \in Terms |-> NoFile]
    /\ alone = [t \in Terms |-> FALSE]
-----------------------------------------------------------------------------
Publish ==
    /\ kind = "Dockerfile" /\ published < MaxPin /\ published' = published + 1
    /\ UNCHANGED <<kind, sandbox, backup, repository, runs, saves, at, verb, commits, old,
                   observed>>

\* The file goes away with a checkout of another branch.
FileGone ==
    /\ \A t \in Terms : at[t] \in Ended
    /\ sandbox # NoFile
    /\ sandbox' = NoFile /\ index' = NoFile /\ head' = NoFile
    /\ alone' = [t \in Terms |-> FALSE]
    /\ UNCHANGED <<kind, backup, runs, saves, published, at, verb, commits, old, began, checked>>

Begins(t, command, commit) ==
    /\ at[t] = "idle" /\ runs < MaxRuns /\ runs' = runs + 1
    /\ commit => kind \in Committed
    /\ verb' = [verb EXCEPT ![t] = command]
    /\ commits' = [commits EXCEPT ![t] = commit]
    /\ began' = [began EXCEPT ![t] = sandbox]
    /\ checked' = [checked EXCEPT ![t] = sandbox]
    /\ alone' = [u \in Terms |-> IF u = t THEN /\ \A v \in Terms \ {t} : at[v] \in Ended
                                               /\ sandbox = NoFile => backup = NoFile
                                 ELSE FALSE]
    /\ UNCHANGED <<kind, index, head, saves, published>>

\* MUTANT: a backup that is there is not replaced.
EditBeginsKeeping(t, commit) ==
    /\ Begins(t, "edit", commit)
    /\ backup' = IF sandbox = NoFile \/ backup # NoFile THEN backup ELSE sandbox
    /\ Go(t, IF sandbox = NoFile THEN "seed" ELSE "prepare")
    /\ UNCHANGED <<sandbox, old>>

\* edit_with_validation.
EditBegins(t, commit) ==
    /\ Begins(t, "edit", commit)
    /\ backup' = IF sandbox = NoFile THEN backup ELSE sandbox
    /\ Go(t, IF sandbox = NoFile THEN "seed" ELSE "prepare")
    /\ UNCHANGED <<sandbox, old>>

\* ensure_dockerfile pins the harness if the registry answers; the ensure_... functions
\* leave a file that has come about meanwhile, create_repo_config does not, and the
\* global config has no seed.
Seed(t) ==
    /\ at[t] = "seed"
    /\ \E pin \in IF kind = "Dockerfile" THEN {0, published} ELSE {0} :
          sandbox' = IF \/ kind = "global config"
                        \/ sandbox # NoFile /\ kind # "repo config"
                     THEN sandbox ELSE Template(pin)
    /\ Go(t, "prepare")
    /\ UNCHANGED <<kind, backup, repository, runs, saves, published, verb, commits, old, observed>>

\* UserConfig.load().save(): a file that can not be parsed becomes the defaults, one
\* that is no configuration raises.
Prepare(t) ==
    /\ at[t] = "prepare"
    /\ \/ /\ \/ kind # "global config" /\ UNCHANGED sandbox
             \/ /\ kind = "global config"
                /\ sandbox' = IF sandbox.valid THEN sandbox ELSE Template(0)
          /\ Go(t, "editor")
       \/ /\ kind = "global config" /\ sandbox # NoFile /\ ~sandbox.valid
          /\ Go(t, "stopped") /\ UNCHANGED sandbox
    /\ UNCHANGED <<kind, backup, repository, runs, saves, published, verb, commits, old, observed>>

\* The editor writes what the user made of the text it was opened with.
EditorSaves(t, valid) ==
    /\ at[t] = "editor" /\ saves < MaxEdits
    /\ saves' = saves + 1
    /\ sandbox' = [save |-> saves', valid |-> valid,
                   pin |-> sandbox.pin]
    /\ UNCHANGED <<kind, backup, repository, runs, published, at, verb, commits, old, observed>>

\* A file that is missing or invalid makes the command ask; `sandbox shell` and the
\* Dockerfile have nothing to validate with.
EditorCloses(t) ==
    /\ at[t] = "editor"
    /\ Go(t, CASE verb[t] = "shell" -> "add"
               [] verb[t] = "edit" /\ kind \in Validated /\ ~sandbox.valid -> "ask"
               [] OTHER -> "accept")
    /\ checked' = [checked EXCEPT ![t] = sandbox]
    /\ UNCHANGED <<kind, sandbox, backup, repository, runs, saves, published, verb, commits, old,
                   began, alone>>

ContinueEditing(t) ==
    /\ at[t] = "ask" /\ Go(t, "editor")
    /\ UNCHANGED <<kind, sandbox, backup, repository, runs, saves, published, verb, commits, old,
                   observed>>

GiveUp(t) ==
    /\ at[t] = "ask"
    /\ IF backup # NoFile THEN sandbox' = backup /\ Go(t, "unlink")
       ELSE sandbox' = NoFile /\ Go(t, "undone")
    /\ UNCHANGED <<kind, backup, repository, runs, saves, published, verb, commits, old, observed>>

UnlinkBackup(t) ==
    /\ at[t] = "unlink" /\ backup' = NoFile
    /\ Go(t, IF backup = NoFile THEN "stopped" ELSE "undone")
    /\ UNCHANGED <<kind, sandbox, repository, runs, saves, published, verb, commits, old, observed>>

\* The end of a valid edit; commit_path_if_tracked commits only what has changed.
Accept(t) ==
    /\ at[t] = "accept"
    /\ backup' = NoFile
    /\ Go(t, IF commits[t] /\ ~(sandbox = index /\ index = head) THEN "add" ELSE "done")
    /\ UNCHANGED <<kind, sandbox, repository, runs, saves, published, verb, commits, old, observed>>
-----------------------------------------------------------------------------
UpdateBegins(t, commit) ==
    /\ kind = "Dockerfile" /\ sandbox # NoFile
    /\ Begins(t, "update", commit)
    /\ old' = [old EXCEPT ![t] = sandbox]
    /\ Go(t, "lookup")
    /\ UNCHANGED <<sandbox, backup>>

\* npm_latest_version; a registry that does not answer ends the command.
WritePin(t) ==
    /\ at[t] = "lookup"
    /\ \/ Go(t, "stopped") /\ UNCHANGED sandbox
       \/ old[t].pin = published /\ Go(t, "done") /\ UNCHANGED sandbox
       \/ /\ old[t].pin # published
          /\ sandbox' = [old[t] EXCEPT !.pin = published]
          /\ Go(t, "runtime")
    /\ UNCHANGED <<kind, backup, repository, runs, saves, published, verb, commits, old, observed>>

\* detect_runtime exits when there is none: the new pin stays, unbuilt.
DetectRuntime(t) ==
    /\ at[t] = "runtime"
    /\ Go(t, "build") \/ Go(t, "stopped")
    /\ UNCHANGED <<kind, sandbox, backup, repository, runs, saves, published, verb, commits, old,
                   observed>>

\* The build reads the file again, and may fail for reasons of its own.
Build(t) ==
    /\ at[t] = "build"
    /\ \/ /\ sandbox.valid
          /\ checked' = [checked EXCEPT ![t] = sandbox]
          /\ Go(t, IF commits[t] THEN "add" ELSE "done")
       \/ Go(t, "revert") /\ UNCHANGED checked
    /\ UNCHANGED <<kind, sandbox, backup, repository, runs, saves, published, verb, commits, old,
                   began, alone>>

Revert(t) ==
    /\ at[t] = "revert"
    /\ sandbox' = old[t]
    /\ Go(t, "undone")
    /\ UNCHANGED <<kind, backup, repository, runs, saves, published, verb, commits, old, observed>>

\* prepare_sandbox: only new scaffolding is offered to the editor and committed.
ShellBegins(t, commit) ==
    /\ kind \in Committed
    /\ Begins(t, "shell", commit)
    /\ \E pin \in IF kind = "Dockerfile" THEN {0, published} ELSE {0} :
          sandbox' = IF sandbox = NoFile THEN Template(pin) ELSE sandbox
    /\ \/ sandbox = NoFile /\ Go(t, "editor")
       \/ Go(t, IF sandbox = NoFile THEN "add" ELSE "done")
    /\ UNCHANGED <<backup, old>>
-----------------------------------------------------------------------------
\* add_and_commit: two commands of git.  A commit of nothing fails.
GitAdd(t) ==
    /\ at[t] = "add"
    /\ IF commits[t] THEN index' = sandbox /\ Go(t, "commit") ELSE UNCHANGED index /\ Go(t, "done")
    /\ UNCHANGED <<kind, sandbox, backup, head, runs, saves, published, verb, commits, old,
                   observed>>

GitCommit(t) ==
    /\ at[t] = "commit"
    /\ head' = index
    /\ Go(t, IF head = index THEN "stopped" ELSE "done")
    /\ UNCHANGED <<kind, sandbox, backup, index, runs, saves, published, verb, commits, old,
                   observed>>

\* The command has ended, or Ctrl-C or the end of the terminal ends it, anywhere.
Leave(t) ==
    /\ at[t] # "idle"
    /\ Go(t, "idle")
    /\ verb' = [verb EXCEPT ![t] = "edit"]
    /\ commits' = [commits EXCEPT ![t] = FALSE]
    /\ old' = [old EXCEPT ![t] = NoFile]
    /\ began' = [began EXCEPT ![t] = NoFile]
    /\ checked' = [checked EXCEPT ![t] = NoFile]
    /\ alone' = [alone EXCEPT ![t] = FALSE]
    /\ UNCHANGED <<kind, sandbox, backup, repository, runs, saves, published>>

FilesNext ==
    \/ Publish
    \/ FileGone
    \/ \E t \in Terms :
          \/ \E c \in BOOLEAN : EditBegins(t, c) \/ UpdateBegins(t, c) \/ ShellBegins(t, c)
          \/ Seed(t) \/ Prepare(t) \/ \E v \in BOOLEAN : EditorSaves(t, v)
          \/ EditorCloses(t) \/ ContinueEditing(t) \/ GiveUp(t) \/ UnlinkBackup(t) \/ Accept(t)
          \/ WritePin(t) \/ DetectRuntime(t) \/ Build(t) \/ Revert(t)
          \/ GitAdd(t) \/ GitCommit(t) \/ Leave(t)

FilesSpec == FilesInit /\ [][FilesNext]_filesVars
-----------------------------------------------------------------------------
FilesTypeOK ==
    /\ kind \in Kinds
    /\ {sandbox, backup, index, head} \subseteq Contents
    /\ runs \in 0 .. MaxRuns /\ saves \in 0 .. MaxEdits /\ published \in 1 .. MaxPin
    /\ at \in [Terms -> Ended \union {"seed", "prepare", "editor", "ask", "unlink", "accept",
                                      "lookup", "runtime", "build", "revert", "add", "commit"}]
    /\ verb \in [Terms -> {"edit", "update", "shell"}]
    /\ commits \in [Terms -> BOOLEAN]
    /\ {old, began, checked} \subseteq [Terms -> Contents]
    /\ alone \in [Terms -> BOOLEAN]

\* A command that no other overlapped is all or nothing, whatever killed commands left
\* before it: given up or unbuildable, the file is what it was when the command began
\* (edit_with_validation, update_harness); accepted, it is what was validated or built,
\* a validated file is valid, and what HEAD holds if the command commits.
AllOrNothing ==
    \A t \in Terms : alone[t] =>
        /\ at[t] = "undone" => sandbox = began[t]
        /\ at[t] = "done" => /\ verb[t] # "shell" => sandbox = checked[t]
                             /\ verb[t] = "edit" /\ kind \in Validated => sandbox.valid
                             /\ commits[t] /\ verb[t] = "edit" => head = sandbox
        /\ at[t] \in {"undone", "done"} => backup = NoFile \/ verb[t] # "edit"
=============================================================================
