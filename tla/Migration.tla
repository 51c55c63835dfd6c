----------------------------- MODULE Migration -----------------------------
(***************************************************************************)
(* migrate_db: what every start of the command line does to the files of   *)
(* an older hatchery.  v0 -> v1 turns each <name>.json of a repository     *)
(* into <name>/meta.json; v1 -> v2 moves what the store of a no-commit     *)
(* repository holds into the repository's own .hatchery/; the version is   *)
(* stamped at the end.  No lock is taken: two starts may migrate at once,  *)
(* a kill may fall between any two steps, and the next start begins again. *)
(***************************************************************************)
EXTENDS Naturals, FiniteSets

CONSTANTS
    Starts,     \* processes of the command line
    Names,      \* sessions of the older version
    Items,      \* what the store of a no-commit repository holds
    Disks       \* the instances: disk -> what is found, see DiskType

\* `scoped`: each session's <name>.json; `done`: sessions that have a meta.json besides;
\* `held`: the items in the store; `own`: items that .hatchery has of its own;
\* `repo`: the recorded path is a directory; `apart`: the store is on another device;
\* `starts`, `kills`: the processes, and how many kills fall.
DiskType == [version : {"none", "torn", "v1", "v2"}, scoped : [Names -> {"none", "good", "bad"}],
             done : SUBSET Names, held : SUBSET Items, own : SUBSET Items, repo : BOOLEAN,
             apart : BOOLEAN, starts : SUBSET Starts, kills : Nat]

\* What is left out although the code, which takes no lock, allows it: two starts at once
\* that copy a store from another device (shutil.move copies into a directory that has
\* come about meanwhile, and the two then remove each other's source).
ASSUME MigrationAssumption ==
    \A d \in DOMAIN Disks : /\ Disks[d] \in DiskType
                            /\ Disks[d].apart => \A p, q \in Disks[d].starts : p = q

VARIABLES
    disk,       \* the instance, a constant of each behaviour
    stamp,      \* ~/.hatchery/meta.json
    scoped,     \* name -> <name>.json
    record,     \* name -> <name>/meta.json: "none", "torn", "old", "new" (saved since)
    shelf,      \* the store: "full", "bare" (without repo.json), "gone"
    store,      \* item -> what of it is in the store: "none", "part", "whole"
    hatchery,   \* item -> .hatchery/<item>: these, or the repository's "own"
    aside,      \* item -> .hatchery/<item>.migrated-backup
    exclude,    \* .git/info/exclude: "user", "both", "ours" or "torn"
    start,      \* process -> where migrate_db is, with the loop's list and element
    kills,      \* kills so far
    latest,     \* names whose meta.json was saved by a command (history)
    overlapped, \* two processes were in migrate_db at once (history)
    cut         \* what a kill fell into the writing of (history)

migrationVars == <<disk, stamp, scoped, record, shelf, store, hatchery, aside, exclude,
                   start, kills, latest, overlapped, cut>>
files == <<scoped, record, shelf, store, hatchery, aside, exclude>>
history == <<disk, kills, latest, overlapped, cut>>

Disk == Disks[disk]
\* `to`: where an item is being moved.
Resting == [at |-> "idle", todo |-> {}, on |-> "", to |-> ""]
Stages == {"idle", "ready", "names", "write", "fill", "unlink", "repos", "items", "move",
           "copy", "clear", "exclude", "exclude2", "rmtree", "rmdir", "stamp", "stamp2"}
Running(p) == start[p].at \notin {"idle", "ready"}

\* One step of p to stage s, with its list and element kept, or given.
Goto(p, s) == start' = [start EXCEPT ![p].at = s]
Loop(p, s, list) == start' = [start EXCEPT ![p] = [Resting EXCEPT !.at = s, !.todo = list]]
Next1(p, s) == Loop(p, s, start[p].todo \ {start[p].on})
Enter(p, s, e, to) == start' = [start EXCEPT ![p].at = s, ![p].on = e, ![p].to = to]
\* An exception that migrate_db does not catch ends the process.
Raise(p) == start' = [start EXCEPT ![p] = Resting]

MigrationInit ==
    /\ disk \in DOMAIN Disks
    /\ stamp = Disk.version
    /\ scoped = Disk.scoped
    /\ record = [n \in Names |-> IF n \in Disk.done THEN "old" ELSE "none"]
    /\ shelf = IF Disk.held = {} THEN "gone" ELSE "full"
    /\ store = [i \in Items |-> IF i \in Disk.held THEN "whole" ELSE "none"]
    /\ hatchery = [i \in Items |-> IF i \in Disk.own THEN "own" ELSE "none"]
    /\ aside = [i \in Items |-> "none"]
    /\ exclude = "user"
    /\ start = [p \in Starts |-> Resting]
    /\ kills = 0 /\ latest = {} /\ overlapped = FALSE /\ cut = {}
-----------------------------------------------------------------------------
\* MUTANT: a version that does not parse is not taken for version 0.
VersionOrRaise == CASE stamp = "v2" -> "ready" [] stamp = "v1" -> "repos"
                    [] stamp = "none" -> "names" [] stamp = "torn" -> "idle"

\* Where the chain begins: a missing or torn version is version 0.
Version == CASE stamp = "v2" -> "ready" [] stamp = "v1" -> "repos"
             [] OTHER -> "names"

\* The version is read, and the scoped files are listed.
ReadVersion(p) ==
    /\ p \in Disk.starts /\ start[p].at = "idle"
    /\ Loop(p, Version, IF Version = "names" THEN {n \in Names : scoped[n] # "none"} ELSE {})
    /\ overlapped' = (overlapped \/ (Version # "ready" /\ \E q \in Starts \ {p} : Running(q)))
    /\ UNCHANGED <<stamp, files, disk, kills, latest, cut>>

\* A scoped file whose directory has a meta.json is removed; one that does not parse is
\* left; the others are read.
CheckName(p) ==
    /\ start[p].at = "names"
    /\ \E n \in start[p].todo :
          \/ /\ scoped[n] = "none" /\ Raise(p) /\ UNCHANGED scoped
          \/ /\ record[n] # "none" /\ scoped[n] # "none"
             /\ scoped' = [scoped EXCEPT ![n] = "none"]
             /\ Loop(p, "names", start[p].todo \ {n})
          \/ /\ record[n] = "none" /\ scoped[n] = "bad"
             /\ Loop(p, "names", start[p].todo \ {n}) /\ UNCHANGED scoped
          \/ /\ record[n] = "none" /\ scoped[n] = "good"
             /\ Enter(p, "write", n, "") /\ UNCHANGED scoped
    /\ UNCHANGED <<stamp, record, shelf, store, hatchery, aside, exclude, history>>

\* dest.write_text: the file is opened, which empties it, and then written.
OpenRecord(p) ==
    /\ start[p].at = "write"
    /\ record' = [record EXCEPT ![start[p].on] = "torn"]
    /\ Goto(p, "fill")
    /\ UNCHANGED <<stamp, scoped, shelf, store, hatchery, aside, exclude, history>>

FillRecord(p) ==
    /\ start[p].at = "fill"
    /\ record' = [record EXCEPT ![start[p].on] = "old"]
    /\ Goto(p, "unlink")
    /\ UNCHANGED <<stamp, scoped, shelf, store, hatchery, aside, exclude, history>>

\* The scoped file goes last; it may be gone, which raises.
Unlink(p) ==
    /\ start[p].at = "unlink"
    /\ scoped' = [scoped EXCEPT ![start[p].on] = "none"]
    /\ IF scoped[start[p].on] = "none" THEN Raise(p) ELSE Next1(p, "names")
    /\ UNCHANGED <<stamp, record, shelf, store, hatchery, aside, exclude, history>>

NamesDone(p) ==
    /\ start[p].at = "names" /\ start[p].todo = {}
    /\ Goto(p, "repos")
    /\ UNCHANGED <<stamp, files, history>>
-----------------------------------------------------------------------------
\* MUTANT: the version is stamped before the items are moved.
ListStoreStamped(p) ==
    /\ start[p].at = "repos"
    /\ stamp' = "v2"
    /\ IF shelf = "full" /\ Disk.repo
       THEN Loop(p, "items", {i \in Items : store[i] # "none"})
       ELSE Goto(p, "stamp")
    /\ UNCHANGED <<files, history>>

\* The store's items are listed, unless there is no store, it has no repo.json, or the
\* repository is not there any more.
ListStore(p) ==
    /\ start[p].at = "repos"
    /\ IF shelf = "full" /\ Disk.repo
       THEN Loop(p, "items", {i \in Items : store[i] # "none"})
       ELSE Goto(p, "stamp")
    /\ UNCHANGED <<stamp, files, history>>

\* MUTANT: the repository's own item goes aside, and the store's takes its place.
CheckItemSwapped(p) ==
    /\ start[p].at = "items"
    /\ \E i \in start[p].todo :
          IF hatchery[i] # "none"
          THEN /\ aside' = [aside EXCEPT ![i] = hatchery[i]]
               /\ hatchery' = [hatchery EXCEPT ![i] = "none"]
               /\ Enter(p, "move", i, "target")
          ELSE Enter(p, "move", i, "target") /\ UNCHANGED <<hatchery, aside>>
    /\ UNCHANGED <<stamp, scoped, record, shelf, store, exclude, history>>

\* An item goes to .hatchery, or aside when there is one of its name; what was moved
\* aside by an earlier start is removed first.
CheckItem(p) ==
    /\ start[p].at = "items"
    /\ \E i \in start[p].todo :
          IF hatchery[i] # "none"
          THEN aside' = [aside EXCEPT ![i] = "none"] /\ Enter(p, "move", i, "aside")
          ELSE Enter(p, "move", i, "target") /\ UNCHANGED aside
    /\ UNCHANGED <<stamp, scoped, record, shelf, store, hatchery, exclude, history>>

Put(p, what) ==
    LET i == start[p].on
    IN  IF start[p].to = "aside"
        THEN aside' = [aside EXCEPT ![i] = what] /\ UNCHANGED hatchery
        ELSE hatchery' = [hatchery EXCEPT ![i] = what] /\ UNCHANGED aside

\* MUTANT: across devices the source is removed as it is copied.
MoveAsCopied(p) ==
    /\ start[p].at = "move"
    /\ LET i == start[p].on
       IN  IF store[i] = "none"
           THEN Raise(p) /\ UNCHANGED <<store, hatchery, aside>>
           ELSE /\ Put(p, IF Disk.apart THEN "part" ELSE store[i])
                /\ store' = [store EXCEPT ![i] = IF Disk.apart THEN "part" ELSE "none"]
                /\ IF Disk.apart THEN Goto(p, "copy") ELSE Next1(p, "items")
    /\ UNCHANGED <<stamp, scoped, record, shelf, exclude, history>>

\* shutil.move: a rename, or, across devices, a copy and then the removal of the source.
Move(p) ==
    /\ start[p].at = "move"
    /\ LET i == start[p].on
       IN  IF store[i] = "none"
           THEN Raise(p) /\ UNCHANGED <<store, hatchery, aside>>
           ELSE /\ Put(p, IF Disk.apart THEN "part" ELSE store[i])
                /\ store' = IF Disk.apart THEN store ELSE [store EXCEPT ![i] = "none"]
                /\ IF Disk.apart THEN Goto(p, "copy") ELSE Next1(p, "items")
    /\ UNCHANGED <<stamp, scoped, record, shelf, exclude, history>>

CopyEnds(p) ==
    /\ start[p].at = "copy"
    /\ Put(p, store[start[p].on])
    /\ Goto(p, "clear")
    /\ UNCHANGED <<stamp, scoped, record, shelf, store, exclude, history>>

\* The source's tree is removed, file by file.
Clear(p) ==
    /\ start[p].at = "clear"
    /\ LET i == start[p].on
       IN  \/ /\ store[i] = "whole" /\ store' = [store EXCEPT ![i] = "part"]
              /\ UNCHANGED start
           \/ store' = [store EXCEPT ![i] = "none"] /\ Next1(p, "items")
    /\ UNCHANGED <<stamp, scoped, record, shelf, hatchery, aside, exclude, history>>

ItemsDone(p) ==
    /\ start[p].at = "items" /\ start[p].todo = {}
    /\ Goto(p, "exclude")
    /\ UNCHANGED <<stamp, files, history>>
-----------------------------------------------------------------------------
\* ensure_git_exclude reads the file, and unless our entry is in it empties it ...
OpenExclude(p) ==
    /\ start[p].at = "exclude"
    /\ IF exclude \in {"both", "ours"}
       THEN Goto(p, "rmtree") /\ UNCHANGED exclude
       ELSE Enter(p, "exclude2", "", exclude) /\ exclude' = "torn"
    /\ UNCHANGED <<stamp, scoped, record, shelf, store, hatchery, aside, history>>

\* ... and writes what it read and the entry.
FillExclude(p) ==
    /\ start[p].at = "exclude2"
    /\ exclude' = IF start[p].to = "user" THEN "both" ELSE "ours"
    /\ Goto(p, "rmtree")
    /\ UNCHANGED <<stamp, scoped, record, shelf, store, hatchery, aside, history>>

\* The rest of the store is removed: repo.json, and then the directory.
RemoveStore(p) ==
    /\ \/ /\ start[p].at = "rmtree"
          /\ shelf' = IF shelf = "gone" THEN "gone" ELSE "bare"
          /\ IF shelf = "gone" THEN Raise(p) ELSE Goto(p, "rmdir")
       \/ /\ start[p].at = "rmdir"
          /\ shelf' = "gone"
          /\ IF shelf = "gone" THEN Raise(p) ELSE Goto(p, "stamp")
    /\ UNCHANGED <<stamp, scoped, record, store, hatchery, aside, exclude, history>>

\* meta_path.write_text, opened and written.
WriteStamp(p) ==
    /\ \/ start[p].at = "stamp" /\ stamp' = "torn" /\ Goto(p, "stamp2")
       \/ start[p].at = "stamp2" /\ stamp' = "v2" /\ Loop(p, "ready", {})
    /\ UNCHANGED <<files, history>>
-----------------------------------------------------------------------------
\* The command runs: it may save a session, and ends.
Command(p) ==
    /\ start[p].at = "ready"
    /\ \/ \E n \in Names : /\ record[n] \in {"old", "new"}
                           /\ record' = [record EXCEPT ![n] = "new"]
                           /\ latest' = latest \cup {n}
       \/ UNCHANGED <<record, latest>>
    /\ Raise(p)
    /\ UNCHANGED <<stamp, scoped, shelf, store, hatchery, aside, exclude, disk, kills,
                   overlapped, cut>>

\* What a kill at p's step leaves half written.
Writing(p) ==
    CASE start[p].at \in {"fill", "clear"} -> {start[p].on}
      [] start[p].at = "exclude2" -> {"exclude"}
      [] OTHER -> {}

Kill(p) ==
    /\ Running(p) /\ kills < Disk.kills
    /\ kills' = kills + 1 /\ cut' = cut \cup Writing(p)
    /\ Raise(p)
    /\ UNCHANGED <<stamp, files, disk, latest, overlapped>>

MigrationStep(p) ==
    \/ CheckName(p) \/ OpenRecord(p) \/ FillRecord(p) \/ Unlink(p) \/ NamesDone(p)
    \/ ListStore(p) \/ CheckItem(p) \/ Move(p) \/ CopyEnds(p) \/ Clear(p) \/ ItemsDone(p)
    \/ OpenExclude(p) \/ FillExclude(p) \/ RemoveStore(p) \/ WriteStamp(p)

MigrationNext ==
    \E p \in Starts : ReadVersion(p) \/ MigrationStep(p) \/ Command(p) \/ Kill(p)

MigrationSpec == MigrationInit /\ [][MigrationNext]_migrationVars

\* A process that runs goes on, and the command line is used again.
MigrationFairness ==
    \A p \in Starts :
        /\ WF_migrationVars(MigrationStep(p)) /\ WF_migrationVars(ReadVersion(p))
        /\ WF_migrationVars(Command(p))
-----------------------------------------------------------------------------
MigrationTypeOK ==
    /\ disk \in DOMAIN Disks
    /\ stamp \in {"none", "torn", "v1", "v2"}
    /\ scoped \in [Names -> {"none", "good", "bad"}]
    /\ record \in [Names -> {"none", "torn", "old", "new"}]
    /\ shelf \in {"full", "bare", "gone"}
    /\ store \in [Items -> {"none", "part", "whole"}]
    /\ hatchery \in [Items -> {"none", "part", "whole", "own"}]
    /\ aside \in [Items -> {"none", "part", "whole"}]
    /\ exclude \in {"user", "both", "ours", "torn"}
    /\ start \in [Starts -> [at : Stages, todo : SUBSET (Names \cup Items),
                             on : Names \cup Items \cup {""},
                             to : {"", "aside", "target", "user", "torn"}]]
    /\ kills \in 0 .. Disk.kills
    /\ latest \subseteq Names /\ overlapped \in BOOLEAN
    /\ cut \subseteq Names \cup Items \cup {"exclude"}

\* An item is whole somewhere: in the store, in .hatchery or aside.
Whole(i) == "whole" \in {store[i], hatchery[i], aside[i]}

\* Nothing of the user's is lost, wherever kills fall and whoever else migrates: each
\* session keeps a record, and the last one saved; each item stays whole in one of
\* its places, and what .hatchery had of its own stays; the user's lines stay in
\* .git/info/exclude.  The excuses are the code's windows: a kill between the two
\* halves of a write, or in the removal of a tree already copied aside, and, for an
\* item that collides, a record saved meanwhile and the exclude file, two at once.
DataKept ==
    /\ \A n \in Names :
          /\ Disk.scoped[n] = "good" \/ n \in Disk.done =>
                \/ scoped[n] = "good" \/ record[n] \in {"old", "new"} \/ n \in cut
                \/ \E p \in Starts : start[p].at = "fill" /\ start[p].on = n
          /\ n \in latest => record[n] = "new" \/ overlapped
    /\ \A i \in Disk.held : Whole(i) \/ i \in cut \/ (i \in Disk.own /\ overlapped)
    /\ \A i \in Disk.own : hatchery[i] = "own"
    /\ exclude \in {"user", "both"} \/ "exclude" \in cut \/ overlapped
          \/ \E p \in Starts : start[p].at = "exclude2"

\* When the version says so the migration is over, whoever wrote it: no scoped file
\* that parses is left, and nothing in the store of a repository that is there.
StampTruthful ==
    stamp = "v2" /\ Disk.version # "v2" =>
        /\ Disk.version # "v1" => \A n \in Names : scoped[n] # "good"
        /\ Disk.repo => \A i \in Items : store[i] = "none"

\* No kill, no race and no half-written file wedges the command line: some start
\* completes the migration.  (Not every later start finds it so: one that overlapped
\* writes the version again, which is torn for a moment.)
EventuallyMigrated == <>(stamp = "v2")
=============================================================================
