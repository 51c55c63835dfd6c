-------------------------- MODULE MigrationProofs --------------------------
(***************************************************************************)
(* Migration for any number of processes, sessions, items and kills: it    *)
(* loses nothing but in the windows that DataKept names, and it stamps the *)
(* version when the work is done.                                          *)
(*                                                                         *)
(* Both rest on where the starts are.  Whatever is still to be migrated is *)
(* on the list of each start that is past the listing (ScopedPending,      *)
(* StorePending); a start that is alone finds what it left off with        *)
(* (Single, Copied, Excluded); and where starts overlap, what they do to a *)
(* record or an item can be done twice (Recorded, Owned, Renamed).         *)
(***************************************************************************)
EXTENDS Migration, TLAPS

Procs == [at : Stages, todo : SUBSET (Names \cup Items), on : Names \cup Items \cup {""},
          to : {"", "aside", "target", "user", "torn"}]

\* What the loops of a start go through, and where it moves an item.
Walk(s, list, e, to) ==
    /\ s \in {"names", "write", "fill", "unlink"} => list \subseteq Names
    /\ s \in {"items", "move", "copy", "clear"} => list \subseteq Items
    /\ s \in {"write", "fill", "unlink"} => e \in list
    /\ s \in {"move", "copy", "clear"} => e \in list /\ to \in {"aside", "target"}
    /\ s = "exclude2" => to \in {"user", "torn"}

Walks == \A p \in Starts : /\ Walk(start[p].at, start[p].todo, start[p].on, start[p].to)
                           /\ start[p].at # "idle" => p \in Disk.starts

TypeInv == MigrationTypeOK /\ Walks

\* The instance is one of DiskType.
LEMMA DiskFacts ==
    ASSUME disk \in DOMAIN Disks
    PROVE  /\ Disk \in DiskType
           /\ Disk.apart => \A p, q \in Disk.starts : p = q
BY MigrationAssumption DEF Disk

-----------------------------------------------------------------------------
\* How a step changes where its process is.
Moved(p, s, list, e, to) ==
    /\ start' \in [Starts -> Procs]
    /\ start'[p].at = s /\ start'[p].todo = list /\ start'[p].on = e /\ start'[p].to = to
    /\ \A q \in Starts : q # p => start'[q] = start[q]

LEMMA RestingFacts ==
    Resting \in Procs /\ Resting.at = "idle" /\ Resting.todo = {} /\ Resting.on = "" /\ Resting.to = ""
BY DEF Resting, Procs, Stages

LEMMA GotoMoves ==
    ASSUME start \in [Starts -> Procs], NEW p \in Starts, NEW s \in Stages, Goto(p, s)
    PROVE  Moved(p, s, start[p].todo, start[p].on, start[p].to)
<1>1. start[p] \in Procs
  OBVIOUS
<1> QED BY <1>1 DEF Goto, Moved, Procs

LEMMA LoopMoves ==
    ASSUME start \in [Starts -> Procs], NEW p \in Starts, NEW s \in Stages,
           NEW list \in SUBSET (Names \cup Items), Loop(p, s, list)
    PROVE  Moved(p, s, list, "", "")
<1> DEFINE r == [Resting EXCEPT !.at = s, !.todo = list]
<1>1. r \in Procs /\ r.at = s /\ r.todo = list /\ r.on = "" /\ r.to = ""
  BY DEF Resting, Procs
<1>2. start' = [start EXCEPT ![p] = r]
  BY DEF Loop
<1> HIDE DEF r
<1> QED BY <1>1, <1>2 DEF Moved

LEMMA NextMoves ==
    ASSUME start \in [Starts -> Procs], NEW p \in Starts, NEW s \in Stages, Next1(p, s)
    PROVE  Moved(p, s, start[p].todo \ {start[p].on}, "", "")
<1>1. start[p].todo \ {start[p].on} \in SUBSET (Names \cup Items)
  BY DEF Procs
<1> QED BY <1>1, LoopMoves DEF Next1

LEMMA EnterMoves ==
    ASSUME start \in [Starts -> Procs], NEW p \in Starts, NEW s \in Stages,
           NEW e \in Names \cup Items \cup {""}, NEW to \in {"", "aside", "target", "user", "torn"},
           Enter(p, s, e, to)
    PROVE  Moved(p, s, start[p].todo, e, to)
<1>1. start[p] \in Procs
  OBVIOUS
<1> DEFINE r == [start[p] EXCEPT !.at = s, !.on = e, !.to = to]
<1>2. r \in Procs /\ r.at = s /\ r.todo = start[p].todo /\ r.on = e /\ r.to = to
  BY <1>1 DEF Procs
<1>3. start' = [start EXCEPT ![p] = r]
  BY DEF Enter
<1> HIDE DEF r
<1> QED BY <1>2, <1>3 DEF Moved

LEMMA RaiseMoves ==
    ASSUME start \in [Starts -> Procs], NEW p \in Starts, Raise(p)
    PROVE  Moved(p, "idle", {}, "", "")
BY RestingFacts DEF Raise, Moved

LEMMA InitTyped == MigrationInit => TypeInv
<1> SUFFICES ASSUME MigrationInit PROVE TypeInv
  OBVIOUS
<1>1. disk \in DOMAIN Disks /\ Disk \in DiskType
  BY DiskFacts DEF MigrationInit
<1>2. start \in [Starts -> Procs] /\ \A p \in Starts : start[p] = Resting
  BY RestingFacts DEF MigrationInit
<1>3. Walks
  BY <1>2, RestingFacts DEF Walks, Walk
<1>4. /\ Disk.version \in {"none", "torn", "v1", "v2"} /\ Disk.scoped \in [Names -> {"none", "good", "bad"}]
      /\ Disk.kills \in Nat
  BY <1>1 DEF DiskType
<1> HIDE DEF Disk
<1>5. /\ scoped \in [Names -> {"none", "good", "bad"}] /\ stamp \in {"none", "torn", "v1", "v2"}
      /\ kills \in 0 .. Disk.kills /\ shelf \in {"full", "bare", "gone"}
      /\ record \in [Names -> {"none", "torn", "old", "new"}]
      /\ store \in [Items -> {"none", "part", "whole"}]
      /\ hatchery \in [Items -> {"none", "part", "whole", "own"}]
      /\ aside \in [Items -> {"none", "part", "whole"}]
  BY <1>4 DEF MigrationInit
<1> QED BY <1>1, <1>2, <1>3, <1>5 DEF MigrationInit, TypeInv, MigrationTypeOK, Procs

\* The types, of a step in which p moves.
LEMMA TypeStep == TypeInv /\ [MigrationNext]_migrationVars => TypeInv'
<1> SUFFICES ASSUME TypeInv, [MigrationNext]_migrationVars
             PROVE  TypeInv'
  OBVIOUS
<1>0. /\ MigrationTypeOK /\ Walks /\ start \in [Starts -> Procs]
      /\ disk' = disk /\ Disk' = Disk /\ Disk \in DiskType
  <2>1. disk' = disk
    BY DEF MigrationNext, MigrationStep, migrationVars, history, files, ReadVersion, CheckName,
       OpenRecord, FillRecord, Unlink, NamesDone, ListStore, CheckItem, Move, CopyEnds, Clear,
       ItemsDone, OpenExclude, FillExclude, RemoveStore, WriteStamp, Command, Kill
  <2> QED BY <2>1, DiskFacts DEF TypeInv, MigrationTypeOK, Disk, Procs
<1> HIDE DEF Disk
<1>t. start \in [Starts -> Procs] <=>
         start \in [Starts -> [at : Stages, todo : SUBSET (Names \cup Items),
                             on : Names \cup Items \cup {""},
                             to : {"", "aside", "target", "user", "torn"}]]
  BY DEF Procs
<1>1. CASE UNCHANGED migrationVars
  BY <1>1, <1>0 DEF migrationVars, TypeInv, MigrationTypeOK, Walks
<1>m. ASSUME NEW p \in Starts, NEW s, NEW list, NEW e, NEW to, Moved(p, s, list, e, to),
             Walk(s, list, e, to), s # "idle" => p \in Disk.starts
      PROVE  Walks' /\ start' \in [Starts -> Procs]
  BY <1>m, <1>0 DEF Moved, Walks, Walk
<1>2. ASSUME NEW p \in Starts, ReadVersion(p)
      PROVE  TypeInv'
  <2>1. Version \in Stages /\ Version \in {"ready", "repos", "names"}
    BY DEF Version, Stages
  <2> DEFINE list == IF Version = "names" THEN {n \in Names : scoped[n] # "none"} ELSE {}
  <2>2. list \in SUBSET (Names \cup Items) /\ list \subseteq Names
    OBVIOUS
  <2>3. Loop(p, Version, list) /\ p \in Disk.starts
    BY <1>2 DEF ReadVersion
  <2> HIDE DEF list
  <2>4. Moved(p, Version, list, "", "") /\ Walk(Version, list, "", "")
    BY <2>1, <2>2, <2>3, <1>0, LoopMoves DEF Walk
  <2>5. Walks' /\ start' \in [Starts -> Procs]
    BY <2>3, <2>4, <1>m
  <2> QED BY <1>2, <1>0, <2>5 DEF ReadVersion, files, TypeInv, MigrationTypeOK, Procs
<1>w. ASSUME NEW p \in Starts
      PROVE  /\ Walk(start[p].at, start[p].todo, start[p].on, start[p].to)
             /\ start[p].at # "idle" => p \in Disk.starts
  BY <1>0 DEF Walks
<1>s. {"names", "write", "fill", "unlink", "repos", "items", "move", "copy", "clear", "exclude",
       "exclude2", "rmtree", "rmdir", "stamp", "stamp2", "idle", "ready"} \subseteq Stages
  BY DEF Stages
<1>3. ASSUME NEW p \in Starts, CheckName(p)
      PROVE  TypeInv'
  <2>1. start[p].at = "names" /\ start[p].todo \subseteq Names /\ p \in Disk.starts
    BY <1>3, <1>w DEF CheckName, Walk
  <2>2. /\ Walks' /\ start' \in [Starts -> Procs]
    <3>1. CASE Raise(p)
      BY <3>1, <1>0, <1>m, RaiseMoves DEF Walk
    <3>2. ASSUME NEW n \in start[p].todo, Loop(p, "names", start[p].todo \ {n})
          PROVE  Walks' /\ start' \in [Starts -> Procs]
      <4>1. start[p].todo \ {n} \in SUBSET (Names \cup Items)
        BY <2>1
      <4>2. Moved(p, "names", start[p].todo \ {n}, "", "")
        BY <3>2, <4>1, <1>0, <1>s, LoopMoves
      <4> QED BY <4>2, <2>1, <1>m DEF Walk
    <3>3. ASSUME NEW n \in start[p].todo, Enter(p, "write", n, "")
          PROVE  Walks' /\ start' \in [Starts -> Procs]
      BY <3>3, <2>1, <1>0, <1>m, <1>s, EnterMoves DEF Walk
    <3> QED BY <1>3, <3>1, <3>2, <3>3 DEF CheckName
  <2> QED BY <1>3, <2>1, <2>2, <1>0 DEF CheckName, history, TypeInv, MigrationTypeOK, Procs
<1>4. ASSUME NEW p \in Starts, OpenRecord(p) \/ FillRecord(p) \/ Unlink(p) \/ NamesDone(p)
      PROVE  TypeInv'
  <2>1. /\ start[p].todo \subseteq Names /\ p \in Disk.starts
        /\ start[p].at # "names" => start[p].on \in Names /\ start[p].on \in start[p].todo
    BY <1>4, <1>w DEF OpenRecord, FillRecord, Unlink, NamesDone, Walk
  <2>2. \/ \E s \in {"fill", "unlink"} : Goto(p, s) /\ start[p].at # "names"
        \/ Goto(p, "repos") \/ Raise(p) \/ Next1(p, "names")
    BY <1>4 DEF OpenRecord, FillRecord, Unlink, NamesDone
  <2>3. Walks' /\ start' \in [Starts -> Procs]
    <3>1. ASSUME NEW s \in {"repos"}, Goto(p, s)
          PROVE  Walks' /\ start' \in [Starts -> Procs]
      <4>1. s \in Stages /\ Moved(p, s, start[p].todo, start[p].on, start[p].to)
        BY <3>1, <1>0, <1>s, GotoMoves
      <4> QED BY <4>1, <2>1, <1>m DEF Walk
    <3>2. ASSUME NEW s \in {"fill", "unlink"}, Goto(p, s), start[p].at # "names"
          PROVE  Walks' /\ start' \in [Starts -> Procs]
      <4>1. s \in Stages /\ Moved(p, s, start[p].todo, start[p].on, start[p].to)
        BY <3>2, <1>0, <1>s, GotoMoves
      <4> QED BY <3>2, <4>1, <2>1, <1>m DEF Walk
    <3>3. CASE Raise(p)
      <4>1. Moved(p, "idle", {}, "", "")
        BY <3>3, <2>1, <1>0, <1>s, RaiseMoves
      <4> QED BY <4>1, <2>1, <1>m DEF Walk
    <3>4. CASE Next1(p, "names")
      <4>1. Moved(p, "names", start[p].todo \ {start[p].on}, "", "")
        BY <3>4, <2>1, <1>0, <1>s, NextMoves
      <4> QED BY <4>1, <2>1, <1>m DEF Walk
    <3> QED BY <2>2, <3>1, <3>2, <3>3, <3>4
  <2>4. /\ scoped \in [Names -> {"none", "good", "bad"}]
        /\ record \in [Names -> {"none", "torn", "old", "new"}]
    BY <1>0 DEF MigrationTypeOK
  <2>5. /\ scoped' \in [Names -> {"none", "good", "bad"}]
        /\ record' \in [Names -> {"none", "torn", "old", "new"}]
        /\ UNCHANGED <<stamp, shelf, store, hatchery, aside, exclude, history>>
    BY <1>4, <2>1, <2>4 DEF OpenRecord, FillRecord, Unlink, NamesDone, files
  <2> QED BY <2>3, <2>5, <1>0 DEF history, TypeInv, MigrationTypeOK, Procs
<1>5. ASSUME NEW p \in Starts, ListStore(p) \/ CheckItem(p) \/ ItemsDone(p)
      PROVE  TypeInv'
  <2>1. p \in Disk.starts /\ (start[p].at = "items" => start[p].todo \subseteq Items)
    BY <1>5, <1>w DEF ListStore, CheckItem, ItemsDone, Walk
  <2>2. \/ Loop(p, "items", {i \in Items : store[i] # "none"})
        \/ Goto(p, "stamp") \/ Goto(p, "exclude")
        \/ /\ start[p].at = "items"
           /\ \E i \in start[p].todo, to \in {"aside", "target"} : Enter(p, "move", i, to)
    BY <1>5 DEF ListStore, CheckItem, ItemsDone
  <2>3. Walks' /\ start' \in [Starts -> Procs]
    <3>1. ASSUME NEW s \in {"stamp", "exclude"}, Goto(p, s)
          PROVE  Walks' /\ start' \in [Starts -> Procs]
      <4>1. s \in Stages /\ Moved(p, s, start[p].todo, start[p].on, start[p].to)
        BY <3>1, <1>0, <1>s, GotoMoves
      <4> QED BY <4>1, <2>1, <1>m DEF Walk
    <3>2. CASE Loop(p, "items", {i \in Items : store[i] # "none"})
      <4>1. Moved(p, "items", {i \in Items : store[i] # "none"}, "", "")
        BY <3>2, <1>0, <1>s, LoopMoves
      <4> QED BY <4>1, <2>1, <1>m DEF Walk
    <3>3. ASSUME start[p].at = "items",
                 NEW i \in start[p].todo, NEW to \in {"aside", "target"}, Enter(p, "move", i, to)
          PROVE  Walks' /\ start' \in [Starts -> Procs]
      <4>1. Moved(p, "move", start[p].todo, i, to)
        BY <3>3, <2>1, <1>0, <1>s, EnterMoves
      <4> QED BY <3>3, <4>1, <2>1, <1>m DEF Walk
    <3> QED BY <2>2, <3>1, <3>2, <3>3
  <2>4. aside \in [Items -> {"none", "part", "whole"}]
    BY <1>0 DEF MigrationTypeOK
  <2>5. /\ aside' \in [Items -> {"none", "part", "whole"}]
        /\ UNCHANGED <<stamp, scoped, record, shelf, store, hatchery, exclude, history>>
    BY <1>5, <2>1, <2>4 DEF ListStore, CheckItem, ItemsDone, files
  <2> QED BY <2>3, <2>5, <1>0 DEF history, TypeInv, MigrationTypeOK, Procs
<1>6. ASSUME NEW p \in Starts, Move(p) \/ CopyEnds(p) \/ Clear(p)
      PROVE  TypeInv'
  <2>1. /\ p \in Disk.starts /\ start[p].todo \subseteq Items /\ start[p].on \in start[p].todo
        /\ start[p].on \in Items /\ start[p].to \in {"aside", "target"}
    BY <1>6, <1>w DEF Move, CopyEnds, Clear, Walk
  <2>2. \/ Raise(p) \/ Goto(p, "copy") \/ Goto(p, "clear") \/ Next1(p, "items")
        \/ UNCHANGED start
    BY <1>6 DEF Move, CopyEnds, Clear
  <2>3. Walks' /\ start' \in [Starts -> Procs]
    <3>1. CASE UNCHANGED start
      BY <3>1, <1>0 DEF Walks
    <3>2. ASSUME NEW s \in {"copy", "clear"}, Goto(p, s)
          PROVE  Walks' /\ start' \in [Starts -> Procs]
      <4>1. s \in Stages /\ Moved(p, s, start[p].todo, start[p].on, start[p].to)
        BY <3>2, <1>0, <1>s, GotoMoves
      <4> QED BY <4>1, <2>1, <1>m DEF Walk
    <3>3. CASE Raise(p)
      <4>1. Moved(p, "idle", {}, "", "")
        BY <3>3, <2>1, <1>0, <1>s, RaiseMoves
      <4> QED BY <4>1, <2>1, <1>m DEF Walk
    <3>4. CASE Next1(p, "items")
      <4>1. Moved(p, "items", start[p].todo \ {start[p].on}, "", "")
        BY <3>4, <2>1, <1>0, <1>s, NextMoves
      <4> QED BY <4>1, <2>1, <1>m DEF Walk
    <3> QED BY <2>2, <3>1, <3>2, <3>3, <3>4
  <2>4. /\ UNCHANGED <<stamp, scoped, record, shelf, exclude, history>>
        /\ store' \in [Items -> {"none", "part", "whole"}]
    BY <1>6, <2>1, <1>0 DEF Move, CopyEnds, Clear, MigrationTypeOK
  <2>5. \/ UNCHANGED <<hatchery, aside>>
        \/ \E what \in {"none", "part", "whole"} : Put(p, what)
    BY <1>6, <2>1, <1>0 DEF Move, CopyEnds, Clear, MigrationTypeOK
  <2>6. /\ hatchery' \in [Items -> {"none", "part", "whole", "own"}]
        /\ aside' \in [Items -> {"none", "part", "whole"}]
    <3>1. /\ hatchery \in [Items -> {"none", "part", "whole", "own"}]
          /\ aside \in [Items -> {"none", "part", "whole"}]
      BY <1>0 DEF MigrationTypeOK
    <3>2. ASSUME NEW what \in {"none", "part", "whole"}, Put(p, what)
          PROVE  \/ /\ aside' = [aside EXCEPT ![start[p].on] = what]
                    /\ UNCHANGED hatchery
                 \/ /\ hatchery' = [hatchery EXCEPT ![start[p].on] = what]
                    /\ UNCHANGED aside
      BY <3>2 DEF Put
    <3> QED BY <2>5, <3>1, <3>2
  <2> QED BY <2>3, <2>4, <2>6, <1>0 DEF history, TypeInv, MigrationTypeOK, Procs
<1>7. ASSUME NEW p \in Starts, OpenExclude(p) \/ FillExclude(p) \/ RemoveStore(p) \/ WriteStamp(p)
      PROVE  TypeInv'
  <2>1. p \in Disk.starts
    BY <1>7, <1>w DEF OpenExclude, FillExclude, RemoveStore, WriteStamp, Walk
  <2>2. \/ \E s \in {"rmtree", "rmdir", "stamp", "stamp2"} : Goto(p, s)
        \/ Raise(p) \/ Loop(p, "ready", {})
        \/ Enter(p, "exclude2", "", exclude) /\ exclude \in {"user", "torn"}
    BY <1>7, <1>0 DEF OpenExclude, FillExclude, RemoveStore, WriteStamp, MigrationTypeOK
  <2>3. Walks' /\ start' \in [Starts -> Procs]
    <3>1. ASSUME NEW s \in {"rmtree", "rmdir", "stamp", "stamp2"}, Goto(p, s)
          PROVE  Walks' /\ start' \in [Starts -> Procs]
      <4>1. s \in Stages /\ Moved(p, s, start[p].todo, start[p].on, start[p].to)
        BY <3>1, <1>0, <1>s, GotoMoves
      <4> QED BY <4>1, <2>1, <1>m DEF Walk
    <3>2. CASE Raise(p)
      <4>1. Moved(p, "idle", {}, "", "")
        BY <3>2, <2>1, <1>0, <1>s, RaiseMoves
      <4> QED BY <4>1, <2>1, <1>m DEF Walk
    <3>3. CASE Loop(p, "ready", {})
      <4>1. Moved(p, "ready", {}, "", "")
        BY <3>3, <2>1, <1>0, <1>s, LoopMoves
      <4> QED BY <4>1, <2>1, <1>m DEF Walk
    <3>4. CASE Enter(p, "exclude2", "", exclude) /\ exclude \in {"user", "torn"}
      <4>1. Moved(p, "exclude2", start[p].todo, "", exclude)
        BY <3>4, <1>0, <1>s, EnterMoves
      <4> QED BY <3>4, <4>1, <2>1, <1>m DEF Walk
    <3> QED BY <2>2, <3>1, <3>2, <3>3, <3>4
  <2> QED BY <1>7, <2>1, <2>3, <1>0 DEF OpenExclude, FillExclude, RemoveStore, WriteStamp,
             files, history, TypeInv, MigrationTypeOK, Procs
<1>8. ASSUME NEW p \in Starts, Command(p) \/ Kill(p)
      PROVE  TypeInv'
  <2>1. Raise(p)
    BY <1>8 DEF Command, Kill
  <2>2. Walks' /\ start' \in [Starts -> Procs]
    BY <2>1, <1>0, <1>m, RaiseMoves DEF Walk
  <2>3. Writing(p) \subseteq Names \cup Items \cup {"exclude"}
    BY <1>w DEF Writing, Walk
  <2>4. Disk.kills \in Nat
    BY <1>0 DEF DiskType
  <2>5. CASE Command(p)
    BY <2>5, <2>2, <1>0 DEF Command, TypeInv, MigrationTypeOK, Procs
  <2>6. CASE Kill(p)
    <3>1. kills' \in 0 .. Disk'.kills
      <4>1. kills \in 0 .. Disk.kills
        BY <1>0 DEF MigrationTypeOK
      <4>2. kills' = kills + 1 /\ kills < Disk.kills /\ Disk'.kills = Disk.kills
        BY <2>6, <1>0 DEF Kill
      <4> QED BY <4>1, <4>2, <2>4
    <3>2. cut' \subseteq Names \cup Items \cup {"exclude"}
      BY <2>6, <2>3, <1>0 DEF Kill, MigrationTypeOK
    <3> QED BY <2>6, <2>2, <3>1, <3>2, <1>0 DEF Kill, files, TypeInv, MigrationTypeOK, Procs
  <2> QED BY <1>8, <2>5, <2>6
<1> QED BY <1>1, <1>2, <1>3, <1>4, <1>5, <1>6, <1>7, <1>8 DEF MigrationNext, MigrationStep

\* Every variable of a migration has its type, and a start is where its list says.
THEOREM MigrationTyped == MigrationSpec => []MigrationTypeOK
<1>1. TypeInv => MigrationTypeOK
  BY DEF TypeInv
<1> QED BY <1>1, InitTyped, TypeStep, PTL DEF MigrationSpec
-----------------------------------------------------------------------------
\* While no two have overlapped: one migration at a time, and none once the version is
\* written, which a command finds when it saves.
Single ==
    ~overlapped =>
        /\ \A p, q \in Starts : Running(p) /\ Running(q) => p = q
        /\ stamp = "v2" => \A p \in Starts : ~Running(p)
        /\ \A p \in Starts : start[p].at = "ready" => stamp = "v2"
        /\ latest # {} => stamp = "v2"

\* A store on another device has one process, so that none overlaps it.
Device == overlapped => ~Disk.apart

\* What is still to be migrated is on the list of whoever is past the listing.
ScopedPending ==
    Disk.version \notin {"v1", "v2"} =>
        /\ stamp # "v1"
        /\ \A n \in Names : scoped[n] = "good" =>
              /\ stamp # "v2"
              /\ \A p \in Starts :
                    \/ start[p].at = "idle"
                    \/ start[p].at \in {"names", "write", "fill", "unlink"} /\ n \in start[p].todo
StorePending ==
    Disk.version # "v2" /\ Disk.repo =>
        \A i \in Items : store[i] # "none" =>
            /\ stamp # "v2" /\ shelf = "full"
            /\ \A p \in Starts :
                  \/ start[p].at \in {"idle", "names", "write", "fill", "unlink", "repos"}
                  \/ start[p].at \in {"items", "move", "copy", "clear"} /\ i \in start[p].todo

\* A session's record is there before its scoped file goes; a torn one is being filled, or
\* a kill fell into it.
Recorded(n) ==
    /\ Disk.scoped[n] = "good" \/ n \in Disk.done => scoped[n] = "good" \/ record[n] # "none"
    /\ record[n] = "torn" => \/ n \in cut
                             \/ \E p \in Starts : start[p].at = "fill" /\ start[p].on = n
    /\ ~overlapped /\ n \in latest => record[n] = "new"
    /\ \A p \in Starts : start[p].at \in {"fill", "unlink"} /\ start[p].on = n => record[n] # "none"

Dest(p, i) == IF start[p].to = "aside" THEN aside[i] ELSE hatchery[i]
Moving(p, i) == start[p].at \in {"move", "copy", "clear"} /\ start[p].on = i

\* What .hatchery has of its own stays there.
Owned(i) == i \in Disk.own => /\ hatchery[i] = "own"
                              /\ \A p \in Starts : Moving(p, i) => start[p].to = "aside"

\* On one device an item is in one place: nothing is moved on top of it, however many move.
Renamed(i) ==
    ~Disk.apart =>
        /\ store[i] \in {"whole", "none"}
        /\ \A p \in Starts : start[p].at \notin {"copy", "clear"}
        /\ i \notin Disk.own =>
              /\ hatchery[i] \in {"whole", "none"}
              /\ i \in Disk.held /\ store[i] = "none" => hatchery[i] = "whole"
              /\ \A p \in Starts : Moving(p, i) /\ start[p].to = "aside" => hatchery[i] = "whole"

\* Alone, what is in a store is whole until it has arrived, but for a tree that a kill
\* left half removed.
Copied(i) ==
    ~overlapped =>
        /\ \A p \in Starts : start[p].at \in {"items", "move", "copy", "clear"} /\ i \in start[p].todo =>
              store[i] # "none"
        /\ i \in Disk.held /\ i \notin cut =>
              /\ store[i] = "part" => \E p \in Starts : start[p].at = "clear" /\ start[p].on = i
              /\ store[i] = "none" => "whole" \in {hatchery[i], aside[i]}
              /\ \A p \in Starts : start[p].at = "clear" /\ start[p].on = i => Dest(p, i) = "whole"

\* The user's lines in the exclude file, alone and not cut.
Excluded ==
    ~overlapped /\ "exclude" \notin cut =>
        /\ exclude # "ours"
        /\ exclude = "torn" => \E p \in Starts : start[p].at = "exclude2"
        /\ \A p \in Starts : start[p].at = "exclude2" => start[p].to = "user"

MigrationInv == /\ TypeInv /\ Single /\ Device /\ ScopedPending /\ StorePending /\ Excluded
                /\ \A n \in Names : Recorded(n)
                /\ \A i \in Items : Owned(i) /\ Renamed(i) /\ Copied(i)

LEMMA InvImplies == MigrationInv => DataKept /\ StampTruthful
<1> SUFFICES ASSUME MigrationInv
             PROVE  DataKept /\ StampTruthful
  OBVIOUS
<1> HIDE DEF Disk
<1>1. MigrationTypeOK /\ Disk \in DiskType
  BY DiskFacts DEF MigrationInv, TypeInv, MigrationTypeOK
<1>2. StampTruthful
  BY DEF MigrationInv, ScopedPending, StorePending, StampTruthful
<1>3. ASSUME NEW n \in Names
      PROVE  /\ Disk.scoped[n] = "good" \/ n \in Disk.done =>
                    \/ scoped[n] = "good" \/ record[n] \in {"old", "new"} \/ n \in cut
                    \/ \E p \in Starts : start[p].at = "fill" /\ start[p].on = n
             /\ n \in latest => record[n] = "new" \/ overlapped
  <2>1. Recorded(n) /\ record[n] \in {"none", "torn", "old", "new"}
    BY <1>1 DEF MigrationInv, MigrationTypeOK
  <2> QED BY <2>1 DEF Recorded
<1>4. ASSUME NEW i \in Disk.held
      PROVE  Whole(i) \/ i \in cut \/ (i \in Disk.own /\ overlapped)
  <2>1. /\ i \in Items /\ Renamed(i) /\ Copied(i) /\ Device
        /\ store[i] \in {"none", "part", "whole"}
    BY <1>1 DEF DiskType, MigrationInv, MigrationTypeOK
  <2> QED BY <2>1 DEF Whole, Renamed, Copied, Device, Dest
<1>5. ASSUME NEW i \in Disk.own
      PROVE  hatchery[i] = "own"
  <2>1. i \in Items /\ Owned(i)
    BY <1>1 DEF DiskType, MigrationInv
  <2> QED BY <2>1 DEF Owned
<1>6. exclude \in {"user", "both"} \/ "exclude" \in cut \/ overlapped
         \/ \E p \in Starts : start[p].at = "exclude2"
  BY <1>1 DEF MigrationInv, Excluded, MigrationTypeOK
<1> QED BY <1>2, <1>3, <1>4, <1>5, <1>6 DEF DataKept

LEMMA InitInv == MigrationInit => MigrationInv
<1> SUFFICES ASSUME MigrationInit PROVE MigrationInv
  OBVIOUS
<1>1. /\ TypeInv /\ Disk \in DiskType
      /\ \A p \in Starts : start[p].at = "idle" /\ start[p] = Resting
  BY InitTyped, DiskFacts, RestingFacts DEF MigrationInit
<1> HIDE DEF Disk
<1>2. Single /\ Device /\ Excluded
  BY <1>1 DEF MigrationInit, Single, Device, Excluded, Running
<1>3. /\ stamp = Disk.version /\ scoped = Disk.scoped
      /\ shelf = "full" \/ Disk.held = {}
      /\ \A i \in Items : store[i] = IF i \in Disk.held THEN "whole" ELSE "none"
  BY DEF MigrationInit
<1>4. ScopedPending /\ StorePending
  BY <1>1, <1>3 DEF ScopedPending, StorePending
<1>5. ASSUME NEW n \in Names PROVE Recorded(n)
  <2>1. scoped = Disk.scoped /\ latest = {} /\ record[n] = IF n \in Disk.done THEN "old" ELSE "none"
    BY DEF MigrationInit
  <2> QED BY <2>1, <1>1 DEF Recorded
<1>6. ASSUME NEW i \in Items PROVE Owned(i) /\ Renamed(i) /\ Copied(i)
  <2>1. /\ hatchery[i] = IF i \in Disk.own THEN "own" ELSE "none"
        /\ aside[i] = "none"
    BY DEF MigrationInit
  <2> QED BY <2>1, <1>1, <1>3 DEF Owned, Renamed, Copied, Moving
<1> QED BY <1>1, <1>2, <1>4, <1>5, <1>6 DEF MigrationInv
LEMMA Context ==
    ASSUME MigrationInv, [MigrationNext]_migrationVars
    PROVE  /\ TypeInv /\ TypeInv' /\ start \in [Starts -> Procs] /\ Walks
           /\ disk' = disk /\ Disk' = Disk /\ Disk \in DiskType
<1>1. TypeInv /\ TypeInv'
  BY TypeStep DEF MigrationInv
<1>2. disk' = disk
  BY DEF MigrationNext, MigrationStep, migrationVars, history, files, ReadVersion, CheckName,
     OpenRecord, FillRecord, Unlink, NamesDone, ListStore, CheckItem, Move, CopyEnds, Clear,
     ItemsDone, OpenExclude, FillExclude, RemoveStore, WriteStamp, Command, Kill
<1> QED BY <1>1, <1>2, DiskFacts DEF TypeInv, MigrationTypeOK, Disk, Procs

\* The process that steps, as the type invariant knows it.
LEMMA Mover ==
    ASSUME MigrationInv, NEW p \in Starts
    PROVE  /\ start \in [Starts -> Procs] /\ start[p] \in Procs
           /\ Walk(start[p].at, start[p].todo, start[p].on, start[p].to)
           /\ start[p].at # "idle" => p \in Disk.starts
BY DEF MigrationInv, TypeInv, MigrationTypeOK, Walks, Procs

LEMMA StageFacts ==
    {"names", "write", "fill", "unlink", "repos", "items", "move", "copy", "clear", "exclude",
     "exclude2", "rmtree", "rmdir", "stamp", "stamp2", "idle", "ready"} \subseteq Stages
BY DEF Stages

LEMMA ReadVersionKeeps ==
    ASSUME MigrationInv, NEW p \in Starts, ReadVersion(p), TypeInv', Disk' = Disk, Disk \in DiskType
    PROVE  MigrationInv'
<1> DEFINE list == IF Version = "names" THEN {n \in Names : scoped[n] # "none"} ELSE {}
<1>1. Version \in Stages /\ list \in SUBSET (Names \cup Items) /\ Loop(p, Version, list)
  BY DEF Version, Stages, ReadVersion
<1>2. Moved(p, Version, list, "", "")
  BY <1>1, Mover, LoopMoves
<1>3. /\ start[p].at = "idle" /\ p \in Disk.starts
      /\ UNCHANGED <<stamp, files, disk, kills, latest, cut>>
      /\ overlapped' = (overlapped \/ (Version # "ready" /\ \E q \in Starts \ {p} : Running(q)))
  BY DEF ReadVersion
<1>4. /\ \A n \in Names : scoped[n] = "good" /\ Version = "names" => n \in list
      /\ \/ stamp = "v2" /\ Version = "ready"
         \/ stamp = "v1" /\ Version = "repos"
         \/ stamp \in {"none", "torn"} /\ Version = "names"
  BY DEF Version, MigrationInv, TypeInv, MigrationTypeOK
<1> HIDE DEF list, Disk
<1>5. Single'
  BY <1>2, <1>3, <1>4 DEF MigrationInv, Single, Moved, Running
<1>6. Device'
  <2>1. \A q \in Starts : Running(q) => q \in Disk.starts
    BY Mover DEF Running
  <2>2. Disk.apart => \A q, r \in Disk.starts : q = r
    BY DiskFacts DEF MigrationInv, TypeInv, MigrationTypeOK
  <2> QED BY <1>3, <2>1, <2>2 DEF MigrationInv, Device
<1>7. ScopedPending' /\ StorePending' /\ Excluded'
  BY <1>2, <1>3, <1>4 DEF MigrationInv, ScopedPending, StorePending, Excluded, Moved, files
<1>m. /\ start[p].at = "idle" /\ start'[p].at \in {"ready", "repos", "names"}
      /\ \A q \in Starts : q # p => start'[q] = start[q]
      /\ overlapped => overlapped'
  BY <1>2, <1>3, <1>4 DEF Moved
<1>8. ASSUME NEW n \in Names PROVE Recorded(n)'
  <2>1. Recorded(n) /\ UNCHANGED <<scoped, record, cut, latest, Disk>>
    BY <1>3 DEF MigrationInv, files
  <2> QED BY <2>1, <1>m DEF Recorded
<1>9. ASSUME NEW i \in Items PROVE Owned(i)' /\ Renamed(i)' /\ Copied(i)'
  <2>1. /\ Owned(i) /\ Renamed(i) /\ Copied(i)
        /\ UNCHANGED <<store, hatchery, aside, cut, Disk>>
    BY <1>3 DEF MigrationInv, files
  <2> QED BY <2>1, <1>m DEF Owned, Renamed, Copied, Moving, Dest
<1> QED BY <1>5, <1>6, <1>7, <1>8, <1>9 DEF MigrationInv

\* p goes to s, and no one else moves.
Goes(p, s) == start'[p].at = s /\ \A q \in Starts : q # p => start'[q] = start[q]

\* A step in the part that is about the sessions leaves the invariants of the others.
LEMMA NamesApart ==
    ASSUME MigrationInv, NEW p \in Starts, Disk' = Disk,
           start[p].at \in {"names", "write", "fill", "unlink"},
           NEW s \in {"idle", "names", "write", "fill", "unlink", "repos"}, Goes(p, s),
           UNCHANGED <<stamp, shelf, store, hatchery, aside, exclude, history>>
    PROVE  /\ Single' /\ Device' /\ StorePending' /\ Excluded'
           /\ \A i \in Items : Owned(i)' /\ Renamed(i)' /\ Copied(i)'
<1>1. /\ UNCHANGED <<stamp, shelf, store, hatchery, aside, exclude, overlapped, latest, cut>>
      /\ start'[p].at = s /\ \A q \in Starts : q # p => start'[q] = start[q]
  BY DEF history, Goes
<1> HIDE DEF Disk
<1>2. Single'
  BY <1>1 DEF MigrationInv, Single, Running
<1>3. Device' /\ StorePending'
  BY <1>1 DEF MigrationInv, Device, StorePending
<1>4. Excluded'
  BY <1>1 DEF MigrationInv, Excluded
<1>5. ASSUME NEW i \in Items PROVE Owned(i)' /\ Renamed(i)' /\ Copied(i)'
  <2>1. Owned(i) /\ Renamed(i) /\ Copied(i)
    BY DEF MigrationInv
  <2> QED BY <2>1, <1>1 DEF Owned, Renamed, Copied, Moving, Dest
<1> QED BY <1>2, <1>3, <1>4, <1>5

\* A step in the part that is about a store leaves the invariants of the sessions.
LEMMA StoreApart ==
    ASSUME MigrationInv, NEW p \in Starts, Disk' = Disk,
           start[p].at \notin {"idle", "names", "write", "fill", "unlink"},
           NEW s \in Stages \ {"names", "write", "fill", "unlink"}, Goes(p, s),
           UNCHANGED <<scoped, record, latest, overlapped, cut>>,
           stamp' = stamp \/ stamp' \in {"torn", "v2"}
    PROVE  /\ Device' /\ ScopedPending' /\ \A n \in Names : Recorded(n)'
<1>1. start'[p].at = s /\ \A q \in Starts : q # p => start'[q] = start[q]
  BY DEF Goes
<1> HIDE DEF Disk
<1>2. Device' /\ ScopedPending'
  BY <1>1 DEF MigrationInv, Device, ScopedPending
<1>3. ASSUME NEW n \in Names PROVE Recorded(n)'
  <2>1. Recorded(n)
    BY DEF MigrationInv
  <2> QED BY <2>1, <1>1 DEF Recorded
<1> QED BY <1>2, <1>3

LEMMA CheckNameKeeps ==
    ASSUME MigrationInv, NEW p \in Starts, CheckName(p), TypeInv', Disk' = Disk
    PROVE  MigrationInv'
<1>1. /\ start[p].at = "names" /\ start[p].todo \subseteq Names
      /\ UNCHANGED <<stamp, record, shelf, store, hatchery, aside, exclude, history>>
  BY Mover DEF CheckName, Walk
<1>2. PICK n \in start[p].todo :
         \/ scoped[n] = "none" /\ Raise(p) /\ UNCHANGED scoped
         \/ /\ record[n] # "none" /\ scoped' = [scoped EXCEPT ![n] = "none"]
            /\ Loop(p, "names", start[p].todo \ {n})
         \/ /\ scoped[n] = "bad" /\ UNCHANGED scoped
            /\ Loop(p, "names", start[p].todo \ {n})
         \/ Enter(p, "write", n, "") /\ UNCHANGED scoped
  BY DEF CheckName
<1>3. n \in Names /\ start[p].todo \ {n} \in SUBSET (Names \cup Items)
  BY <1>1
<1>4. \/ scoped[n] = "none" /\ Moved(p, "idle", {}, "", "") /\ UNCHANGED scoped
      \/ /\ record[n] # "none" /\ scoped' = [scoped EXCEPT ![n] = "none"]
         /\ Moved(p, "names", start[p].todo \ {n}, "", "")
      \/ scoped[n] = "bad" /\ UNCHANGED scoped /\ Moved(p, "names", start[p].todo \ {n}, "", "")
      \/ Moved(p, "write", start[p].todo, n, "") /\ UNCHANGED scoped
  <2>1. Raise(p) => Moved(p, "idle", {}, "", "")
    BY Mover, RaiseMoves
  <2>2. Loop(p, "names", start[p].todo \ {n}) => Moved(p, "names", start[p].todo \ {n}, "", "")
    BY <1>3, Mover, StageFacts, LoopMoves
  <2>3. Enter(p, "write", n, "") => Moved(p, "write", start[p].todo, n, "")
    BY <1>3, Mover, StageFacts, EnterMoves
  <2> QED BY <1>2, <2>1, <2>2, <2>3
<1> HIDE DEF Disk
<1>5. \E s \in {"idle", "names", "write"} : Goes(p, s)
  BY <1>4 DEF Moved, Goes
<1>6. /\ Single' /\ Device' /\ StorePending' /\ Excluded'
      /\ \A i \in Items : Owned(i)' /\ Renamed(i)' /\ Copied(i)'
  BY <1>1, <1>5, NamesApart
<1>7. scoped \in [Names -> {"none", "good", "bad"}]
  BY DEF MigrationInv, TypeInv, MigrationTypeOK
<1>8. ScopedPending'
  BY <1>1, <1>3, <1>4, <1>7 DEF MigrationInv, ScopedPending, Moved
<1>9. ASSUME NEW m \in Names PROVE Recorded(m)'
  <2>1. Recorded(m) /\ UNCHANGED <<record, latest, overlapped, cut>>
    BY <1>1 DEF MigrationInv, history
  <2>2. /\ start'[p].at \in {"idle", "names", "write"} /\ \A q \in Starts : q # p => start'[q] = start[q]
        /\ (scoped[m] = "good" => scoped'[m] = "good" \/ record[m] # "none")
    BY <1>3, <1>4, <1>7 DEF Moved
  <2> QED BY <2>1, <2>2, <1>1 DEF Recorded
<1> QED BY <1>6, <1>8, <1>9 DEF MigrationInv

LEMMA RecordKeeps ==
    ASSUME MigrationInv, NEW p \in Starts, TypeInv', Disk' = Disk,
           OpenRecord(p) \/ FillRecord(p) \/ Unlink(p) \/ NamesDone(p)
    PROVE  MigrationInv'
<1> DEFINE n == start[p].on
<1>1. /\ start[p].at \in {"names", "write", "fill", "unlink"} /\ start[p].todo \subseteq Names
      /\ start[p].at # "names" => n \in Names /\ n \in start[p].todo
      /\ UNCHANGED <<stamp, shelf, store, hatchery, aside, exclude, history>>
  BY Mover DEF OpenRecord, FillRecord, Unlink, NamesDone, Walk, files
<1>2. \/ /\ start[p].at = "write" /\ record' = [record EXCEPT ![n] = "torn"] /\ UNCHANGED scoped
         /\ Moved(p, "fill", start[p].todo, n, start[p].to)
      \/ /\ start[p].at = "fill" /\ record' = [record EXCEPT ![n] = "old"] /\ UNCHANGED scoped
         /\ Moved(p, "unlink", start[p].todo, n, start[p].to)
      \/ /\ start[p].at = "unlink" /\ scoped' = [scoped EXCEPT ![n] = "none"] /\ UNCHANGED record
         /\ \/ Moved(p, "idle", {}, "", "")
            \/ Moved(p, "names", start[p].todo \ {n}, "", "")
      \/ /\ start[p].at = "names" /\ start[p].todo = {} /\ UNCHANGED <<scoped, record>>
         /\ Moved(p, "repos", start[p].todo, n, start[p].to)
  BY Mover, StageFacts, GotoMoves, RaiseMoves, NextMoves
     DEF OpenRecord, FillRecord, Unlink, NamesDone, files
<1> HIDE DEF n, Disk
<1>5. \E s \in {"idle", "names", "fill", "unlink", "repos"} : Goes(p, s)
  BY <1>2 DEF Moved, Goes
<1>6. /\ Single' /\ Device' /\ StorePending' /\ Excluded'
      /\ \A i \in Items : Owned(i)' /\ Renamed(i)' /\ Copied(i)'
  BY <1>1, <1>5, NamesApart
<1>7. /\ scoped \in [Names -> {"none", "good", "bad"}]
      /\ record \in [Names -> {"none", "torn", "old", "new"}]
  BY DEF MigrationInv, TypeInv, MigrationTypeOK
<1>8. ScopedPending'
  <2>1. /\ UNCHANGED <<stamp, Disk>> /\ ScopedPending
        /\ \A m \in Names : scoped'[m] = "good" => scoped[m] = "good"
    BY <1>1, <1>2, <1>7 DEF MigrationInv
  <2>2. ASSUME NEW m \in Names, scoped'[m] = "good"
        PROVE  \/ start'[p].at = "idle"
               \/ /\ start'[p].at \in {"names", "write", "fill", "unlink"}
                  /\ m \in start'[p].todo
               \/ m \notin start[p].todo
    BY <2>2, <1>1, <1>2, <1>7 DEF Moved
  <2> QED BY <2>1, <2>2, <1>1, <1>5 DEF ScopedPending, Goes
<1>9. ASSUME NEW m \in Names PROVE Recorded(m)'
  <2>1. Recorded(m) /\ UNCHANGED <<latest, overlapped, cut>>
    BY <1>1 DEF MigrationInv, history
  <2>2. ~overlapped => latest = {}
    BY <1>1 DEF MigrationInv, Single, Running
  <2>3. \A q \in Starts : q # p => start'[q] = start[q]
    BY <1>5 DEF Goes
  <2>4. n = start[p].on
    BY DEF n
  <2>5. CASE start[p].at = "write" /\ record' = [record EXCEPT ![n] = "torn"] /\ UNCHANGED scoped
    <3>1. start'[p].at = "fill" /\ start'[p].on = n
      BY <2>5, <1>2 DEF Moved
    <3> QED BY <3>1, <2>1, <2>2, <2>3, <2>4, <2>5, <1>1, <1>7 DEF Recorded
  <2>6. CASE start[p].at = "fill" /\ record' = [record EXCEPT ![n] = "old"] /\ UNCHANGED scoped
    <3>1. start'[p].at = "unlink" /\ start'[p].on = n
      BY <2>6, <1>2 DEF Moved
    <3> QED BY <3>1, <2>1, <2>2, <2>3, <2>4, <2>6, <1>1, <1>7 DEF Recorded
  <2>7. CASE start[p].at = "unlink" /\ scoped' = [scoped EXCEPT ![n] = "none"] /\ UNCHANGED record
    <3>1. start'[p].at \in {"idle", "names"}
      BY <2>7, <1>2 DEF Moved
    <3> QED BY <3>1, <2>1, <2>2, <2>3, <2>4, <2>7, <1>1, <1>7 DEF Recorded
  <2>8. CASE start[p].at = "names" /\ UNCHANGED <<scoped, record>>
    <3>1. start'[p].at = "repos"
      BY <2>8, <1>2 DEF Moved
    <3> QED BY <3>1, <2>1, <2>2, <2>3, <2>4, <2>8, <1>1, <1>7 DEF Recorded
  <2> QED BY <1>2, <2>5, <2>6, <2>7, <2>8
<1> QED BY <1>6, <1>8, <1>9 DEF MigrationInv

\* Who is at work goes on or ends; the version and the exclude file stay.
LEMMA WorkApart ==
    ASSUME MigrationInv, NEW p \in Starts, Disk' = Disk, Running(p), start[p].at # "exclude2",
           NEW s \in Stages \ {"ready", "exclude2"}, Goes(p, s),
           UNCHANGED <<stamp, exclude, history>>
    PROVE  Single' /\ Excluded'
<1>1. /\ UNCHANGED <<stamp, exclude, overlapped, latest, cut>>
      /\ start'[p].at = s /\ \A q \in Starts : q # p => start'[q] = start[q]
  BY DEF history, Goes
<1>2. Single'
  BY <1>1 DEF MigrationInv, Single, Running
<1>3. Excluded'
  BY <1>1 DEF MigrationInv, Excluded
<1> QED BY <1>2, <1>3

LEMMA ListKeeps ==
    ASSUME MigrationInv, NEW p \in Starts, TypeInv', Disk' = Disk,
           ListStore(p) \/ ItemsDone(p)
    PROVE  MigrationInv'
<1> DEFINE list == {i \in Items : store[i] # "none"}
<1>1. /\ start[p].at \in {"repos", "items"} /\ Running(p)
      /\ UNCHANGED <<stamp, files, history>>
  BY DEF ListStore, ItemsDone, Running
<1>2. \/ start[p].at = "repos" /\ Moved(p, "items", list, "", "")
      \/ /\ start[p].at = "repos" /\ ~(shelf = "full" /\ Disk.repo)
         /\ Moved(p, "stamp", start[p].todo, start[p].on, start[p].to)
      \/ /\ start[p].at = "items" /\ start[p].todo = {}
         /\ Moved(p, "exclude", start[p].todo, start[p].on, start[p].to)
  BY Mover, StageFacts, GotoMoves, LoopMoves DEF ListStore, ItemsDone
<1>3. \A i \in Items : store[i] # "none" => i \in list
  OBVIOUS
<1>l. \A i : i \in list => store[i] # "none"
  OBVIOUS
<1> HIDE DEF list, Disk
<1>4. PICK s \in {"items", "stamp", "exclude"} : Goes(p, s) /\ start'[p].at = s
  BY <1>2 DEF Moved, Goes
<1>5. Device' /\ ScopedPending' /\ \A n \in Names : Recorded(n)'
  BY <1>1, <1>4, StageFacts, StoreApart DEF files, history
<1>6. Single' /\ Excluded'
  BY <1>1, <1>4, StageFacts, WorkApart DEF files
<1>7. StorePending'
  <2>1. StorePending /\ UNCHANGED <<stamp, shelf, store, Disk>>
    BY <1>1 DEF MigrationInv, files
  <2>2. ASSUME NEW i \in Items, store[i] # "none", Disk.version # "v2", Disk.repo
        PROVE  start'[p].at = "items" /\ i \in start'[p].todo
    BY <2>1, <2>2, <1>1, <1>2, <1>3 DEF StorePending, Moved
  <2> QED BY <2>1, <2>2, <1>4 DEF StorePending, Goes
<1>8. ASSUME NEW i \in Items PROVE Owned(i)' /\ Renamed(i)' /\ Copied(i)'
  <2>1. /\ Owned(i) /\ Renamed(i) /\ Copied(i)
        /\ UNCHANGED <<store, hatchery, aside, cut, overlapped, Disk>>
    BY <1>1 DEF MigrationInv, files, history
  <2>2. \A q \in Starts : q # p => start'[q] = start[q]
    BY <1>4 DEF Goes
  <2>3. start'[p].at = "items" /\ i \in start'[p].todo => store[i] # "none"
    BY <1>2, <1>l DEF Moved
  <2> QED BY <2>1, <2>2, <2>3, <1>1, <1>4 DEF Owned, Renamed, Copied, Moving, Dest
<1> QED BY <1>5, <1>6, <1>7, <1>8 DEF MigrationInv

LEMMA CheckItemKeeps ==
    ASSUME MigrationInv, NEW p \in Starts, TypeInv', Disk' = Disk, CheckItem(p)
    PROVE  MigrationInv'
<1>1. /\ start[p].at = "items" /\ Running(p) /\ start[p].todo \subseteq Items
      /\ UNCHANGED <<stamp, scoped, record, shelf, store, hatchery, exclude, history>>
  BY Mover DEF CheckItem, Running, Walk
<1>2. PICK e \in start[p].todo :
         \/ hatchery[e] # "none" /\ aside' = [aside EXCEPT ![e] = "none"] /\ Enter(p, "move", e, "aside")
         \/ hatchery[e] = "none" /\ UNCHANGED aside /\ Enter(p, "move", e, "target")
  BY DEF CheckItem
<1>3. \/ /\ hatchery[e] # "none" /\ aside' = [aside EXCEPT ![e] = "none"]
         /\ Moved(p, "move", start[p].todo, e, "aside")
      \/ /\ hatchery[e] = "none" /\ UNCHANGED aside
         /\ Moved(p, "move", start[p].todo, e, "target")
  BY <1>1, <1>2, Mover, StageFacts, EnterMoves
<1> HIDE DEF Disk
<1>4. /\ Goes(p, "move") /\ start'[p].at = "move" /\ start'[p].on = e
      /\ start'[p].todo = start[p].todo
      /\ \A q \in Starts : q # p => start'[q] = start[q]
  BY <1>3 DEF Moved, Goes
<1>5. Device' /\ ScopedPending' /\ \A n \in Names : Recorded(n)'
  BY <1>1, <1>4, StageFacts, StoreApart DEF history
<1>6. Single' /\ Excluded'
  BY <1>1, <1>4, StageFacts, WorkApart
<1>7. StorePending'
  <2>1. StorePending /\ UNCHANGED <<stamp, shelf, store, Disk>>
    BY <1>1 DEF MigrationInv
  <2> QED BY <2>1, <1>1, <1>4 DEF StorePending
<1>8. ASSUME NEW i \in Items PROVE Owned(i)' /\ Renamed(i)' /\ Copied(i)'
  <2>1. /\ Owned(i) /\ Renamed(i) /\ Copied(i) /\ Single
        /\ UNCHANGED <<store, hatchery, cut, overlapped, Disk>>
    BY <1>1 DEF MigrationInv, history
  <2>2. aside'[i] = aside[i] \/ i = e
    <3>1. aside \in [Items -> {"none", "part", "whole"}] /\ e \in Items
      BY <1>1 DEF MigrationInv, TypeInv, MigrationTypeOK
    <3> QED BY <3>1, <1>3
  <2>3. \/ hatchery[e] # "none" /\ start'[p].to = "aside"
        \/ hatchery[e] = "none" /\ start'[p].to = "target"
    BY <1>3 DEF Moved
  <2>4. Owned(i)'
    BY <2>1, <2>3, <1>4 DEF Owned, Moving
  <2>5. Renamed(i)'
    BY <2>1, <2>3, <1>4 DEF Renamed, Moving
  <2>6. ASSUME ~overlapped, NEW q \in Starts, q # p PROVE ~Running(q) /\ ~Running(q)'
    BY <2>1, <2>6, <1>1, <1>4 DEF Single, Running
  <2>7. Copied(i)'
    <3>1. ASSUME ~overlapped, i \in Disk.held, i \notin cut
          PROVE  /\ store[i] # "part" /\ (store[i] = "none" => i # e)
      BY <3>1, <2>1, <2>6, <1>1 DEF Copied, Running
    <3> QED BY <3>1, <2>1, <2>2, <2>6, <1>1, <1>4 DEF Copied, Dest, Running
  <2> QED BY <2>4, <2>5, <2>7
<1> QED BY <1>5, <1>6, <1>7, <1>8 DEF MigrationInv

\* Where p puts item e, to the one side or the other.
LEMMA PutKeeps ==
    ASSUME MigrationInv, NEW p \in Starts, NEW what, start[p].on \in Items, Put(p, what)
    PROVE  /\ start[p].to = "aside" => aside'[start[p].on] = what /\ UNCHANGED hatchery
           /\ start[p].to # "aside" => hatchery'[start[p].on] = what /\ UNCHANGED aside
           /\ \A i \in Items : i # start[p].on => hatchery'[i] = hatchery[i] /\ aside'[i] = aside[i]
<1>1. /\ hatchery \in [Items -> {"none", "part", "whole", "own"}]
      /\ aside \in [Items -> {"none", "part", "whole"}]
  BY DEF MigrationInv, TypeInv, MigrationTypeOK
<1> QED BY <1>1 DEF Put

LEMMA ItemKeeps ==
    ASSUME MigrationInv, NEW p \in Starts, TypeInv', Disk' = Disk,
           Move(p) \/ CopyEnds(p) \/ Clear(p)
    PROVE  MigrationInv'
<1> DEFINE e == start[p].on
           Lands(what) == /\ start[p].to = "aside" => aside'[e] = what /\ UNCHANGED hatchery
                          /\ start[p].to # "aside" => hatchery'[e] = what /\ UNCHANGED aside
           Stays == UNCHANGED <<hatchery, aside>>
<1>1. /\ start[p].at \in {"move", "copy", "clear"} /\ Running(p) /\ e \in start[p].todo
      /\ start[p].todo \subseteq Items /\ e \in Items /\ start[p].to \in {"aside", "target"}
      /\ UNCHANGED <<stamp, scoped, record, shelf, exclude, history>>
      /\ store \in [Items -> {"none", "part", "whole"}] /\ Moving(p, e)
  BY Mover DEF Move, CopyEnds, Clear, Running, Walk, Moving, MigrationInv, TypeInv, MigrationTypeOK
<1>p. \A what : Put(p, what) => /\ Lands(what)
                                /\ \A i \in Items : i # e => hatchery'[i] = hatchery[i] /\ aside'[i] = aside[i]
  BY <1>1, PutKeeps
<1> DEFINE M0 == /\ start[p].at = "move" /\ store[e] = "none" /\ UNCHANGED store /\ Stays
                 /\ Moved(p, "idle", {}, "", "")
           M1 == /\ start[p].at = "move" /\ store[e] # "none" /\ ~Disk.apart
                 /\ store' = [store EXCEPT ![e] = "none"] /\ Lands(store[e])
                 /\ Moved(p, "items", start[p].todo \ {e}, "", "")
           M2 == /\ start[p].at = "move" /\ store[e] # "none" /\ Disk.apart
                 /\ UNCHANGED store /\ Lands("part")
                 /\ Moved(p, "copy", start[p].todo, e, start[p].to)
           CE == /\ start[p].at = "copy" /\ UNCHANGED store /\ Lands(store[e])
                 /\ Moved(p, "clear", start[p].todo, e, start[p].to)
           C1 == /\ start[p].at = "clear" /\ store[e] # "none" /\ store' = [store EXCEPT ![e] = "part"]
                 /\ Stays /\ Moved(p, "clear", start[p].todo, e, start[p].to)
           C2 == /\ start[p].at = "clear" /\ store' = [store EXCEPT ![e] = "none"]
                 /\ Stays /\ Moved(p, "items", start[p].todo \ {e}, "", "")
<1>2. /\ M0 \/ M1 \/ M2 \/ CE \/ C1 \/ C2
      /\ \A i \in Items : i # e => hatchery'[i] = hatchery[i] /\ aside'[i] = aside[i]
  <2>1. /\ Raise(p) => Moved(p, "idle", {}, "", "")
        /\ Goto(p, "copy") => Moved(p, "copy", start[p].todo, e, start[p].to)
        /\ Goto(p, "clear") => Moved(p, "clear", start[p].todo, e, start[p].to)
        /\ Next1(p, "items") => Moved(p, "items", start[p].todo \ {e}, "", "")
    BY Mover, StageFacts, RaiseMoves, GotoMoves, NextMoves
  <2>2. UNCHANGED start /\ start[p].at = "clear" => Moved(p, "clear", start[p].todo, e, start[p].to)
    BY Mover DEF Moved
  <2> HIDE DEF Lands, Stays
  <2>3. CASE Move(p) /\ store[e] = "none"
    BY <2>1, <2>3 DEF Move, Stays
  <2>4. CASE Move(p) /\ store[e] # "none"
    BY <2>1, <2>4, <1>p DEF Move
  <2>5. CASE CopyEnds(p)
    BY <2>1, <2>5, <1>p DEF CopyEnds
  <2>6. CASE Clear(p)
    BY <2>1, <2>2, <2>6 DEF Clear, Stays
  <2> QED BY <2>3, <2>4, <2>5, <2>6
<1>n. e = start[p].on
  OBVIOUS
<1> HIDE DEF e, Disk
<1>4. PICK s \in {"idle", "items", "copy", "clear"} : Goes(p, s)
  <2> HIDE DEF Lands, Stays
  <2> QED BY <1>2 DEF Moved, Goes
<1>g. start'[p].at = s /\ \A q \in Starts : q # p => start'[q] = start[q]
  BY <1>4 DEF Goes
<1>5. Device' /\ ScopedPending' /\ \A n \in Names : Recorded(n)'
  BY <1>1, <1>4, StageFacts, StoreApart DEF history
<1>6. Single' /\ Excluded'
  BY <1>1, <1>4, StageFacts, WorkApart
<1>f. \A i \in Items : /\ store'[i] = store[i] \/ i = e
                       /\ store'[i] # "none" => store[i] # "none"
  <2> HIDE DEF Lands, Stays
  <2> QED BY <1>1, <1>2
<1>7. StorePending'
  <2>1. StorePending /\ UNCHANGED <<stamp, shelf, Disk>>
    BY <1>1 DEF MigrationInv
  <2>2. ASSUME NEW i \in Items, store'[i] # "none"
        PROVE  \/ start'[p].at = "idle"
               \/ start'[p].at \in {"items", "copy", "clear"} /\ i \in start'[p].todo
               \/ i \notin start[p].todo
    <3> HIDE DEF Lands, Stays
    <3> QED BY <2>2, <1>1, <1>2 DEF Moved
  <2> QED BY <2>1, <2>2, <1>1, <1>f, <1>g DEF StorePending
<1>8. ASSUME NEW i \in Items PROVE Owned(i)' /\ Renamed(i)' /\ Copied(i)'
  <2>1. /\ Owned(i) /\ Renamed(i) /\ Copied(i) /\ Single
        /\ UNCHANGED <<cut, overlapped, Disk>>
    BY <1>1 DEF MigrationInv, history
  <2>2. /\ start'[p].at \in {"copy", "clear"} =>
              start'[p].on = e /\ start'[p].to = start[p].to /\ start'[p].todo = start[p].todo
        /\ start'[p].at = "items" => start'[p].todo = start[p].todo \ {e} /\ store'[e] = "none"
        /\ store'[e] = "none" /\ store[e] # "none" => start'[p].at = "items"
    <3> HIDE DEF Lands, Stays
    <3> QED BY <1>1, <1>2 DEF Moved
  <2>3. Owned(i)'
    <3>1. start[p].to = "aside" => UNCHANGED hatchery
      BY <1>2
    <3>2. e \in Disk.own => start[p].to = "aside" \/ i # e
      BY <2>1, <1>1, <1>n DEF Owned
    <3>3. i \in Disk.own => hatchery'[i] = hatchery[i]
      <4> HIDE DEF M0, M1, M2, CE, C1, C2
      <4> QED BY <3>1, <3>2, <1>2
    <3>4. Moving(p, i)' => i = e /\ start'[p].to = start[p].to
      BY <2>2, <1>g DEF Moving
    <3> QED BY <3>2, <3>3, <3>4, <2>1, <1>1, <1>g DEF Owned, Moving
  <2>4. Renamed(i)'
    <3>1. CASE M0
      BY <3>1, <2>1, <1>g, <1>1 DEF Renamed, Moving, Moved
    <3>2. CASE M1
      <4>1. start'[p].at = "items"
        BY <3>2 DEF Moved
      <4>2. CASE i # e
        BY <4>1, <4>2, <2>1, <1>g, <1>f, <1>2 DEF Renamed, Moving
      <4>3. CASE i = e
        <5>1. store[e] = "whole" /\ store'[e] = "none"
          BY <4>3, <3>2, <2>1, <1>1 DEF Renamed
        <5>2. i \notin Disk.own => hatchery'[i] = "whole"
          BY <4>3, <5>1, <3>2, <2>1, <1>1 DEF Renamed
        <5> QED BY <5>1, <5>2, <4>1, <4>3, <2>1, <1>g DEF Renamed, Moving
      <4> QED BY <4>2, <4>3
    <3>3. CASE Disk.apart
      BY <3>3, <2>1 DEF Renamed
    <3>4. CASE start[p].at \in {"copy", "clear"}
      BY <3>4, <2>1 DEF Renamed
    <3> QED BY <3>1, <3>2, <3>3, <3>4, <1>2
  <2>5. ASSUME ~overlapped, NEW q \in Starts, q # p PROVE ~Running(q) /\ ~Running(q)'
    BY <2>1, <2>5, <1>1, <1>g DEF Single, Running
  <2>6. Copied(i)'
    <3> SUFFICES ASSUME ~overlapped PROVE Copied(i)'
      BY <2>1 DEF Copied
    <3>1. \A q \in Starts : q # p => /\ start[q].at \notin {"items", "move", "copy", "clear"}
                                     /\ start'[q].at \notin {"items", "move", "copy", "clear"}
      BY <2>5 DEF Running
    <3>2. store[e] # "none" \/ i # e
      BY <2>1, <1>1 DEF Copied
    <3>3. ASSUME start'[p].at \in {"items", "move", "copy", "clear"}, i \in start'[p].todo
          PROVE  store'[i] # "none"
      BY <3>3, <2>1, <2>2, <1>1, <1>f, <1>g DEF Copied
    <3>4. ASSUME i \in Disk.held, i \notin cut
          PROVE  /\ store'[i] = "part" => start'[p].at = "clear" /\ start'[p].on = i
                 /\ store'[i] = "none" => "whole" \in {hatchery'[i], aside'[i]}
                 /\ start'[p].at = "clear" /\ start'[p].on = i =>
                       (IF start'[p].to = "aside" THEN aside'[i] ELSE hatchery'[i]) = "whole"
      <4>1. /\ store[i] = "part" => start[p].at = "clear" /\ e = i
            /\ store[i] = "none" => "whole" \in {hatchery[i], aside[i]}
            /\ start[p].at = "clear" /\ e = i => 
                  (IF start[p].to = "aside" THEN aside[i] ELSE hatchery[i]) = "whole"
        BY <3>4, <3>1, <2>1, <1>n DEF Copied, Dest
      <4>2. CASE i # e
        BY <4>1, <4>2, <2>2, <1>f, <1>2, <1>g
      <4>3. CASE i = e
        <5>1. store[e] \in {"whole", "part"} /\ (start[p].at # "clear" => store[e] = "whole")
          BY <4>1, <4>3, <3>2, <1>1
        <5>2. CASE M0
          BY <5>1, <5>2
        <5>3. CASE M1
          BY <5>1, <5>3, <4>3, <1>1 DEF Moved
        <5>4. CASE M2 \/ CE
          BY <5>1, <5>4, <4>3, <1>1 DEF Moved
        <5>5. CASE C1
          BY <5>1, <5>5, <4>1, <4>3, <1>1 DEF Moved
        <5>6. CASE C2
          BY <5>1, <5>6, <4>1, <4>3, <1>1 DEF Moved
        <5> QED BY <5>2, <5>3, <5>4, <5>5, <5>6, <1>2
      <4> QED BY <4>2, <4>3
    <3> QED BY <3>1, <3>3, <3>4, <2>1 DEF Copied, Dest
  <2> QED BY <2>3, <2>4, <2>6
<1> QED BY <1>5, <1>6, <1>7, <1>8 DEF MigrationInv

\* The exclude file, the removal of a store, and the version.
LEMMA EndKeeps ==
    ASSUME MigrationInv, NEW p \in Starts, TypeInv', Disk' = Disk,
           OpenExclude(p) \/ FillExclude(p) \/ RemoveStore(p) \/ WriteStamp(p)
    PROVE  MigrationInv'
<1>1. /\ start[p].at \in {"exclude", "exclude2", "rmtree", "rmdir", "stamp", "stamp2"} /\ Running(p)
      /\ UNCHANGED <<scoped, record, store, hatchery, aside, history>>
      /\ exclude \in {"user", "both", "ours", "torn"}
  BY DEF OpenExclude, FillExclude, RemoveStore, WriteStamp, Running, files, MigrationInv, TypeInv,
         MigrationTypeOK
<1> DEFINE O0 == /\ start[p].at = "exclude" /\ exclude \in {"both", "ours"}
                 /\ UNCHANGED <<stamp, shelf, exclude>> /\ Goes(p, "rmtree")
           O1 == /\ start[p].at = "exclude" /\ exclude \in {"user", "torn"} /\ exclude' = "torn"
                 /\ UNCHANGED <<stamp, shelf>> /\ Goes(p, "exclude2") /\ start'[p].to = exclude
           FE == /\ start[p].at = "exclude2" /\ UNCHANGED <<stamp, shelf>> /\ Goes(p, "rmtree")
                 /\ exclude' = IF start[p].to = "user" THEN "both" ELSE "ours"
           RS == /\ start[p].at \in {"rmtree", "rmdir"} /\ UNCHANGED <<stamp, exclude>>
                 /\ Goes(p, "idle") \/ Goes(p, "rmdir") \/ Goes(p, "stamp")
           W1 == /\ start[p].at = "stamp" /\ UNCHANGED <<shelf, exclude>> /\ stamp' = "torn"
                 /\ Goes(p, "stamp2")
           W2 == /\ start[p].at = "stamp2" /\ UNCHANGED <<shelf, exclude>> /\ stamp' = "v2"
                 /\ Goes(p, "ready")
<1>2. O0 \/ O1 \/ FE \/ RS \/ W1 \/ W2
  <2>1. /\ \A s \in {"rmtree", "rmdir", "stamp", "stamp2"} : Goto(p, s) => Goes(p, s)
        /\ Raise(p) => Goes(p, "idle")
        /\ Loop(p, "ready", {}) => Goes(p, "ready")
    <3>1. ASSUME NEW s \in {"rmtree", "rmdir", "stamp", "stamp2"}, Goto(p, s)
          PROVE  Goes(p, s)
      <4>1. Moved(p, s, start[p].todo, start[p].on, start[p].to)
        BY <3>1, Mover, StageFacts, GotoMoves
      <4> QED BY <4>1 DEF Moved, Goes
    <3>2. Raise(p) => Goes(p, "idle")
      <4>1. Raise(p) => Moved(p, "idle", {}, "", "")
        BY Mover, RaiseMoves
      <4> QED BY <4>1 DEF Moved, Goes
    <3>3. Loop(p, "ready", {}) => Goes(p, "ready")
      <4>1. Loop(p, "ready", {}) => Moved(p, "ready", {}, "", "")
        BY Mover, StageFacts, LoopMoves
      <4> QED BY <4>1 DEF Moved, Goes
    <3> QED BY <3>1, <3>2, <3>3
  <2>2. Enter(p, "exclude2", "", exclude) /\ exclude \in {"user", "torn"} =>
           Goes(p, "exclude2") /\ start'[p].to = exclude
    <3> SUFFICES ASSUME Enter(p, "exclude2", "", exclude), exclude \in {"user", "torn"}
                 PROVE  Goes(p, "exclude2") /\ start'[p].to = exclude
      OBVIOUS
    <3>1. Moved(p, "exclude2", start[p].todo, "", exclude)
      BY Mover, StageFacts, EnterMoves
    <3> QED BY <3>1 DEF Moved, Goes
  <2>3. CASE OpenExclude(p)
    BY <2>1, <2>2, <2>3, <1>1 DEF OpenExclude
  <2>4. CASE FillExclude(p)
    BY <2>1, <2>4 DEF FillExclude
  <2>5. CASE RemoveStore(p)
    BY <2>1, <2>5 DEF RemoveStore
  <2>6. CASE WriteStamp(p)
    BY <2>1, <2>6 DEF WriteStamp, files
  <2> QED BY <2>3, <2>4, <2>5, <2>6
<1>3. PICK s \in {"idle", "exclude2", "rmtree", "rmdir", "stamp", "stamp2", "ready"} :
         Goes(p, s) /\ (s = "ready" <=> start[p].at = "stamp2") /\ (s = "ready" => stamp' = "v2")
  BY <1>2
<1>g. start'[p].at = s /\ \A q \in Starts : q # p => start'[q] = start[q]
  BY <1>3 DEF Goes
<1>4. stamp' = stamp \/ stamp' = "torn" \/ (stamp' = "v2" /\ start[p].at = "stamp2")
  BY <1>2
<1> HIDE DEF O0, O1, FE, RS, W1, W2, Disk
<1>5. Device' /\ ScopedPending' /\ \A n \in Names : Recorded(n)'
  BY <1>1, <1>3, <1>4, StageFacts, StoreApart DEF history
<1>6. Single'
  <2>1. Single /\ UNCHANGED <<overlapped, latest>>
    BY <1>1 DEF MigrationInv, history
  <2>2. ~overlapped => latest = {} /\ \A q \in Starts : start[q].at # "ready"
    BY <2>1, <1>1 DEF Single
  <2>3. s = "ready" /\ ~overlapped => \A q \in Starts : ~Running(q)'
    BY <2>1, <1>1, <1>g DEF Single, Running
  <2>4. stamp' = "v2" => s = "ready" \/ stamp = "v2"
    BY <1>3, <1>4
  <2>5. ~overlapped => stamp # "v2"
    BY <2>1, <1>1 DEF Single
  <2> QED BY <2>1, <2>2, <2>3, <2>4, <2>5, <1>1, <1>3, <1>g DEF Single, Running
<1>7. StorePending'
  <2>1. StorePending /\ UNCHANGED <<store, Disk>>
    BY <1>1 DEF MigrationInv
  <2>2. Disk.version # "v2" /\ Disk.repo => \A i \in Items : store[i] = "none"
    BY <2>1, <1>1 DEF StorePending
  <2> QED BY <2>1, <2>2 DEF StorePending
<1>8. ASSUME NEW i \in Items PROVE Owned(i)' /\ Renamed(i)' /\ Copied(i)'
  <2>1. /\ Owned(i) /\ Renamed(i) /\ Copied(i)
        /\ UNCHANGED <<store, hatchery, aside, cut, overlapped, Disk>>
    BY <1>1 DEF MigrationInv, history
  <2> QED BY <2>1, <1>1, <1>g DEF Owned, Renamed, Copied, Moving, Dest
<1>9. Excluded'
  <2> SUFFICES ASSUME ~overlapped, "exclude" \notin cut PROVE Excluded'
    BY <1>1 DEF Excluded, history
  <2>1. /\ exclude # "ours"
        /\ exclude = "torn" => start[p].at = "exclude2"
        /\ \A q \in Starts : q # p => start'[q].at # "exclude2"
        /\ start[p].at = "exclude2" => start[p].to = "user"
    BY <1>1, <1>g DEF MigrationInv, Excluded, Single, Running
  <2>2. CASE O0 \/ RS \/ W1 \/ W2
    BY <2>1, <2>2, <1>g DEF O0, RS, W1, W2, Excluded, Goes
  <2>3. CASE O1
    BY <2>1, <2>3, <1>g DEF O1, Excluded, Goes
  <2>4. CASE FE
    BY <2>1, <2>4, <1>g DEF FE, Excluded, Goes
  <2> QED BY <2>2, <2>3, <2>4, <1>2
<1> QED BY <1>5, <1>6, <1>7, <1>8, <1>9 DEF MigrationInv

LEMMA CommandKeeps ==
    ASSUME MigrationInv, NEW p \in Starts, TypeInv', Disk' = Disk, Command(p)
    PROVE  MigrationInv'
<1>1. /\ start[p].at = "ready" /\ start'[p].at = "idle"
      /\ \A q \in Starts : q # p => start'[q] = start[q]
      /\ UNCHANGED <<stamp, scoped, shelf, store, hatchery, aside, exclude, disk, kills,
                     overlapped, cut>>
  BY Mover, RaiseMoves DEF Command, Moved
<1>2. \/ \E n \in Names : /\ record[n] \in {"old", "new"}
                          /\ record' = [record EXCEPT ![n] = "new"]
                          /\ latest' = latest \cup {n}
      \/ UNCHANGED <<record, latest>>
  BY DEF Command
<1> HIDE DEF Disk
<1>3. Single'
  BY <1>1, <1>2 DEF MigrationInv, Single, Running
<1>4. Device' /\ ScopedPending' /\ StorePending' /\ Excluded'
  BY <1>1 DEF MigrationInv, Device, ScopedPending, StorePending, Excluded
<1>5. ASSUME NEW n \in Names PROVE Recorded(n)'
  <2>1. Recorded(n) /\ record \in [Names -> {"none", "torn", "old", "new"}]
    BY DEF MigrationInv, TypeInv, MigrationTypeOK
  <2>2. \/ record'[n] = "new"
        \/ record'[n] = record[n] /\ (n \in latest' => n \in latest)
    BY <1>2, <2>1
  <2> QED BY <2>1, <2>2, <1>1 DEF Recorded
<1>6. ASSUME NEW i \in Items PROVE Owned(i)' /\ Renamed(i)' /\ Copied(i)'
  <2>1. Owned(i) /\ Renamed(i) /\ Copied(i)
    BY DEF MigrationInv
  <2> QED BY <2>1, <1>1 DEF Owned, Renamed, Copied, Moving, Dest
<1> QED BY <1>3, <1>4, <1>5, <1>6 DEF MigrationInv

\* A kill leaves what its process was writing cut, and the rest as it is.
LEMMA KillKeeps ==
    ASSUME MigrationInv, NEW p \in Starts, TypeInv', Disk' = Disk, Kill(p)
    PROVE  MigrationInv'
<1>1. /\ Running(p) /\ start'[p].at = "idle" /\ cut' = cut \cup Writing(p)
      /\ \A q \in Starts : q # p => start'[q] = start[q]
      /\ UNCHANGED <<stamp, scoped, record, shelf, store, hatchery, aside, exclude, latest,
                     overlapped>>
  BY Mover, RaiseMoves DEF Kill, Moved, files
<1>2. /\ start[p].at \in {"fill", "clear"} => start[p].on \in cut'
      /\ start[p].at = "exclude2" => "exclude" \in cut'
      /\ \A x : x \in cut => x \in cut'
  BY <1>1 DEF Writing
<1> HIDE DEF Disk
<1>3. Single'
  BY <1>1 DEF MigrationInv, Single, Running
<1>4. Device' /\ ScopedPending' /\ StorePending' /\ Excluded'
  BY <1>1, <1>2 DEF MigrationInv, Device, ScopedPending, StorePending, Excluded
<1>5. ASSUME NEW n \in Names PROVE Recorded(n)'
  <2>1. Recorded(n)
    BY DEF MigrationInv
  <2> QED BY <2>1, <1>1, <1>2 DEF Recorded
<1>6. ASSUME NEW i \in Items PROVE Owned(i)' /\ Renamed(i)' /\ Copied(i)'
  <2>1. Owned(i) /\ Renamed(i) /\ Copied(i)
    BY DEF MigrationInv
  <2> QED BY <2>1, <1>1, <1>2 DEF Owned, Renamed, Copied, Moving, Dest
<1> QED BY <1>3, <1>4, <1>5, <1>6 DEF MigrationInv

LEMMA MigrationStepKeeps == MigrationInv /\ [MigrationNext]_migrationVars => MigrationInv'
<1> SUFFICES ASSUME MigrationInv, [MigrationNext]_migrationVars
             PROVE  MigrationInv'
  OBVIOUS
<1>0. TypeInv' /\ Disk' = Disk /\ Disk \in DiskType
  BY Context
<1>1. CASE UNCHANGED migrationVars
  <2>1. UNCHANGED <<stamp, files, start, kills, latest, overlapped, cut, Disk>>
    BY <1>1, <1>0 DEF migrationVars, files
  <2> HIDE DEF Disk
  <2>2. Single' /\ Device' /\ ScopedPending' /\ StorePending' /\ Excluded'
    BY <2>1 DEF MigrationInv, Single, Device, ScopedPending, StorePending, Excluded, Running, files
  <2>3. ASSUME NEW n \in Names PROVE Recorded(n)'
    BY <2>1 DEF MigrationInv, Recorded, files
  <2>4. ASSUME NEW i \in Items PROVE Owned(i)' /\ Renamed(i)' /\ Copied(i)'
    BY <2>1 DEF MigrationInv, Owned, Renamed, Copied, Moving, Dest, files
  <2> QED BY <1>0, <2>2, <2>3, <2>4 DEF MigrationInv
<1>2. ASSUME NEW p \in Starts, ReadVersion(p) \/ MigrationStep(p) \/ Command(p) \/ Kill(p)
      PROVE  MigrationInv'
  BY <1>0, <1>2, ReadVersionKeeps, CheckNameKeeps, RecordKeeps, ListKeeps, CheckItemKeeps,
     ItemKeeps, EndKeeps, CommandKeeps, KillKeeps DEF MigrationStep
<1> QED BY <1>1, <1>2 DEF MigrationNext

\* For any number of starts, sessions, items and kills, whoever migrates at once (but
\* for two starts on a store of another device, see MigrationAssumption): migrate_db loses
\* nothing of the user's, but in the windows that DataKept names.
THEOREM DataIsKept == MigrationSpec => []DataKept
<1> QED BY InitInv, MigrationStepKeeps, InvImplies, PTL DEF MigrationSpec

\* The version that migrate_db writes is never written too early.
THEOREM StampIsTruthful == MigrationSpec => []StampTruthful
<1> QED BY InitInv, MigrationStepKeeps, InvImplies, PTL DEF MigrationSpec
=============================================================================
