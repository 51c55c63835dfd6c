----------------------------- MODULE MCHostFiles -----------------------------
(***************************************************************************)
(* The files of the host that hatchery writes beside the sessions' own:    *)
(* Migration, Includes, TaskRecords with Mounts, and SandboxFiles.  They   *)
(* share nothing; a behaviour is of one `part`, and the others stay in one *)
(* of their initial states.                                                *)
(***************************************************************************)
EXTENDS Migration, Includes, TaskRecords, SandboxFiles

CONSTANTS p1, p2, a1, a2, i1, i2, s1, s2, r1, r2

VARIABLE part

\* The first disk needs no migration, and no process is started on it.
Scoped(x, y) == [n \in Names |-> IF n = a1 THEN x ELSE y]
Found1(v, scopedFiles, done) ==
    [version |-> v, scoped |-> scopedFiles, done |-> done, held |-> {}, own |-> {}, repo |-> TRUE,
     apart |-> FALSE, starts |-> {p1}, kills |-> 0]
NoneScoped == Scoped("none", "none")
MCDisks == <<
    [Found1("v2", NoneScoped, {a1}) EXCEPT !.starts = {}],
    [Found1("none", Scoped("good", "bad"), {}) EXCEPT !.held = {i1}, !.apart = TRUE, !.kills = 2],
    [Found1("torn", Scoped("good", "good"), {a2}) EXCEPT !.starts = {p1, p2}, !.kills = 1],
    [Found1("v1", NoneScoped, {}) EXCEPT !.held = {i1, i2}, !.own = {i1}, !.starts = {p1, p2},
     !.kills = 1],
    [Found1("v1", NoneScoped, {}) EXCEPT !.held = {i1, i2}, !.own = {i1}, !.apart = TRUE,
     !.kills = 2],
    [Found1("v1", Scoped("good", "none"), {}) EXCEPT !.held = {i1}, !.repo = FALSE],
    Found1("v2", NoneScoped, {a1})>>
-----------------------------------------------------------------------------
Both(x, y) == [r \in Repos |-> IF r = r1 THEN x ELSE y]
OneSession ==
    [sessions |-> {s1}, name |-> [s \in Sessions |-> s], bare |-> {}, plans |-> {},
     later |-> {}, prior |-> {r1}, kills |-> 1]
MCCases == <<
    [OneSession EXCEPT !.bare = {s1}, !.plans = {Both("worktree", "ro")},
                       !.later = {<<r1, "worktree">>}],
    [OneSession EXCEPT !.plans = {Both("worktree", "none")},
                       !.later = {<<r2, "worktree">>, <<r1, "ro">>}],
    [OneSession EXCEPT !.sessions = {s1, s2}, !.name = [s \in Sessions |-> s1],
                       !.plans = {Both("worktree", "none")}, !.prior = {}, !.kills = 0]>>
-----------------------------------------------------------------------------
Fix == <<"fix">>
MyFix == <<"my", "fix">>
Docs == <<"docs">>
MCNames == {Fix, MyFix, Docs}
MCRepo == <<"repo">>
MCHome == [host |-> <<"u">>, container |-> <<"home", "hatchery">>]
MCSystem == {<<"etc">>}
MCDays == <<"d1", "d2">>
MCAlphabet == <<"docs", "fix", "my">>

\* An agent with a volume and a directory in it, and a docker.yaml with a directory of
\* links, a source that is gone, a destination that belongs to the image, and volumes, of
\* which one is there.
Config(follow, clip) ==
    [agent |-> <<Bind(<<"agent">>, <<"home", "hatchery", "agent">>, "VOLUME", FALSE),
                 Bind(<<"u", "prompts">>, <<"home", "hatchery", "agent", "prompts">>, "RW", TRUE)>>,
     mounts |-> <<Bind(<<"u", "skills">>, <<"home", "hatchery", "skills">>, "RO", follow),
                  Bind(<<"u", "gone">>, <<"gone">>, "RO", FALSE),
                  Bind(<<"u", "hosts">>, <<"etc", "hosts">>, "RO", FALSE)>>,
     exist |-> {<<"u", "skills">>, <<"u", "hosts">>}
               \cup (IF clip THEN {<<"u", "gitconfig">>} ELSE {}),
     volumes |-> <<Bind(<<"uv">>, <<"home", "hatchery", "cache">>, "VOLUME", FALSE),
                   Bind(<<"ssl">>, <<"etc", "ssl">>, "VOLUME", FALSE)>>,
     clipboard |-> clip, follow |-> follow]
Link(at_, absolute, raw, target) == [at |-> at_, absolute |-> absolute, raw |-> raw,
                                     target |-> target]
MCLinks == {
    Link(Append(Worktree(MCRepo, Fix), "l"), FALSE, <<"..", "..", "..", "src">>, <<"repo", "src">>),
    Link(Append(Worktree(MCRepo, Fix), "m"), TRUE, <<"u", "lib">>, <<"u", "lib">>),
    Link(<<"u", "skills", "s">>, FALSE, <<"..", "dots", "s">>, <<"u", "dots", "s">>),
    Link(<<"u", "skills", "r">>, FALSE, <<"..", "..", "..", "..", "etc", "r">>, <<"u", "etc", "r">>),
    Link(<<"u", "skills", "t">>, FALSE, <<"..", "dots", "t">>, <<>>)}
Included(name, mode, there) == [path |-> <<name>>, mode |-> mode, there |-> there]
File(l, n) == [layout |-> l, day |-> "d1", name |-> n]
MCSetups == <<
    [names |-> {Fix, MyFix}, legacy |-> {File("sub", Fix), File("flat", MyFix)}, bare |-> FALSE,
     config |-> Config(TRUE, TRUE), links |-> MCLinks,
     includes |-> <<Included("a", "worktree", TRUE), Included("b", "worktree", FALSE),
                    Included("c", "ro", FALSE), Included("d", "rw", FALSE)>>],
    [names |-> {Fix, Docs}, legacy |-> {File("flat", Docs)}, bare |-> TRUE,
     config |-> Config(FALSE, FALSE), links |-> {},
     includes |-> <<Included("a", "worktree", TRUE)>>]>>

ASSUME SeparateSetups == \A u \in DOMAIN Setups : Separate(Setups[u])
-----------------------------------------------------------------------------
hostVars == <<part, migrationVars, includesVars, recordsVars, filesVars>>

HostInit ==
    /\ part \in {"migration", "includes", "records", "sandbox"}
    /\ MigrationInit /\ (part # "migration" => disk = 1)
    /\ IncludesInit /\ (part # "includes" => case = 1)
    /\ RecordsInit /\ (part # "records" => setup = 1)
    /\ FilesInit /\ (part # "sandbox" => kind = "Dockerfile" /\ sandbox = NoFile)

HostNext ==
    \/ /\ part = "migration" /\ MigrationNext
       /\ UNCHANGED <<part, includesVars, recordsVars, filesVars>>
    \/ /\ part = "includes" /\ IncludesNext
       /\ UNCHANGED <<part, migrationVars, recordsVars, filesVars>>
    \/ /\ part = "records" /\ RecordsNext
       /\ UNCHANGED <<part, migrationVars, includesVars, filesVars>>
    \/ /\ part = "sandbox" /\ FilesNext
       /\ UNCHANGED <<part, migrationVars, includesVars, recordsVars>>

\* MigrationFairness asks nothing of the other parts: no process is started there.
HostFairSpec == HostInit /\ [][HostNext]_hostVars /\ MigrationFairness

\* The types of all parts.
TypeOK == MigrationTypeOK /\ IncludesTypeOK /\ RecordsTypeOK /\ FilesTypeOK
=============================================================================
