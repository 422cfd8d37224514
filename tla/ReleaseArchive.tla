--------------------------- MODULE ReleaseArchive ---------------------------
(***************************************************************************)
(* The release archives of `package`: the destination directory is pinned  *)
(* by its longest existing ancestor, created below it when it is missing,  *)
(* and receives one archive per archive unit of the plan, each written to  *)
(* a temporary file that is dropped, or renamed to the archive's name.     *)
(* Commands run concurrently, fail and are killed, while somebody moves    *)
(* directories and edits old archives.                                     *)
(*                                                                         *)
(* The destination is the entry "out" of a base directory.  Directories    *)
(* and bases are identities: what a path leads to may change under a       *)
(* command.  Archives are keyed by their folded names, as on a file system *)
(* that folds case.  Bytes are the entries an archive holds; the temporary *)
(* files that kills leave behind are named at random and play no part.     *)
(***************************************************************************)
EXTENDS Naturals, FiniteSets, SequencesExt

CONSTANTS
    Procs,          \* package commands
    Bases,          \* directories the destination's parent path may lead to
    Dirs,           \* directories the destination may be
    Plans,          \* the plans commands archive
    Fold,           \* stem |-> the stem in lower case
    BadStems,       \* stems that are no portable file names
    None,           \* no directory, no file
    Junk,           \* what else may stand under an archive's name
    Partial,        \* an archive that was cut short
    MaxRuns, MaxMoves, MaxFaults, MaxKills      \* bounds on the run

\* A plan: whether the distribution has a valid name, and the targets in
\* order, each with the versions of its files and its archive units.  A path
\* is a sequence of names, the root "." the empty one.
ASSUME PlansAssumption ==
    \A pl \in Plans :
        /\ pl.named \in BOOLEAN
        /\ pl.targets \in Seq(ToSet(pl.targets))
        /\ \A t \in ToSet(pl.targets) :
              /\ t.units \in Seq(ToSet(t.units))
              /\ \A f \in DOMAIN t.files : f \in Seq(ToSet(f))
              /\ \A u \in ToSet(t.units) :
                    u.stem \in DOMAIN Fold /\ u.root \in Seq(ToSet(u.root))

ASSUME ArchiveAssumption ==
    /\ None \notin Dirs \cup Bases
    /\ Dirs \cap Bases = {}
    /\ {MaxRuns, MaxMoves, MaxFaults, MaxKills} \subseteq Nat

VARIABLES
    baseAt,     \* the base that the parent path leads to
    entry,      \* what "out" is in each base
    store,      \* the archives in each directory
    pc,         \* of each command, or how it ended: "ok", "failed"
    plan,       \* what it archives
    root,       \* the directory it has pinned
    missing,    \* whether "out" was missing when it was pinned
    next,       \* the component it has opened
    index,      \* the archive it writes
    temp,       \* its temporary file: "none", "partial" or "whole"
    equal,      \* whether the archive in place had the same bytes
    strayed,    \* the path leads elsewhere since before the last check
    alone,      \* history: no other command has run since it was started
    runs, moves, faults, kills

disk == <<baseAt, entry, store>>
locals == <<plan, root, missing, next, index, temp, equal, strayed,
            alone>>
counters == <<runs, moves, faults, kills>>
vars == <<disk, pc, locals, counters>>

-----------------------------------------------------------------------------
(* Archive units *)

UnitContains(unit, file) == unit.root = <<>> \/ IsStrictPrefix(unit.root, file)

Key(unit) == Fold[unit.stem]

FilesOf(target, unit) == {f \in DOMAIN target.files : UnitContains(unit, f)}

ArchiveName(file, unit) == SubSeq(file, Len(unit.root) + 1, Len(file))

Archive(target, unit) ==
    [target |-> target.target, root |-> unit.root,
     entries |-> {<<ArchiveName(f, unit), target.files[f]>> : f \in FilesOf(target, unit)}]

\* The archives in the order they are written.
Writes(p) ==
    FlattenSeq([t \in DOMAIN plan[p].targets |->
        LET target == plan[p].targets[t]
        IN  [u \in DOMAIN target.units |->
                [key |-> Key(target.units[u]),
                 data |-> Archive(target, target.units[u])]]])

Slots(pl) ==
    UNION {{<<t, u>> : u \in DOMAIN pl.targets[t].units} : t \in DOMAIN pl.targets}
UnitAt(pl, s) == pl.targets[s[1]].units[s[2]]

ValidNames(pl) ==
    /\ pl.named
    /\ \A s \in Slots(pl) : UnitAt(pl, s).stem \notin BadStems

DistinctDestinations(pl) ==
    \A s, r \in Slots(pl) : Key(UnitAt(pl, s)) = Key(UnitAt(pl, r)) => s = r

DistinctTargets(pl) ==
    \A s, r \in DOMAIN pl.targets : pl.targets[s].target = pl.targets[r].target => s = r

CoveredOnce(t) ==
    /\ \A u \in ToSet(t.units) : FilesOf(t, u) # {}
    /\ \A f \in DOMAIN t.files :
          Cardinality({u \in DOMAIN t.units : UnitContains(t.units[u], f)}) = 1

\* validatePlan lets a target without archive units pass.
ValidPlan(pl) ==
    /\ DistinctTargets(pl)
    /\ DistinctDestinations(pl)
    /\ \A t \in ToSet(pl.targets) : t.units # <<>> => CoveredOnce(t)

\* prepareArchiveWrites: all archives are settled before one is written.
Accepted(pl) ==
    /\ ValidNames(pl)
    /\ DistinctDestinations(pl)
    /\ \A t \in ToSet(pl.targets) : CoveredOnce(t)

-----------------------------------------------------------------------------
(* The destination *)

Nothing == [kind |-> "none", dir |-> None]
File == [kind |-> "file", dir |-> None]
Directory(d) == [kind |-> "dir", dir |-> d]
Link(d) == [kind |-> "link", dir |-> d]
Entries == {Nothing, File} \cup {Directory(d) : d \in Dirs} \cup {Link(d) : d \in Dirs}

\* The directory that the destination path leads to, links followed.
Reached == entry[baseAt].dir

\* The path is not compared with the pinned directory.
LeadsHere_Unchecked(p) == Reached = Reached \/ root[p] = None

LeadsHere(p) == Reached = root[p]       \* verifyIdentity

Unused(d) ==
    /\ \A b \in Bases : entry[b].dir # d
    /\ \A p \in Procs : d \notin {root[p], next[p]}
    /\ \A k \in DOMAIN store[d] : store[d][k].data = None

Ended == {"idle", "ok", "failed"}
Running(p) == pc[p] \notin Ended

Goto(p, l) == pc' = [pc EXCEPT ![p] = l]

\* A failing command removes its temporary file.
Fail(p) == Goto(p, "failed") /\ temp' = [temp EXCEPT ![p] = "none"]

-----------------------------------------------------------------------------
Init ==
    /\ baseAt \in Bases
    /\ entry \in {[b \in Bases |-> IF b = baseAt THEN e ELSE Nothing] :
                    e \in {Nothing} \cup {Directory(d) : d \in Dirs}}
    /\ store = [d \in Dirs |-> [k \in {Fold[s] : s \in DOMAIN Fold} |->
                                    [data |-> None, stamp |-> 0]]]
    /\ pc = [p \in Procs |-> "idle"]
    /\ plan \in [Procs -> {CHOOSE pl \in Plans : TRUE}]
    /\ root = [p \in Procs |-> None]
    /\ missing = [p \in Procs |-> FALSE]
    /\ next = [p \in Procs |-> None]
    /\ index = [p \in Procs |-> 1]
    /\ temp = [p \in Procs |-> "none"]
    /\ equal = [p \in Procs |-> FALSE]
    /\ strayed = [p \in Procs |-> FALSE]
    /\ alone = [p \in Procs |-> FALSE]
    /\ runs = 0 /\ moves = 0 /\ faults = 0 /\ kills = 0

\* artifact.Archive is called with the plan of a clean check.
Start(p) ==
    /\ ~Running(p)
    /\ runs < MaxRuns
    /\ runs' = runs + 1
    /\ \E pl \in Plans : plan' = [plan EXCEPT ![p] = pl]
    /\ Goto(p, "open")
    /\ root' = [root EXCEPT ![p] = None]
    /\ next' = [next EXCEPT ![p] = None]
    /\ index' = [index EXCEPT ![p] = 1]
    /\ temp' = [temp EXCEPT ![p] = "none"]
    /\ strayed' = [strayed EXCEPT ![p] = FALSE]
    /\ alone' = [q \in Procs |-> q = p /\ \A r \in Procs \ {p} : ~Running(r)]
    /\ UNCHANGED <<disk, missing, equal, moves, faults, kills>>

\* OpenDestination pins the destination or, when it is missing, its parent.
Open(p) ==
    /\ pc[p] = "open"
    /\ LET e == entry[baseAt]
       IN  IF e.kind \in {"none", "dir"}
           THEN /\ root' = [root EXCEPT ![p] = IF e.kind = "dir" THEN e.dir ELSE baseAt]
                /\ missing' = [missing EXCEPT ![p] = e.kind = "none"]
                /\ Goto(p, "validate")
                /\ UNCHANGED temp
           ELSE Fail(p) /\ UNCHANGED <<root, missing>>
    /\ UNCHANGED <<disk, plan, next, index, equal, strayed, alone,
                   counters>>

Validate(p) ==
    /\ pc[p] = "validate"
    /\ IF ValidPlan(plan[p]) THEN Goto(p, "create") /\ UNCHANGED temp ELSE Fail(p)
    /\ UNCHANGED <<disk, plan, root, missing, next, index, equal, strayed, alone,
                   counters>>

\* Create: nothing to make, or the component is looked up,
Lookup(p) ==
    /\ pc[p] = "create"
    /\ IF missing[p]
       THEN LET kind == entry[root[p]].kind
            IN  CASE kind = "none" -> Goto(p, "mkdir") /\ UNCHANGED temp
                  [] kind = "dir" -> Goto(p, "enter") /\ UNCHANGED temp
                  [] OTHER -> Fail(p)
       ELSE IF LeadsHere(p) THEN Goto(p, "prepare") /\ UNCHANGED temp ELSE Fail(p)
    /\ UNCHANGED <<disk, plan, root, missing, next, index, equal, strayed, alone,
                   counters>>

\* made, or found after all, and looked up again,
Mkdir(p) ==
    /\ pc[p] = "mkdir"
    /\ \/ /\ entry[root[p]] = Nothing
          /\ \E d \in Dirs :
                /\ Unused(d)
                /\ entry' = [entry EXCEPT ![root[p]] = Directory(d)]
          /\ Goto(p, "enter")
          /\ UNCHANGED temp
       \/ /\ entry[root[p]] # Nothing
          /\ IF entry[root[p]].kind = "dir"
             THEN Goto(p, "enter") /\ UNCHANGED temp ELSE Fail(p)
          /\ UNCHANGED entry
    /\ UNCHANGED <<baseAt, store, plan, root, missing, next, index, equal,
                   strayed, alone,
                   counters>>

\* opened, links followed,
Enter(p) ==
    /\ pc[p] = "enter"
    /\ IF entry[root[p]].dir # None
       THEN /\ next' = [next EXCEPT ![p] = entry[root[p]].dir]
            /\ Goto(p, "recheck")
            /\ UNCHANGED temp
       ELSE Fail(p) /\ UNCHANGED next
    /\ UNCHANGED <<disk, plan, root, missing, index, equal, strayed, alone,
                   counters>>

\* and compared with what the name and the whole path lead to.
Recheck(p) ==
    /\ pc[p] = "recheck"
    /\ IF entry[root[p]] = Directory(next[p])
       THEN /\ root' = [root EXCEPT ![p] = next[p]]
            /\ IF Reached = next[p] THEN Goto(p, "prepare") /\ UNCHANGED temp ELSE Fail(p)
       ELSE Fail(p) /\ UNCHANGED root
    /\ UNCHANGED <<disk, plan, missing, next, index, equal, strayed, alone,
                   counters>>

\* WriteTargetRootsInDestination checks names and units of the whole plan; it
\* has nothing to write when no target has files.
Prepare(p) ==
    /\ pc[p] = "prepare"
    /\ IF Accepted(plan[p])
       THEN Goto(p, IF Writes(p) = <<>> THEN "ok" ELSE "begin") /\ UNCHANGED temp
       ELSE Fail(p)
    /\ UNCHANGED <<disk, plan, root, missing, next, index, equal, strayed, alone,
                   counters>>

\* The archive is written in place, without a temporary file.
Begin_InPlace(p) ==
    /\ pc[p] = "begin"
    /\ store' = [store EXCEPT ![root[p]][Writes(p)[index[p]].key].data = Partial]
    /\ Goto(p, "fill")
    /\ temp' = [temp EXCEPT ![p] = "partial"]
    /\ UNCHANGED <<baseAt, entry, plan, root, missing, next, index, equal,
                   strayed, alone,
                   counters>>

\* writeTarGzipFromPlan opens a temporary file of its own,
Begin(p) ==
    /\ pc[p] = "begin"
    /\ IF LeadsHere(p)
       THEN Goto(p, "fill") /\ temp' = [temp EXCEPT ![p] = "partial"]
       ELSE Fail(p)
    /\ UNCHANGED <<disk, plan, root, missing, next, index, equal, strayed, alone,
                   counters>>

Fill(p) ==
    /\ pc[p] = "fill"
    /\ temp' = [temp EXCEPT ![p] = "whole"]
    /\ Goto(p, "check")
    /\ UNCHANGED <<disk, plan, root, missing, next, index, equal, strayed, alone,
                   counters>>

Current(p) == store[root[p]][Writes(p)[index[p]].key]

\* Existing archives are always replaced.
Check_NoCompare(p) ==
    /\ pc[p] = "check"
    /\ IF LeadsHere(p)
       THEN equal' = [equal EXCEPT ![p] = FALSE] /\ Goto(p, "commit") /\ UNCHANGED temp
       ELSE Fail(p) /\ UNCHANGED equal
    /\ UNCHANGED <<disk, plan, root, missing, next, index, strayed, alone,
                   counters>>

\* An archive of the same size counts as unchanged.
Check_SizeOnly(p) ==
    /\ pc[p] = "check"
    /\ IF LeadsHere(p)
       THEN /\ equal' = [equal EXCEPT ![p] = Current(p).data \notin {None, Junk}]
            /\ Goto(p, "commit")
            /\ UNCHANGED temp
       ELSE Fail(p) /\ UNCHANGED equal
    /\ UNCHANGED <<disk, plan, root, missing, next, index, strayed, alone,
                   counters>>

\* checks the path again and compares with the archive in place,
Check(p) ==
    /\ pc[p] = "check"
    /\ IF LeadsHere(p)
       THEN /\ equal' = [equal EXCEPT ![p] = Current(p).data = Writes(p)[index[p]].data]
            /\ Goto(p, "commit")
            /\ UNCHANGED temp
       ELSE Fail(p) /\ UNCHANGED equal
    /\ UNCHANGED <<disk, plan, root, missing, next, index, strayed, alone,
                   counters>>

\* and drops the temporary file or renames it.  The stamp tells a file from
\* the one it replaces.
Commit(p) ==
    /\ pc[p] = "commit"
    /\ IF equal[p]
       THEN UNCHANGED store
       ELSE store' = [store EXCEPT ![root[p]][Writes(p)[index[p]].key] =
                [data |-> IF temp[p] = "whole" THEN Writes(p)[index[p]].data ELSE Partial,
                 stamp |-> 1 - Current(p).stamp]]
    /\ temp' = [temp EXCEPT ![p] = "none"]
    /\ IF index[p] = Len(Writes(p))
       THEN Goto(p, "ok") /\ UNCHANGED index
       ELSE Goto(p, "begin") /\ index' = [index EXCEPT ![p] = @ + 1]
    /\ UNCHANGED <<baseAt, entry, plan, root, missing, next, equal, strayed, alone,
                   counters>>

\* A system call or the layout guard, which is asked before and after Create,
\* fails.
Fault(p) ==
    /\ Running(p)
    /\ faults < MaxFaults
    /\ faults' = faults + 1
    /\ Fail(p)
    /\ UNCHANGED <<disk, plan, root, missing, next, index, equal, strayed, alone,
                   runs, moves, kills>>

Kill(p) ==
    /\ Running(p)
    /\ kills < MaxKills
    /\ kills' = kills + 1
    /\ Goto(p, "idle")
    /\ UNCHANGED <<disk, locals, runs, moves, faults>>

\* The path is moved: strayed notes it for the commands that have still to
\* check it.
WillCheck(p) ==
    \/ pc[p] \in {"begin", "fill", "check"}
    \/ pc[p] = "prepare" /\ Writes(p) # <<>>
    \/ pc[p] = "commit" /\ index[p] # Len(Writes(p))

Stray ==
    strayed' = [p \in Procs |->
        IF WillCheck(p) THEN root[p] # entry'[baseAt'].dir ELSE strayed[p]]

Move ==
    /\ moves < MaxMoves
    /\ moves' = moves + 1
    /\ \/ baseAt' \in Bases \ {baseAt} /\ UNCHANGED entry
       \/ /\ \E b \in Bases, e \in Entries :
                /\ e # entry[b]
                /\ e.kind = "dir" => \A c \in Bases : entry[c] # e
                /\ entry' = [entry EXCEPT ![b] = e]
          /\ UNCHANGED baseAt
    /\ Stray
    /\ UNCHANGED <<store, pc, plan, root, missing, next, index, temp, equal, alone,
                   runs, faults, kills>>

\* Somebody replaces or removes an archive while no command runs.
Edit ==
    /\ moves < MaxMoves
    /\ moves' = moves + 1
    /\ \A p \in Procs : ~Running(p)
    /\ \E d \in Dirs : \E k \in DOMAIN store[d], data \in {None, Junk} :
          store' = [store EXCEPT ![d][k].data = data]
    /\ pc' = [p \in Procs |-> "idle"]
    /\ UNCHANGED <<baseAt, entry, locals, runs, faults, kills>>

Step(p) ==
    \/ Open(p) \/ Validate(p) \/ Lookup(p) \/ Mkdir(p) \/ Enter(p) \/ Recheck(p)
    \/ Prepare(p)
    \/ Begin(p) \/ Fill(p) \/ Check(p) \/ Commit(p)

Next ==
    \/ \E p \in Procs : Start(p) \/ Step(p) \/ Fault(p) \/ Kill(p)
    \/ Move \/ Edit

Spec == Init /\ [][Next]_vars

-----------------------------------------------------------------------------
\* The archives that the plan says: each of its files is in one of them, and
\* each of them holds nothing else.
Publishes(pl, archives) ==
    \A t \in ToSet(pl.targets) :
        LET own == {a \in archives : a.target = t.target}
            held == UNION {{<<a.root \o e[1], e[2]>> : e \in a.entries} : a \in own}
        IN  /\ held = {<<f, t.files[f]>> : f \in DOMAIN t.files}
            /\ \A a, b \in own : a # b =>
                  {a.root \o e[1] : e \in a.entries} \cap {b.root \o e[1] : e \in b.entries} = {}

\* An archive's name never leads to a part of an archive, nor to one that no
\* command was asked for, whatever fails and whoever is killed
\* (writeTarGzipFromPlan).
ArchivesAreWhole ==
    \A d \in Dirs : \A k \in DOMAIN store[d] :
        \/ store[d][k].data \in {None, Junk}
        \/ \E pl \in Plans : \E t \in ToSet(pl.targets) : \E u \in ToSet(t.units) :
              Key(u) = k /\ store[d][k].data = Archive(t, u)

\* When a command that no other one interferes with returns the paths of its
\* archives, they hold exactly the files of the plan, also where case alone
\* tells names apart and over what earlier commands left
\* (prepareArchiveWrites, writePreparedArchives).
SuccessPublishesPlan ==
    \A p \in Procs : pc[p] = "ok" /\ alone[p] =>
        Publishes(plan[p], {store[root[p]][w.key].data : w \in ToSet(Writes(p))})

\* Unless another command runs, an archive whose bytes would not change is not
\* replaced (sameFileContents).
UnchangedIsKept ==
    [][(\A p \in Procs : Running(p) => alone[p]) =>
        \A d \in Dirs : \A k \in DOMAIN store[d] :
            store'[d][k].stamp # store[d][k].stamp =>
                store'[d][k].data # store[d][k].data]_store

\* A command does not succeed when the path had been moved away from its
\* directory before the check of the last archive (verifyIdentity).
MovedFailsClosed == \A p \in Procs : pc[p] = "ok" => ~strayed[p]
=============================================================================
