------------------------------ MODULE Commands ------------------------------
(***************************************************************************)
(* The commands of agbun over one workspace: build, check and package      *)
(* import all sources, render every selected target and only then write    *)
(* or compare the output and the repository-root files; package archives   *)
(* the plan of a clean check.  Sources and files are edited at any time,   *)
(* operations fail and commands are killed.                                *)
(*                                                                         *)
(* A plan is the selected targets and the version it read of each selected *)
(* package.  What one step does to the output is PinnedOutput's, to the    *)
(* root RootCompatibility's and to the archives ReleaseArchive's subject;  *)
(* here each is one step, which may fail half way.  Commands follow one    *)
(* another.  Decoding of flags and manifest, and the layout guard, are a   *)
(* step that may fail.                                                     *)
(***************************************************************************)
EXTENDS Naturals, FiniteSets

CONSTANTS
    Targets,        \* declared by the manifest
    Packages,       \* of the sources
    Versions,       \* of a package
    Broken,         \* a version that cannot be imported
    Unsupported,    \* <<target, version>>: what cannot be rendered
    RootManifests,  \* what compatibility.rootManifests may say
    Checks,         \* targets that declare a native check
    None,           \* no files
    Foreign,        \* files that no plan describes
    MaxCommands, MaxEdits, MaxFaults, MaxKills      \* bounds on the run

ASSUME CommandsAssumption ==
    /\ Targets # {} /\ Packages # {}
    /\ Broken \in Versions
    /\ Unsupported \subseteq Targets \X Versions
    /\ RootManifests \subseteq SUBSET Targets
    /\ Checks \subseteq Targets
    /\ None # Foreign
    /\ {MaxCommands, MaxEdits, MaxFaults, MaxKills} \subseteq Nat

VARIABLES
    rootTargets,    \* compatibility.rootManifests of the manifest
    src,            \* the version of each package
    output,         \* the plan that the output root holds
    rootFiles,      \* and the repository root
    archives,       \* and the archive of each target
    pc,
    kind,           \* "build", "check" or "package"
    targets,        \* the selection of the command
    packages,       \* empty for all
    native,         \* check --native
    unread,         \* packages to be imported
    read,           \* the versions that were
    compared,       \* what was compared without an error
    drift, errors, nativeFailed,    \* of CompilationResult
    verified,       \* native checks were run
    exit,           \* status of the last command
    edited,         \* something was edited since it started
    commands, edits, faults, kills

sources == <<rootTargets, src>>
workspace == <<sources, output, rootFiles, archives>>
request == <<kind, targets, packages, native>>
result == <<compared, drift, errors, nativeFailed, verified>>
counters == <<commands, edits, faults, kills>>
vars == <<workspace, pc, request, unread, read, result, exit, edited, counters>>

-----------------------------------------------------------------------------
(* Plans *)

\* No selector means all targets, and all packages.
SelectTargets(requested) == IF requested = {} THEN Targets ELSE requested

SelectPackages(requested) == IF requested = {} THEN Packages ELSE requested

PlanOf(versions) ==
    [targets |-> SelectTargets(targets),
     packages |-> [p \in SelectPackages(packages) |-> versions[p]]]

\* compatibility.Prepare: the root files of a plan.
RootOf(plan) ==
    IF rootTargets = {} THEN None ELSE [targets |-> rootTargets, packages |-> plan.packages]

\* The archive of a target holds its part of the plan.
ArchiveOf(plan, t) == [target |-> t, packages |-> plan.packages]

Plans ==
    [targets : SUBSET Targets \ {{}},
     packages : UNION {[S -> Versions] : S \in SUBSET Packages \ {{}}}]

Renders(t, plan) ==
    \A p \in DOMAIN plan.packages : <<t, plan.packages[p]>> \notin Unsupported

Plan == PlanOf(read)

-----------------------------------------------------------------------------
(* The end of a command: renderResult maps its result to the exit status *)

ExitStatus(failed, drifted, hasError) ==
    CASE failed -> 3
      [] ~failed /\ drifted -> 2
      [] ~failed /\ ~drifted /\ hasError -> 1
      [] OTHER -> 0

Return(hasError) ==
    /\ pc' = "idle"
    /\ errors' = hasError
    /\ exit' = ExitStatus(nativeFailed, drift, hasError)

Init ==
    /\ rootTargets \in RootManifests
    /\ src \in [Packages -> Versions \ {Broken}]
    /\ output \in {None, Foreign}
    /\ rootFiles = None
    /\ archives = [t \in Targets |-> None]
    /\ pc = "idle"
    /\ kind = "build" /\ targets = {} /\ packages = {} /\ native = FALSE
    /\ unread = {} /\ read = src
    /\ compared = {} /\ drift = FALSE /\ errors = FALSE
    /\ nativeFailed = FALSE /\ verified = FALSE
    /\ exit = 0 /\ edited = TRUE
    /\ commands = 0 /\ edits = 0 /\ faults = 0 /\ kills = 0

\* run: --native belongs to check; --package excludes root compatibility.
Run ==
    /\ pc = "idle"
    /\ commands < MaxCommands
    /\ commands' = commands + 1
    /\ kind' \in {"build", "check", "package"}
    /\ native' \in IF kind' = "check" THEN BOOLEAN ELSE {FALSE}
    /\ targets' \in SUBSET Targets
    /\ packages' \in SUBSET Packages
    /\ compared' = {} /\ drift' = FALSE /\ nativeFailed' = FALSE /\ verified' = FALSE
    /\ edited' = FALSE
    /\ IF rootTargets # {} /\ packages' # {}
       THEN pc' = "idle" /\ errors' = TRUE /\ exit' = 1 /\ UNCHANGED unread
       ELSE pc' = "import" /\ errors' = FALSE /\ unread' = Packages /\ UNCHANGED exit
    /\ UNCHANGED <<workspace, read, edits, faults, kills>>

\* source.Import reads all packages, selected or not, one after the other.
Import ==
    /\ pc = "import"
    /\ \E p \in unread :
          /\ read' = [read EXCEPT ![p] = src[p]]
          /\ unread' = unread \ {p}
          /\ IF src[p] = Broken THEN Return(TRUE)
             ELSE /\ pc' = IF unread = {p} THEN "render" ELSE "import"
                  /\ UNCHANGED <<errors, exit>>
    /\ UNCHANGED <<workspace, request, compared, drift, nativeFailed, verified,
                   edited, counters>>

\* Targets that failed are forgotten.
Render_GoesOn ==
    /\ pc = "render"
    /\ pc' = "prepare"
    /\ UNCHANGED <<workspace, request, unread, read, result, exit, edited, counters>>

\* The loop of Compile goes on after a target that fails, and stops after it.
Render ==
    /\ pc = "render"
    /\ IF \E t \in Plan.targets : ~Renders(t, Plan)
       THEN Return(TRUE)
       ELSE pc' = "prepare" /\ UNCHANGED <<errors, exit>>
    /\ UNCHANGED <<workspace, request, unread, read, compared, drift,
                   nativeFailed, verified, edited, counters>>

\* compatibility.Prepare wants all its targets.
Prepare ==
    /\ pc = "prepare"
    /\ IF rootTargets \subseteq Plan.targets
       THEN /\ pc' = IF kind = "build" THEN "write" ELSE "compare"
            /\ UNCHANGED <<errors, exit>>
       ELSE Return(TRUE)
    /\ UNCHANGED <<workspace, request, unread, read, compared, drift,
                   nativeFailed, verified, edited, counters>>

\* artifact.Write replaces the output,
WriteOutput ==
    /\ pc = "write"
    /\ output' = Plan
    /\ pc' = "writeRoot"
    /\ UNCHANGED <<sources, rootFiles, archives, request, unread, read, result, exit,
                   edited, counters>>

\* and compatibility.Write the root files after it.
WriteRoot ==
    /\ pc = "writeRoot"
    /\ rootFiles' = RootOf(Plan)
    /\ Return(FALSE)
    /\ UNCHANGED <<sources, output, archives, request, unread, read, compared, drift,
                   nativeFailed, verified, edited, counters>>

\* artifact.Compare: an output that cannot be observed is an error, no drift.
CompareOutput ==
    /\ pc = "compare"
    /\ \/ /\ drift' = (output # Plan)
          /\ errors' = (output # Plan)
          /\ compared' = {"output"}
          /\ UNCHANGED faults
       \/ /\ faults < MaxFaults
          /\ faults' = faults + 1
          /\ errors' = TRUE
          /\ UNCHANGED <<drift, compared>>
    /\ pc' = "compareRoot"
    /\ UNCHANGED <<workspace, request, unread, read, nativeFailed, verified,
                   exit, edited, commands, edits, kills>>

\* The drift of the output is overwritten.
CompareRoot_Overwrites ==
    /\ pc = "compareRoot"
    /\ drift' = (rootFiles # RootOf(Plan))
    /\ errors' = (rootFiles # RootOf(Plan))
    /\ compared' = compared \cup {"root"}
    /\ pc' = "compiled"
    /\ UNCHANGED <<workspace, request, unread, read, nativeFailed, verified,
                   exit, edited, counters>>

\* compatibility.Compare: a root file that cannot be observed is drift.
CompareRoot ==
    /\ pc = "compareRoot"
    /\ \/ /\ drift' = (drift \/ rootFiles # RootOf(Plan))
          /\ errors' = (errors \/ rootFiles # RootOf(Plan))
          /\ compared' = compared \cup {"root"}
          /\ UNCHANGED faults
       \/ /\ rootTargets # {}
          /\ faults < MaxFaults
          /\ faults' = faults + 1
          /\ drift' = TRUE
          /\ errors' = TRUE
          /\ UNCHANGED compared
    /\ pc' = "compiled"
    /\ UNCHANGED <<workspace, request, unread, read, nativeFailed, verified,
                   exit, edited, commands, edits, kills>>

\* nativeChecks and artifact.Verify: any check may fail.
Verify ==
    /\ pc = "compiled"
    /\ native /\ ~drift /\ ~verified
    /\ verified' = TRUE
    /\ nativeFailed' \in IF Checks \cap Plan.targets = {} THEN {FALSE} ELSE BOOLEAN
    /\ errors' = (errors \/ nativeFailed')
    /\ UNCHANGED <<workspace, pc, request, unread, read, compared, drift, exit,
                   edited, counters>>

\* Only drift keeps package from archiving.
Finish_IgnoresErrors ==
    /\ pc = "compiled"
    /\ ~(native /\ ~drift /\ ~verified)
    /\ archives' = [t \in Targets |->
                IF kind = "package" /\ ~drift /\ t \in Plan.targets
                THEN ArchiveOf(Plan, t) ELSE archives[t]]
    /\ Return(errors)
    /\ UNCHANGED <<sources, output, rootFiles, request, unread, read, compared, drift,
                   nativeFailed, verified, edited, counters>>

\* What is left of run: package archives the plan if nothing was reported.
Finish ==
    /\ pc = "compiled"
    /\ ~(native /\ ~drift /\ ~verified)
    /\ IF kind = "package" /\ ~errors /\ ~drift /\ ~nativeFailed
       THEN /\ archives' = [t \in Targets |->
                    IF t \in Plan.targets THEN ArchiveOf(Plan, t) ELSE archives[t]]
            /\ Return(FALSE)
       ELSE Return(errors) /\ UNCHANGED archives
    /\ UNCHANGED <<sources, output, rootFiles, request, unread, read, compared, drift,
                   nativeFailed, verified, edited, counters>>

\* What a step leaves when it stops half way.
HalfDone ==
    CASE pc = "write" ->
           /\ output' \in {output, None, Plan}
           /\ UNCHANGED <<rootFiles, archives>>
      [] pc = "writeRoot" ->
           /\ rootFiles' \in {rootFiles, Foreign, RootOf(Plan)}
           /\ UNCHANGED <<output, archives>>
      [] pc = "compiled" /\ kind = "package" /\ ~errors ->
           /\ \E done \in SUBSET Plan.targets :
                 archives' = [t \in Targets |->
                    IF t \in done THEN ArchiveOf(Plan, t) ELSE archives[t]]
           /\ UNCHANGED <<output, rootFiles>>
      [] OTHER -> UNCHANGED <<output, rootFiles, archives>>

\* The root files are written after an output that was not.
Fail_GoesOn ==
    /\ pc \in {"write", "writeRoot"}
    /\ faults < MaxFaults
    /\ faults' = faults + 1
    /\ HalfDone
    /\ IF pc = "write" THEN pc' = "writeRoot" /\ UNCHANGED <<errors, exit>> ELSE Return(TRUE)
    /\ UNCHANGED <<sources, request, unread, read, compared, drift, nativeFailed,
                   verified, edited, commands, edits, kills>>

\* An operation fails: an error, unless comparisons or native checks, which
\* have outcomes of their own, are under way.
Fail ==
    /\ \/ pc \in {"import", "prepare", "write", "writeRoot"}
       \/ pc = "compiled" /\ kind = "package" /\ ~errors
    /\ faults < MaxFaults
    /\ faults' = faults + 1
    /\ HalfDone
    /\ Return(TRUE)
    /\ UNCHANGED <<sources, request, unread, read, compared, drift, nativeFailed,
                   verified, edited, commands, edits, kills>>

Kill ==
    /\ pc # "idle"
    /\ kills < MaxKills
    /\ kills' = kills + 1
    /\ HalfDone
    /\ pc' = "idle"
    /\ exit' = 137
    /\ UNCHANGED <<sources, request, unread, read, result, edited, commands, edits, faults>>

\* Somebody edits a package, the output or the root, while a command runs or
\* between two.
Edit ==
    /\ edits < MaxEdits
    /\ edits' = edits + 1
    /\ edited' = TRUE
    /\ \/ /\ \E p \in Packages, v \in Versions :
                src[p] # v /\ src' = [src EXCEPT ![p] = v]
          /\ UNCHANGED <<output, rootFiles>>
       \/ output' \in {None, Foreign} \ {output} /\ UNCHANGED <<src, rootFiles>>
       \/ /\ rootTargets # {}
          /\ rootFiles' \in {Foreign} \ {rootFiles}
          /\ UNCHANGED <<src, output>>
    /\ UNCHANGED <<rootTargets, archives, pc, request, unread, read, result, exit,
                   commands, faults, kills>>

Step ==
    \/ Import \/ Render \/ Prepare \/ WriteOutput \/ WriteRoot
    \/ CompareOutput \/ CompareRoot \/ Verify \/ Finish

Next == Run \/ Step \/ Fail \/ Kill \/ Edit

Spec == Init /\ [][Next]_vars

-----------------------------------------------------------------------------
\* A target that does not render keeps every target from being written: the
\* output root holds whole plans only (the loop of Compile).
OutputIsWholeSelection ==
    output \notin {None, Foreign} =>
        \A t \in output.targets : t \in Targets /\ Renders(t, output)

Current ==
    /\ output = PlanOf(src)
    /\ rootFiles = RootOf(PlanOf(src))

\* While nobody edits, the exit status tells the truth, whatever failed or was
\* killed before: 0 of any command means that output, root files and, after
\* package, archives are those of the sources; 2 means that they are not, or
\* that the root files could not be observed.
ExitTellsState ==
    pc = "idle" /\ ~edited =>
        /\ exit = 0 =>
              /\ Current
              /\ kind = "package" =>
                    \A t \in SelectTargets(targets) :
                        archives[t] = ArchiveOf(PlanOf(src), t)
        /\ exit = 2 /\ "root" \in compared => ~Current

\* The root files that build writes refer to the output it has written: they
\* are never ahead of it (artifact.Write before compatibility.Write).
RootComesFromOutput ==
    [][rootFiles' # Foreign /\ ~edited => output = Plan]_rootFiles

\* Only what was compared with output and root files is released (run).
ArchivesComeFromOutput ==
    [][~edited => output = Plan /\ rootFiles = RootOf(Plan)]_archives
=============================================================================
