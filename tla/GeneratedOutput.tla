-------------------------- MODULE GeneratedOutput --------------------------
(***************************************************************************)
(* What agbun build and agbun check say of the generated output root, and  *)
(* what build does about it: artifact.Write validates the plan, compares   *)
(* the output with it below a pinned parent directory and replaces the     *)
(* output unless nothing differs; artifact.Compare reports every           *)
(* difference from the pathname, and writes nothing.  Between the two,     *)
(* anybody may edit the output, and the sources may compile to another     *)
(* plan.                                                                   *)
(*                                                                         *)
(* A tree is a function from the paths below the output root to what is    *)
(* there; how a replacement comes about, and what interrupts it, is the    *)
(* subject of OutputJournal and PinnedOutput.                              *)
(***************************************************************************)
EXTENDS Naturals, Sequences

CONSTANTS
    Names,      \* the names of entries
    Depth,      \* bound: components of a path below the output root
    Contents,   \* the bytes of files
    Fold,       \* strings.ToLower, as a function on Names
    OutputName, \* the last component of the output root, a name as well
    SourcePlans,    \* the plans that sources compile to, sequences of PlannedFiles
    EditedNames \* bound: the names that somebody gives to entries

Paths == UNION {[1 .. n -> Names] : n \in 1 .. Depth}
PlannedFiles == [path : Paths, bytes : Contents, executable : BOOLEAN]

ASSUME DepthAssumption == Depth \in Nat \ {0}
ASSUME FoldAssumption == Fold \in [Names -> Names]
ASSUME EditsAssumption == EditedNames \subseteq Names
\* A plan is never empty: the compiler puts its provenance into every one.
ASSUME PlansAssumption == SourcePlans \subseteq Seq(PlannedFiles) \ {<<>>}

VARIABLES
    root,       \* what is at the output root
    compiled,   \* the plan that the sources compile to
    last        \* the last command and its diagnostics

outputVars == <<root, compiled, last>>

-----------------------------------------------------------------------------
(* Trees.                                                                  *)

Files == [kind : {"file"}, bytes : Contents, executable : BOOLEAN]
Directory == [kind |-> "directory"]
Link == [kind |-> "symlink"]
Nodes == Files \cup {Directory, Link}

\* The proper ancestors of a path, below the output root.
Ancestors(p) == {SubSeq(p, 1, n) : n \in 1 .. Len(p) - 1}

\* Every entry lies in a directory.
IsTree(t) ==
    \A p \in DOMAIN t : \A a \in Ancestors(p) : a \in DOMAIN t /\ t[a] = Directory

Missing == [kind |-> "missing"]
NotADirectory == [kind |-> "file"]
Tree(t) == [kind |-> "directory", entries |-> t]

-----------------------------------------------------------------------------
(* Plans.                                                                  *)

FoldPath(p) == [i \in DOMAIN p |-> Fold[p[i]]]

\* destinationConflicts: two files at one place, or one in the other's way.
Conflict(f, g) ==
    LET here == FoldPath(f.path)
        there == FoldPath(g.path)
    IN  here = there \/ here \in Ancestors(there)

\* validatePlan.  The platforms' reserved names, refused as well, are left out.
ValidPlan(files) ==
    \A i, j \in DOMAIN files : i # j => ~Conflict(files[i], files[j])

Destinations(files) == {files[i].path : i \in DOMAIN files}
FileAt(files, p) == files[CHOOSE i \in DOMAIN files : files[i].path = p]

\* expectedFiles: what the plan wants at each destination.
Expected(files) ==
    [p \in Destinations(files) |->
        [kind |-> "file", bytes |-> FileAt(files, p).bytes,
         executable |-> FileAt(files, p).executable]]

RequiredDirectories(files) == UNION {Ancestors(p) : p \in Destinations(files)}

\* The tree that stageFilesInRoot writes: the files, and the directories they need.
Materialized(files) ==
    [p \in Destinations(files) \cup RequiredDirectories(files) |->
        IF p \in Destinations(files) THEN Expected(files)[p] ELSE Directory]

-----------------------------------------------------------------------------
(* compare.DetectDrift and DetectDriftInRoot.                              *)

\* Mutant: the execute bits of a planned file are not compared.
MutantDriftWithoutMode(files, entries) ==
    {[kind |-> "extra", path |-> p] : p \in
        {q \in DOMAIN entries \ Destinations(files) :
           ~(entries[q] = Directory /\ q \in RequiredDirectories(files))}}
    \cup
    {[kind |-> "missing", path |-> p] : p \in Destinations(files) \ DOMAIN entries}
    \cup
    {[kind |-> "changed", path |-> p] : p \in
        {q \in Destinations(files) \cap DOMAIN entries :
           \/ entries[q].kind # "file"
           \/ entries[q].bytes # Expected(files)[q].bytes}}

\* Mutant: a symlink at a planned path counts as a missing file.
MutantLinksAreMissing(files, entries) ==
    LET real == {p \in DOMAIN entries : entries[p] # Link}
    IN  {[kind |-> "extra", path |-> p] : p \in
            {q \in DOMAIN entries \ Destinations(files) :
               ~(entries[q] = Directory /\ q \in RequiredDirectories(files))}}
        \cup
        {[kind |-> "missing", path |-> p] : p \in Destinations(files) \ real}
        \cup
        {[kind |-> "changed", path |-> p] : p \in
            {q \in Destinations(files) \cap real :
               entries[q] # Expected(files)[q]}}

\* detectDriftInternal: how the entries found differ from the plan.
Drift(files, entries) ==
    {[kind |-> "extra", path |-> p] : p \in
        {q \in DOMAIN entries \ Destinations(files) :
           ~(entries[q] = Directory /\ q \in RequiredDirectories(files))}}
    \cup
    {[kind |-> "missing", path |-> p] : p \in Destinations(files) \ DOMAIN entries}
    \cup
    {[kind |-> "changed", path |-> p] : p \in
        {q \in Destinations(files) \cap DOMAIN entries :
           entries[q] # Expected(files)[q]}}

NoEntries == [p \in {} |-> Missing]

\* outputEntriesInRoot: the entry of the output root itself is put under its
\* own name while the walk runs, and taken out under that name afterwards.
EntriesInRoot(r) ==
    CASE r = Missing -> NoEntries
      [] r = NotADirectory -> [p \in {<<OutputName>>} |-> NotADirectory]
      [] OTHER -> [p \in DOMAIN r.entries \ {<<OutputName>>} |-> r.entries[p]]

\* outputEntries: an output root that is no directory is an error instead.
Walkable(r) == r \notin {Missing, NotADirectory}

-----------------------------------------------------------------------------
(* Commands.                                                               *)

Said(command, outcome, drift) ==
    [command |-> command, outcome |-> outcome, drift |-> drift]

Invalid == ~ValidPlan(compiled)

\* artifact.Write, on a plan that validatePlan rejects.
BuildRejected ==
    /\ Invalid
    /\ last' = Said("build", "invalid", {})
    /\ UNCHANGED <<root, compiled>>

\* artifact.Write, on an output that is current already.
BuildCurrent ==
    /\ ~Invalid
    /\ Drift(compiled, EntriesInRoot(root)) = {}
    /\ last' = Said("build", "ok", {})
    /\ UNCHANGED <<root, compiled>>

\* artifact.Write: the output drifted, and is replaced as a whole.
BuildReplace ==
    /\ ~Invalid
    /\ Drift(compiled, EntriesInRoot(root)) # {}
    /\ root # NotADirectory
    /\ root' = Tree(Materialized(compiled))
    /\ last' = Said("build", "ok", {})
    /\ UNCHANGED compiled

\* artifact.Write fails before anything is installed: the staging tree could
\* not be written, or the output root is not a directory.
BuildFails ==
    /\ ~Invalid
    /\ Drift(compiled, EntriesInRoot(root)) # {}
    /\ last' = Said("build", "error", {})
    /\ UNCHANGED <<root, compiled>>

\* artifact.Compare.
Check ==
    /\ last' =
         IF Invalid THEN Said("check", "invalid", {})
         ELSE IF ~Walkable(root) THEN Said("check", "error", {})
         ELSE LET drift == Drift(compiled, root.entries)
              IN  Said("check", IF drift = {} THEN "clean" ELSE "drift", drift)
    /\ UNCHANGED <<root, compiled>>

-----------------------------------------------------------------------------
(* The environment.                                                        *)

EditedPaths == {p \in Paths : \A i \in DOMAIN p : p[i] \in EditedNames}

NoCommand == Said("none", "ok", {})

\* Somebody changes the sources.
EditSources(files) ==
    /\ compiled' = files
    /\ last' = NoCommand
    /\ UNCHANGED root

\* Somebody puts a node at a path of the output, in place of what was there.
PutEntry(p, node) ==
    /\ Walkable(root)
    /\ \A a \in Ancestors(p) : a \in DOMAIN root.entries /\ root.entries[a] = Directory
    /\ LET t == root.entries
           kept == {q \in DOMAIN t : q # p /\ p \notin Ancestors(q)}
       IN  root' = Tree([q \in kept \cup {p} |-> IF q = p THEN node ELSE t[q]])
    /\ last' = NoCommand
    /\ UNCHANGED compiled

\* Somebody removes an entry with everything below it.
RemoveEntry(p) ==
    /\ Walkable(root)
    /\ p \in DOMAIN root.entries
    /\ LET t == root.entries
       IN  root' = Tree([q \in {q \in DOMAIN t : q # p /\ p \notin Ancestors(q)}
                            |-> t[q]])
    /\ last' = NoCommand
    /\ UNCHANGED compiled

\* Somebody removes the output root, or puts a file there.
LoseRoot ==
    /\ root' \in {Missing, NotADirectory}
    /\ last' = NoCommand
    /\ UNCHANGED compiled

-----------------------------------------------------------------------------

OutputInit ==
    /\ root = Missing
    /\ compiled \in SourcePlans
    /\ last = NoCommand

Build == BuildRejected \/ BuildCurrent \/ BuildReplace \/ BuildFails

OutputNext ==
    \/ Build
    \/ Check
    \/ \E files \in SourcePlans : EditSources(files)
    \/ \E p \in EditedPaths, node \in Nodes : PutEntry(p, node)
    \/ \E p \in Paths : RemoveEntry(p)
    \/ LoseRoot

OutputSpec == OutputInit /\ [][OutputNext]_outputVars

-----------------------------------------------------------------------------
(* Properties.                                                             *)

\* The output holds the plan's tree and nothing else.
Current == root = Tree(Materialized(compiled))

\* A build that reports success leaves exactly the plan's tree, whether it
\* replaced the output or found it current.
BuildIsExact ==
    last.command = "build" /\ last.outcome = "ok" => Current

\* What is at a path of the output, or of the plan's tree.
NodeAt(t, p) == IF p \in DOMAIN t THEN t[p] ELSE Missing

\* check names each path that differs, once, and under the right kind; only a
\* missing directory goes unnamed, for the files below it are named.
CheckNamesEveryDifference ==
    last.command = "check" /\ last.outcome \in {"clean", "drift"} =>
        LET want == Materialized(compiled)
            have == root.entries
            differs == {p \in Paths : NodeAt(want, p) # NodeAt(have, p)}
            unnamed == {p \in differs :
                          NodeAt(want, p) = Directory /\ NodeAt(have, p) = Missing}
            kindOf(p) == CASE NodeAt(have, p) = Missing -> "missing"
                           [] NodeAt(want, p) \in {Missing, Directory} -> "extra"
                           [] OTHER -> "changed"
        IN  last.drift =
              {[kind |-> kindOf(p), path |-> p] : p \in differs \ unnamed}
=============================================================================
