--------------------------- MODULE WorkspaceLayout ---------------------------
(***************************************************************************)
(* The commands that the layout guard protects.  A guard is built before   *)
(* anything is read, and shown again before sources are read, before the   *)
(* output is replaced or compared and around the pinning of an archive     *)
(* destination; somebody else may change what a path leads to between any  *)
(* two steps.  Each call of the guard is one step; the error of any call   *)
(* ends the command.                                                       *)
(***************************************************************************)
EXTENDS LayoutGuard

CONSTANTS
    Spare,          \* the directories the commands make
    Trees,          \* the entries a command may find
    Requests,       \* what commands are asked for
    Edits,          \* what entries somebody else may change, [dir, name, to]
    MaxEdits        \* bound on the run

\* A request: the command, and the paths of source, output and destination.
ASSUME LayoutAssumption ==
    /\ Spare \subseteq Dirs \ {Root}
    /\ \A tree \in Trees, folds \in BOOLEAN :
          LET fs == [folds |-> folds, tree |-> tree]
          IN  fs \in FileSystems /\ Forest(fs) /\ \A d \in Spare : Unused(fs, d)
    /\ Requests \subseteq [command : {"build", "check", "package"}, source : Paths,
                           output : Paths \ {<<>>}, destination : Paths \ {<<>>}]
    /\ Edits \subseteq [dir : Dirs, name : Names, to : {e \in Entries : e.kind # "dir"}]
    /\ MaxEdits \in Nat

VARIABLES
    fs,         \* the file system
    request,    \* the command
    pc,         \* its next call, or how it ended: "ok", "failed"
    guard,      \* the canonical source and output of its guard
    spared,     \* history: the directories it has imported, or has found for archiving
    pinned,     \* the output's parent, or the destination's, that it holds open
    boundTo,    \* canonical path of the destination below the pinned directory
    missing,    \* its components that are still to be made
    edits       \* how many changes somebody else has made

vars == <<fs, request, pc, guard, spared, pinned, boundTo, missing, edits>>

-----------------------------------------------------------------------------
(* The calls of a command *)

Revalidated == RevalidateRoots(fs, guard, request.source, request.output)

\* Mutant: the destination is compared with the sources only.
DestinationAccepted_Source(canonical) ==
    Revalidated /\ Disjoint(fs, Canon(fs, request.source), canonical)
DestinationAccepted(canonical) ==
    /\ Revalidated
    /\ Disjoint(fs, Canon(fs, request.source), canonical)
    /\ Disjoint(fs, Canon(fs, request.output), canonical)

Call(from, accepted, to) == pc = from /\ pc' = IF accepted THEN to ELSE "failed"

Check(from, accepted, to) ==
    /\ Call(from, accepted, to)
    /\ UNCHANGED <<fs, request, guard, spared, pinned, boundTo, missing, edits>>

MakeGuard ==
    /\ Call("guard", RootsAccepted(fs, request.source, request.output), "revalidate")
    /\ guard' = GuardOf(fs, request.source, request.output)
    /\ UNCHANGED <<fs, request, spared, pinned, boundTo, missing, edits>>

Revalidate == Check("revalidate", Revalidated, "import")

\* Importers open the source by its path.
Import ==
    /\ Call("import", Found(fs, request.source), "symlinks")
    /\ spared' = RealDirs(fs, request.source)
    /\ UNCHANGED <<fs, request, guard, pinned, boundTo, missing, edits>>

\* No component of the output is a link; the first missing one ends the search.
NoSymlinkComponents ==
    \A n \in 1..Len(request.output) : ~IsLink(fs, Upto(request.output, n))

CheckSymlinks == Check("symlinks", NoSymlinkComponents, request.command)

\* RevalidateOutputRoot is Revalidate for the path the guard was made for.
Write == Check("build", Revalidated, "pin")

PinParent ==
    /\ Call("pin", Found(fs, Front(request.output)), "recheck")
    /\ pinned' = {Resolve(fs, Front(request.output)).dir}
    /\ UNCHANGED <<fs, request, guard, spared, boundTo, missing, edits>>

\* Mutant: the parent that was opened is used without looking again.
RecheckOutput_Skipped == Check("recheck", TRUE, "replace")
RecheckOutput == Check("recheck", Revalidated, "replace")

\* An output that is up to date stays; one that is a link is an error; otherwise
\* whatever has the output's name in the pinned parent goes, and a directory
\* with the plan's files takes its place.
OutputName == Key(fs, Last(request.output))
Fresh == {d \in Spare \ pinned : Unused(fs, d)}
NewDir == CHOOSE d \in Fresh : TRUE

Replace ==
    /\ Fresh # {}
    /\ \E dir \in pinned :
          LET kind == fs.tree[dir][OutputName].kind IN
          /\ Call("replace", kind # "link", "ok")
          /\ \/ kind # "none" /\ UNCHANGED fs
             \/ kind # "link" /\ fs' = Put(fs, dir, OutputName, Directory(NewDir))
    /\ UNCHANGED <<request, guard, spared, pinned, boundTo, missing, edits>>

CompareOutput ==
    \/ Check("check", Revalidated, "ok")
    \/ Check("package", Revalidated, "reguard")

\* package makes a second guard for the archives, which knows nothing of the
\* first, and shows it once more.
MakeArchiveGuard ==
    /\ Call("reguard", RootsAccepted(fs, request.source, request.output), "archive")
    /\ guard' = GuardOf(fs, request.source, request.output)
    /\ spared' = RealDirs(fs, request.source) \cup RealDirs(fs, request.output)
    /\ UNCHANGED <<fs, request, pinned, boundTo, missing, edits>>

ShowArchiveGuard == Check("archive", Revalidated, "open")

\* The longest existing ancestor of the destination.
Existing(path) == Longest(path, {n \in 0..Len(path) : Exists(fs, Upto(path, n))})

\* The ancestor is resolved and pinned; the destination itself is no link.
OpenDestination ==
    LET existing == Existing(request.destination) IN
    /\ Call("open", Found(fs, existing) /\ (existing = request.destination => ~IsLink(fs, existing)), "contain")
    /\ pinned' = {Resolve(fs, existing).dir}
    /\ missing' = Beyond(request.destination, Len(existing))
    /\ boundTo' = Canon(fs, existing) \o missing'
    /\ UNCHANGED <<fs, request, guard, spared, edits>>

Contain == Check("contain", DestinationAccepted(boundTo), "create")

\* Missing components are made and entered one by one below the pinned
\* directory; a link among them is an error.
CreateComponent ==
    /\ pc = "create" /\ missing # <<>> /\ Fresh # {}
    /\ \E dir \in pinned :
          LET name == Key(fs, Head(missing))
              e == fs.tree[dir][name]
              next == IF e.kind = "none" THEN Directory(NewDir) ELSE e
          IN  /\ pc' = IF e.kind = "link" THEN "failed" ELSE "create"
              /\ fs' = Put(fs, dir, name, next)
              /\ pinned' = {next.dir}
    /\ missing' = Tail(missing)
    /\ UNCHANGED <<request, guard, spared, boundTo, edits>>

\* At last the destination has to lead to the pinned directory.
Created ==
    /\ missing = <<>>
    /\ Check("create", Found(fs, request.destination) /\ Resolve(fs, request.destination).dir \in pinned, "confine")

Confine == Check("confine", DestinationAccepted(boundTo), "archives")

WriteArchives == Check("archives", TRUE, "ok")

-----------------------------------------------------------------------------
(* Somebody else: an entry becomes another link, or nothing *)

Edit ==
    /\ pc \notin {"ok", "failed"} /\ edits < MaxEdits
    /\ \E e \in Edits :
          /\ EntryAt(fs, e.dir, e.name) # e.to
          /\ fs' = Put(fs, e.dir, Key(fs, e.name), e.to)
    /\ edits' = edits + 1
    /\ UNCHANGED <<request, pc, guard, spared, pinned, boundTo, missing>>

Init ==
    /\ \E folds \in BOOLEAN, tree \in Trees : fs = [folds |-> folds, tree |-> tree]
    /\ request \in Requests
    /\ pc = "guard"
    /\ guard = [source |-> <<>>, output |-> <<>>]
    /\ spared = {} /\ pinned = {} /\ boundTo = <<>> /\ missing = <<>> /\ edits = 0

Next ==
    \/ MakeGuard \/ Revalidate \/ Import \/ CheckSymlinks
    \/ Write \/ PinParent \/ RecheckOutput \/ Replace
    \/ CompareOutput \/ MakeArchiveGuard \/ ShowArchiveGuard
    \/ OpenDestination \/ Contain \/ CreateComponent \/ Created \/ Confine \/ WriteArchives
    \/ Edit

Spec == Init /\ [][Next]_vars

-----------------------------------------------------------------------------
(* Properties *)

\* The guard a command starts with tells real directories apart, whatever
\* names and links lead to them: the source is not in the output, nor the
\* output, or the place where it will be made, in the source.
GuardSeparatesRoots ==
    [][pc = "guard" /\ pc' = "revalidate" =>
          LET lengths == {n \in 0..Len(request.output) : Found(fs, Upto(request.output, n))}
              Nearest == Resolve(fs, Longest(request.output, lengths)).dir
          IN  /\ Nearest \notin RealDirs(fs, request.source)
              /\ Found(fs, request.source) => Resolve(fs, request.source).dir \notin RealDirs(fs, request.output)]_vars

\* A build never replaces a directory it has imported from, nor writes into
\* one, though a link or a directory changed under it between any two calls.
WriteSparesSources ==
    [][pc = "replace" /\ pc' = "ok" =>
          \A dir \in pinned :
             /\ dir \notin spared
             /\ fs.tree[dir][OutputName].kind = "dir" => Below(fs, fs.tree[dir][OutputName].dir) \cap spared = {}]_vars

\* Archives are written neither into the sources and the output that their
\* guard has found, nor where the output will be, though what the paths lead to
\* changed between any two calls.
ArchivesStayApart ==
    [][pc = "archives" /\ pc' = "ok" =>
          /\ pinned \cap spared = {}
          /\ ~IsPrefix(FoldPath(fs, guard.output), FoldPath(fs, boundTo))]_vars

=============================================================================
