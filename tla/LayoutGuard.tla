----------------------------- MODULE LayoutGuard -----------------------------
(***************************************************************************)
(* Paths in a file system, and what the layout guard makes of them.  A     *)
(* path leads through symbolic links and, on systems that fold case,       *)
(* through names in another case.                                          *)
(*                                                                         *)
(* A directory is an identity and the file system says what its names are: *)
(* nothing, a directory, or a link with an absolute target.  A path is the *)
(* sequence of names below the workspace root.  Everything here is asked   *)
(* of a given file system; what changes one is in WorkspaceLayout.         *)
(***************************************************************************)
EXTENDS Naturals, SequencesExt

CONSTANTS
    Dirs,           \* the directories there may be
    Root,           \* the workspace root, one of them
    Names,          \* the names entries may have
    Lower,          \* name |-> the name in lower case
    MaxLinks        \* links a resolution follows before it reports a cycle

ASSUME LookupAssumption ==
    Root \in Dirs /\ Lower \in [Names -> Names] /\ MaxLinks \in Nat

Paths == Seq(Names)

\* An entry of a directory, and a file system: whether path lookup folds case,
\* as the program knows, and the entries.
Entries == [kind : {"none", "dir", "link"}, dir : Dirs, path : Paths]
FileSystems == [folds : BOOLEAN, tree : [Dirs -> [Names -> Entries]]]

Nothing == [kind |-> "none", dir |-> Root, path |-> <<>>]
Link(path) == [kind |-> "link", dir |-> Root, path |-> path]
Directory(dir) == [kind |-> "dir", dir |-> dir, path |-> <<>>]

\* A directory is below no other, or below one, under one name.
Forest(fs) ==
    \A d \in Dirs, n \in Names : fs.tree[d][n].kind = "dir" =>
        /\ fs.tree[d][n].dir # Root
        /\ \A e \in Dirs, m \in Names :
              fs.tree[e][m].kind = "dir" /\ fs.tree[e][m].dir = fs.tree[d][n].dir => e = d /\ m = n

\* A directory that is below none, with nothing in it.
Unused(fs, dir) ==
    /\ \A n \in Names : fs.tree[dir][n].kind = "none"
    /\ \A d \in Dirs, n \in Names : fs.tree[d][n].kind = "dir" => fs.tree[d][n].dir # dir

\* A name in a directory gets another entry.
Put(fs, dir, name, entry) == [fs EXCEPT !.tree[dir][name] = entry]

-----------------------------------------------------------------------------
(* Lookup *)

Key(fs, name) == IF fs.folds THEN Lower[name] ELSE name
EntryAt(fs, dir, name) == fs.tree[dir][Key(fs, name)]

Upto(path, n) == SubSeq(path, 1, n)
Beyond(path, n) == SubSeq(path, n + 1, Len(path))
Longest(path, lengths) == Upto(path, CHOOSE n \in lengths : \A m \in lengths : m <= n)

\* The directory that the first n names of a path lead to without a link, if any.
Along(fs, path) ==
    LET at[n \in 0..Len(path)] ==
            IF n = 0 THEN {Root}
            ELSE {EntryAt(fs, d, path[n]).dir : d \in {c \in at[n - 1] : EntryAt(fs, c, path[n]).kind = "dir"}}
    IN  at

\* The place of the first link on a path, and the path that it stands for.
LinkOn(fs, path) ==
    {n \in 1..Len(path) : \E d \in Along(fs, path)[n - 1] : EntryAt(fs, d, path[n]).kind = "link"}

Behind(fs, path, n) ==
    EntryAt(fs, CHOOSE d \in Along(fs, path)[n - 1] : TRUE, path[n]).path \o Beyond(path, n)

Follow(fs, path) ==
    IF LinkOn(fs, path) = {} THEN path ELSE Behind(fs, path, CHOOSE n \in LinkOn(fs, path) : TRUE)

Followed(fs, path) ==
    LET after[n \in 0..MaxLinks] == IF n = 0 THEN path ELSE Follow(fs, after[n - 1])
    IN  after[MaxLinks]

Answer(status, path, dir) == [status |-> status, path |-> path, dir |-> dir]

\* What os.Stat and filepath.EvalSymlinks find at the end of the links.
AnswerAt(fs, end) ==
    IF LinkOn(fs, end) # {} THEN Answer("cycle", end, Root)
    ELSE IF Along(fs, end)[Len(end)] = {} THEN Answer("missing", end, Root)
    ELSE Answer("found", end, CHOOSE d \in Along(fs, end)[Len(end)] : TRUE)

Resolve(fs, path) == AnswerAt(fs, Followed(fs, path))

Found(fs, path) == Resolve(fs, path).status = "found"
IsLink(fs, path) ==
    LET parent == Resolve(fs, Front(path)) IN
    /\ parent.status = "found"
    /\ EntryAt(fs, parent.dir, Last(path)).kind = "link"
Exists(fs, path) == path = <<>> \/ Found(fs, path) \/ IsLink(fs, path)      \* os.Lstat

\* The directories in and below a directory.
Children(fs, dir) == {EntryAt(fs, dir, n).dir : n \in {m \in Names : EntryAt(fs, dir, m).kind = "dir"}}
Closed(fs, dirs) == \A d \in dirs : Children(fs, d) \subseteq dirs
Below(fs, dir) ==
    LET around == {dirs \in SUBSET Dirs : dir \in dirs /\ Closed(fs, dirs)}
    IN  {d \in Dirs : \A dirs \in around : d \in dirs}

RealDirs(fs, path) == IF Found(fs, path) THEN Below(fs, Resolve(fs, path).dir) ELSE {}

-----------------------------------------------------------------------------
(* The guard *)

\* A missing path keeps its names behind the canonical form of what exists.
Standing(fs, path) == Longest(path, {n \in 0..Len(path) : Resolve(fs, Upto(path, n)).status # "missing"})
CanonPathOrTextual(fs, path) ==
    [Resolve(fs, Standing(fs, path)) EXCEPT !.path = @ \o Beyond(path, Len(Standing(fs, path)))]

Resolves(fs, path) == CanonPathOrTextual(fs, path).status # "cycle"
Canon(fs, path) == CanonPathOrTextual(fs, path).path

FoldPath(fs, path) == [n \in 1..Len(path) |-> Key(fs, path[n])]

SameFile(fs, left, right) ==
    Found(fs, left) /\ Found(fs, right) /\ Resolve(fs, left).dir = Resolve(fs, right).dir

SamePath(fs, left, right) == FoldPath(fs, left) = FoldPath(fs, right) \/ SameFile(fs, left, right)

\* Mutant: the textual comparison ignores that lookup folds case.
Inside_Exact(fs, child, parent) == SamePath(fs, child, parent) \/ IsPrefix(parent, child)
Inside(fs, child, parent) ==
    SamePath(fs, child, parent) \/ IsPrefix(FoldPath(fs, parent), FoldPath(fs, child))

Disjoint(fs, source, output) == ~Inside(fs, output, source) /\ ~Inside(fs, source, output)

\* checkExistingIdentity also fails on a cycle.
Distinct(fs, left, right) ==
    \/ "missing" \in {Resolve(fs, left).status, Resolve(fs, right).status}
    \/ Found(fs, left) /\ Found(fs, right) /\ ~SameFile(fs, left, right)

RootsAccepted(fs, source, output) ==
    /\ Resolves(fs, source) /\ Resolves(fs, output)
    /\ Disjoint(fs, Canon(fs, source), Canon(fs, output))
    /\ Distinct(fs, source, output)

\* A guard keeps the canonical paths of the roots it was made for.
GuardOf(fs, source, output) == [source |-> Canon(fs, source), output |-> Canon(fs, output)]

RevalidateRoots(fs, guard, source, output) ==
    /\ SamePath(fs, Canon(fs, source), guard.source)
    /\ SamePath(fs, Canon(fs, output), guard.output)
    /\ RootsAccepted(fs, source, output)

=============================================================================
