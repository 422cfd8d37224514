---------------------------- MODULE BundleSource ----------------------------
(***************************************************************************)
(* The import of a bundle: package manifests list the paths of assets, the *)
(* path says what kind an asset is, and a sidecar directory next to it     *)
(* holds its capabilities and what each target overlays.  Every file that  *)
(* is read is an input of the build.  One diagnostic, and nothing at all   *)
(* is imported.                                                            *)
(*                                                                         *)
(* A tree is the source root: a function from the paths of its files,      *)
(* links and empty directories to nodes, [kind, data]; other directories   *)
(* are the strict prefixes of these paths.  The data of a file has the     *)
(* form that it decodes as, and a value; bytes and file modes are left     *)
(* out, and so are diagnostics, of which only the presence counts.         *)
(***************************************************************************)
EXTENDS SourceModel

CONSTANTS
    MarkdownStem,   \* a segment that ends in .md |-> what comes before it
    JsonStem,       \* the same for .json
    IgnoredFiles,   \* names of editor backups, caches and the like
    IgnoredDirs

\* Targets that sidecars and native resources may be for.
BundleTargets == Targets \ {"agent-plugins"}

-----------------------------------------------------------------------------
(* The file system *)

IsFile(tree, path) == path \in DOMAIN tree /\ tree[path].kind = "file"
IsLink(tree, path) == path \in DOMAIN tree /\ tree[path].kind = "link"
IsDir(tree, path) ==
    \/ path \in DOMAIN tree /\ tree[path].kind = "directory"
    \/ \E q \in DOMAIN tree : IsStrictPrefix(path, q)

\* There is nothing at a path, and no link or file in the way of finding out.
Absent(tree, path) ==
    \A q \in DOMAIN tree : ~IsPrefix(path, q) /\ (IsPrefix(q, path) => tree[q].kind = "directory")

Decodes(tree, path, form) == IsFile(tree, path) /\ tree[path].data.form = form
DecodesIfThere(tree, path, form) == Absent(tree, path) \/ Decodes(tree, path, form)
ValueAt(tree, path) == tree[path].data.value
Relative(root, path) == SubSeq(path, Len(root) + 1, Len(path))

\* What a walk meets below a directory.
Entries(tree, root) == {Relative(root, q) : q \in {p \in DOMAIN tree : IsStrictPrefix(root, p)}}
Files(tree, root) == {rel \in Entries(tree, root) : IsFile(tree, root \o rel)}
Links(tree, root) == {rel \in Entries(tree, root) : IsLink(tree, root \o rel)}
ContentOf(tree, root, names) == [rel \in names |-> tree[root \o rel].data]

-----------------------------------------------------------------------------
(* Classification *)

\* A bundle may have its assets below src/.
Parts(path) == IF Len(path) >= 2 /\ path[1] = "src" THEN Tail(path) ELSE path

HasParts(path, folder, names) ==
    Len(Parts(path)) = 2 /\ Parts(path)[1] = folder /\ Last(path) \in names

SingleFileHook(path) == HasParts(path, "hooks", DOMAIN JsonStem)
NativePath(path) == Len(Parts(path)) = 3 /\ Parts(path)[1] = "plugins" /\ Parts(path)[2] \in BundleTargets
NativeTarget(path) == Parts(path)[2]

Classifies(path) ==
    \/ Len(Parts(path)) = 2 /\ Parts(path)[1] \in {"skills", "resources", "hooks"}
    \/ HasParts(path, "agents", DOMAIN MarkdownStem) \/ HasParts(path, "commands", DOMAIN MarkdownStem)
    \/ NativePath(path)

KindAt(path) ==
    CASE Parts(path)[1] = "skills" -> "skill"
      [] Parts(path)[1] = "agents" -> "agent"
      [] Parts(path)[1] = "commands" -> "command"
      [] Parts(path)[1] = "resources" -> "resource"
      [] Parts(path)[1] = "hooks" -> "hook"
      [] OTHER -> "native-resource"

NameAt(path) ==
    IF KindAt(path) \in {"agent", "command"} THEN MarkdownStem[Last(path)]
    ELSE IF SingleFileHook(path) THEN JsonStem[Last(path)] ELSE Last(path)

MainFile(path) ==
    CASE KindAt(path) = "skill" -> path \o <<"SKILL.md">>
      [] KindAt(path) = "hook" /\ ~SingleFileHook(path) -> path \o <<"hook.json">>
      [] OTHER -> path

IdentityAt(path) == <<KindAt(path), NameAt(path)>>

-----------------------------------------------------------------------------
(* Files of an asset *)

Ignored(rel) == Last(rel) \in IgnoredFiles \/ ToSet(Front(rel)) \cap IgnoredDirs # {}
InSidecar(rel) == rel[1] = ".agentbundler"

\* Whether the files below a path are an asset's, and which are left out.
HasFiles(tree, path) ==
    \/ KindAt(path) \in {"skill", "resource"}
    \/ KindAt(path) = "hook" /\ ~SingleFileHook(path)
    \/ KindAt(path) = "native-resource" /\ IsDir(tree, path)

\* Native resources of Antigravity are taken as they are.
Verbatim(path) == KindAt(path) = "native-resource" /\ NativeTarget(path) = "antigravity"
Passed(path, rel) == InSidecar(rel) \/ (~Verbatim(path) /\ Ignored(rel))

SupportFiles(tree, path) ==
    IF ~HasFiles(tree, path) THEN {}
    ELSE {rel \in Files(tree, path) : ~Passed(path, rel)}
         \ (CASE KindAt(path) = "hook" -> {<<"hook.json">>}
              [] Verbatim(path) -> {}
              [] OTHER -> {<<"SKILL.md">>})

\* A resource that is a file has no files; a walk ends at any link it looks at.
FilesReadable(tree, path) ==
    HasFiles(tree, path) =>
        /\ IsDir(tree, path) \/ (KindAt(path) = "resource" /\ IsFile(tree, path))
        /\ <<".agentbundler">> \notin Entries(tree, path) \/ IsDir(tree, path \o <<".agentbundler">>)
        /\ \A rel \in Links(tree, path) : Passed(path, rel)

AssetContent(tree, path) ==
    LET kind == KindAt(path)
        markdown == kind \in {"skill", "agent", "command"}
    IN  [frontmatter |-> IF markdown THEN ValueAt(tree, MainFile(path)).frontmatter ELSE <<>>,
         body |-> IF markdown THEN ValueAt(tree, MainFile(path)).body ELSE <<>>,
         files |-> IF kind = "native-resource" /\ IsFile(tree, path)
                   THEN [rel \in {<<Last(path)>>} |-> tree[path].data]
                   ELSE ContentOf(tree, path, SupportFiles(tree, path))]

MainFits(tree, path) ==
    CASE KindAt(path) \in {"skill", "agent"} -> Decodes(tree, MainFile(path), "markdown")
      [] KindAt(path) = "command" ->
             /\ Decodes(tree, path, "markdown")
             /\ LET f == ValueAt(tree, path).frontmatter IN
                DescriptionKey \in DOMAIN f /\ f[DescriptionKey] \notin Blank
      [] KindAt(path) = "hook" ->
             /\ Decodes(tree, MainFile(path), "hook")
             /\ \A i \in DOMAIN ValueAt(tree, MainFile(path)).handler.arguments :
                   ValueAt(tree, MainFile(path)).handler.arguments[i].packageFile \subseteq SupportFiles(tree, path)
      [] KindAt(path) = "native-resource" -> IsFile(tree, path) \/ IsDir(tree, path)
      [] OTHER -> TRUE

-----------------------------------------------------------------------------
(* Sidecars *)

Sidecar(dir) ==
    IF Last(dir) \in DOMAIN MarkdownStem THEN Front(dir) \o <<Last(dir) \o ".agentbundler">>
                                         ELSE dir \o <<".agentbundler">>

\* Assets of one file share the sidecar of their directory, but for what an
\* agent overlays and for all of a command.
InDirectory(tree, path) ==
    \/ KindAt(path) = "agent" \/ SingleFileHook(path)
    \/ KindAt(path) = "native-resource" /\ IsFile(tree, path)
MetadataPath(tree, path) ==
    Sidecar(IF InDirectory(tree, path) THEN Front(path) ELSE path) \o <<"asset.json">>
OverlayRoot(tree, path) ==
    Sidecar(IF InDirectory(tree, path) /\ KindAt(path) # "agent" THEN Front(path) ELSE path) \o <<"targets">>

MetadataFits(tree, path) ==
    LET file == MetadataPath(tree, path) IN
    /\ DecodesIfThere(tree, file, "asset")
    /\ IsFile(tree, file) =>
          LET value == ValueAt(tree, file) IN
          /\ \A uses \in value.capabilities : ValidCapabilityUses(uses)
          /\ value.capabilities # {}
          /\ \A paths \in value.piExtensions :
                /\ KindAt(path) = "native-resource"
                /\ Distinct(paths) /\ \A i \in DOMAIN paths : ValidPath(paths[i])

DeclaredUses(tree, path) ==
    LET file == MetadataPath(tree, path) IN
    IF IsFile(tree, file) THEN UNION {ToSet(uses) : uses \in ValueAt(tree, file).capabilities} ELSE {}

NativeOptions(tree, path) ==
    LET file == MetadataPath(tree, path) IN
    IF IsFile(tree, file) THEN {[piExtensions |-> paths] : paths \in ValueAt(tree, file).piExtensions} ELSE {}

HookUses(h) ==
    {"asset.hook", "hook.command." \o h.handler.mode, "hook.event." \o h.event}
    \cup (IF h.matcher # {} THEN {"hook.matcher.tool-category"} ELSE {})
    \cup (IF h.asynchronous THEN {"hook.async"} ELSE {})
    \cup (IF h.failurePolicy = "closed" THEN {"hook.failure.closed"} ELSE {})

\* Mutant: a sidecar takes the place of what a hook implies.
Uses_Declared(tree, path) ==
    IF KindAt(path) = "hook" /\ DeclaredUses(tree, path) = {} THEN HookUses(ValueAt(tree, MainFile(path)))
    ELSE DeclaredUses(tree, path) \cup (IF KindAt(path) = "command" THEN {"asset.command"} ELSE {})
Uses(tree, path) ==
    DeclaredUses(tree, path)
    \cup (IF KindAt(path) = "command" THEN {"asset.command"} ELSE {})
    \cup (IF KindAt(path) = "hook" THEN HookUses(ValueAt(tree, MainFile(path))) ELSE {})

-----------------------------------------------------------------------------
(* Overlays *)

OverlayFile(tree, path, t) == OverlayRoot(tree, path) \o <<t \o ".json">>
OverlayFiles(tree, path, t) == OverlayRoot(tree, path) \o <<t, "files">>

\* The targets that have a file or a directory here.
OverlayTargets(tree, path) ==
    {t \in BundleTargets : IsFile(tree, OverlayFile(tree, path, t)) \/ IsDir(tree, OverlayRoot(tree, path) \o <<t>>)}
OverlayEntryFits(tree, path, entry) ==
    \E t \in BundleTargets :
        \/ entry[1] = t \o ".json" /\ IsFile(tree, OverlayFile(tree, path, t))
        \/ entry[1] = t /\ IsDir(tree, OverlayRoot(tree, path) \o <<t>>)

OverlayFits(tree, path, t) ==
    LET file == OverlayFile(tree, path, t)
        dir == OverlayFiles(tree, path, t)
    IN  /\ DecodesIfThere(tree, file, "overlay")
        /\ IsFile(tree, file) =>
              LET value == ValueAt(tree, file) IN
              /\ \A f \in DOMAIN value.files : ValidPath(f)
              /\ \A i \in DOMAIN value.deletedFiles : ValidPath(value.deletedFiles[i])
              /\ \A i \in DOMAIN value.acknowledgments :
                    ValidAcknowledgment(value.acknowledgments[i]) /\ value.acknowledgments[i].target \in BundleTargets
        /\ IsDir(tree, dir) \/ Absent(tree, dir)
        /\ Links(tree, dir) = {}

OverlaysFit(tree, path) ==
    LET root == OverlayRoot(tree, path) IN
    Absent(tree, root) \/
        /\ IsDir(tree, root)
        /\ \A entry \in Entries(tree, root) : OverlayEntryFits(tree, path, entry)
        /\ \A t \in OverlayTargets(tree, path) : OverlayFits(tree, path, t)

NoOverlay == [frontmatterPatch |-> {}, bodyPatch |-> {}, files |-> <<>>, deletedFiles |-> <<>>, acknowledgments |-> <<>>]

\* Mutant: what the sidecar holds inline hides the files of its directory.
OverlayContent_Inline(inline, found) == inline ++ found
\* A file in the directory hides what the sidecar holds inline.
OverlayContent(inline, found) == found ++ inline

OverlayAt(tree, path, t) ==
    LET file == OverlayFile(tree, path, t)
        dir == OverlayFiles(tree, path, t)
        value == IF IsFile(tree, file) THEN ValueAt(tree, file) ELSE NoOverlay
        content == OverlayContent(value.files, ContentOf(tree, dir, Files(tree, dir)))
    IN  [target |-> t, frontmatterPatch |-> value.frontmatterPatch, bodyPatch |-> value.bodyPatch,
         files |-> SetToSeq({[path |-> f, content |-> content[f]] : f \in DOMAIN content}),
         deletedFiles |-> value.deletedFiles, acknowledgments |-> value.acknowledgments]

-----------------------------------------------------------------------------
(* Assets and packages *)

AssetImports(tree, path) ==
    /\ ValidPath(path) /\ Classifies(path) /\ ValidIdentifier(NameAt(path))
    /\ FilesReadable(tree, path) /\ MainFits(tree, path)
    /\ MetadataFits(tree, path) /\ OverlaysFit(tree, path)
    /\ Verbatim(path) => "asset.native-resource" \in DeclaredUses(tree, path)

HookAt(tree, path) ==
    LET h == ValueAt(tree, MainFile(path)) IN
    [identity |-> IdentityAt(path), event |-> h.event, matcher |-> h.matcher, handler |-> h.handler,
     timeout |-> h.timeout, order |-> h.order, failurePolicy |-> h.failurePolicy, asynchronous |-> h.asynchronous]

AssetAt(tree, path, targets) ==
    LET id == IdentityAt(path)
        content == AssetContent(tree, path)
    IN  [identity |-> id, kind |-> KindAt(path), targets |-> targets, base |-> content,
         hook |-> IF KindAt(path) # "hook" THEN {} ELSE {HookAt(tree, path)},
         command |-> IF KindAt(path) # "command" THEN {}
                     ELSE {[identity |-> id, name |-> id[2], description |-> content.frontmatter[DescriptionKey]]},
         native |-> NativeOptions(tree, path),
         uses |-> SetToSeq(Uses(tree, path)),
         overlays |-> SetToSeq({OverlayAt(tree, path, t) : t \in OverlayTargets(tree, path)})]

\* Mutant: what overlays hold is not recorded.
AssetInputs_Base(tree, path) ==
    {file \in {MainFile(path), MetadataPath(tree, path)} : KindAt(path) # "resource" \/ file # path}
    \cup {path \o rel : rel \in SupportFiles(tree, path)}
\* Everything that is read for an asset.
AssetInputs(tree, path) ==
    {file \in {MainFile(path), MetadataPath(tree, path)} : KindAt(path) # "resource" \/ file # path}
    \cup {path \o rel : rel \in SupportFiles(tree, path)}
    \cup {OverlayFile(tree, path, t) : t \in OverlayTargets(tree, path)}
    \cup UNION {{OverlayFiles(tree, path, t) \o rel : rel \in Files(tree, OverlayFiles(tree, path, t))} :
                   t \in OverlayTargets(tree, path)}

PackageFileFits(tree, file) ==
    /\ Decodes(tree, file, "package")
    /\ LET value == ValueAt(tree, file)
           paths == [i \in DOMAIN value.assets |-> value.assets[i].path]
       IN  /\ ValidIdentifier(value.id)
           /\ Distinct(paths)
           /\ \A e \in ToSet(value.assets) :
                 AssetImports(tree, e.path) /\ (Verbatim(e.path) => e.targets = <<"antigravity">>)
           /\ Distinct([i \in DOMAIN paths |-> IdentityAt(paths[i])])

PackageAt(tree, file) ==
    LET value == ValueAt(tree, file) IN
    [identity |-> value.id, metadata |-> value.metadata, uses |-> <<>>,
     assets |-> [i \in DOMAIN value.assets |-> AssetAt(tree, value.assets[i].path, value.assets[i].targets)]]

\* A native resource is a gap on its own target, and left out on any other.
GapsAt(tree, file) ==
    LET value == ValueAt(tree, file) IN
    {[package |-> value.id, component |-> NameAt(e.path), asset |-> {IdentityAt(e.path)}, target |-> {NativeTarget(e.path)}] :
        e \in {a \in ToSet(value.assets) : KindAt(a.path) = "native-resource"}}

InputsAt(tree, file) ==
    {file} \cup UNION {AssetInputs(tree, e.path) : e \in ToSet(ValueAt(tree, file).assets)}

-----------------------------------------------------------------------------
(* Import *)

Inventory(tree, files) ==
    LET read == UNION {InputsAt(tree, f) : f \in ToSet(files)} IN
    [packages |-> [i \in DOMAIN files |-> PackageAt(tree, files[i])],
     gaps |-> SetToSeq(UNION {GapsAt(tree, f) : f \in ToSet(files)}),
     inputs |-> {[path |-> p, data |-> tree[p].data] : p \in {q \in read : IsFile(tree, q)}}]

Imports(m, tree) ==
    /\ ValidSourceManifest(m)
    /\ IsDir(tree, <<>>)
    /\ \A f \in ToSet(m.packages) : PackageFileFits(tree, f)
    /\ Distinct([i \in DOMAIN m.packages |-> ValueAt(tree, m.packages[i]).id])
    /\ ValidSourceInventory(Inventory(tree, m.packages))
=============================================================================
