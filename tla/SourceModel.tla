---------------------------- MODULE SourceModel ----------------------------
(***************************************************************************)
(* The source model: what a manifest, an inventory, a composed package and *)
(* a plan must be before anybody acts on them.  Everything that may be     *)
(* declared twice is a sequence, since declaring it twice is an error; the *)
(* files of an asset are a function of their paths.                        *)
(*                                                                         *)
(* An optional value is a set with at most one element, an asset identity  *)
(* a pair of kind and name, a path the sequence of its segments.  Names,   *)
(* keys and texts are atoms, and constants tell which of them the program  *)
(* refuses.  Frontmatter is the function from the key paths of an object   *)
(* to the values there.  Source locations, environment names, digests and  *)
(* the well-formedness of JSON are left out, and so is Agent Plugin data.  *)
(***************************************************************************)
EXTENDS Integers, SequencesExt

CONSTANTS
    BadNames,       \* names that are no identifiers
    BadSegments,    \* segments that no relative path may have
    Blank,          \* texts that are empty when trimmed
    Kebab,          \* names in kebab case
    Scripts,        \* names of TypeScript and JavaScript files
    Null            \* the JSON null of a frontmatter patch

Targets == {"antigravity", "claude", "codex", "pi", "copilot", "grok", "cursor", "agent-plugins"}
Kinds == {"skill", "agent", "hook", "command", "resource", "native-resource"}
States == {"native", "equivalent", "advisory", "unsupported"}
GapActions == {"replace", "exclude", "source-only"}
Events == {"session-start", "session-end", "prompt-submit", "pre-tool", "post-tool",
           "post-tool-failure", "stop", "notification", "pre-compact", "post-compact"}
ToolEvents == {"pre-tool", "post-tool", "post-tool-failure"}
AsyncEvents == {"session-end", "post-tool", "post-tool-failure", "notification", "pre-compact", "post-compact"}
ToolCategories == {"command", "read", "write", "edit", "search", "web", "task", "mcp", "other"}
MaxHookTimeoutMilliseconds == 600000

ValidPath(path) == path # <<>> /\ ToSet(path) \cap BadSegments = {}
ValidIdentifier(name) == name \notin BadNames
ValidAssetID(id) == id[1] \in Kinds /\ ValidIdentifier(id[2])

\* No two elements of a sequence have the same value of a field.
Distinct(values) == IsInjective(values)

\* The elements of a sequence that are in a set, in their order.
Pick(s, T) ==
    LET picked[n \in 0..Len(s)] ==
            IF n = 0 THEN <<>>
            ELSE IF s[n] \in T THEN Append(picked[n - 1], s[n]) ELSE picked[n - 1]
    IN  picked[Len(s)]

\* A map with one key, and what two maps hold, the first where both do.
At(key, value) == [k \in {key} |-> value]
f ++ g == [x \in DOMAIN f \cup DOMAIN g |-> IF x \in DOMAIN f THEN f[x] ELSE g[x]]

-----------------------------------------------------------------------------
(* Assets *)

ValidCapabilityUses(uses) == Distinct(uses) /\ \A i \in DOMAIN uses : ValidIdentifier(uses[i])

ValidAssetIdentity(id, kind) == ValidAssetID(id) /\ kind \in Kinds /\ id[1] = kind

ValidContent(content) == \A path \in DOMAIN content.files : ValidPath(path)

ValidArgument(arg, files) ==
    \/ arg.packageFile = {} /\ arg.literal # {}
    \/ arg.literal = {} /\ \E p \in arg.packageFile : ValidPath(p) /\ p \in DOMAIN files

ValidHookCommand(handler, files) ==
    /\ \/ /\ handler.mode = "exec"
          /\ \E p \in handler.program : p \notin BadNames
          /\ handler.shellCommand = {}
       \/ /\ handler.mode = "shell"
          /\ \E s \in handler.shellCommand : s \notin Blank
          /\ handler.program = {} /\ handler.arguments = <<>>
    /\ \A i \in DOMAIN handler.arguments : ValidArgument(handler.arguments[i], files)

ValidMatcher(hook) ==
    \A tools \in hook.matcher :
        /\ hook.event \in ToolEvents
        /\ tools # <<>> /\ ToSet(tools) \subseteq ToolCategories /\ Distinct(tools)

ValidHook(id, hook, content, uses) ==
    /\ hook.identity = id
    /\ hook.event \in Events
    /\ ValidMatcher(hook)
    /\ ValidHookCommand(hook.handler, content.files)
    /\ hook.timeout \in 1..MaxHookTimeoutMilliseconds
    /\ hook.order >= 0
    /\ hook.failurePolicy \in {"open", "closed"}
    /\ hook.asynchronous =>
          /\ hook.event \in AsyncEvents /\ hook.failurePolicy = "open"
          /\ {"hook.decision.block", "hook.decision.rewrite-input"} \cap ToSet(uses) = {}

ValidHookAsset(a, content) ==
    IF a.kind = "hook" THEN \E h \in a.hook : ValidHook(a.identity, h, content, a.uses)
                       ELSE a.hook = {}

DescriptionKey == <<"description">>
ValidCommand(id, command, content, uses) ==
    /\ command.identity = id /\ command.name = id[2] /\ command.name \in Kebab
    /\ DescriptionKey \in DOMAIN content.frontmatter
    /\ content.frontmatter[DescriptionKey] \notin Blank
    /\ command.description = content.frontmatter[DescriptionKey]
    /\ "asset.command" \in ToSet(uses)

ValidCommandAsset(a, content) ==
    IF a.kind = "command" THEN \E c \in a.command : ValidCommand(a.identity, c, content, a.uses)
                          ELSE a.command = {}

\* A Pi extension is a script below extensions/.
ScriptFile(path) == Len(path) > 1 /\ path[1] = "extensions" /\ Last(path) \in Scripts
ValidNativeOptions(a) ==
    \A o \in a.native :
        /\ a.kind = "native-resource"
        /\ Distinct(o.piExtensions)
        /\ \A i \in DOMAIN o.piExtensions : ValidPath(o.piExtensions[i]) /\ ScriptFile(o.piExtensions[i])

-----------------------------------------------------------------------------
(* Overlays *)

ValidBodyPatch(patch) ==
    \/ patch.mode = "replace" /\ patch.text # {} /\ patch.sections = <<>>
    \/ /\ patch.mode = "sections" /\ patch.text = {} /\ patch.sections # <<>>
       /\ \A i \in DOMAIN patch.sections :
             LET path == patch.sections[i].path IN path # <<>> /\ ToSet(path) \cap Blank = {}
       /\ Distinct([i \in DOMAIN patch.sections |-> patch.sections[i].path])

ValidAcknowledgment(ack) ==
    /\ ValidAssetID(ack.asset) /\ ack.target \in Targets
    /\ ValidIdentifier(ack.key) /\ ack.reason \notin Blank

HookPackageFiles(hook) ==
    UNION {UNION {h.handler.arguments[i].packageFile : i \in DOMAIN h.handler.arguments} : h \in hook}

ValidOverlay(a, overlay) ==
    LET paths == [i \in DOMAIN overlay.files |-> overlay.files[i].path] IN
    /\ overlay.target \in Targets
    /\ \A p \in overlay.bodyPatch : ValidBodyPatch(p)
    /\ Distinct(paths) /\ \A i \in DOMAIN paths : ValidPath(paths[i])
    /\ Distinct(overlay.deletedFiles)
    /\ \A i \in DOMAIN overlay.deletedFiles :
          /\ ValidPath(overlay.deletedFiles[i])
          /\ overlay.deletedFiles[i] \notin ToSet(paths) \cup HookPackageFiles(a.hook)
    /\ \A i \in DOMAIN overlay.acknowledgments :
          LET ack == overlay.acknowledgments[i] IN
          ValidAcknowledgment(ack) /\ ack.asset = a.identity /\ ack.target = overlay.target

ValidSourceAsset(a) ==
    /\ ValidAssetIdentity(a.identity, a.kind)
    /\ ValidContent(a.base)
    /\ ValidHookAsset(a, a.base) /\ ValidCommandAsset(a, a.base) /\ ValidNativeOptions(a)
    /\ ToSet(a.targets) \subseteq Targets /\ Distinct(a.targets)
    /\ ValidCapabilityUses(a.uses)
    /\ Distinct([i \in DOMAIN a.overlays |-> a.overlays[i].target])
    /\ \A i \in DOMAIN a.overlays : ValidOverlay(a, a.overlays[i])

-----------------------------------------------------------------------------
(* Inventories *)

ValidSourcePackage(p) ==
    /\ ValidIdentifier(p.identity)
    /\ ValidCapabilityUses(p.uses)
    /\ \A i \in DOMAIN p.assets : ValidSourceAsset(p.assets[i])
    /\ Distinct([i \in DOMAIN p.assets |-> p.assets[i].identity])

ValidNativeGap(gap) ==
    ValidIdentifier(gap.package) /\ gap.component \notin Blank /\ gap.target \subseteq Targets

AssetIDs(p) == {a.identity : a \in ToSet(p.assets)}

ValidSourceInventory(inv) ==
    /\ \A i \in DOMAIN inv.packages : ValidSourcePackage(inv.packages[i])
    /\ Distinct([i \in DOMAIN inv.packages |-> inv.packages[i].identity])
    /\ \A g \in ToSet(inv.gaps) :
          /\ ValidNativeGap(g)
          /\ \E p \in ToSet(inv.packages) : p.identity = g.package /\ g.asset \subseteq AssetIDs(p)
    /\ \A i, j \in inv.inputs : ValidPath(i.path) /\ (i.path = j.path => i = j)

-----------------------------------------------------------------------------
(* Manifests *)

ValidAggregate(aggregate) == ValidIdentifier(aggregate.identity)

ValidPackageMode(c) ==
    \/ c.mode \in {"", "separate"} /\ c.aggregate = {}
    \/ /\ c.mode = "aggregate" /\ c.target = "pi" /\ c.profile = "package"
       /\ \E a \in c.aggregate : ValidAggregate(a)

ValidGapPolicy(policy) ==
    /\ policy.component \notin Blank /\ policy.action \in GapActions
    /\ IF policy.action = "replace" THEN \E id \in policy.replacement : ValidAssetID(id)
                                    ELSE policy.replacement = {}

ValidTargetComposition(c) ==
    /\ c.profile \in {"", "project", "package"} /\ c.target \in Targets
    /\ ValidPackageMode(c)
    /\ \A i \in DOMAIN c.rules : ValidIdentifier(c.rules[i].key) /\ c.rules[i].state \in States
    /\ Distinct([i \in DOMAIN c.rules |-> c.rules[i].key])
    /\ \A i \in DOMAIN c.policies : ValidGapPolicy(c.policies[i])
    /\ Distinct([i \in DOMAIN c.policies |-> c.policies[i].component])

\* The targets whose marketplace or registration a repository root can hold:
\* marketplaces need packages and a distribution, and two of them one file.
ValidRootManifests(m) ==
    \A roots \in m.rootManifests :
        /\ roots # <<>> /\ Distinct(roots)
        /\ ToSet(roots) \subseteq ToSet(m.targets) \cap {"claude", "codex", "copilot", "cursor", "grok", "pi"}
        /\ \A t \in ToSet(roots) :
              /\ \E c \in ToSet(m.composition) :
                    c.target = t /\ c.profile = "package" /\ (t = "pi" \/ c.mode \in {"", "separate"})
              /\ t # "pi" => m.distribution # {}
        /\ ~({"claude", "grok"} \subseteq ToSet(roots))

ValidBundleConfig(packages) ==
    packages # <<>> /\ Distinct(packages) /\ \A i \in DOMAIN packages : ValidPath(packages[i])

\* A bundle manifest (other kinds of source are not modelled).
ValidSourceManifest(m) ==
    /\ m.version \in {0, 1} /\ ValidPath(m.root) /\ ValidPath(m.output)
    /\ m.targets # <<>> /\ ToSet(m.targets) \subseteq Targets /\ Distinct(m.targets)
    /\ \A i \in DOMAIN m.composition : ValidTargetComposition(m.composition[i])
    /\ Distinct([i \in DOMAIN m.composition |-> m.composition[i].target])
    /\ \A c \in ToSet(m.composition) : c.target \in ToSet(m.targets)
    /\ ValidRootManifests(m)
    /\ ValidBundleConfig(m.packages)

-----------------------------------------------------------------------------
(* Composed packages and what a renderer is given *)

ValidNormalizedAsset(a) ==
    /\ ValidAssetIdentity(a.identity, a.kind) /\ ValidContent(a.content)
    /\ ValidHookAsset(a, a.content) /\ ValidCommandAsset(a, a.content)
    /\ ValidNativeOptions(a) /\ ValidCapabilityUses(a.uses)

\* Assets and acknowledgments are the sets that their sorted lists hold.
ValidNormalizedPackage(p) ==
    /\ ValidIdentifier(p.identity) /\ p.target \in Targets /\ p.profile \in {"", "project", "package"}
    /\ ValidCapabilityUses(p.uses)
    /\ \A a \in p.assets : ValidNormalizedAsset(a)
    /\ \A a, b \in p.assets : a.identity = b.identity => a = b
    /\ \A ack \in p.acknowledgments :
          /\ ValidAcknowledgment(ack) /\ ack.target = p.target
          /\ \E a \in p.assets : a.identity = ack.asset

\* No two of an aggregate's dependency maps give a name two versions.
Dependencies(metadata) == IF "dependencies" \in DOMAIN metadata THEN metadata["dependencies"] ELSE <<>>
AgreeOnDependencies(maps) ==
    /\ \A d \in maps : \A n \in DOMAIN d : n \notin Blank /\ d[n] \notin Blank
    /\ \A d, e \in maps : \A n \in DOMAIN d \cap DOMAIN e : d[n] = e[n]

ValidTargetRenderInput(in) ==
    /\ in.packages # {}
    /\ \A p \in in.packages : ValidNormalizedPackage(p)
    /\ \A p, q \in in.packages : p.target = q.target /\ (p.identity = q.identity => p = q)
    /\ \/ in.mode = "separate" /\ in.aggregate = {}
       \/ /\ in.mode = "aggregate"
          /\ \A p \in in.packages : p.target = "pi" /\ p.profile = "package"
          /\ \E a \in in.aggregate :
                ValidAggregate(a) /\ AgreeOnDependencies({Dependencies(m) : m \in {a.metadata} \cup {p.metadata : p \in in.packages}})

-----------------------------------------------------------------------------
(* Plans *)

\* A unit holds the files below its root, "." is all of them.
UnitContains(root, path) == root = <<>> \/ IsStrictPrefix(root, path)

\* A plan's files are a function of their paths.  Every file of a target is in
\* exactly one unit, and no unit is empty.
CoveredOnce(plan) ==
    plan.units # {} =>
        /\ \A f \in DOMAIN plan.files : \E u \in plan.units :
              UnitContains(u.root, f) /\ \A w \in plan.units \ {u} : ~UnitContains(w.root, f)
        /\ \A u \in plan.units : \E f \in DOMAIN plan.files : UnitContains(u.root, f)

ValidBuildPlan(plans, compilerFiles) ==
    /\ \A p \in plans :
          /\ p.target \in Targets
          /\ \A id \in p.packages : ValidIdentifier(id)
          /\ \A f \in DOMAIN p.files : ValidPath(f)
          /\ CoveredOnce(p)
    /\ \A p, q \in plans : p.target = q.target => p = q
    /\ \A p, q \in plans : \A u \in p.units, w \in q.units :
          u.stem = w.stem /\ u.suffix = w.suffix => p = q /\ u = w
    /\ \A f \in compilerFiles :
          ValidPath(f) /\ \A p \in plans : \A g \in DOMAIN p.files : f # <<p.target>> \o g
=============================================================================
