---------------------------- MODULE Compilation ----------------------------
(***************************************************************************)
(* A compilation, from the manifest to the plan: the source is imported,   *)
(* composed for each selected target under that target's capabilities and  *)
(* rendered, and what it read is recorded.  Every target is tried, but one *)
(* diagnostic anywhere and there is no plan.                               *)
(*                                                                         *)
(* The layout guard is WorkspaceLayout's, the writing of the plan          *)
(* OutputJournal's and PinnedOutput's, its comparison with the output      *)
(* GeneratedOutput's; of the repository root's files only what makes a     *)
(* plan unfit for them is here, for a root that has none yet.              *)
(***************************************************************************)
EXTENDS BundleSource, Rendering

CONSTANTS
    Requests,       \* [manifest, tree, targets, packages] by family and case
    TargetOrder     \* the targets in their order

ASSUME TargetOrderAssumption == TargetOrder \in Seq(DOMAIN Codecs)

-----------------------------------------------------------------------------
(* What the walk of a tree and the decoders return, whatever is in the files *)

IsSequence(s) == s \in Seq(ToSet(s))
IsOptional(S) == \A x, y \in S : x = y

\* Lines that end, but for the last one.
IsText(lines) == IsSequence(lines) /\ \A n \in 1..(Len(lines) - 1) : lines[n].ended

WellFormedPackage(value) ==
    /\ IsSequence(value.assets)
    /\ \A e \in ToSet(value.assets) :
          /\ IsSequence(e.path)
          /\ Classifies(e.path) /\ KindAt(e.path) = "hook" => NameAt(e.path) \in DOMAIN NameOrder

WellFormedAsset(value) ==
    IsFiniteSet(value.capabilities) /\ \A uses \in value.capabilities : IsSequence(uses)

WellFormedOverlay(value) ==
    /\ IsFiniteSet(DOMAIN value.files) /\ \A f \in DOMAIN value.files : IsSequence(f)
    /\ IsOptional(value.bodyPatch)
    /\ \A patch \in value.bodyPatch : \A i \in DOMAIN patch.sections :
          IsSequence(patch.sections[i].path) /\ IsText(patch.sections[i].body)

WellFormedHook(value) ==
    /\ value.order \in Int /\ value.asynchronous \in BOOLEAN
    /\ \A tools \in value.matcher : IsSequence(tools)
    /\ \A i \in DOMAIN value.handler.arguments : IsOptional(value.handler.arguments[i].packageFile)

WellFormedDocument(value) ==
    /\ IsText(value.body)
    /\ \A line \in ToSet(value.body) : line.kind = "heading" => line.level \in Nat \ {0}

WellFormedData(data) ==
    CASE data.form = "package" -> WellFormedPackage(data.value)
      [] data.form = "asset" -> WellFormedAsset(data.value)
      [] data.form = "overlay" -> WellFormedOverlay(data.value)
      [] data.form = "hook" -> WellFormedHook(data.value)
      [] data.form = "markdown" -> WellFormedDocument(data.value)
      [] OTHER -> TRUE

\* Whatever has something below it is a directory.
WellFormedTree(nodes) ==
    /\ IsFiniteSet(DOMAIN nodes)
    /\ \A p \in DOMAIN nodes : IsSequence(p) /\ (nodes[p].kind = "file" => WellFormedData(nodes[p].data))
    /\ \A p, q \in DOMAIN nodes : IsStrictPrefix(p, q) => nodes[p].kind = "directory"

WellFormedPolicy(c) ==
    /\ DOMAIN c = {"target", "profile", "mode", "aggregate", "preamble", "rules", "policies"}
    /\ IsSequence(c.rules) /\ \A lines \in c.preamble : IsText(lines)
    /\ \A a \in c.aggregate : DOMAIN a = {"identity", "metadata"}

WellFormedManifest(m) ==
    /\ IsSequence(m.packages) /\ IsOptional(m.distribution)
    /\ \A c \in ToSet(m.composition) : WellFormedPolicy(c)

WellFormed(r) == WellFormedManifest(r.manifest) /\ WellFormedTree(r.tree)

ASSUME RequestsAssumption == \A f \in DOMAIN Requests : \A c \in DOMAIN Requests[f] : WellFormed(Requests[f][c])

-----------------------------------------------------------------------------

VARIABLES
    request,    \* what is compiled
    pc,         \* the step that comes next, "planned" or "refused"
    inventory,  \* what was imported and selected, if anything
    todo,       \* targets that are still to be rendered
    plans,      \* plans of targets
    failed,     \* a target has none
    plan        \* the finished plan, if any

vars == <<request, pc, inventory, todo, plans, failed, plan>>

manifest == request.manifest
tree == request.tree

-----------------------------------------------------------------------------
(* Selection *)

SelectionFits ==
    /\ Distinct(request.targets) /\ ToSet(request.targets) \subseteq ToSet(manifest.targets)
    /\ manifest.rootManifests # {} => request.packages = <<>>
SelectedTargets == IF request.targets = <<>> THEN ToSet(manifest.targets) ELSE ToSet(request.targets)

PackagesFit(inv) ==
    Distinct(request.packages) /\ ToSet(request.packages) \subseteq {p.identity : p \in ToSet(inv.packages)}

\* The inputs stay those of the whole source.
SelectPackagesOf(inv) ==
    IF request.packages = <<>> THEN inv
    ELSE [inv EXCEPT !.packages = Pick(@, {p \in ToSet(@) : p.identity \in ToSet(request.packages)}),
                     !.gaps = Pick(@, {g \in ToSet(@) : g.package \in ToSet(request.packages)})]

-----------------------------------------------------------------------------
(* The composition of a target *)

PolicyOf(t) == {c \in ToSet(manifest.composition) : c.target = t}

\* A manifest may narrow what a target can do, and nothing else.
RuleFits(t, rule) ==
    \E r \in ToSet(Capabilities(Codecs[t])) :
        /\ r.key = rule.key
        /\ CASE r.state = "unsupported" -> rule.state = "unsupported"
             [] r.state = "advisory" -> rule.state \notin {"native", "equivalent"}
             [] OTHER -> rule.state \in {r.state, "advisory", "unsupported"}

RulesFit(t) == \A c \in PolicyOf(t) : \A rule \in ToSet(c.rules) : RuleFits(t, rule)

MergedRules(t, rules) ==
    LET all == Capabilities(Codecs[t]) IN
    rules \o Pick(all, {r \in ToSet(all) : r.key \notin {s.key : s \in ToSet(rules)}})

CompositionFor(t) ==
    IF PolicyOf(t) = {}
    THEN [target |-> t, profile |-> "", mode |-> "", aggregate |-> {}, preamble |-> {},
          rules |-> Capabilities(Codecs[t]), policies |-> <<>>]
    ELSE LET c == CHOOSE x \in PolicyOf(t) : TRUE IN [c EXCEPT !.rules = MergedRules(t, @)]

\* A distribution's version is that of every package in it.
Released == {d["version"] : d \in {e \in manifest.distribution : "version" \in DOMAIN e /\ e["version"] # ""}}
WithVersion(metadata) == IF Released = {} THEN metadata ELSE At("version", CHOOSE v \in Released : TRUE) ++ metadata

\* Mutant: packages keep the version that they have themselves.
RenderInput_OwnVersion(t, packages) ==
    LET c == CompositionFor(t) IN
    [packages |-> packages, mode |-> IF c.mode = "" THEN "separate" ELSE c.mode,
     aggregate |-> {[a EXCEPT !.metadata = WithVersion(@)] : a \in c.aggregate},
     distribution |-> manifest.distribution]
RenderInput(t, packages) ==
    LET c == CompositionFor(t) IN
    [packages |-> {[p EXCEPT !.metadata = WithVersion(@)] : p \in packages},
     mode |-> IF c.mode = "" THEN "separate" ELSE c.mode,
     aggregate |-> {[a EXCEPT !.metadata = WithVersion(@)] : a \in c.aggregate},
     distribution |-> manifest.distribution]

\* The plan of a target for an inventory, if it has one.
PlanFor(t, inv) ==
    IF ~RulesFit(t) \/ ~Composes(inv, CompositionFor(t)) THEN {}
    ELSE LET in == RenderInput(t, Compose(inv, CompositionFor(t))) IN
         IF RenderFits(t, in) THEN {Render(t, in)} ELSE {}

-----------------------------------------------------------------------------
(* Provenance and the repository root *)

ProvenancePath == <<".agentbundler", "build.json">>

\* Acknowledgments are recorded for a target, shipped or not.
Acknowledged(inv, targets) ==
    UNION {UNION {UNION {AcknowledgmentsFor(a, t) : a \in ToSet(p.assets)} : p \in ToSet(inv.packages)} : t \in targets}

Provenance(inv, targets) == [inputs |-> inv.inputs, acknowledgments |-> Acknowledged(inv, targets), targets |-> targets]

PlansOf(targets) == {plans[t] : t \in targets}
ProvenanceFits ==
    /\ ValidBuildPlan(PlansOf(DOMAIN plans), {})
    /\ \A t \in DOMAIN plans : ProvenancePath \notin DOMAIN plans[t].files

\* A marketplace at the root needs the catalog of its target and the manifests
\* that the catalog leads to, a registration the manifests of the packages.
ManifestAt(t, root) == root \o Codecs[t].manifest
MarketplaceFits(t) ==
    \E path \in Codecs[t].catalog \cap DOMAIN plans[t].files :
        /\ plans[t].files[path].value # {}
        /\ \A e \in plans[t].files[path].value : ManifestAt(t, e.source) \in DOMAIN plans[t].files
RegistrationFits ==
    \/ ManifestAt("pi", <<>>) \in DOMAIN plans["pi"].files
    \/ \A id \in plans["pi"].packages : ManifestAt("pi", <<id>>) \in DOMAIN plans["pi"].files

RootFits ==
    \A roots \in manifest.rootManifests : \A t \in ToSet(roots) :
        /\ t \in DOMAIN plans
        /\ IF t = "pi" THEN RegistrationFits ELSE MarketplaceFits(t)

-----------------------------------------------------------------------------
(* Compile *)

Init ==
    /\ \E f \in DOMAIN Requests : \E c \in DOMAIN Requests[f] : request = Requests[f][c]
    /\ pc = "validate" /\ inventory = {} /\ todo = <<>>
    /\ plans = <<>> /\ failed = FALSE /\ plan = {}

Go(from, fits, to) == pc = from /\ pc' = IF fits THEN to ELSE "refused"

Validate ==
    /\ Go("validate", ValidSourceManifest(manifest), "targets")
    /\ UNCHANGED <<request, inventory, todo, plans, failed, plan>>

SelectTargets ==
    /\ Go("targets", SelectionFits, "import")
    /\ todo' = Pick(TargetOrder, SelectedTargets)
    /\ UNCHANGED <<request, inventory, plans, failed, plan>>

Import ==
    /\ Go("import", Imports(manifest, tree), "packages")
    /\ inventory' = IF Imports(manifest, tree) THEN {Inventory(tree, manifest.packages)} ELSE {}
    /\ UNCHANGED <<request, todo, plans, failed, plan>>

SelectPackages ==
    \E inv \in inventory :
        /\ Go("packages", PackagesFit(inv), "render")
        /\ inventory' = {SelectPackagesOf(inv)}
        /\ UNCHANGED <<request, todo, plans, failed, plan>>

RenderTarget ==
    /\ pc = "render" /\ todo # <<>>
    /\ \E inv \in inventory :
          LET rendered == PlanFor(Head(todo), inv) IN
          /\ plans' = [t \in {Head(todo)} \cap {p.target : p \in rendered} |-> CHOOSE p \in rendered : TRUE] ++ plans
          /\ failed' = (failed \/ rendered = {})
    /\ todo' = Tail(todo)
    /\ UNCHANGED <<request, pc, inventory, plan>>

Finish ==
    /\ todo = <<>>
    /\ Go("render", ~failed /\ ProvenanceFits /\ RootFits, "planned")
    /\ plan' = {[targets |-> plans, provenance |-> Provenance(inv, DOMAIN plans)] :
                  inv \in {i \in inventory : pc' = "planned"}}
    /\ UNCHANGED <<request, inventory, todo, plans, failed>>

Stop == pc \in {"planned", "refused"} /\ UNCHANGED vars

Next == Validate \/ SelectTargets \/ Import \/ SelectPackages \/ RenderTarget \/ Finish \/ Stop

Spec == Init /\ [][Next]_vars

-----------------------------------------------------------------------------
(* What a plan must have, said of the tree *)

Chosen == {f \in ToSet(manifest.packages) : request.packages = <<>> \/ ValueAt(tree, f).id \in ToSet(request.packages)}
Takes(t, e) == e.targets = <<>> \/ t \in ToSet(e.targets)

\* A native resource is its own target's, and there Antigravity takes it as it
\* is and Pi loads the extensions that it lists; any other is left out, under
\* a policy that says so.
Kept(t, e) ==
    NativePath(e.path) =>
        /\ NativeTarget(e.path) = t
        /\ CASE t = "pi" -> \E o \in NativeOptions(tree, e.path) : o.piExtensions # <<>>
             [] t = "antigravity" -> NativeOptions(tree, e.path) = {}
             [] OTHER -> FALSE

\* The asset entries that a target gets, of one package and of all.
EntriesOf(t, f) == {e \in ToSet(ValueAt(tree, f).assets) : Takes(t, e) /\ Kept(t, e)}
AllEntries(t) == UNION {EntriesOf(t, f) : f \in Chosen}
HookEntriesOf(t, f) == {e \in EntriesOf(t, f) : KindAt(e.path) = "hook"}

Aggregated(t) == CompositionFor(t).mode = "aggregate"
RootOf(t, f) == IF Aggregated(t) \/ Cardinality(Chosen) = 1 THEN <<>> ELSE <<ValueAt(tree, f).id>>

OverlayValue(t, e) ==
    IF IsFile(tree, OverlayFile(tree, e.path, t)) THEN ValueAt(tree, OverlayFile(tree, e.path, t)) ELSE NoOverlay
Brought(t, e) == Files(tree, OverlayFiles(tree, e.path, t))
BroughtData(t, e) == {tree[OverlayFiles(tree, e.path, t) \o rel].data : rel \in Brought(t, e)}

\* Files of an author's, which no tool left there and no format names.
AuthoredFiles(e) ==
    {rel \in Files(tree, e.path) : rel[1] # ".agentbundler"
        /\ (Verbatim(e.path) \/ (Last(rel) \notin IgnoredFiles /\ ToSet(Front(rel)) \cap IgnoredDirs = {}))
        /\ rel \notin {<<"SKILL.md">>, <<"hook.json">>}}

PayloadsOf(t) == {c.value : c \in {plans[t].files[p] : p \in {q \in DOMAIN plans[t].files : plans[t].files[q].form = "payload"}}}

Planned == plan # {}

\* Nothing an author wrote is lost on the way: for every target of a plan,
\* each file of an asset that the target takes is in it, unless the target's
\* overlay deletes or replaces it, and so is each file of that overlay
\* (readSupportFiles, applyOverlay, renderAsset).  Agents are another matter,
\* no renderer looks at their files.
NothingIsLost ==
    Planned => \A t \in DOMAIN plans : \A e \in {x \in AllEntries(t) : KindAt(x.path) # "agent"} :
        LET overlay == OverlayValue(t, e)
            changed == DOMAIN overlay.files \cup ToSet(overlay.deletedFiles) \cup Brought(t, e)
        IN  {tree[e.path \o rel].data : rel \in AuthoredFiles(e) \ changed} \cup BroughtData(t, e) \subseteq PayloadsOf(t)

\* What is for other targets stays out: every payload in a target's plan is a
\* file of an asset that the target takes, or of its own overlay of one
\* (assetSelectedForTarget, resolveNativeGaps, overlayForTarget).
OthersStayOut ==
    Planned => \A t \in DOMAIN plans :
        PayloadsOf(t) \subseteq UNION {
            {tree[e.path \o rel].data : rel \in Files(tree, e.path) \cup {x \in {<<>>} : IsFile(tree, e.path)}}
            \cup BroughtData(t, e)
            \cup {OverlayValue(t, e).files[f] : f \in DOMAIN OverlayValue(t, e).files} : e \in AllEntries(t)}

\* Whatever an asset relies on, as its sidecar or its hook says, the target
\* has it, or an author acknowledged in writing that it is only advised, and
\* the provenance keeps that; no rule of a manifest makes up for what the
\* vendor cannot do (compositionPolicy, validateCapabilities).
LossIsAcknowledged ==
    \A done \in plan : \A t \in DOMAIN plans : \A e \in AllEntries(t) :
        LET needs == DeclaredUses(tree, e.path)
                     \cup (IF KindAt(e.path) = "hook" THEN HookUses(ValueAt(tree, MainFile(e.path))) ELSE {})
            agreed == {ack \in ToSet(OverlayValue(t, e).acknowledgments) \cap done.provenance.acknowledgments :
                          ack.asset = IdentityAt(e.path) /\ ack.target = t /\ ack.reason \notin Blank}
        IN  \A key \in needs :
              /\ StateIn(Codecs[t], key) # "unsupported"
              /\ "advisory" \in RuleFor(CompositionFor(t), key) \cup {StateIn(Codecs[t], key)} =>
                    \E ack \in agreed : ack.key = key

Precedes(e, d) ==
    LET a == ValueAt(tree, MainFile(e.path)).order
        b == ValueAt(tree, MainFile(d.path)).order
    IN  a < b \/ (a = b /\ NameOrder[NameAt(e.path)] < NameOrder[NameAt(d.path)])

\* What a vendor is told of a hook is what its author declared.
SaysWhatIsDeclared(entry, h) ==
    /\ entry.event = h.event /\ entry.timeout = h.timeout /\ entry.async = h.asynchronous
    /\ entry.tools = {} <=> h.matcher = {}
    /\ h.failurePolicy = "closed" => entry.closed \/ entry.start = "wrapped"

\* The hooks of a package run as they were declared: its manifest, where the
\* vendor looks for it, registers every hook that the target takes once, for
\* its event and tools, with its timeout, and what has to fail closed in a
\* way that can; they are in the declared order, and every file that a hook
\* names is in the package (SortHookDescriptors, renderHookPayloads, the
\* codecs' validatePackage and hookManifest).
HookManifestIsExact ==
    Planned => \A t \in DOMAIN plans : \A f \in Chosen :
        LET own == IF Aggregated(t) THEN UNION {HookEntriesOf(t, g) : g \in Chosen} ELSE HookEntriesOf(t, f)
            path == RootOf(t, f) \o Codecs[t].hooks
            hooks == plans[t].files[path].value
            entry(i) == CHOOSE e \in own : IdentityAt(e.path) = hooks[i].hook
        IN  own # {} =>
              /\ path \in DOMAIN plans[t].files
              /\ {hooks[i].hook : i \in DOMAIN hooks} = {IdentityAt(e.path) : e \in own}
              /\ Len(hooks) = Cardinality(own)
              /\ \A i \in DOMAIN hooks :
                    /\ SaysWhatIsDeclared(hooks[i], ValueAt(tree, MainFile(entry(i).path)))
                    /\ \A file \in hooks[i].files : RootOf(t, f) \o file \in DOMAIN plans[t].files
              /\ \A i, j \in DOMAIN hooks : i < j => Precedes(entry(i), entry(j))

\* The headings that a line stands under, by their levels.
Outline(lines) ==
    LET above[n \in 0..Len(lines)] ==
            IF n = 0 THEN <<>>
            ELSE IF lines[n].kind # "heading" THEN above[n - 1]
            ELSE At(lines[n].level, lines[n].text)
                 ++ Restrict(above[n - 1], {level \in DOMAIN above[n - 1] : level < lines[n].level})
    IN  above

\* What a section patch is meant to do: pieces of text, in their order.
Patched(lines, sections) ==
    LET above == Outline(lines)
        heads(i, n) == lines[n].kind = "heading" /\ above[n] = sections[i].path
        under(i, n) == LET path == sections[i].path IN
                       DOMAIN path \subseteq DOMAIN above[n] /\ Restrict(above[n], DOMAIN path) = path
        gone(i, n) == under(i, n) /\ ~heads(i, n)
        new(n) == {i \in DOMAIN sections : heads(i, n)}
    IN  FlattenSeq([n \in DOMAIN lines |->
            (IF \E i \in DOMAIN sections : gone(i, n) THEN <<>> ELSE <<lines[n]>>)
            \o (IF new(n) = {} THEN <<>> ELSE sections[CHOOSE i \in new(n) : TRUE].body)])

\* Patches of bodies without fences, none of them inside another.
PlainPatches(t, e) ==
    {patch \in OverlayValue(t, e).bodyPatch :
        /\ patch.mode = "sections"
        /\ \A line \in ToSet(ValueAt(tree, MainFile(e.path)).body) : line.kind # "fence"
        /\ \A i, j \in DOMAIN patch.sections : ~IsStrictPrefix(patch.sections[i].path, patch.sections[j].path)}

\* A patch that brings whole lines, for headings that are whole lines.
EndsLines(lines, sections) ==
    \A i \in DOMAIN sections :
        /\ \A line \in ToSet(sections[i].body) : line.ended
        /\ \A n \in DOMAIN lines : lines[n].kind = "heading" /\ Outline(lines)[n] = sections[i].path => lines[n].ended

\* A target's skill has exactly the text it should: the sections that its overlay
\* names hold what the overlay says, all others what the author wrote, in their
\* place.  If the patch brings whole lines, these and the author's stay lines of
\* their own; if it does not, what it brings shares its last line with the heading
\* of the next section (applySectionPatches, splitBody, findHeading).
SectionsAreExact ==
    Planned => \A t \in DOMAIN plans : \A e \in {x \in AllEntries(t) : KindAt(x.path) = "skill"} :
        \A patch \in PlainPatches(t, e) : \E path \in DOMAIN plans[t].files :
            LET written == ValueAt(tree, MainFile(e.path)).body
                meant == Patched(written, patch.sections)
                body == plans[t].files[path].value.body
            IN  /\ IsSuffix(<<NameAt(e.path), "SKILL.md">>, path)
                /\ plans[t].files[path].form = "markdown"
                /\ IsSuffix(JoinLines(meant), body)
                /\ EndsLines(written, patch.sections) => IsSuffix(meant, body)

\* The provenance leaves out nothing a plan depends on: with any other content
\* in every file that it does not record, the plan of each target is the same
\* (readOptionalRegular, buildProvenance).
ProvenanceIsComplete ==
    \A done \in plan :
        LET read == {i.path : i \in done.provenance.inputs}
            other == [p \in DOMAIN tree |->
                IF p \in read \/ tree[p].kind # "file" THEN tree[p]
                ELSE [kind |-> "file", data |-> [form |-> "other", value |-> ""]]]
        IN  /\ Imports(manifest, other)
            /\ \A t \in DOMAIN plans : PlanFor(t, SelectPackagesOf(Inventory(other, manifest.packages))) = {plans[t]}

\* A catalog leads to the packages: each entry to a manifest of that name and
\* version, a repository root's catalog as well, the version of a distribution
\* is everywhere, and the vendor's own check runs where it finds a manifest
\* (marketplace.Build, applyDistributionVersion, nativeChecks).
CatalogsFindPackages ==
    Planned => \A t \in DOMAIN plans :
        LET files == plans[t].files IN
        /\ \A path \in {p \in DOMAIN files : files[p].form = "catalog"} :
              /\ {e.name : e \in files[path].value} = {ValueAt(tree, f).id : f \in Chosen}
              /\ \A e \in files[path].value :
                    /\ ManifestAt(t, e.source) \in DOMAIN files
                    /\ files[ManifestAt(t, e.source)].value.name = e.name
                    /\ e.version \subseteq files[ManifestAt(t, e.source)].value.version
        /\ CompositionFor(t).profile = "package" =>
              \A path \in {p \in DOMAIN files : files[p].form = "manifest"} :
                 Released \subseteq files[path].value.version
        /\ \A root \in plans[t].checks :
              ManifestAt(t, root) \in DOMAIN files \/ {root \o c : c \in Codecs[t].catalog} \cap DOMAIN files # {}
=============================================================================
