----------------------------- MODULE Rendering -----------------------------
(***************************************************************************)
(* Rendering of the composed packages of a target into the files of its    *)
(* plan.  Packages of the project profile have skills, and what else the   *)
(* vendor reads from a project, but no manifest.                           *)
(*                                                                         *)
(* The files of a plan are a function of their paths.  A content says what *)
(* it is made from: a payload is a source file's content, markdown the     *)
(* frontmatter and body of an asset, a hook manifest the sequence of the   *)
(* hooks it registers; encodings are left out, and so is the Agent Plugins *)
(* target.                                                                 *)
(***************************************************************************)
EXTENDS Composition, VendorCodecs

CONSTANTS
    PluginNames,        \* names that a native plugin may have
    AntigravityNames,   \* names that an Antigravity plugin may have
    NameOrder,          \* the position of a name among all names
    Malformed           \* metadata values that no catalog publishes

ASSUME NameOrderAssumption == IsInjective(NameOrder) /\ \A n \in DOMAIN NameOrder : NameOrder[n] \in Nat

-----------------------------------------------------------------------------
(* Hooks of a package *)

HookAssets(p) == {a \in p.assets : a.kind = "hook"}
HookOf(a) == CHOOSE h \in a.hook : TRUE

HooksFit(t, p) ==
    /\ \A a \in HookAssets(p) : HookFits(t, HookOf(a), a.uses)
    /\ t = "codex" => \A a, b \in HookAssets(p) :
           a # b /\ HookOf(a).event = HookOf(b).event => ~CanMatchTogether(HookOf(a), HookOf(b))

\* Mutant: hooks of one order are left as they are.
HookLess_Stable(a, b) == HookOf(a).order < HookOf(b).order
HookLess(a, b) ==
    \/ HookOf(a).order < HookOf(b).order
    \/ HookOf(a).order = HookOf(b).order /\ NameOrder[a.identity[2]] < NameOrder[b.identity[2]]

SortedHooks(hooks) ==
    CHOOSE s \in SetToSeqs(hooks) : \A i, j \in DOMAIN s : i < j => ~HookLess(s[j], s[i])

PayloadRoot(codec, a) == (CHOOSE r \in codec.payloads : TRUE) \o <<a.identity[2]>>

\* What a hook manifest says of a hook.
HookEntry(t, codec, a) ==
    LET h == HookOf(a)
        args == h.handler.arguments
    IN  [event |-> h.event, hook |-> a.identity,
         files |-> UNION {{PayloadRoot(codec, a) \o f : f \in args[i].packageFile} : i \in DOMAIN args}]
        ++ VendorHook(t, h, a.uses)
HookManifest(t, codec, p) ==
    LET hooks == SortedHooks(HookAssets(p)) IN
    [i \in DOMAIN hooks |-> HookEntry(t, codec, hooks[i])]

-----------------------------------------------------------------------------
(* Capabilities of a package that a codec renders *)

CapabilitiesFit(codec, p) ==
    /\ \A ack \in p.acknowledgments :
          /\ StateIn(codec, ack.key) = "advisory"
          /\ \E a \in p.assets : a.identity = ack.asset /\ ack.key \in ToSet(a.uses)
    /\ \A a, b \in p.acknowledgments : a.asset = b.asset /\ a.key = b.key => a = b
    /\ \A a \in p.assets : \A key \in ToSet(a.uses) :
          /\ key \in ToSet(AssetKeys) \cup ToSet(HookKeys) /\ StateIn(codec, key) # "unsupported"
          /\ StateIn(codec, key) = "advisory" => \E ack \in p.acknowledgments : ack.asset = a.identity /\ ack.key = key

Fields(a) == {k[1] : k \in DOMAIN a.content.frontmatter}
Field(a, name) == IF <<name>> \in DOMAIN a.content.frontmatter THEN a.content.frontmatter[<<name>>] ELSE ""

AgentFits(t, a) ==
    CASE t = "antigravity" -> Fields(a) = {"name", "description"} /\ "" \notin {Field(a, "name"), Field(a, "description")}
      [] t = "pi" -> "sandbox_mode" \notin Fields(a) /\ \A k \in DOMAIN a.content.frontmatter : Len(k) = 1
      [] t = "codex" -> Field(a, "description") # ""
      [] OTHER -> "sandbox_mode" \notin Fields(a)

NativeFits(t, a) ==
    /\ DOMAIN a.content.files # {}
    /\ t = "antigravity" => a.native = {}
    /\ t = "pi" => \E o \in a.native : o.piExtensions # <<>> /\ ToSet(o.piExtensions) \subseteq DOMAIN a.content.files

AssetFits(t, codec, a) ==
    CASE a.kind = "command" -> codec.commands # {} /\ DOMAIN a.content.files = {}
      [] a.kind = "agent" -> codec.agents # {} /\ AgentFits(t, a)
      [] a.kind = "native-resource" -> codec.natives /\ NativeFits(t, a)
      [] a.kind = "hook" -> codec.payloads # {}
      [] a.kind = "skill" -> <<"SKILL.md">> \notin DOMAIN a.content.files
      [] OTHER -> TRUE

PackageFits(t, codec, p) ==
    /\ p.profile = "package"
    /\ CapabilitiesFit(codec, p)
    /\ t = "antigravity" => p.identity \in AntigravityNames
    /\ HooksFit(t, p)
    /\ \A a \in p.assets : AssetFits(t, codec, a)

-----------------------------------------------------------------------------
(* Files of packages *)

Payload(content) == [form |-> "payload", value |-> content]
Markdown(content) == [form |-> "markdown", value |-> [frontmatter |-> content.frontmatter, body |-> content.body]]
Generated(form, value) == [form |-> form, value |-> value]

Below(root, files) == [p \in {root \o q : q \in DOMAIN files} |-> Payload(files[SubSeq(p, Len(root) + 1, Len(p))])]

Merge(parts) ==
    [p \in UNION {DOMAIN parts[x] : x \in DOMAIN parts} |->
        parts[CHOOSE x \in DOMAIN parts : p \in DOMAIN parts[x]][p]]
PartsApart(parts) == \A x, y \in DOMAIN parts : x # y => DOMAIN parts[x] \cap DOMAIN parts[y] = {}

AssetFiles(codec, a) ==
    LET name == a.identity[2]
        agent == CHOOSE r \in codec.agents : TRUE
    IN CASE a.kind = "skill" -> At(<<"skills", name, "SKILL.md">>, Markdown(a.content)) ++ Below(<<"skills", name>>, a.content.files)
         [] a.kind = "resource" -> Below(<<"resources", name>>, a.content.files)
         [] a.kind = "command" -> At((CHOOSE r \in codec.commands : TRUE) \o <<name \o ".md">>, Markdown(a.content))
         [] a.kind = "agent" -> At(agent.root \o <<name \o agent.suffix>>, Markdown(a.content))
         [] a.kind = "hook" -> Below(PayloadRoot(codec, a), a.content.files)
         [] OTHER -> Below(<<>>, a.content.files)

PackageManifest(p) ==
    Generated("manifest", [name |-> p.identity,
                           version |-> {p.metadata[k] : k \in {"version"} \cap DOMAIN p.metadata}])

\* What a package is made of: a part for each asset, and the generated ones.
PackageParts(t, codec, p) ==
    LET of(id) == CHOOSE a \in p.assets : a.identity = id IN
    [id \in {a.identity : a \in p.assets} |-> AssetFiles(codec, of(id))]
        ++ (IF HookAssets(p) = {} THEN <<>>
            ELSE At(<<"", "hooks">>, At(codec.hooks, Generated("hooks", HookManifest(t, codec, p)))))
        ++ At(<<"", "readme">>, At(<<"README.md">>, Generated("readme", p.identity)))
        ++ At(<<"", "manifest">>, At(codec.manifest, PackageManifest(p)))

\* A package alone is the root of the output, one of several below its name.
PackageRoot(packages, p) == IF Cardinality(packages) = 1 THEN <<>> ELSE <<p.identity>>
Rooted(root, files) == [p \in {root \o q : q \in DOMAIN files} |-> files[SubSeq(p, Len(root) + 1, Len(p))]]

-----------------------------------------------------------------------------
(* Marketplace catalogs *)

PublicationKeys == {"description", "version", "author", "homepage", "repository", "license", "keywords"}
Published(metadata, keys) == keys \subseteq DOMAIN metadata /\ \A k \in keys : metadata[k] \notin Malformed

CatalogFits(in) ==
    \A d \in in.distribution :
        /\ Published(d, {"name", "owner", "description", "version"}) /\ Cardinality(DOMAIN d) = 4
        /\ \A p \in in.packages : p.identity \in Kebab /\ Published(p.metadata, PublicationKeys)

CatalogPath(codec) == CHOOSE c \in codec.catalog : TRUE
HasCatalog(codec, in) == in.distribution # {} /\ codec.catalog # {}
CatalogEntry(in, p) ==
    [name |-> p.identity, source |-> PackageRoot(in.packages, p), version |-> {p.metadata["version"]}]

\* Codex publishes no versions.
Catalog(t, in) ==
    {IF t = "codex" THEN [CatalogEntry(in, p) EXCEPT !.version = {}] ELSE CatalogEntry(in, p) : p \in in.packages}

-----------------------------------------------------------------------------
(* Installable packages *)

\* One part for each part of each package, and the catalog.
InstallableParts(t, codec, in) ==
    LET parts == [p \in in.packages |-> PackageParts(t, codec, p)]
        ids == UNION {{<<p.identity, id>> : id \in DOMAIN parts[p]} : p \in in.packages}
        named(id) == CHOOSE p \in in.packages : p.identity = id[1]
    IN  [id \in ids |-> Rooted(PackageRoot(in.packages, named(id)), parts[named(id)][id[2]])]
        ++ (IF ~HasCatalog(codec, in) THEN <<>>
            ELSE At(<<"", <<"", "catalog">>>>, At(CatalogPath(codec), Generated("catalog", Catalog(t, in)))))

\* RenderWithCodec.
InstallableFits(t, codec, in) ==
    /\ ValidTargetRenderInput(in) /\ in.mode = "separate"
    /\ \A p \in in.packages : PackageFits(t, codec, p)
    /\ HasCatalog(codec, in) => CatalogFits(in)
    /\ LET parts == InstallableParts(t, codec, in) IN
          PartsApart(parts) /\ \A x \in DOMAIN parts : \A f \in DOMAIN parts[x] : ValidPath(f)

\* Codex has agents in the project, not in its packages.
Agents(packages) == UNION {{a \in p.assets : a.kind = "agent"} : p \in packages}
WithoutAgents(packages) == {[p EXCEPT !.assets = {a \in @ : a.kind # "agent"}] : p \in packages}
AgentPath(a) == <<".codex", "agents", a.identity[2] \o ".toml">>
ProjectAgentsFit(packages, files) ==
    /\ \A a \in Agents(packages) : AgentFits("codex", a) /\ AgentPath(a) \notin DOMAIN files
    /\ \A a, b \in UNION {{<<p.identity, x.identity>> : x \in Agents({p})} : p \in packages} : a[2] = b[2] => a = b
ProjectAgents(packages) ==
    [f \in {AgentPath(a) : a \in Agents(packages)} |-> Markdown((CHOOSE a \in Agents(packages) : AgentPath(a) = f).content)]

\* The packages of an aggregate become one, whose dependencies are all theirs.
AggregatePackage(in) ==
    LET aggregate == CHOOSE a \in in.aggregate : TRUE IN
    [identity |-> aggregate.identity, metadata |-> aggregate.metadata, target |-> "pi", profile |-> "package",
     uses |-> <<>>, assets |-> UNION {p.assets : p \in in.packages},
     acknowledgments |-> UNION {p.acknowledgments : p \in in.packages}]
AggregateInput(in) == [in EXCEPT !.packages = {AggregatePackage(in)}, !.mode = "separate", !.aggregate = {}, !.distribution = {}]
AssetNamesApart(packages) ==
    \A p, q \in packages : p # q => {a.identity : a \in p.assets} \cap {a.identity : a \in q.assets} = {}

HookAdapter == At(<<"extensions", "agentbundler-hooks.ts">>, Generated("adapter", {}))
HookRuntime == At(<<"extensions", "_agentbundler-hooks", "index.js">>, Generated("runtime", {}))
NoHooks == At(PiAggregate.hooks, Generated("hooks", <<>>))

-----------------------------------------------------------------------------
(* Projects *)

\* Where a vendor's projects have skills, resources and commands.
ProjectRoots(t) ==
    CASE t = "claude" -> [skill |-> <<".claude", "skills">>, command |-> <<".claude", "commands">>]
      [] t = "copilot" -> [skill |-> <<".github", "skills">>, resource |-> <<".github", "resources">>]
      [] t = "grok" -> [skill |-> <<".grok", "skills">>, resource |-> <<".grok", "resources">>]
      [] t = "pi" -> [skill |-> <<".pi", "skills">>]
      [] OTHER -> [skill |-> <<"skills">>]

\* Codex and Cursor read a plugin's manifest in a project.
ProjectManifest(t) == IF t \in {"codex", "cursor"} THEN {Codecs[t].manifest} ELSE {}

ProjectAssetFits(t, a) ==
    /\ a.kind \in DOMAIN ProjectRoots(t)
    /\ ToSet(a.uses) \subseteq {"asset." \o a.kind} \cup (IF a.kind = "skill" THEN {"agent-plugin.skills"} ELSE {})
    /\ a.kind = "command" => DOMAIN a.content.files = {}
    /\ a.kind = "skill" => <<"SKILL.md">> \notin DOMAIN a.content.files

ProjectAssetFiles(t, a) ==
    LET base == ProjectRoots(t)[a.kind] \o <<a.identity[2]>> IN
    CASE a.kind = "skill" -> At(base \o <<"SKILL.md">>, Markdown(a.content)) ++ Below(base, a.content.files)
      [] a.kind = "command" -> At(Front(base) \o <<Last(base) \o ".md">>, Markdown(a.content))
      [] OTHER -> Below(base, a.content.files)

ProjectParts(t, p) ==
    [id \in {a.identity : a \in p.assets} |-> ProjectAssetFiles(t, CHOOSE a \in p.assets : a.identity = id)]
    ++ At(<<"", "manifest">>, [f \in ProjectManifest(t) |-> PackageManifest(p)])

ProjectFits(t, packages) ==
    /\ t # "antigravity" /\ Cardinality(packages) = 1
    /\ \A p \in packages :
          /\ ValidNormalizedPackage(p)
          /\ ProjectManifest(t) # {} => p.identity \in PluginNames
          /\ \A a \in p.assets : ProjectAssetFits(t, a)
          /\ PartsApart(ProjectParts(t, p))

-----------------------------------------------------------------------------
(* Render *)

Installable(packages) == \A p \in packages : p.profile = "package"
PackagesFor(t, in) == IF t = "codex" THEN WithoutAgents(in.packages) ELSE in.packages
CodecFor(t, in) == IF t = "pi" /\ in.mode = "separate" THEN PiSeparate ELSE Codecs[t]

\* What the parts of a plan are before agents and runtimes are added to them.
RenderedParts(t, in) ==
    IF in.mode = "aggregate" THEN InstallableParts(t, PiAggregate, AggregateInput(in))
    ELSE IF Installable(in.packages) THEN InstallableParts(t, CodecFor(t, in), [in EXCEPT !.packages = PackagesFor(t, in)])
    ELSE ProjectParts(t, CHOOSE p \in PackagesFor(t, in) : TRUE)

RenderFits(t, in) ==
    /\ ValidTargetRenderInput(in)
    /\ \A p \in in.packages : p.target = t
    /\ IF in.mode = "aggregate" THEN
           /\ AssetNamesApart(in.packages)
           /\ InstallableFits(t, PiAggregate, AggregateInput(in))
           /\ (DOMAIN HookAdapter \cup DOMAIN HookRuntime) \cap DOMAIN Merge(RenderedParts(t, in)) = {}
       ELSE IF Installable(in.packages) THEN InstallableFits(t, CodecFor(t, in), [in EXCEPT !.packages = PackagesFor(t, in)])
       ELSE ProjectFits(t, PackagesFor(t, in))
    /\ t = "codex" => ProjectAgentsFit(in.packages, Merge(RenderedParts(t, in)))

\* Where the vendor's own program checks a plan.
NativeChecks(t, in) ==
    IF ~Installable(in.packages) \/ t \notin {"claude", "grok", "antigravity"} THEN {}
    ELSE IF t = "claude" /\ in.distribution # {} THEN {<<>>}
    ELSE {PackageRoot(in.packages, p) : p \in in.packages}

Render(t, in) ==
    LET files == Merge(RenderedParts(t, in)) IN
    [target |-> t,
     packages |-> IF in.mode = "aggregate" THEN {a.identity : a \in in.aggregate} ELSE {p.identity : p \in in.packages},
     files |-> IF t = "codex" THEN files ++ ProjectAgents(in.packages)
               ELSE IF in.mode = "aggregate" THEN files ++ NoHooks ++ HookAdapter ++ HookRuntime ELSE files,
     checks |-> NativeChecks(t, in),
     units |-> {[root |-> <<>>, stem |-> t, suffix |-> IF t = "pi" THEN ".tgz" ELSE ".tar.gz"]}]
=============================================================================
