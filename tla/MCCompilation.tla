--------------------------- MODULE MCCompilation ---------------------------
(***************************************************************************)
(* Requests for Compilation, a family for each of its concerns.  A case is *)
(* the tuple of its choices; a content is named for the place that it      *)
(* comes from, so that every file differs.                                 *)
(***************************************************************************)
EXTENDS Compilation

MCMarkdownStem == [n \in {"a.md", "c.md"} |-> IF n = "a.md" THEN "a" ELSE "c"]
MCJsonStem == [n \in {"h.json", "i.json"} |-> IF n = "h.json" THEN "h" ELSE "i"]
MCNameOrder == [n \in {"g", "h", "i"} |-> CASE n = "g" -> 1 [] n = "h" -> 2 [] OTHER -> 3]
MCTargetOrder == <<"antigravity", "claude", "codex", "copilot", "cursor", "grok", "pi">>

File(form, value) == [kind |-> "file", data |-> [form |-> form, value |-> value]]
Text(name) == File("text", name)
Entry(path, targets) == [path |-> path, targets |-> targets]
Package(id, metadata, assets) == File("package", [id |-> id, metadata |-> metadata, assets |-> assets])
Capable(uses) == File("asset", [capabilities |-> {uses}, piExtensions |-> {}])
Overlay(fields) == File("overlay", fields @@ [NoOverlay EXCEPT !.files = <<>>])

Line(kind, level, text) == [kind |-> kind, level |-> level, text |-> text, ended |-> TRUE]
Heading(level, text) == Line("heading", level, text)
Words(text) == Line("text", 0, text)
\* A text whose last line is ended, or not.
Ended(lines, yes) == [lines EXCEPT ![Len(lines)] = [@ EXCEPT !.ended = yes]]
Document(frontmatter, body) == File("markdown", [frontmatter |-> frontmatter, body |-> body])
Described == <<"description">> :> "d"
NamedAgent == <<"name">> :> "n" @@ Described

Policy(t, profile) ==
    [target |-> t, profile |-> profile, mode |-> "", aggregate |-> {}, preamble |-> {}, rules |-> <<>>, policies |-> <<>>]
Manifest(targets, composition, packages) ==
    [version |-> 1, root |-> <<"src">>, output |-> <<"dist">>, targets |-> targets, composition |-> composition,
     rootManifests |-> {}, distribution |-> {}, packages |-> packages]
Request(m, files) == [manifest |-> m, tree |-> files, targets |-> <<>>, packages |-> <<>>]

\* One package of one asset, and files of that asset.
One(t, profile, entry, files) ==
    Request(Manifest(<<t>>, <<Policy(t, profile)>>, <<<<"p.json">>>>),
            <<"p.json">> :> Package("p", <<>>, <<entry>>) @@ files)

Skill == <<"skills", "s">>
SkillFile == Skill \o <<"SKILL.md">>
TargetsOf(path) == path \o <<".agentbundler", "targets">>

-----------------------------------------------------------------------------
(* Bodies and their patches *)

Bodies == <<
    <<Heading(1, "A"), Words("1"), Heading(2, "B"), Words("2"), Heading(2, "C"), Words("3"), Heading(1, "D")>>,
    <<Words("0"), Heading(1, "A"), Heading(2, "B"), Heading(3, "C"), Words("1"), Heading(2, "D"), Heading(3, "C"), Words("2")>>,
    <<Heading(1, "A"), Heading(1, "A"), Heading(2, "B"), Words("1")>>,
    <<Heading(1, "A"), Line("fence", 0, "ticks"), Heading(1, "D"), Line("fence", 0, "tildes"), Line("fence", 0, "ticks"), Heading(1, "D"), Words("1")>>>>
HeadingPaths == {<<"A">>, <<"A", "B">>, <<"A", "B", "C">>, <<"A", "C">>, <<"A", "D", "C">>, <<"D">>}
PatchPaths == {<<x>> : x \in HeadingPaths} \cup {<<x, y>> : x, y \in HeadingPaths}
\* Patches of sections, those that are named by a number with an ended last line.
Sections(paths, ended) == [i \in DOMAIN paths |-> [path |-> paths[i], body |-> Ended(<<Words(ToString(i))>>, i \in ended)]]
Preambles == {{}, {<<Words("p")>>}, {Ended(<<Words("p")>>, FALSE)}}

BodyCases == (DOMAIN Bodies) \X PatchPaths \X Preambles \X (SUBSET {1, 2}) \X BOOLEAN
BodyRequest(c) ==
    LET r == One("claude", "package", Entry(Skill, <<>>),
                 SkillFile :> Document(Described, Ended(Bodies[c[1]], c[5]))
                 @@ TargetsOf(Skill) \o <<"claude.json">> :>
                       Overlay([bodyPatch |-> {[mode |-> "sections", text |-> {}, sections |-> Sections(c[2], c[4])]}]))
    IN  [r EXCEPT !.manifest.composition[1].preamble = c[3]]

\* Objects, scalars and nulls in frontmatter.
Frontmatters == {Described, Described @@ <<"m", "x">> :> "1", Described @@ <<"m">> :> "1",
                 Described @@ <<"m", "x">> :> "1" @@ <<"m", "y">> :> "2"}
FrontmatterPatches == {<<"m", "x">> :> Null, <<"m">> :> Null, <<"m">> :> "3", <<"m", "x">> :> "3", <<"description">> :> Null}
FrontmatterCases == Frontmatters \X FrontmatterPatches \X {"project", "package"}
FrontmatterRequest(c) ==
    One("claude", c[3], Entry(<<"commands", "c.md">>, <<>>),
        <<"commands", "c.md">> :> Document(c[1], <<Words("1")>>)
        @@ <<"commands", "c.md.agentbundler", "targets", "claude.json">> :>
              Overlay([frontmatterPatch |-> {c[2]}, bodyPatch |-> {[mode |-> "replace", text |-> {<<Words("2")>>}, sections |-> <<>>]}]))

-----------------------------------------------------------------------------
(* Files and their overlays *)

Names == {"x", "y"}
Assets == {Skill, <<"src", "resources", "r">>, <<"hooks", "h">>, <<"plugins", "antigravity", "n">>}
Listed == {<<>>, <<"antigravity">>, <<"claude">>, <<"codex", "claude">>}

FileHook == [event |-> "stop", matcher |-> {}, timeout |-> 1000, order |-> 1, failurePolicy |-> "open", asynchronous |-> FALSE,
    handler |-> [mode |-> "exec", program |-> {"sh"}, shellCommand |-> {},
                 arguments |-> <<[literal |-> {}, packageFile |-> {<<"x">>}]>>]]
MainOf(path) ==
    CASE path = Skill -> SkillFile :> Document(Described, <<Words("1")>>)
      [] Parts(path)[1] = "hooks" -> path \o <<"hook.json">> :> File("hook", FileHook)
      [] OTHER -> path \o <<".agentbundler", "asset.json">> :>
                     Capable(IF NativePath(path) THEN <<"asset.native-resource">> ELSE <<>>)

FileCases == Assets \X Listed \X {{}, {"x"}} \X {{}, {"x"}, {"y"}} \X {{}, {"x"}, {"y"}} \X {"claude", "antigravity"}
FileRequest(c) ==
    LET dir == TargetsOf(c[1]) IN
    [Request(Manifest(<<"claude", "codex", "antigravity">>,
                      <<Policy("antigravity", "package"), Policy("claude", "package"), Policy("codex", "package")>>, <<<<"p.json">>>>),
             <<"p.json">> :> Package("p", <<>>, <<Entry(c[1], c[2])>>)
             @@ MainOf(c[1])
             @@ [path \in {c[1] \o rel : rel \in {<<"x">>, <<"z", "y">>, <<"SKILL.bak">>, <<"node_modules", "x">>}} |-> Text(path)]
             @@ dir \o <<c[6] \o ".json">> :>
                   Overlay([files |-> [f \in {<<n>> : n \in c[3]} |-> [form |-> "text", value |-> <<"inline">> \o f]],
                            deletedFiles |-> SetToSeq({<<n>> : n \in c[5]})])
             @@ [path \in {dir \o <<c[6], "files", n>> : n \in c[4]} |-> Text(path)])
     EXCEPT !.targets = IF c[2] = <<>> THEN <<c[6]>> ELSE <<"claude", "antigravity">>]

-----------------------------------------------------------------------------
(* Capabilities *)

Hook(fields, argument) == File("hook", [fields @@ FileHook EXCEPT !.handler.arguments[1] = argument])
NoFile == [literal |-> {"l"}, packageFile |-> {}]
Key == "hook.failure.closed"
Acks == {<<>>, <<Key>>, <<Key, Key>>, <<Key, "hook.command.exec">>, <<"hook.command.exec">>,
            <<Key, "hook.command.exec", "hook.event.pre-tool">>}
UseCases ==
    ToSet(MCTargetOrder) \X (States \cup {"none", "unknown"}) \X Acks \X {"open", "closed"} \X {<<>>, <<"hook.decision.block">>}
UseRequest(c) ==
    LET r == One(c[1], "package", Entry(<<"hooks", "h.json">>, <<>>),
                 <<"hooks", "h.json">> :> Hook([event |-> "pre-tool", matcher |-> {<<"command">>}, failurePolicy |-> c[4]], NoFile)
                 @@ (IF c[5] = <<>> THEN <<>> ELSE <<"hooks", ".agentbundler", "asset.json">> :> Capable(c[5]))
                 @@ TargetsOf(<<"hooks">>) \o <<c[1] \o ".json">> :>
                       Overlay([acknowledgments |-> [i \in DOMAIN c[3] |->
                           [asset |-> <<"hook", "h">>, target |-> c[1], key |-> c[3][i], reason |-> "r"]]]))
    IN  [r EXCEPT !.manifest.composition[1].rules =
            IF c[2] = "none" THEN <<>> ELSE IF c[2] = "unknown" THEN <<[key |-> "k", state |-> "native"]>>
            ELSE <<[key |-> Key, state |-> c[2]]>>]

-----------------------------------------------------------------------------
(* Native resources, their policies and a selection of packages; the second
   package may have one of the same name that its target cannot take *)

GapPolicies == {<<>>, <<"exclude", {}>>, <<"replace", {<<"skill", "s">>}>>, <<"replace", {<<"skill", "t">>}>>, <<"source-only", {<<"skill", "s">>}>>}
GapCases ==
    {"antigravity", "claude", "pi"} \X {"antigravity", "pi", "claude", "none"} \X GapPolicies
    \X {<<>>, <<"p">>, <<"q">>, <<"p", "o">>} \X {"", "aggregate"} \X BOOLEAN
GapRequest(c) ==
    LET owner == IF c[2] = "none" THEN "pi" ELSE c[2]
        path == <<"plugins", owner, "n">>
        twin == <<"src">> \o path
        listed == IF owner = "antigravity" THEN <<owner>> ELSE <<>>
        native(extensions) ==
            File("asset", [capabilities |-> {<<"asset.native-resource">>}, piExtensions |-> extensions])
        m == Manifest(<<c[1]>>, <<[Policy(c[1], "package") EXCEPT
                !.mode = c[5], !.aggregate = IF c[5] = "" THEN {} ELSE {[identity |-> "z", metadata |-> <<>>]},
                !.policies = IF c[3] = <<>> THEN <<>> ELSE <<[component |-> "n", action |-> c[3][1], replacement |-> c[3][2]]>>]>>,
                <<<<"p.json">>, <<"q.json">>>>)
    IN  [Request(m, <<"p.json">> :> Package("p", <<>>, <<Entry(path, listed)>>)
                    @@ <<"q.json">> :> Package("q", <<>>, <<Entry(Skill, <<>>)>> \o IF c[6] THEN <<Entry(twin, listed)>> ELSE <<>>)
                    @@ SkillFile :> Document(Described, <<>>)
                    @@ path \o <<"extensions", "x.ts">> :> Text("x")
                    @@ path \o <<".agentbundler", "asset.json">> :>
                          native(IF c[2] = "pi" THEN {<<<<"extensions", "x.ts">>>>} ELSE {})
                    @@ twin \o <<"extensions", "x.ts">> :> Text("y")
                    @@ twin \o <<".agentbundler", "asset.json">> :> native(IF owner = "pi" THEN {} ELSE {<<>>}))
         EXCEPT !.packages = c[4]]

-----------------------------------------------------------------------------
(* Hooks *)

HookShapes == {<<"pre-tool", {<<"command">>}, 1000, FALSE>>, <<"pre-tool", {<<"write", "edit">>}, 1500, FALSE>>,
               <<"pre-tool", {}, 1000, FALSE>>, <<"session-start", {}, 1000, FALSE>>,
               <<"notification", {}, 1500, TRUE>>, <<"notification", {}, 1000, FALSE>>}
HookCases ==
    {"codex", "claude", "grok", "pi"} \X (HookShapes \X {2}) \X (HookShapes \X {1, 2})
    \X {<<<<"pre-tool", {<<"mcp">>}, 1000, FALSE>>, 1>>} \X BOOLEAN
HookRequest(c) ==
    LET file == [literal |-> {}, packageFile |-> {<<"x">>}]
        at(shape) == Hook([event |-> shape[1][1], matcher |-> shape[1][2], timeout |-> shape[1][3],
                           asynchronous |-> shape[1][4], order |-> shape[2]], file)
        entries == <<Entry(<<"hooks", "g">>, <<>>), Entry(<<"hooks", "h">>, <<>>), Entry(<<"hooks", "i">>, <<>>)>>
        mode == IF c[1] = "pi" THEN "aggregate" ELSE ""
        m == Manifest(<<c[1]>>, <<[Policy(c[1], "package") EXCEPT !.mode = mode,
                !.aggregate = IF mode = "" THEN {} ELSE {[identity |-> "z", metadata |-> <<>>]}]>>,
                IF c[5] THEN <<<<"p.json">>, <<"q.json">>>> ELSE <<<<"p.json">>>>)
    IN  Request(m, <<"p.json">> :> Package("p", <<>>, IF c[5] THEN SubSeq(entries, 1, 2) ELSE entries)
                   @@ <<"q.json">> :> Package("q", <<>>, SubSeq(entries, 3, 3))
                   @@ <<"hooks", "g", "hook.json">> :> at(c[2]) @@ <<"hooks", "g", "x">> :> Text("g")
                   @@ <<"hooks", "h", "hook.json">> :> at(c[3]) @@ <<"hooks", "h", "x">> :> Text("h")
                   @@ <<"hooks", "i", "hook.json">> :> at(c[4]) @@ <<"hooks", "i", "x">> :> Text("i"))

-----------------------------------------------------------------------------
(* Distributions, catalogs and the repository root *)

Publication(version) == [k \in PublicationKeys |-> IF k = "version" THEN version ELSE "v"]
Distributions == {{}, {[name |-> "d", owner |-> "o", description |-> "d", version |-> "2"]},
                  {[name |-> "d", owner |-> "o", description |-> "d"]},
                  {[name |-> "?", owner |-> "o", description |-> "d", version |-> "2"]}}
Roots == {{}, {<<"claude">>}, {<<"grok", "pi">>}, {<<"claude", "grok">>}, {<<"antigravity">>}}
CatalogCases ==
    Distributions \X {"full", "empty"} \X (1..2) \X Roots
    \X {<<>>, <<"claude">>, <<"codex">>, <<"grok", "pi">>} \X BOOLEAN
CatalogRequest(c) ==
    LET metadata == IF c[2] = "full" THEN Publication("1") ELSE <<>>
        targets == <<"claude", "codex", "grok", "pi", "antigravity">>
        agent == IF c[6] THEN <<Entry(<<"agents", "a.md">>, <<"claude", "codex", "antigravity">>)>> ELSE <<>>
        m == [Manifest(targets, [i \in DOMAIN targets |-> Policy(targets[i], "package")],
                       IF c[3] = 1 THEN <<<<"p.json">>>> ELSE <<<<"p.json">>, <<"q.json">>>>)
              EXCEPT !.distribution = c[1], !.rootManifests = c[4]]
    IN  [Request(m, <<"p.json">> :> Package("p", metadata, <<Entry(Skill, <<>>)>> \o agent)
                    @@ <<"q.json">> :> Package("q", metadata, <<Entry(<<"resources", "r">>, <<"claude", "grok">>)>>)
                    @@ SkillFile :> Document(Described, <<>>) @@ <<"resources", "r", "x">> :> Text("r")
                    @@ <<"agents", "a.md">> :> Document(NamedAgent, <<Words("1")>>))
         EXCEPT !.targets = c[5]]

\* One package that is made of two.
Versions == {<<>>, [dependencies |-> [e |-> "1"]], [dependencies |-> [e |-> "2"]]}
AggregateCases == Versions \X Versions \X Versions \X BOOLEAN \X Distributions
AggregateRequest(c) ==
    LET other == IF c[4] THEN Skill ELSE <<"resources", "r">>
        m == [Manifest(<<"pi">>, <<[Policy("pi", "package") EXCEPT
                  !.mode = "aggregate", !.aggregate = {[identity |-> "z", metadata |-> c[1]]}]>>, <<<<"p.json">>, <<"q.json">>>>)
              EXCEPT !.distribution = c[5], !.rootManifests = {<<"pi">>}]
    IN  Request(m, <<"p.json">> :> Package("p", c[2], <<Entry(Skill, <<>>)>>)
                   @@ <<"q.json">> :> Package("q", c[3], <<Entry(other, <<>>)>>)
                   @@ SkillFile :> Document(Described, <<>>) @@ <<"resources", "r", "x">> :> Text("r"))

-----------------------------------------------------------------------------
(* All of them *)

MCRequests ==
    [body |-> [c \in BodyCases |-> BodyRequest(c)],
     frontmatter |-> [c \in FrontmatterCases |-> FrontmatterRequest(c)],
     files |-> [c \in FileCases |-> FileRequest(c)],
     uses |-> [c \in UseCases |-> UseRequest(c)],
     gaps |-> [c \in GapCases |-> GapRequest(c)],
     hooks |-> [c \in HookCases |-> HookRequest(c)],
     catalog |-> [c \in CatalogCases |-> CatalogRequest(c)],
     aggregate |-> [c \in AggregateCases |-> AggregateRequest(c)]]
=============================================================================
