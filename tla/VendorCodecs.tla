---------------------------- MODULE VendorCodecs ----------------------------
(***************************************************************************)
(* The codecs of the vendors: where a package has its manifest, agents,    *)
(* commands, hooks and catalog, which capabilities the vendor has, which   *)
(* hooks it can express, and what its hook manifest says of them.          *)
(*                                                                         *)
(* A hook's command is started as it is, "exec", through a shell, or       *)
(* wrapped, when the vendor's own protocol has to be told what a pre-tool  *)
(* hook decided; quoting and the wrapper itself are left out.              *)
(***************************************************************************)
EXTENDS SourceModel

AssetKeys == <<"asset.agent", "asset.hook", "asset.command", "asset.resource", "asset.native-resource", "asset.skill">>
HookKeys == <<"hook.async", "hook.command.exec", "hook.command.shell", "hook.decision.block",
    "hook.decision.rewrite-input", "hook.event.notification", "hook.event.post-compact", "hook.event.post-tool",
    "hook.event.post-tool-failure", "hook.event.pre-compact", "hook.event.pre-tool", "hook.event.prompt-submit",
    "hook.event.session-end", "hook.event.session-start", "hook.event.stop", "hook.failure.closed",
    "hook.matcher.tool-category">>
PluginKeys == <<"agent-plugin.skills", "agent-plugin.mcp.stdio", "agent-plugin.mcp.streamable-http",
    "agent-plugin.mcp.sse", "agent-plugin.extensions", "agent-plugin.unknown-json", "agent-plugin.package-files">>

Decisions == {"hook.decision.block", "hook.decision.rewrite-input"}
Wrapped(h, uses) == h.event = "pre-tool" /\ (h.failurePolicy = "closed" \/ Decisions \cap ToSet(uses) # {})
Started(h, uses, mode) == IF Wrapped(h, uses) THEN "wrapped" ELSE mode

\* The native tools that a matcher names for its categories, all for none.
ToolsOf(names, h) == UNION {UNION {names[c] : c \in ToSet(tools)} : tools \in h.matcher}
ToolsFit(names, h) == \A tools \in h.matcher : ToSet(tools) \subseteq DOMAIN names

\* Hooks that only pre-tool events can fail closed.
ClosesBeforeTools(h) == h.failurePolicy = "closed" => h.event = "pre-tool"

-----------------------------------------------------------------------------
(* Claude *)

Claude == [
    manifest |-> <<".claude-plugin", "plugin.json">>, catalog |-> {<<".claude-plugin", "marketplace.json">>},
    agents |-> {[root |-> <<"agents">>, suffix |-> ".md"]}, commands |-> {<<"commands">>},
    payloads |-> {<<"hooks">>}, hooks |-> <<"hooks", "hooks.json">>, natives |-> FALSE,
    unsupported |-> {"asset.native-resource"}, equivalent |-> {}, advisory |-> {"hook.failure.closed"}]

ClaudeTools == [command |-> {"Bash"}, read |-> {"Read"}, write |-> {"Write"}, edit |-> {"Edit", "NotebookEdit"},
    search |-> {"Glob", "Grep"}, web |-> {"WebFetch", "WebSearch"}, task |-> {"Task", "Agent"}, mcp |-> {"mcp__"}]
ClaudeHookFits(h) == ClosesBeforeTools(h) /\ ToolsFit(ClaudeTools, h)
ClaudeHook(h, uses) ==
    [start |-> Started(h, uses, h.handler.mode), tools |-> ToolsOf(ClaudeTools, h),
     timeout |-> h.timeout, async |-> h.asynchronous, closed |-> FALSE]

-----------------------------------------------------------------------------
(* Codex, which has agents in the project, not in packages *)

Codex == [
    manifest |-> <<".codex-plugin", "plugin.json">>, catalog |-> {<<".agents", "plugins", "marketplace.json">>},
    agents |-> {}, commands |-> {},
    payloads |-> {<<"assets", "hooks">>}, hooks |-> <<"hooks", "hooks.json">>, natives |-> FALSE,
    unsupported |-> {"asset.command", "asset.native-resource", "hook.async", "hook.decision.rewrite-input",
                     "hook.event.notification", "hook.event.post-tool-failure", "hook.event.session-end"},
    equivalent |-> {}, advisory |-> {"hook.failure.closed"}]

CodexEvents == Events \ {"session-end", "notification", "post-tool-failure"}
CodexTools == [command |-> {"Bash"}, write |-> {"apply_patch", "Edit", "Write"},
    edit |-> {"apply_patch", "Edit", "Write"}, mcp |-> {"mcp__"}]
CodexHookFits(h) ==
    /\ h.event \in CodexEvents /\ ClosesBeforeTools(h) /\ ToolsFit(CodexTools, h)
    /\ h.event \in {"pre-tool", "post-tool"} => h.matcher # {}
    /\ ~h.asynchronous /\ h.timeout % 1000 = 0

\* Codex starts the hooks that match a call at the same time.
CanMatchTogether(g, h) ==
    \/ g.matcher = {} \/ h.matcher = {}
    \/ \E a \in g.matcher, b \in h.matcher : ToSet(a) \cap ToSet(b) # {}

\* Whole seconds are all that its manifest has.
CodexHook(h, uses) ==
    [start |-> Started(h, uses, "shell"), tools |-> ToolsOf(CodexTools, h),
     timeout |-> 1000 * (h.timeout \div 1000), async |-> h.asynchronous, closed |-> FALSE]

-----------------------------------------------------------------------------
(* Copilot, whose notifications are asynchronous and no other hook is *)

Copilot == [
    manifest |-> <<"plugin.json">>, catalog |-> {<<".github", "plugin", "marketplace.json">>},
    agents |-> {[root |-> <<"agents">>, suffix |-> ".agent.md"]}, commands |-> {},
    payloads |-> {<<"hooks">>}, hooks |-> <<"hooks.json">>, natives |-> FALSE,
    unsupported |-> {"asset.command", "asset.native-resource", "hook.event.post-compact"},
    equivalent |-> {}, advisory |-> {"hook.command.exec", "hook.event.pre-tool", "hook.failure.closed"}]

CopilotEvents == Events \ {"post-compact"}
CopilotTools == [ClaudeTools EXCEPT !.edit = {"Edit"}]
CopilotHookFits(h) ==
    /\ h.event \in CopilotEvents /\ ClosesBeforeTools(h) /\ ToolsFit(CopilotTools, h)
    /\ h.asynchronous <=> h.event = "notification"
CopilotHook(h, uses) ==
    [start |-> Started(h, uses, "shell"), tools |-> ToolsOf(CopilotTools, h),
     timeout |-> h.timeout, async |-> h.event = "notification", closed |-> FALSE]

-----------------------------------------------------------------------------
(* Cursor *)

Cursor == [
    manifest |-> <<".cursor-plugin", "plugin.json">>, catalog |-> {<<".cursor-plugin", "marketplace.json">>},
    agents |-> {[root |-> <<"agents">>, suffix |-> ".md"]}, commands |-> {},
    payloads |-> {<<"hooks">>}, hooks |-> <<"hooks", "hooks.json">>, natives |-> FALSE,
    unsupported |-> {"asset.command", "asset.native-resource", "hook.async", "hook.event.notification",
                     "hook.event.post-compact"},
    equivalent |-> {}, advisory |-> {"hook.command.exec"}]

CursorEvents == Events \ {"notification", "post-compact"}
CursorTools == [command |-> {"Shell"}, read |-> {"Read"}, write |-> {"Write"}, task |-> {"Task"}, mcp |-> {"MCP:"}]
CursorHookFits(h) ==
    /\ h.event \in CursorEvents /\ ~h.asynchronous /\ ToolsFit(CursorTools, h)
    /\ h.failurePolicy = "closed" => h.event \in {"pre-tool", "prompt-submit"}
CursorHook(h, uses) ==
    [start |-> Started(h, uses, "shell"), tools |-> ToolsOf(CursorTools, h),
     timeout |-> h.timeout, async |-> FALSE, closed |-> h.failurePolicy = "closed"]

-----------------------------------------------------------------------------
(* Grok, which reads plugins of Claude's *)

Grok == [
    manifest |-> <<".claude-plugin", "plugin.json">>, catalog |-> {<<".claude-plugin", "marketplace.json">>},
    agents |-> {[root |-> <<"agents">>, suffix |-> ".md"]}, commands |-> {},
    payloads |-> {<<"hooks">>}, hooks |-> <<"hooks", "hooks.json">>, natives |-> FALSE,
    unsupported |-> {"asset.command", "asset.native-resource", "hook.async", "hook.decision.rewrite-input"},
    equivalent |-> {}, advisory |-> {"hook.failure.closed"}]

GrokTools == ClaudeTools
GrokHookFits(h) == ClosesBeforeTools(h) /\ ~h.asynchronous /\ ToolsFit(GrokTools, h)
GrokHook(h, uses) ==
    [start |-> Started(h, uses, h.handler.mode), tools |-> ToolsOf(GrokTools, h),
     timeout |-> h.timeout, async |-> FALSE, closed |-> FALSE]

-----------------------------------------------------------------------------
(* Antigravity and Pi *)

Antigravity == [
    manifest |-> <<"plugin.json">>, catalog |-> {},
    agents |-> {[root |-> <<"agents">>, suffix |-> ".md"]}, commands |-> {},
    payloads |-> {}, hooks |-> <<>>, natives |-> TRUE,
    unsupported |-> {"asset.hook", "asset.command"} \cup ToSet(HookKeys), equivalent |-> {}, advisory |-> {}]

\* Pi packages on their own have no hooks and no native resources; the one
\* package that aggregates them has both.
PiSeparate == [
    manifest |-> <<"package.json">>, catalog |-> {},
    agents |-> {[root |-> <<"agents">>, suffix |-> ".md"]}, commands |-> {},
    payloads |-> {}, hooks |-> <<>>, natives |-> FALSE,
    unsupported |-> {"asset.hook", "asset.command", "asset.native-resource"} \cup ToSet(HookKeys),
    equivalent |-> {"asset.agent"}, advisory |-> {}]

PiAggregate == [PiSeparate EXCEPT
    !.payloads = {<<"hooks", "payloads">>}, !.hooks = <<"hooks", "hooks.v1.json">>, !.natives = TRUE,
    !.unsupported = {"asset.command", "hook.event.notification"}]

PiHookFits(h, uses) ==
    /\ h.event # "notification" /\ ClosesBeforeTools(h)
    /\ Decisions \cap ToSet(uses) # {} => h.event = "pre-tool"

\* Pi's runtime reads the hook as it is declared.
PiHook(h) ==
    [start |-> h.handler.mode, tools |-> UNION {ToSet(tools) : tools \in h.matcher},
     timeout |-> h.timeout, async |-> h.asynchronous, closed |-> h.failurePolicy = "closed"]

-----------------------------------------------------------------------------
(* All of them *)

Codecs == [claude |-> Claude, codex |-> Codex, copilot |-> Copilot, cursor |-> Cursor, grok |-> Grok,
           antigravity |-> Antigravity, pi |-> PiAggregate]

StateIn(codec, key) ==
    CASE key \in codec.unsupported -> "unsupported"
      [] key \in codec.advisory -> "advisory"
      [] key \in codec.equivalent -> "equivalent"
      [] OTHER -> "native"

\* A target's rules, with those for Agent Plugins that it says nothing of.
PluginState(codec, key) ==
    IF key = "agent-plugin.skills" THEN StateIn(codec, "asset.skill") ELSE "unsupported"
Capabilities(codec) ==
    [i \in DOMAIN AssetKeys |-> [key |-> AssetKeys[i], state |-> StateIn(codec, AssetKeys[i])]]
    \o [i \in DOMAIN HookKeys |-> [key |-> HookKeys[i], state |-> StateIn(codec, HookKeys[i])]]
    \o [i \in DOMAIN PluginKeys |-> [key |-> PluginKeys[i], state |-> PluginState(codec, PluginKeys[i])]]

HookFits(t, h, uses) ==
    CASE t = "claude" -> ClaudeHookFits(h)
      [] t = "codex" -> CodexHookFits(h)
      [] t = "copilot" -> CopilotHookFits(h)
      [] t = "cursor" -> CursorHookFits(h)
      [] t = "grok" -> GrokHookFits(h)
      [] t = "pi" -> PiHookFits(h, uses)
      [] OTHER -> FALSE

VendorHook(t, h, uses) ==
    CASE t = "claude" -> ClaudeHook(h, uses)
      [] t = "codex" -> CodexHook(h, uses)
      [] t = "copilot" -> CopilotHook(h, uses)
      [] t = "cursor" -> CursorHook(h, uses)
      [] t = "grok" -> GrokHook(h, uses)
      [] OTHER -> PiHook(h)
=============================================================================
