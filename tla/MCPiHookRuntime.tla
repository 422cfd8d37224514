------------------------- MODULE MCPiHookRuntime -------------------------
(* PiHookRuntime for TLC: a few hooks of the kinds that matter. *)
EXTENDS PiHookRuntime

CONSTANTS d1, d2, none, bash, read

MCHook(event, asynchronous, failurePolicy, tools) ==
    [event |-> event, asynchronous |-> asynchronous,
     failurePolicy |-> failurePolicy, tools |-> tools]
MCEvent(pi, tool, isError, plain) ==
    [pi |-> pi, tool |-> tool, isError |-> isError, plain |-> plain]

\* One tool hook fails open, one closed and for one tool only; the end of
\* the session has an asynchronous hook and one that is waited for.
HooksMC ==
    <<MCHook("pre-tool", FALSE, "open", {bash, read}),
      MCHook("pre-tool", FALSE, "closed", {bash}),
      MCHook("session-end", TRUE, "open", {}),
      MCHook("session-end", FALSE, "open", {})>>
EventsMC ==
    {MCEvent("tool_call", bash, FALSE, FALSE),
     MCEvent("session_shutdown", read, FALSE, TRUE)}

DispatchesMC == {d1, d2}
=============================================================================
