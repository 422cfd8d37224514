--------------------------- MODULE PiHookRuntime ---------------------------
(***************************************************************************)
(* createPiHookRuntime: the adapter that a generated Pi package registers  *)
(* for its hooks.  Pi emits events, concurrently; the handler of an event  *)
(* runs its hooks in order, waits for each synchronous one and lets the    *)
(* asynchronous ones run, and tells Pi what they decided.  Pi may cancel   *)
(* an event, end the session, and the runtime may be shut down.            *)
(*                                                                         *)
(* JavaScript runs to completion between two awaits: an action is the code *)
(* from one await to the next.  A run of a hook command is a HookRun: its  *)
(* end is decided, then the code that awaited it goes on.                  *)
(***************************************************************************)
EXTENDS Naturals, Sequences, FiniteSets

CONSTANTS
    Hooks,      \* config.hooks, sorted: a sequence of HookDescriptors
    Events,     \* the events that Pi emits: [pi, tool, isError, plain]
    Dispatches, \* bound: the emissions of events
    NoDispatch  \* "nobody ends the session"

Decisions == {"allow", "deny", "rewrite-input", "error"}

\* The portable events that each Pi event stands for.
PiEvents ==
    [session_start |-> {"session-start"}, session_shutdown |-> {"session-end"},
     before_agent_start |-> {"prompt-submit"}, tool_call |-> {"pre-tool"},
     tool_result |-> {"post-tool", "post-tool-failure"},
     agent_end |-> {"stop"}, session_before_compact |-> {"pre-compact"},
     session_compact |-> {"post-compact"}]

\* What decodeConfig admits: asynchronous hooks only on events that nobody
\* waits for, and failurePolicy closed only where it can be enforced.
ValidHook(h) ==
    /\ h.asynchronous => h.event \in {"session-end", "post-tool",
         "post-tool-failure", "pre-compact", "post-compact"}
    /\ h.failurePolicy \in {"open", "closed"}
    /\ h.failurePolicy = "closed" => h.event = "pre-tool"

ASSUME HooksAssumption ==
    /\ Len(Hooks) \in Nat /\ DOMAIN Hooks = 1 .. Len(Hooks)
    /\ \A k \in DOMAIN Hooks : ValidHook(Hooks[k])
ASSUME EventsAssumption == \A e \in Events : e.pi \in DOMAIN PiEvents
ASSUME DispatchAssumption == NoDispatch \notin Dispatches

VARIABLES
    closed,             \* no event but the end of the session runs hooks
    shutdownRequested,  \* shutdown was called
    shutdownPromise,    \* "none", or how far the promise has come
    ender,              \* the dispatch that ends the session
    pending,            \* the invocations that shutdownPromise waits for
    run,                \* per invocation, how far its run has come
    verdict,            \* per invocation, what its run decided
    abortedRuns,        \* the invocations whose controller was aborted
    dispatch,           \* per dispatch, its event and how far it has come
    cancelled           \* the dispatches whose event Pi has cancelled

runtimeVars == <<closed, shutdownRequested, shutdownPromise, ender, pending, run,
                 verdict, abortedRuns, dispatch, cancelled>>
shutdownVars == <<closed, shutdownRequested, shutdownPromise, ender, pending>>

\* An invocation is a hook run for a dispatch.
Invocations == Dispatches \X DOMAIN Hooks
Hook(i) == Hooks[i[2]]

\* The set active: added before the run starts, deleted when it is settled.
Active == {i \in Invocations : run[i] \in {"running", "ended"}}

-----------------------------------------------------------------------------
(* dispatchHooks.                                                          *)

Event(d) == dispatch[d].event
Ends(d) == Event(d).pi = "session_shutdown"

\* The hooks that event e runs, from the k-th hook on.
Applicable(e, k) ==
    {n \in DOMAIN Hooks :
       /\ n >= k
       /\ Hooks[n].event \in PiEvents[e.pi]
       /\ Hooks[n].event = "post-tool" => ~e.isError
       /\ Hooks[n].event = "post-tool-failure" => e.isError
       /\ Hooks[n].event \in {"pre-tool", "post-tool", "post-tool-failure"}
            => e.tool \in Hooks[n].tools}

Least(S) == CHOOSE n \in S : \A m \in S : n <= m

\* The handler returns r to Pi; the end of the session waits for its promise.
Answer(d, r, event) ==
    dispatch' = [dispatch EXCEPT ![d] =
        [@ EXCEPT !.event = event, !.result = r,
                  !.pc = IF event.pi = "session_shutdown"
                         THEN "awaitShutdown" ELSE "returned"]]

\* The hooks that the loop starts from the k-th on, before it first waits, and
\* the one that it waits for, or 0.
Batch(event, k) ==
    LET hooks == Applicable(event, k)
        waiting == {n \in hooks : ~Hooks[n].asynchronous}
        next == IF waiting = {} THEN 0 ELSE Least(waiting)
    IN  [start |-> {n \in hooks : next = 0 \/ n <= next}, next |-> next]

\* invoke, up to the await of the run: each hook gets a controller, aborted
\* already if Pi has cancelled the event.
Invoke(d, ks) ==
    LET started == {d} \X ks
    IN  /\ run' = [i \in Invocations |-> IF i \in started THEN "running" ELSE run[i]]
        /\ abortedRuns' = abortedRuns \cup (IF d \in cancelled THEN started ELSE {})

\* Mutant: the loop does not look whether the runtime was closed.
MutantLoopGoesOn(d, event, k) ==
    LET batch == Batch(event, k)
    IN  /\ Invoke(d, batch.start)
        /\ IF batch.next = 0
           THEN Answer(d, "allowed", event)
           ELSE dispatch' = [dispatch EXCEPT ![d] =
                  [@ EXCEPT !.event = event, !.pc = "await", !.at = batch.next]]

\* The loop of dispatch d goes on from the k-th hook; a runtime that was
\* closed meanwhile runs no more hooks, unless the session ends.
Loop(d, event, k) ==
    LET batch == Batch(event, k)
    IN  IF closed /\ event.pi # "session_shutdown"
        THEN Answer(d, "allowed", event) /\ UNCHANGED <<run, abortedRuns>>
        ELSE /\ Invoke(d, batch.start)
             /\ IF batch.next = 0
                THEN Answer(d, "allowed", event)
                ELSE dispatch' = [dispatch EXCEPT ![d] =
                       [@ EXCEPT !.event = event, !.pc = "await",
                                 !.at = batch.next]]

-----------------------------------------------------------------------------
(* Handlers.                                                               *)

\* Pi emits an event other than the end of the session.
Emit(d, event) ==
    /\ dispatch[d].pc = "new"
    /\ event.pi # "session_shutdown"
    /\ Loop(d, event, 1)
    /\ UNCHANGED <<shutdownVars, verdict, cancelled>>

\* Pi ends the session: earlier work is cancelled; but the promise of an end
\* that has begun already is only awaited.
EndSession(d, event) ==
    /\ dispatch[d].pc = "new"
    /\ event.pi = "session_shutdown"
    /\ Answer(d, "none", event)
    /\ IF shutdownPromise # "none"
       THEN UNCHANGED <<closed, shutdownPromise, ender, pending, abortedRuns>>
       ELSE /\ closed' = TRUE
            /\ shutdownPromise' = "cancelling"
            /\ ender' = d
            /\ pending' = Active
            /\ abortedRuns' = abortedRuns \cup Active
    /\ UNCHANGED <<shutdownRequested, run, verdict, cancelled>>

\* Earlier work is over: the hooks of session-end run, unless shutdown came.
Cancelled ==
    /\ shutdownPromise = "cancelling"
    /\ pending \cap Active = {}
    /\ IF ender = NoDispatch \/ shutdownRequested
       THEN shutdownPromise' = "done" /\ UNCHANGED <<run, abortedRuns, dispatch>>
       ELSE shutdownPromise' = "ending" /\ Loop(ender, Event(ender), 1)
    /\ UNCHANGED <<closed, shutdownRequested, ender, pending, verdict, cancelled>>

\* Mutant: asynchronous hooks of session-end are not waited for.
MutantEndDoesNotWait ==
    /\ shutdownPromise = "ending"
    /\ dispatch[ender].pc = "awaitShutdown"
    /\ shutdownPromise' = "waiting"
    /\ pending' = {}
    /\ UNCHANGED <<closed, shutdownRequested, ender, run, verdict, abortedRuns,
                   dispatch, cancelled>>

\* waitForActive, when the hooks of session-end were dispatched ...
EndHooksDispatched ==
    /\ shutdownPromise = "ending"
    /\ dispatch[ender].pc = "awaitShutdown"
    /\ shutdownPromise' = "waiting"
    /\ pending' = Active
    /\ UNCHANGED <<closed, shutdownRequested, ender, run, verdict, abortedRuns,
                   dispatch, cancelled>>

\* ... and are over.
SessionEnded ==
    /\ shutdownPromise = "waiting"
    /\ pending \cap Active = {}
    /\ shutdownPromise' = "done"
    /\ UNCHANGED <<closed, shutdownRequested, ender, pending, run, verdict,
                   abortedRuns, dispatch, cancelled>>

\* The handler of session_shutdown has awaited the promise.
EndAnswered(d) ==
    /\ dispatch[d].pc = "awaitShutdown"
    /\ shutdownPromise = "done"
    /\ dispatch' = [dispatch EXCEPT ![d].pc = "returned"]
    /\ UNCHANGED <<shutdownVars, run, verdict, abortedRuns, cancelled>>

\* shutdown: everything active is aborted, and waited for.
Shutdown ==
    /\ shutdownRequested' = TRUE
    /\ closed' = TRUE
    /\ abortedRuns' = abortedRuns \cup Active
    /\ IF shutdownPromise # "none"
       THEN UNCHANGED <<shutdownPromise, pending>>
       ELSE shutdownPromise' = "cancelling" /\ pending' = Active
    /\ UNCHANGED <<ender, run, verdict, dispatch, cancelled>>

-----------------------------------------------------------------------------
(* Runs.                                                                   *)

\* The process of an invocation ends; one that was aborted is an error.  What
\* an asynchronous hook decided is reported at most.
RunEnds(i) ==
    /\ run[i] = "running"
    /\ run' = [run EXCEPT ![i] = "ended"]
    /\ IF Hook(i).asynchronous
       THEN UNCHANGED verdict
       ELSE \E v \in IF i \in abortedRuns THEN {"error"} ELSE Decisions :
              verdict' = [verdict EXCEPT ![i] = v]
    /\ UNCHANGED <<shutdownVars, abortedRuns, dispatch, cancelled>>

\* Mutant: an invocation that was aborted is never finished.
MutantAbortedLeft(i) ==
    /\ run[i] = "ended"
    /\ i \notin abortedRuns
    /\ run' = [run EXCEPT ![i] = "settled"]
    /\ dispatch' = IF Hook(i).asynchronous THEN dispatch
                   ELSE [dispatch EXCEPT ![i[1]].pc = "resume"]
    /\ UNCHANGED <<shutdownVars, verdict, abortedRuns, cancelled>>

\* The finally of invoke; the loop is waiting for a synchronous hook.
Settle(i) ==
    /\ run[i] = "ended"
    /\ run' = [run EXCEPT ![i] = "settled"]
    /\ dispatch' = IF Hook(i).asynchronous THEN dispatch
                   ELSE [dispatch EXCEPT ![i[1]].pc = "resume"]
    /\ UNCHANGED <<shutdownVars, verdict, abortedRuns, cancelled>>

\* Mutant: an error of a fail-closed hook lets the tool call pass.
MutantFailOpen(hook, v, plain) ==
    /\ hook.event = "pre-tool"
    /\ v = "deny" \/ (v = "rewrite-input" /\ ~plain /\ hook.failurePolicy = "closed")

\* Whether decision v of a hook blocks the tool call.
Blocks(hook, v, plain) ==
    /\ hook.event = "pre-tool"
    /\ \/ v = "deny"
       \/ v = "error" /\ hook.failurePolicy = "closed"
       \/ v = "rewrite-input" /\ ~plain /\ hook.failurePolicy = "closed"

\* The loop has its hook's decision: it blocks the call, or goes on, after it
\* has rewritten the input of a tool call.
Resume(d) ==
    /\ dispatch[d].pc = "resume"
    /\ LET k == dispatch[d].at
           v == verdict[<<d, k>>]
       IN  IF Blocks(Hooks[k], v, Event(d).plain)
           THEN Answer(d, "blocked", Event(d)) /\ UNCHANGED <<run, abortedRuns>>
           ELSE Loop(d, Event(d), k + 1)
    /\ UNCHANGED <<shutdownVars, verdict, cancelled>>

\* Pi aborts the signal of an event's context: every invocation listens.
PiCancels(d) ==
    /\ dispatch[d].pc # "new"
    /\ cancelled' = cancelled \cup {d}
    /\ abortedRuns' = abortedRuns \cup {i \in Active : i[1] = d}
    /\ UNCHANGED <<shutdownVars, run, verdict, dispatch>>

-----------------------------------------------------------------------------

RuntimeInit ==
    /\ closed = FALSE
    /\ shutdownRequested = FALSE
    /\ shutdownPromise = "none"
    /\ ender = NoDispatch
    /\ pending = {}
    /\ run = [i \in Invocations |-> "none"]
    /\ verdict = [i \in Invocations |-> "none"]
    /\ abortedRuns = {}
    /\ dispatch = [d \in Dispatches |->
         [event |-> CHOOSE e \in Events : TRUE, pc |-> "new", at |-> 0,
          result |-> "none"]]
    /\ cancelled = {}

End == Cancelled \/ EndHooksDispatched \/ SessionEnded

RuntimeNext ==
    \/ \E d \in Dispatches :
         \/ \E e \in Events : Emit(d, e) \/ EndSession(d, e)
         \/ EndAnswered(d) \/ Resume(d) \/ PiCancels(d)
    \/ \E i \in Invocations : RunEnds(i) \/ Settle(i)
    \/ End
    \/ Shutdown

RuntimeSpec == RuntimeInit /\ [][RuntimeNext]_runtimeVars

\* The event loop runs, and every run ends: it has a timeout (HookProcess).
FairRuntimeSpec ==
    /\ RuntimeSpec
    /\ \A i \in Invocations : WF_runtimeVars(RunEnds(i)) /\ WF_runtimeVars(Settle(i))
    /\ \A d \in Dispatches : WF_runtimeVars(Resume(d)) /\ WF_runtimeVars(EndAnswered(d))
    /\ WF_runtimeVars(End)

-----------------------------------------------------------------------------
(* Properties.                                                             *)

\* Once shutdownPromise resolves no hook process runs, and none starts again.
ShutdownIsQuiet == shutdownPromise = "done" => Active = {}

\* A runtime that is closed starts nothing but the hooks of the one dispatch
\* that ends the session.
ClosedStartsNothing ==
    [][\A i \in Invocations :
         closed /\ run[i] = "none" /\ run'[i] # "none" =>
            i[1] = ender /\ Hook(i).event = "session-end"]_runtimeVars

\* A tool call that is allowed while the runtime is open has passed every
\* matching hook, and one that is blocked was blocked by the last to run.
DecisionIsSound ==
    \A d \in Dispatches :
        LET hooks == Applicable(Event(d), 1)
            ran == {k \in hooks : run[<<d, k>>] = "settled"}
            blocking == {k \in ran :
                Blocks(Hooks[k], verdict[<<d, k>>], Event(d).plain)}
        IN  dispatch[d].pc = "returned" /\ Event(d).pi = "tool_call" =>
              /\ dispatch[d].result = "allowed" /\ ~closed =>
                   ran = hooks /\ \A k \in ran :
                     LET v == verdict[<<d, k>>]
                     IN  /\ v # "deny"
                         /\ v = "error" => Hooks[k].failurePolicy = "open"
              /\ dispatch[d].result = "blocked" =>
                   /\ Cardinality(blocking) = 1
                   /\ \A k \in ran, b \in blocking : k <= b

\* Every event is answered and every shutdown completes: as Pi emits a bounded
\* number of events, in the end nobody waits any more.
EverythingEnds ==
    <>[](/\ \A d \in Dispatches : dispatch[d].pc \in {"new", "returned"}
         /\ closed => shutdownPromise = "done")
=============================================================================
