---------------------------- MODULE HookProcess ----------------------------
(***************************************************************************)
(* runProcess of the Pi hook runtime: a hook command runs as the leader of *)
(* its own process group, its output is bounded, and a timeout, an abort,  *)
(* an excess of output or a stream error condemns it: SIGTERM to the group *)
(* at once, SIGKILL after a grace period.  The promise settles when Node   *)
(* reports the child closed, which takes every process that holds its      *)
(* output pipes to have ended.                                             *)
(*                                                                         *)
(* The leader may fork: "descendant" stands for the processes in the       *)
(* group, "daemon" for those that left it with a pipe still open.          *)
(***************************************************************************)
EXTENDS Naturals

CONSTANTS
    Limit,      \* outputLimitBytes, in chunks
    Daemons     \* whether the command may leave a daemon with its pipes

ASSUME LimitAssumption == Limit \in Nat \ {0} /\ Daemons \in BOOLEAN

VARIABLES
    promise,    \* "start" (not spawned), "pending", "resolved" or "rejected"
    failure,    \* the cause that condemned the run, or "none"
    alive,      \* the processes that hold the output pipes
    code,       \* the exit code of the leader, or "none"
    bytes,      \* chunks collected, per stream
    stdin,      \* "open" while the event payload is being written
    broken,     \* the child could not be started: its error event is due
    timer,      \* timeoutTimer is set
    killTimer,  \* killTimer is set
    listening,  \* onAbort listens to the signal
    aborted,    \* the caller has aborted the signal
    terms       \* SIGTERMs sent

vars == <<promise, failure, alive, code, bytes, stdin, broken, timer,
          killTimer, listening, aborted, terms>>

Streams == {"stdout", "stderr"}
Group == {"leader", "descendant"}
Processes == Group \cup {"daemon"}
Causes == {"timeout", "abort", "limit", "error"}
Codes == {"zero", "other"}
Pending == promise = "pending"

-----------------------------------------------------------------------------
(* fail, terminate and cleanup.                                            *)

\* Mutant: a later cause replaces the first.
MutantLastCause(c) ==
    /\ failure' = c
    /\ killTimer' = (killTimer \/ failure = "none")
    /\ terms' = IF failure = "none" THEN terms + 1 ELSE terms
    /\ timer' = FALSE
    /\ listening' = FALSE

\* Mutant: fail gives the group no SIGKILL.
MutantNoKillTimer(c) ==
    IF failure # "none"
    THEN UNCHANGED <<failure, timer, killTimer, listening, terms>>
    ELSE /\ failure' = c
         /\ terms' = terms + 1
         /\ timer' = FALSE
         /\ listening' = FALSE
         /\ UNCHANGED killTimer

\* The first cause counts; the timeout and the listener go, the group gets a
\* SIGTERM and killTimer is set.
fail(c) ==
    IF failure # "none"
    THEN UNCHANGED <<failure, timer, killTimer, listening, terms>>
    ELSE /\ failure' = c
         /\ killTimer' = TRUE
         /\ terms' = terms + 1
         /\ timer' = FALSE
         /\ listening' = FALSE

-----------------------------------------------------------------------------
(* The start of a run.                                                     *)

\* A bad limit or command, a signal aborted before the spawn, or a spawn that
\* throws: the promise rejects and nothing was started.
RejectAtOnce ==
    /\ promise = "start"
    /\ promise' = "rejected"
    /\ failure' = IF aborted THEN "abort" ELSE "error"
    /\ UNCHANGED <<alive, code, bytes, stdin, broken, timer, killTimer,
                   listening, aborted, terms>>

\* spawn returns, with a child or with its error event to come.
Spawn ==
    /\ promise = "start"
    /\ ~aborted
    /\ promise' = "pending"
    /\ broken' \in BOOLEAN
    /\ alive' = IF broken' THEN {} ELSE {"leader"}
    /\ stdin' = "open"
    /\ timer' = TRUE
    /\ listening' = TRUE
    /\ UNCHANGED <<failure, code, bytes, killTimer, aborted, terms>>

-----------------------------------------------------------------------------
(* Events of the child and of the timers.                                  *)

\* collect: a chunk arrives; one too many condemns the run.
Collect(s) ==
    /\ Pending
    /\ alive # {}
    /\ IF failure # "none"
       THEN UNCHANGED <<bytes, failure, timer, killTimer, listening, terms>>
       ELSE /\ bytes' = [bytes EXCEPT ![s] = @ + 1]
            /\ IF bytes'[s] > Limit
               THEN fail("limit")
               ELSE UNCHANGED <<failure, timer, killTimer, listening, terms>>
    /\ UNCHANGED <<promise, alive, code, stdin, broken, aborted>>

\* The child's error event: it could not be started.
ErrorEvent ==
    /\ Pending
    /\ broken
    /\ broken' = FALSE
    /\ fail("error")
    /\ UNCHANGED <<promise, alive, code, bytes, stdin, aborted>>

\* The payload is read, or nobody is left to read it: an EPIPE of stdin.
StdinWritten ==
    /\ Pending
    /\ stdin = "open"
    /\ "leader" \in alive
    /\ stdin' = "ended"
    /\ UNCHANGED <<promise, failure, alive, code, bytes, broken, timer,
                   killTimer, listening, aborted, terms>>

StdinError ==
    /\ Pending
    /\ stdin = "open"
    /\ stdin' = "ended"
    /\ fail("error")
    /\ UNCHANGED <<promise, alive, code, bytes, broken, aborted>>

Timeout ==
    /\ Pending
    /\ timer
    /\ fail("timeout")
    /\ UNCHANGED <<promise, alive, code, bytes, stdin, broken, aborted>>

\* The caller aborts the signal; onAbort runs if it still listens.
Abort ==
    /\ ~aborted
    /\ aborted' = TRUE
    /\ IF Pending /\ listening
       THEN fail("abort")
       ELSE UNCHANGED <<failure, timer, killTimer, listening, terms>>
    /\ UNCHANGED <<promise, alive, code, bytes, stdin, broken>>

\* The grace period is over: SIGKILL to the group.
KillGroup ==
    /\ Pending
    /\ killTimer
    /\ killTimer' = FALSE
    /\ alive' = alive \ Group
    /\ code' = IF "leader" \in alive THEN "other" ELSE code
    /\ UNCHANGED <<promise, failure, bytes, stdin, broken, timer, listening,
                   aborted, terms>>

\* Mutant: the promise settles on the exit of the leader.
MutantSettleOnExit ==
    /\ Pending
    /\ "leader" \notin alive
    /\ ~broken
    /\ promise' = IF code = "zero" THEN "resolved" ELSE "rejected"
    /\ timer' = FALSE
    /\ killTimer' = FALSE
    /\ listening' = FALSE
    /\ UNCHANGED <<failure, alive, code, bytes, stdin, broken, aborted, terms>>

\* The close event: the child exited and nobody holds its output pipes.
Close ==
    /\ Pending
    /\ alive = {}
    /\ ~broken
    /\ promise' = IF failure = "none" THEN "resolved" ELSE "rejected"
    /\ timer' = FALSE
    /\ killTimer' = FALSE
    /\ listening' = FALSE
    /\ UNCHANGED <<failure, alive, code, bytes, stdin, broken, aborted, terms>>

-----------------------------------------------------------------------------
(* The command.                                                            *)

Fork ==
    /\ Pending
    /\ "leader" \in alive
    /\ \E p \in {"descendant"} \cup (IF Daemons THEN {"daemon"} ELSE {}) :
         alive' = alive \cup {p}
    /\ UNCHANGED <<promise, failure, code, bytes, stdin, broken, timer,
                   killTimer, listening, aborted, terms>>

\* A process ends, of itself or of a SIGTERM.
Exit(p) ==
    /\ Pending
    /\ p \in alive
    /\ alive' = alive \ {p}
    /\ code' \in IF p = "leader" THEN Codes ELSE {code}
    /\ UNCHANGED <<promise, failure, bytes, stdin, broken, timer, killTimer,
                   listening, aborted, terms>>

-----------------------------------------------------------------------------

Init ==
    /\ promise = "start"
    /\ failure = "none"
    /\ alive = {}
    /\ code = "none"
    /\ bytes = [s \in Streams |-> 0]
    /\ stdin = "none"
    /\ broken = FALSE
    /\ timer = FALSE
    /\ killTimer = FALSE
    /\ listening = FALSE
    /\ aborted = FALSE
    /\ terms = 0

Next ==
    \/ RejectAtOnce \/ Spawn
    \/ (\E s \in Streams : Collect(s))
    \/ ErrorEvent \/ StdinWritten \/ StdinError
    \/ Timeout \/ Abort \/ KillGroup \/ Close
    \/ Fork \/ (\E p \in Processes : Exit(p))

Spec == Init /\ [][Next]_vars

\* The event loop runs: timers fire, and due events are delivered.
FairSpec ==
    /\ Spec
    /\ WF_vars(Spawn \/ RejectAtOnce)
    /\ WF_vars(ErrorEvent)
    /\ WF_vars(Timeout)
    /\ WF_vars(KillGroup)
    /\ WF_vars(Close)

-----------------------------------------------------------------------------
(* Properties.                                                             *)

Settled == promise \in {"resolved", "rejected"}

\* Every variable has its type.
TypeOK ==
    /\ promise \in {"start", "pending", "resolved", "rejected"}
    /\ failure \in Causes \cup {"none"}
    /\ alive \subseteq Processes
    /\ code \in Codes \cup {"none"}
    /\ bytes \in [Streams -> 0 .. Limit + 1]
    /\ stdin \in {"none", "open", "ended"}
    /\ {broken, timer, killTimer, listening, aborted} \subseteq BOOLEAN
    /\ terms \in 0 .. 1

\* A settled run leaves nothing behind: no timer that would signal a process
\* group that is no longer its own, no listener on the caller's signal, and no
\* process that writes to its pipes.
SettledIsClean ==
    Settled => ~timer /\ ~killTimer /\ ~listening /\ alive = {}

\* However timeout, abort, output and exit race, a run resolves only if it was
\* never condemned, with both streams within the limit.
ResolvedIsWithinBounds ==
    promise = "resolved" =>
        failure = "none" /\ terms = 0 /\ \A s \in Streams : bytes[s] <= Limit

\* A pending run can always end: its timeout is set, or its group is about to
\* be killed, or it has been.
StaysBounded ==
    Pending => timer \/ killTimer \/ alive \cap Group = {}

\* The first cause is the one reported, and a run settles once.
Run == INSTANCE HookRun WITH
    Causes <- Causes,
    NoCause <- "none",
    cause <- failure,
    outcome <- IF Settled THEN promise ELSE "pending"

SettlesOnceForOneCause == Run!Spec

\* A run reaches its end within its timeout and the grace period.
SettlesInTime == <>Settled
=============================================================================
