---------------------------- MODULE ProcessProofs ----------------------------
(***************************************************************************)
(* The places where the program runs others' commands: a hook of Pi's, the *)
(* checks of a vendor's own program, and the runtime that starts hooks.    *)
(*                                                                         *)
(* One run of a hook command, for every output limit and whatever the      *)
(* command leaves behind: the run settles once and for its first cause,    *)
(* leaves nothing behind, and is never without a bound while it is         *)
(* pending.  The argument is one inductive invariant: as long as nothing   *)
(* condemned the run its timeout and its listener are set and its output   *)
(* is within the limit; the first cause takes both away and sets the kill  *)
(* timer; the kill timer goes only with the process group.                 *)
(*                                                                         *)
(* Whatever the commands of native checks do, and however deadline, exit,  *)
(* kill and wait delay race, the verdict of verification names what went   *)
(* wrong with each check, for any number of checks.  The strengthening     *)
(* says what the diagnostics tell of the checks that are over, and what    *)
(* the process of the check at hand tells of its fate.                     *)
(*                                                                         *)
(* For any hooks, events and number of dispatches: once the shutdown is    *)
(* over nothing runs, and a closed runtime starts nothing but the hooks of *)
(* the dispatch that ends the session.  The strengthening says that every  *)
(* synchronous run is one that its dispatch waits for, that only the       *)
(* dispatch that ends the session goes on when the runtime is closed, and  *)
(* that the shutdown waits for whatever runs.  The decision of a tool call *)
(* is sound because the loop has passed every hook before the one that it  *)
(* has come to, and started none of those after it.                        *)
(***************************************************************************)
EXTENDS HookProcess, NativeVerify, PiHookRuntime, TLAPS, WellFoundedInduction, FiniteSetTheorems

\* Before the spawn there is nothing.
Unstarted ==
    promise = "start" =>
        /\ failure = "none" /\ alive = {} /\ terms = 0
        /\ ~timer /\ ~killTimer /\ ~listening /\ ~broken

\* A run is guarded by its timeout until it is condemned, and is signalled
\* only then.
Guarded ==
    /\ failure = "none" => terms = 0 /\ ~killTimer
    /\ Pending => (timer <=> failure = "none")
    /\ Pending => (listening <=> failure = "none")

\* Output beyond the limit has condemned the run.
WithinLimit == failure = "none" => \A s \in Streams : bytes[s] <= Limit

\* A promise that was resolved belongs to a run that was never condemned.
ResolvedUncondemned == promise = "resolved" => failure = "none"

\* The inductive invariant.
IInv ==
    /\ TypeOK /\ Unstarted /\ Guarded /\ WithinLimit
    /\ ResolvedUncondemned /\ SettledIsClean /\ StaysBounded

-----------------------------------------------------------------------------
(* What fail does to the invariant's own vocabulary.                       *)

\* fail condemns a run once: a run already condemned is left as it is.
LEMMA FailFirst ==
    ASSUME NEW c \in Causes, fail(c), failure = "none"
    PROVE  /\ failure' = c /\ failure' # "none"
           /\ killTimer' = TRUE /\ timer' = FALSE /\ listening' = FALSE
           /\ terms' = terms + 1
  BY DEF fail, Causes

LEMMA FailAgain ==
    ASSUME NEW c \in Causes, fail(c), failure # "none"
    PROVE  /\ failure' = failure /\ killTimer' = killTimer
           /\ timer' = timer /\ listening' = listening /\ terms' = terms
  BY DEF fail

\* While a pending run fails, the invariant's parts about timers and causes
\* hold on; what the run printed is up to the caller of fail.
LEMMA FailKeeps ==
    ASSUME NEW c \in Causes, IInv, Pending, fail(c),
           UNCHANGED <<promise, alive, code, aborted>>,
           bytes' \in [Streams -> 0 .. Limit + 1],
           stdin' \in {"none", "open", "ended"}, broken' \in BOOLEAN
    PROVE  IInv'
<1> USE DEF Pending, IInv
<1>1. failure' # "none" /\ failure' \in Causes
  <2>1. CASE failure = "none"  BY <2>1, FailFirst DEF Causes
  <2>2. CASE failure # "none"  BY <2>2, FailAgain DEF TypeOK
  <2> QED  BY <2>1, <2>2
<1>2. /\ killTimer' \in BOOLEAN /\ timer' = FALSE /\ listening' = FALSE
      /\ terms' \in 0 .. 1
  <2>1. CASE failure = "none"
    <3>1. terms = 0  BY <2>1 DEF Guarded
    <3>2. killTimer' = TRUE /\ timer' = FALSE /\ listening' = FALSE
          /\ terms' = terms + 1
      BY <2>1, FailFirst
    <3> QED  BY <3>1, <3>2
  <2>2. CASE failure # "none"  BY <2>2, FailAgain DEF Guarded, TypeOK
  <2> QED  BY <2>1, <2>2
<1>3. killTimer' \/ alive' \cap Group = {}
  <2>1. CASE failure = "none"  BY <2>1, FailFirst
  <2>2. CASE failure # "none"  BY <2>2, FailAgain DEF Guarded, StaysBounded
  <2> QED  BY <2>1, <2>2
<1>4. TypeOK'  BY <1>1, <1>2 DEF TypeOK
<1>5. Unstarted'  BY DEF Unstarted
<1>6. Guarded'  BY <1>1, <1>2 DEF Guarded
<1>7. WithinLimit' /\ ResolvedUncondemned'
  BY <1>1 DEF WithinLimit, ResolvedUncondemned
<1>8. SettledIsClean'  BY DEF SettledIsClean, Settled
<1>9. StaysBounded'  BY <1>3 DEF StaysBounded
<1> QED  BY <1>4, <1>5, <1>6, <1>7, <1>8, <1>9

-----------------------------------------------------------------------------
(* The invariant.                                                          *)

LEMMA InitHolds == Init => IInv
<1> SUFFICES ASSUME Init PROVE IInv
  OBVIOUS
<1> USE LimitAssumption DEF Init
<1>1. bytes \in [Streams -> 0 .. Limit + 1]
  OBVIOUS
<1>2. TypeOK
  <2>1. terms \in 0 .. 1 /\ alive \subseteq Processes
    OBVIOUS
  <2>2. {broken, timer, killTimer, listening, aborted} \subseteq BOOLEAN
    OBVIOUS
  <2> QED  BY <1>1, <2>1, <2>2 DEF TypeOK
<1>3. WithinLimit  BY DEF WithinLimit
<1>4. Unstarted /\ Guarded /\ ResolvedUncondemned /\ StaysBounded
  BY DEF Unstarted, Guarded, ResolvedUncondemned, StaysBounded, Pending
<1>5. SettledIsClean  BY DEF SettledIsClean, Settled
<1> QED  BY <1>2, <1>3, <1>4, <1>5 DEF IInv

\* The parts of the invariant, for the steps that touch few variables.
LEMMA NextKeeps == IInv /\ [Next]_vars => IInv'
<1> SUFFICES ASSUME IInv, [Next]_vars PROVE IInv'
  OBVIOUS
<1> USE LimitAssumption DEF IInv
<1>1. CASE RejectAtOnce
  BY <1>1 DEF RejectAtOnce, TypeOK, Unstarted, Guarded, WithinLimit,
     ResolvedUncondemned, SettledIsClean, Settled, StaysBounded, Pending, Causes
<1>2. CASE Spawn
  BY <1>2 DEF Spawn, TypeOK, Unstarted, Guarded, WithinLimit,
     ResolvedUncondemned, SettledIsClean, Settled, StaysBounded, Pending,
     Processes, Group
<1>3. ASSUME NEW s \in Streams, Collect(s) PROVE IInv'
  <2>1. CASE failure # "none"
    BY <1>3, <2>1 DEF Collect, TypeOK, Unstarted, Guarded, WithinLimit,
       ResolvedUncondemned, SettledIsClean, Settled, StaysBounded, Pending
  <2>2. CASE failure = "none"
    <3>1. bytes' = [bytes EXCEPT ![s] = @ + 1]  BY <1>3, <2>2 DEF Collect
    <3>2. bytes[s] \in Nat /\ bytes[s] <= Limit
      BY <2>2, <1>3 DEF WithinLimit, TypeOK
    <3>3. bytes' \in [Streams -> 0 .. Limit + 1]
      BY <3>1, <3>2, <1>3 DEF TypeOK
    <3>4. CASE bytes'[s] > Limit
      <4>1. fail("limit")  BY <1>3, <2>2, <3>4 DEF Collect
      <4>2. "limit" \in Causes  BY DEF Causes
      <4> QED  BY <1>3, <3>3, <4>1, <4>2, FailKeeps DEF Collect, TypeOK
    <3>5. CASE ~(bytes'[s] > Limit)
      <4>1. UNCHANGED <<failure, timer, killTimer, listening, terms>>
        BY <1>3, <2>2, <3>5 DEF Collect
      <4>2. WithinLimit'
        <5> SUFFICES ASSUME NEW t \in Streams PROVE bytes'[t] <= Limit
          BY DEF WithinLimit
        <5>1. CASE t = s  BY <5>1, <3>3, <3>5, <1>3
        <5>2. CASE t # s  BY <5>2, <3>1, <2>2 DEF WithinLimit, TypeOK
        <5> QED  BY <5>1, <5>2
      <4> QED
        BY <1>3, <3>3, <4>1, <4>2 DEF Collect, TypeOK, Unstarted, Guarded,
           ResolvedUncondemned, SettledIsClean, Settled, StaysBounded, Pending
    <3> QED  BY <3>4, <3>5
  <2> QED  BY <2>1, <2>2
<1>4. CASE ErrorEvent
  <2>1. "error" \in Causes  BY DEF Causes
  <2> QED  BY <1>4, <2>1, FailKeeps DEF ErrorEvent, TypeOK
<1>5. CASE StdinWritten
  BY <1>5 DEF StdinWritten, TypeOK, Unstarted, Guarded, WithinLimit,
     ResolvedUncondemned, SettledIsClean, Settled, StaysBounded, Pending
<1>6. CASE StdinError
  <2>1. "error" \in Causes  BY DEF Causes
  <2> QED  BY <1>6, <2>1, FailKeeps DEF StdinError, TypeOK
<1>7. CASE Timeout
  <2>1. "timeout" \in Causes  BY DEF Causes
  <2> QED  BY <1>7, <2>1, FailKeeps DEF Timeout, TypeOK
<1>8. CASE Abort
  <2>1. CASE Pending /\ listening
    <3>1. "abort" \in Causes  BY DEF Causes
    <3>2. fail("abort")  BY <1>8, <2>1 DEF Abort
    <3>3. failure = "none"  BY <2>1 DEF Guarded
    <3>4. failure' = "abort" /\ killTimer' = TRUE /\ timer' = FALSE
          /\ listening' = FALSE /\ terms' = terms + 1
      BY <3>1, <3>2, <3>3, FailFirst
    <3>5. /\ promise' = promise /\ alive' = alive /\ code' = code
          /\ bytes' = bytes /\ stdin' = stdin /\ broken' = broken
          /\ aborted' = TRUE
      BY <1>8 DEF Abort
    <3>6. terms' \in 0 .. 1  BY <3>3, <3>4 DEF Guarded
    <3>7. TypeOK'
      <4>1. {broken', timer', killTimer', listening', aborted'} \subseteq BOOLEAN
        BY <3>4, <3>5 DEF TypeOK
      <4> QED  BY <3>1, <3>4, <3>5, <3>6, <4>1 DEF TypeOK
    <3>8. Guarded' /\ StaysBounded' /\ WithinLimit'
      BY <3>4, <3>5 DEF Guarded, StaysBounded, WithinLimit, Pending
    <3>9. Unstarted' /\ ResolvedUncondemned' /\ SettledIsClean'
      BY <2>1, <3>5 DEF Unstarted, ResolvedUncondemned, SettledIsClean,
         Settled, Pending
    <3> QED  BY <3>7, <3>8, <3>9
  <2>2. CASE ~(Pending /\ listening)
    BY <1>8, <2>2 DEF Abort, TypeOK, Unstarted, Guarded, WithinLimit,
       ResolvedUncondemned, SettledIsClean, Settled, StaysBounded, Pending
  <2> QED  BY <2>1, <2>2
<1>9. CASE KillGroup
  BY <1>9 DEF KillGroup, TypeOK, Unstarted, Guarded, WithinLimit, Codes,
     ResolvedUncondemned, SettledIsClean, Settled, StaysBounded, Pending, Group
<1>10. CASE Close
  BY <1>10 DEF Close, TypeOK, Unstarted, Guarded, WithinLimit,
     ResolvedUncondemned, SettledIsClean, Settled, StaysBounded, Pending
<1>11. CASE Fork
  <2>1. alive' \subseteq Processes
    BY <1>11 DEF Fork, TypeOK, Processes, Group
  <2>2. timer \/ killTimer
    BY <1>11 DEF Fork, StaysBounded, Group
  <2> QED
    BY <1>11, <2>1, <2>2 DEF Fork, TypeOK, Unstarted, Guarded, WithinLimit,
       ResolvedUncondemned, SettledIsClean, Settled, StaysBounded, Pending
<1>12. ASSUME NEW p \in Processes, Exit(p) PROVE IInv'
  <2>1. alive' \subseteq alive  BY <1>12 DEF Exit
  <2>2. code' \in Codes \cup {"none"}  BY <1>12 DEF Exit, TypeOK
  <2> QED
    BY <1>12, <2>1, <2>2 DEF Exit, TypeOK, Unstarted, Guarded, WithinLimit,
       ResolvedUncondemned, SettledIsClean, Settled, StaysBounded, Pending
<1>13. CASE UNCHANGED vars
  BY <1>13 DEF vars, TypeOK, Unstarted, Guarded, WithinLimit,
     ResolvedUncondemned, SettledIsClean, Settled, StaysBounded, Pending
<1> QED
  BY <1>1, <1>2, <1>3, <1>4, <1>5, <1>6, <1>7, <1>8, <1>9, <1>10, <1>11,
     <1>12, <1>13 DEF Next

\* Every reachable state satisfies the inductive invariant.
THEOREM HookInvariant == Spec => []IInv
  BY InitHolds, NextKeeps, PTL DEF Spec

-----------------------------------------------------------------------------
(* The results.                                                            *)

\* Every variable of a run keeps its type; in particular no run is sent a
\* second SIGTERM and no stream is counted beyond the chunk that condemns it.
THEOREM HookTypes == Spec => []TypeOK
  BY HookInvariant, PTL DEF IInv

\* When the promise has settled there is no timer, no listener and no process
\* with its pipes left.
THEOREM HookLeavesNothing == Spec => []SettledIsClean
  BY HookInvariant, PTL DEF IInv

\* A run resolves only if nothing condemned it and its output was within the
\* limit.
THEOREM HookResolvesWithinBounds == Spec => []ResolvedIsWithinBounds
<1>1. IInv => ResolvedIsWithinBounds
  BY DEF IInv, ResolvedUncondemned, Guarded, WithinLimit,
     ResolvedIsWithinBounds
<1> QED  BY <1>1, HookInvariant, PTL

\* A pending run always has its timeout or its kill timer ahead, or its
\* process group behind it.
THEOREM HookStaysBounded == Spec => []StaysBounded
  BY HookInvariant, PTL DEF IInv

\* The abstract outcome of a run.
Outcome == IF Settled THEN promise ELSE "pending"

LEMMA StepRefines == IInv /\ [Next]_vars => [Run!Next]_<<failure, Outcome>>
<1> SUFFICES ASSUME IInv, [Next]_vars
             PROVE  Run!Next \/ UNCHANGED <<failure, Outcome>>
  BY DEF IInv
<1>0. ASSUME NEW c \in Causes, Pending, fail(c), promise' = promise
      PROVE  Run!Next \/ UNCHANGED <<failure, Outcome>>
  <2>1. CASE failure = "none"
    <3>1. failure' = c  BY <1>0, <2>1, FailFirst
    <3>2. Run!Condemn(c)
      BY <1>0, <2>1, <3>1 DEF Run!Condemn, Settled, Pending
    <3> QED  BY <1>0, <3>2 DEF Run!Next
  <2>2. CASE failure # "none"
    BY <1>0, <2>2, FailAgain DEF Outcome, Settled
  <2> QED  BY <2>1, <2>2
<1>1. CASE RejectAtOnce
  <2>1. failure = "none" /\ failure' \in Causes
    BY <1>1 DEF RejectAtOnce, IInv, Unstarted, Causes
  <2>2. Run!Condemn(failure')
    BY <1>1, <2>1 DEF RejectAtOnce, Run!Condemn, Settled
  <2> QED  BY <2>1, <2>2 DEF Run!Next
<1>2. CASE Spawn
  BY <1>2 DEF Spawn, Outcome, Settled
<1>3. ASSUME NEW s \in Streams, Collect(s)
      PROVE  Run!Next \/ UNCHANGED <<failure, Outcome>>
  <2>1. CASE failure' = failure
    BY <1>3, <2>1 DEF Collect, Outcome, Settled
  <2>2. CASE failure' # failure
    <3>1. fail("limit") /\ "limit" \in Causes
      BY <1>3, <2>2 DEF Collect, Causes
    <3> QED  BY <1>0, <1>3, <3>1 DEF Collect
  <2> QED  BY <2>1, <2>2
<1>4. CASE ErrorEvent \/ StdinError \/ Timeout
  <2>1. {"error", "timeout"} \subseteq Causes  BY DEF Causes
  <2> QED  BY <1>0, <1>4, <2>1 DEF ErrorEvent, StdinError, Timeout
<1>5. CASE Abort
  <2>1. CASE Pending /\ listening
    <3>1. fail("abort") /\ "abort" \in Causes  BY <1>5, <2>1 DEF Abort, Causes
    <3> QED  BY <1>0, <1>5, <2>1, <3>1 DEF Abort
  <2>2. CASE ~(Pending /\ listening)
    BY <1>5, <2>2 DEF Abort, Outcome, Settled
  <2> QED  BY <2>1, <2>2
<1>6. CASE Close
  <2>1. CASE failure = "none"
    <3>1. Run!Resolve
      BY <1>6, <2>1 DEF Close, Run!Resolve, Settled, Pending
    <3> QED  BY <3>1 DEF Run!Next
  <2>2. CASE failure # "none"
    <3>1. Run!Reject
      BY <1>6, <2>2 DEF Close, Run!Reject, Settled, Pending
    <3> QED  BY <3>1 DEF Run!Next
  <2> QED  BY <2>1, <2>2
<1>7. CASE StdinWritten \/ KillGroup \/ Fork
  BY <1>7 DEF StdinWritten, KillGroup, Fork, Outcome, Settled
<1>8. ASSUME NEW p \in Processes, Exit(p)
      PROVE  Run!Next \/ UNCHANGED <<failure, Outcome>>
  BY <1>8 DEF Exit, Outcome, Settled
<1>9. CASE UNCHANGED vars
  BY <1>9 DEF vars, Outcome, Settled
<1> QED
  BY <1>1, <1>2, <1>3, <1>4, <1>5, <1>6, <1>7, <1>8, <1>9 DEF Next

\* A run implements HookRun: it is condemned by its first cause only, settles
\* once, and is rejected if and only if it was condemned.
THEOREM HookRefines == Spec => SettlesOnceForOneCause
<1>1. Init => Run!Init
  BY DEF Init, Run!Init, Settled
<1>2. IInv /\ [Next]_vars => [Run!Next]_Run!vars
  BY StepRefines DEF Run!vars, Outcome
<1> QED
  BY <1>1, <1>2, HookInvariant, PTL DEF Spec, SettlesOnceForOneCause, Run!Spec

-----------------------------------------------------------------------------
(* Native verification *)

\* What may go wrong with a check that was started.
Troubles == {"timeout", "killed", "cut", "status"}
Fates == SUBSET (Refusals \cup Troubles \cup {"none ran"})

Typed ==
    /\ checks \in Nat /\ checks <= MaxChecks
    /\ check \in Nat /\ check >= 1
    /\ success \in BOOLEAN
    /\ deadline \in BOOLEAN /\ expired \in BOOLEAN
    /\ leader \in {"running", "killed", "zero", "nonzero"}
    /\ fate \in [AllChecks -> Fates]

\* The diagnostics of the checks before the one at hand.
Told(n) ==
    /\ success <=> \A c \in 1 .. checks : c < n => fate[c] = {}
    /\ errors = {<<c, Diagnosis(fate[c])>> :
                    c \in {d \in 1 .. checks : d < n /\ fate[d] # {}}}

Before ==
    pc = "start" =>
        /\ errors = {}
        /\ check = 1
        /\ \A c \in AllChecks : fate[c] = {}

Between ==
    pc = "next" =>
        /\ Told(check)
        /\ check <= checks + 1
        /\ \A c \in AllChecks : c >= check => fate[c] = {}

During ==
    pc \in {"run", "judge"} =>
        /\ Told(check)
        /\ check <= checks
        /\ \A c \in AllChecks : c > check => fate[c] = {}
        /\ fate[check] \subseteq Troubles
        /\ deadline <=> "timeout" \in fate[check]
        /\ leader = "killed" <=> "killed" \in fate[check]
        /\ leader = "killed" => deadline
        /\ expired <=> "cut" \in fate[check]
        /\ leader = "nonzero" <=> "status" \in fate[check]
        /\ pc = "judge" => leader # "running"

VInv ==
    /\ Typed
    /\ Before
    /\ Between
    /\ During
    /\ VerdictIsSound

-----------------------------------------------------------------------------
(* Diagnoses *)

LEMMA RefusalDiagnosis ==
    ASSUME NEW r \in Refusals PROVE Diagnosis({r}) = r
<1>1. "timeout" \notin {r}  BY DEF Refusals
<1>2. {r} \in {{x} : x \in Refusals}  OBVIOUS
<1>3. (CHOOSE x \in {r} : TRUE) = r  OBVIOUS
<1> QED  BY <1>1, <1>2, <1>3 DEF Diagnosis

LEMMA FailedDiagnosis ==
    ASSUME NEW happened \in SUBSET Troubles, "timeout" \notin happened, happened # {}
    PROVE  Diagnosis(happened) = "failed"
<1>1. happened \notin {{r} : r \in Refusals}  BY DEF Troubles, Refusals
<1> QED  BY <1>1 DEF Diagnosis

-----------------------------------------------------------------------------
(* A check is over *)

\* What happens to the check at hand, and to no other.
LEMMA HappensOnly ==
    ASSUME Typed, check \in AllChecks, NEW what \in Refusals \cup Troubles, Happens(what)
    PROVE  /\ fate' \in [AllChecks -> Fates]
           /\ fate'[check] = fate[check] \cup {what}
           /\ \A c \in AllChecks : c # check => fate'[c] = fate[c]
<1>1. fate' = [fate EXCEPT ![check] = fate[check] \cup {what}]  BY DEF Happens
<1>2. fate[check] \cup {what} \in Fates  BY DEF Typed, Fates
<1> QED  BY <1>1, <1>2 DEF Typed

\* Its diagnostic joins those of the checks before it.
LEMMA AddTells ==
    ASSUME Typed, check <= checks, UNCHANGED checks, Told(check),
           fate' \in [AllChecks -> Fates],
           \A c \in AllChecks : c # check => fate'[c] = fate[c],
           \A c \in AllChecks : c > check => fate[c] = {},
           check' = check + 1, pc' = "next",
           \/ fate'[check] # {} /\ Add(Diagnosis(fate'[check]))
           \/ fate'[check] = {} /\ UNCHANGED <<success, errors>>
    PROVE  Before' /\ Between' /\ During' /\ success' \in BOOLEAN
<1>1. check \in 1 .. checks /\ 1 .. checks \subseteq AllChecks  BY BoundAssumption DEF Typed, AllChecks
<1>2. checks \in Nat /\ check \in Nat /\ checks' = checks  BY DEF Typed
<1>3. success' <=> \A c \in 1 .. checks : c < check + 1 => fate'[c] = {}
  <2>1. success <=> \A c \in 1 .. checks : c < check => fate'[c] = {}
    BY <1>1, <1>2 DEF Told
  <2>2. success' <=> success /\ fate'[check] = {}  BY DEF Add, Typed
  <2> QED  BY <1>1, <1>2, <2>1, <2>2
<1>4. errors' = {<<c, Diagnosis(fate'[c])>> :
                   c \in {d \in 1 .. checks : d < check + 1 /\ fate'[d] # {}}}
  <2>1. errors = {<<c, Diagnosis(fate'[c])>> :
                    c \in {d \in 1 .. checks : d < check /\ fate'[d] # {}}}
    <3>1. \A c \in 1 .. checks : c < check => fate'[c] = fate[c]  BY <1>1, <1>2
    <3> QED  BY <3>1 DEF Told
  <2>2. CASE fate'[check] # {}
    <3>1. errors' = errors \cup {<<check, Diagnosis(fate'[check])>>}  BY <2>2 DEF Add
    <3>2. {d \in 1 .. checks : d < check + 1 /\ fate'[d] # {}} =
             {d \in 1 .. checks : d < check /\ fate'[d] # {}} \cup {check}
      BY <1>1, <1>2, <2>2
    <3> QED  BY <2>1, <3>1, <3>2
  <2>3. CASE fate'[check] = {}
    <3>1. errors' = errors  BY <2>3
    <3>2. {d \in 1 .. checks : d < check + 1 /\ fate'[d] # {}} =
             {d \in 1 .. checks : d < check /\ fate'[d] # {}}
      BY <1>1, <1>2, <2>3
    <3> QED  BY <2>1, <3>1, <3>2
  <2> QED  BY <2>2, <2>3
<1>5. Told(check)'  BY <1>2, <1>3, <1>4 DEF Told, Diagnosis
<1>6. \A c \in AllChecks : c >= check' => fate'[c] = {}  BY <1>2 DEF AllChecks
<1>7. Between'  BY <1>2, <1>5, <1>6 DEF Between
<1>8. success' \in BOOLEAN  BY DEF Add, Typed
<1> QED  BY <1>7, <1>8 DEF Before, During

-----------------------------------------------------------------------------
(* The steps of the runner *)

LEMMA BeginKeeps == ASSUME VInv, Begin PROVE VInv'
<1>1. /\ pc = "start" /\ errors = {} /\ check = 1 /\ \A c \in AllChecks : fate[c] = {}
      /\ UNCHANGED <<checks, check, deadline, expired, leader>>
  BY DEF Begin, VInv, Before, process
<1>2. checks \in Nat /\ 1 .. checks \subseteq AllChecks  BY BoundAssumption DEF VInv, Typed, AllChecks
<1>3. CASE /\ pc' = (IF checks = 0 THEN "return" ELSE "next")
           /\ success' = TRUE /\ UNCHANGED <<errors, fate>>
  <2>1. Typed'  BY <1>1, <1>3 DEF VInv, Typed
  <2>2. Told(check)'  BY <1>1, <1>2, <1>3 DEF Told
  <2>3. Between'  BY <1>1, <1>2, <1>3, <2>2 DEF Between
  <2>4. VerdictIsSound'  BY <1>1, <1>2, <1>3 DEF VerdictIsSound
  <2>5. Before' /\ During'  BY <1>1, <1>3 DEF Before, During
  <2> QED  BY <2>1, <2>3, <2>4, <2>5 DEF VInv
<1>4. CASE /\ checks # 0 /\ pc' = "return"
           /\ \E why \in {"output-root-unavailable", "isolation-unavailable"} :
                 Add(why) /\ fate' = [c \in AllChecks |-> {"none ran"}]
  <2>1. success' = FALSE /\ fate' = [c \in AllChecks |-> {"none ran"}]  BY <1>4 DEF Add
  <2>2. Typed'  BY <1>1, <2>1 DEF VInv, Typed, Fates
  <2>3. checks # 0  BY <1>4
  <2>4. 1 \in 1 .. checks  BY <1>2, <2>3
  <2>5. fate'[1] = {"none ran"}  BY <1>2, <2>1, <2>4
  <2>6. VerdictIsSound'  BY <1>1, <2>1, <2>4, <2>5 DEF VerdictIsSound, Begun
  <2>7. Before' /\ Between' /\ During'  BY <1>4 DEF Before, Between, During
  <2> QED  BY <2>2, <2>6, <2>7 DEF VInv
<1> QED  BY <1>3, <1>4 DEF Begin

LEMMA RefuseKeeps == ASSUME VInv, Refuse PROVE VInv'
<1>1. /\ pc = "next" /\ check <= checks /\ pc' = "next" /\ check' = check + 1
      /\ UNCHANGED <<checks, deadline, expired, leader>>
  BY DEF Refuse, Advance, process
<1>2. PICK why \in Refusals \cup {"timeout"} : Add(why) /\ Happens(why)  BY DEF Refuse
<1>3. check \in AllChecks  BY <1>1, BoundAssumption DEF VInv, Typed, AllChecks
<1>4. /\ fate' \in [AllChecks -> Fates] /\ fate'[check] = fate[check] \cup {why}
      /\ \A c \in AllChecks : c # check => fate'[c] = fate[c]
  BY <1>2, <1>3, HappensOnly DEF VInv, Troubles
<1>5. Told(check) /\ \A c \in AllChecks : c >= check => fate[c] = {}
  BY <1>1 DEF VInv, Between
<1>6. fate'[check] = {why}
  <2>1. fate[check] = {}  BY <1>3, <1>5 DEF VInv, Typed
  <2> QED  BY <1>4, <2>1
<1>7. Diagnosis({why}) = why  BY RefusalDiagnosis DEF Diagnosis
<1>8. \A c \in AllChecks : c > check => fate[c] = {}  BY <1>5 DEF VInv, Typed, AllChecks
<1>9. Before' /\ Between' /\ During' /\ success' \in BOOLEAN
  BY <1>1, <1>2, <1>4, <1>5, <1>6, <1>7, <1>8, AddTells DEF VInv
<1>10. Typed'  BY <1>1, <1>4, <1>9 DEF VInv, Typed
<1>11. VerdictIsSound'  BY <1>1 DEF VerdictIsSound
<1> QED  BY <1>9, <1>10, <1>11 DEF VInv

LEMMA StartKeeps == ASSUME VInv, Start PROVE VInv'
<1>1. /\ pc = "next" /\ check <= checks /\ pc' = "run"
      /\ leader' = "running" /\ deadline' = FALSE /\ expired' = FALSE
      /\ UNCHANGED <<checks, check, success, errors, fate>>
  BY DEF Start, result
<1>2. Typed'  BY <1>1 DEF VInv, Typed
<1>3. Told(check)'  BY <1>1 DEF VInv, Between, Told
<1>4. fate[check] = {}  BY <1>1, BoundAssumption DEF VInv, Between, Typed, AllChecks
<1>5. \A c \in AllChecks : c > check => fate[c] = {}
  BY <1>1 DEF VInv, Between, Typed, AllChecks
<1>6. During'  BY <1>1, <1>3, <1>4, <1>5 DEF During
<1>7. Before' /\ Between' /\ VerdictIsSound'  BY <1>1 DEF Before, Between, VerdictIsSound
<1> QED  BY <1>2, <1>6, <1>7 DEF VInv

LEMMA WaitReturnsKeeps == ASSUME VInv, WaitReturns PROVE VInv'
<1>1. /\ pc = "run" /\ pc' = "judge" /\ leader # "running"
      /\ UNCHANGED <<checks, check, success, errors, fate, leader, deadline, expired>>
  BY DEF WaitReturns, result, process
<1>2. Typed'  BY <1>1 DEF VInv, Typed
<1>3. Told(check)'  BY <1>1 DEF VInv, During, Told
<1>4. During'  BY <1>1, <1>3 DEF VInv, During
<1>5. Before' /\ Between' /\ VerdictIsSound'  BY <1>1 DEF Before, Between, VerdictIsSound
<1> QED  BY <1>2, <1>4, <1>5 DEF VInv

LEMMA JudgeKeeps == ASSUME VInv, Judge PROVE VInv'
<1>1. /\ pc = "judge" /\ pc' = "next" /\ check' = check + 1
      /\ UNCHANGED <<checks, fate, leader, deadline, expired>>
  BY DEF Judge, Advance, process
<1>2. /\ Told(check) /\ check <= checks /\ fate[check] \subseteq Troubles
      /\ \A c \in AllChecks : c > check => fate[c] = {}
  BY <1>1 DEF VInv, During
<1>3. /\ deadline <=> "timeout" \in fate[check]
      /\ leader = "killed" <=> "killed" \in fate[check]
      /\ leader = "killed" => deadline
      /\ expired <=> "cut" \in fate[check]
      /\ leader = "nonzero" <=> "status" \in fate[check]
      /\ leader \in {"killed", "zero", "nonzero"}
  BY <1>1 DEF VInv, During, Typed
<1>4. fate' = fate /\ fate' \in [AllChecks -> Fates]  BY <1>1 DEF VInv, Typed
<1>5. \/ fate[check] # {} /\ Add(Diagnosis(fate[check]))
      \/ fate[check] = {} /\ UNCHANGED <<success, errors>>
  <2>1. CASE deadline
    <3>1. Add("timeout")  BY <2>1 DEF Judge
    <3>2. "timeout" \in fate[check]  BY <1>3, <2>1
    <3> QED  BY <3>1, <3>2 DEF Diagnosis
  <2>2. CASE ~deadline /\ WaitError
    <3>1. Add("failed")  BY <2>2 DEF Judge
    <3>2. "timeout" \notin fate[check] /\ fate[check] # {}
      BY <1>3, <2>2 DEF WaitError
    <3> QED  BY <1>2, <3>1, <3>2, FailedDiagnosis
  <2>3. CASE ~deadline /\ ~WaitError
    <3>1. UNCHANGED <<success, errors>>  BY <2>3 DEF Judge
    <3>2. leader = "zero" /\ ~expired  BY <2>3 DEF WaitError
    <3>3. fate[check] = {}  BY <1>2, <1>3, <2>3, <3>2 DEF Troubles
    <3> QED  BY <3>1, <3>3
  <2> QED  BY <2>1, <2>2, <2>3
<1>6. Before' /\ Between' /\ During' /\ success' \in BOOLEAN
  BY <1>1, <1>2, <1>4, <1>5, AddTells DEF VInv
<1>7. Typed'  BY <1>1, <1>6 DEF VInv, Typed
<1>8. VerdictIsSound'  BY <1>1 DEF VerdictIsSound
<1> QED  BY <1>6, <1>7, <1>8 DEF VInv

\* All checks are over, and the diagnostics tell of all of them.
LEMMA ReturnKeeps == ASSUME VInv, Return PROVE VInv'
<1>1. /\ pc = "next" /\ pc' = "return" /\ check > checks
      /\ UNCHANGED <<checks, check, success, errors, fate, leader, deadline, expired>>
  BY DEF Return, result, process
<1>2. Told(check) /\ checks \in Nat /\ check \in Nat  BY <1>1 DEF VInv, Between, Typed
<1>3. \A c \in 1 .. checks : c < check  BY <1>1, <1>2
<1>4. success <=> \A c \in 1 .. checks : fate[c] = {}  BY <1>2, <1>3 DEF Told
<1>5. errors = {<<c, Diagnosis(fate[c])>> : c \in {d \in 1 .. checks : fate[d] # {}}}
  <2>1. {d \in 1 .. checks : d < check /\ fate[d] # {}} = {d \in 1 .. checks : fate[d] # {}}
    BY <1>3
  <2> QED  BY <1>2, <2>1 DEF Told
<1>6. VerdictIsSound'  BY <1>1, <1>4, <1>5 DEF VerdictIsSound
<1>7. Typed'  BY <1>1 DEF VInv, Typed
<1>8. Before' /\ Between' /\ During'  BY <1>1 DEF Before, Between, During
<1> QED  BY <1>6, <1>7, <1>8 DEF VInv

-----------------------------------------------------------------------------
(* The steps of os/exec and of the command *)

\* The check at hand goes on, and what happens to it is noted.
LEMMA OngoingKeeps ==
    ASSUME VInv, pc \in {"run", "judge"}, UNCHANGED <<checks, pc, check, success, errors>>,
           leader' \in {"running", "killed", "zero", "nonzero"},
           deadline' \in BOOLEAN, expired' \in BOOLEAN,
           \/ UNCHANGED fate
           \/ \E what \in Troubles : Happens(what),
           deadline' <=> "timeout" \in fate'[check],
           leader' = "killed" <=> "killed" \in fate'[check],
           leader' = "killed" => deadline',
           expired' <=> "cut" \in fate'[check],
           leader' = "nonzero" <=> "status" \in fate'[check],
           pc = "judge" => leader' # "running"
    PROVE  VInv'
<1>1. check \in AllChecks /\ check <= checks  BY BoundAssumption DEF VInv, During, Typed, AllChecks
<1>2. /\ fate' \in [AllChecks -> Fates]
      /\ fate'[check] \subseteq fate[check] \cup Troubles
      /\ \A c \in AllChecks : c # check => fate'[c] = fate[c]
  <2>1. CASE UNCHANGED fate  BY <2>1 DEF VInv, Typed
  <2>2. ASSUME NEW what \in Troubles, Happens(what)
        PROVE  /\ fate' \in [AllChecks -> Fates]
               /\ fate'[check] \subseteq fate[check] \cup Troubles
               /\ \A c \in AllChecks : c # check => fate'[c] = fate[c]
    BY <1>1, <2>2, HappensOnly DEF VInv
  <2> QED  BY <2>1, <2>2
<1>3. Typed'  BY <1>2 DEF VInv, Typed
<1>4. Told(check)'
  <2>1. \A c \in 1 .. checks : c < check => fate'[c] = fate[c]
    BY <1>2, BoundAssumption DEF VInv, Typed, AllChecks
  <2>2. Told(check)  BY DEF VInv, During
  <2>3. success' <=> \A c \in 1 .. checks : c < check => fate'[c] = {}
    BY <2>1, <2>2 DEF Told
  <2>4. {d \in 1 .. checks : d < check /\ fate'[d] # {}} = {d \in 1 .. checks : d < check /\ fate[d] # {}}
    BY <2>1
  <2>5. errors' = {<<c, Diagnosis(fate'[c])>> :
                     c \in {d \in 1 .. checks : d < check /\ fate'[d] # {}}}
    BY <2>1, <2>2, <2>4 DEF Told
  <2> QED  BY <2>3, <2>5 DEF Told
<1>5. \A c \in AllChecks : c > check => fate'[c] = {}
  BY <1>1, <1>2 DEF VInv, During, AllChecks
<1>6. fate'[check] \subseteq Troubles  BY <1>2 DEF VInv, During
<1>7. During'  BY <1>1, <1>4, <1>5, <1>6 DEF During
<1>8. Before' /\ Between' /\ VerdictIsSound'  BY DEF Before, Between, VerdictIsSound
<1> QED  BY <1>3, <1>7, <1>8 DEF VInv

\* A step that moves output, or strays.
LEMMA OutputKeeps ==
    ASSUME VInv, pc = "run",
           UNCHANGED <<checks, pc, check, success, errors, leader, deadline, expired, fate>>
    PROVE  VInv'
  BY OngoingKeeps DEF VInv, During, Typed

LEMMA ExecKeeps == ASSUME VInv, Exec PROVE VInv'
<1>1. CASE \E s \in Pipes : Copy(s)
  BY <1>1, OutputKeeps DEF Copy, result, process
<1>2. ASSUME pc \in {"run", "judge"}, NEW what \in Troubles, Happens(what)
      PROVE  fate'[check] = fate[check] \cup {what}
  <2>1. check \in AllChecks  BY <1>2, BoundAssumption DEF VInv, During, Typed, AllChecks
  <2> QED  BY <1>2, <2>1, HappensOnly DEF VInv
<1>3. CASE DeadlinePasses
  <2>1. /\ pc \in {"run", "judge"} /\ Happens("timeout") /\ deadline' = TRUE
        /\ UNCHANGED <<checks, pc, check, success, errors, leader, expired>>
    BY <1>3 DEF DeadlinePasses, result
  <2>2. fate'[check] = fate[check] \cup {"timeout"}  BY <1>2, <2>1 DEF Troubles
  <2> QED  BY <2>1, <2>2, OngoingKeeps DEF VInv, During, Typed, Troubles
<1>4. CASE Cancel
  <2>1. /\ pc = "run" /\ Happens("killed") /\ deadline /\ leader = "running" /\ leader' = "killed"
        /\ UNCHANGED <<checks, pc, check, success, errors, deadline, expired>>
    BY <1>4 DEF Cancel, result
  <2>2. fate'[check] = fate[check] \cup {"killed"}  BY <1>2, <2>1 DEF Troubles
  <2> QED  BY <2>1, <2>2, OngoingKeeps DEF VInv, During, Typed, Troubles
<1>5. CASE Expire
  <2>1. /\ pc = "run" /\ Happens("cut") /\ expired' = TRUE
        /\ UNCHANGED <<checks, pc, check, success, errors, leader, deadline>>
    BY <1>5 DEF Expire, result
  <2>2. fate'[check] = fate[check] \cup {"cut"}  BY <1>2, <2>1 DEF Troubles
  <2> QED  BY <2>1, <2>2, OngoingKeeps DEF VInv, During, Typed, Troubles
<1> QED  BY <1>1, <1>3, <1>4, <1>5 DEF Exec

LEMMA CommandKeeps == ASSUME VInv, Command PROVE VInv'
<1>1. CASE \E s \in Pipes : Output(s)
  BY <1>1, OutputKeeps DEF Output, result, process
<1>2. CASE Stray
  BY <1>2, OutputKeeps DEF Stray, result, streams
<1>3. CASE CommandExits
  <2>1. /\ pc = "run" /\ leader = "running"
        /\ UNCHANGED <<checks, pc, check, success, errors, deadline, expired>>
    BY <1>3 DEF CommandExits, result
  <2>2. CASE leader' = "zero" /\ UNCHANGED fate
    BY <2>1, <2>2, OngoingKeeps DEF VInv, During, Typed
  <2>3. CASE leader' = "nonzero" /\ Happens("status")
    <3>1. check \in AllChecks  BY <2>1, BoundAssumption DEF VInv, During, Typed, AllChecks
    <3>2. fate'[check] = fate[check] \cup {"status"}
      BY <2>3, <3>1, HappensOnly DEF VInv, Troubles
    <3> QED  BY <2>1, <2>3, <3>2, OngoingKeeps DEF VInv, During, Typed, Troubles
  <2> QED  BY <1>3, <2>2, <2>3 DEF CommandExits
<1> QED  BY <1>1, <1>2, <1>3 DEF Command

LEMMA StutterKeeps == ASSUME VInv, UNCHANGED verifyVars PROVE VInv'
<1>1. UNCHANGED <<checks, pc, check, success, errors, leader, deadline, expired, fate>>
  BY DEF verifyVars, result, process
<1>2. Typed' /\ Before' /\ VerdictIsSound'
  BY <1>1 DEF VInv, Typed, Before, VerdictIsSound, Begun
<1>3. Told(check)' = Told(check)  BY <1>1 DEF Told
<1>4. Between' /\ During'  BY <1>1, <1>3 DEF VInv, Between, During
<1> QED  BY <1>2, <1>4 DEF VInv

LEMMA VerifyInitHolds == VerifyInit => VInv
<1> SUFFICES ASSUME VerifyInit PROVE VInv
  OBVIOUS
<1>1. Typed
  <2>1. fate \in [AllChecks -> Fates]  BY DEF VerifyInit, Fates
  <2>2. checks \in Nat /\ checks <= MaxChecks  BY BoundAssumption DEF VerifyInit
  <2>3. check \in Nat /\ check >= 1  BY DEF VerifyInit
  <2>4. success \in BOOLEAN /\ deadline \in BOOLEAN /\ expired \in BOOLEAN  BY DEF VerifyInit
  <2>5. leader \in {"running", "killed", "zero", "nonzero"}  BY DEF VerifyInit
  <2> QED  BY <2>1, <2>2, <2>3, <2>4, <2>5 DEF Typed
<1>2. Before /\ Between /\ During /\ VerdictIsSound
  BY DEF VerifyInit, Before, Between, During, VerdictIsSound
<1> QED  BY <1>1, <1>2 DEF VInv

-----------------------------------------------------------------------------
(* The theorems *)

\* What the diagnostics and the process of a check tell of its fate.
THEOREM VerifyInvariant == VerifySpec => []VInv
<1>1. ASSUME VInv, [VerifyNext]_verifyVars PROVE VInv'
  BY <1>1, BeginKeeps, RefuseKeeps, StartKeeps, WaitReturnsKeeps, JudgeKeeps, ReturnKeeps,
     ExecKeeps, CommandKeeps, StutterKeeps DEF VerifyNext, Runner
<1> QED  BY <1>1, VerifyInitHolds, PTL DEF VerifySpec

\* Each check that went wrong has the one error that says how, and verification
\* succeeds exactly when none did (RunNativeChecks, Result.add).
THEOREM VerdictSound == VerifySpec => []VerdictIsSound
<1>1. VInv => VerdictIsSound  BY DEF VInv
<1> QED  BY <1>1, VerifyInvariant, PTL

-----------------------------------------------------------------------------
(* The runtime that starts hooks and ends them *)

SomeEvent == CHOOSE e \in Events : TRUE

Rows == [event : Events \cup {SomeEvent},
         pc : {"new", "await", "resume", "awaitShutdown", "returned"},
         at : DOMAIN Hooks \cup {0},
         result : {"none", "allowed", "blocked"}]

RuntimeTyped ==
    /\ run \in [Invocations -> {"none", "running", "ended", "settled"}]
    /\ dispatch \in [Dispatches -> Rows]
    /\ ender \in Dispatches \cup {NoDispatch}
    /\ shutdownPromise \in {"none", "cancelling", "ending", "waiting", "done"}

\* A dispatch waits for its one synchronous hook that runs.
Awaited ==
    \A i \in Active : ~Hook(i).asynchronous =>
        dispatch[i[1]].pc = "await" /\ dispatch[i[1]].at = i[2]

\* Of the dispatches for the end of the session one runs hooks, and only when
\* earlier work is over.
OneEnds ==
    \A d \in Dispatches : Ends(d) /\ dispatch[d].pc \in {"await", "resume"} =>
        d = ender /\ shutdownPromise = "ending"

EnderEnds ==
    /\ ender # NoDispatch =>
          shutdownPromise # "none" /\ Ends(ender) /\ dispatch[ender].pc # "new"
    /\ shutdownPromise \in {"ending", "waiting"} => ender # NoDispatch

\* What runs is waited for.
Closing ==
    /\ shutdownPromise # "none" => closed
    /\ shutdownPromise \in {"cancelling", "waiting"} => Active \subseteq pending
    /\ ShutdownIsQuiet

RuntimeInv ==
    /\ RuntimeTyped
    /\ Awaited
    /\ OneEnds
    /\ EnderEnds
    /\ Closing

-----------------------------------------------------------------------------
(* Batches and answers *)

LEMMA LeastIsLeast ==
    ASSUME NEW S \in SUBSET Nat, S # {}
    PROVE  Least(S) \in S /\ \A m \in S : Least(S) <= m
<1>1. PICK n \in S : \A m \in S : ~(<<m, n>> \in OpToRel(<, Nat))
  BY NatLessThanWellFounded, WFMin
<1>2. ASSUME NEW m \in S PROVE n <= m
  <2>1. <<m, n>> \in Nat \X Nat /\ <<m, n>>[1] = m /\ <<m, n>>[2] = n  OBVIOUS
  <2>2. m < n => <<m, n>> \in OpToRel(<, Nat)  BY <2>1 DEF OpToRel
  <2>3. m \in Nat /\ n \in Nat /\ ~(m < n)  BY <1>1, <2>2
  <2> QED  BY <2>3
<1> QED  BY <1>2 DEF Least

\* Of the hooks of a batch the last is waited for, if it is synchronous.
LEMMA BatchWaitsForOne ==
    ASSUME NEW event, NEW k
    PROVE  /\ Batch(event, k).start \subseteq Applicable(event, k)
           /\ Batch(event, k).next = 0 =>
                 \A n \in Batch(event, k).start : Hooks[n].asynchronous
           /\ Batch(event, k).next # 0 =>
                 /\ Batch(event, k).next \in DOMAIN Hooks
                 /\ \A n \in Batch(event, k).start :
                       ~Hooks[n].asynchronous => n = Batch(event, k).next
<1> DEFINE hooks == Applicable(event, k)
           waiting == {n \in hooks : ~Hooks[n].asynchronous}
           next == IF waiting = {} THEN 0 ELSE Least(waiting)
<1>1. hooks \subseteq DOMAIN Hooks /\ DOMAIN Hooks \subseteq Nat \ {0}
  BY HooksAssumption DEF Applicable
<1>2. /\ Batch(event, k).start = {n \in hooks : next = 0 \/ n <= next}
      /\ Batch(event, k).next = next
  BY DEF Batch
<1> HIDE DEF hooks
<1>3. CASE waiting = {}  BY <1>2, <1>3 DEF hooks
<1>4. CASE waiting # {}
  <2>1. waiting \in SUBSET Nat /\ waiting \subseteq DOMAIN Hooks  BY <1>1
  <2>2. next \in waiting /\ \A m \in waiting : next <= m
    BY <1>4, <2>1, LeastIsLeast
  <2> HIDE DEF waiting
  <2>3. next \in Nat \ {0} /\ next \in DOMAIN Hooks  BY <1>1, <2>1, <2>2
  <2> HIDE DEF next
  <2>4. ASSUME NEW n \in hooks, n <= next, ~Hooks[n].asynchronous PROVE n = next
    <3>1. n \in waiting  BY <2>4 DEF waiting
    <3>2. n \in Nat /\ next <= n  BY <2>1, <2>2, <3>1
    <3> QED  BY <2>3, <2>4, <3>2
  <2> QED  BY <1>2, <2>3, <2>4 DEF hooks
<1> QED  BY <1>3, <1>4

\* The place of a dispatch when it has its answer.
Answered(event) == IF event.pi = "session_shutdown" THEN "awaitShutdown" ELSE "returned"

\* Nothing changes for the other dispatches.
OnlyRow(d) ==
    /\ dispatch' \in [Dispatches -> Rows]
    /\ \A c \in Dispatches : c # d => dispatch'[c] = dispatch[c]

LEMMA AnswerOnly ==
    ASSUME RuntimeTyped, NEW d \in Dispatches, NEW event \in Events \cup {SomeEvent},
           NEW r \in {"none", "allowed", "blocked"}, Answer(d, r, event)
    PROVE  /\ OnlyRow(d)
           /\ dispatch'[d].event = event
           /\ dispatch'[d].pc = Answered(event)
<1> DEFINE row == [dispatch[d] EXCEPT !.event = event, !.result = r, !.pc = Answered(event)]
<1>1. dispatch' = [dispatch EXCEPT ![d] = row]  BY DEF Answer, Answered
<1>2. Answered(event) \in {"awaitShutdown", "returned"}  BY DEF Answered
<1>3. dispatch[d] \in Rows  BY DEF RuntimeTyped
<1>4. row \in Rows /\ row.event = event /\ row.pc = Answered(event)
  BY <1>2, <1>3 DEF Rows
<1> HIDE DEF row
<1> QED  BY <1>1, <1>4 DEF RuntimeTyped, OnlyRow

\* The batch of a dispatch starts, and nothing else.
Starts(d, ks) ==
    run' = [i \in Invocations |-> IF i \in {d} \X ks THEN "running" ELSE run[i]]

LEMMA LoopSteps ==
    ASSUME RuntimeTyped, NEW d \in Dispatches, NEW event \in Events \cup {SomeEvent}, NEW k,
           Loop(d, event, k)
    PROVE  /\ OnlyRow(d)
           /\ dispatch'[d].event = event
           /\ \/ /\ closed /\ event.pi # "session_shutdown"
                 /\ run' = run /\ dispatch'[d].pc = "returned"
              \/ /\ ~closed \/ event.pi = "session_shutdown"
                 /\ \E ks \in SUBSET Applicable(event, k) :
                       /\ Starts(d, ks)
                       /\ \/ /\ dispatch'[d].pc = Answered(event)
                             /\ \A n \in ks : Hooks[n].asynchronous
                          \/ /\ dispatch'[d].pc = "await"
                             /\ \A n \in ks : ~Hooks[n].asynchronous => n = dispatch'[d].at
<1> DEFINE batch == Batch(event, k)
<1>1. CASE closed /\ event.pi # "session_shutdown"
  <2>1. Answer(d, "allowed", event) /\ run' = run  BY <1>1 DEF Loop
  <2> QED  BY <1>1, <2>1, AnswerOnly DEF Answered
<1>2. CASE ~(closed /\ event.pi # "session_shutdown")
  <2>1. Starts(d, batch.start)  BY <1>2 DEF Loop, Invoke, Starts
  <2>2. batch.start \in SUBSET Applicable(event, k)  BY BatchWaitsForOne
  <2>3. CASE batch.next = 0
    <3>1. Answer(d, "allowed", event)  BY <1>2, <2>3 DEF Loop
    <3>2. \A n \in batch.start : Hooks[n].asynchronous  BY <2>3, BatchWaitsForOne
    <3>3. OnlyRow(d) /\ dispatch'[d].event = event /\ dispatch'[d].pc = Answered(event)
      BY <3>1, AnswerOnly
    <3> QED  BY <1>2, <2>1, <2>2, <3>2, <3>3
  <2>4. CASE batch.next # 0
    <3> DEFINE row == [dispatch[d] EXCEPT !.event = event, !.pc = "await", !.at = batch.next]
    <3>1. dispatch' = [dispatch EXCEPT ![d] = row]  BY <1>2, <2>4 DEF Loop
    <3>2. batch.next \in DOMAIN Hooks  BY <2>4, BatchWaitsForOne
    <3>3. \A n \in batch.start : ~Hooks[n].asynchronous => n = batch.next
      BY <2>4, BatchWaitsForOne
    <3> HIDE DEF batch
    <3>4. dispatch[d] \in Rows  BY DEF RuntimeTyped
    <3>5. row \in Rows /\ row.event = event /\ row.pc = "await" /\ row.at = batch.next
      BY <3>2, <3>4 DEF Rows
    <3> HIDE DEF row
    <3>6. OnlyRow(d) /\ dispatch'[d] = row  BY <3>1, <3>5 DEF RuntimeTyped, OnlyRow
    <3> QED  BY <1>2, <2>1, <2>2, <3>3, <3>5, <3>6
  <2> QED  BY <2>3, <2>4
<1> QED  BY <1>1, <1>2

LEMMA PcOnly ==
    ASSUME RuntimeTyped, NEW d \in Dispatches, NEW label \in {"resume", "returned"},
           dispatch' = [dispatch EXCEPT ![d].pc = label]
    PROVE  /\ OnlyRow(d)
           /\ dispatch'[d].pc = label
           /\ dispatch'[d].event = dispatch[d].event
<1> DEFINE row == [dispatch[d] EXCEPT !.pc = label]
<1>1. dispatch[d] \in Rows  BY DEF RuntimeTyped
<1>2. row \in Rows /\ row.pc = label /\ row.event = dispatch[d].event  BY <1>1 DEF Rows
<1>3. dispatch' = [dispatch EXCEPT ![d] = row]  OBVIOUS
<1> HIDE DEF row
<1> QED  BY <1>2, <1>3 DEF RuntimeTyped, OnlyRow

-----------------------------------------------------------------------------
(* What runs *)

LEMMA StartsOnly ==
    ASSUME RuntimeTyped, NEW d \in Dispatches, NEW ks \in SUBSET (DOMAIN Hooks), Starts(d, ks)
    PROVE  /\ run' \in [Invocations -> {"none", "running", "ended", "settled"}]
           /\ Active' = Active \cup ({d} \X ks)
           /\ \A i \in Invocations : run'[i] # run[i] => i \in {d} \X ks
<1>1. {d} \X ks \subseteq Invocations  BY DEF Invocations
<1>2. \A i \in Invocations : run'[i] = IF i \in {d} \X ks THEN "running" ELSE run[i]
  BY DEF Starts
<1>3. run' \in [Invocations -> {"none", "running", "ended", "settled"}]
  BY DEF RuntimeTyped, Starts
<1> QED  BY <1>1, <1>2, <1>3 DEF Active

\* A dispatch that does not wait has no synchronous hook that runs, and waits
\* for the one that its loop starts.
LEMMA LoopAwaits ==
    ASSUME RuntimeTyped, Awaited, NEW d \in Dispatches, dispatch[d].pc # "await",
           NEW event \in Events \cup {SomeEvent}, NEW k, Loop(d, event, k)
    PROVE  /\ Awaited'
           /\ run' \in [Invocations -> {"none", "running", "ended", "settled"}]
<1>1. OnlyRow(d)  BY LoopSteps
<1>2. CASE run' = run
  <2>1. \A i \in Active' : i \in Active /\ i[1] \in Dispatches  BY <1>2 DEF Active, Invocations
  <2>2. Awaited'  BY <1>1, <2>1 DEF Awaited, OnlyRow, Hook
  <2> QED  BY <1>2, <2>2 DEF RuntimeTyped
<1>3. ASSUME NEW ks \in SUBSET Applicable(event, k), Starts(d, ks),
             \/ dispatch'[d].pc = Answered(event) /\ \A n \in ks : Hooks[n].asynchronous
             \/ /\ dispatch'[d].pc = "await"
                /\ \A n \in ks : ~Hooks[n].asynchronous => n = dispatch'[d].at
      PROVE  /\ Awaited'
             /\ run' \in [Invocations -> {"none", "running", "ended", "settled"}]
  <2>1. ks \in SUBSET (DOMAIN Hooks)  BY DEF Applicable
  <2>2. /\ Active' = Active \cup ({d} \X ks)
        /\ run' \in [Invocations -> {"none", "running", "ended", "settled"}]
    BY <1>3, <2>1, StartsOnly
  <2>3. ASSUME NEW i \in Active', ~Hook(i).asynchronous
        PROVE  dispatch'[i[1]].pc = "await" /\ dispatch'[i[1]].at = i[2]
    <3>1. CASE i \in {d} \X ks
      <4>1. i[1] = d /\ i[2] \in ks /\ ~Hooks[i[2]].asynchronous  BY <2>3, <3>1 DEF Hook
      <4> QED  BY <1>3, <4>1
    <3>2. CASE i \in Active
      <4>1. i[1] \in Dispatches  BY <3>2 DEF Active, Invocations
      <4>2. dispatch[i[1]].pc = "await" /\ dispatch[i[1]].at = i[2]
        BY <2>3, <3>2 DEF Awaited
      <4> QED  BY <1>1, <4>1, <4>2 DEF OnlyRow
    <3> QED  BY <2>2, <2>3, <3>1, <3>2
  <2>4. Awaited'  BY <2>3 DEF Awaited, Hook
  <2> QED  BY <2>2, <2>4
<1> QED  BY <1>2, <1>3, LoopSteps

LEMMA AnswerAwaits ==
    ASSUME Awaited, NEW d \in Dispatches, dispatch[d].pc # "await", OnlyRow(d), run' = run
    PROVE  Awaited'
<1>1. \A i \in Active' : i \in Active /\ i[1] \in Dispatches  BY DEF Active, Invocations
<1> QED  BY <1>1 DEF Awaited, OnlyRow, Hook

\* Steps that leave runs and dispatches alone.
LEMMA QuietAwaits ==
    ASSUME RuntimeInv, run' = run, dispatch' = dispatch
    PROVE  /\ Awaited' /\ Active' = Active
           /\ dispatch' \in [Dispatches -> Rows]
           /\ run' \in [Invocations -> {"none", "running", "ended", "settled"}]
<1>1. Active' = Active  BY DEF Active
<1> QED  BY <1>1 DEF RuntimeInv, RuntimeTyped, Awaited, Hook

\* The dispatch that ends the session goes on.
LEMMA EnderGoesOn ==
    ASSUME RuntimeInv, NEW d \in Dispatches, OnlyRow(d), dispatch'[d].event = dispatch[d].event,
           dispatch'[d].pc # "new", ender' = ender, shutdownPromise' = shutdownPromise
    PROVE  EnderEnds'
<1>1. ASSUME ender # NoDispatch
      PROVE  shutdownPromise # "none" /\ Ends(ender)' /\ dispatch'[ender].pc # "new"
  <2>1. /\ ender \in Dispatches /\ shutdownPromise # "none"
        /\ dispatch[ender].event.pi = "session_shutdown" /\ dispatch[ender].pc # "new"
    BY <1>1 DEF RuntimeInv, RuntimeTyped, EnderEnds, Ends, Event
  <2>2. dispatch'[ender].event = dispatch[ender].event /\ dispatch'[ender].pc # "new"
    BY <2>1 DEF OnlyRow
  <2> QED  BY <2>1, <2>2 DEF Ends, Event
<1> QED  BY <1>1 DEF RuntimeInv, EnderEnds, Ends, Event

-----------------------------------------------------------------------------
(* The steps of the handlers *)

LEMMA EmitKeeps ==
    ASSUME RuntimeInv, NEW d \in Dispatches, NEW event \in Events, Emit(d, event) PROVE RuntimeInv'
<1>1. /\ dispatch[d].pc = "new" /\ event.pi # "session_shutdown" /\ Loop(d, event, 1)
      /\ UNCHANGED <<closed, shutdownPromise, ender, pending>>
  BY DEF Emit, shutdownVars
<1>2. OnlyRow(d) /\ dispatch'[d].event = event /\ (closed => run' = run)
  BY <1>1, LoopSteps DEF RuntimeInv
<1>3. Awaited' /\ run' \in [Invocations -> {"none", "running", "ended", "settled"}]
  BY <1>1, LoopAwaits DEF RuntimeInv
<1>4. RuntimeTyped'  BY <1>1, <1>2, <1>3 DEF RuntimeInv, RuntimeTyped, OnlyRow
<1>5. OneEnds'  BY <1>1, <1>2 DEF RuntimeInv, OneEnds, OnlyRow, Ends, Event
<1>6. EnderEnds'  BY <1>1, <1>2, DispatchAssumption DEF RuntimeInv, RuntimeTyped, EnderEnds, OnlyRow, Ends, Event
<1>7. closed => Active' = Active  BY <1>2 DEF Active
<1>8. Closing'  BY <1>1, <1>7 DEF RuntimeInv, Closing, ShutdownIsQuiet
<1> QED  BY <1>3, <1>4, <1>5, <1>6, <1>8 DEF RuntimeInv

LEMMA EndSessionKeeps ==
    ASSUME RuntimeInv, NEW d \in Dispatches, NEW event \in Events, EndSession(d, event) PROVE RuntimeInv'
<1>1. /\ dispatch[d].pc = "new" /\ event.pi = "session_shutdown" /\ Answer(d, "none", event)
      /\ run' = run
  BY DEF EndSession
<1>2. OnlyRow(d) /\ dispatch'[d].event = event /\ dispatch'[d].pc = "awaitShutdown"
  BY <1>1, AnswerOnly DEF RuntimeInv, Answered
<1>3. Awaited' /\ Active' = Active  BY <1>1, <1>2, AnswerAwaits DEF RuntimeInv, Active
<1>4. CASE shutdownPromise # "none" /\ UNCHANGED <<closed, shutdownPromise, ender, pending>>
  <2>1. RuntimeTyped'  BY <1>1, <1>2, <1>4 DEF RuntimeInv, RuntimeTyped, OnlyRow
  <2>2. OneEnds'  BY <1>2, <1>4 DEF RuntimeInv, OneEnds, OnlyRow, Ends, Event
  <2>3. EnderEnds'
    BY <1>1, <1>2, <1>4, DispatchAssumption DEF RuntimeInv, RuntimeTyped, EnderEnds, OnlyRow, Ends, Event
  <2>4. Closing'  BY <1>3, <1>4 DEF RuntimeInv, Closing, ShutdownIsQuiet
  <2> QED  BY <1>3, <2>1, <2>2, <2>3, <2>4 DEF RuntimeInv
<1>5. CASE /\ shutdownPromise = "none" /\ closed' = TRUE /\ shutdownPromise' = "cancelling"
           /\ ender' = d /\ pending' = Active
  <2>1. RuntimeTyped'  BY <1>1, <1>2, <1>5 DEF RuntimeInv, RuntimeTyped, OnlyRow
  <2>2. OneEnds'  BY <1>2, <1>5 DEF RuntimeInv, OneEnds, OnlyRow, Ends, Event
  <2>3. EnderEnds'  BY <1>1, <1>2, <1>5 DEF EnderEnds, Ends, Event
  <2>4. Closing'  BY <1>3, <1>5 DEF Closing, ShutdownIsQuiet
  <2> QED  BY <1>3, <2>1, <2>2, <2>3, <2>4 DEF RuntimeInv
<1> QED  BY <1>4, <1>5 DEF EndSession

LEMMA ResumeKeeps ==
    ASSUME RuntimeInv, NEW d \in Dispatches, Resume(d) PROVE RuntimeInv'
<1>1. /\ dispatch[d].pc = "resume"
      /\ \/ Answer(d, "blocked", Event(d)) /\ run' = run
         \/ Loop(d, Event(d), dispatch[d].at + 1)
      /\ UNCHANGED <<closed, shutdownPromise, ender, pending>>
  BY DEF Resume, shutdownVars
<1>2. Event(d) \in Events \cup {SomeEvent}  BY DEF RuntimeInv, RuntimeTyped, Rows, Event
<1>3. /\ OnlyRow(d) /\ dispatch'[d].event = Event(d) /\ dispatch'[d].pc # "new"
      /\ closed /\ ~Ends(d) => run' = run
  <2>1. CASE Answer(d, "blocked", Event(d)) /\ run' = run
    BY <1>2, <2>1, AnswerOnly DEF RuntimeInv, Answered
  <2>2. CASE Loop(d, Event(d), dispatch[d].at + 1)
    BY <1>2, <2>2, LoopSteps DEF RuntimeInv, Answered, Ends
  <2> QED  BY <1>1, <2>1, <2>2
<1>4. Awaited' /\ run' \in [Invocations -> {"none", "running", "ended", "settled"}]
  <2>1. CASE Answer(d, "blocked", Event(d)) /\ run' = run
    BY <1>1, <1>3, <2>1, AnswerAwaits DEF RuntimeInv, RuntimeTyped
  <2>2. CASE Loop(d, Event(d), dispatch[d].at + 1)
    BY <1>1, <1>2, <2>2, LoopAwaits DEF RuntimeInv
  <2> QED  BY <1>1, <2>1, <2>2
<1>5. RuntimeTyped'  BY <1>1, <1>3, <1>4 DEF RuntimeInv, RuntimeTyped, OnlyRow
<1>6. \A c \in Dispatches : Ends(c)' = Ends(c)  BY <1>3 DEF OnlyRow, Ends, Event
<1>7. OneEnds'  BY <1>1, <1>3, <1>6 DEF RuntimeInv, OneEnds, OnlyRow
<1>8. EnderEnds'  BY <1>1, <1>3, EnderGoesOn DEF Event
<1>9. Closing'
  <2>1. CASE Ends(d)
    <3>1. shutdownPromise = "ending"  BY <1>1, <2>1 DEF RuntimeInv, OneEnds
    <3> QED  BY <1>1, <3>1 DEF RuntimeInv, Closing, ShutdownIsQuiet
  <2>2. CASE ~Ends(d)
    <3>1. closed => Active' = Active  BY <1>3, <2>2 DEF Active
    <3> QED  BY <1>1, <3>1 DEF RuntimeInv, Closing, ShutdownIsQuiet
  <2> QED  BY <2>1, <2>2
<1> QED  BY <1>4, <1>5, <1>7, <1>8, <1>9 DEF RuntimeInv

LEMMA EndAnsweredKeeps ==
    ASSUME RuntimeInv, NEW d \in Dispatches, EndAnswered(d) PROVE RuntimeInv'
<1>1. /\ dispatch[d].pc = "awaitShutdown" /\ shutdownPromise = "done"
      /\ dispatch' = [dispatch EXCEPT ![d].pc = "returned"]
      /\ UNCHANGED <<closed, shutdownPromise, ender, pending, run>>
  BY DEF EndAnswered, shutdownVars
<1>2. OnlyRow(d) /\ dispatch'[d].pc = "returned" /\ dispatch'[d].event = dispatch[d].event
  BY <1>1, PcOnly DEF RuntimeInv
<1>3. Awaited' /\ Active' = Active  BY <1>1, <1>2, AnswerAwaits DEF RuntimeInv, Active
<1>4. RuntimeTyped'  BY <1>1, <1>2 DEF RuntimeInv, RuntimeTyped, OnlyRow
<1>5. \A c \in Dispatches : Ends(c)' = Ends(c)  BY <1>2 DEF OnlyRow, Ends, Event
<1>6. OneEnds'  BY <1>1, <1>2, <1>5 DEF RuntimeInv, OneEnds, OnlyRow
<1>7. EnderEnds'  BY <1>1, <1>2, EnderGoesOn
<1>8. Closing'  BY <1>1, <1>3 DEF RuntimeInv, Closing, ShutdownIsQuiet
<1> QED  BY <1>3, <1>4, <1>6, <1>7, <1>8 DEF RuntimeInv

-----------------------------------------------------------------------------
(* The steps of the shutdown *)

LEMMA CancelledKeeps == ASSUME RuntimeInv, Cancelled PROVE RuntimeInv'
<1>1. /\ shutdownPromise = "cancelling" /\ pending \cap Active = {}
      /\ UNCHANGED <<closed, ender, pending>>
  BY DEF Cancelled
<1>2. CASE shutdownPromise' = "done" /\ UNCHANGED <<run, dispatch>>
  <2>1. /\ Awaited' /\ Active' = Active /\ dispatch' \in [Dispatches -> Rows]
        /\ run' \in [Invocations -> {"none", "running", "ended", "settled"}]
    BY <1>2, QuietAwaits
  <2>2. RuntimeTyped'  BY <1>1, <1>2, <2>1 DEF RuntimeInv, RuntimeTyped
  <2>3. OneEnds'  BY <1>1, <1>2 DEF RuntimeInv, OneEnds, Ends, Event
  <2>4. EnderEnds'  BY <1>1, <1>2 DEF RuntimeInv, EnderEnds, Ends, Event
  <2>5. Closing'  BY <1>1, <1>2, <2>1 DEF RuntimeInv, Closing, ShutdownIsQuiet
  <2> QED  BY <2>1, <2>2, <2>3, <2>4, <2>5 DEF RuntimeInv
<1>3. CASE ender # NoDispatch /\ shutdownPromise' = "ending" /\ Loop(ender, Event(ender), 1)
  <2>1. ender \in Dispatches /\ Ends(ender)  BY <1>3 DEF RuntimeInv, RuntimeTyped, EnderEnds
  <2>2. dispatch[ender].pc \notin {"await", "resume"}  BY <1>1, <2>1 DEF RuntimeInv, OneEnds
  <2>3. Event(ender) \in Events \cup {SomeEvent}  BY <2>1 DEF RuntimeInv, RuntimeTyped, Rows, Event
  <2>4. /\ OnlyRow(ender) /\ dispatch'[ender].event = Event(ender)
        /\ dispatch'[ender].pc # "new"
    BY <1>3, <2>1, <2>3, LoopSteps DEF RuntimeInv, Answered
  <2>5. Awaited' /\ run' \in [Invocations -> {"none", "running", "ended", "settled"}]
    BY <1>3, <2>1, <2>2, <2>3, LoopAwaits DEF RuntimeInv
  <2>6. RuntimeTyped'  BY <1>1, <1>3, <2>4, <2>5 DEF RuntimeInv, RuntimeTyped, OnlyRow
  <2>7. \A c \in Dispatches : Ends(c)' = Ends(c)  BY <2>4 DEF OnlyRow, Ends, Event
  <2>8. OneEnds'  BY <1>1, <1>3, <2>4, <2>7 DEF RuntimeInv, OneEnds, OnlyRow
  <2>9. EnderEnds'
    <3>1. Ends(ender)'  BY <1>1, <2>1, <2>4 DEF Ends, Event
    <3> QED  BY <1>1, <1>3, <2>4, <3>1 DEF EnderEnds, Ends, Event
  <2>10. Closing'  BY <1>1, <1>3 DEF RuntimeInv, Closing, ShutdownIsQuiet
  <2> QED  BY <2>5, <2>6, <2>8, <2>9, <2>10 DEF RuntimeInv
<1> QED  BY <1>2, <1>3 DEF Cancelled

LEMMA EndHooksDispatchedKeeps == ASSUME RuntimeInv, EndHooksDispatched PROVE RuntimeInv'
<1>1. /\ shutdownPromise = "ending" /\ dispatch[ender].pc = "awaitShutdown"
      /\ shutdownPromise' = "waiting" /\ pending' = Active
      /\ UNCHANGED <<closed, ender, run, dispatch>>
  BY DEF EndHooksDispatched
<1>2. /\ Awaited' /\ Active' = Active /\ dispatch' \in [Dispatches -> Rows]
      /\ run' \in [Invocations -> {"none", "running", "ended", "settled"}]
  BY <1>1, QuietAwaits
<1>3. RuntimeTyped'  BY <1>1, <1>2 DEF RuntimeInv, RuntimeTyped
<1>4. OneEnds'  BY <1>1 DEF RuntimeInv, OneEnds, Ends, Event
<1>5. EnderEnds'  BY <1>1 DEF RuntimeInv, EnderEnds, Ends, Event
<1>6. Closing'  BY <1>1, <1>2 DEF RuntimeInv, Closing, ShutdownIsQuiet
<1> QED  BY <1>2, <1>3, <1>4, <1>5, <1>6 DEF RuntimeInv

LEMMA SessionEndedKeeps == ASSUME RuntimeInv, SessionEnded PROVE RuntimeInv'
<1>1. /\ shutdownPromise = "waiting" /\ pending \cap Active = {} /\ shutdownPromise' = "done"
      /\ UNCHANGED <<closed, ender, pending, run, dispatch>>
  BY DEF SessionEnded
<1>2. /\ Awaited' /\ Active' = Active /\ dispatch' \in [Dispatches -> Rows]
      /\ run' \in [Invocations -> {"none", "running", "ended", "settled"}]
  BY <1>1, QuietAwaits
<1>3. RuntimeTyped'  BY <1>1, <1>2 DEF RuntimeInv, RuntimeTyped
<1>4. OneEnds'  BY <1>1 DEF RuntimeInv, OneEnds, Ends, Event
<1>5. EnderEnds'  BY <1>1 DEF RuntimeInv, EnderEnds, Ends, Event
<1>6. Closing'  BY <1>1, <1>2 DEF RuntimeInv, Closing, ShutdownIsQuiet
<1> QED  BY <1>2, <1>3, <1>4, <1>5, <1>6 DEF RuntimeInv

LEMMA ShutdownKeeps == ASSUME RuntimeInv, Shutdown PROVE RuntimeInv'
<1>1. /\ closed' = TRUE /\ UNCHANGED <<ender, run, dispatch>>
      /\ \/ shutdownPromise # "none" /\ UNCHANGED <<shutdownPromise, pending>>
         \/ shutdownPromise = "none" /\ shutdownPromise' = "cancelling" /\ pending' = Active
  BY DEF Shutdown
<1>2. /\ Awaited' /\ Active' = Active /\ dispatch' \in [Dispatches -> Rows]
      /\ run' \in [Invocations -> {"none", "running", "ended", "settled"}]
  BY <1>1, QuietAwaits
<1>3. RuntimeTyped'  BY <1>1, <1>2 DEF RuntimeInv, RuntimeTyped
<1>4. OneEnds'  BY <1>1 DEF RuntimeInv, OneEnds, Ends, Event
<1>5. EnderEnds'  BY <1>1 DEF RuntimeInv, EnderEnds, Ends, Event
<1>6. Closing'  BY <1>1, <1>2 DEF RuntimeInv, Closing, ShutdownIsQuiet
<1> QED  BY <1>2, <1>3, <1>4, <1>5, <1>6 DEF RuntimeInv

-----------------------------------------------------------------------------
(* The steps of the runs *)

\* Nothing starts, and the shutdown stays where it is.
LEMMA ShrinkCloses ==
    ASSUME RuntimeInv, Active' \subseteq Active, UNCHANGED <<closed, shutdownPromise, pending>>
    PROVE  Closing'
  BY DEF RuntimeInv, Closing, ShutdownIsQuiet

LEMMA RunEndsKeeps ==
    ASSUME RuntimeInv, NEW i \in Invocations, RunEnds(i) PROVE RuntimeInv'
<1>1. /\ run[i] = "running" /\ run' = [run EXCEPT ![i] = "ended"]
      /\ UNCHANGED <<closed, shutdownPromise, ender, pending, dispatch>>
  BY DEF RunEnds, shutdownVars
<1>2. run' \in [Invocations -> {"none", "running", "ended", "settled"}]
  BY <1>1 DEF RuntimeInv, RuntimeTyped
<1>3. Active' = Active  BY <1>1 DEF RuntimeInv, RuntimeTyped, Active
<1>4. RuntimeTyped'  BY <1>1, <1>2 DEF RuntimeInv, RuntimeTyped
<1>5. Awaited'  BY <1>1, <1>3 DEF RuntimeInv, Awaited, Hook
<1>6. OneEnds' /\ EnderEnds'  BY <1>1 DEF RuntimeInv, OneEnds, EnderEnds, Ends, Event
<1>7. Closing'  BY <1>1, <1>3, ShrinkCloses
<1> QED  BY <1>4, <1>5, <1>6, <1>7 DEF RuntimeInv

LEMMA SettleKeeps ==
    ASSUME RuntimeInv, NEW i \in Invocations, Settle(i) PROVE RuntimeInv'
<1>1. /\ run[i] = "ended" /\ run' = [run EXCEPT ![i] = "settled"]
      /\ UNCHANGED <<closed, shutdownPromise, ender, pending>>
  BY DEF Settle, shutdownVars
<1>2. run' \in [Invocations -> {"none", "running", "ended", "settled"}]
  BY <1>1 DEF RuntimeInv, RuntimeTyped
<1>3. Active' = Active \ {i} /\ i \in Active  BY <1>1 DEF RuntimeInv, RuntimeTyped, Active
<1>4. Closing'  BY <1>1, <1>3, ShrinkCloses
<1>5. CASE Hook(i).asynchronous /\ dispatch' = dispatch
  <2>1. RuntimeTyped'  BY <1>1, <1>2, <1>5 DEF RuntimeInv, RuntimeTyped
  <2>2. Awaited'  BY <1>3, <1>5 DEF RuntimeInv, Awaited, Hook
  <2>3. OneEnds' /\ EnderEnds'  BY <1>1, <1>5 DEF RuntimeInv, OneEnds, EnderEnds, Ends, Event
  <2> QED  BY <1>4, <2>1, <2>2, <2>3 DEF RuntimeInv
<1>6. CASE ~Hook(i).asynchronous /\ dispatch' = [dispatch EXCEPT ![i[1]].pc = "resume"]
  <2>1. i[1] \in Dispatches  BY DEF Invocations
  <2>2. /\ OnlyRow(i[1]) /\ dispatch'[i[1]].pc = "resume"
        /\ dispatch'[i[1]].event = dispatch[i[1]].event
    BY <1>6, <2>1, PcOnly DEF RuntimeInv
  <2>3. dispatch[i[1]].pc = "await" /\ dispatch[i[1]].at = i[2]
    BY <1>3, <1>6 DEF RuntimeInv, Awaited
  <2>4. RuntimeTyped'  BY <1>1, <1>2, <2>2 DEF RuntimeInv, RuntimeTyped, OnlyRow
  <2>5. ASSUME NEW j \in Active', ~Hook(j).asynchronous
        PROVE  dispatch'[j[1]].pc = "await" /\ dispatch'[j[1]].at = j[2]
    <3>1. j \in Active /\ j # i /\ j[1] \in Dispatches
      BY <1>3 DEF Active, Invocations
    <3>2. dispatch[j[1]].pc = "await" /\ dispatch[j[1]].at = j[2]
      BY <2>5, <3>1 DEF RuntimeInv, Awaited
    <3>3. j[1] # i[1]
      <4>1. j = <<j[1], j[2]>> /\ i = <<i[1], i[2]>>  BY <3>1 DEF Active, Invocations
      <4> QED  BY <2>3, <3>1, <3>2, <4>1
    <3> QED  BY <2>2, <3>1, <3>2, <3>3 DEF OnlyRow
  <2>6. Awaited'  BY <2>5 DEF Awaited, Hook
  <2>7. \A c \in Dispatches : Ends(c)' = Ends(c)  BY <2>2 DEF OnlyRow, Ends, Event
  <2>8. OneEnds'  BY <1>1, <2>2, <2>3, <2>7 DEF RuntimeInv, OneEnds, OnlyRow
  <2>9. EnderEnds'  BY <1>1, <2>1, <2>2, EnderGoesOn
  <2> QED  BY <1>4, <2>4, <2>6, <2>8, <2>9 DEF RuntimeInv
<1> QED  BY <1>5, <1>6 DEF Settle

\* Steps that change none of the variables that IInv is about.
LEMMA OtherKeeps ==
    ASSUME RuntimeInv, UNCHANGED <<closed, shutdownPromise, ender, pending, run, dispatch>> PROVE RuntimeInv'
<1>1. Awaited' /\ Active' = Active  BY QuietAwaits
<1>2. RuntimeTyped'  BY DEF RuntimeInv, RuntimeTyped
<1>3. OneEnds' /\ EnderEnds'  BY DEF RuntimeInv, OneEnds, EnderEnds, Ends, Event
<1>4. Closing'  BY <1>1, ShrinkCloses
<1> QED  BY <1>1, <1>2, <1>3, <1>4 DEF RuntimeInv

LEMMA RuntimeNextKeeps == ASSUME RuntimeInv, [RuntimeNext]_runtimeVars PROVE RuntimeInv'
<1>1. CASE UNCHANGED runtimeVars  BY <1>1, OtherKeeps DEF runtimeVars
<1>2. ASSUME NEW d \in Dispatches, PiCancels(d) PROVE RuntimeInv'
  BY <1>2, OtherKeeps DEF PiCancels, shutdownVars
<1>3. ASSUME NEW d \in Dispatches, \E e \in Events : Emit(d, e) \/ EndSession(d, e) PROVE RuntimeInv'
  BY <1>3, EmitKeeps, EndSessionKeeps
<1>4. ASSUME NEW d \in Dispatches, EndAnswered(d) \/ Resume(d) PROVE RuntimeInv'
  BY <1>4, EndAnsweredKeeps, ResumeKeeps
<1>5. ASSUME NEW i \in Invocations, RunEnds(i) \/ Settle(i) PROVE RuntimeInv'
  BY <1>5, RunEndsKeeps, SettleKeeps
<1>6. CASE End \/ Shutdown
  BY <1>6, CancelledKeeps, EndHooksDispatchedKeeps, SessionEndedKeeps, ShutdownKeeps DEF End
<1> QED  BY <1>1, <1>2, <1>3, <1>4, <1>5, <1>6 DEF RuntimeNext

LEMMA RuntimeInitHolds == RuntimeInit => RuntimeInv
<1> SUFFICES ASSUME RuntimeInit PROVE RuntimeInv
  OBVIOUS
<1>1. Active = {}  BY DEF RuntimeInit, Active
<1>2. RuntimeTyped
  <2>1. [event |-> SomeEvent, pc |-> "new", at |-> 0, result |-> "none"] \in Rows  BY DEF Rows
  <2>2. dispatch = [d \in Dispatches |->
                      [event |-> SomeEvent, pc |-> "new", at |-> 0, result |-> "none"]]
    BY DEF RuntimeInit, SomeEvent
  <2>3. dispatch \in [Dispatches -> Rows]  BY <2>1, <2>2
  <2>4. run \in [Invocations -> {"none", "running", "ended", "settled"}]  BY DEF RuntimeInit
  <2>5. shutdownPromise = "none" /\ ender = NoDispatch  BY DEF RuntimeInit
  <2> QED  BY <2>3, <2>4, <2>5 DEF RuntimeTyped
<1>3. Awaited  BY <1>1 DEF Awaited
<1>4. OneEnds  BY DEF RuntimeInit, OneEnds
<1>5. EnderEnds  BY DEF RuntimeInit, EnderEnds
<1>6. Closing  BY <1>1 DEF RuntimeInit, Closing, ShutdownIsQuiet
<1> QED  BY <1>2, <1>3, <1>4, <1>5, <1>6 DEF RuntimeInv

-----------------------------------------------------------------------------
(* The theorems *)

\* What waits for what: a dispatch for its synchronous hook, the shutdown for
\* whatever runs (createPiHookRuntime).
THEOREM RuntimeInvariant == RuntimeSpec => []RuntimeInv
  BY RuntimeInitHolds, RuntimeNextKeeps, PTL DEF RuntimeSpec

\* Once shutdownPromise resolves no hook process runs, and none starts again.
THEOREM ShutdownQuiet == RuntimeSpec => []ShutdownIsQuiet
<1>1. RuntimeInv => ShutdownIsQuiet  BY DEF RuntimeInv, Closing
<1> QED  BY <1>1, RuntimeInvariant, PTL

LEMMA LoopStartsApplicable ==
    ASSUME RuntimeInv, NEW d \in Dispatches, NEW event \in Events \cup {SomeEvent}, NEW k,
           Loop(d, event, k), closed, NEW i \in Invocations, run'[i] # run[i]
    PROVE  i[1] = d /\ event.pi = "session_shutdown" /\ Hook(i).event = "session-end"
<1>1. PICK ks \in SUBSET Applicable(event, k) : Starts(d, ks) /\ event.pi = "session_shutdown"
  BY LoopSteps DEF RuntimeInv
<1>2. ks \in SUBSET (DOMAIN Hooks)  BY DEF Applicable
<1>3. i \in {d} \X ks  BY <1>1, <1>2, StartsOnly DEF RuntimeInv
<1>4. i[1] = d /\ i[2] \in Applicable(event, k)  BY <1>3
<1>5. Hooks[i[2]].event \in PiEvents["session_shutdown"]
  BY <1>1, <1>4 DEF Applicable
<1> QED  BY <1>1, <1>4, <1>5 DEF PiEvents, Hook

\* A closed runtime starts nothing but the hooks of the one dispatch that ends
\* the session (dispatchHooks).
THEOREM ClosedQuiet == RuntimeSpec => ClosedStartsNothing
<1>1. ASSUME RuntimeInv, [RuntimeNext]_runtimeVars, NEW i \in Invocations, closed, run[i] = "none", run'[i] # "none"
      PROVE  i[1] = ender /\ Hook(i).event = "session-end"
  <2>1. CASE Cancelled
    <3>1. shutdownPromise = "cancelling" /\ ender # NoDispatch /\ Loop(ender, Event(ender), 1)
      BY <1>1, <2>1 DEF Cancelled
    <3>2. ender \in Dispatches  BY <1>1, <3>1 DEF RuntimeInv, RuntimeTyped
    <3>3. Event(ender) \in Events \cup {SomeEvent}  BY <1>1, <3>2 DEF RuntimeInv, RuntimeTyped, Rows, Event
    <3> QED  BY <1>1, <3>1, <3>2, <3>3, LoopStartsApplicable
  <2>2. ASSUME NEW d \in Dispatches, NEW e \in Events, Emit(d, e) PROVE FALSE
    <3>1. Loop(d, e, 1) /\ e.pi # "session_shutdown"  BY <2>2 DEF Emit
    <3> QED  BY <1>1, <3>1, LoopStartsApplicable
  <2>3. ASSUME NEW d \in Dispatches, Resume(d)
        PROVE  i[1] = ender /\ Hook(i).event = "session-end"
    <3>1. Loop(d, Event(d), dispatch[d].at + 1) /\ dispatch[d].pc = "resume"
      BY <1>1, <2>3 DEF Resume
    <3>2. Event(d) \in Events \cup {SomeEvent}  BY <1>1 DEF RuntimeInv, RuntimeTyped, Rows, Event
    <3>3. i[1] = d /\ Ends(d) /\ Hook(i).event = "session-end"
      BY <1>1, <3>1, <3>2, LoopStartsApplicable DEF Ends
    <3> QED  BY <1>1, <3>1, <3>3 DEF RuntimeInv, OneEnds
  <2>4. ASSUME NEW j \in Invocations, RunEnds(j) \/ Settle(j) PROVE FALSE
    BY <1>1, <2>4 DEF RunEnds, Settle, RuntimeInv, RuntimeTyped
  <2>5. ~(UNCHANGED run)  BY <1>1
  <2> QED  BY <1>1, <2>1, <2>2, <2>3, <2>4, <2>5
       DEF RuntimeNext, End, EndSession, EndAnswered, PiCancels, EndHooksDispatched, SessionEnded,
           Shutdown, runtimeVars
<1>2. RuntimeInv /\ [RuntimeNext]_runtimeVars =>
        [\A i \in Invocations : closed /\ run[i] = "none" /\ run'[i] # "none" =>
             i[1] = ender /\ Hook(i).event = "session-end"]_runtimeVars
  BY <1>1
<1> QED  BY <1>2, RuntimeInvariant, PTL DEF RuntimeSpec, ClosedStartsNothing

-----------------------------------------------------------------------------
(* The decision of a tool call.  Its hooks are synchronous, so the loop    *)
(* has come to one of them: it passed those before, and has started none   *)
(* of those after it.                                                      *)

HooksOf(d) == Applicable(Event(d), 1)

\* The loop went on after hook n.
Passed(d, n) ==
    run[<<d, n>>] = "settled" /\ ~Blocks(Hooks[n], verdict[<<d, n>>], Event(d).plain)

\* The loop has come to a hook whose run is in one of these states.
Reached(d, states) ==
    /\ dispatch[d].at \in HooksOf(d)
    /\ run[<<d, dispatch[d].at>>] \in states
    /\ \A n \in HooksOf(d) :
         /\ n < dispatch[d].at => Passed(d, n)
         /\ n > dispatch[d].at => run[<<d, n>>] = "none"

Decided(d) ==
    \/ dispatch[d].result = "allowed" /\ (closed \/ \A n \in HooksOf(d) : Passed(d, n))
    \/ dispatch[d].result = "blocked" /\ Reached(d, {"settled"}) /\ ~Passed(d, dispatch[d].at)

ToolCallAt(d) ==
    /\ dispatch[d].pc # "awaitShutdown"
    /\ dispatch[d].pc = "await" => Reached(d, {"running", "ended"})
    /\ dispatch[d].pc = "resume" => Reached(d, {"settled"})
    /\ dispatch[d].pc = "returned" => Decided(d)

DecisionKnown(d) ==
    /\ dispatch[d].pc = "new" => \A n \in DOMAIN Hooks : run[<<d, n>>] = "none"
    /\ Event(d).pi = "tool_call" => ToolCallAt(d)

DecisionsKnown ==
    /\ verdict \in [Invocations -> Decisions \cup {"none"}]
    /\ \A d \in Dispatches : DecisionKnown(d)

\* The hooks of a tool call are waited for, and come from the ones that dispatch
\* began with.
LEMMA ToolHooks ==
    ASSUME NEW event, event.pi = "tool_call", NEW k \in Nat
    PROVE  /\ Applicable(event, k) \subseteq DOMAIN Hooks
           /\ DOMAIN Hooks \subseteq Nat \ {0}
           /\ \A n \in Applicable(event, k) :
                 ~Hooks[n].asynchronous /\ Hooks[n].event = "pre-tool"
           /\ Applicable(event, k) = {n \in Applicable(event, 1) : n >= k}
<1>1. DOMAIN Hooks \subseteq Nat \ {0}  BY HooksAssumption
<1>2. PiEvents[event.pi] = {"pre-tool"}  BY DEF PiEvents
<1>3. \A n \in Applicable(event, k) : n \in DOMAIN Hooks /\ Hooks[n].event = "pre-tool"
  BY <1>2 DEF Applicable
<1>4. \A n \in Applicable(event, k) : ~Hooks[n].asynchronous
  BY <1>3, HooksAssumption DEF ValidHook
<1>5. Applicable(event, k) = {n \in Applicable(event, 1) : n >= k}
  BY <1>1, 1 \in Nat DEF Applicable
<1> QED  BY <1>1, <1>3, <1>4, <1>5

\* The loop of a tool call starts the next hook and waits for it, or allows
\* the call when there is none, or when the runtime was closed.
LEMMA ToolLoop ==
    ASSUME RuntimeTyped, NEW d \in Dispatches, NEW event \in Events \cup {SomeEvent},
           event.pi = "tool_call", NEW k \in Nat, Loop(d, event, k)
    PROVE  /\ OnlyRow(d)
           /\ dispatch'[d].event = event
           /\ \/ /\ closed \/ Applicable(event, k) = {}
                 /\ dispatch'[d].pc = "returned" /\ dispatch'[d].result = "allowed"
                 /\ \A i \in Invocations : run'[i] = run[i]
              \/ /\ dispatch'[d].pc = "await"
                 /\ dispatch'[d].at \in Applicable(event, k)
                 /\ \A n \in Applicable(event, k) : dispatch'[d].at <= n
                 /\ \A i \in Invocations :
                       run'[i] = IF i = <<d, dispatch'[d].at>> THEN "running" ELSE run[i]
<1> DEFINE batch == Batch(event, k)
           hooks == Applicable(event, k)
           allowed == [dispatch[d] EXCEPT !.event = event, !.result = "allowed",
                                          !.pc = "returned"]
<1>0. /\ hooks \subseteq DOMAIN Hooks /\ hooks \subseteq Nat
      /\ {n \in hooks : ~Hooks[n].asynchronous} = hooks
  BY ToolHooks
<1>1. allowed \in Rows /\ allowed.event = event /\ allowed.pc = "returned"
      /\ allowed.result = "allowed"
  <2>1. dispatch[d] \in Rows  BY DEF RuntimeTyped
  <2> QED  BY <2>1 DEF Rows
<1>2. Answer(d, "allowed", event) => dispatch' = [dispatch EXCEPT ![d] = allowed]
  BY DEF Answer
<1>3. CASE closed
  <2>1. Answer(d, "allowed", event) /\ run' = run  BY <1>3 DEF Loop
  <2> HIDE DEF allowed
  <2>2. OnlyRow(d) /\ dispatch'[d] = allowed
    BY <1>1, <1>2, <2>1 DEF RuntimeTyped, OnlyRow
  <2> QED  BY <1>1, <1>3, <2>1, <2>2
<1>4. CASE ~closed /\ hooks = {}
  <2>1. batch.start = {} /\ batch.next = 0  BY <1>0, <1>4 DEF Batch
  <2>2. Answer(d, "allowed", event) /\ Invoke(d, {})  BY <1>4, <2>1 DEF Loop
  <2>3. \A i \in Invocations : run'[i] = run[i]  BY <2>2 DEF Invoke
  <2> HIDE DEF allowed
  <2>4. OnlyRow(d) /\ dispatch'[d] = allowed
    BY <1>1, <1>2, <2>2 DEF RuntimeTyped, OnlyRow
  <2> QED  BY <1>1, <1>4, <2>3, <2>4
<1>5. CASE ~closed /\ hooks # {}
  <2> DEFINE next == Least(hooks)
             row == [dispatch[d] EXCEPT !.event = event, !.pc = "await", !.at = next]
  <2>1. next \in hooks /\ \A n \in hooks : next <= n  BY <1>0, <1>5, LeastIsLeast
  <2>2. batch.next = next /\ batch.start = {n \in hooks : next = 0 \/ n <= next}
    BY <1>0, <1>5 DEF Batch
  <2>3. next \in Nat \ {0}  BY <2>1, ToolHooks
  <2>4. batch.start = {next}
    <3> HIDE DEF next, hooks, batch
    <3> QED  BY <1>0, <2>1, <2>2, <2>3
  <2>5. Invoke(d, {next}) /\ dispatch' = [dispatch EXCEPT ![d] = row]
    <3>1. batch.next # 0  BY <2>2, <2>3
    <3> QED  BY <1>5, <2>2, <2>4, <3>1 DEF Loop
  <2>6. \A i \in Invocations : run'[i] = IF i = <<d, next>> THEN "running" ELSE run[i]
    BY <2>5 DEF Invoke
  <2>7. row \in Rows /\ row.event = event /\ row.pc = "await" /\ row.at = next
    <3>1. dispatch[d] \in Rows /\ next \in DOMAIN Hooks \cup {0}  BY <1>0, <2>1 DEF RuntimeTyped
    <3> HIDE DEF next
    <3> QED  BY <3>1 DEF Rows
  <2> HIDE DEF row
  <2>8. OnlyRow(d) /\ dispatch'[d] = row
    BY <2>5, <2>7 DEF RuntimeTyped, OnlyRow
  <2> HIDE DEF next
  <2> QED  BY <2>1, <2>6, <2>7, <2>8
<1> QED  BY <1>3, <1>4, <1>5

\* What the loop passed it does not take back.
LEMMA PassedStays ==
    ASSUME NEW d, NEW n, Passed(d, n), dispatch'[d].event = dispatch[d].event,
           run'[<<d, n>>] = run[<<d, n>>], verdict'[<<d, n>>] = verdict[<<d, n>>]
    PROVE  Passed(d, n)'
  BY DEF Passed, Blocks, Event

\* A dispatch that a step does not touch.
LEMMA Undisturbed ==
    ASSUME NEW d \in Dispatches, DecisionKnown(d), dispatch'[d] = dispatch[d],
           \A n \in DOMAIN Hooks : run'[<<d, n>>] = run[<<d, n>>],
           \A n \in DOMAIN Hooks :
              run[<<d, n>>] = "settled" => verdict'[<<d, n>>] = verdict[<<d, n>>],
           closed => closed'
    PROVE  DecisionKnown(d)'
<1>1. HooksOf(d)' = HooksOf(d) /\ HooksOf(d) \subseteq DOMAIN Hooks
      /\ Event(d)' = Event(d)
  BY DEF HooksOf, Event, Applicable
<1>2. \A n \in DOMAIN Hooks : Passed(d, n) => Passed(d, n)'
  BY DEF Passed, Blocks, Event
<1>3. \A n \in DOMAIN Hooks : Passed(d, n)' => Passed(d, n)
  BY DEF Passed, Blocks, Event
<1>4. \A states : Reached(d, states) => Reached(d, states)'
  BY <1>1, <1>2 DEF Reached
<1>5. Decided(d) => Decided(d)'
  BY <1>1, <1>2, <1>3, <1>4 DEF Decided, Reached
<1> QED  BY <1>1, <1>4, <1>5 DEF DecisionKnown, ToolCallAt

\* A dispatch for another event, once it has begun.
LEMMA OtherEvent ==
    ASSUME NEW d, dispatch'[d].pc # "new", dispatch'[d].event.pi # "tool_call"
    PROVE  DecisionKnown(d)'
  BY DEF DecisionKnown, Event

\* The loop of a tool call goes on from a point where it has passed the hooks
\* before and started none of the others.
LEMMA LoopDecides ==
    ASSUME RuntimeTyped, NEW d \in Dispatches, NEW event \in Events \cup {SomeEvent},
           event.pi = "tool_call", NEW k \in Nat, Loop(d, event, k), verdict' = verdict,
           closed' = closed,
           \A n \in Applicable(event, 1) :
              /\ n < k => /\ run[<<d, n>>] = "settled"
                          /\ ~Blocks(Hooks[n], verdict[<<d, n>>], event.plain)
              /\ n >= k => run[<<d, n>>] = "none"
    PROVE  DecisionKnown(d)'
<1>1. dispatch'[d].event = event /\ HooksOf(d)' = Applicable(event, 1)
  BY ToolLoop DEF HooksOf, Event
<1>2. /\ Applicable(event, k) = {n \in Applicable(event, 1) : n >= k}
      /\ Applicable(event, 1) \subseteq DOMAIN Hooks /\ DOMAIN Hooks \subseteq Nat
  BY ToolHooks
<1>3. CASE /\ closed \/ Applicable(event, k) = {}
           /\ dispatch'[d].pc = "returned" /\ dispatch'[d].result = "allowed"
           /\ \A i \in Invocations : run'[i] = run[i]
  <2>1. ASSUME ~closed, NEW n \in Applicable(event, 1) PROVE Passed(d, n)'
    <3>1. n < k  BY <1>2, <1>3, <2>1
    <3>2. run'[<<d, n>>] = run[<<d, n>>]  BY <1>2, <1>3 DEF Invocations
    <3> QED  BY <1>1, <3>1, <3>2 DEF Passed, Blocks, Event
  <2> QED  BY <1>1, <1>3, <2>1 DEF DecisionKnown, ToolCallAt, Decided
<1>4. CASE /\ dispatch'[d].pc = "await"
           /\ dispatch'[d].at \in Applicable(event, k)
           /\ \A n \in Applicable(event, k) : dispatch'[d].at <= n
           /\ \A i \in Invocations :
                 run'[i] = IF i = <<d, dispatch'[d].at>> THEN "running" ELSE run[i]
  <2> DEFINE at == dispatch'[d].at
  <2>1. \A n \in Applicable(event, 1) :
           run'[<<d, n>>] = IF n = at THEN "running" ELSE run[<<d, n>>]
    BY <1>2, <1>4 DEF Invocations
  <2>2. at \in Applicable(event, 1) /\ at \in Nat /\ at >= k  BY <1>2, <1>4
  <2>3. ASSUME NEW n \in Applicable(event, 1), n < at PROVE Passed(d, n)'
    <3>1. n \in Nat /\ n < k  BY <1>2, <1>4, <2>2, <2>3
    <3>2. run'[<<d, n>>] = run[<<d, n>>]  BY <2>1, <2>2, <2>3, <3>1
    <3> QED  BY <1>1, <3>1, <3>2 DEF Passed, Blocks, Event
  <2>4. ASSUME NEW n \in Applicable(event, 1), n > at PROVE run'[<<d, n>>] = "none"
    <3>1. n \in Nat /\ n >= k /\ n # at  BY <1>2, <2>2, <2>4
    <3> QED  BY <2>1, <3>1
  <2>5. Reached(d, {"running", "ended"})'  BY <1>1, <2>1, <2>2, <2>3, <2>4 DEF Reached
  <2> QED  BY <1>1, <1>4, <2>5 DEF DecisionKnown, ToolCallAt
<1> QED  BY <1>3, <1>4, ToolLoop

\* The loop of a dispatch runs no hook for another one.
LEMMA LoopOnly ==
    ASSUME RuntimeTyped, NEW d \in Dispatches, NEW event \in Events \cup {SomeEvent}, NEW k,
           Loop(d, event, k)
    PROVE  \A c \in Dispatches \ {d}, n \in DOMAIN Hooks : run'[<<c, n>>] = run[<<c, n>>]
<1>1. CASE run' = run  BY <1>1
<1>2. ASSUME NEW ks \in SUBSET Applicable(event, k), Starts(d, ks)
      PROVE  \A c \in Dispatches \ {d}, n \in DOMAIN Hooks : run'[<<c, n>>] = run[<<c, n>>]
  <2>1. ks \in SUBSET (DOMAIN Hooks)  BY DEF Applicable
  <2> QED  BY <1>2, <2>1, StartsOnly DEF Invocations
<1> QED  BY <1>1, <1>2, LoopSteps

\* A loop keeps the decisions of every dispatch, if it keeps its own.
LEMMA LoopKeepsOthers ==
    ASSUME RuntimeTyped, DecisionsKnown, NEW d \in Dispatches, NEW event \in Events \cup {SomeEvent},
           NEW k, Loop(d, event, k), verdict' = verdict, closed => closed',
           DecisionKnown(d)'
    PROVE  DecisionsKnown'
<1>1. ASSUME NEW c \in Dispatches \ {d} PROVE DecisionKnown(c)'
  <2>1. \A n \in DOMAIN Hooks : run'[<<c, n>>] = run[<<c, n>>]  BY LoopOnly
  <2>2. dispatch'[c] = dispatch[c]  BY LoopSteps DEF OnlyRow
  <2> QED  BY <2>1, <2>2, Undisturbed DEF DecisionsKnown
<1> QED  BY <1>1 DEF DecisionsKnown

LEMMA RowKeepsOthers ==
    ASSUME DecisionsKnown, NEW d \in Dispatches, OnlyRow(d), run' = run, verdict' = verdict,
           closed => closed', DecisionKnown(d)'
    PROVE  DecisionsKnown'
<1>1. ASSUME NEW c \in Dispatches \ {d} PROVE DecisionKnown(c)'
  <2>1. dispatch'[c] = dispatch[c]  BY DEF OnlyRow
  <2> QED  BY <2>1, Undisturbed DEF DecisionsKnown
<1> QED  BY <1>1 DEF DecisionsKnown

LEMMA EmitDecides ==
    ASSUME RuntimeInv, DecisionsKnown, NEW d \in Dispatches, NEW event \in Events, Emit(d, event)
    PROVE  DecisionsKnown'
<1>1. /\ dispatch[d].pc = "new" /\ Loop(d, event, 1) /\ verdict' = verdict
      /\ closed' = closed /\ RuntimeTyped
  BY DEF Emit, shutdownVars, RuntimeInv
<1>2. CASE event.pi = "tool_call"
  <2>1. \A n \in Applicable(event, 1) : n >= 1 /\ ~(n < 1) /\ run[<<d, n>>] = "none"
    <3>1. /\ Applicable(event, 1) \subseteq DOMAIN Hooks /\ DOMAIN Hooks \subseteq Nat \ {0}
      BY <1>2, ToolHooks
    <3>2. \A n \in DOMAIN Hooks : run[<<d, n>>] = "none"
      BY <1>1 DEF DecisionsKnown, DecisionKnown
    <3> QED  BY <3>1, <3>2
  <2>2. DecisionKnown(d)'  BY <1>1, <1>2, <2>1, LoopDecides, 1 \in Nat
  <2> QED  BY <1>1, <2>2, LoopKeepsOthers
<1>3. CASE event.pi # "tool_call"
  <2>1. dispatch'[d].pc # "new" /\ dispatch'[d].event = event
    BY <1>1, LoopSteps DEF Answered
  <2>2. DecisionKnown(d)'  BY <1>3, <2>1, OtherEvent
  <2> QED  BY <1>1, <2>2, LoopKeepsOthers
<1> QED  BY <1>2, <1>3

LEMMA EndSessionDecides ==
    ASSUME RuntimeInv, DecisionsKnown, NEW d \in Dispatches, NEW event \in Events,
           EndSession(d, event)
    PROVE  DecisionsKnown'
<1>1. /\ event.pi = "session_shutdown" /\ Answer(d, "none", event)
      /\ run' = run /\ verdict' = verdict /\ (closed => closed')
  BY DEF EndSession
<1>2. OnlyRow(d) /\ dispatch'[d].event = event /\ dispatch'[d].pc = "awaitShutdown"
  BY <1>1, AnswerOnly DEF RuntimeInv, Answered
<1>3. DecisionKnown(d)'  BY <1>1, <1>2, OtherEvent
<1> QED  BY <1>1, <1>2, <1>3, RowKeepsOthers

LEMMA EndAnsweredDecides ==
    ASSUME RuntimeInv, DecisionsKnown, NEW d \in Dispatches, EndAnswered(d)
    PROVE  DecisionsKnown'
<1>1. /\ dispatch[d].pc = "awaitShutdown" /\ closed' = closed /\ verdict' = verdict
      /\ run' = run /\ dispatch' = [dispatch EXCEPT ![d].pc = "returned"]
  BY DEF EndAnswered, shutdownVars
<1>2. OnlyRow(d) /\ dispatch'[d].pc = "returned" /\ dispatch'[d].event = dispatch[d].event
  BY <1>1, PcOnly DEF RuntimeInv
<1>3. dispatch[d].event.pi # "tool_call"
  BY <1>1 DEF DecisionsKnown, DecisionKnown, ToolCallAt, Event
<1>4. DecisionKnown(d)'  BY <1>2, <1>3, OtherEvent
<1> QED  BY <1>1, <1>2, <1>4, RowKeepsOthers

LEMMA CancelledDecides ==
    ASSUME RuntimeInv, DecisionsKnown, Cancelled
    PROVE  DecisionsKnown'
<1>1. verdict' = verdict /\ closed' = closed  BY DEF Cancelled
<1>2. CASE UNCHANGED <<run, dispatch>>
  BY <1>1, <1>2, Undisturbed DEF DecisionsKnown
<1>3. ASSUME NEW d \in Dispatches, d = ender, Loop(d, Event(d), 1) PROVE DecisionsKnown'
  <2>1. Event(d).pi = "session_shutdown" /\ Event(d) \in Events \cup {SomeEvent}
    BY <1>3, DispatchAssumption DEF RuntimeInv, RuntimeTyped, Rows, EnderEnds, Ends, Event
  <2>2. dispatch'[d].event = Event(d) /\ dispatch'[d].pc # "new"
    BY <1>3, <2>1, LoopSteps DEF RuntimeInv, Answered
  <2>3. DecisionKnown(d)'  BY <2>1, <2>2, OtherEvent
  <2> QED  BY <1>1, <1>3, <2>1, <2>3, LoopKeepsOthers DEF RuntimeInv
<1> QED  BY <1>2, <1>3 DEF Cancelled, RuntimeInv, RuntimeTyped

LEMMA ResumeDecides ==
    ASSUME RuntimeInv, DecisionsKnown, NEW d \in Dispatches, Resume(d)
    PROVE  DecisionsKnown'
<1> DEFINE at == dispatch[d].at
           blocks == Blocks(Hooks[at], verdict[<<d, at>>], Event(d).plain)
<1>1. /\ dispatch[d].pc = "resume" /\ verdict' = verdict /\ closed' = closed /\ RuntimeTyped
      /\ Event(d) \in Events \cup {SomeEvent}
  BY DEF Resume, shutdownVars, RuntimeInv, RuntimeTyped, Rows, Event
<1>2. CASE Event(d).pi # "tool_call"
  <2>1. CASE Answer(d, "blocked", Event(d)) /\ run' = run
    <3>1. OnlyRow(d) /\ dispatch'[d].event = Event(d) /\ dispatch'[d].pc # "new"
      BY <1>1, <2>1, AnswerOnly DEF Answered
    <3>2. DecisionKnown(d)'  BY <1>2, <3>1, OtherEvent
    <3> QED  BY <1>1, <2>1, <3>1, <3>2, RowKeepsOthers
  <2>2. CASE Loop(d, Event(d), at + 1)
    <3>1. dispatch'[d].event = Event(d) /\ dispatch'[d].pc # "new"
      BY <1>1, <2>2, LoopSteps DEF Answered
    <3>2. DecisionKnown(d)'  BY <1>2, <3>1, OtherEvent
    <3> QED  BY <1>1, <2>2, <3>2, LoopKeepsOthers
  <2> QED  BY <2>1, <2>2 DEF Resume
<1>3. CASE Event(d).pi = "tool_call"
  <2>1. Reached(d, {"settled"})
    BY <1>1, <1>3 DEF DecisionsKnown, DecisionKnown, ToolCallAt
  <2>2. HooksOf(d) \subseteq DOMAIN Hooks /\ DOMAIN Hooks \subseteq Nat
    BY <1>3, ToolHooks, 1 \in Nat DEF HooksOf
  <2>3. at \in HooksOf(d) /\ at \in Nat /\ run[<<d, at>>] = "settled"
    BY <2>1, <2>2 DEF Reached
  <2>4. CASE blocks /\ Answer(d, "blocked", Event(d)) /\ run' = run
    <3> DEFINE row == [dispatch[d] EXCEPT !.event = Event(d), !.result = "blocked",
                                          !.pc = "returned"]
    <3>1. dispatch' = [dispatch EXCEPT ![d] = row]  BY <1>3, <2>4 DEF Answer
    <3>2. dispatch[d] \in Rows  BY <1>1 DEF RuntimeTyped
    <3>3. /\ row \in Rows /\ row.event = dispatch[d].event /\ row.pc = "returned"
          /\ row.at = dispatch[d].at /\ row.result = "blocked"
      BY <1>1, <3>2 DEF Rows, Event
    <3> HIDE DEF row
    <3>4. OnlyRow(d) /\ dispatch'[d] = row  BY <1>1, <3>1, <3>3 DEF RuntimeTyped, OnlyRow
    <3>5. HooksOf(d)' = HooksOf(d) /\ Event(d)' = Event(d)
      BY <3>3, <3>4 DEF HooksOf, Event
    <3>6. \A n : Passed(d, n)' <=> Passed(d, n)
      BY <1>1, <2>4, <3>5 DEF Passed, Blocks
    <3>7. Reached(d, {"settled"})'
      BY <2>1, <2>4, <3>3, <3>4, <3>5, <3>6 DEF Reached
    <3>8. ~Passed(d, at)  BY <2>4 DEF Passed
    <3>9. Decided(d)'  BY <3>3, <3>4, <3>6, <3>7, <3>8 DEF Decided
    <3>10. DecisionKnown(d)'  BY <3>3, <3>4, <3>9 DEF DecisionKnown, ToolCallAt
    <3> QED  BY <1>1, <2>4, <3>4, <3>10, RowKeepsOthers
  <2>5. CASE ~blocks /\ Loop(d, Event(d), at + 1)
    <3>1. ASSUME NEW n \in HooksOf(d)
          PROVE  /\ n < at + 1 => /\ run[<<d, n>>] = "settled"
                                  /\ ~Blocks(Hooks[n], verdict[<<d, n>>], Event(d).plain)
                 /\ n >= at + 1 => run[<<d, n>>] = "none"
      <4>1. n \in Nat  BY <2>2
      <4>2. CASE n < at  BY <2>1, <2>3, <4>1, <4>2 DEF Reached, Passed
      <4>3. CASE n = at  BY <2>3, <2>5, <4>3
      <4>4. CASE n > at  BY <2>1, <2>3, <4>1, <4>4 DEF Reached
      <4> QED  BY <2>3, <4>1, <4>2, <4>3, <4>4
    <3>2. at + 1 \in Nat  BY <2>3
    <3> HIDE DEF at
    <3>3. DecisionKnown(d)'  BY <1>1, <1>3, <2>5, <3>1, <3>2, LoopDecides DEF HooksOf
    <3> QED  BY <1>1, <2>5, <3>3, LoopKeepsOthers
  <2> QED  BY <2>4, <2>5 DEF Resume
<1> QED  BY <1>2, <1>3

\* The end of a run is that of a hook which a tool call waits for, or of one
\* that it does not run.
LEMMA RunEndsDecides ==
    ASSUME RuntimeInv, DecisionsKnown, NEW i \in Invocations, RunEnds(i)
    PROVE  DecisionsKnown'
<1>1. /\ run[i] = "running" /\ run' = [run EXCEPT ![i] = "ended"] /\ dispatch' = dispatch
      /\ closed' = closed
  BY DEF RunEnds, shutdownVars
<1>2. i[1] \in Dispatches /\ i[2] \in DOMAIN Hooks /\ i = <<i[1], i[2]>>
  BY DEF Invocations
<1>3. /\ run'[i] = "ended" /\ \A j \in Invocations \ {i} : run'[j] = run[j]
  BY <1>1 DEF RuntimeInv, RuntimeTyped
<1>4. /\ verdict' \in [Invocations -> Decisions \cup {"none"}]
      /\ \A j \in Invocations \ {i} : verdict'[j] = verdict[j]
  BY DEF RunEnds, DecisionsKnown, Decisions
<1>5. ASSUME NEW d \in Dispatches PROVE DecisionKnown(d)'
  <2>0. /\ DecisionKnown(d) /\ Event(d)' = Event(d) /\ HooksOf(d)' = HooksOf(d)
        /\ HooksOf(d) \subseteq DOMAIN Hooks
    BY <1>1 DEF DecisionsKnown, Event, HooksOf, Applicable
  <2>1. CASE i[1] # d
    <3>1. \A n \in DOMAIN Hooks : <<d, n>> \in Invocations \ {i}
      BY <2>1 DEF Invocations
    <3> QED  BY <1>1, <1>3, <1>4, <2>0, <3>1, Undisturbed
  <2>2. CASE i[1] = d /\ Event(d).pi # "tool_call"
    <3>1. dispatch[d].pc # "new"  BY <1>1, <1>2, <2>0, <2>2 DEF DecisionKnown
    <3> QED  BY <1>1, <2>0, <2>2, <3>1 DEF DecisionKnown
  <2>3. CASE i[1] = d /\ Event(d).pi = "tool_call"
    <3>1. dispatch[d].pc # "new"  BY <1>1, <1>2, <2>0, <2>3 DEF DecisionKnown
    <3>2. \A n \in DOMAIN Hooks \ {i[2]} : <<d, n>> \in Invocations \ {i}
      BY <2>3 DEF Invocations
    <3>3. \A n \in DOMAIN Hooks \ {i[2]} : Passed(d, n)' <=> Passed(d, n)
      BY <1>3, <1>4, <2>0, <3>2 DEF Passed, Blocks
    <3>4. ~Passed(d, i[2]) /\ ~Passed(d, i[2])'
      BY <1>1, <1>2, <1>3, <2>3 DEF Passed
    <3>5. \A n \in DOMAIN Hooks : Passed(d, n)' <=> Passed(d, n)
      BY <3>3, <3>4
    <3>6. CASE i[2] \in HooksOf(d)
      <4>1. dispatch[d].pc = "await" /\ dispatch[d].at = i[2]
        <5>1. ~Hook(i).asynchronous  BY <2>3, <3>6, ToolHooks, 1 \in Nat DEF HooksOf, Hook
        <5> QED  BY <1>1, <2>3, <5>1 DEF RuntimeInv, Awaited, Active
      <4>2. Reached(d, {"running", "ended"})
        BY <2>0, <2>3, <4>1 DEF DecisionKnown, ToolCallAt
      <4>3. Reached(d, {"running", "ended"})'
        <5>1. HooksOf(d) \subseteq Nat  BY <2>3, ToolHooks, 1 \in Nat DEF HooksOf
        <5>2. \A n \in HooksOf(d) : n > i[2] => run'[<<d, n>>] = run[<<d, n>>]
          BY <1>3, <2>0, <3>2, <3>6, <5>1
        <5> QED  BY <1>1, <1>2, <1>3, <2>0, <2>3, <3>5, <4>1, <4>2, <5>2 DEF Reached
      <4> QED  BY <1>1, <2>0, <4>1, <4>3 DEF DecisionKnown, ToolCallAt
    <3>7. CASE i[2] \notin HooksOf(d)
      <4>1. \A n \in HooksOf(d) : run'[<<d, n>>] = run[<<d, n>>]
        BY <1>3, <2>0, <3>2, <3>7
      <4>2. \A states : Reached(d, states) => Reached(d, states)'
        BY <1>1, <2>0, <3>5, <4>1 DEF Reached
      <4>3. Decided(d) => Decided(d)'
        BY <1>1, <2>0, <3>5, <4>2 DEF Decided, Reached
      <4> QED  BY <1>1, <2>0, <3>1, <4>2, <4>3 DEF DecisionKnown, ToolCallAt
    <3> QED  BY <3>6, <3>7
  <2> QED  BY <2>1, <2>2, <2>3
<1> QED  BY <1>4, <1>5 DEF DecisionsKnown

LEMMA SettleDecides ==
    ASSUME RuntimeInv, DecisionsKnown, NEW i \in Invocations, Settle(i)
    PROVE  DecisionsKnown'
<1>1. /\ run[i] = "ended" /\ run' = [run EXCEPT ![i] = "settled"]
      /\ closed' = closed /\ verdict' = verdict
  BY DEF Settle, shutdownVars
<1>2. i[1] \in Dispatches /\ i[2] \in DOMAIN Hooks /\ i = <<i[1], i[2]>>
  BY DEF Invocations
<1>3. /\ run'[i] = "settled" /\ \A j \in Invocations \ {i} : run'[j] = run[j]
  BY <1>1 DEF RuntimeInv, RuntimeTyped
<1>4. /\ \A d \in Dispatches : dispatch'[d].event = dispatch[d].event
      /\ \A d \in Dispatches \ {i[1]} : dispatch'[d] = dispatch[d]
      /\ \/ Hook(i).asynchronous /\ dispatch' = dispatch
         \/ /\ ~Hook(i).asynchronous /\ dispatch'[i[1]].pc = "resume"
            /\ dispatch'[i[1]].at = dispatch[i[1]].at
  <2>1. CASE Hook(i).asynchronous  BY <2>1 DEF Settle
  <2>2. CASE ~Hook(i).asynchronous
    <3> DEFINE row == [dispatch[i[1]] EXCEPT !.pc = "resume"]
    <3>1. dispatch' = [dispatch EXCEPT ![i[1]] = row]  BY <2>2 DEF Settle
    <3>2. dispatch[i[1]] \in Rows /\ dispatch \in [Dispatches -> Rows]
      BY <1>2 DEF RuntimeInv, RuntimeTyped
    <3>3. /\ row.event = dispatch[i[1]].event /\ row.pc = "resume"
          /\ row.at = dispatch[i[1]].at
      BY <3>2 DEF Rows
    <3> HIDE DEF row
    <3>4. dispatch'[i[1]] = row /\ \A d \in Dispatches \ {i[1]} : dispatch'[d] = dispatch[d]
      BY <1>2, <3>1, <3>2
    <3> QED  BY <2>2, <3>3, <3>4
  <2> QED  BY <2>1, <2>2
<1>5. ASSUME NEW d \in Dispatches PROVE DecisionKnown(d)'
  <2>0. /\ DecisionKnown(d) /\ Event(d)' = Event(d) /\ HooksOf(d)' = HooksOf(d)
        /\ HooksOf(d) \subseteq DOMAIN Hooks
    BY <1>4 DEF DecisionsKnown, Event, HooksOf, Applicable
  <2>1. CASE i[1] # d
    <3>1. \A n \in DOMAIN Hooks : <<d, n>> \in Invocations \ {i}
      BY <2>1 DEF Invocations
    <3>2. dispatch'[d] = dispatch[d]  BY <1>4, <2>1
    <3> QED  BY <1>1, <1>3, <2>0, <3>1, <3>2, Undisturbed
  <2>2. CASE i[1] = d /\ Event(d).pi # "tool_call"
    <3>1. dispatch[d].pc # "new"  BY <1>1, <1>2, <2>0, <2>2 DEF DecisionKnown
    <3>2. dispatch'[d].pc # "new"  BY <1>4, <2>2, <3>1
    <3> QED  BY <2>0, <2>2, <3>2 DEF DecisionKnown
  <2>3. CASE i[1] = d /\ Event(d).pi = "tool_call"
    <3>1. dispatch[d].pc # "new"  BY <1>1, <1>2, <2>0, <2>3 DEF DecisionKnown
    <3>2. \A n \in DOMAIN Hooks \ {i[2]} : <<d, n>> \in Invocations \ {i}
      BY <2>3 DEF Invocations
    <3>3. \A n \in DOMAIN Hooks \ {i[2]} :
             run'[<<d, n>>] = run[<<d, n>>] /\ (Passed(d, n)' <=> Passed(d, n))
      BY <1>1, <1>3, <2>0, <3>2 DEF Passed, Blocks
    <3>4. CASE Hook(i).asynchronous
      <4>1. i[2] \notin HooksOf(d)  BY <2>3, <3>4, ToolHooks, 1 \in Nat DEF HooksOf, Hook
      <4>2. \A n \in HooksOf(d) :
               run'[<<d, n>>] = run[<<d, n>>] /\ (Passed(d, n)' <=> Passed(d, n))
        BY <2>0, <3>3, <4>1
      <4>3. dispatch' = dispatch  BY <1>4, <3>4
      <4>4. \A states : Reached(d, states) => Reached(d, states)'
        BY <2>0, <4>2, <4>3 DEF Reached
      <4>5. Decided(d) => Decided(d)'
        BY <1>1, <2>0, <4>2, <4>3, <4>4 DEF Decided, Reached
      <4> QED  BY <2>0, <3>1, <4>3, <4>4, <4>5 DEF DecisionKnown, ToolCallAt
    <3>5. CASE ~Hook(i).asynchronous
      <4>1. dispatch[d].pc = "await" /\ dispatch[d].at = i[2]
        BY <1>1, <2>3, <3>5 DEF RuntimeInv, Awaited, Active
      <4>2. Reached(d, {"running", "ended"})
        BY <2>0, <2>3, <4>1 DEF DecisionKnown, ToolCallAt
      <4>3. HooksOf(d) \subseteq Nat  BY <2>3, ToolHooks, 1 \in Nat DEF HooksOf
      <4>4. dispatch'[d].pc = "resume" /\ dispatch'[d].at = i[2]
        BY <1>4, <2>3, <3>5, <4>1
      <4>5. \A n \in HooksOf(d) : n # i[2] =>
               run'[<<d, n>>] = run[<<d, n>>] /\ (Passed(d, n)' <=> Passed(d, n))
        BY <2>0, <3>3
      <4>6. i[2] \in HooksOf(d) /\ i[2] \in Nat  BY <4>1, <4>2, <4>3 DEF Reached
      <4>7. run'[<<d, i[2]>>] = "settled"  BY <1>2, <1>3, <2>3
      <4>8. ASSUME NEW n \in HooksOf(d)
            PROVE  /\ n < i[2] => Passed(d, n)'
                   /\ n > i[2] => run'[<<d, n>>] = "none"
        <5>1. n \in Nat  BY <4>3
        <5>2. n < i[2] \/ n > i[2] => n # i[2]  BY <4>6, <5>1
        <5> QED  BY <4>1, <4>2, <4>5, <5>2 DEF Reached
      <4>9. Reached(d, {"settled"})'
        BY <2>0, <4>4, <4>6, <4>7, <4>8 DEF Reached
      <4> QED  BY <2>0, <4>4, <4>9 DEF DecisionKnown, ToolCallAt
    <3> QED  BY <3>4, <3>5
  <2> QED  BY <2>1, <2>2, <2>3
<1> QED  BY <1>1, <1>5 DEF DecisionsKnown

LEMMA DecisionsKept == ASSUME RuntimeInv, DecisionsKnown, [RuntimeNext]_runtimeVars PROVE DecisionsKnown'
<1>1. ASSUME UNCHANGED <<run, verdict, dispatch>>, closed => closed' PROVE DecisionsKnown'
  BY <1>1, Undisturbed DEF DecisionsKnown
<1>2. CASE UNCHANGED runtimeVars  BY <1>1, <1>2 DEF runtimeVars
<1>3. ASSUME NEW d \in Dispatches, PiCancels(d) PROVE DecisionsKnown'
  BY <1>1, <1>3 DEF PiCancels, shutdownVars
<1>4. CASE EndHooksDispatched \/ SessionEnded \/ Shutdown
  BY <1>1, <1>4 DEF EndHooksDispatched, SessionEnded, Shutdown
<1>5. ASSUME NEW d \in Dispatches, NEW e \in Events, Emit(d, e) \/ EndSession(d, e)
      PROVE  DecisionsKnown'
  BY <1>5, EmitDecides, EndSessionDecides
<1>6. ASSUME NEW d \in Dispatches, EndAnswered(d) \/ Resume(d) PROVE DecisionsKnown'
  BY <1>6, EndAnsweredDecides, ResumeDecides
<1>7. ASSUME NEW i \in Invocations, RunEnds(i) \/ Settle(i) PROVE DecisionsKnown'
  BY <1>7, RunEndsDecides, SettleDecides
<1> QED  BY <1>2, <1>3, <1>4, <1>5, <1>6, <1>7, CancelledDecides DEF RuntimeNext, End

LEMMA InitDecisions == RuntimeInit => DecisionsKnown
<1> SUFFICES ASSUME RuntimeInit PROVE DecisionsKnown
  OBVIOUS
<1>1. verdict \in [Invocations -> Decisions \cup {"none"}]  BY DEF RuntimeInit
<1>2. ASSUME NEW d \in Dispatches PROVE DecisionKnown(d)
  <2>1. dispatch[d].pc = "new"  BY DEF RuntimeInit
  <2>2. \A n \in DOMAIN Hooks : run[<<d, n>>] = "none"  BY DEF RuntimeInit, Invocations
  <2> QED  BY <2>1, <2>2 DEF DecisionKnown, ToolCallAt
<1> QED  BY <1>1, <1>2 DEF DecisionsKnown

LEMMA KnownIsSound == ASSUME RuntimeTyped, DecisionsKnown PROVE DecisionIsSound
<1> SUFFICES ASSUME NEW d \in Dispatches, dispatch[d].pc = "returned",
                    Event(d).pi = "tool_call"
             PROVE  LET hooks == Applicable(Event(d), 1)
                        ran == {k \in hooks : run[<<d, k>>] = "settled"}
                        blocking == {k \in ran :
                            Blocks(Hooks[k], verdict[<<d, k>>], Event(d).plain)}
                    IN  /\ dispatch[d].result = "allowed" /\ ~closed =>
                             ran = hooks /\ \A k \in ran :
                               LET v == verdict[<<d, k>>]
                               IN  /\ v # "deny"
                                   /\ v = "error" => Hooks[k].failurePolicy = "open"
                        /\ dispatch[d].result = "blocked" =>
                             /\ Cardinality(blocking) = 1
                             /\ \A k \in ran, b \in blocking : k <= b
  BY DEF DecisionIsSound
<1> DEFINE hooks == Applicable(Event(d), 1)
           ran == {k \in hooks : run[<<d, k>>] = "settled"}
           blocking == {k \in ran :
               Blocks(Hooks[k], verdict[<<d, k>>], Event(d).plain)}
           at == dispatch[d].at
<1>1. Decided(d)  BY DEF DecisionsKnown, DecisionKnown, ToolCallAt
<1>2. /\ hooks \subseteq DOMAIN Hooks /\ hooks \subseteq Nat
      /\ \A k \in hooks : Hooks[k].event = "pre-tool"
  BY ToolHooks, 1 \in Nat
<1>3. \A k \in hooks : Hooks[k].failurePolicy \in {"open", "closed"}
  BY <1>2, HooksAssumption DEF ValidHook
<1>4. ASSUME dispatch[d].result = "allowed", ~closed
      PROVE  ran = hooks /\ \A k \in ran :
               /\ verdict[<<d, k>>] # "deny"
               /\ verdict[<<d, k>>] = "error" => Hooks[k].failurePolicy = "open"
  <2>1. \A k \in hooks : Passed(d, k)  BY <1>1, <1>4 DEF Decided, HooksOf
  <2> QED  BY <1>2, <1>3, <2>1 DEF Passed, Blocks
<1>5. ASSUME dispatch[d].result = "blocked"
      PROVE  Cardinality(blocking) = 1 /\ \A k \in ran, b \in blocking : k <= b
  <2>1. Reached(d, {"settled"}) /\ ~Passed(d, at)  BY <1>1, <1>5 DEF Decided
  <2>2. /\ at \in hooks /\ run[<<d, at>>] = "settled"
        /\ \A k \in hooks : /\ k < at => Passed(d, k)
                            /\ k > at => run[<<d, k>>] = "none"
    BY <2>1 DEF Reached, HooksOf
  <2>3. at \in blocking  BY <2>1, <2>2 DEF Passed
  <2>4. \A k \in ran : k <= at
    <3>1. ASSUME NEW k \in ran PROVE k <= at
      <4>1. k \in Nat /\ at \in Nat /\ ~(k > at)  BY <1>2, <2>2
      <4> QED  BY <4>1
    <3> QED  BY <3>1
  <2>5. \A k \in blocking : k = at
    <3>1. ASSUME NEW k \in blocking PROVE k = at
      <4>1. k \in Nat /\ at \in Nat /\ k <= at  BY <1>2, <2>2, <2>4
      <4>2. ~(k < at)  BY <2>2 DEF Passed
      <4> QED  BY <4>1, <4>2
    <3> QED  BY <3>1
  <2>6. blocking = {at}  BY <2>3, <2>5
  <2>7. Cardinality(blocking) = 1  BY <2>6, FS_Singleton
  <2> QED  BY <2>4, <2>6, <2>7
<1> QED  BY <1>4, <1>5

\* A tool call that the runtime allows while it is open has passed every hook
\* that matches it, and one that it blocks was blocked by the last hook to run:
\* whatever other events, cancellations and ends of session come in between
\* (dispatchHooks).
THEOREM DecisionSound == RuntimeSpec => []DecisionIsSound
<1>1. RuntimeInv /\ DecisionsKnown /\ [RuntimeNext]_runtimeVars => DecisionsKnown'  BY DecisionsKept
<1>2. RuntimeInv /\ DecisionsKnown => DecisionIsSound  BY KnownIsSound DEF RuntimeInv
<1> QED  BY <1>1, <1>2, InitDecisions, RuntimeInvariant, PTL DEF RuntimeSpec

=============================================================================
