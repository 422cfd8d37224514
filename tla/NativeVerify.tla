---------------------------- MODULE NativeVerify ----------------------------
(***************************************************************************)
(* nativeverify.RunNativeChecks: the validators that check --native runs,  *)
(* one after the other.  Each is a process with a deadline, a bounded wait *)
(* for whoever still holds its output pipes when it is over, and two       *)
(* streams of which a bounded prefix is kept as evidence.                  *)
(*                                                                         *)
(* The command may leave processes that hold its pipes: strays.  os/exec   *)
(* kills the command, not its strays, when the context is done; when the   *)
(* command is over it copies until the pipes are closed or WaitDelay has   *)
(* passed.  Output is counted in chunks.                                   *)
(***************************************************************************)
EXTENDS Naturals

CONSTANTS
    MaxChecks,  \* bound: declared checks
    PipeLimit,  \* MaxOutputBytesPerStream, in chunks
    MaxOutput   \* bound: chunks that a check writes to a stream

ASSUME BoundAssumption == MaxChecks \in Nat /\ PipeLimit \in Nat /\ MaxOutput \in Nat

VARIABLES
    checks,     \* how many checks are declared
    pc,         \* "start", "next", "run", "judge" or "return"
    check,      \* the check at hand
    success,    \* Result.Success
    errors,     \* the error diagnostics: <<check, code>>
    warnings,   \* the truncation warnings: <<check, stream>>
    leader,     \* the process of the command: "running", "killed" or its status
    strays,     \* processes that it left hold its pipes
    deadline,   \* the deadline of its context has passed
    expired,    \* WaitDelay has passed, and the pipes were closed
    unread,     \* per stream, chunks in the pipe
    data,       \* per stream, chunks that boundedOutput keeps
    overflow,   \* per stream, boundedOutput.overflow
    wrote,      \* history: per stream, chunks written by the check at hand
    fate        \* history: what went wrong with each check

result == <<success, errors, warnings>>
streams == <<unread, data, overflow, wrote>>
process == <<leader, strays, deadline, expired>>
verifyVars == <<checks, pc, check, result, process, streams, fate>>

Pipes == {"stdout", "stderr"}
AllChecks == 1 .. MaxChecks

\* Why a check does not start: the codes of its diagnostics.
Refusals == {"invalid-check", "output-root-unavailable",
             "working-directory-unavailable", "working-directory-escape",
             "tool-unavailable", "start-failed"}

Happens(what) == fate' = [fate EXCEPT ![check] = @ \cup {what}]

\* Result.add.
Add(code) ==
    /\ success' = FALSE
    /\ errors' = errors \cup {<<check, code>>}

Advance == pc' = "next" /\ check' = check + 1

-----------------------------------------------------------------------------
(* RunNativeChecks.                                                        *)

\* Nothing to do, or the output root and the isolated environment are needed.
Begin ==
    /\ pc = "start"
    /\ \/ pc' = (IF checks = 0 THEN "return" ELSE "next")
          /\ success' = TRUE
          /\ UNCHANGED <<errors, fate>>
       \/ /\ checks # 0
          /\ pc' = "return"
          /\ \E code \in {"output-root-unavailable", "isolation-unavailable"} :
                /\ Add(code)
                /\ fate' = [c \in AllChecks |-> {"none ran"}]
    /\ UNCHANGED <<checks, check, warnings, process, streams>>

\* A check that does not start: it is invalid, its directory or its program is
\* not found, or Start fails, which is a timeout if the deadline has passed.
Refuse ==
    /\ pc = "next"
    /\ check <= checks
    /\ \E code \in Refusals \cup {"timeout"} : Add(code) /\ Happens(code)
    /\ Advance
    /\ UNCHANGED <<checks, warnings, process, streams>>

Start ==
    /\ pc = "next"
    /\ check <= checks
    /\ pc' = "run"
    /\ leader' = "running"
    /\ strays' = FALSE /\ deadline' = FALSE /\ expired' = FALSE
    /\ unread' = [s \in Pipes |-> 0]
    /\ data' = [s \in Pipes |-> 0]
    /\ overflow' = [s \in Pipes |-> FALSE]
    /\ wrote' = [s \in Pipes |-> 0]
    /\ UNCHANGED <<checks, check, result, fate>>

\* Command.Wait: the command is over, and its output is at its end or cut.
WaitReturns ==
    /\ pc = "run"
    /\ leader # "running"
    /\ expired \/ (~strays /\ \A s \in Pipes : unread[s] = 0)
    /\ pc' = "judge"
    /\ UNCHANGED <<checks, check, result, process, streams, fate>>

\* waitErr is not nil: a status other than zero, a kill or exec.ErrWaitDelay.
WaitError == leader # "zero" \/ expired

\* Mutant: a command that failed is told from one that is late by its status.
MutantLateIsKilled ==
    /\ pc = "judge"
    /\ IF WaitError
       THEN Add(IF leader = "killed" THEN "timeout" ELSE "failed")
       ELSE UNCHANGED <<success, errors>>
    /\ warnings' = warnings \cup ({check} \X {s \in Pipes : overflow[s]})
    /\ Advance
    /\ UNCHANGED <<checks, process, streams, fate>>

\* The context is asked after Wait; truncated evidence is a warning.
Judge ==
    /\ pc = "judge"
    /\ CASE deadline -> Add("timeout")
         [] ~deadline /\ WaitError -> Add("failed")
         [] OTHER -> UNCHANGED <<success, errors>>
    /\ warnings' = warnings \cup ({check} \X {s \in Pipes : overflow[s]})
    /\ Advance
    /\ UNCHANGED <<checks, process, streams, fate>>

\* The isolated directories are removed, strays or not.
Return ==
    /\ pc = "next"
    /\ check > checks
    /\ pc' = "return"
    /\ UNCHANGED <<checks, check, result, process, streams, fate>>

-----------------------------------------------------------------------------
(* os/exec.                                                                *)

\* boundedOutput.Write of n chunks: what fits is kept.
Write(s, n) ==
    /\ data' = [data EXCEPT ![s] = IF @ + n > PipeLimit THEN PipeLimit ELSE @ + n]
    /\ overflow' = [overflow EXCEPT ![s] = @ \/ data[s] + n > PipeLimit]

\* The copying goroutine of a stream reads some of what is in the pipe.
Copy(s) ==
    /\ pc = "run"
    /\ ~expired
    /\ \E n \in 1 .. unread[s] :
          /\ unread' = [unread EXCEPT ![s] = @ - n]
          /\ Write(s, n)
    /\ UNCHANGED <<checks, pc, check, result, process, wrote, fate>>

\* The context is done, at any time before Wait's result is judged.
DeadlinePasses ==
    /\ pc \in {"run", "judge"}
    /\ ~deadline
    /\ deadline' = TRUE
    /\ Happens("timeout")
    /\ UNCHANGED <<checks, pc, check, result, leader, strays, expired, streams>>

\* CommandContext kills the command, and nobody else.
Cancel ==
    /\ pc = "run"
    /\ deadline
    /\ leader = "running"
    /\ leader' = "killed"
    /\ Happens("killed")
    /\ UNCHANGED <<checks, pc, check, result, strays, deadline, expired, streams>>

\* Mutant: no WaitDelay is set.
MutantNoWaitDelay == FALSE /\ UNCHANGED verifyVars

\* WaitDelay passes with the pipes still open, or not read to the end.
Expire ==
    /\ pc = "run"
    /\ leader # "running"
    /\ ~expired
    /\ strays \/ \E s \in Pipes : unread[s] # 0
    /\ expired' = TRUE
    /\ unread' = [s \in Pipes |-> 0]
    /\ Happens("cut")
    /\ UNCHANGED <<checks, pc, check, result, leader, strays, deadline, data,
                   overflow, wrote>>

-----------------------------------------------------------------------------
(* The command.                                                            *)

\* It, or a stray, writes to a stream.
Output(s) ==
    /\ pc = "run"
    /\ leader = "running" \/ strays
    /\ ~expired
    /\ wrote[s] < MaxOutput
    /\ wrote' = [wrote EXCEPT ![s] = @ + 1]
    /\ unread' = [unread EXCEPT ![s] = @ + 1]
    /\ UNCHANGED <<checks, pc, check, result, process, data, overflow, fate>>

CommandExits ==
    /\ pc = "run"
    /\ leader = "running"
    /\ \/ leader' = "zero" /\ UNCHANGED fate
       \/ leader' = "nonzero" /\ Happens("status")
    /\ UNCHANGED <<checks, pc, check, result, strays, deadline, expired, streams>>

\* It leaves a process with its pipes, or all such processes have ended.
Stray ==
    /\ pc = "run"
    /\ strays' = ~strays
    /\ strays \/ leader = "running"
    /\ UNCHANGED <<checks, pc, check, result, leader, deadline, expired, streams,
                   fate>>

-----------------------------------------------------------------------------

VerifyInit ==
    /\ checks \in 0 .. MaxChecks
    /\ pc = "start"
    /\ check = 1
    /\ success = FALSE /\ errors = {} /\ warnings = {}
    /\ leader = "zero"
    /\ strays = FALSE /\ deadline = FALSE /\ expired = FALSE
    /\ unread = [s \in Pipes |-> 0]
    /\ data = [s \in Pipes |-> 0]
    /\ overflow = [s \in Pipes |-> FALSE]
    /\ wrote = [s \in Pipes |-> 0]
    /\ fate = [c \in AllChecks |-> {}]

Runner == Begin \/ Refuse \/ Start \/ WaitReturns \/ Judge \/ Return
Exec == DeadlinePasses \/ Cancel \/ Expire \/ \E s \in Pipes : Copy(s)
Command == CommandExits \/ Stray \/ \E s \in Pipes : Output(s)

VerifyNext == Runner \/ Exec \/ Command

VerifySpec == VerifyInit /\ [][VerifyNext]_verifyVars

\* The runner, the timers and the kill make progress; a command need not.
FairVerifySpec ==
    /\ VerifySpec
    /\ WF_verifyVars(Runner)
    /\ WF_verifyVars(DeadlinePasses) /\ WF_verifyVars(Cancel) /\ WF_verifyVars(Expire)

-----------------------------------------------------------------------------
(* Properties.                                                             *)

\* The diagnostic that fits what happened to a check.
Diagnosis(happened) ==
    IF "timeout" \in happened THEN "timeout"
    ELSE IF happened \in {{r} : r \in Refusals} THEN CHOOSE r \in happened : TRUE
    ELSE "failed"

\* The output root and the isolated environment were there.
Begun == \A c \in 1 .. checks : fate[c] # {"none ran"}

\* Each check that was refused, late, cut short or failed has the one error
\* that says so, and verification succeeds exactly when there is none,
\* however deadline, exit, kill and wait delay race.
VerdictIsSound ==
    pc = "return" =>
        /\ success <=> \A c \in 1 .. checks : fate[c] = {}
        /\ Begun => errors = {<<c, Diagnosis(fate[c])>> :
                                 c \in {d \in 1 .. checks : fate[d] # {}}}

\* Verification returns, whatever the commands do and leave behind.
VerificationReturns == <>(pc = "return")
=============================================================================
