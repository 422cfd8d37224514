---------------------------- MODULE PinnedOutput ----------------------------
(***************************************************************************)
(* The path that agbun build takes to its output: artifact.Write compares  *)
(* the output with the plan below a pinned parent directory and, unless    *)
(* nothing differs, calls write.ReplaceOutputInRoot, which stages the plan *)
(* and replaces the output with two renames.  There is no journal, and     *)
(* nothing is recovered.  Several processes may build one workspace at the *)
(* same time; each may be killed, power may be lost, and file operations   *)
(* fail.                                                                   *)
(*                                                                         *)
(* As in OutputJournal, fs is the parent directory and disk holds what a   *)
(* power loss may leave of it.                                             *)
(***************************************************************************)
EXTENDS Naturals, FiniteSets

CONSTANTS
    Builders,   \* processes that run artifact.Write
    Plans,      \* the build plans that they materialize
    NoPlan,     \* "there is no output tree"
    Tx,         \* the random suffixes of staging trees
    MaxFaults,  \* bound: file operations that fail
    MaxCrashes  \* bound: kills and power losses

ASSUME PlanAssumption == NoPlan \notin Plans
ASSUME BoundAssumption == MaxFaults \in Nat /\ MaxCrashes \in Nat

VARIABLES
    fs,         \* the parent directory of the output root
    disk,       \* what a power loss may leave of it
    pc,         \* per builder, the next operation of its call, or "idle"
    plan,       \* per builder, the plan of its call
    tx,         \* per builder, the suffix of its staging tree
    hadOld,     \* per builder, whether Lstat found an output root
    result,     \* per builder, what its call returns, or returned
    used,       \* the suffixes drawn
    faults,     \* file operations that failed so far
    crashes     \* kills and power losses so far

vars == <<fs, disk, pc, plan, tx, hadOld, result, used, faults, crashes>>
locals == <<plan, tx, hadOld, used>>

-----------------------------------------------------------------------------
(* Trees and the directory.                                                *)

Trees == [plan : Plans, whole : BOOLEAN]
NoTree == [plan |-> NoPlan, whole |-> TRUE]
Directories ==
    [output : Trees \cup {NoTree},
     staging : [Tx -> Trees \cup {NoTree}],
     backup : [Tx -> Trees \cup {NoTree}]]

Present(tree) == tree # NoTree
New(b) == [plan |-> plan[b], whole |-> TRUE]
Torn(tree) == [tree EXCEPT !.whole = FALSE]

PutOutput(d, tree) == [d EXCEPT !.output = tree]
PutStaging(d, t, tree) == [d EXCEPT !.staging[t] = tree]
PutBackup(d, t, tree) == [d EXCEPT !.backup[t] = tree]

-----------------------------------------------------------------------------
(* The vocabulary of a step of builder b.                                  *)

At(b, label) == pc[b] = label
Goto(b, label) == pc' = [pc EXCEPT ![b] = label]
Result(b, r) == result' = [result EXCEPT ![b] = r]
NoFault == UNCHANGED <<faults, crashes>>
Fault == faults < MaxFaults /\ faults' = faults + 1 /\ UNCHANGED crashes

\* The directory changes and nothing is synced.
Mutate(d) ==
    /\ fs' = d
    /\ disk' = disk \cup {d}
Look == UNCHANGED <<fs, disk>>

\* An operation of b that leads to next, or fails.
Succeed(b, next) == Goto(b, next) /\ UNCHANGED <<result, locals>> /\ NoFault
Fail(b, next) ==
    Goto(b, next) /\ Result(b, "error") /\ UNCHANGED locals

-----------------------------------------------------------------------------
(* artifact.Write.                                                         *)

Call(b, p) ==
    /\ At(b, "idle")
    /\ plan' = [plan EXCEPT ![b] = p]
    /\ Result(b, "none")
    /\ Goto(b, "walk")
    /\ UNCHANGED <<fs, disk, tx, hadOld, used>>
    /\ NoFault

\* DetectDriftInRoot walks the output: entries that differ, or an error of the
\* walk, lead to a replacement.
Walk(b) ==
    /\ At(b, "walk")
    /\ Look
    /\ \/ fs.output = New(b) /\ Succeed(b, "read")
       \/ fs.output # New(b) /\ Succeed(b, "make")
       \/ Fault /\ Goto(b, "make") /\ UNCHANGED <<result, locals>>

\* ... and reads the files that it walked over.
Read(b) ==
    /\ At(b, "read")
    /\ Look
    /\ \/ /\ fs.output = New(b)
          /\ Goto(b, "idle")
          /\ Result(b, "ok")
          /\ UNCHANGED locals
          /\ NoFault
       \/ fs.output # New(b) /\ Succeed(b, "make")
       \/ Fault /\ Goto(b, "make") /\ UNCHANGED <<result, locals>>

-----------------------------------------------------------------------------
(* write.ReplaceOutputInRoot.                                              *)

\* pinnedStagingName.
MakeStaging(b) ==
    /\ At(b, "make")
    /\ \/ \E t \in Tx \ used :
            /\ tx' = [tx EXCEPT ![b] = t]
            /\ used' = used \cup {t}
            /\ Mutate(PutStaging(fs, t, Torn(New(b))))
            /\ Goto(b, "fill")
            /\ UNCHANGED <<plan, hadOld, result>>
            /\ NoFault
       \/ /\ Look
          /\ Fault \/ (Tx \subseteq used /\ NoFault)
          /\ Fail(b, "idle")

\* Mutant: an error of stageFilesInRoot or verifyStagingInRoot is dropped.
MutantStageErrorDropped(b) ==
    /\ At(b, "fill")
    /\ \/ Mutate(PutStaging(fs, tx[b], New(b))) /\ Succeed(b, "lstat")
       \/ Look /\ Fault /\ Goto(b, "lstat") /\ UNCHANGED <<result, locals>>

\* stageFilesInRoot, verifyStagingInRoot and syncTreeInRoot.
StageFiles(b) ==
    /\ At(b, "fill")
    /\ \/ Mutate(PutStaging(fs, tx[b], New(b))) /\ Succeed(b, "lstat")
       \/ Look /\ Fault /\ Fail(b, "cleanup")

\* Lstat of the output root decides hadOld.
Lstat(b) ==
    /\ At(b, "lstat")
    /\ Look
    /\ \/ /\ hadOld' = [hadOld EXCEPT ![b] = Present(fs.output)]
          /\ Goto(b, IF Present(fs.output) THEN "moveOld" ELSE "install")
          /\ UNCHANGED <<plan, tx, used, result>>
          /\ NoFault
       \/ Fault /\ Fail(b, "cleanup")

\* Mutant: the old output is removed, not set aside.
MutantRemoveOld(b) ==
    /\ At(b, "moveOld")
    /\ Mutate(PutOutput(fs, NoTree))
    /\ Succeed(b, "install")

\* The old output becomes the backup; another builder may have taken it.
MoveOld(b) ==
    /\ At(b, "moveOld")
    /\ \/ /\ Present(fs.output)
          /\ Mutate(PutOutput(PutBackup(fs, tx[b], fs.output), NoTree))
          /\ Succeed(b, "install")
       \/ /\ Look
          /\ Fault \/ (~Present(fs.output) /\ NoFault)
          /\ Fail(b, "cleanup")

\* The staging tree becomes the output; a rename over a directory with entries
\* fails, so another builder's tree is never replaced here.
Install(b) ==
    /\ At(b, "install")
    /\ \/ /\ ~Present(fs.output)
          /\ Mutate(PutOutput(PutStaging(fs, tx[b], NoTree), fs.staging[tx[b]]))
          /\ Succeed(b, IF hadOld[b] THEN "forget" ELSE "sync")
       \/ /\ Look
          /\ Fault \/ (Present(fs.output) /\ NoFault)
          /\ Fail(b, IF hadOld[b] THEN "rollback" ELSE "cleanup")

\* The backup goes back, and an error of that does not count.
Rollback(b) ==
    /\ At(b, "rollback")
    /\ \/ /\ ~Present(fs.output)
          /\ Mutate(PutOutput(PutBackup(fs, tx[b], NoTree), fs.backup[tx[b]]))
          /\ Succeed(b, "cleanup")
       \/ /\ Look
          /\ Fault \/ (Present(fs.output) /\ NoFault)
          /\ Goto(b, "cleanup")
          /\ UNCHANGED <<result, locals>>

\* RemoveAll of a tree at one place, or a part of it; errors do not count.
ForgetOld(b) ==
    /\ At(b, "forget")
    /\ LET old == fs.backup[tx[b]] IN
       \/ Mutate(PutBackup(fs, tx[b], NoTree)) /\ Succeed(b, "sync")
       \/ /\ old.whole
          /\ Mutate(PutBackup(fs, tx[b], Torn(old)))
          /\ Succeed(b, "forget")
       \/ Look /\ Fault /\ Goto(b, "sync") /\ UNCHANGED <<result, locals>>

\* syncPinnedDirectory, with the old output gone already.
Sync(b) ==
    /\ At(b, "sync")
    /\ \/ /\ disk' = {fs}
          /\ UNCHANGED <<fs, locals>>
          /\ Goto(b, "cleanup")
          /\ Result(b, "ok")
          /\ NoFault
       \/ Look /\ Fault /\ Fail(b, "cleanup")

\* The deferred removal of the staging tree ends the call.
Cleanup(b) ==
    /\ At(b, "cleanup")
    /\ LET left == fs.staging[tx[b]] IN
       \/ Mutate(PutStaging(fs, tx[b], NoTree)) /\ Succeed(b, "idle")
       \/ /\ Present(left) /\ left.whole
          /\ Mutate(PutStaging(fs, tx[b], Torn(left)))
          /\ Succeed(b, "cleanup")
       \/ Look /\ Fault /\ Goto(b, "idle") /\ UNCHANGED <<result, locals>>

-----------------------------------------------------------------------------
(* The environment.                                                        *)

Crash == crashes < MaxCrashes /\ crashes' = crashes + 1 /\ UNCHANGED faults

\* One builder is killed.
Kill(b) ==
    /\ ~At(b, "idle")
    /\ Crash
    /\ Look
    /\ Goto(b, "idle")
    /\ Result(b, "none")
    /\ UNCHANGED locals

\* Power is lost.
PowerLoss ==
    /\ Crash
    /\ fs' \in disk
    /\ disk' = {fs'}
    /\ pc' = [b \in Builders |-> "idle"]
    /\ result' = [b \in Builders |-> "none"]
    /\ UNCHANGED locals

-----------------------------------------------------------------------------

Init ==
    /\ fs \in {d \in Directories :
                 /\ d.output \in [plan : Plans, whole : {TRUE}] \cup {NoTree}
                 /\ d.staging = [t \in Tx |-> NoTree]
                 /\ d.backup = [t \in Tx |-> NoTree]}
    /\ disk = {fs}
    /\ pc = [b \in Builders |-> "idle"]
    /\ \E p \in Plans : plan = [b \in Builders |-> p]
    /\ \E t \in Tx : tx = [b \in Builders |-> t]
    /\ hadOld = [b \in Builders |-> FALSE]
    /\ result = [b \in Builders |-> "none"]
    /\ used = {}
    /\ faults = 0
    /\ crashes = 0

Step(b) ==
    \/ Walk(b) \/ Read(b)
    \/ MakeStaging(b) \/ StageFiles(b) \/ Lstat(b) \/ MoveOld(b) \/ Install(b)
    \/ Rollback(b) \/ ForgetOld(b) \/ Sync(b) \/ Cleanup(b)

Next ==
    \/ \E b \in Builders : (\E p \in Plans : Call(b, p)) \/ Step(b) \/ Kill(b)
    \/ PowerLoss

Spec == Init /\ [][Next]_vars

-----------------------------------------------------------------------------
(* Properties.                                                             *)

Labels == {"idle", "walk", "read", "make", "fill", "lstat", "moveOld",
           "install", "rollback", "forget", "sync", "cleanup"}

\* Every variable has its type, and every state the disk may hold is one of
\* the directory's.
TypeOK ==
    /\ fs \in disk /\ disk \subseteq Directories
    /\ pc \in [Builders -> Labels]
    /\ plan \in [Builders -> Plans]
    /\ tx \in [Builders -> Tx]
    /\ hadOld \in [Builders -> BOOLEAN]
    /\ result \in [Builders -> {"none", "ok", "error"}]
    /\ used \subseteq Tx
    /\ faults \in 0 .. MaxFaults
    /\ crashes \in 0 .. MaxCrashes

\* However builders interleave, fail or die, nobody ever sees a partial tree
\* at the output root.
OutputIsWhole == \A d \in disk : d.output.whole

\* Once there is a complete output tree, the directory always has one: at the
\* output root, or as a backup that nobody has begun to remove.
Complete(d) ==
    \/ Present(d.output)
    \/ \E t \in Tx : Present(d.backup[t]) /\ d.backup[t].whole
CompleteTreeSurvives ==
    [][(\A d \in disk : Complete(d)) => \A d \in disk' : Complete(d)]_vars
=============================================================================
