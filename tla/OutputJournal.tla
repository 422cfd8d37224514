--------------------------- MODULE OutputJournal ---------------------------
(***************************************************************************)
(* write.ReplaceOutput: a build plan is materialized in a private staging  *)
(* tree and then put at the output root, by an atomic exchange of the two  *)
(* directories where the platform has one, else by two renames under a     *)
(* journal whose phase tells recoverJournal what to undo or to finish.     *)
(*                                                                         *)
(* The parent directory of the output root is one record, fs.  What a      *)
(* power loss may leave of it is any member of disk: the states fs has     *)
(* gone through since the directory was last synced (metadata reaches the  *)
(* disk in order).  The process may be killed before any step, and any     *)
(* file operation may fail.                                                *)
(***************************************************************************)
EXTENDS Naturals, FiniteSets

CONSTANTS
    Plans,      \* the build plans that callers materialize
    NoPlan,     \* "there is no output tree"
    NoJournal,  \* "there is no journal"
    Tx,         \* transaction names: the random suffixes of staging trees
    MaxFaults,  \* bound: file operations that fail
    MaxCrashes  \* bound: kills and power losses

ASSUME PlanAssumption == NoPlan \notin Plans
ASSUME BoundAssumption == MaxFaults \in Nat /\ MaxCrashes \in Nat

VARIABLES
    fs,         \* the parent directory of the output root, as processes see it
    disk,       \* what a power loss may leave of it
    pc,         \* the next operation of the call in progress, or "idle"
    plan,       \* the plan of that call
    tx,         \* the name of its staging tree
    hadOld,     \* replacementJournal.HadOld
    phase,      \* replacementJournal.Phase, the value being persisted
    result,     \* what the call returns, or returned: "ok", "error" or
                \* "refused" (an error of recoverJournal's own state checks)
    used,       \* the names that makeStaging has drawn
    outcomes,   \* history: the plans the output may turn out to hold
    faults,     \* file operations that failed so far
    crashes     \* kills and power losses so far

vars == <<fs, disk, pc, plan, tx, hadOld, phase, result, used, outcomes,
          faults, crashes>>
call == <<plan, tx, hadOld, phase, used, outcomes>>

-----------------------------------------------------------------------------
(* The directory: the output root, one staging and one backup tree for     *)
(* each transaction, the journal and the journal's temporary file.  A tree *)
(* is whole when it holds every file of its plan.                          *)

Trees == [plan : Plans, whole : BOOLEAN]
NoTree == [plan |-> NoPlan, whole |-> TRUE]
Phases == {"prepared", "old-moved", "new-installed"}
Journals == [tx : Tx, hadOld : BOOLEAN, phase : Phases]
ASSUME JournalAssumption == NoJournal \notin Journals

Directories ==
    [output : Trees \cup {NoTree},
     staging : [Tx -> Trees \cup {NoTree}],
     backup : [Tx -> Trees \cup {NoTree}],
     journal : Journals \cup {NoJournal},
     tmp : BOOLEAN]

Present(tree) == tree # NoTree

\* The tree of a staged plan.
New == [plan |-> plan, whole |-> TRUE]

\* A part of a tree: staging, or os.RemoveAll, has not come to its end.
Torn(tree) == [tree EXCEPT !.whole = FALSE]

\* The directory d with a tree at one of its names.
PutOutput(d, tree) == [d EXCEPT !.output = tree]
PutStaging(d, t, tree) == [d EXCEPT !.staging = [@ EXCEPT ![t] = tree]]
PutBackup(d, t, tree) == [d EXCEPT !.backup = [@ EXCEPT ![t] = tree]]
\* The directory d with a journal, or none, and with or without a temporary.
PutJournal(d, j, tmp) == [d EXCEPT !.journal = j, !.tmp = tmp]

\* os.Rename(output, backup of t), and back.
MoveOldAway(d, t) == PutOutput(PutBackup(d, t, d.output), NoTree)
MoveOldBack(d, t) == PutBackup(PutOutput(d, d.backup[t]), t, NoTree)
\* os.Rename(staging of t, output).
InstallNew(d, t) == PutStaging(PutOutput(d, d.staging[t]), t, NoTree)
\* exchangeDirectories(staging of t, output).
Exchanged(d, t) == PutStaging(PutOutput(d, d.staging[t]), t, d.output)

-----------------------------------------------------------------------------
(* The vocabulary of a step.                                               *)

Goto(label) == pc' = label

\* The directory changes and nothing is synced.
Mutate(d) == fs' = d /\ disk' = disk \cup {d}
Look == UNCHANGED <<fs, disk>>

NoFault == UNCHANGED <<faults, crashes>>
Fault == faults < MaxFaults /\ faults' = faults + 1 /\ UNCHANGED crashes

\* os.RemoveAll of a tree, where d is the directory without it and torn the
\* one with a part of it: it succeeds, or has come part of the way.
RemoveAll(tree, d, torn, next) ==
    /\ \/ Mutate(d) /\ Goto(next)
       \/ Present(tree) /\ tree.whole /\ Mutate(torn) /\ UNCHANGED pc
    /\ UNCHANGED result
    /\ NoFault

\* The call ends; a success makes its plan the only outcome.
Return(r) ==
    /\ Goto("idle")
    /\ result' = r
    /\ outcomes' = IF r = "ok" THEN {plan} ELSE outcomes
    /\ UNCHANGED <<plan, tx, hadOld, phase, used>>

-----------------------------------------------------------------------------
(* recoverJournal: at the start of a call, and again when a journalled     *)
(* replacement fails.  result tells the two apart: only in the second is   *)
(* there an error to return, and a staging tree to remove, already.        *)

RecoveredTo == IF result = "none" THEN "make" ELSE "cleanup"

\* recoverJournal returns an error: r tells an I/O error from a refusal.
RecoveryFails(r) ==
    IF result = "none"
    THEN Return(r)
    ELSE Goto("cleanup") /\ result' = r /\ UNCHANGED call

\* What recovery does once the output root and the backup are settled.
Discard(d) ==
    IF Present(d.staging[d.journal.tx]) THEN "dropStaging" ELSE "dropJournal"

\* What the phase of the journal and the trees found tell recovery to do.
Verdict(d) ==
    LET j == d.journal
        out == Present(d.output)
        stg == Present(d.staging[j.tx])
        bak == Present(d.backup[j.tx])
    IN  CASE j.phase = "prepared" /\ j.hadOld /\ ~out ->
               IF bak THEN "restore" ELSE "refuse"
          [] j.phase = "prepared" /\ (j.hadOld => out) ->
               IF bak \/ (out /\ (j.hadOld # stg)) THEN "refuse" ELSE Discard(d)
          [] j.phase = "old-moved" ->
               IF ~bak \/ (out /\ stg) THEN "refuse"
               ELSE IF out THEN "dropBackup" ELSE "restore"
          [] OTHER ->  \* new-installed
               IF ~out THEN "refuse"
               ELSE IF bak THEN "dropBackup" ELSE Discard(d)

\* Reads the journal, removes a stale temporary, and takes the verdict.
RecoverJournal ==
    /\ pc = "recover"
    /\ LET d == PutJournal(fs, fs.journal, FALSE) IN
       \/ /\ Mutate(d)
          /\ NoFault
          /\ IF d.journal = NoJournal
             THEN Goto(RecoveredTo) /\ UNCHANGED <<result, call>>
             ELSE IF Verdict(d) = "refuse"
             THEN RecoveryFails("refused")
             ELSE Goto(Verdict(d)) /\ UNCHANGED <<result, call>>
       \/ Look /\ Fault /\ RecoveryFails("error")

\* Mutant: recovery goes on without the tree that it could not restore.
MutantRestoreErrorDropped ==
    /\ pc = "restore"
    /\ UNCHANGED <<result, call>>
    /\ \/ Mutate(MoveOldBack(fs, fs.journal.tx)) /\ NoFault
       \/ Look /\ Fault
    /\ Goto("syncRestored")

RestoreOld ==
    /\ pc = "restore"
    /\ \/ /\ Mutate(MoveOldBack(fs, fs.journal.tx))
          /\ Goto("syncRestored")
          /\ UNCHANGED <<result, call>>
          /\ NoFault
       \/ Look /\ Fault /\ RecoveryFails("error")

DropBackup ==
    /\ pc = "dropBackup"
    /\ LET t == fs.journal.tx IN
       \/ /\ RemoveAll(fs.backup[t],
                       PutBackup(fs, t, NoTree),
                       PutBackup(fs, t, Torn(fs.backup[t])), "syncBackup")
          /\ UNCHANGED call
       \/ Look /\ Fault /\ RecoveryFails("error")

DropStaging ==
    /\ pc = "dropStaging"
    /\ LET t == fs.journal.tx IN
       \/ /\ RemoveAll(fs.staging[t],
                       PutStaging(fs, t, NoTree),
                       PutStaging(fs, t, Torn(fs.staging[t])), "syncStaging")
          /\ UNCHANGED call
       \/ Look /\ Fault /\ RecoveryFails("error")

\* removeJournal, as the last statement of recoverJournal.
DropJournal ==
    /\ pc = "dropJournal"
    /\ \/ /\ Mutate(PutJournal(fs, NoJournal, fs.tmp))
          /\ Goto("syncUnlinked")
          /\ UNCHANGED <<result, call>>
          /\ NoFault
       \/ Look /\ Fault /\ RecoveryFails("error")

\* The syncs of recoverJournal.
SyncRecovery ==
    /\ pc \in {"syncRestored", "syncBackup", "syncStaging", "syncUnlinked"}
    /\ \/ /\ disk' = {fs}
          /\ UNCHANGED <<fs, result, call>>
          /\ NoFault
          /\ Goto(CASE pc = "syncUnlinked" -> RecoveredTo
                    [] pc = "syncStaging" -> "dropJournal"
                    [] OTHER -> Discard(fs))
       \/ Look /\ Fault /\ RecoveryFails("error")

-----------------------------------------------------------------------------
(* ReplaceOutput.                                                          *)

\* validateOutputRoot finds a directory or nothing at the output root.
Call(p) ==
    /\ pc = "idle"
    /\ plan' = p
    /\ outcomes' = outcomes \cup {p}
    /\ result' = "none"
    /\ Goto("recover")
    /\ Look
    /\ NoFault
    /\ UNCHANGED <<tx, hadOld, phase, used>>

MakeStaging ==
    /\ pc = "make"
    /\ \/ \E t \in Tx \ used :
            /\ tx' = t
            /\ used' = used \cup {t}
            /\ Mutate(PutStaging(fs, t, Torn(New)))
            /\ Goto("fill")
            /\ UNCHANGED <<plan, hadOld, phase, result, outcomes>>
            /\ NoFault
       \/ Look /\ (Fault \/ (Tx \subseteq used /\ NoFault)) /\ Return("error")

\* Mutant: an error of stageFiles or verifyStaging is dropped.
MutantStageErrorDropped ==
    /\ pc = "fill"
    /\ UNCHANGED <<call, result>>
    /\ Goto("decide")
    /\ \/ Mutate(PutStaging(fs, tx, New)) /\ NoFault
       \/ Look /\ Fault

\* stageFiles, verifyStaging and syncTree.
StageFiles ==
    /\ pc = "fill"
    /\ UNCHANGED call
    /\ \/ /\ Mutate(PutStaging(fs, tx, New))
          /\ Goto("decide")
          /\ UNCHANGED result
          /\ NoFault
       \/ Look /\ Fault /\ Goto("cleanup") /\ result' = "error"

\* replace: an atomic exchange if there is an old root and a platform that can.
Exchange ==
    /\ pc = "decide"
    /\ Present(fs.output)
    /\ Mutate(Exchanged(fs, tx))
    /\ Goto("syncExchange")
    /\ UNCHANGED <<call, result>>
    /\ NoFault

\* Mutant: the exchange is reported without the sync of the parent directory.
MutantExchangeNotSynced ==
    /\ pc = "syncExchange"
    /\ Goto("cleanup")
    /\ UNCHANGED call
    /\ Look /\ result' = "ok" /\ NoFault

SyncExchange ==
    /\ pc = "syncExchange"
    /\ Goto("cleanup")
    /\ UNCHANGED call
    /\ \/ disk' = {fs} /\ UNCHANGED fs /\ result' = "ok" /\ NoFault
       \/ /\ Fault
          /\ result' = "error"
          /\ \/ Look
             \/ Mutate(Exchanged(fs, tx))
             \/ fs' = Exchanged(fs, tx) /\ disk' = {fs'}

\* ... else the journalled replacement, or an installation under the journal.
BeginJournal ==
    /\ pc = "decide"
    /\ UNCHANGED <<plan, tx, used, outcomes>>
    /\ Look
    /\ \/ /\ hadOld' = Present(fs.output)
          /\ phase' = "prepared"
          /\ Goto("writeTmp")
          /\ UNCHANGED result
          /\ NoFault
       \/ /\ Fault
          /\ Goto("cleanup")
          /\ result' = "error"
          /\ UNCHANGED <<hadOld, phase>>

\* An error of the journalled replacement: the deferred recovery runs.
ReplaceFails == Fault /\ Goto("recover") /\ result' = "error" /\ UNCHANGED call

\* persistJournal: an exclusive temporary file, renamed over the journal.
WriteJournal ==
    /\ pc = "writeTmp"
    /\ \/ /\ ~fs.tmp
          /\ Mutate(PutJournal(fs, fs.journal, TRUE))
          /\ \/ Goto("publish") /\ UNCHANGED <<call, result>> /\ NoFault
             \/ ReplaceFails
       \/ Look /\ ReplaceFails

PublishJournal ==
    /\ pc = "publish"
    /\ LET j == [tx |-> tx, hadOld |-> hadOld, phase |-> phase] IN
       \/ /\ Mutate(PutJournal(fs, j, FALSE))
          /\ Goto("syncJournal")
          /\ UNCHANGED <<call, result>>
          /\ NoFault
       \/ Look /\ ReplaceFails

\* A rename of the journalled replacement.
Rename(from, d, next) ==
    /\ pc = from
    /\ \/ Mutate(d) /\ Goto(next) /\ UNCHANGED <<call, result>> /\ NoFault
       \/ Look /\ ReplaceFails

MoveOld == Rename("moveOld", MoveOldAway(fs, tx), "syncMoved")
Install == Rename("install", InstallNew(fs, tx), "syncInstalled")

\* Mutant: the journal goes before the backup that it names.
MutantUnlinkFirst ==
    CASE phase = "prepared" -> IF hadOld THEN "moveOld" ELSE "install"
      [] phase = "old-moved" -> "install"
      [] phase = "new-installed" -> "unlink"

\* The operation that follows the sync of a journal in the current phase.
AfterPersist ==
    CASE phase = "prepared" -> IF hadOld THEN "moveOld" ELSE "install"
      [] phase = "old-moved" -> "install"
      [] phase = "new-installed" -> IF hadOld THEN "forget" ELSE "unlink"

SyncJournal ==
    /\ pc = "syncJournal"
    /\ \/ /\ disk' = {fs}
          /\ Goto(AfterPersist)
          /\ UNCHANGED <<fs, call, result>>
          /\ NoFault
       \/ Look /\ ReplaceFails

\* Mutant: the backup goes while the journal still says old-moved.
MutantInstalledNotPersisted ==
    /\ pc \in {"syncMoved", "syncInstalled"}
    /\ \/ /\ disk' = {fs}
          /\ phase' = IF pc = "syncMoved" THEN "old-moved" ELSE phase
          /\ Goto(IF pc = "syncMoved" THEN "writeTmp"
                  ELSE IF hadOld THEN "forget" ELSE "unlink")
          /\ UNCHANGED <<fs, plan, tx, hadOld, used, outcomes, result>>
          /\ NoFault
       \/ Look /\ ReplaceFails

\* The sync after a rename, and the next phase of the journal.
SyncRename ==
    /\ pc \in {"syncMoved", "syncInstalled"}
    /\ \/ /\ disk' = {fs}
          /\ phase' = IF pc = "syncMoved" THEN "old-moved" ELSE "new-installed"
          /\ Goto("writeTmp")
          /\ UNCHANGED <<fs, plan, tx, hadOld, used, outcomes, result>>
          /\ NoFault
       \/ Look /\ ReplaceFails

\* The backup and the journal of a finished replacement go; errors do not count.
ForgetOld ==
    /\ pc = "forget"
    /\ UNCHANGED call
    /\ \/ RemoveAll(fs.backup[tx],
                    PutBackup(fs, tx, NoTree),
                    PutBackup(fs, tx, Torn(fs.backup[tx])), "unlink")
       \/ Look /\ Fault /\ Goto("unlink") /\ UNCHANGED result

UnlinkJournal ==
    /\ pc = "unlink"
    /\ LET d == PutJournal(fs, NoJournal, fs.tmp) IN
       \/ fs' = d /\ disk' = {d} /\ NoFault
       \/ (Look \/ Mutate(d)) /\ Fault
    /\ result' = "ok"
    /\ Goto("cleanup")
    /\ UNCHANGED call

\* The deferred removal of the staging tree ends the call.
Cleanup ==
    /\ pc = "cleanup"
    /\ \/ Mutate(PutStaging(fs, tx, NoTree)) /\ NoFault /\ Return(result)
       \/ Look /\ Fault /\ Return(result)
       \/ /\ Present(fs.staging[tx]) /\ fs.staging[tx].whole
          /\ Mutate(PutStaging(fs, tx, Torn(fs.staging[tx])))
          /\ NoFault
          /\ UNCHANGED <<pc, result, call>>

-----------------------------------------------------------------------------
(* The environment.                                                        *)

Crash == crashes < MaxCrashes /\ crashes' = crashes + 1 /\ UNCHANGED faults

\* The process is killed.
Kill ==
    /\ pc # "idle"
    /\ Crash
    /\ Look
    /\ Goto("idle")
    /\ result' = "none"
    /\ UNCHANGED call

\* Power is lost: the directory is one of its states since the last sync.
PowerLoss ==
    /\ Crash
    /\ fs' \in disk
    /\ disk' = {fs'}
    /\ Goto("idle")
    /\ result' = "none"
    /\ UNCHANGED call

-----------------------------------------------------------------------------

Init ==
    /\ fs \in {d \in Directories :
                 /\ d.output \in [plan : Plans, whole : {TRUE}] \cup {NoTree}
                 /\ d.staging = [t \in Tx |-> NoTree]
                 /\ d.backup = [t \in Tx |-> NoTree]
                 /\ d.journal = NoJournal
                 /\ d.tmp = FALSE}
    /\ disk = {fs}
    /\ pc = "idle"
    /\ plan \in Plans
    /\ tx \in Tx
    /\ hadOld = FALSE
    /\ phase = "prepared"
    /\ result = "none"
    /\ used = {}
    /\ outcomes = {fs.output.plan}
    /\ faults = 0
    /\ crashes = 0

Recover == RecoverJournal \/ RestoreOld \/ DropBackup \/ DropStaging
           \/ DropJournal \/ SyncRecovery
Replace == MakeStaging \/ StageFiles \/ Exchange \/ SyncExchange
           \/ BeginJournal \/ WriteJournal \/ PublishJournal \/ SyncJournal
           \/ MoveOld \/ SyncRename \/ Install \/ ForgetOld \/ UnlinkJournal
           \/ Cleanup

Next ==
    \/ \E p \in Plans : Call(p)
    \/ Recover
    \/ Replace
    \/ Kill
    \/ PowerLoss

Spec == Init /\ [][Next]_vars

-----------------------------------------------------------------------------
(* Properties.                                                             *)

Labels == {"idle", "recover", "restore", "syncRestored", "dropBackup",
           "syncBackup", "dropStaging", "syncStaging", "dropJournal",
           "syncUnlinked", "make", "fill", "decide", "syncExchange",
           "writeTmp", "publish", "syncJournal", "moveOld", "syncMoved",
           "install", "syncInstalled", "forget", "unlink", "cleanup"}

LocalsOK ==
    /\ pc \in Labels
    /\ plan \in Plans
    /\ tx \in Tx
    /\ hadOld \in BOOLEAN
    /\ phase \in Phases
    /\ result \in {"none", "ok", "error", "refused"}
    /\ used \subseteq Tx
    /\ outcomes \subseteq Plans \cup {NoPlan}

CountersOK == faults \in 0 .. MaxFaults /\ crashes \in 0 .. MaxCrashes

\* Every variable has its type, and every state the disk may hold is one of
\* the directory's.
TypeOK ==
    /\ fs \in disk /\ disk \subseteq Directories
    /\ LocalsOK
    /\ CountersOK

\* The tree that the output root holds once a pending recovery has run: the
\* backup of a journal that has not installed the new tree, if no tree is there.
Settled(d) ==
    IF ~Present(d.output) /\ d.journal # NoJournal /\ d.journal.hadOld
          /\ d.journal.phase # "new-installed"
    THEN d.backup[d.journal.tx]
    ELSE d.output

\* No failure, kill or power loss leaves a partial tree at the output root or
\* as the backup that recovery would restore, loses the last complete output,
\* or takes back a replacement that was reported as done.
OnlyWholeOutcomes ==
    \A d \in disk :
        /\ d.output.whole
        /\ Settled(d).whole
        /\ Settled(d).plan \in outcomes

\* Every backup that a kill or a power loss leaves, unless an operation fails
\* as well, is one that the journal names: the next recovery restores or
\* removes it, and none stays for ever.
BackupsAreJournalled ==
    faults = 0 =>
        \A t \in Tx : Present(fs.backup[t]) =>
            /\ fs.journal # NoJournal
            /\ fs.journal.tx = t

\* recoverJournal accepts the directory that it finds.
RecoveryNeverRefuses == result # "refused"

\* It does so after one interruption, at any point of a call; a recovery that is
\* itself interrupted may leave a directory that later ones refuse.
RecoveryAcceptsOneInterruption ==
    faults = 0 /\ crashes <= 1 => RecoveryNeverRefuses

\* A removal that fails may leave a backup behind that no journal names: nothing
\* restores it and nothing removes it.  Whatever failed, and whatever reached the
\* disk, such a backup is not needed: there is an output, or recovery restores one.
Forgotten(d, t) == Present(d.backup[t]) /\ (d.journal = NoJournal \/ d.journal.tx # t)

ForgottenBackupsAreSpare ==
    \A d \in disk : (\E t \in Tx : Forgotten(d, t)) => Present(Settled(d))

\* The replacement is atomic and durable: it implements OutputReplacement.
Replacement ==
    INSTANCE OutputReplacement WITH
        current <- Settled(fs).plan,
        request <- IF pc = "idle" THEN NoPlan ELSE plan

ReplacementIsAtomic == Replacement!Spec
-----------------------------------------------------------------------------
(* Why OnlyWholeOutcomes holds: what each point of a call knows of the     *)
(* directory.  The conjunction is inductive.                               *)

\* Whatever is on disk: a journal is one that ReplaceOutput can have written.
JournalsAreSane ==
    \A d \in disk : d.journal # NoJournal =>
        (d.journal.phase = "old-moved" => d.journal.hadOld)

\* Recovery touches a journal whose prior tree is in place, or is to be.
RecoveryKnows ==
    /\ pc = "restore" =>
         /\ fs.journal # NoJournal
         /\ fs.journal.hadOld
         /\ fs.journal.phase # "new-installed"
         /\ ~Present(fs.output)
         /\ Present(fs.backup[fs.journal.tx])
    /\ pc = "dropBackup" => fs.journal # NoJournal /\ Present(fs.output)
    /\ pc \in {"syncRestored", "syncBackup", "dropStaging", "syncStaging",
               "dropJournal"} =>
         /\ fs.journal # NoJournal
         /\ Present(fs.output) \/ ~fs.journal.hadOld

Persisting(p) == pc \in {"writeTmp", "publish", "syncJournal"} /\ phase = p

\* Before a journal exists, the output root is the tree of record.
StagingKnows ==
    /\ pc \in {"syncUnlinked", "make", "fill", "decide", "syncExchange"} =>
         fs.journal = NoJournal
    /\ pc = "decide" => fs.staging[tx] = New
    /\ pc = "syncExchange" =>
         /\ fs.output = New
         /\ Present(fs.staging[tx])
         /\ fs.staging[tx].whole
         /\ fs.staging[tx].plan \in outcomes

\* The old tree is at the output root, if there is one.
PreparedKnows ==
    \/ Persisting("prepared")
    \/ pc = "moveOld"
    \/ pc = "install" /\ ~hadOld
    =>
    /\ fs.staging[tx] = New
    /\ hadOld <=> Present(fs.output)
    /\ pc = "moveOld" => hadOld
    /\ IF pc \in {"writeTmp", "publish"}
       THEN fs.journal = NoJournal
       ELSE /\ fs.journal # NoJournal
            /\ fs.journal.tx = tx
            /\ fs.journal.hadOld <=> hadOld
            /\ fs.journal.phase = "prepared"

\* The old tree is the backup that the journal names.
MovedKnows ==
    \/ Persisting("old-moved")
    \/ pc = "syncMoved"
    \/ pc = "install" /\ hadOld
    =>
    /\ fs.staging[tx] = New
    /\ hadOld
    /\ ~Present(fs.output)
    /\ fs.journal # NoJournal
    /\ fs.journal.tx = tx
    /\ fs.journal.hadOld
    /\ fs.journal.phase # "new-installed"

\* The new tree is at the output root; and is durably there before the backup
\* and the journal go.
InstalledKnows ==
    /\ Persisting("new-installed") \/ pc = "syncInstalled" => fs.output = New
    /\ pc \in {"forget", "unlink"} \/ (pc = "cleanup" /\ result = "ok") =>
         \A d \in disk : d.output = New

CallKnows ==
    /\ pc # "idle" => plan \in outcomes
    /\ pc \notin {"idle", "cleanup"} => result # "ok"

PointKnows ==
    /\ RecoveryKnows
    /\ StagingKnows
    /\ PreparedKnows
    /\ MovedKnows
    /\ InstalledKnows
    /\ CallKnows

\* Each point of a call knows enough of the directory for its next step.
IInv ==
    /\ TypeOK
    /\ OnlyWholeOutcomes
    /\ JournalsAreSane
    /\ PointKnows
=============================================================================
