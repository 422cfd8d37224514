------------------------ MODULE OutputJournalProofs ------------------------
(* Proofs about OutputJournal, for any plans, transactions and bounds. *)
EXTENDS OutputJournal, TLAPS

LEMMA DirectoryFields ==
    ASSUME NEW d \in Directories
    PROVE  /\ d.output \in Trees \cup {NoTree}
           /\ \A t \in Tx : d.staging[t] \in Trees \cup {NoTree}
           /\ \A t \in Tx : d.backup[t] \in Trees \cup {NoTree}
           /\ d.journal \in Journals \cup {NoJournal}
           /\ d.tmp \in BOOLEAN
BY DEF Directories

LEMMA PutOutputFields ==
    ASSUME NEW d \in Directories, NEW tree \in Trees \cup {NoTree}
    PROVE  LET e == PutOutput(d, tree) IN
           /\ e \in Directories
           /\ e.output = tree
           /\ e.staging = d.staging
           /\ e.backup = d.backup
           /\ e.journal = d.journal
           /\ e.tmp = d.tmp
BY DEF Directories, PutOutput

LEMMA PutStagingFields ==
    ASSUME NEW d \in Directories, NEW t \in Tx,
           NEW tree \in Trees \cup {NoTree}
    PROVE  LET e == PutStaging(d, t, tree) IN
           /\ e \in Directories
           /\ e.output = d.output
           /\ e.staging[t] = tree
           /\ e.backup = d.backup
           /\ e.journal = d.journal
           /\ e.tmp = d.tmp
BY DEF Directories, PutStaging

LEMMA PutBackupFields ==
    ASSUME NEW d \in Directories, NEW t \in Tx,
           NEW tree \in Trees \cup {NoTree}
    PROVE  LET e == PutBackup(d, t, tree) IN
           /\ e \in Directories
           /\ e.output = d.output
           /\ e.staging = d.staging
           /\ e.backup[t] = tree
           /\ e.journal = d.journal
           /\ e.tmp = d.tmp
BY DEF Directories, PutBackup

LEMMA PutJournalFields ==
    ASSUME NEW d \in Directories, NEW j \in Journals \cup {NoJournal},
           NEW b \in BOOLEAN
    PROVE  LET e == PutJournal(d, j, b) IN
           /\ e \in Directories
           /\ e.output = d.output
           /\ e.staging = d.staging
           /\ e.backup = d.backup
           /\ e.journal = j
           /\ e.tmp = b
BY DEF Directories, PutJournal

LEMMA TreeFields ==
    ASSUME NEW tree \in Trees \cup {NoTree}
    PROVE  /\ tree.whole \in BOOLEAN
           /\ tree.plan \in Plans \cup {NoPlan}
           /\ Present(tree) <=> tree.plan # NoPlan
           /\ Present(tree) <=> tree \in Trees
           /\ NoTree.whole = TRUE
           /\ NoTree.plan = NoPlan
<1>1. NoTree.whole = TRUE /\ NoTree.plan = NoPlan
  BY DEF NoTree
<1>2. CASE tree \in Trees
  <2>1. tree.plan \in Plans /\ tree.whole \in BOOLEAN
    BY <1>2 DEF Trees
  <2>2. tree.plan # NoPlan
    BY <2>1, PlanAssumption
  <2>. QED
    BY <1>1, <1>2, <2>1, <2>2 DEF Present
<1>3. CASE tree = NoTree
  <2>1. tree \notin Trees
    BY <1>1, <1>3, PlanAssumption DEF Trees
  <2>. QED
    BY <1>1, <1>3, <2>1 DEF Present
<1>. QED
  BY <1>2, <1>3

LEMMA TornFields ==
    ASSUME NEW tree \in Trees
    PROVE  Torn(tree) \in Trees /\ Torn(tree).plan = tree.plan
BY DEF Trees, Torn

LEMMA NewFields ==
    ASSUME LocalsOK
    PROVE  /\ New \in Trees
           /\ New.plan = plan
           /\ New.whole = TRUE
           /\ Present(New)
<1>1. New \in Trees /\ New.plan = plan /\ New.whole = TRUE
  BY DEF LocalsOK, New, Trees
<1>. QED
  BY <1>1, TreeFields

LEMMA JournalFields ==
    ASSUME NEW j \in Journals
    PROVE  j.tx \in Tx /\ j.hadOld \in BOOLEAN /\ j.phase \in Phases
BY DEF Journals

-----------------------------------------------------------------------------
(* What a step does to the part of the invariant that is about the disk.   *)

DiskOK ==
    /\ fs \in disk /\ disk \subseteq Directories
    /\ OnlyWholeOutcomes
    /\ JournalsAreSane

LEMMA IInvParts == IInv <=> DiskOK /\ LocalsOK /\ CountersOK /\ PointKnows
BY DEF IInv, DiskOK, TypeOK

\* A directory that may reach the disk at any time.
Sound(d) ==
    /\ d \in Directories
    /\ d.output.whole
    /\ Settled(d).whole
    /\ Settled(d).plan \in outcomes
    /\ d.journal # NoJournal =>
         (d.journal.phase = "old-moved" => d.journal.hadOld)

LEMMA DiskIsSound == DiskOK => Sound(fs) /\ \A d \in disk : Sound(d)
BY DEF DiskOK, OnlyWholeOutcomes, JournalsAreSane, Sound

LEMMA MutateDisk ==
    ASSUME DiskOK, NEW d, Sound(d), Mutate(d), outcomes' = outcomes
    PROVE  DiskOK'
BY DEF DiskOK, OnlyWholeOutcomes, JournalsAreSane, Sound, Mutate, Settled

LEMMA SyncDisk ==
    ASSUME DiskOK, NEW d, Sound(d), fs' = d, disk' = {d}, outcomes' = outcomes
    PROVE  DiskOK'
BY DEF DiskOK, OnlyWholeOutcomes, JournalsAreSane, Sound, Settled

LEMMA LookDisk ==
    ASSUME DiskOK, Look, outcomes \subseteq outcomes'
    PROVE  DiskOK'
BY DEF DiskOK, OnlyWholeOutcomes, JournalsAreSane, Look, Settled

\* Trees that are neither at the output root nor the backup to restore do not
\* matter.
LEMMA StagingAside ==
    ASSUME NEW d, Sound(d), NEW t \in Tx, NEW tree \in Trees \cup {NoTree}
    PROVE  LET e == PutStaging(d, t, tree)
           IN  Sound(e) /\ e.output = d.output /\ e.journal = d.journal
BY PutStagingFields DEF Sound, Settled

LEMMA BackupAside ==
    ASSUME NEW d, Sound(d), NEW t \in Tx, NEW tree \in Trees \cup {NoTree},
           Present(d.output)
    PROVE  LET e == PutBackup(d, t, tree)
           IN  Sound(e) /\ e.output = d.output /\ e.journal = d.journal
<1>. DEFINE e == PutBackup(d, t, tree)
<1>0. d \in Directories
  BY DEF Sound
<1>1. e \in Directories /\ e.output = d.output /\ e.journal = d.journal
  BY <1>0, PutBackupFields
<1>2. Settled(e) = e.output /\ Settled(d) = d.output
  BY <1>1 DEF Settled
<1>. QED
  BY <1>1, <1>2 DEF Sound

LEMMA TemporaryAside ==
    ASSUME NEW d, Sound(d), NEW b \in BOOLEAN
    PROVE  Sound(PutJournal(d, d.journal, b))
<1>. DEFINE e == PutJournal(d, d.journal, b)
<1>0. d \in Directories /\ d.journal \in Journals \cup {NoJournal}
  BY DirectoryFields DEF Sound
<1>1. e \in Directories /\ e.output = d.output /\ e.journal = d.journal
      /\ e.backup = d.backup
  BY <1>0, PutJournalFields
<1>2. Settled(e) = Settled(d)
  BY <1>1 DEF Settled
<1>. QED
  BY <1>1, <1>2 DEF Sound

\* The journal may change when the output root is the tree of record before
\* and after.
LEMMA JournalAside ==
    ASSUME NEW d, Sound(d), NEW j \in Journals \cup {NoJournal},
           NEW b \in BOOLEAN,
           \/ Present(d.output)
           \/ (d.journal = NoJournal \/ ~d.journal.hadOld)
              /\ (j = NoJournal \/ ~j.hadOld),
           j # NoJournal => (j.phase = "old-moved" => j.hadOld)
    PROVE  LET e == PutJournal(d, j, b)
           IN  Sound(e) /\ e.output = d.output /\ e.journal = j
               /\ e.staging = d.staging /\ e.backup = d.backup
<1>. DEFINE e == PutJournal(d, j, b)
<1>0. d \in Directories
  BY DEF Sound
<1>1. e \in Directories /\ e.output = d.output /\ e.journal = j
      /\ e.staging = d.staging /\ e.backup = d.backup
  BY <1>0, PutJournalFields
<1>2. Settled(e) = e.output /\ Settled(d) = d.output
  <2>1. CASE Present(d.output)
    BY <1>1, <2>1 DEF Settled
  <2>2. CASE /\ d.journal = NoJournal \/ ~d.journal.hadOld
             /\ j = NoJournal \/ ~j.hadOld
    <3>1. Settled(d) = d.output
      BY <2>2 DEF Settled
    <3>2. Settled(e) = e.output
      BY <1>1, <2>2 DEF Settled
    <3>. QED
      BY <3>1, <3>2
  <2>. QED
    BY <2>1, <2>2
<1>. QED
  BY <1>1, <1>2 DEF Sound

\* A whole tree that somebody asked for may be put at the output root.
LEMMA OutputAside ==
    ASSUME NEW d, Sound(d), NEW tree \in Trees, tree.whole,
           tree.plan \in outcomes
    PROVE  LET e == PutOutput(d, tree)
           IN  Sound(e) /\ e.output = tree /\ e.journal = d.journal
               /\ e.staging = d.staging /\ e.backup = d.backup
BY PutOutputFields, TreeFields DEF Sound, Settled

\* At the entries and the exits of a call nothing is known of the directory.
LEMMA QuietPoint ==
    ASSUME pc' \in {"idle", "recover", "cleanup"},
           pc' # "idle" => result' # "ok" /\ plan' \in outcomes'
    PROVE  PointKnows'
BY DEF PointKnows, RecoveryKnows, StagingKnows, PreparedKnows, MovedKnows,
       InstalledKnows, CallKnows, Persisting

\* The locals keep their types.
LEMMA LocalsStep ==
    LocalsOK /\ CountersOK /\ [Next]_vars => LocalsOK' /\ CountersOK'
<1>. SUFFICES ASSUME LocalsOK, CountersOK, [Next]_vars
              PROVE  LocalsOK' /\ CountersOK'
  OBVIOUS
<1>0. NoFault \/ Fault \/ Crash => CountersOK'
  BY BoundAssumption DEF CountersOK, NoFault, Fault, Crash
<1>. USE <1>0 DEF LocalsOK, Labels, Phases, Goto, call, Return, RecoveryFails,
   RecoveredTo, RemoveAll,
         ReplaceFails, Rename
<1>1. ASSUME NEW p \in Plans, Call(p) PROVE LocalsOK' /\ CountersOK'
  BY <1>1 DEF Call
<1>2. CASE RecoverJournal
  BY <1>2 DEF RecoverJournal, Verdict, Discard
<1>3. CASE RestoreOld
  BY <1>3 DEF RestoreOld
<1>4. CASE DropBackup
  BY <1>4 DEF DropBackup
<1>5. CASE DropStaging
  BY <1>5 DEF DropStaging
<1>6. CASE DropJournal
  BY <1>6 DEF DropJournal
<1>7. CASE SyncRecovery
  BY <1>7 DEF SyncRecovery, Discard
<1>8. CASE MakeStaging
  BY <1>8 DEF MakeStaging
<1>9. CASE StageFiles
  BY <1>9 DEF StageFiles
<1>10. CASE Exchange
  BY <1>10 DEF Exchange
<1>11. CASE SyncExchange
  BY <1>11 DEF SyncExchange
<1>12. CASE BeginJournal
  <2>1. Present(fs.output) \in BOOLEAN
    BY DEF Present
  <2>2. hadOld' \in BOOLEAN
    BY <1>12, <2>1 DEF BeginJournal
  <2>. QED
    BY <1>12, <2>2 DEF BeginJournal
<1>13. CASE WriteJournal
  BY <1>13 DEF WriteJournal
<1>14. CASE PublishJournal
  BY <1>14 DEF PublishJournal
<1>15. CASE MoveOld
  BY <1>15 DEF MoveOld
<1>16. CASE Install
  BY <1>16 DEF Install
<1>17. CASE SyncJournal
  BY <1>17 DEF SyncJournal, AfterPersist
<1>18. CASE SyncRename
  BY <1>18 DEF SyncRename
<1>19. CASE ForgetOld
  BY <1>19 DEF ForgetOld
<1>20. CASE UnlinkJournal
  BY <1>20 DEF UnlinkJournal
<1>21. CASE Cleanup
  BY <1>21 DEF Cleanup
<1>22. CASE Kill
  BY <1>22 DEF Kill
<1>23. CASE PowerLoss
  BY <1>23 DEF PowerLoss
<1>24. CASE UNCHANGED vars
  BY <1>24 DEF vars, CountersOK
<1>. QED
  BY <1>1, <1>2, <1>3, <1>4, <1>5, <1>6, <1>7, <1>8, <1>9, <1>10, <1>11,
     <1>12, <1>13, <1>14, <1>15, <1>16, <1>17, <1>18, <1>19, <1>20, <1>21,
     <1>22, <1>23, <1>24
  DEF Next, Recover, Replace


\* Reporting success leaves one outcome: the tree that is on every disk.
LEMMA AcknowledgeDisk ==
    ASSUME DiskOK, LocalsOK, NEW d, Sound(d), d.output = New,
           \A e \in disk : e.output = New,
           Mutate(d) \/ Look, outcomes' = {plan}
    PROVE  DiskOK'
<1>1. \A e \in disk \cup {d} : e.output.whole /\ Settled(e).whole
                               /\ Settled(e).plan = plan
  BY NewFields DEF Settled
<1>. QED
  BY <1>1 DEF DiskOK, OnlyWholeOutcomes, JournalsAreSane, Mutate, Look, Sound,
     Settled

LEMMA ExchangeAside ==
    ASSUME NEW d, Sound(d), NEW t \in Tx,
           Present(d.output), Present(d.staging[t]),
           d.staging[t].whole, d.staging[t].plan \in outcomes
    PROVE  LET e == Exchanged(d, t)
           IN  Sound(e) /\ e.output = d.staging[t] /\ e.journal = d.journal
<1>1. /\ d.output \in Trees \cup {NoTree} /\ d.staging[t] \in Trees
  BY DirectoryFields, TreeFields DEF Sound
<1>2. LET e == PutOutput(d, d.staging[t])
      IN  Sound(e) /\ e.output = d.staging[t] /\ e.journal = d.journal
  BY <1>1, OutputAside
<1>. QED
  BY <1>1, <1>2, StagingAside DEF Exchanged

\* Writing the next phase keeps the tree of record.
LEMMA PublishAside ==
    ASSUME LocalsOK, PointKnows, Sound(fs), pc = "publish"
    PROVE  Sound(PutJournal(fs, [tx |-> tx, hadOld |-> hadOld,
                                 phase |-> phase], FALSE))
<1>. DEFINE j == [tx |-> tx, hadOld |-> hadOld, phase |-> phase]
            e == PutJournal(fs, j, FALSE)
<1>1. /\ j \in Journals /\ j.tx = tx /\ j.hadOld = hadOld /\ j.phase = phase
      /\ j # NoJournal
  BY JournalAssumption DEF LocalsOK, Journals
<1>2. CASE phase = "prepared"
  <2>1. fs.journal = NoJournal /\ (hadOld <=> Present(fs.output))
    BY <1>2 DEF PointKnows, PreparedKnows, Persisting
  <2>. QED
    BY <1>1, <1>2, <2>1, JournalAside
<1>3. CASE phase = "old-moved"
  <2>1. /\ hadOld /\ ~Present(fs.output) /\ fs.journal # NoJournal
        /\ fs.journal.tx = tx /\ fs.journal.hadOld
        /\ fs.journal.phase # "new-installed"
    BY <1>3 DEF PointKnows, MovedKnows, Persisting
  <2>2. /\ e \in Directories /\ e.output = fs.output
        /\ e.backup = fs.backup /\ e.journal = j
    <3>1. fs \in Directories /\ j \in Journals \cup {NoJournal}  BY <1>1 DEF Sound
    <3>. HIDE DEF j
    <3>. QED
      BY ONLY <3>1, PutJournalFields
  <2>3. Settled(e) = Settled(fs)
    BY <1>1, <1>3, <2>1, <2>2 DEF Settled
  <2>. QED
    BY <1>1, <2>1, <2>2, <2>3 DEF Sound
<1>4. CASE phase = "new-installed"
  <2>1. Present(fs.output)
    BY <1>4, NewFields DEF PointKnows, InstalledKnows, Persisting
  <2>. QED
    BY <1>1, <1>4, <2>1, JournalAside
<1>. QED
  BY <1>2, <1>3, <1>4 DEF LocalsOK, Phases

\* The old tree stays the tree of record as the backup of a prepared journal.
LEMMA MoveAside ==
    ASSUME LocalsOK, PointKnows, Sound(fs), pc = "moveOld"
    PROVE  LET e == MoveOldAway(fs, tx)
           IN  Sound(e) /\ ~Present(e.output) /\ e.journal = fs.journal
               /\ e.staging = fs.staging
<1>. DEFINE d == PutBackup(fs, tx, fs.output)
            e == PutOutput(d, NoTree)
<1>1. /\ fs.journal # NoJournal /\ fs.journal.tx = tx /\ fs.journal.hadOld
      /\ fs.journal.phase = "prepared" /\ Present(fs.output)
      /\ tx \in Tx /\ fs.output \in Trees \cup {NoTree}
  BY DirectoryFields DEF PointKnows, PreparedKnows, LocalsOK, Sound
<1>2. /\ d \in Directories /\ d.backup[tx] = fs.output
      /\ d.journal = fs.journal /\ d.staging = fs.staging
  BY <1>1, PutBackupFields DEF Sound
<1>3. /\ e \in Directories /\ e.output = NoTree /\ e.backup[tx] = fs.output
      /\ e.journal = fs.journal /\ e.staging = fs.staging
  BY <1>2, PutOutputFields
<1>4. ~Present(e.output) /\ NoTree.whole
  BY <1>3, TreeFields DEF Present
<1>5. Settled(e) = fs.output /\ Settled(fs) = fs.output
  BY <1>1, <1>3, <1>4 DEF Settled
<1>. QED
  BY <1>1, <1>3, <1>4, <1>5 DEF Sound, MoveOldAway

\* Every step keeps the disk sound.
LEMMA DiskStep ==
    DiskOK /\ LocalsOK /\ PointKnows /\ [Next]_vars => DiskOK'
<1>. SUFFICES ASSUME DiskOK, LocalsOK, PointKnows, [Next]_vars
              PROVE  DiskOK'
  OBVIOUS
<1>. DEFINE t == fs.journal.tx
<1>0. Sound(fs) /\ fs \in Directories /\ tx \in Tx
  BY DiskIsSound DEF LocalsOK, Sound
<1>a. /\ fs.journal # NoJournal => t \in Tx
      /\ \A x \in Tx : /\ fs.staging[x] \in Trees \cup {NoTree}
                       /\ fs.backup[x] \in Trees \cup {NoTree}
  BY <1>0, DirectoryFields, JournalFields
<1>b. \A tree : tree \in Trees \cup {NoTree} /\ Present(tree) =>
                  Torn(tree) \in Trees
  BY TornFields, TreeFields
<1>1. ASSUME NEW p \in Plans, Call(p) PROVE DiskOK'
  BY <1>1, LookDisk DEF Call
<1>2. CASE RecoverJournal
  <2>1. outcomes' = outcomes
    BY <1>2 DEF RecoverJournal, RecoveryFails, Return, call
  <2>2. Look \/ Mutate(PutJournal(fs, fs.journal, FALSE))
    BY <1>2 DEF RecoverJournal
  <2>. QED
    BY <1>0, <2>1, <2>2, TemporaryAside, MutateDisk, LookDisk
<1>3. CASE RestoreOld
  <2>1. outcomes' = outcomes
    BY <1>3 DEF RestoreOld, RecoveryFails, Return, call
  <2>2. CASE Mutate(MoveOldBack(fs, t))
    <3>1. t \in Tx /\ fs.journal # NoJournal /\ fs.journal.hadOld
          /\ fs.journal.phase # "new-installed" /\ ~Present(fs.output)
      BY <1>3, <1>a DEF RestoreOld, PointKnows, RecoveryKnows
    <3>2. Settled(fs) = fs.backup[t]
      BY <3>1 DEF Settled
    <3>3. fs.backup[t] \in Trees
      BY <1>3, <1>a, <3>1, TreeFields
      DEF RestoreOld, PointKnows, RecoveryKnows
    <3>4. fs.backup[t].whole /\ fs.backup[t].plan \in outcomes
      BY <1>0, <3>2 DEF Sound
    <3>5. Sound(PutOutput(fs, fs.backup[t]))
          /\ PutOutput(fs, fs.backup[t]).output = fs.backup[t]
      BY <1>0, <3>3, <3>4, OutputAside
    <3>6. Sound(MoveOldBack(fs, t))
      BY <3>1, <3>3, <3>5, BackupAside, TreeFields DEF MoveOldBack
    <3>. QED
      BY <2>1, <2>2, <3>6, MutateDisk
  <2>. QED
    BY <1>3, <2>1, <2>2, LookDisk DEF RestoreOld
<1>4. CASE DropBackup
  <2>1. outcomes' = outcomes
    BY <1>4 DEF DropBackup, RecoveryFails, Return, call
  <2>2. t \in Tx /\ Present(fs.output)
    BY <1>4, <1>a DEF DropBackup, PointKnows, RecoveryKnows
  <2>3. Sound(PutBackup(fs, t, NoTree))
    BY <1>0, <2>2, BackupAside
  <2>4. CASE Present(fs.backup[t])
             /\ Mutate(PutBackup(fs, t, Torn(fs.backup[t])))
    BY <1>0, <1>a, <1>b, <2>1, <2>2, <2>4, BackupAside, MutateDisk
  <2>. QED
    BY <1>4, <2>1, <2>3, <2>4, MutateDisk, LookDisk DEF DropBackup, RemoveAll
<1>5. CASE DropStaging
  <2>1. outcomes' = outcomes
    BY <1>5 DEF DropStaging, RecoveryFails, Return, call
  <2>2. t \in Tx
    BY <1>5, <1>a DEF DropStaging, PointKnows, RecoveryKnows
  <2>3. Sound(PutStaging(fs, t, NoTree))
    BY <1>0, <2>2, StagingAside
  <2>4. CASE Present(fs.staging[t])
             /\ Mutate(PutStaging(fs, t, Torn(fs.staging[t])))
    BY <1>0, <1>a, <1>b, <2>1, <2>2, <2>4, StagingAside, MutateDisk
  <2>. QED
    BY <1>5, <2>1, <2>3, <2>4, MutateDisk, LookDisk DEF DropStaging, RemoveAll
<1>6. CASE DropJournal
  <2>1. outcomes' = outcomes
    BY <1>6 DEF DropJournal, RecoveryFails, Return, call
  <2>2. Present(fs.output) \/ ~fs.journal.hadOld
    BY <1>6 DEF DropJournal, PointKnows, RecoveryKnows
  <2>3. Sound(PutJournal(fs, NoJournal, fs.tmp))
    BY <1>0, <2>2, JournalAside, DirectoryFields
  <2>. QED
    BY <1>6, <2>1, <2>3, MutateDisk, LookDisk DEF DropJournal
<1>7. CASE SyncRecovery
  <2>1. outcomes' = outcomes
    BY <1>7 DEF SyncRecovery, RecoveryFails, Return, call
  <2>. QED
    BY <1>0, <1>7, <2>1, SyncDisk, LookDisk DEF SyncRecovery
<1>8. CASE MakeStaging
  <2>1. outcomes' = outcomes
    BY <1>8 DEF MakeStaging, Return
  <2>2. \A x \in Tx : Sound(PutStaging(fs, x, Torn(New)))
    BY <1>0, NewFields, TornFields, StagingAside
  <2>. QED
    BY <1>8, <2>1, <2>2, MutateDisk, LookDisk DEF MakeStaging
<1>9. CASE StageFiles
  <2>1. Sound(PutStaging(fs, tx, New))
    BY <1>0, NewFields, StagingAside
  <2>. QED
    BY <1>9, <2>1, MutateDisk, LookDisk DEF StageFiles, call
<1>10. CASE Exchange
  <2>1. /\ fs.journal = NoJournal
        /\ fs.staging[tx] = New
        /\ Present(fs.output)
    BY <1>10 DEF Exchange, PointKnows, StagingKnows
  <2>. QED
    BY <1>0, <1>10, <2>1, ExchangeAside, NewFields, MutateDisk
    DEF Exchange, call, PointKnows, CallKnows
<1>11. CASE SyncExchange
  <2>1. outcomes' = outcomes
    BY <1>11 DEF SyncExchange, call
  <2>2. /\ Present(fs.staging[tx]) /\ Present(fs.output)
        /\ fs.staging[tx].whole /\ fs.staging[tx].plan \in outcomes
    BY <1>11, NewFields DEF SyncExchange, PointKnows, StagingKnows
  <2>3. Sound(Exchanged(fs, tx))
    BY <1>0, <2>2, ExchangeAside
  <2>4. \/ fs' = fs /\ disk' = {fs}
        \/ Look \/ Mutate(Exchanged(fs, tx))
        \/ fs' = Exchanged(fs, tx) /\ disk' = {fs'}
    BY <1>11 DEF SyncExchange
  <2>. QED
    BY <1>0, <2>1, <2>3, <2>4, MutateDisk, SyncDisk, LookDisk
<1>12. CASE BeginJournal
  BY <1>12, LookDisk DEF BeginJournal
<1>13. CASE WriteJournal
  <2>1. Sound(PutJournal(fs, fs.journal, TRUE))
    BY <1>0, TemporaryAside
  <2>. QED
    BY <1>13, <2>1, MutateDisk, LookDisk DEF WriteJournal, ReplaceFails, call
<1>14. CASE PublishJournal
  <2>1. outcomes' = outcomes
    BY <1>14 DEF PublishJournal, ReplaceFails, call
  <2>2. Sound(PutJournal(fs, [tx |-> tx, hadOld |-> hadOld, phase |-> phase],
                         FALSE))
    BY <1>0, <1>14, PublishAside DEF PublishJournal
  <2>. QED
    BY <1>14, <2>1, <2>2, MutateDisk, LookDisk DEF PublishJournal
<1>15. CASE MoveOld
  <2>1. outcomes' = outcomes
    BY <1>15 DEF MoveOld, Rename, ReplaceFails, call
  <2>2. Sound(MoveOldAway(fs, tx))
    BY <1>0, <1>15, MoveAside DEF MoveOld, Rename
  <2>. QED
    BY <1>15, <2>1, <2>2, MutateDisk, LookDisk DEF MoveOld, Rename
<1>16. CASE Install
  <2>1. outcomes' = outcomes /\ plan \in outcomes
    BY <1>16 DEF Install, Rename, ReplaceFails, call, PointKnows, CallKnows
  <2>2. fs.staging[tx] = New
    BY <1>16 DEF Install, Rename, PointKnows, PreparedKnows, MovedKnows
  <2>3. /\ Sound(PutOutput(fs, New))
        /\ PutOutput(fs, New).output = New
    BY <1>0, <2>1, NewFields, OutputAside
  <2>4. Sound(InstallNew(fs, tx))
    BY <1>0, <2>2, <2>3, StagingAside DEF InstallNew
  <2>. QED
    BY <1>16, <2>1, <2>4, MutateDisk, LookDisk DEF Install, Rename
<1>17. CASE SyncJournal
  BY <1>0, <1>17, SyncDisk, LookDisk DEF SyncJournal, ReplaceFails, call
<1>18. CASE SyncRename
  BY <1>0, <1>18, SyncDisk, LookDisk DEF SyncRename, ReplaceFails, call
<1>19. CASE ForgetOld
  <2>1. outcomes' = outcomes
    BY <1>19 DEF ForgetOld, call
  <2>2. Present(fs.output)
    BY <1>0, <1>19, NewFields
    DEF ForgetOld, PointKnows, InstalledKnows, DiskOK
  <2>3. Sound(PutBackup(fs, tx, NoTree))
    BY <1>0, <2>2, BackupAside
  <2>4. CASE Present(fs.backup[tx])
             /\ Mutate(PutBackup(fs, tx, Torn(fs.backup[tx])))
    BY <1>0, <1>a, <1>b, <2>1, <2>2, <2>4, BackupAside, MutateDisk
  <2>. QED
    BY <1>19, <2>1, <2>3, <2>4, MutateDisk, LookDisk DEF ForgetOld, RemoveAll
<1>20. CASE UnlinkJournal
  <2>1. outcomes' = outcomes
    BY <1>20 DEF UnlinkJournal, call
  <2>2. Present(fs.output)
    BY <1>0, <1>20, NewFields
    DEF UnlinkJournal, PointKnows, InstalledKnows, DiskOK
  <2>3. Sound(PutJournal(fs, NoJournal, fs.tmp))
    BY <1>0, <2>2, JournalAside, DirectoryFields
  <2>. QED
    BY <1>20, <2>1, <2>3, MutateDisk, SyncDisk, LookDisk DEF UnlinkJournal
<1>21. CASE Cleanup
  <2>1. Sound(PutStaging(fs, tx, NoTree))
        /\ PutStaging(fs, tx, NoTree).output = fs.output
    BY <1>0, StagingAside
  <2>2. CASE Present(fs.staging[tx])
             /\ Mutate(PutStaging(fs, tx, Torn(fs.staging[tx])))
             /\ UNCHANGED call
    BY <1>0, <1>a, <1>b, <2>2, StagingAside, MutateDisk DEF call
  <2>3. CASE Return(result) /\ (Mutate(PutStaging(fs, tx, NoTree)) \/ Look)
    <3>1. CASE result = "ok"
      <4>1. \A e \in disk : e.output = New
        BY <1>21, <3>1 DEF Cleanup, PointKnows, InstalledKnows
      <4>2. fs.output = New /\ outcomes' = {plan}
        BY <2>3, <3>1, <4>1 DEF Return, DiskOK
      <4>. QED
        BY <1>0, <2>1, <2>3, <4>1, <4>2, AcknowledgeDisk
    <3>2. CASE result # "ok"
      BY <2>1, <2>3, <3>2, MutateDisk, LookDisk DEF Return
    <3>. QED
      BY <3>1, <3>2
  <2>. QED
    BY <1>21, <2>2, <2>3 DEF Cleanup
<1>22. CASE Kill
  BY <1>22, LookDisk DEF Kill, call
<1>23. CASE PowerLoss
  <2>1. Sound(fs') /\ outcomes' = outcomes /\ disk' = {fs'}
    BY <1>23, DiskIsSound DEF PowerLoss, call
  <2>. QED
    BY <2>1, SyncDisk
<1>24. CASE UNCHANGED vars
  BY <1>24, LookDisk DEF vars, Look
<1>. QED
  BY <1>1, <1>2, <1>3, <1>4, <1>5, <1>6, <1>7, <1>8, <1>9, <1>10, <1>11,
     <1>12, <1>13, <1>14, <1>15, <1>16, <1>17, <1>18, <1>19, <1>20, <1>21,
     <1>22, <1>23, <1>24
  DEF Next, Recover, Replace

-----------------------------------------------------------------------------
(* What each point of a call knows.                                        *)

\* A failure of recovery, of the journalled replacement or of a call.
LEMMA FailurePoint ==
    ASSUME PointKnows, pc # "idle",
           \/ \E r \in {"error", "refused"} : RecoveryFails(r)
           \/ ReplaceFails
    PROVE  PointKnows'
BY QuietPoint DEF RecoveryFails, Return, ReplaceFails, Goto, call, PointKnows,
   CallKnows

\* Every step gives the next point of the call what it has to know.
LEMMA PointStep ==
    DiskOK /\ LocalsOK /\ PointKnows /\ [Next]_vars => PointKnows'
<1>. SUFFICES ASSUME DiskOK, LocalsOK, PointKnows, [Next]_vars
              PROVE  PointKnows'
  OBVIOUS
<1>. DEFINE t == fs.journal.tx
<1>0. Sound(fs) /\ fs \in Directories /\ tx \in Tx
  BY DiskIsSound DEF LocalsOK, Sound
<1>a. /\ fs.journal # NoJournal => fs.journal \in Journals /\ t \in Tx
      /\ \A x \in Tx : /\ fs.staging[x] \in Trees \cup {NoTree}
                       /\ fs.backup[x] \in Trees \cup {NoTree}
  BY <1>0, DirectoryFields, JournalFields
<1>b. \A tree : tree \in Trees \cup {NoTree} /\ Present(tree) =>
                  Torn(tree) \in Trees
  BY TornFields, TreeFields
<1>c. /\ pc # "idle" => plan \in outcomes
      /\ pc \notin {"idle", "cleanup"} => result # "ok"
  BY DEF PointKnows, CallKnows
<1>1. ASSUME NEW p \in Plans, Call(p) PROVE PointKnows'
  BY <1>1, QuietPoint DEF Call, Goto
<1>2. CASE RecoverJournal
  <2>. DEFINE d == PutJournal(fs, fs.journal, FALSE)
  <2>1. /\ d.output = fs.output /\ d.staging = fs.staging
        /\ d.backup = fs.backup /\ d.journal = fs.journal
    <3>1. fs.journal \in Journals \cup {NoJournal}
      BY <1>0, DirectoryFields
    <3>. QED
      BY <1>0, <3>1, PutJournalFields
  <2>2. CASE fs' = d /\ UNCHANGED <<result, call>> /\ Goto(RecoveredTo)
             /\ fs.journal = NoJournal
    BY <1>2, <1>c, <2>1, <2>2
    DEF PointKnows, RecoveryKnows, StagingKnows, PreparedKnows, MovedKnows,
        InstalledKnows, CallKnows, Persisting, RecoveredTo, Goto, call,
        RecoverJournal
  <2>3. CASE fs' = d /\ UNCHANGED <<result, call>> /\ Goto(Verdict(d))
             /\ fs.journal # NoJournal /\ Verdict(d) # "refuse"
    <3>1. fs.journal.phase = "old-moved" => fs.journal.hadOld
      BY <1>0, <2>3 DEF Sound
    <3>2. /\ Verdict(d) \in {"restore", "dropBackup", "dropStaging",
                             "dropJournal"}
          /\ Verdict(d) = "restore" =>
               /\ fs.journal.hadOld /\ fs.journal.phase # "new-installed"
               /\ ~Present(fs.output) /\ Present(fs.backup[t])
          /\ Verdict(d) = "dropBackup" => Present(fs.output)
          /\ Verdict(d) \in {"dropStaging", "dropJournal"} =>
               Present(fs.output) \/ ~fs.journal.hadOld
      BY <2>1, <2>3, <3>1 DEF Verdict, Discard
    <3>. QED
      BY <1>2, <1>c, <2>1, <2>3, <3>2
      DEF PointKnows, RecoveryKnows, StagingKnows, PreparedKnows, MovedKnows,
          InstalledKnows, CallKnows, Persisting, Goto, call, RecoverJournal
  <2>. QED
    BY <1>2, <2>1, <2>2, <2>3, FailurePoint DEF RecoverJournal, Mutate
<1>3. CASE RestoreOld
  <2>1. CASE Mutate(MoveOldBack(fs, t)) /\ Goto("syncRestored")
             /\ UNCHANGED <<result, call>>
    <3>1. /\ t \in Tx /\ fs.journal # NoJournal /\ fs.backup[t] \in Trees
      BY <1>3, <1>a, TreeFields DEF RestoreOld, PointKnows, RecoveryKnows
    <3>2. LET e == PutOutput(fs, fs.backup[t])
          IN  /\ e \in Directories /\ e.output = fs.backup[t]
              /\ e.journal = fs.journal
      BY <1>0, <3>1, PutOutputFields
    <3>3. fs'.output \in Trees /\ fs'.journal = fs.journal
      BY <2>1, <3>1, <3>2, PutBackupFields DEF Mutate, MoveOldBack
    <3>4. Present(fs'.output)
      BY <3>3, TreeFields
    <3>. QED
      BY <1>3, <1>c, <2>1, <3>1, <3>3, <3>4
      DEF PointKnows, RecoveryKnows, StagingKnows, PreparedKnows, MovedKnows,
        InstalledKnows, CallKnows, Persisting, Goto, call, RestoreOld
  <2>. QED
    BY <1>3, <2>1, FailurePoint DEF RestoreOld
<1>4. CASE DropBackup
  <2>1. ASSUME NEW tree \in Trees \cup {NoTree},
               fs' = PutBackup(fs, t, tree),
               pc' \in {"syncBackup", "dropBackup"}, UNCHANGED <<result, call>>
        PROVE  PointKnows'
    <3>1. fs.journal # NoJournal /\ Present(fs.output) /\ t \in Tx
      BY <1>4, <1>a DEF DropBackup, PointKnows, RecoveryKnows
    <3>2. fs'.output = fs.output /\ fs'.journal = fs.journal
      BY <1>0, <2>1, <3>1, PutBackupFields
    <3>. QED
      BY <1>4, <1>c, <2>1, <3>1, <3>2
      DEF PointKnows, RecoveryKnows, StagingKnows, PreparedKnows, MovedKnows,
        InstalledKnows, CallKnows, Persisting, Goto, call, DropBackup
  <2>2. t \in Tx
    BY <1>4, <1>a DEF DropBackup, PointKnows, RecoveryKnows
  <2>3. Present(fs.backup[t]) => Torn(fs.backup[t]) \in Trees
    BY <1>a, <1>b, <2>2
  <2>. QED
    BY <1>4, <2>1, <2>3, FailurePoint DEF DropBackup, RemoveAll, Mutate, Goto
<1>5. CASE DropStaging
  <2>1. ASSUME NEW tree \in Trees \cup {NoTree},
               fs' = PutStaging(fs, t, tree),
               pc' \in {"syncStaging", "dropStaging"},
               UNCHANGED <<result, call>>
        PROVE  PointKnows'
    <3>1. /\ fs.journal # NoJournal /\ t \in Tx
          /\ Present(fs.output) \/ ~fs.journal.hadOld
      BY <1>5, <1>a DEF DropStaging, PointKnows, RecoveryKnows
    <3>2. fs'.output = fs.output /\ fs'.journal = fs.journal
      BY <1>0, <2>1, <3>1, PutStagingFields
    <3>. QED
      BY <1>5, <1>c, <2>1, <3>1, <3>2
      DEF PointKnows, RecoveryKnows, StagingKnows, PreparedKnows, MovedKnows,
        InstalledKnows, CallKnows, Persisting, Goto, call, DropStaging
  <2>2. t \in Tx
    BY <1>5, <1>a DEF DropStaging, PointKnows, RecoveryKnows
  <2>3. Present(fs.staging[t]) => Torn(fs.staging[t]) \in Trees
    BY <1>a, <1>b, <2>2
  <2>. QED
    BY <1>5, <2>1, <2>3, FailurePoint DEF DropStaging, RemoveAll, Mutate, Goto
<1>6. CASE DropJournal
  <2>1. CASE Goto("syncUnlinked") /\ UNCHANGED <<result, call>>
             /\ fs' = PutJournal(fs, NoJournal, fs.tmp)
    <3>1. fs'.journal = NoJournal
      BY <1>0, <2>1, DirectoryFields, PutJournalFields
    <3>. QED
    BY <3>1, <1>6, <1>c, <2>1 DEF PointKnows, RecoveryKnows, StagingKnows,
       PreparedKnows, MovedKnows,
        InstalledKnows, CallKnows, Persisting, Goto, call, DropJournal
  <2>. QED
    BY <1>6, <2>1, FailurePoint DEF DropJournal, Mutate
<1>7. CASE SyncRecovery
  <2>1. CASE pc = "syncUnlinked" /\ fs' = fs /\ UNCHANGED <<result, call>>
             /\ Goto(RecoveredTo)
    <3>1. pc' = IF result = "none" THEN "make" ELSE "cleanup"
      BY <2>1 DEF Goto, RecoveredTo
    <3>. QED
      BY <1>c, <2>1, <3>1
      DEF PointKnows, RecoveryKnows, StagingKnows, PreparedKnows, MovedKnows,
          InstalledKnows, CallKnows, Persisting, call
  <2>2. CASE pc # "syncUnlinked" /\ fs' = fs /\ UNCHANGED <<result, call>>
             /\ pc' \in {"dropStaging", "dropJournal"}
    BY <1>7, <1>c, <2>2 DEF PointKnows, RecoveryKnows, StagingKnows,
       PreparedKnows, MovedKnows,
        InstalledKnows, CallKnows, Persisting, Goto, call, SyncRecovery
  <2>3. CASE Look /\ Fault /\ RecoveryFails("error")
    BY <1>7, <2>3, FailurePoint DEF SyncRecovery
  <2>4. CASE disk' = {fs} /\ UNCHANGED <<fs, result, call>> /\ NoFault
             /\ Goto(CASE pc = "syncUnlinked" -> RecoveredTo
                       [] pc = "syncStaging" -> "dropJournal"
                       [] OTHER -> Discard(fs))
    <3>1. CASE pc = "syncUnlinked"
      BY <2>1, <2>4, <3>1 DEF Goto
    <3>2. CASE pc # "syncUnlinked"
      <4>1. Discard(fs) \in {"dropStaging", "dropJournal"}
        BY DEF Discard
      <4>. QED
        BY <2>2, <2>4, <3>2, <4>1 DEF Goto
    <3>. QED
      BY <3>1, <3>2
  <2>. QED
    BY <1>7, <2>3, <2>4 DEF SyncRecovery
<1>8. CASE MakeStaging
  <2>1. ASSUME NEW x \in Tx, tx' = x, plan' = plan, outcomes' = outcomes,
               result' = result, Goto("fill"),
               fs' = PutStaging(fs, x, Torn(New))
        PROVE  PointKnows'
    <3>1. fs'.journal = fs.journal
      BY <1>0, <2>1, NewFields, TornFields, PutStagingFields
    <3>. QED
      BY <1>8, <1>c, <2>1, <3>1 DEF PointKnows, RecoveryKnows, StagingKnows,
         PreparedKnows, MovedKnows,
        InstalledKnows, CallKnows, Persisting, Goto, call, MakeStaging
  <2>. QED
    BY <1>8, <2>1, QuietPoint DEF MakeStaging, Mutate, Return, Goto
<1>9. CASE StageFiles
  <2>1. CASE fs' = PutStaging(fs, tx, New) /\ Goto("decide")
             /\ UNCHANGED <<result, call>>
    <3>1. fs'.journal = fs.journal /\ fs'.staging[tx] = New
      BY <1>0, <2>1, NewFields, PutStagingFields
    <3>2. New' = New
      BY <2>1 DEF New, call
    <3>. QED
      BY <1>9, <1>c, <2>1, <3>1, <3>2 DEF PointKnows, RecoveryKnows,
         StagingKnows, PreparedKnows, MovedKnows,
        InstalledKnows, CallKnows, Persisting, Goto, call, StageFiles
  <2>. QED
    BY <1>9, <1>c, <2>1, QuietPoint DEF StageFiles, Mutate, Goto, call
<1>10. CASE Exchange
  <2>1. /\ fs.journal = NoJournal /\ fs.staging[tx] = New
        /\ Present(fs.output) /\ fs.output \in Trees \cup {NoTree}
    BY <1>0, <1>10, DirectoryFields DEF Exchange, PointKnows, StagingKnows
  <2>2. LET e == PutOutput(fs, New)
        IN  /\ e \in Directories /\ e.output = New /\ e.journal = NoJournal
    BY <1>0, <2>1, NewFields, PutOutputFields
  <2>3. /\ fs'.output = New /\ fs'.journal = NoJournal
        /\ fs'.staging[tx] = fs.output
    BY <1>0, <1>10, <2>1, <2>2, PutStagingFields DEF Exchange, Exchanged, Mutate
  <2>4. fs.output.whole /\ fs.output.plan \in outcomes
    BY <1>0, <2>1 DEF Sound, Settled
  <2>5. New' = New
    BY <1>10 DEF Exchange, New, call
  <2>. QED
    BY <1>10, <1>c, <2>1, <2>3, <2>4, <2>5 DEF PointKnows, RecoveryKnows,
       StagingKnows, PreparedKnows, MovedKnows,
        InstalledKnows, CallKnows, Persisting, Goto, call, Exchange
<1>d. UNCHANGED call => New' = New
  BY DEF call, New
<1>11. CASE SyncExchange
  <2>1. CASE disk' = {fs} /\ fs' = fs /\ result' = "ok"
    BY <1>11, <1>c, <1>d, <2>1 DEF PointKnows, RecoveryKnows, StagingKnows,
       PreparedKnows, MovedKnows,
        InstalledKnows, CallKnows, Persisting, Goto, call, SyncExchange
  <2>2. CASE result' = "error"
    BY <1>11, <1>c, <2>2, QuietPoint DEF SyncExchange, Goto, call
  <2>. QED
    BY <1>11, <2>1, <2>2 DEF SyncExchange
<1>12. CASE BeginJournal
  <2>1. CASE /\ hadOld' = Present(fs.output)
             /\ phase' = "prepared" /\ Goto("writeTmp") /\ result' = result
    <3>1. /\ fs.journal = NoJournal /\ fs.staging[tx] = New
          /\ hadOld' <=> Present(fs.output)
      BY <1>12, <2>1 DEF BeginJournal, PointKnows, StagingKnows
    <3>2. New' = New /\ fs' = fs /\ tx' = tx /\ plan' = plan
          /\ outcomes' = outcomes
      BY <1>12 DEF BeginJournal, New, Look
    <3>. QED
      BY <1>12, <1>c, <2>1, <3>1, <3>2 DEF PointKnows, RecoveryKnows,
         StagingKnows, PreparedKnows, MovedKnows,
        InstalledKnows, CallKnows, Persisting, Goto, call, BeginJournal
  <2>2. CASE Goto("cleanup") /\ result' = "error"
    BY <1>12, <1>c, <2>2, QuietPoint DEF BeginJournal, Goto
  <2>. QED
    BY <1>12, <2>1, <2>2 DEF BeginJournal
<1>13. CASE WriteJournal
  <2>1. CASE fs' = PutJournal(fs, fs.journal, TRUE) /\ Goto("publish")
             /\ UNCHANGED <<call, result>>
    <3>1. fs.journal \in Journals \cup {NoJournal}
      BY <1>0, DirectoryFields
    <3>2. /\ fs'.output = fs.output /\ fs'.journal = fs.journal
          /\ fs'.staging = fs.staging
      BY <1>0, <2>1, <3>1, PutJournalFields
    <3>. QED
      BY <1>13, <1>c, <1>d, <2>1, <3>2 DEF PointKnows, RecoveryKnows,
         StagingKnows, PreparedKnows, MovedKnows,
        InstalledKnows, CallKnows, Persisting, Goto, call, WriteJournal
  <2>. QED
    BY <1>13, <2>1, FailurePoint DEF WriteJournal, Mutate
<1>14. CASE PublishJournal
  <2>. DEFINE j == [tx |-> tx, hadOld |-> hadOld, phase |-> phase]
  <2>1. CASE fs' = PutJournal(fs, j, FALSE) /\ Goto("syncJournal")
             /\ UNCHANGED <<call, result>>
    <3>1. /\ j \in Journals /\ j # NoJournal
          /\ j.tx = tx /\ j.phase = phase /\ (j.hadOld <=> hadOld)
      BY JournalAssumption DEF LocalsOK, Journals
    <3>. HIDE DEF j
    <3>2. /\ fs'.output = fs.output /\ fs'.journal = j
          /\ fs'.staging = fs.staging
      <4>1. j \in Journals \cup {NoJournal} /\ FALSE \in BOOLEAN
        BY <3>1
      <4>2. /\ PutJournal(fs, j, FALSE).output = fs.output
            /\ PutJournal(fs, j, FALSE).journal = j
            /\ PutJournal(fs, j, FALSE).staging = fs.staging
        BY <1>0, <4>1, PutJournalFields
      <4>. QED
        BY <2>1, <4>2
    <3>. QED
      BY <1>14, <1>c, <1>d, <2>1, <3>1, <3>2 DEF PointKnows, RecoveryKnows,
         StagingKnows, PreparedKnows, MovedKnows,
        InstalledKnows, CallKnows, Persisting, Goto, call, PublishJournal
  <2>. QED
    BY <1>14, <2>1, FailurePoint DEF PublishJournal, Mutate
<1>15. CASE MoveOld
  <2>1. CASE fs' = MoveOldAway(fs, tx) /\ Goto("syncMoved")
             /\ UNCHANGED <<call, result>>
    <3>1. /\ ~Present(fs'.output) /\ fs'.journal = fs.journal
          /\ fs'.staging = fs.staging
      BY <1>0, <1>15, <2>1, MoveAside DEF MoveOld, Rename
    <3>. QED
      BY <1>15, <1>c, <1>d, <2>1, <3>1 DEF PointKnows, RecoveryKnows,
         StagingKnows, PreparedKnows, MovedKnows,
        InstalledKnows, CallKnows, Persisting, Goto, call, MoveOld, Rename
  <2>. QED
    BY <1>15, <2>1, FailurePoint DEF MoveOld, Rename, Mutate
<1>16. CASE Install
  <2>1. CASE fs' = InstallNew(fs, tx) /\ Goto("syncInstalled")
             /\ UNCHANGED <<call, result>>
    <3>1. fs.staging[tx] = New
      BY <1>16 DEF Install, Rename, PointKnows, PreparedKnows, MovedKnows
    <3>2. LET e == PutOutput(fs, New) IN e \in Directories /\ e.output = New
      BY <1>0, NewFields, PutOutputFields
    <3>3. fs'.output = New
      BY <1>0, <2>1, <3>1, <3>2, PutStagingFields DEF InstallNew
    <3>. QED
      BY <1>16, <1>c, <1>d, <2>1, <3>3 DEF PointKnows, RecoveryKnows,
         StagingKnows, PreparedKnows, MovedKnows,
        InstalledKnows, CallKnows, Persisting, Goto, call, Install, Rename
  <2>. QED
    BY <1>16, <2>1, FailurePoint DEF Install, Rename, Mutate
<1>17. CASE SyncJournal
  <2>1. CASE disk' = {fs} /\ fs' = fs /\ UNCHANGED <<call, result>>
             /\ pc' = AfterPersist
    <3>1. CASE phase = "prepared"
      BY <1>17, <1>c, <1>d, <2>1, <3>1 DEF PointKnows, RecoveryKnows,
         StagingKnows, PreparedKnows, MovedKnows,
        InstalledKnows, CallKnows, Persisting, Goto, call, SyncJournal,
        AfterPersist
    <3>2. CASE phase = "old-moved"
      BY <1>17, <1>c, <1>d, <2>1, <3>2 DEF PointKnows, RecoveryKnows,
         StagingKnows, PreparedKnows, MovedKnows,
        InstalledKnows, CallKnows, Persisting, Goto, call, SyncJournal,
        AfterPersist
    <3>3. CASE phase = "new-installed"
      BY <1>17, <1>c, <1>d, <2>1, <3>3 DEF PointKnows, RecoveryKnows,
         StagingKnows, PreparedKnows, MovedKnows,
        InstalledKnows, CallKnows, Persisting, Goto, call, SyncJournal,
        AfterPersist
    <3>. QED
      BY <3>1, <3>2, <3>3 DEF LocalsOK, Phases
  <2>. QED
    BY <1>17, <2>1, FailurePoint DEF SyncJournal, Goto
<1>18. CASE SyncRename
  <2>1. CASE pc = "syncMoved" /\ phase' = "old-moved" /\ Goto("writeTmp")
             /\ UNCHANGED <<fs, plan, tx, hadOld, used, outcomes, result>>
    BY <1>18, <1>c, <2>1 DEF PointKnows, RecoveryKnows, StagingKnows,
       PreparedKnows, MovedKnows,
        InstalledKnows, CallKnows, Persisting, Goto, call, SyncRename, New
  <2>2. CASE pc = "syncInstalled" /\ phase' = "new-installed"
             /\ Goto("writeTmp")
             /\ UNCHANGED <<fs, plan, tx, hadOld, used, outcomes, result>>
    BY <1>18, <1>c, <2>2 DEF PointKnows, RecoveryKnows, StagingKnows,
       PreparedKnows, MovedKnows,
        InstalledKnows, CallKnows, Persisting, Goto, call, SyncRename, New
  <2>. QED
    BY <1>18, <2>1, <2>2, FailurePoint DEF SyncRename
<1>19. CASE ForgetOld
  <2>1. ASSUME NEW tree \in Trees \cup {NoTree},
               Mutate(PutBackup(fs, tx, tree)), pc' \in {"unlink", "forget"}
        PROVE  PointKnows'
    <3>1. PutBackup(fs, tx, tree).output = fs.output
      BY <1>0, PutBackupFields
    <3>. QED
      BY <1>19, <1>c, <1>d, <2>1, <3>1
      DEF PointKnows, RecoveryKnows, StagingKnows, PreparedKnows, MovedKnows,
        InstalledKnows, CallKnows, Persisting, Goto, call, ForgetOld, Mutate,
        RemoveAll, DiskOK
  <2>2. CASE Look /\ Goto("unlink") /\ result' = result
    BY <1>19, <1>c, <1>d, <2>2 DEF PointKnows, RecoveryKnows, StagingKnows,
       PreparedKnows, MovedKnows,
        InstalledKnows, CallKnows, Persisting, Goto, call, ForgetOld, Look
  <2>3. Present(fs.backup[tx]) => Torn(fs.backup[tx]) \in Trees
    BY <1>0, <1>a, <1>b
  <2>. QED
    BY <1>19, <2>1, <2>2, <2>3 DEF ForgetOld, RemoveAll, Goto
<1>20. CASE UnlinkJournal
  <2>1. PutJournal(fs, NoJournal, fs.tmp).output = fs.output
    <3>1. fs.tmp \in BOOLEAN /\ NoJournal \in Journals \cup {NoJournal}
      BY <1>0, DirectoryFields
    <3>. QED
      BY <1>0, <3>1, PutJournalFields
  <2>2. \A d \in disk' : d.output = New
    BY <1>20, <2>1
    DEF UnlinkJournal, PointKnows, InstalledKnows, Mutate, Look, DiskOK
  <2>. QED
    BY <1>20, <1>c, <1>d, <2>2 DEF PointKnows, RecoveryKnows, StagingKnows,
       PreparedKnows, MovedKnows,
        InstalledKnows, CallKnows, Persisting, Goto, call, UnlinkJournal
<1>21. CASE Cleanup
  <2>1. CASE pc' = "idle"
    BY <2>1, QuietPoint
  <2>2. CASE Present(fs.staging[tx])
             /\ Mutate(PutStaging(fs, tx, Torn(fs.staging[tx])))
             /\ UNCHANGED <<pc, result, call>>
    <3>1. PutStaging(fs, tx, Torn(fs.staging[tx])).output = fs.output
      BY <1>0, <1>a, <1>b, <2>2, PutStagingFields
    <3>. QED
      BY <1>21, <1>c, <1>d, <2>2, <3>1 DEF PointKnows, RecoveryKnows,
         StagingKnows, PreparedKnows, MovedKnows,
        InstalledKnows, CallKnows, Persisting, Goto, call, Cleanup, Mutate,
        DiskOK
  <2>. QED
    BY <1>21, <2>1, <2>2 DEF Cleanup, Return, Goto
<1>22. CASE Kill
  BY <1>22, QuietPoint DEF Kill, Goto
<1>23. CASE PowerLoss
  BY <1>23, QuietPoint DEF PowerLoss, Goto
<1>24. CASE UNCHANGED vars
  BY <1>24, <1>d
  DEF PointKnows, RecoveryKnows, StagingKnows, PreparedKnows, MovedKnows,
        InstalledKnows, CallKnows, Persisting, Goto, call, vars
<1>. QED
  BY <1>1, <1>2, <1>3, <1>4, <1>5, <1>6, <1>7, <1>8, <1>9, <1>10, <1>11,
     <1>12, <1>13, <1>14, <1>15, <1>16, <1>17, <1>18, <1>19, <1>20, <1>21,
     <1>22, <1>23, <1>24
  DEF Next, Recover, Replace

-----------------------------------------------------------------------------
(* The theorems.                                                           *)

LEMMA InitIInv == Init => IInv
<1>. SUFFICES ASSUME Init
              PROVE  IInv
  OBVIOUS
<1>1. /\ fs \in Directories /\ fs.output.whole /\ fs.journal = NoJournal
      /\ disk = {fs} /\ outcomes = {fs.output.plan}
      /\ fs.output \in Trees \cup {NoTree}
  BY DirectoryFields, TreeFields DEF Init, Trees
<1>2. Settled(fs) = fs.output
  BY <1>1 DEF Settled
<1>3. DiskOK
  BY <1>1, <1>2 DEF DiskOK, OnlyWholeOutcomes, JournalsAreSane
<1>4. LocalsOK
  <2>1. fs.output.plan \in Plans \cup {NoPlan}
    BY <1>1, TreeFields
  <2>. QED
    BY <1>1, <2>1 DEF Init, LocalsOK, Labels, Phases
<1>5. CountersOK
  BY BoundAssumption DEF Init, CountersOK
<1>6. PointKnows
  BY DEF Init, PointKnows, RecoveryKnows, StagingKnows, PreparedKnows,
         MovedKnows, InstalledKnows, CallKnows, Persisting
<1>. QED
  BY <1>3, <1>4, <1>5, <1>6, IInvParts

\* IInv is inductive: each step leaves the next point of the call knowing
\* what it needs of the directory, and every directory on disk sound.
THEOREM Inductive == Spec => []IInv
<1>1. IInv /\ [Next]_vars => IInv'
  <2>. SUFFICES ASSUME IInv, [Next]_vars
                PROVE  IInv'
    OBVIOUS
  <2>1. DiskOK /\ LocalsOK /\ CountersOK /\ PointKnows
    BY IInvParts
  <2>2. DiskOK'
    BY <2>1, DiskStep
  <2>3. LocalsOK' /\ CountersOK'
    BY <2>1, LocalsStep
  <2>4. PointKnows'
    BY <2>1, PointStep
  <2>. QED
    BY <2>2, <2>3, <2>4 DEF IInv, DiskOK, TypeOK
<1>. QED
  BY <1>1, InitIInv, PTL DEF Spec

\* Type correctness of ReplaceOutput and recoverJournal.
THEOREM TypeCorrect == Spec => []TypeOK
<1>1. IInv => TypeOK
  BY DEF IInv
<1>. QED
  BY <1>1, Inductive, PTL

\* Whatever fails and whenever the process or the power does: the output root
\* holds no partial tree, the last complete output is there or is restored,
\* and an acknowledged replacement stays.
THEOREM OutputSafe == Spec => []OnlyWholeOutcomes
<1>1. IInv => OnlyWholeOutcomes
  BY DEF IInv
<1>. QED
  BY <1>1, Inductive, PTL

\* A step that is neither a call nor an acknowledgement keeps the outcomes.
LEMMA OutcomesStep ==
    ASSUME LocalsOK, Next
    PROVE  \/ \E p \in Plans : Call(p)
           \/ pc = "cleanup" /\ result = "ok" /\ Return("ok")
           \/ /\ outcomes' = outcomes
              /\ pc' = "idle" \/ (pc # "idle" /\ plan' = plan)
<1>. USE DEF call, Goto, Return, RecoveryFails, ReplaceFails, Rename
<1>1. CASE \E p \in Plans : Call(p)
  BY <1>1
<1>2. CASE RecoverJournal
  BY <1>2 DEF RecoverJournal
<1>3. CASE RestoreOld \/ DropBackup \/ DropStaging \/ DropJournal
           \/ SyncRecovery
  BY <1>3 DEF RestoreOld, DropBackup, DropStaging, DropJournal, SyncRecovery
<1>4. CASE MakeStaging \/ StageFiles \/ Exchange \/ SyncExchange
  BY <1>4 DEF MakeStaging, StageFiles, Exchange, SyncExchange
<1>5. CASE BeginJournal \/ WriteJournal \/ PublishJournal \/ SyncJournal
  BY <1>5 DEF BeginJournal, WriteJournal, PublishJournal, SyncJournal
<1>6. CASE MoveOld \/ SyncRename \/ Install \/ ForgetOld \/ UnlinkJournal
  BY <1>6 DEF MoveOld, SyncRename, Install, ForgetOld, UnlinkJournal
<1>7. CASE Cleanup
  BY <1>7 DEF Cleanup
<1>8. CASE Kill \/ PowerLoss
  BY <1>8 DEF Kill, PowerLoss
<1>. QED
  BY <1>1, <1>2, <1>3, <1>4, <1>5, <1>6, <1>7, <1>8
  DEF Next, Recover, Replace

\* ReplaceOutput, with its journal, its failures and its crashes, implements an
\* atomic and durable replacement: every step switches between whole outcomes,
\* begins or acknowledges a call, or is not seen.
THEOREM Refinement == Spec => ReplacementIsAtomic
<1>. DEFINE request == IF pc = "idle" THEN NoPlan ELSE plan
            current == Settled(fs).plan
<1>1. Init => Replacement!Init
  <2>. SUFFICES ASSUME Init
                PROVE  Replacement!Init
    OBVIOUS
  <2>1. fs \in Directories /\ fs.journal = NoJournal /\ outcomes = {fs.output.plan}
        /\ pc = "idle"
    BY DEF Init
  <2>2. Settled(fs) = fs.output /\ fs.output.plan \in Plans \cup {NoPlan}
    BY <2>1, DirectoryFields, TreeFields DEF Settled
  <2>. QED
    BY <2>1, <2>2 DEF Replacement!Init
<1>2. IInv /\ IInv' /\ [Next]_vars => [Replacement!Next]_Replacement!vars
  <2>. SUFFICES ASSUME IInv, IInv', [Next]_vars
                PROVE  [Replacement!Next]_Replacement!vars
    OBVIOUS
  <2>0. LocalsOK /\ DiskOK /\ PointKnows /\ current' \in outcomes'
    BY IInvParts DEF IInv, TypeOK, OnlyWholeOutcomes
  <2>1. CASE UNCHANGED vars
    BY <2>1 DEF vars, Replacement!vars
  <2>2. ASSUME NEW p \in Plans, Call(p)
        PROVE  Replacement!Next
    <3>1. Replacement!Begin(p)
      BY <2>2 DEF Call, Look, Goto, Replacement!Begin
    <3>. QED
      BY <3>1 DEF Replacement!Next
  <2>3. CASE pc = "cleanup" /\ result = "ok" /\ Return("ok")
    <3>1. fs.output = New
      BY <2>0, <2>3 DEF PointKnows, InstalledKnows, DiskOK
    <3>2. Settled(fs) = New /\ New.plan = plan
      BY <2>0, <3>1, NewFields DEF Settled
    <3>3. plan # NoPlan
      BY <2>0, PlanAssumption DEF LocalsOK
    <3>4. Replacement!Acknowledge
      BY <2>0, <2>3, <3>2, <3>3 DEF Return, Goto, Replacement!Acknowledge
    <3>. QED
      BY <3>4 DEF Replacement!Next
  <2>4. CASE outcomes' = outcomes
             /\ (pc' = "idle" \/ (pc # "idle" /\ plan' = plan))
    <3>1. Replacement!Switch
      BY <2>0, <2>4 DEF Replacement!Switch
    <3>. QED
      BY <3>1 DEF Replacement!Next
  <2>. QED
    BY <2>0, <2>1, <2>2, <2>3, <2>4, OutcomesStep
<1>. QED
  BY <1>1, <1>2, Inductive, PTL DEF Spec, ReplacementIsAtomic, Replacement!Spec

-----------------------------------------------------------------------------
(* Backups and refusals, as long as no file operation fails.  What each    *)
(* point of a call knows of the backups and of the phase of the journal    *)
(* strengthens the two properties to an inductive invariant.               *)

NoBackup(d) == \A t \in Tx : ~Present(d.backup[t])

\* Whatever backup there is, the journal names it.
Named(d) ==
    \A t \in Tx : Present(d.backup[t]) => d.journal # NoJournal /\ d.journal.tx = t

\* recoverJournal does not refuse the directory.
Accepts(d) == d.journal = NoJournal \/ Verdict(d) # "refuse"

DiskTidy ==
    /\ \A d \in disk : Named(d)
    /\ crashes = 0 => \A d \in disk : Accepts(d)

Discarding == {"syncRestored", "syncBackup", "dropStaging", "syncStaging", "dropJournal"}
Preparing == Persisting("prepared") \/ pc = "moveOld" \/ (pc = "install" /\ ~hadOld)
Moved == pc = "syncMoved" \/ Persisting("old-moved") \/ (pc = "install" /\ hadOld)
Installed == pc \in {"syncInstalled", "forget", "unlink"} \/ Persisting("new-installed")

\* The old tree is a backup exactly while the new one is not known to stay.
BackupsKnown ==
    /\ pc \in Discarding \cup {"unlink"} \/ Preparing \/ (Installed /\ ~hadOld) =>
         NoBackup(fs)
    /\ Moved => Present(fs.backup[tx])
    /\ Installed => fs.journal # NoJournal /\ fs.journal.tx = tx

\* The journal has the phase that the next operation relies on.
PhasesKnown ==
    /\ pc = "syncJournal" => fs.journal.phase = phase
    /\ pc = "install" /\ hadOld => fs.journal.phase = "old-moved"
    /\ pc = "forget" => fs.journal.phase = "new-installed"

\* A call that was not interrupted leaves no journal; one interruption leaves
\* a journal that recovery accepts.
VerdictsKnown ==
    /\ pc \notin {"idle", "cleanup"} => result = "none"
    /\ crashes = 0 =>
         /\ pc \notin Discarding \cup {"restore", "dropBackup"}
         /\ pc \in {"idle", "recover"} => fs.journal = NoJournal
    /\ crashes <= 1 =>
         /\ RecoveryNeverRefuses
         /\ pc \in {"idle", "recover"} => Accepts(fs)
         /\ pc = "cleanup" => fs.journal = NoJournal

Tidy == faults = 0 => DiskTidy /\ BackupsKnown /\ PhasesKnown /\ VerdictsKnown

LEMMA PutBackupOthers ==
    ASSUME NEW d \in Directories, NEW t \in Tx, NEW tree \in Trees \cup {NoTree}
    PROVE  \A s \in Tx \ {t} : PutBackup(d, t, tree).backup[s] = d.backup[s]
BY DEF Directories, PutBackup

\* Nothing that recoverJournal looks at, but the temporary file, differs.
LEMMA SameVerdict ==
    ASSUME NEW d, NEW e, e.output = d.output, e.staging = d.staging,
           e.backup = d.backup, e.journal = d.journal
    PROVE  /\ Named(d) => Named(e)
           /\ NoBackup(d) => NoBackup(e)
           /\ Verdict(e) = Verdict(d)
           /\ Accepts(d) => Accepts(e)
<1>1. Verdict(e) = Verdict(d)
  BY DEF Verdict, Discard
<1>. QED
  BY <1>1 DEF Named, NoBackup, Accepts

\* Recovery discards what a transaction left only if it left no backup.
LEMMA DiscardVerdict ==
    ASSUME NEW d \in Directories, d.journal # NoJournal
    PROVE  /\ Verdict(d) \in {"restore", "refuse", "dropBackup", "dropStaging", "dropJournal"}
           /\ Verdict(d) \in {"dropStaging", "dropJournal"} =>
                ~Present(d.backup[d.journal.tx])
<1>1. d.journal.phase \in Phases
  BY DirectoryFields, JournalFields
<1>2. CASE d.journal.phase = "prepared"
  BY <1>2 DEF Verdict, Discard
<1>3. CASE d.journal.phase = "old-moved"
  BY <1>3 DEF Verdict, Discard
<1>4. CASE d.journal.phase = "new-installed"
  BY <1>4 DEF Verdict, Discard
<1>. QED
  BY <1>1, <1>2, <1>3, <1>4 DEF Phases

\* The directories that a call leaves behind at its renames, and that recovery
\* accepts: each phase of the journal with the trees that belong to it.
LEMMA AcceptedDirectories ==
    ASSUME NEW d \in Directories, d.journal # NoJournal
    PROVE  /\ /\ d.journal.phase = "prepared"
              /\ ~Present(d.backup[d.journal.tx])
              /\ d.journal.hadOld <=> Present(d.output)
              /\ Present(d.staging[d.journal.tx]) \/ ~d.journal.hadOld
              => Accepts(d)
           /\ /\ d.journal.phase = "prepared"
              /\ ~Present(d.backup[d.journal.tx])
              /\ ~d.journal.hadOld
              /\ ~Present(d.staging[d.journal.tx])
              => Accepts(d)
           /\ /\ d.journal.phase = "prepared"
              /\ d.journal.hadOld
              /\ ~Present(d.output)
              /\ Present(d.backup[d.journal.tx])
              => Accepts(d)
           /\ /\ d.journal.phase = "old-moved"
              /\ Present(d.backup[d.journal.tx])
              /\ Present(d.output) => ~Present(d.staging[d.journal.tx])
              => Accepts(d)
           /\ d.journal.phase = "new-installed" /\ Present(d.output) => Accepts(d)
<1>1. d.journal.hadOld \in BOOLEAN
  BY DirectoryFields, JournalFields
<1>2. \A tree : Present(tree) \in BOOLEAN
  BY DEF Present
<1>3. ASSUME d.journal.phase = "prepared", d.journal.hadOld, ~Present(d.output),
             Present(d.backup[d.journal.tx])
      PROVE  Accepts(d)
  BY <1>3 DEF Accepts, Verdict
<1>4. ASSUME d.journal.phase = "prepared", d.journal.hadOld => Present(d.output),
             ~Present(d.backup[d.journal.tx]),
             ~Present(d.output) \/ (d.journal.hadOld <=> Present(d.staging[d.journal.tx]))
      PROVE  Accepts(d)
  BY <1>1, <1>2, <1>4 DEF Accepts, Verdict, Discard
<1>5. ASSUME d.journal.phase = "old-moved", Present(d.backup[d.journal.tx]),
             Present(d.output) => ~Present(d.staging[d.journal.tx])
      PROVE  Accepts(d)
  BY <1>5 DEF Accepts, Verdict, Discard
<1>6. ASSUME d.journal.phase = "new-installed", Present(d.output)
      PROVE  Accepts(d)
  BY <1>6 DEF Accepts, Verdict, Discard
<1>. QED
  BY <1>3, <1>4, <1>5, <1>6

\* The disk after a step that leaves the directory d.
LEMMA DiskStaysTidy ==
    ASSUME DiskTidy, NEW d, disk' \subseteq disk \cup {d}, Named(d),
           crashes = 0 => Accepts(d), crashes' = crashes
    PROVE  DiskTidy'
BY DEF DiskTidy, Named, Accepts, Verdict, Discard

LEMMA DiskKnowsFs ==
    DiskOK /\ DiskTidy => Named(fs) /\ (crashes = 0 => Accepts(fs))
BY DEF DiskOK, DiskTidy

\* A step other than a kill or a power loss, of which the last fact is all
\* that remains to be shown.
LEMMA TidyDisk ==
    ASSUME DiskOK, DiskTidy, NoFault, Mutate(fs') \/ disk' = {fs'} \/ Look,
           Named(fs'), crashes = 0 => Accepts(fs')
    PROVE  DiskTidy'
<1>1. disk' \subseteq disk \cup {fs'} /\ crashes' = crashes
  BY DEF Mutate, Look, NoFault
<1>. QED
  BY <1>1, DiskStaysTidy

\* The same, when at most staging trees, the output root or the temporary
\* change and the journal is that of no transaction, or of one without backup.
LEMMA TidyAside ==
    ASSUME DiskOK, DiskTidy, NoFault, Mutate(fs') \/ disk' = {fs'} \/ Look,
           fs'.backup = fs.backup, fs'.journal = fs.journal,
           fs.journal = NoJournal \/ crashes # 0
    PROVE  DiskTidy' /\ (NoBackup(fs) => NoBackup(fs'))
<1>1. Named(fs') /\ (crashes = 0 => Accepts(fs'))
  BY DiskKnowsFs DEF Named, Accepts
<1>2. NoBackup(fs) => NoBackup(fs')
  BY DEF NoBackup
<1>. QED
  BY <1>1, <1>2, TidyDisk

\* Recovery, when no operation fails.
LEMMA TidyRecover ==
    ASSUME IInv, faults = 0, Tidy, Recover, ~Fault
    PROVE  DiskTidy' /\ BackupsKnown' /\ PhasesKnown' /\ VerdictsKnown'
<1>. DEFINE t == fs.journal.tx
<1>0. /\ DiskOK /\ LocalsOK /\ PointKnows /\ fs \in Directories
      /\ DiskTidy /\ BackupsKnown /\ PhasesKnown /\ VerdictsKnown
  BY IInvParts DEF Tidy, DiskOK
<1>a. /\ Named(fs) /\ (crashes = 0 => Accepts(fs))
      /\ fs.journal \in Journals \cup {NoJournal} /\ fs.tmp \in BOOLEAN
      /\ fs.journal # NoJournal => t \in Tx
      /\ \A x \in Tx : /\ fs.staging[x] \in Trees \cup {NoTree}
                       /\ fs.backup[x] \in Trees \cup {NoTree}
  BY <1>0, DiskKnowsFs, DirectoryFields, JournalFields
<1>b. \A tree : tree \in Trees \cup {NoTree} /\ Present(tree) =>
                  Torn(tree) \in Trees
  BY TornFields, TreeFields
<1>c. result = "none" /\ RecoveredTo = "make" /\ result # "refused"
  BY <1>0 DEF Recover, RecoverJournal, RestoreOld, DropBackup, DropStaging,
     DropJournal, SyncRecovery, VerdictsKnown, RecoveredTo
<1>. DEFINE Known == BackupsKnown' /\ PhasesKnown' /\ VerdictsKnown'
\* In recovery, the invariant is little more than that there is no backup.
<1>d. ASSUME pc' \in Discarding \cup {"restore", "dropBackup", "syncUnlinked", "make"},
             crashes' = crashes, result' = result,
             pc' \in Discarding => NoBackup(fs'),
             crashes = 0 => pc' \in {"syncUnlinked", "make"}
      PROVE  Known
  BY <1>0, <1>c, <1>d DEF BackupsKnown, PhasesKnown, VerdictsKnown, Discarding,
     Preparing, Moved, Installed, Persisting, RecoveryNeverRefuses
<1>2. CASE RecoverJournal
  <2>. DEFINE d == PutJournal(fs, fs.journal, FALSE)
  <2>1. /\ d.output = fs.output /\ d.staging = fs.staging
        /\ d.backup = fs.backup /\ d.journal = fs.journal /\ d \in Directories
    BY <1>0, <1>a, PutJournalFields
  <2>2. Named(d) /\ (Accepts(fs) => Accepts(d)) /\ (NoBackup(fs) => NoBackup(d))
    <3>. HIDE DEF d
    <3>. QED
      BY <1>a, <2>1, SameVerdict
  <2>3. Mutate(d) /\ NoFault
    BY <1>2 DEF RecoverJournal
  <2>4. DiskTidy'
    BY <1>0, <1>a, <2>2, <2>3, TidyDisk DEF Mutate
  <2>5. CASE fs.journal = NoJournal
    <3>1. pc' = "make" /\ UNCHANGED <<result, call>>
      BY <1>2, <1>c, <2>1, <2>5 DEF RecoverJournal, Goto, Fault
    <3>. QED
      BY <1>d, <2>3, <2>4, <3>1 DEF Discarding, NoFault
  <2>6. CASE fs.journal # NoJournal
    <3>1. crashes # 0
      BY <1>0, <1>2, <2>6 DEF VerdictsKnown, RecoverJournal
    <3>2. CASE Verdict(d) = "refuse"
      <4>1. ~(crashes <= 1)
        <5>1. ~Accepts(fs)
          BY <2>1, <2>2, <2>6, <3>2 DEF Accepts
        <5>. QED
          BY <1>0, <1>2, <5>1 DEF VerdictsKnown, RecoverJournal
      <4>2. pc' = "idle"
        BY <1>2, <1>c, <2>1, <2>6, <3>2
        DEF RecoverJournal, RecoveryFails, Return, Goto
      <4>. QED
        BY <2>3, <2>4, <3>1, <4>1, <4>2 DEF BackupsKnown, PhasesKnown, VerdictsKnown,
           Discarding, Preparing, Moved, Installed, Persisting, NoFault
    <3>3. CASE Verdict(d) # "refuse"
      <4>1. pc' = Verdict(d) /\ UNCHANGED <<result, call>>
        BY <1>2, <2>1, <2>6, <3>3 DEF RecoverJournal, Goto
      <4>2. /\ Verdict(d) \in {"restore", "dropBackup", "dropStaging", "dropJournal"}
            /\ Verdict(d) \in {"dropStaging", "dropJournal"} => ~Present(fs.backup[t])
        BY <2>1, <2>6, <3>3, DiscardVerdict
      <4>3. pc' \in Discarding => NoBackup(fs')
        BY <1>a, <2>1, <2>3, <4>1, <4>2 DEF Discarding, NoBackup, Named, Mutate
      <4>. QED
        BY <1>d, <2>3, <2>4, <3>1, <4>1, <4>2, <4>3 DEF Discarding, NoFault
    <3>. QED
      BY <3>2, <3>3
  <2>. QED
    BY <2>5, <2>6
<1>3. CASE RestoreOld
  <2>. DEFINE e == PutOutput(fs, fs.backup[t])
  <2>1. /\ Mutate(MoveOldBack(fs, t)) /\ pc' = "syncRestored" /\ result' = result
        /\ NoFault
    BY <1>3 DEF RestoreOld, Goto
  <2>2. fs.journal # NoJournal /\ t \in Tx /\ crashes # 0
    BY <1>0, <1>3, <1>a DEF RestoreOld, PointKnows, RecoveryKnows, VerdictsKnown
  <2>3. e \in Directories /\ e.backup = fs.backup /\ e.journal = fs.journal
    BY <1>0, <1>a, <2>2, PutOutputFields
  <2>4. fs' = PutBackup(e, t, NoTree)
    BY <2>1 DEF Mutate, MoveOldBack
  <2>. HIDE DEF e
  <2>5. fs'.backup[t] = NoTree /\ \A x \in Tx \ {t} : fs'.backup[x] = fs.backup[x]
    BY <2>2, <2>3, <2>4, PutBackupFields, PutBackupOthers
  <2>6. NoBackup(fs') /\ Named(fs')
    BY <1>a, <2>5 DEF NoBackup, Named, Present
  <2>7. DiskTidy'
    BY <1>0, <2>1, <2>2, <2>6, TidyDisk DEF Mutate
  <2>. QED
    BY <1>d, <2>1, <2>2, <2>6, <2>7 DEF NoFault, Discarding
<1>4. CASE DropBackup
  <2>1. fs.journal # NoJournal /\ t \in Tx /\ crashes # 0
    BY <1>0, <1>4, <1>a DEF DropBackup, PointKnows, RecoveryKnows, VerdictsKnown
  <2>2. NoFault /\ result' = result
    BY <1>4 DEF DropBackup, RemoveAll
  <2>3. ASSUME NEW tree \in Trees \cup {NoTree}, Mutate(PutBackup(fs, t, tree))
        PROVE  DiskTidy' /\ (tree = NoTree => NoBackup(fs'))
    <3>1. /\ fs'.backup[t] = tree /\ fs'.journal = fs.journal
          /\ \A x \in Tx \ {t} : fs'.backup[x] = fs.backup[x]
      BY <1>0, <2>1, <2>3, PutBackupFields, PutBackupOthers DEF Mutate
    <3>2. Named(fs') /\ (tree = NoTree => NoBackup(fs'))
      BY <1>a, <2>1, <3>1 DEF NoBackup, Named, Present
    <3>. QED
      BY <1>0, <2>1, <2>2, <2>3, <3>2, TidyDisk DEF Mutate
  <2>4. CASE Mutate(PutBackup(fs, t, NoTree)) /\ pc' = "syncBackup"
    BY <1>d, <2>1, <2>2, <2>3, <2>4 DEF NoFault, Discarding
  <2>5. CASE /\ Mutate(PutBackup(fs, t, Torn(fs.backup[t]))) /\ Present(fs.backup[t])
             /\ pc' = pc
    <3>1. pc' = "dropBackup" /\ Torn(fs.backup[t]) \in Trees \cup {NoTree}
      BY <1>4, <1>a, <1>b, <2>1, <2>5 DEF DropBackup
    <3>. QED
      BY <1>d, <2>1, <2>2, <2>3, <2>5, <3>1 DEF NoFault, Discarding
  <2>. QED
    BY <1>4, <2>4, <2>5 DEF DropBackup, RemoveAll, Goto
<1>5. CASE DropStaging
  <2>1. fs.journal # NoJournal /\ t \in Tx /\ crashes # 0 /\ NoBackup(fs)
    BY <1>0, <1>5, <1>a DEF DropStaging, PointKnows, RecoveryKnows, VerdictsKnown,
       BackupsKnown, Discarding
  <2>2. NoFault /\ result' = result /\ pc' \in {"syncStaging", "dropStaging"}
    BY <1>5 DEF DropStaging, RemoveAll, Goto
  <2>3. ASSUME NEW tree \in Trees \cup {NoTree}, Mutate(PutStaging(fs, t, tree))
        PROVE  DiskTidy' /\ NoBackup(fs')
    <3>1. fs'.backup = fs.backup /\ fs'.journal = fs.journal
      BY <1>0, <2>1, <2>3, PutStagingFields DEF Mutate
    <3>. QED
      BY <1>0, <2>1, <2>2, <2>3, <3>1, TidyAside DEF Mutate
  <2>4. Present(fs.staging[t]) => Torn(fs.staging[t]) \in Trees
    BY <1>a, <1>b, <2>1
  <2>5. DiskTidy' /\ NoBackup(fs')
    BY <1>5, <2>3, <2>4 DEF DropStaging, RemoveAll
  <2>. QED
    BY <1>d, <2>1, <2>2, <2>5 DEF NoFault, Discarding
<1>6. CASE DropJournal
  <2>1. /\ Mutate(PutJournal(fs, NoJournal, fs.tmp)) /\ pc' = "syncUnlinked"
        /\ result' = result /\ NoFault
    BY <1>6 DEF DropJournal, Goto
  <2>2. NoBackup(fs)
    BY <1>0, <1>6 DEF DropJournal, BackupsKnown, Discarding
  <2>3. fs'.backup = fs.backup /\ fs'.journal = NoJournal
    <3>1. NoJournal \in Journals \cup {NoJournal}
      OBVIOUS
    <3>2. fs' = PutJournal(fs, NoJournal, fs.tmp)
      BY <2>1 DEF Mutate
    <3>. QED
      BY <1>0, <1>a, <3>1, <3>2, PutJournalFields
  <2>4. Named(fs') /\ Accepts(fs')
    BY <2>2, <2>3 DEF NoBackup, Named, Accepts
  <2>5. DiskTidy'
    BY <1>0, <2>1, <2>4, TidyDisk DEF Mutate
  <2>. QED
    BY <1>d, <2>1, <2>5 DEF NoFault, Discarding
<1>7. CASE SyncRecovery
  <2>1. disk' = {fs} /\ UNCHANGED <<fs, result, call>> /\ NoFault
    BY <1>7 DEF SyncRecovery
  <2>2. DiskTidy'
    BY <1>0, <1>a, <2>1, TidyDisk
  <2>3. CASE pc = "syncUnlinked"
    <3>1. pc' = "make"
      BY <1>7, <1>c, <2>3 DEF SyncRecovery, Goto
    <3>. QED
      BY <1>d, <2>1, <2>2, <3>1 DEF NoFault, Discarding
  <2>4. CASE pc # "syncUnlinked"
    <3>1. pc' \in {"dropStaging", "dropJournal"} /\ pc \in Discarding
      BY <1>7, <2>4 DEF SyncRecovery, Goto, Discard, Discarding
    <3>2. NoBackup(fs') /\ crashes # 0
      BY <1>0, <2>1, <3>1 DEF BackupsKnown, VerdictsKnown
    <3>. QED
      BY <1>d, <2>1, <2>2, <3>1, <3>2 DEF NoFault, Discarding
  <2>. QED
    BY <2>3, <2>4
<1>. QED
  BY <1>2, <1>3, <1>4, <1>5, <1>6, <1>7 DEF Recover

\* The replacement, when no operation fails: the labels before the journal.
LEMMA TidyStaging ==
    ASSUME IInv, faults = 0, Tidy, ~Fault,
           MakeStaging \/ StageFiles \/ Exchange \/ SyncExchange \/ BeginJournal
    PROVE  DiskTidy' /\ BackupsKnown' /\ PhasesKnown' /\ VerdictsKnown'
<1>0. /\ DiskOK /\ LocalsOK /\ PointKnows /\ fs \in Directories
      /\ DiskTidy /\ BackupsKnown /\ PhasesKnown /\ VerdictsKnown
  BY IInvParts DEF Tidy, DiskOK
<1>1. /\ fs.journal = NoJournal /\ NoBackup(fs) /\ result = "none" /\ tx \in Tx
      /\ pc = "decide" => fs.staging[tx] = New
  BY <1>0, DiskKnowsFs DEF MakeStaging, StageFiles, Exchange, SyncExchange, BeginJournal,
     PointKnows, StagingKnows, NoBackup, Named, VerdictsKnown, LocalsOK
<1>2. NoFault /\ (Mutate(fs') \/ disk' = {fs'} \/ Look)
  BY DEF MakeStaging, StageFiles, Exchange, SyncExchange, BeginJournal, Mutate, Look
<1>3. fs'.backup = fs.backup /\ fs'.journal = fs.journal
  <2>1. \A x \in Tx, tree \in Trees \cup {NoTree} :
          /\ PutStaging(fs, x, tree).backup = fs.backup
          /\ PutStaging(fs, x, tree).journal = fs.journal
    BY <1>0, PutStagingFields
  <2>2. New \in Trees /\ Torn(New) \in Trees
    BY <1>0, NewFields, TornFields
  <2>3. CASE MakeStaging
    BY <2>1, <2>2, <2>3 DEF MakeStaging, Mutate, Look
  <2>4. CASE StageFiles
    BY <1>1, <2>1, <2>2, <2>4 DEF StageFiles, Mutate, Look
  <2>5. CASE Exchange
    <3>1. PutOutput(fs, New) \in Directories /\ fs.output \in Trees \cup {NoTree}
      BY <1>0, <2>2, PutOutputFields, DirectoryFields
    <3>2. /\ Exchanged(fs, tx).backup = PutOutput(fs, New).backup
          /\ Exchanged(fs, tx).journal = PutOutput(fs, New).journal
      BY <1>1, <2>5, <3>1, PutStagingFields DEF Exchange, Exchanged
    <3>. QED
      BY <1>0, <2>2, <2>5, <3>2, PutOutputFields DEF Exchange, Mutate
  <2>6. CASE SyncExchange \/ BeginJournal
    BY <2>6 DEF SyncExchange, BeginJournal, Look
  <2>. QED
    BY <2>3, <2>4, <2>5, <2>6
<1>4. DiskTidy' /\ NoBackup(fs') /\ fs'.journal = NoJournal /\ crashes' = crashes
  BY <1>0, <1>1, <1>2, <1>3, TidyAside DEF NoFault
<1>5. CASE pc' \in {"fill", "decide", "syncExchange", "cleanup", "idle"}
  <2>1. result' # "refused" /\ (pc' \in {"fill", "decide", "syncExchange"} => result' = "none")
    BY <1>1, <1>5 DEF MakeStaging, StageFiles, Exchange, SyncExchange, BeginJournal,
       Return, Goto
  <2>. QED
    BY <1>4, <1>5, <2>1 DEF BackupsKnown, PhasesKnown, VerdictsKnown, Discarding,
       Preparing, Moved, Installed, Persisting, Accepts, RecoveryNeverRefuses
<1>6. CASE BeginJournal /\ pc' = "writeTmp"
  <2>1. result' = "none" /\ phase' = "prepared"
    BY <1>1, <1>6 DEF BeginJournal, Goto
  <2>. QED
    BY <1>4, <1>6, <2>1 DEF BackupsKnown, PhasesKnown, VerdictsKnown, Discarding,
       Preparing, Moved, Installed, Persisting, RecoveryNeverRefuses
<1>. QED
  BY <1>5, <1>6 DEF MakeStaging, StageFiles, Exchange, SyncExchange, BeginJournal,
     Return, Goto

\* The labels from the journal's first phase to the end of the call.
LEMMA TidyReplace ==
    ASSUME IInv, faults = 0, Tidy, ~Fault,
           \/ WriteJournal \/ PublishJournal \/ SyncJournal \/ MoveOld \/ SyncRename
           \/ Install \/ ForgetOld \/ UnlinkJournal \/ Cleanup
    PROVE  DiskTidy' /\ BackupsKnown' /\ PhasesKnown' /\ VerdictsKnown'
<1>0. /\ DiskOK /\ LocalsOK /\ PointKnows /\ fs \in Directories /\ tx \in Tx
      /\ DiskTidy /\ BackupsKnown /\ PhasesKnown /\ VerdictsKnown
  BY IInvParts DEF Tidy, DiskOK, LocalsOK
<1>a. /\ Named(fs) /\ (crashes = 0 => Accepts(fs))
      /\ fs.journal \in Journals \cup {NoJournal} /\ fs.tmp \in BOOLEAN
      /\ fs.output \in Trees \cup {NoTree}
      /\ fs.staging[tx] \in Trees \cup {NoTree}
      /\ fs.backup[tx] \in Trees \cup {NoTree}
  BY <1>0, DiskKnowsFs, DirectoryFields
<1>b. pc \notin {"idle", "cleanup"} => result = "none"
  BY <1>0 DEF VerdictsKnown
<1>c. NoFault
  BY DEF WriteJournal, PublishJournal, SyncJournal, MoveOld, SyncRename,
     Install, ForgetOld, UnlinkJournal, Cleanup, ReplaceFails, RemoveAll, Rename
<1>d. crashes' = crashes
  BY <1>c DEF NoFault
\* What is known while the journal is there, beyond what the phase says.
<1>e. ASSUME pc' \notin Discarding \cup {"restore", "dropBackup", "idle", "recover", "cleanup"},
             result' = "none"
      PROVE  VerdictsKnown'
  BY <1>d, <1>e DEF VerdictsKnown, RecoveryNeverRefuses
<1>f. ASSUME Preparing,
             pc \notin {"writeTmp", "publish"}
      PROVE  /\ NoBackup(fs) /\ fs.journal # NoJournal /\ fs.journal.tx = tx
             /\ (fs.journal.hadOld <=> hadOld) /\ fs.journal.phase = "prepared"
             /\ fs.staging[tx] = New /\ (hadOld <=> Present(fs.output))
  BY <1>0, <1>f DEF PointKnows, PreparedKnows, BackupsKnown, Preparing, Persisting
<1>1. CASE WriteJournal
  <2>. DEFINE d == PutJournal(fs, fs.journal, TRUE)
  <2>1. Mutate(d) /\ pc' = "publish" /\ UNCHANGED <<call, result>> /\ pc = "writeTmp"
    BY <1>1 DEF WriteJournal, ReplaceFails, Goto
  <2>2. /\ d.output = fs.output /\ d.staging = fs.staging
        /\ d.backup = fs.backup /\ d.journal = fs.journal
    BY <1>0, <1>a, PutJournalFields
  <2>. HIDE DEF d
  <2>3. Named(d) /\ (Accepts(fs) => Accepts(d)) /\ (NoBackup(fs) => NoBackup(d))
    BY <1>a, <2>2, SameVerdict
  <2>4. DiskTidy'
    BY <1>0, <1>a, <1>c, <2>1, <2>3, TidyDisk DEF Mutate
  <2>5. BackupsKnown' /\ PhasesKnown'
    BY <1>0, <2>1, <2>2, <2>3 DEF Mutate, BackupsKnown, PhasesKnown, Discarding,
       Preparing, Moved, Installed, Persisting, call
  <2>. QED
    BY <1>b, <1>e, <2>1, <2>4, <2>5 DEF Discarding
<1>2. CASE PublishJournal
  <2>. DEFINE j == [tx |-> tx, hadOld |-> hadOld, phase |-> phase]
              d == PutJournal(fs, j, FALSE)
  <2>1. Mutate(d) /\ pc' = "syncJournal" /\ UNCHANGED <<call, result>> /\ pc = "publish"
    BY <1>2 DEF PublishJournal, ReplaceFails, Goto
  <2>2. /\ j \in Journals /\ j # NoJournal
        /\ j.tx = tx /\ j.phase = phase /\ (j.hadOld <=> hadOld)
    BY <1>0, JournalAssumption DEF LocalsOK, Journals
  <2>. HIDE DEF j
  <2>3. /\ d.output = fs.output /\ d.staging = fs.staging
        /\ d.backup = fs.backup /\ d.journal = j /\ d \in Directories
    <3>1. fs \in Directories /\ j \in Journals \cup {NoJournal} /\ FALSE \in BOOLEAN
      BY <1>0, <2>2
    <3>. QED
      BY ONLY <3>1, PutJournalFields
  <2>. HIDE DEF d
  <2>4. CASE phase = "prepared"
    <3>1. NoBackup(fs) /\ fs.staging[tx] = New /\ (hadOld <=> Present(fs.output))
      BY <1>0, <2>1, <2>4 DEF PointKnows, PreparedKnows, BackupsKnown, Preparing,
         Persisting
    <3>2. NoBackup(d) /\ Named(d)
      BY <2>3, <3>1 DEF NoBackup, Named
    <3>3. Accepts(d)
      BY <1>0, <2>2, <2>3, <2>4, <3>1, <3>2, AcceptedDirectories, NewFields DEF NoBackup
    <3>4. BackupsKnown' /\ PhasesKnown'
      BY <2>1, <2>2, <2>3, <2>4, <3>2 DEF Mutate, BackupsKnown, PhasesKnown, Discarding,
         Preparing, Moved, Installed, Persisting, call
    <3>. QED
      BY <1>0, <1>b, <1>c, <1>e, <2>1, <3>2, <3>3, <3>4, TidyDisk DEF Mutate, Discarding
  <2>5. CASE phase = "old-moved"
    <3>1. Present(fs.backup[tx]) /\ ~Present(fs.output)
      BY <1>0, <2>1, <2>5 DEF PointKnows, MovedKnows, BackupsKnown, Moved, Persisting
    <3>2. Named(d)
      <4>1. fs.journal # NoJournal /\ fs.journal.tx = tx
        BY <1>0, <2>1, <2>5 DEF PointKnows, MovedKnows, Persisting
      <4>. QED
        BY <1>a, <2>2, <2>3, <4>1 DEF Named
    <3>3. Accepts(d)
      BY <2>2, <2>3, <2>5, <3>1, AcceptedDirectories
    <3>4. BackupsKnown' /\ PhasesKnown'
      BY <2>1, <2>2, <2>3, <2>5, <3>1 DEF Mutate, BackupsKnown, PhasesKnown, Discarding,
         Preparing, Moved, Installed, Persisting, call
    <3>. QED
      BY <1>0, <1>b, <1>c, <1>e, <2>1, <3>2, <3>3, <3>4, TidyDisk DEF Mutate, Discarding
  <2>6. CASE phase = "new-installed"
    <3>1. /\ fs.output = New /\ fs.journal # NoJournal /\ fs.journal.tx = tx
          /\ ~hadOld => NoBackup(fs)
      BY <1>0, <2>1, <2>6 DEF PointKnows, InstalledKnows, BackupsKnown, Installed,
         Persisting
    <3>2. Named(d) /\ (~hadOld => NoBackup(d))
      BY <1>a, <2>2, <2>3, <3>1 DEF Named, NoBackup
    <3>3. Accepts(d)
      BY <1>0, <2>2, <2>3, <2>6, <3>1, AcceptedDirectories, NewFields
    <3>4. BackupsKnown' /\ PhasesKnown'
      BY <2>1, <2>2, <2>3, <2>6, <3>2 DEF Mutate, BackupsKnown, PhasesKnown, Discarding,
         Preparing, Moved, Installed, Persisting, call
    <3>. QED
      BY <1>0, <1>b, <1>c, <1>e, <2>1, <3>2, <3>3, <3>4, TidyDisk DEF Mutate, Discarding
  <2>. QED
    BY <1>0, <2>4, <2>5, <2>6 DEF LocalsOK, Phases
<1>3. CASE SyncJournal
  <2>1. /\ disk' = {fs} /\ fs' = fs /\ pc = "syncJournal"
        /\ pc' = AfterPersist /\ UNCHANGED <<call, result>>
    BY <1>3 DEF SyncJournal, ReplaceFails, Goto
  <2>2. DiskTidy'
    BY <1>0, <1>a, <1>c, <2>1, TidyDisk
  <2>3. fs.journal.phase = phase
    BY <1>0, <2>1 DEF PhasesKnown
  <2>4. CASE phase = "prepared"
    <3>1. pc' = IF hadOld THEN "moveOld" ELSE "install"
      BY <2>1, <2>4 DEF AfterPersist
    <3>2. NoBackup(fs)
      BY <1>0, <2>1, <2>4 DEF BackupsKnown, Preparing, Persisting
    <3>. QED
      BY <1>b, <1>e, <2>1, <2>2, <3>1, <3>2 DEF BackupsKnown, PhasesKnown, Discarding,
         Preparing, Moved, Installed, Persisting, call
  <2>5. CASE phase = "old-moved"
    <3>1. pc' = "install"
      BY <2>1, <2>5 DEF AfterPersist
    <3>2. Present(fs.backup[tx]) /\ hadOld
      BY <1>0, <2>1, <2>5 DEF BackupsKnown, Moved, Persisting, PointKnows, MovedKnows
    <3>. QED
      BY <1>b, <1>e, <2>1, <2>2, <2>3, <2>5, <3>1, <3>2 DEF BackupsKnown, PhasesKnown,
         Discarding, Preparing, Moved, Installed, Persisting, call
  <2>6. CASE phase = "new-installed"
    <3>1. pc' = IF hadOld THEN "forget" ELSE "unlink"
      BY <2>1, <2>6 DEF AfterPersist
    <3>2. fs.journal # NoJournal /\ fs.journal.tx = tx /\ (~hadOld => NoBackup(fs))
      BY <1>0, <2>1, <2>6 DEF BackupsKnown, Installed, Persisting
    <3>. QED
      BY <1>b, <1>e, <2>1, <2>2, <2>3, <2>6, <3>1, <3>2 DEF BackupsKnown, PhasesKnown,
         Discarding, Preparing, Moved, Installed, Persisting, call
  <2>. QED
    BY <1>0, <2>4, <2>5, <2>6 DEF LocalsOK, Phases
<1>4. CASE MoveOld
  <2>. DEFINE d == PutBackup(fs, tx, fs.output)
  <2>1. /\ Mutate(PutOutput(d, NoTree)) /\ pc' = "syncMoved" /\ pc = "moveOld"
        /\ UNCHANGED <<call, result>>
    BY <1>4 DEF MoveOld, Rename, ReplaceFails, Goto, MoveOldAway
  <2>2. /\ NoBackup(fs) /\ fs.journal # NoJournal /\ fs.journal.tx = tx
        /\ fs.journal.hadOld /\ fs.journal.phase = "prepared" /\ Present(fs.output)
    BY <1>0, <1>f, <2>1 DEF Preparing, PointKnows, PreparedKnows
  <2>3. /\ d.backup[tx] = fs.output /\ d.journal = fs.journal /\ d \in Directories
        /\ \A x \in Tx \ {tx} : d.backup[x] = fs.backup[x]
    BY <1>0, <1>a, PutBackupFields, PutBackupOthers
  <2>. HIDE DEF d
  <2>4. /\ fs' \in Directories /\ fs'.output = NoTree /\ fs'.backup = d.backup
        /\ fs'.journal = fs.journal
    BY <2>1, <2>3, PutOutputFields DEF Mutate
  <2>5. Named(fs') /\ Accepts(fs')
    <3>1. Named(fs') /\ Present(fs'.backup[tx]) /\ ~Present(fs'.output)
      BY <2>2, <2>3, <2>4 DEF Named, NoBackup, Present
    <3>. QED
      BY <2>2, <2>4, <3>1, AcceptedDirectories
  <2>6. DiskTidy'
    BY <1>0, <1>c, <2>1, <2>5, TidyDisk DEF Mutate
  <2>. QED
    BY <1>b, <1>e, <2>1, <2>2, <2>3, <2>4, <2>6 DEF BackupsKnown, PhasesKnown,
       Discarding, Preparing, Moved, Installed, Persisting, call
<1>5. CASE SyncRename
  <2>1. /\ disk' = {fs} /\ fs' = fs /\ pc' = "writeTmp" /\ UNCHANGED <<tx, hadOld, result>>
        /\ pc \in {"syncMoved", "syncInstalled"}
        /\ phase' = IF pc = "syncMoved" THEN "old-moved" ELSE "new-installed"
    BY <1>5 DEF SyncRename, ReplaceFails, Goto
  <2>2. DiskTidy'
    BY <1>0, <1>a, <1>c, <2>1, TidyDisk
  <2>3. /\ pc = "syncMoved" => Present(fs.backup[tx])
        /\ pc = "syncInstalled" => /\ fs.journal # NoJournal /\ fs.journal.tx = tx
                                   /\ ~hadOld => NoBackup(fs)
    BY <1>0 DEF BackupsKnown, Moved, Installed
  <2>. QED
    BY <1>b, <1>e, <2>1, <2>2, <2>3 DEF BackupsKnown, PhasesKnown, Discarding,
       Preparing, Moved, Installed, Persisting
<1>6. CASE Install
  <2>. DEFINE d == PutOutput(fs, fs.staging[tx])
  <2>1. /\ Mutate(PutStaging(d, tx, NoTree)) /\ pc' = "syncInstalled" /\ pc = "install"
        /\ UNCHANGED <<call, result>>
    BY <1>6 DEF Install, Rename, ReplaceFails, Goto, InstallNew
  <2>2. /\ d.backup = fs.backup /\ d.journal = fs.journal /\ d \in Directories
    BY <1>0, <1>a, PutOutputFields
  <2>. HIDE DEF d
  <2>3. /\ fs' \in Directories /\ fs'.staging[tx] = NoTree /\ fs'.backup = fs.backup
        /\ fs'.journal = fs.journal
    BY <1>0, <2>1, <2>2, PutStagingFields DEF Mutate
  <2>4. /\ fs.journal # NoJournal /\ fs.journal.tx = tx
        /\ hadOld => Present(fs.backup[tx]) /\ fs.journal.phase = "old-moved"
        /\ ~hadOld => /\ NoBackup(fs) /\ ~fs.journal.hadOld
                      /\ fs.journal.phase = "prepared"
    <3>1. CASE hadOld
      BY <1>0, <2>1, <3>1 DEF PointKnows, MovedKnows, BackupsKnown, PhasesKnown, Moved
    <3>2. CASE ~hadOld
      BY <1>f, <2>1, <3>2 DEF Preparing
    <3>. QED
      BY <3>1, <3>2
  <2>5. Accepts(fs')
    <3>1. ~Present(fs'.staging[tx])
      BY <2>3 DEF Present
    <3>2. CASE hadOld
      BY <2>3, <2>4, <3>1, <3>2, AcceptedDirectories
    <3>3. CASE ~hadOld
      <4>1. ~Present(fs'.backup[tx])
        BY <1>0, <2>3, <2>4, <3>3 DEF NoBackup
      <4>. QED
        BY <2>3, <2>4, <3>1, <3>3, <4>1, AcceptedDirectories
    <3>. QED
      BY <3>2, <3>3
  <2>6. Named(fs') /\ (NoBackup(fs) => NoBackup(fs'))
    BY <1>a, <2>3 DEF Named, NoBackup
  <2>7. DiskTidy'
    BY <1>0, <1>c, <2>1, <2>5, <2>6, TidyDisk DEF Mutate
  <2>. QED
    BY <1>b, <1>e, <2>1, <2>3, <2>4, <2>6, <2>7 DEF BackupsKnown, PhasesKnown,
       Discarding, Preparing, Moved, Installed, Persisting, call
<1>7. CASE ForgetOld
  <2>1. /\ pc = "forget" /\ UNCHANGED <<call, result>> /\ pc' \in {"forget", "unlink"}
        /\ fs.journal # NoJournal /\ fs.journal.tx = tx
        /\ fs.journal.phase = "new-installed" /\ fs.output = New
    BY <1>0, <1>7 DEF ForgetOld, RemoveAll, Goto, BackupsKnown, PhasesKnown, Installed,
       PointKnows, InstalledKnows, DiskOK
  <2>2. ASSUME NEW tree \in Trees \cup {NoTree}, Mutate(PutBackup(fs, tx, tree)),
               tree = NoTree \/ (Present(fs.backup[tx]) /\ pc' = "forget")
        PROVE  DiskTidy' /\ BackupsKnown' /\ PhasesKnown' /\ VerdictsKnown'
    <3>1. /\ fs' \in Directories /\ fs'.output = New /\ fs'.journal = fs.journal
          /\ fs'.backup[tx] = tree
          /\ \A x \in Tx \ {tx} : fs'.backup[x] = fs.backup[x]
      BY <1>0, <2>1, <2>2, PutBackupFields, PutBackupOthers DEF Mutate
    <3>2. Named(fs') /\ (tree = NoTree => NoBackup(fs'))
      BY <1>a, <2>1, <3>1 DEF Named, NoBackup, Present
    <3>3. Accepts(fs')
      BY <1>0, <2>1, <3>1, AcceptedDirectories, NewFields
    <3>4. DiskTidy'
      BY <1>0, <1>c, <2>2, <3>2, <3>3, TidyDisk DEF Mutate
    <3>5. hadOld \/ NoBackup(fs')
      BY <1>0, <2>1, <2>2, <3>2 DEF BackupsKnown, Installed, NoBackup
    <3>. QED
      BY <1>b, <1>e, <2>1, <2>2, <3>1, <3>2, <3>4, <3>5 DEF BackupsKnown, PhasesKnown,
         Discarding, Preparing, Moved, Installed, Persisting, call
  <2>3. Present(fs.backup[tx]) => Torn(fs.backup[tx]) \in Trees
    BY <1>a, TornFields, TreeFields
  <2>. QED
    BY <1>7, <2>1, <2>2, <2>3 DEF ForgetOld, RemoveAll, Goto
<1>8. CASE UnlinkJournal
  <2>1. /\ disk' = {fs'} /\ fs' = PutJournal(fs, NoJournal, fs.tmp)
        /\ pc' = "cleanup" /\ result' = "ok" /\ NoBackup(fs)
    BY <1>0, <1>8 DEF UnlinkJournal, Goto, BackupsKnown
  <2>2. fs'.backup = fs.backup /\ fs'.journal = NoJournal
    <3>1. NoJournal \in Journals \cup {NoJournal}
      OBVIOUS
    <3>. QED
      BY <1>0, <1>a, <2>1, <3>1, PutJournalFields
  <2>3. NoBackup(fs') /\ Named(fs') /\ Accepts(fs')
    BY <2>1, <2>2 DEF NoBackup, Named, Accepts
  <2>4. DiskTidy'
    BY <1>0, <1>c, <2>1, <2>3, TidyDisk
  <2>. QED
    BY <1>d, <2>1, <2>2, <2>4 DEF BackupsKnown, PhasesKnown, VerdictsKnown, Discarding,
       Preparing, Moved, Installed, Persisting, RecoveryNeverRefuses
<1>9. CASE Cleanup
  <2>1. /\ pc = "cleanup" /\ result' = result /\ pc' \in {"idle", "cleanup"}
        /\ \E tree \in Trees \cup {NoTree} : Mutate(PutStaging(fs, tx, tree))
    <3>1. Present(fs.staging[tx]) => Torn(fs.staging[tx]) \in Trees
      BY <1>a, TornFields, TreeFields
    <3>. QED
      BY <1>9, <3>1 DEF Cleanup, Return, Goto
  <2>2. fs'.backup = fs.backup /\ fs'.journal = fs.journal /\ Mutate(fs')
    BY <1>0, <2>1, PutStagingFields DEF Mutate
  <2>3. /\ crashes <= 1 => fs'.journal = NoJournal /\ result # "refused"
    BY <1>0, <2>1, <2>2 DEF VerdictsKnown, RecoveryNeverRefuses
  <2>4. crashes = 0 => crashes <= 1
    OBVIOUS
  <2>5. DiskTidy'
    BY <1>0, <1>c, <2>2, <2>3, <2>4, TidyAside
  <2>. QED
    BY <1>d, <2>1, <2>3, <2>4, <2>5 DEF BackupsKnown, PhasesKnown, VerdictsKnown,
       Discarding, Preparing, Moved, Installed, Persisting, Accepts,
       RecoveryNeverRefuses
<1>. QED
  BY <1>1, <1>2, <1>3, <1>4, <1>5, <1>6, <1>7, <1>8, <1>9

LEMMA TidyStep == IInv /\ Tidy /\ [Next]_vars => Tidy'
<1>. SUFFICES ASSUME IInv, Tidy, [Next]_vars, faults' = 0
              PROVE  DiskTidy' /\ BackupsKnown' /\ PhasesKnown' /\ VerdictsKnown'
  BY DEF Tidy
<1>1. /\ DiskOK /\ LocalsOK /\ CountersOK /\ faults \in Nat /\ crashes \in Nat
      /\ ~Fault
  BY IInvParts, BoundAssumption DEF CountersOK, Fault
<1>2. CASE Recover \/ Replace
  <2>1. faults = 0
    <3>1. NoFault
      BY <1>1, <1>2 DEF Recover, RecoverJournal, RestoreOld, DropBackup, DropStaging,
         DropJournal, SyncRecovery, Replace, MakeStaging, StageFiles, Exchange,
         SyncExchange, BeginJournal, WriteJournal, PublishJournal, SyncJournal, MoveOld,
         SyncRename, Install, ForgetOld, UnlinkJournal, Cleanup, ReplaceFails, RemoveAll,
         Rename
    <3>. QED
      BY <3>1 DEF NoFault
  <2>. QED
    BY <1>1, <1>2, <2>1, TidyRecover, TidyStaging, TidyReplace DEF Replace
<1>3. ASSUME NEW p \in Plans, Call(p)
      PROVE  DiskTidy' /\ BackupsKnown' /\ PhasesKnown' /\ VerdictsKnown'
  <2>1. faults = 0 /\ NoFault /\ Look /\ pc = "idle" /\ pc' = "recover" /\ result' = "none"
    BY <1>3 DEF Call, NoFault, Goto
  <2>2. DiskTidy /\ VerdictsKnown
    BY <2>1 DEF Tidy
  <2>3. DiskTidy'
    BY <1>1, <2>1, <2>2, DiskKnowsFs, TidyDisk DEF Look
  <2>. QED
    BY <2>1, <2>2, <2>3 DEF BackupsKnown, PhasesKnown, VerdictsKnown, Discarding,
       Preparing, Moved, Installed, Persisting, RecoveryNeverRefuses, NoFault, Look
<1>4. CASE Kill \/ PowerLoss
  <2>1. /\ faults = 0 /\ crashes' = crashes + 1 /\ pc' = "idle" /\ result' = "none"
        /\ fs' \in disk /\ disk' \subseteq disk
    BY <1>1, <1>4 DEF Kill, PowerLoss, Crash, Goto, Look, DiskOK
  <2>2. DiskTidy
    BY <2>1 DEF Tidy
  <2>3. Named(fs') /\ (crashes = 0 => Accepts(fs'))
    BY <2>1, <2>2 DEF DiskTidy
  <2>4. crashes' # 0 /\ (crashes' <= 1 => crashes = 0)
    BY <1>1, <2>1
  <2>5. DiskTidy'
    BY <2>1, <2>2, <2>4 DEF DiskTidy, Named
  <2>. QED
    BY <2>1, <2>3, <2>4, <2>5 DEF BackupsKnown, PhasesKnown, VerdictsKnown, Discarding,
       Preparing, Moved, Installed, Persisting, RecoveryNeverRefuses, Accepts, Verdict,
       Discard
<1>5. CASE UNCHANGED vars
  BY <1>5 DEF vars, Tidy, DiskTidy, BackupsKnown, PhasesKnown, VerdictsKnown, Discarding,
     Preparing, Moved, Installed, Persisting, RecoveryNeverRefuses, Accepts, Verdict,
     Discard, Named, NoBackup
<1>. QED
  BY <1>2, <1>3, <1>4, <1>5 DEF Next

LEMMA InitTidy == Init => Tidy
<1>. SUFFICES ASSUME Init
              PROVE  DiskTidy /\ BackupsKnown /\ PhasesKnown /\ VerdictsKnown
  BY DEF Tidy
<1>1. fs.journal = NoJournal /\ \A t \in Tx : fs.backup[t] = NoTree
  BY DEF Init
<1>2. NoBackup(fs) /\ Named(fs) /\ Accepts(fs)
  BY <1>1 DEF NoBackup, Named, Accepts, Present
<1>3. DiskTidy
  BY <1>2 DEF Init, DiskTidy
<1>. QED
  BY <1>1, <1>2, <1>3 DEF Init, BackupsKnown, PhasesKnown, VerdictsKnown, Discarding,
     Preparing, Moved, Installed, Persisting, RecoveryNeverRefuses

LEMMA AlwaysTidy == Spec => [](IInv /\ Tidy)
BY InitIInv, InitTidy, Inductive, TidyStep, PTL DEF Spec

\* As long as no file operation fails, a backup that ReplaceOutput or its
\* recovery leaves, wherever they are killed or lose power and however often,
\* is one that the journal on disk names: no old tree is left behind unseen.
THEOREM BackupsJournalled == Spec => []BackupsAreJournalled
<1>1. IInv /\ Tidy => BackupsAreJournalled
  <2>. SUFFICES ASSUME IInv, Tidy, faults = 0
                PROVE  Named(fs)
    BY DEF BackupsAreJournalled, Named
  <2>. QED
    BY IInvParts, DiskKnowsFs DEF Tidy
<1>. QED
  BY <1>1, AlwaysTidy, PTL

\* As long as no file operation fails, recoverJournal accepts what it finds
\* after one kill or power loss, wherever it comes: the combination of phase
\* and trees is one that it has a case for.
THEOREM OneInterruption == Spec => []RecoveryAcceptsOneInterruption
<1>1. IInv /\ Tidy => RecoveryAcceptsOneInterruption
  BY DEF RecoveryAcceptsOneInterruption, Tidy, VerdictsKnown
<1>. QED
  BY <1>1, AlwaysTidy, PTL

-----------------------------------------------------------------------------
(* Why a forgotten backup is spare: while there is any backup, there is an *)
(* output, or recovery restores one.                                       *)

Backed(d) == \A x \in Tx : Present(d.backup[x]) => Present(Settled(d))

DiskBacked == \A d \in disk : Backed(d)

LEMMA OutputBacks ==
    ASSUME NEW d, Present(d.output)
    PROVE  Backed(d)
BY DEF Backed, Settled

LEMMA SettledBacks ==
    ASSUME NEW d, NEW e, Backed(d), e.backup = d.backup, Settled(e) = Settled(d)
    PROVE  Backed(e)
BY DEF Backed

LEMMA SameBacks ==
    ASSUME NEW d, NEW e, Backed(d), e.backup = d.backup,
           e.output = d.output, e.journal = d.journal
    PROVE  Backed(e)
BY SettledBacks DEF Settled

\* A journal may come or go where the output root is the tree of record.
LEMMA BackedAside ==
    ASSUME NEW d \in Directories, Backed(d), NEW j \in Journals \cup {NoJournal},
           NEW b \in BOOLEAN,
           \/ Present(d.output)
           \/ (d.journal = NoJournal \/ ~d.journal.hadOld)
              /\ (j = NoJournal \/ ~j.hadOld)
    PROVE  Backed(PutJournal(d, j, b))
<1>. DEFINE e == PutJournal(d, j, b)
<1>1. e.output = d.output /\ e.backup = d.backup /\ e.journal = j
  BY PutJournalFields
<1>. HIDE DEF e
<1>2. CASE Present(d.output)
  BY <1>1, <1>2, OutputBacks DEF e
<1>3. CASE ~Present(d.output)
  <2>1. Settled(d) = d.output /\ Settled(e) = e.output
    BY <1>1, <1>3 DEF Settled
  <2>. QED
    BY <1>1, <2>1, SettledBacks DEF e
<1>. QED
  BY <1>2, <1>3 DEF e

\* What a step adds to the disk is the directory as it is now.
LEMMA DiskGrows ==
    ASSUME fs \in disk, [Next]_vars
    PROVE  disk' \subseteq disk \cup {fs'}
<1>. USE DEF Mutate, Look, Return, RecoveryFails, ReplaceFails, Rename, RemoveAll
<1>1. CASE (\E p \in Plans : Call(p)) \/ Kill \/ PowerLoss \/ UNCHANGED vars
  BY <1>1 DEF Call, Kill, PowerLoss, vars
<1>2. CASE RecoverJournal \/ RestoreOld \/ DropBackup
  BY <1>2 DEF RecoverJournal, RestoreOld, DropBackup
<1>3. CASE DropStaging \/ DropJournal \/ SyncRecovery
  BY <1>3 DEF DropStaging, DropJournal, SyncRecovery
<1>4. CASE MakeStaging \/ StageFiles \/ Exchange \/ SyncExchange
  BY <1>4 DEF MakeStaging, StageFiles, Exchange, SyncExchange
<1>5. CASE BeginJournal \/ WriteJournal \/ PublishJournal \/ SyncJournal
  BY <1>5 DEF BeginJournal, WriteJournal, PublishJournal, SyncJournal
<1>6. CASE MoveOld \/ SyncRename \/ Install \/ ForgetOld \/ UnlinkJournal
  BY <1>6 DEF MoveOld, SyncRename, Install, ForgetOld, UnlinkJournal
<1>7. CASE Cleanup
  BY <1>7 DEF Cleanup
<1>. QED
  BY <1>1, <1>2, <1>3, <1>4, <1>5, <1>6, <1>7 DEF Next, Recover, Replace

LEMMA BackedStep == IInv /\ DiskBacked /\ [Next]_vars => DiskBacked'
<1>. SUFFICES ASSUME IInv, DiskBacked, [Next]_vars
              PROVE  Backed(fs')
  <2>. SUFFICES ASSUME IInv, DiskBacked, [Next]_vars, Backed(fs')
                PROVE  DiskBacked'
    OBVIOUS
  <2>1. disk' \subseteq disk \cup {fs'}
    BY DiskGrows, IInvParts DEF DiskOK
  <2>. QED
    BY <2>1 DEF DiskBacked
<1>. DEFINE t == fs.journal.tx
<1>0. /\ DiskOK /\ LocalsOK /\ PointKnows
      /\ fs \in disk /\ fs \in Directories /\ tx \in Tx /\ Backed(fs)
  BY IInvParts, DiskIsSound DEF LocalsOK, Sound, DiskOK, DiskBacked
<1>a. /\ fs.journal # NoJournal => t \in Tx
      /\ \A x \in Tx : /\ fs.staging[x] \in Trees \cup {NoTree}
                       /\ fs.backup[x] \in Trees \cup {NoTree}
  BY <1>0, DirectoryFields, JournalFields
<1>b. \A tree : tree \in Trees \cup {NoTree} /\ Present(tree) =>
                  Torn(tree) \in Trees
  BY TornFields, TreeFields
<1>c. \A x \in Tx, tree \in Trees \cup {NoTree} : Backed(PutStaging(fs, x, tree))
  BY <1>0, PutStagingFields, SameBacks
<1>d. \A x \in Tx, tree \in Trees \cup {NoTree} :
         Present(fs.output) => Backed(PutBackup(fs, x, tree))
  BY <1>0, PutBackupFields, OutputBacks
<1>e. \A b \in BOOLEAN : Backed(PutJournal(fs, fs.journal, b))
  BY <1>0, DirectoryFields, PutJournalFields, SameBacks
<1>1. CASE fs' \in disk
  BY <1>0, <1>1 DEF DiskBacked
<1>2. CASE RecoverJournal
  BY <1>0, <1>2, <1>e DEF RecoverJournal, Mutate, Look
<1>3. CASE RestoreOld
  <2>1. CASE fs' = MoveOldBack(fs, t)
    <3>1. t \in Tx /\ fs.backup[t] \in Trees /\ Present(fs.backup[t])
      BY <1>3, <1>a, TreeFields DEF RestoreOld, PointKnows, RecoveryKnows, IInv
    <3>2. LET e == PutOutput(fs, fs.backup[t])
          IN  e \in Directories /\ e.output = fs.backup[t]
      BY <1>0, <3>1, PutOutputFields
    <3>3. MoveOldBack(fs, t).output = fs.backup[t]
      BY <3>1, <3>2, PutBackupFields DEF MoveOldBack
    <3>. QED
      BY <2>1, <3>1, <3>3, OutputBacks
  <2>. QED
    BY <1>0, <1>3, <2>1 DEF RestoreOld, Mutate, Look
<1>4. CASE DropBackup
  <2>1. t \in Tx /\ Present(fs.output)
    BY <1>0, <1>4, <1>a DEF DropBackup, PointKnows, RecoveryKnows
  <2>2. \/ fs' = fs \/ fs' = PutBackup(fs, t, NoTree)
        \/ Present(fs.backup[t]) /\ fs' = PutBackup(fs, t, Torn(fs.backup[t]))
    BY <1>4 DEF DropBackup, RemoveAll, Mutate, Look
  <2>. QED
    BY <1>0, <1>a, <1>b, <1>d, <2>1, <2>2
<1>5. CASE DropStaging
  <2>1. t \in Tx
    BY <1>0, <1>5, <1>a DEF DropStaging, PointKnows, RecoveryKnows
  <2>2. \/ fs' = fs \/ fs' = PutStaging(fs, t, NoTree)
        \/ Present(fs.staging[t]) /\ fs' = PutStaging(fs, t, Torn(fs.staging[t]))
    BY <1>5 DEF DropStaging, RemoveAll, Mutate, Look
  <2>. QED
    BY <1>0, <1>a, <1>b, <1>c, <2>1, <2>2
<1>6. CASE DropJournal
  <2>1. Present(fs.output) \/ ~fs.journal.hadOld
    BY <1>0, <1>6 DEF DropJournal, PointKnows, RecoveryKnows
  <2>2. Backed(PutJournal(fs, NoJournal, fs.tmp))
    BY <1>0, <2>1, DirectoryFields, BackedAside
  <2>. QED
    BY <1>0, <1>6, <2>2 DEF DropJournal, Mutate, Look
<1>7. CASE MakeStaging
  <2>1. \A x \in Tx : Backed(PutStaging(fs, x, Torn(New)))
    BY <1>0, <1>c, NewFields, TornFields
  <2>. QED
    BY <1>0, <1>7, <2>1 DEF MakeStaging, Mutate, Look
<1>8. CASE StageFiles
  <2>1. Backed(PutStaging(fs, tx, New))
    BY <1>0, <1>c, NewFields
  <2>. QED
    BY <1>0, <1>8, <2>1 DEF StageFiles, Mutate, Look
<1>9. CASE Exchange \/ SyncExchange
  <2>1. Present(fs.staging[tx])
    BY <1>0, <1>9, NewFields DEF Exchange, SyncExchange, PointKnows, StagingKnows
  <2>2. fs.staging[tx] \in Trees /\ fs.output \in Trees \cup {NoTree}
    BY <1>0, <2>1, DirectoryFields, TreeFields
  <2>3. LET e == PutOutput(fs, fs.staging[tx])
        IN  e \in Directories /\ e.output = fs.staging[tx]
    BY <1>0, <2>2, PutOutputFields
  <2>4. Exchanged(fs, tx).output = fs.staging[tx]
    BY <1>0, <2>2, <2>3, PutStagingFields DEF Exchanged
  <2>5. Backed(Exchanged(fs, tx))
    BY <2>1, <2>4, OutputBacks
  <2>. QED
    BY <1>0, <1>9, <2>5 DEF Exchange, SyncExchange, Mutate, Look
<1>10. CASE WriteJournal
  BY <1>0, <1>10, <1>e DEF WriteJournal, ReplaceFails, Mutate, Look
<1>11. CASE PublishJournal
  <2>. DEFINE j == [tx |-> tx, hadOld |-> hadOld, phase |-> phase]
  <2>1. /\ j \in Journals /\ j.tx = tx /\ j.hadOld = hadOld /\ j.phase = phase
        /\ j # NoJournal
    BY <1>0, JournalAssumption DEF LocalsOK, Journals
  <2>2. ASSUME phase = "prepared" PROVE Backed(PutJournal(fs, j, FALSE))
    <3>1. fs.journal = NoJournal /\ (hadOld <=> Present(fs.output))
      BY <1>0, <1>11, <2>2 DEF PublishJournal, PointKnows, PreparedKnows, Persisting
    <3>. HIDE DEF j
    <3>. QED
      BY <1>0, <2>1, <3>1, BackedAside
  <2>3. ASSUME phase = "old-moved" PROVE Backed(PutJournal(fs, j, FALSE))
    <3>1. /\ hadOld /\ ~Present(fs.output) /\ fs.journal # NoJournal
          /\ fs.journal.tx = tx /\ fs.journal.hadOld
          /\ fs.journal.phase # "new-installed"
      BY <1>0, <1>11, <2>3 DEF PublishJournal, PointKnows, MovedKnows, Persisting
    <3>. HIDE DEF j
    <3>. DEFINE e == PutJournal(fs, j, FALSE)
    <3>2. e.output = fs.output /\ e.backup = fs.backup /\ e.journal = j
      BY <1>0, <2>1, PutJournalFields
    <3>. HIDE DEF e
    <3>3. Settled(e) = Settled(fs)
      BY <2>1, <2>3, <3>1, <3>2 DEF Settled
    <3>. QED
      BY <1>0, <3>2, <3>3, SettledBacks DEF e
  <2>4. ASSUME phase = "new-installed" PROVE Backed(PutJournal(fs, j, FALSE))
    <3>1. Present(fs.output)
      BY <1>0, <1>11, <2>4, NewFields
      DEF PublishJournal, PointKnows, InstalledKnows, Persisting
    <3>. HIDE DEF j
    <3>. QED
      BY <1>0, <2>1, <3>1, BackedAside
  <2>5. Backed(PutJournal(fs, j, FALSE))
    BY <1>0, <2>2, <2>3, <2>4 DEF LocalsOK, Phases
  <2>. QED
    BY <1>0, <1>11, <2>5 DEF PublishJournal, ReplaceFails, Mutate, Look
<1>12. CASE MoveOld
  <2>. DEFINE d == PutBackup(fs, tx, fs.output)
              e == PutOutput(d, NoTree)
  <2>1. pc = "moveOld"
    BY <1>12 DEF MoveOld, Rename
  <2>2. /\ fs.journal # NoJournal /\ fs.journal.tx = tx /\ fs.journal.hadOld
        /\ fs.journal.phase = "prepared" /\ Present(fs.output)
        /\ fs.output \in Trees \cup {NoTree}
    BY <1>0, <2>1, DirectoryFields DEF PointKnows, PreparedKnows
  <2>3. /\ d \in Directories /\ d.backup[tx] = fs.output /\ d.journal = fs.journal
    BY <1>0, <2>2, PutBackupFields
  <2>4. /\ e.output = NoTree /\ e.backup[tx] = fs.output /\ e.journal = fs.journal
    BY <2>3, PutOutputFields
  <2>. HIDE DEF e
  <2>5. Settled(e) = fs.output
    BY <2>2, <2>4 DEF Settled, Present
  <2>6. Backed(e)
    BY <2>2, <2>5 DEF Backed
  <2>. QED
    BY <1>0, <1>12, <2>6 DEF MoveOld, Rename, ReplaceFails, MoveOldAway, Mutate, Look, e
<1>13. CASE Install
  <2>1. fs.staging[tx] = New
    BY <1>0, <1>13 DEF Install, Rename, PointKnows, PreparedKnows, MovedKnows
  <2>2. LET e == PutOutput(fs, New)
        IN  e \in Directories /\ e.output = New
    BY <1>0, NewFields, PutOutputFields
  <2>3. InstallNew(fs, tx).output = New
    BY <1>0, <2>1, <2>2, PutStagingFields DEF InstallNew
  <2>4. Backed(InstallNew(fs, tx))
    BY <1>0, <2>3, NewFields, OutputBacks
  <2>. QED
    BY <1>0, <1>13, <2>4 DEF Install, Rename, ReplaceFails, Mutate, Look
<1>14. CASE ForgetOld
  <2>1. Present(fs.output)
    BY <1>0, <1>14, NewFields DEF ForgetOld, PointKnows, InstalledKnows
  <2>2. \/ fs' = fs \/ fs' = PutBackup(fs, tx, NoTree)
        \/ Present(fs.backup[tx]) /\ fs' = PutBackup(fs, tx, Torn(fs.backup[tx]))
    BY <1>14 DEF ForgetOld, RemoveAll, Mutate, Look
  <2>. QED
    BY <1>0, <1>a, <1>b, <1>d, <2>1, <2>2
<1>15. CASE UnlinkJournal
  <2>1. Present(fs.output)
    BY <1>0, <1>15, NewFields DEF UnlinkJournal, PointKnows, InstalledKnows
  <2>2. Backed(PutJournal(fs, NoJournal, fs.tmp))
    BY <1>0, <2>1, DirectoryFields, BackedAside
  <2>. QED
    BY <1>0, <1>15, <2>2 DEF UnlinkJournal, Mutate, Look
<1>16. CASE Cleanup
  <2>1. \/ fs' = fs \/ fs' = PutStaging(fs, tx, NoTree)
        \/ Present(fs.staging[tx]) /\ fs' = PutStaging(fs, tx, Torn(fs.staging[tx]))
    BY <1>16 DEF Cleanup, Mutate, Look
  <2>. QED
    BY <1>0, <1>a, <1>b, <1>c, <2>1
<1>17. CASE (\E p \in Plans : Call(p)) \/ SyncRecovery \/ BeginJournal
            \/ SyncJournal \/ SyncRename \/ Kill \/ PowerLoss \/ UNCHANGED vars
  <2>1. fs' \in disk
    BY <1>0, <1>17 DEF Call, SyncRecovery, BeginJournal, SyncJournal, SyncRename,
       Kill, PowerLoss, ReplaceFails, Look, vars
  <2>. QED
    BY <1>1, <2>1
<1>. QED
  BY <1>2, <1>3, <1>4, <1>5, <1>6, <1>7, <1>8, <1>9, <1>10, <1>11, <1>12, <1>13,
     <1>14, <1>15, <1>16, <1>17
  DEF Next, Recover, Replace

LEMMA InitBacked == Init => DiskBacked
BY DEF Init, DiskBacked, Backed, Present

\* Whatever fails and whenever the process or the power does: a backup that a
\* failed removal left behind, and that no journal names, is not the last tree;
\* there is an output, or recovery restores one.
THEOREM ForgottenIsSpare == Spec => []ForgottenBackupsAreSpare
<1>1. DiskBacked => ForgottenBackupsAreSpare
  BY DEF DiskBacked, Backed, ForgottenBackupsAreSpare, Forgotten
<1>. QED
  BY <1>1, InitBacked, BackedStep, Inductive, PTL DEF Spec

=============================================================================
