----------------------------- MODULE PinnedProofs -----------------------------
(***************************************************************************)
(* For any number of builders, plans, failures, kills and power losses:    *)
(* the output root never holds a partial tree, and once the directory has  *)
(* a complete tree it always has one.  Neither follows from a builder's    *)
(* own steps alone.  The strengthening says what a builder knows of the    *)
(* trees that carry its suffix, which no other builder touches, and that   *)
(* builders which remove their backups leave a complete tree elsewhere.    *)
(*                                                                         *)
(* For any names, contents and plans: a build that reports success leaves  *)
(* exactly the plan's tree, and a check names exactly what differs.  The   *)
(* strengthening says that output roots are trees; the lemmas, that a      *)
(* valid plan has no file in another's way and that only its tree has no   *)
(* drift.                                                                  *)
(***************************************************************************)
EXTENDS PinnedOutput, GeneratedOutput, TLAPS

\* From here on a builder has a suffix of its own.
Held == {"fill", "lstat", "moveOld", "install", "rollback", "forget", "sync", "cleanup"}

Typed ==
    /\ fs \in disk /\ disk \subseteq Directories
    /\ pc \in [Builders -> Labels]
    /\ plan \in [Builders -> Plans]
    /\ tx \in [Builders -> Tx]
    /\ hadOld \in [Builders -> BOOLEAN]
    /\ used \subseteq Tx

OwnSuffix ==
    \A b \in Builders : pc[b] \in Held =>
        /\ tx[b] \in used
        /\ \A c \in Builders : c # b /\ pc[c] \in Held => tx[c] # tx[b]

\* A complete tree as a backup.
Whole(t) == Present(fs.backup[t]) /\ fs.backup[t].whole

Knows(b) ==
    /\ pc[b] \in {"lstat", "moveOld", "install"} => fs.staging[tx[b]] = New(b)
    /\ pc[b] = "install" /\ hadOld[b] => Whole(tx[b])
    /\ pc[b] = "rollback" => Whole(tx[b])
    /\ pc[b] = "forget" => Present(fs.backup[tx[b]])

\* While backups are removed there is a complete tree that nobody removes.
Spared ==
    (\E b \in Builders : pc[b] = "forget") =>
        \/ Present(fs.output)
        \/ \E t \in Tx : Whole(t) /\ \A b \in Builders : pc[b] = "forget" => tx[b] # t

IInv ==
    /\ Typed
    /\ OwnSuffix
    /\ \A b \in Builders : Knows(b)
    /\ Spared
    /\ OutputIsWhole

-----------------------------------------------------------------------------
(* Trees and places *)

LEMMA NewIsTree ==
    ASSUME Typed, NEW b \in Builders
    PROVE  New(b) \in Trees /\ New(b).whole /\ Present(New(b)) /\ Torn(New(b)) \in Trees
  BY PlanAssumption DEF Typed, New, Trees, Present, NoTree, Torn

LEMMA TornIsTree ==
    ASSUME NEW tree \in Trees \cup {NoTree} PROVE Present(tree) => Torn(tree) \in Trees
  BY DEF Trees, NoTree, Torn, Present

LEMMA PutOutputOnly ==
    ASSUME NEW d \in Directories, NEW tree \in Trees \cup {NoTree}
    PROVE  /\ PutOutput(d, tree) \in Directories
           /\ PutOutput(d, tree).output = tree
           /\ PutOutput(d, tree).staging = d.staging
           /\ PutOutput(d, tree).backup = d.backup
  BY DEF Directories, PutOutput

LEMMA PutStagingOnly ==
    ASSUME NEW d \in Directories, NEW t \in Tx, NEW tree \in Trees \cup {NoTree}
    PROVE  /\ PutStaging(d, t, tree) \in Directories
           /\ PutStaging(d, t, tree).output = d.output
           /\ PutStaging(d, t, tree).staging[t] = tree
           /\ \A s \in Tx : s # t => PutStaging(d, t, tree).staging[s] = d.staging[s]
           /\ PutStaging(d, t, tree).backup = d.backup
  BY DEF Directories, PutStaging

LEMMA PutBackupOnly ==
    ASSUME NEW d \in Directories, NEW t \in Tx, NEW tree \in Trees \cup {NoTree}
    PROVE  /\ PutBackup(d, t, tree) \in Directories
           /\ PutBackup(d, t, tree).output = d.output
           /\ PutBackup(d, t, tree).staging = d.staging
           /\ PutBackup(d, t, tree).backup[t] = tree
           /\ \A s \in Tx : s # t => PutBackup(d, t, tree).backup[s] = d.backup[s]
  BY DEF Directories, PutBackup

-----------------------------------------------------------------------------
(* The step of one builder, as the others see it *)

\* What every step of b leaves alone: the other builders and the trees that do
\* not carry its suffix.
Frame(b) ==
    /\ \A c \in Builders \ {b} : pc'[c] = pc[c] /\ tx'[c] = tx[c] /\ plan'[c] = plan[c] /\ hadOld'[c] = hadOld[c]
    /\ \A t \in Tx : t # tx'[b] \/ (pc[b] \notin Held /\ pc'[b] \notin Held) =>
         fs'.staging[t] = fs.staging[t] /\ fs'.backup[t] = fs.backup[t]

\* A suffix is kept, or drawn afresh.
Suffix(b) ==
    \/ tx'[b] = tx[b] /\ used' = used /\ (pc'[b] \in Held => pc[b] \in Held)
    \/ tx'[b] \in Tx \ used /\ used' = used \cup {tx'[b]}

\* What may be on the disk: what was there, and what there is now.
OnDisk == fs' \in disk' /\ disk' \subseteq disk \cup {fs'} /\ fs'.output.whole

\* How a step spares a complete tree.
Spares(b) ==
    \/ Present(fs'.output)
    \/ fs'.output = fs.output /\ (\A t \in Tx : fs'.backup[t] = fs.backup[t]) /\ pc'[b] # "forget"
    \/ fs'.output = fs.output /\ pc[b] = "forget" /\ tx'[b] = tx[b]
    \/ pc'[b] = "install" /\ Whole(tx[b])' /\ tx'[b] = tx[b] /\ pc[b] \in Held

LEMMA StepKeeps ==
    ASSUME IInv, NEW b \in Builders, Typed', Frame(b), Suffix(b), OnDisk, Spares(b), Knows(b)'
    PROVE  IInv'
<1> USE DEF IInv
<1>1. ASSUME NEW c \in Builders, c # b, pc[c] \in Held
      PROVE  tx[c] \in used /\ (pc'[b] \in Held => tx[c] # tx'[b])
  BY <1>1 DEF OwnSuffix, Suffix
<1>2. OwnSuffix'
  <2> SUFFICES ASSUME NEW c \in Builders, pc'[c] \in Held
               PROVE  /\ tx'[c] \in used'
                      /\ \A e \in Builders : e # c /\ pc'[e] \in Held => tx'[e] # tx'[c]
    BY DEF OwnSuffix
  <2>1. CASE c = b
    <3>1. tx'[b] \in used'  BY <2>1 DEF Suffix, OwnSuffix
    <3> QED  BY <1>1, <2>1, <3>1 DEF Frame
  <2>2. CASE c # b
    <3>1. pc[c] \in Held /\ tx'[c] = tx[c]  BY <2>2 DEF Frame
    <3>2. tx'[c] \in used'  BY <1>1, <2>2, <3>1 DEF Suffix
    <3>3. ASSUME NEW e \in Builders, e # c, pc'[e] \in Held PROVE tx'[e] # tx'[c]
      <4>1. CASE e = b  BY <1>1, <2>2, <3>1, <3>3, <4>1
      <4>2. CASE e # b  BY <2>2, <3>1, <3>3, <4>2 DEF Frame, OwnSuffix
      <4> QED  BY <4>1, <4>2
    <3> QED  BY <3>2, <3>3
  <2> QED  BY <2>1, <2>2
<1>3. ASSUME NEW c \in Builders, c # b PROVE Knows(c)'
  <2>1. pc'[c] = pc[c] /\ tx'[c] = tx[c] /\ plan'[c] = plan[c] /\ hadOld'[c] = hadOld[c]
    BY <1>3 DEF Frame
  <2>2. CASE pc[c] \notin {"lstat", "moveOld", "install", "rollback", "forget"}
    BY <2>1, <2>2 DEF Knows
  <2>3. CASE pc[c] \in {"lstat", "moveOld", "install", "rollback", "forget"}
    <3>1. pc[c] \in Held  BY <2>3 DEF Held
    <3>2. tx[c] \in Tx  BY DEF Typed
    <3>4. tx[c] # tx'[b] \/ (pc[b] \notin Held /\ pc'[b] \notin Held)
      <4>1. CASE pc[b] \in Held /\ tx'[b] = tx[b]
        BY <1>3, <3>1, <4>1 DEF OwnSuffix
      <4>2. CASE tx'[b] \notin used  BY <1>1, <1>3, <3>1, <4>2
      <4>3. CASE pc'[b] \in Held  BY <1>1, <1>3, <3>1, <4>3
      <4>4. CASE pc[b] \notin Held /\ pc'[b] \notin Held  BY <4>4
      <4> QED  BY <4>1, <4>2, <4>3, <4>4 DEF Suffix
    <3>3. fs'.staging[tx[c]] = fs.staging[tx[c]] /\ fs'.backup[tx[c]] = fs.backup[tx[c]]
      BY <3>2, <3>4 DEF Frame
    <3> QED  BY <2>1, <3>3 DEF Knows, Whole, New
  <2> QED  BY <2>2, <2>3
<1>4. OutputIsWhole'  BY DEF OnDisk, OutputIsWhole
<1>5. Spared'
  <2> SUFFICES ASSUME NEW e \in Builders, pc'[e] = "forget"
               PROVE  \/ Present(fs'.output)
                      \/ \E t \in Tx : Whole(t)' /\ \A c \in Builders : pc'[c] = "forget" => tx'[c] # t
    BY DEF Spared
  <2>1. CASE Present(fs'.output)  BY <2>1
  <2>2. CASE fs'.output = fs.output /\ (\A t \in Tx : fs'.backup[t] = fs.backup[t]) /\ pc'[b] # "forget"
    <3>1. e # b /\ pc[e] = "forget"  BY <2>2 DEF Frame
    <3>2. CASE Present(fs.output)  BY <2>2, <3>2
    <3>3. CASE ~Present(fs.output)
      <4>1. PICK t \in Tx : Whole(t) /\ \A c \in Builders : pc[c] = "forget" => tx[c] # t
        BY <3>1, <3>3 DEF Spared
      <4>2. Whole(t)'  BY <2>2, <4>1 DEF Whole
      <4>3. \A c \in Builders : pc'[c] = "forget" => tx'[c] # t
        BY <2>2, <4>1 DEF Frame
      <4> QED  BY <4>2, <4>3
    <3> QED  BY <3>2, <3>3
  <2>3. CASE fs'.output = fs.output /\ pc[b] = "forget" /\ tx'[b] = tx[b]
    <3>1. CASE Present(fs.output)  BY <2>3, <3>1
    <3>2. CASE ~Present(fs.output)
      <4>1. PICK t \in Tx : Whole(t) /\ \A c \in Builders : pc[c] = "forget" => tx[c] # t
        BY <2>3, <3>2 DEF Spared
      <4>2. Whole(t)'  BY <2>3, <4>1 DEF Whole, Frame
      <4>3. \A c \in Builders : pc'[c] = "forget" => tx'[c] # t
        BY <2>3, <4>1 DEF Frame
      <4> QED  BY <4>2, <4>3
    <3> QED  BY <3>1, <3>2
  <2>4. CASE pc'[b] = "install" /\ Whole(tx[b])' /\ tx'[b] = tx[b] /\ pc[b] \in Held
    <3>1. \A c \in Builders : pc'[c] = "forget" => tx'[c] # tx[b]
      BY <2>4 DEF Frame, OwnSuffix, Held
    <3> QED  BY <2>4, <3>1 DEF Typed
  <2> QED  BY <2>1, <2>2, <2>3, <2>4 DEF Spares
<1> QED  BY <1>2, <1>3, <1>4, <1>5

\* A step that looks at the directory, or changes its own place in its call.
LEMMA LookKeeps ==
    ASSUME IInv, NEW b \in Builders, Look, pc' \in [Builders -> Labels],
           \A c \in Builders \ {b} : pc'[c] = pc[c],
           tx' = tx, plan' \in [Builders -> Plans], hadOld' \in [Builders -> BOOLEAN], used' = used,
           \A c \in Builders \ {b} : plan'[c] = plan[c] /\ hadOld'[c] = hadOld[c],
           pc'[b] \in Held => pc[b] \in Held, pc'[b] # "forget", Knows(b)'
    PROVE  IInv'
<1>1. Typed'  BY DEF Look, IInv, Typed
<1>2. Frame(b)  BY DEF Look, Frame
<1>3. Suffix(b)  BY DEF Suffix
<1>4. OnDisk  BY DEF OnDisk, Look, IInv, Typed, OutputIsWhole
<1>5. Spares(b)  BY DEF Spares, Look
<1> QED  BY <1>1, <1>2, <1>3, <1>4, <1>5, StepKeeps

\* A step that changes the directory where it may.
LEMMA MutateKeeps ==
    ASSUME IInv, NEW b \in Builders, NEW d \in Directories, Mutate(d), d.output.whole,
           pc' \in [Builders -> Labels],
           \A c \in Builders \ {b} : pc'[c] = pc[c],
           UNCHANGED locals, pc[b] \in Held,
           \A t \in Tx \ {tx[b]} : d.staging[t] = fs.staging[t] /\ d.backup[t] = fs.backup[t],
           Spares(b), Knows(b)'
    PROVE  IInv'
<1>1. UNCHANGED <<plan, tx, hadOld, used>>  BY DEF locals
<1>2. fs' = d /\ disk' = disk \cup {d}  BY DEF Mutate
<1>3. Typed'  BY <1>1, <1>2 DEF IInv, Typed
<1>4. Frame(b)  BY <1>1, <1>2 DEF Frame
<1>5. Suffix(b)  BY <1>1 DEF Suffix
<1>6. OnDisk  BY <1>2 DEF OnDisk
<1> QED  BY <1>3, <1>4, <1>5, <1>6, StepKeeps

\* The place of a builder in its call, and nobody else's.
LEMMA GotoOnly ==
    ASSUME Typed, NEW b \in Builders, NEW label \in Labels, Goto(b, label)
    PROVE  /\ pc' \in [Builders -> Labels]
           /\ pc'[b] = label
           /\ \A c \in Builders \ {b} : pc'[c] = pc[c]
  BY DEF Typed, Goto

-----------------------------------------------------------------------------
(* The steps *)

LEMMA CallKeeps ==
    ASSUME IInv, NEW b \in Builders, NEW p \in Plans, Call(b, p) PROVE IInv'
<1>1. Look /\ UNCHANGED <<tx, hadOld, used>> /\ plan' = [plan EXCEPT ![b] = p] /\ Goto(b, "walk")
  BY DEF Call, Look
<1>2. plan' \in [Builders -> Plans] /\ \A c \in Builders \ {b} : plan'[c] = plan[c]
  BY <1>1 DEF IInv, Typed
<1>3. /\ pc' \in [Builders -> Labels] /\ pc'[b] = "walk"
      /\ \A c \in Builders \ {b} : pc'[c] = pc[c]
  BY <1>1, GotoOnly DEF IInv, Labels
<1>4. Knows(b)' /\ "walk" \notin Held  BY <1>3 DEF Knows, Held
<1> QED  BY <1>1, <1>2, <1>3, <1>4, LookKeeps DEF IInv, Typed

\* The steps that only look: they may learn that there is an old output.
LEMMA ObserveKeeps ==
    ASSUME IInv, NEW b \in Builders, Look, UNCHANGED locals,
           NEW label \in Labels \ {"lstat", "moveOld", "install", "forget", "rollback"}, Goto(b, label),
           label \in Held => pc[b] \in Held
    PROVE  IInv'
<1>1. UNCHANGED <<plan, tx, hadOld, used>>  BY DEF locals
<1>2. /\ pc' \in [Builders -> Labels] /\ pc'[b] = label
      /\ \A c \in Builders \ {b} : pc'[c] = pc[c]
  BY GotoOnly DEF IInv
<1>3. Knows(b)'  BY <1>2 DEF Knows
<1> QED  BY <1>1, <1>2, <1>3, LookKeeps DEF IInv, Typed

LEMMA CompareKeeps ==
    ASSUME IInv, NEW b \in Builders, Walk(b) \/ Read(b) PROVE IInv'
<1>1. Look /\ UNCHANGED locals  BY DEF Walk, Read, Succeed
<1>2. \E label \in {"read", "make", "idle"} : Goto(b, label)
  BY DEF Walk, Read, Succeed
<1>3. {"read", "make", "idle"} \subseteq Labels \ {"lstat", "moveOld", "install", "forget", "rollback"}
      /\ {"read", "make", "idle"} \cap Held = {}
  BY DEF Labels, Held
<1> QED  BY <1>1, <1>2, <1>3, ObserveKeeps

LEMMA MakeStagingKeeps ==
    ASSUME IInv, NEW b \in Builders, MakeStaging(b) PROVE IInv'
<1>1. CASE Look /\ Fail(b, "idle")
  BY <1>1, ObserveKeeps DEF Fail, Labels, Held
<1>2. ASSUME NEW t \in Tx \ used,
             tx' = [tx EXCEPT ![b] = t], used' = used \cup {t},
             Mutate(PutStaging(fs, t, Torn(New(b)))), Goto(b, "fill"),
             UNCHANGED <<plan, hadOld, result>>
      PROVE  IInv'
  <2> DEFINE d == PutStaging(fs, t, Torn(New(b)))
  <2>1. fs \in Directories /\ fs.output.whole  BY DEF IInv, Typed, OutputIsWhole
  <2>2. Torn(New(b)) \in Trees  BY NewIsTree DEF IInv
  <2>3. /\ d \in Directories /\ d.output = fs.output /\ d.backup = fs.backup
        /\ \A s \in Tx : s # t => d.staging[s] = fs.staging[s]
    BY <2>1, <2>2, PutStagingOnly
  <2> HIDE DEF d
  <2>4. fs' = d /\ disk' = disk \cup {d}  BY <1>2 DEF Mutate, d
  <2>5. /\ tx' \in [Builders -> Tx] /\ tx'[b] = t
        /\ \A c \in Builders \ {b} : tx'[c] = tx[c]
    BY <1>2 DEF IInv, Typed
  <2>6. /\ pc' \in [Builders -> Labels] /\ pc'[b] = "fill"
        /\ \A c \in Builders \ {b} : pc'[c] = pc[c]
    BY <1>2, GotoOnly DEF IInv, Labels
  <2>7. Typed'  BY <1>2, <2>3, <2>4, <2>5, <2>6 DEF IInv, Typed
  <2>8. Frame(b)
    <3>1. \A c \in Builders \ {b} : plan'[c] = plan[c] /\ hadOld'[c] = hadOld[c]  BY <1>2
    <3>2. \A s \in Tx : s # tx'[b] => fs'.staging[s] = fs.staging[s] /\ fs'.backup[s] = fs.backup[s]
      BY <2>3, <2>4, <2>5
    <3> QED  BY <2>5, <2>6, <3>1, <3>2 DEF Frame, Held
  <2>9. Suffix(b)  BY <1>2, <2>5 DEF Suffix
  <2>10. OnDisk  BY <2>1, <2>3, <2>4 DEF OnDisk
  <2>11. Spares(b)  BY <2>3, <2>4, <2>6 DEF Spares
  <2>12. Knows(b)'  BY <2>6 DEF Knows
  <2> QED  BY <2>7, <2>8, <2>9, <2>10, <2>11, <2>12, StepKeeps
<1> QED  BY <1>1, <1>2 DEF MakeStaging

LEMMA StageFilesKeeps ==
    ASSUME IInv, NEW b \in Builders, StageFiles(b) PROVE IInv'
<1>1. pc[b] = "fill"  BY DEF StageFiles, At
<1>2. CASE Look /\ Fail(b, "cleanup")
  BY <1>1, <1>2, ObserveKeeps DEF Fail, Labels, Held
<1>3. CASE Mutate(PutStaging(fs, tx[b], New(b))) /\ Succeed(b, "lstat")
  <2> DEFINE d == PutStaging(fs, tx[b], New(b))
  <2>1. fs \in Directories /\ fs.output.whole /\ tx[b] \in Tx
    BY DEF IInv, Typed, OutputIsWhole
  <2>2. /\ d \in Directories /\ d.output = fs.output /\ d.backup = fs.backup
        /\ d.staging[tx[b]] = New(b)
        /\ \A s \in Tx : s # tx[b] => d.staging[s] = fs.staging[s]
    BY <2>1, NewIsTree, PutStagingOnly DEF IInv
  <2> HIDE DEF d
  <2>3. Mutate(d) /\ UNCHANGED locals /\ Goto(b, "lstat")
    BY <1>3 DEF d, Succeed
  <2>4. /\ pc' \in [Builders -> Labels] /\ pc'[b] = "lstat"
        /\ \A c \in Builders \ {b} : pc'[c] = pc[c]
    BY <2>3, GotoOnly DEF IInv, Labels
  <2>5. Spares(b)  BY <2>2, <2>3, <2>4 DEF Spares, Mutate
  <2>6. Knows(b)'  BY <2>2, <2>3, <2>4 DEF Knows, Mutate, locals, New
  <2> QED  BY <1>1, <2>1, <2>2, <2>3, <2>4, <2>5, <2>6, MutateKeeps DEF Held
<1> QED  BY <1>2, <1>3 DEF StageFiles

LEMMA LstatKeeps ==
    ASSUME IInv, NEW b \in Builders, Lstat(b) PROVE IInv'
<1>1. pc[b] = "lstat" /\ Look  BY DEF Lstat, At
<1>2. CASE Fail(b, "cleanup")
  BY <1>1, <1>2, ObserveKeeps DEF Fail, Labels, Held
<1>3. ASSUME hadOld' = [hadOld EXCEPT ![b] = Present(fs.output)],
             Goto(b, IF Present(fs.output) THEN "moveOld" ELSE "install"),
             UNCHANGED <<plan, tx, used, result>>
      PROVE  IInv'
  <2>1. PICK label \in {"moveOld", "install"} :
          Goto(b, label) /\ (label = "install" => ~Present(fs.output))
    BY <1>3
  <2>2. /\ pc' \in [Builders -> Labels] /\ pc'[b] = label
        /\ \A c \in Builders \ {b} : pc'[c] = pc[c]
    BY <2>1, GotoOnly DEF IInv, Labels
  <2>3. Present(fs.output) \in BOOLEAN  BY DEF Present
  <2>4. hadOld' \in [Builders -> BOOLEAN] /\ \A c \in Builders \ {b} : hadOld'[c] = hadOld[c]
    BY <1>3, <2>3 DEF IInv, Typed
  <2>5. hadOld'[b] = Present(fs.output)  BY <1>3 DEF IInv, Typed
  <2>6. fs.staging[tx[b]] = New(b)  BY <1>1 DEF IInv, Knows
  <2>7. fs' = fs /\ New(b)' = New(b)  BY <1>1, <1>3 DEF Look, New
  <2>8. label = "install" => ~hadOld'[b]  BY <2>1, <2>5
  <2>9. Knows(b)'  BY <1>3, <2>1, <2>2, <2>6, <2>7, <2>8 DEF Knows
  <2> QED  BY <1>1, <1>3, <2>1, <2>2, <2>4, <2>9, LookKeeps DEF IInv, Typed, Held
<1> QED  BY <1>2, <1>3 DEF Lstat

\* The old output is complete, and stays so as a backup.
LEMMA MoveOldKeeps ==
    ASSUME IInv, NEW b \in Builders, MoveOld(b) PROVE IInv'
<1>1. pc[b] = "moveOld"  BY DEF MoveOld, At
<1>2. CASE Look /\ Fail(b, "cleanup")
  BY <1>1, <1>2, ObserveKeeps DEF Fail, Labels, Held
<1>3. CASE Present(fs.output) /\ Mutate(PutOutput(PutBackup(fs, tx[b], fs.output), NoTree))
           /\ Succeed(b, "install")
  <2> DEFINE e == PutBackup(fs, tx[b], fs.output)
             d == PutOutput(e, NoTree)
  <2>1. fs \in Directories /\ fs.output.whole /\ tx[b] \in Tx /\ fs.output \in Trees \cup {NoTree}
    BY DEF IInv, Typed, OutputIsWhole, Directories
  <2>2. /\ e \in Directories /\ e.staging = fs.staging
        /\ e.backup[tx[b]] = fs.output
        /\ \A s \in Tx : s # tx[b] => e.backup[s] = fs.backup[s]
    BY <2>1, PutBackupOnly
  <2> HIDE DEF e
  <2>3. d \in Directories /\ d.output = NoTree /\ d.staging = e.staging /\ d.backup = e.backup
    BY <2>2, PutOutputOnly
  <2> HIDE DEF d
  <2>4. Mutate(d) /\ UNCHANGED locals /\ Goto(b, "install")
    BY <1>3 DEF d, e, Succeed
  <2>5. /\ pc' \in [Builders -> Labels] /\ pc'[b] = "install"
        /\ \A c \in Builders \ {b} : pc'[c] = pc[c]
    BY <2>4, GotoOnly DEF IInv, Labels
  <2>6. fs' = d /\ UNCHANGED <<plan, tx, hadOld, used>>  BY <2>4 DEF Mutate, locals
  <2>7. Whole(tx[b])'  BY <1>3, <2>1, <2>2, <2>3, <2>6 DEF Whole
  <2>8. Spares(b)  BY <1>1, <2>5, <2>6, <2>7 DEF Spares, Held
  <2>9. fs'.staging[tx[b]] = New(b)  BY <1>1, <2>2, <2>3, <2>6 DEF IInv, Knows
  <2>10. Knows(b)'  BY <2>5, <2>6, <2>7, <2>9 DEF Knows, New
  <2>11. d.output.whole  BY <2>3 DEF NoTree
  <2> QED  BY <1>1, <2>2, <2>3, <2>4, <2>5, <2>8, <2>10, <2>11, MutateKeeps DEF Held
<1> QED  BY <1>2, <1>3 DEF MoveOld

LEMMA InstallKeeps ==
    ASSUME IInv, NEW b \in Builders, Install(b) PROVE IInv'
<1>1. pc[b] = "install"  BY DEF Install, At
<1>2. CASE Look /\ Fail(b, IF hadOld[b] THEN "rollback" ELSE "cleanup")
  <2>1. CASE ~hadOld[b]
    BY <1>1, <1>2, <2>1, ObserveKeeps DEF Fail, Labels, Held
  <2>2. CASE hadOld[b]
    <3>1. Goto(b, "rollback") /\ Look /\ UNCHANGED <<plan, tx, hadOld, used>>
      BY <1>2, <2>2 DEF Fail, locals
    <3>2. /\ pc' \in [Builders -> Labels] /\ pc'[b] = "rollback"
          /\ \A c \in Builders \ {b} : pc'[c] = pc[c]
      BY <3>1, GotoOnly DEF IInv, Labels
    <3>3. Whole(tx[b])  BY <1>1, <2>2 DEF IInv, Knows
    <3>4. Knows(b)'  BY <3>1, <3>2, <3>3 DEF Knows, Whole, Look
    <3> QED  BY <1>1, <3>1, <3>2, <3>4, LookKeeps DEF IInv, Typed, Held
  <2> QED  BY <2>1, <2>2
<1>3. CASE Mutate(PutOutput(PutStaging(fs, tx[b], NoTree), fs.staging[tx[b]]))
           /\ Succeed(b, IF hadOld[b] THEN "forget" ELSE "sync")
  <2> DEFINE e == PutStaging(fs, tx[b], NoTree)
             d == PutOutput(e, fs.staging[tx[b]])
  <2>1. fs \in Directories /\ tx[b] \in Tx /\ fs.staging[tx[b]] = New(b)
    BY <1>1 DEF IInv, Typed, Knows
  <2>2. New(b) \in Trees /\ New(b).whole /\ Present(New(b))  BY NewIsTree DEF IInv
  <2>3. /\ e \in Directories /\ e.backup = fs.backup
        /\ \A s \in Tx : s # tx[b] => e.staging[s] = fs.staging[s]
    BY <2>1, PutStagingOnly
  <2> HIDE DEF e
  <2>4. d \in Directories /\ d.output = New(b) /\ d.staging = e.staging /\ d.backup = e.backup
    BY <2>1, <2>2, <2>3, PutOutputOnly
  <2> HIDE DEF d
  <2>5. PICK label \in {"forget", "sync"} : Goto(b, label)
    BY <1>3 DEF Succeed
  <2>6. Mutate(d) /\ UNCHANGED locals  BY <1>3 DEF d, e, Succeed
  <2>7. /\ pc' \in [Builders -> Labels] /\ pc'[b] = label
        /\ \A c \in Builders \ {b} : pc'[c] = pc[c]
    BY <2>5, GotoOnly DEF IInv, Labels
  <2>8. Spares(b)  BY <2>2, <2>4, <2>6 DEF Spares, Mutate
  <2>9. label = "forget" => Present(fs.backup[tx[b]])
    <3>1. CASE hadOld[b]  BY <1>1, <3>1 DEF IInv, Knows, Whole
    <3>2. CASE ~hadOld[b]
      <4>1. pc'[b] = "sync"  BY <1>3, <3>2, GotoOnly DEF Succeed, IInv, Labels
      <4> QED  BY <2>7, <4>1
    <3> QED  BY <3>1, <3>2
  <2>10. Knows(b)'  BY <2>3, <2>4, <2>6, <2>7, <2>9 DEF Knows, Mutate, locals
  <2> QED  BY <1>1, <2>2, <2>3, <2>4, <2>6, <2>7, <2>8, <2>10, MutateKeeps DEF Held
<1> QED  BY <1>2, <1>3 DEF Install

LEMMA RollbackKeeps ==
    ASSUME IInv, NEW b \in Builders, Rollback(b) PROVE IInv'
<1>1. pc[b] = "rollback"  BY DEF Rollback, At
<1>2. CASE Look /\ Goto(b, "cleanup") /\ UNCHANGED <<result, locals>>
  BY <1>1, <1>2, ObserveKeeps DEF Labels, Held
<1>3. CASE Mutate(PutOutput(PutBackup(fs, tx[b], NoTree), fs.backup[tx[b]])) /\ Succeed(b, "cleanup")
  <2> DEFINE e == PutBackup(fs, tx[b], NoTree)
             d == PutOutput(e, fs.backup[tx[b]])
  <2>1. fs \in Directories /\ tx[b] \in Tx /\ Whole(tx[b])
    BY <1>1 DEF IInv, Typed, Knows
  <2>2. fs.backup[tx[b]] \in Trees \cup {NoTree}  BY <2>1 DEF Directories
  <2>3. /\ e \in Directories /\ e.staging = fs.staging
        /\ \A s \in Tx : s # tx[b] => e.backup[s] = fs.backup[s]
    BY <2>1, PutBackupOnly
  <2> HIDE DEF e
  <2>4. d \in Directories /\ d.output = fs.backup[tx[b]] /\ d.staging = e.staging /\ d.backup = e.backup
    BY <2>2, <2>3, PutOutputOnly
  <2> HIDE DEF d
  <2>5. Mutate(d) /\ UNCHANGED locals /\ Goto(b, "cleanup")
    BY <1>3 DEF d, e, Succeed
  <2>6. /\ pc' \in [Builders -> Labels] /\ pc'[b] = "cleanup"
        /\ \A c \in Builders \ {b} : pc'[c] = pc[c]
    BY <2>5, GotoOnly DEF IInv, Labels
  <2>7. Spares(b)  BY <2>1, <2>4, <2>5 DEF Spares, Mutate, Whole
  <2>8. Knows(b)'  BY <2>6 DEF Knows
  <2>9. d.output.whole  BY <2>1, <2>4 DEF Whole
  <2> QED  BY <1>1, <2>3, <2>4, <2>5, <2>6, <2>7, <2>8, <2>9, MutateKeeps DEF Held
<1> QED  BY <1>2, <1>3 DEF Rollback

\* Whatever becomes of the backup, Spared names a complete tree elsewhere.
LEMMA ForgetOldKeeps ==
    ASSUME IInv, NEW b \in Builders, ForgetOld(b) PROVE IInv'
<1>1. pc[b] = "forget"  BY DEF ForgetOld, At
<1>2. CASE Look /\ Goto(b, "sync") /\ UNCHANGED <<result, locals>>
  BY <1>1, <1>2, ObserveKeeps DEF Labels, Held
<1>3. ASSUME NEW tree \in Trees \cup {NoTree}, NEW label \in {"forget", "sync"},
             label = "forget" => Present(tree),
             Mutate(PutBackup(fs, tx[b], tree)), Succeed(b, label)
      PROVE  IInv'
  <2> DEFINE d == PutBackup(fs, tx[b], tree)
  <2>1. fs \in Directories /\ tx[b] \in Tx /\ fs.output.whole
    BY DEF IInv, Typed, OutputIsWhole
  <2>2. /\ d \in Directories /\ d.output = fs.output /\ d.staging = fs.staging
        /\ d.backup[tx[b]] = tree
        /\ \A s \in Tx : s # tx[b] => d.backup[s] = fs.backup[s]
    BY <2>1, PutBackupOnly
  <2> HIDE DEF d
  <2>3. Mutate(d) /\ UNCHANGED locals /\ Goto(b, label)
    BY <1>3 DEF d, Succeed
  <2>4. /\ pc' \in [Builders -> Labels] /\ pc'[b] = label
        /\ \A c \in Builders \ {b} : pc'[c] = pc[c]
    BY <2>3, GotoOnly DEF IInv, Labels
  <2>5. Spares(b)  BY <1>1, <2>2, <2>3 DEF Spares, Mutate, locals
  <2>6. Knows(b)'  BY <1>3, <2>2, <2>3, <2>4 DEF Knows, Mutate, locals
  <2> QED  BY <1>1, <2>1, <2>2, <2>3, <2>4, <2>5, <2>6, MutateKeeps DEF Held
<1>4. fs.backup[tx[b]] \in Trees \cup {NoTree}
  BY DEF IInv, Typed, Directories
<1>5. CASE Mutate(PutBackup(fs, tx[b], NoTree)) /\ Succeed(b, "sync")
  BY <1>3, <1>5
<1>6. CASE Mutate(PutBackup(fs, tx[b], Torn(fs.backup[tx[b]]))) /\ Succeed(b, "forget")
  <2>1. Present(fs.backup[tx[b]])  BY <1>1 DEF IInv, Knows
  <2>2. Torn(fs.backup[tx[b]]) \in Trees  BY <1>4, <2>1, TornIsTree
  <2>3. Present(Torn(fs.backup[tx[b]]))  BY <2>2, PlanAssumption DEF Trees, Present, NoTree
  <2> QED  BY <1>3, <1>6, <2>2, <2>3
<1> QED  BY <1>2, <1>5, <1>6 DEF ForgetOld

\* A sync leaves on the disk what there is.
LEMMA SyncKeeps ==
    ASSUME IInv, NEW b \in Builders, Sync(b) PROVE IInv'
<1>1. pc[b] = "sync"  BY DEF Sync, At
<1>2. CASE Look /\ Fail(b, "cleanup")
  BY <1>1, <1>2, ObserveKeeps DEF Fail, Labels, Held
<1>3. CASE disk' = {fs} /\ UNCHANGED <<fs, locals>> /\ Goto(b, "cleanup")
  <2>1. fs' = fs /\ UNCHANGED <<plan, tx, hadOld, used>>  BY <1>3 DEF locals
  <2>2. /\ pc' \in [Builders -> Labels] /\ pc'[b] = "cleanup"
        /\ \A c \in Builders \ {b} : pc'[c] = pc[c]
    BY <1>3, GotoOnly DEF IInv, Labels
  <2>3. Typed'  BY <1>3, <2>1, <2>2 DEF IInv, Typed
  <2>4. Frame(b)  BY <2>1, <2>2 DEF Frame
  <2>5. Suffix(b)  BY <1>1, <2>1 DEF Suffix, Held
  <2>6. OnDisk  BY <1>3, <2>1 DEF OnDisk, IInv, Typed, OutputIsWhole
  <2>7. Spares(b)  BY <2>1, <2>2 DEF Spares
  <2>8. Knows(b)'  BY <2>2 DEF Knows
  <2> QED  BY <2>3, <2>4, <2>5, <2>6, <2>7, <2>8, StepKeeps
<1> QED  BY <1>2, <1>3 DEF Sync

LEMMA CleanupKeeps ==
    ASSUME IInv, NEW b \in Builders, Cleanup(b) PROVE IInv'
<1>1. pc[b] = "cleanup"  BY DEF Cleanup, At
<1>2. CASE Look /\ Goto(b, "idle") /\ UNCHANGED <<result, locals>>
  BY <1>1, <1>2, ObserveKeeps DEF Labels, Held
<1>3. ASSUME NEW tree \in Trees \cup {NoTree}, NEW label \in {"cleanup", "idle"},
             Mutate(PutStaging(fs, tx[b], tree)), Succeed(b, label)
      PROVE  IInv'
  <2> DEFINE d == PutStaging(fs, tx[b], tree)
  <2>1. fs \in Directories /\ tx[b] \in Tx /\ fs.output.whole
    BY DEF IInv, Typed, OutputIsWhole
  <2>2. /\ d \in Directories /\ d.output = fs.output /\ d.backup = fs.backup
        /\ \A s \in Tx : s # tx[b] => d.staging[s] = fs.staging[s]
    BY <2>1, PutStagingOnly
  <2> HIDE DEF d
  <2>3. Mutate(d) /\ UNCHANGED locals /\ Goto(b, label)
    BY <1>3 DEF d, Succeed
  <2>4. /\ pc' \in [Builders -> Labels] /\ pc'[b] = label
        /\ \A c \in Builders \ {b} : pc'[c] = pc[c]
    BY <2>3, GotoOnly DEF IInv, Labels
  <2>5. Spares(b)  BY <2>2, <2>3, <2>4 DEF Spares, Mutate
  <2>6. Knows(b)'  BY <2>4 DEF Knows
  <2> QED  BY <1>1, <2>1, <2>2, <2>3, <2>4, <2>5, <2>6, MutateKeeps DEF Held
<1>4. fs.staging[tx[b]] \in Trees \cup {NoTree}
  BY DEF IInv, Typed, Directories
<1>5. CASE Mutate(PutStaging(fs, tx[b], NoTree)) /\ Succeed(b, "idle")
  BY <1>3, <1>5
<1>6. CASE Present(fs.staging[tx[b]]) /\ Mutate(PutStaging(fs, tx[b], Torn(fs.staging[tx[b]])))
           /\ Succeed(b, "cleanup")
  BY <1>3, <1>4, <1>6, TornIsTree
<1> QED  BY <1>2, <1>5, <1>6 DEF Cleanup

LEMMA KillKeeps ==
    ASSUME IInv, NEW b \in Builders, Kill(b) PROVE IInv'
  BY ObserveKeeps DEF Kill, Labels, Held

\* Nobody is in a call, and what is left was on the disk.
LEMMA PowerLossKeeps ==
    ASSUME IInv, PowerLoss PROVE IInv'
<1>1. fs' \in disk /\ disk' = {fs'} /\ UNCHANGED <<plan, tx, hadOld, used>>
  BY DEF PowerLoss, locals
<1>2. \A b \in Builders : pc'[b] = "idle"  BY DEF PowerLoss
<1>3. Typed'
  <2>1. pc' \in [Builders -> Labels]  BY DEF PowerLoss, Labels
  <2> QED  BY <1>1, <2>1 DEF IInv, Typed
<1>4. OwnSuffix'  BY <1>2 DEF OwnSuffix, Held
<1>5. \A b \in Builders : Knows(b)'  BY <1>2 DEF Knows
<1>6. Spared'  BY <1>2 DEF Spared
<1>7. OutputIsWhole'  BY <1>1 DEF IInv, OutputIsWhole
<1> QED  BY <1>3, <1>4, <1>5, <1>6, <1>7 DEF IInv

LEMMA StutterKeeps ==
    ASSUME IInv, UNCHANGED vars PROVE IInv'
<1>1. UNCHANGED <<fs, disk, pc, plan, tx, hadOld, used>>  BY DEF vars
<1>2. Typed'  BY <1>1 DEF IInv, Typed
<1>3. OwnSuffix'  BY <1>1 DEF IInv, OwnSuffix
<1>4. \A b \in Builders : Knows(b)'  BY <1>1 DEF IInv, Knows, Whole, New
<1>5. Spared'  BY <1>1 DEF IInv, Spared, Whole
<1>6. OutputIsWhole'  BY <1>1 DEF IInv, OutputIsWhole
<1> QED  BY <1>2, <1>3, <1>4, <1>5, <1>6 DEF IInv

LEMMA NextKeeps ==
    ASSUME IInv, [Next]_vars PROVE IInv'
<1>1. CASE UNCHANGED vars  BY <1>1, StutterKeeps
<1>2. CASE PowerLoss  BY <1>2, PowerLossKeeps
<1>3. ASSUME NEW b \in Builders, (\E p \in Plans : Call(b, p)) \/ Step(b) \/ Kill(b)
      PROVE  IInv'
  BY <1>3, CallKeeps, CompareKeeps, MakeStagingKeeps, StageFilesKeeps, LstatKeeps,
     MoveOldKeeps, InstallKeeps, RollbackKeeps, ForgetOldKeeps, SyncKeeps,
     CleanupKeeps, KillKeeps DEF Step
<1> QED  BY <1>1, <1>2, <1>3 DEF Next

LEMMA InitHolds == Init => IInv
<1> SUFFICES ASSUME Init PROVE IInv
  OBVIOUS
<1>1. fs \in Directories /\ disk = {fs} /\ used = {}  BY DEF Init
<1>2. fs.output.whole
  <2>1. fs.output \in [plan : Plans, whole : {TRUE}] \cup {NoTree}  BY DEF Init
  <2>2. CASE fs.output = NoTree  BY <2>2 DEF NoTree
  <2>3. ASSUME NEW tree \in [plan : Plans, whole : {TRUE}] PROVE tree.whole
    <3>1. tree.whole \in {TRUE}  OBVIOUS
    <3> QED  BY <3>1
  <2> QED  BY <2>1, <2>2, <2>3
<1>3. \A b \in Builders : pc[b] = "idle"  BY DEF Init
<1>4. Typed
  <2>1. pc \in [Builders -> Labels]  BY DEF Init, Labels
  <2>2. plan \in [Builders -> Plans]  BY DEF Init
  <2>3. tx \in [Builders -> Tx]  BY DEF Init
  <2>4. hadOld \in [Builders -> BOOLEAN]  BY DEF Init
  <2> QED  BY <1>1, <2>1, <2>2, <2>3, <2>4 DEF Typed
<1>5. OwnSuffix  BY <1>3 DEF OwnSuffix, Held
<1>6. \A b \in Builders : Knows(b)  BY <1>3 DEF Knows
<1>7. Spared  BY <1>3 DEF Spared
<1>8. OutputIsWhole  BY <1>1, <1>2 DEF OutputIsWhole
<1> QED  BY <1>4, <1>5, <1>6, <1>7, <1>8 DEF IInv

-----------------------------------------------------------------------------
(* The theorems *)

\* What builders know of their trees, and what they spare, always holds.
THEOREM PinnedInvariant == Spec => []IInv
  BY InitHolds, NextKeeps, PTL DEF Spec

\* However builders of write.ReplaceOutputInRoot interleave, fail, are killed
\* or lose power, the output root never holds a partial tree.
THEOREM PinnedOutputWhole == Spec => []OutputIsWhole
<1>1. IInv => OutputIsWhole  BY DEF IInv
<1> QED  BY <1>1, PinnedInvariant, PTL

\* Every step that changes the directory leaves a complete tree in it.
LEMMA StepSpares ==
    ASSUME IInv, NEW b \in Builders, Step(b), fs' # fs, Complete(fs) PROVE Complete(fs')
<1> USE DEF IInv
<1>1. fs \in Directories /\ tx[b] \in Tx /\ fs.output \in Trees \cup {NoTree}
      /\ fs.backup[tx[b]] \in Trees \cup {NoTree} /\ fs.staging[tx[b]] \in Trees \cup {NoTree}
  BY DEF Typed, Directories
<1>2. ASSUME NEW t \in Tx, NEW tree \in Trees \cup {NoTree}, fs' = PutStaging(fs, t, tree)
      PROVE  Complete(fs')
  <2> DEFINE e == PutStaging(fs, t, tree)
  <2>0. e.output = fs.output /\ e.backup = fs.backup
    <3>1. fs \in Directories  BY <1>1
    <3> QED  BY ONLY <3>1, <1>2, PutStagingOnly
  <2>1. fs'.output = fs.output /\ fs'.backup = fs.backup  BY ONLY <1>2, <2>0
  <2> QED  BY <2>1 DEF Complete
<1>3. CASE MakeStaging(b) \/ StageFiles(b)
  BY <1>2, <1>3, NewIsTree DEF MakeStaging, StageFiles, Mutate, Look, Typed
<1>4. CASE Cleanup(b)
  <2>1. CASE fs' = PutStaging(fs, tx[b], NoTree)  BY <1>1, <1>2, <2>1
  <2>2. CASE Present(fs.staging[tx[b]]) /\ fs' = PutStaging(fs, tx[b], Torn(fs.staging[tx[b]]))
    BY <1>1, <1>2, <2>2, TornIsTree
  <2> QED  BY <1>4, <2>1, <2>2 DEF Cleanup, Mutate, Look
<1>5. CASE MoveOld(b)
  <2> DEFINE e == PutBackup(fs, tx[b], fs.output)
  <2>1. Present(fs.output) /\ fs' = PutOutput(e, NoTree)  BY <1>5 DEF MoveOld, Mutate, Look
  <2>2. e \in Directories /\ e.backup[tx[b]] = fs.output  BY <1>1, PutBackupOnly
  <2>3. fs'.backup = e.backup  BY <2>1, <2>2, PutOutputOnly
  <2>4. fs.output.whole  BY DEF Typed, OutputIsWhole
  <2> QED  BY <1>1, <2>1, <2>2, <2>3, <2>4 DEF Complete
<1>6. CASE Install(b)
  <2> DEFINE e == PutStaging(fs, tx[b], NoTree)
  <2>1. fs' = PutOutput(e, fs.staging[tx[b]]) /\ pc[b] = "install"
    BY <1>6 DEF Install, Mutate, Look, At
  <2>2. e \in Directories  BY <1>1, PutStagingOnly
  <2>3. fs'.output = fs.staging[tx[b]]  BY <1>1, <2>1, <2>2, PutOutputOnly
  <2>4. fs.staging[tx[b]] = New(b)  BY <2>1 DEF Knows
  <2> QED  BY <2>3, <2>4, NewIsTree DEF Complete
<1>7. CASE Rollback(b)
  <2> DEFINE e == PutBackup(fs, tx[b], NoTree)
  <2>1. fs' = PutOutput(e, fs.backup[tx[b]]) /\ pc[b] = "rollback"
    BY <1>7 DEF Rollback, Mutate, Look, At
  <2>2. e \in Directories  BY <1>1, PutBackupOnly
  <2>3. fs'.output = fs.backup[tx[b]]  BY <1>1, <2>1, <2>2, PutOutputOnly
  <2> QED  BY <2>1, <2>3 DEF Complete, Knows, Whole
<1>8. CASE ForgetOld(b)
  <2>1. pc[b] = "forget"  BY <1>8 DEF ForgetOld, At
  <2>2. PICK tree \in Trees \cup {NoTree} : fs' = PutBackup(fs, tx[b], tree)
    <3>1. Torn(fs.backup[tx[b]]) \in Trees  BY <1>1, <2>1, TornIsTree DEF Knows
    <3> QED  BY <1>8, <3>1 DEF ForgetOld, Mutate, Look
  <2>3. fs'.output = fs.output /\ \A s \in Tx : s # tx[b] => fs'.backup[s] = fs.backup[s]
    <3> DEFINE e == PutBackup(fs, tx[b], tree)
    <3>1. fs' = e  BY <2>2
    <3>2. fs \in Directories /\ tx[b] \in Tx  BY <1>1
    <3>3. e.output = fs.output /\ \A s \in Tx : s # tx[b] => e.backup[s] = fs.backup[s]
      BY ONLY <2>2, <3>2, PutBackupOnly
    <3> HIDE DEF e
    <3> QED  BY ONLY <3>1, <3>3
  <2>4. CASE Present(fs.output)  BY <2>3, <2>4 DEF Complete
  <2>5. CASE ~Present(fs.output)
    <3>1. PICK t \in Tx : Whole(t) /\ tx[b] # t  BY <2>1, <2>5 DEF Spared
    <3> QED  BY <2>3, <3>1 DEF Complete, Whole
  <2> QED  BY <2>4, <2>5
<1>9. CASE Walk(b) \/ Read(b) \/ Lstat(b) \/ Sync(b)
  BY <1>9 DEF Walk, Read, Lstat, Sync, Look
<1> QED  BY <1>3, <1>4, <1>5, <1>6, <1>7, <1>8, <1>9 DEF Step

\* Once the directory has a complete output tree, no step of any builder, no
\* kill and no power loss takes the last one: setting the old output aside in
\* write.ReplaceOutputInRoot always leaves a way back.
THEOREM TreeSurvives == Spec => CompleteTreeSurvives
<1>1. ASSUME IInv, [Next]_vars, \A d \in disk : Complete(d)
      PROVE  \A d \in disk' : Complete(d)
  <2>1. fs \in disk  BY <1>1 DEF IInv, Typed
  <2>2. CASE disk' \subseteq disk  BY <1>1, <2>2
  <2>3. ASSUME NEW b \in Builders, Step(b) PROVE disk' \subseteq disk \/ (fs' # fs /\ disk' = disk \cup {fs'})
    <3>1. disk' \subseteq disk \/ disk' = disk \cup {fs'}
      BY <2>1, <2>3 DEF Step, Walk, Read, MakeStaging, StageFiles, Lstat, MoveOld, Install,
         Rollback, ForgetOld, Sync, Cleanup, Mutate, Look
    <3> QED  BY <2>1, <3>1
  <2>4. ASSUME NEW b \in Builders, Step(b) PROVE \A d \in disk' : Complete(d)
    BY <1>1, <2>1, <2>3, <2>4, StepSpares
  <2>5. CASE UNCHANGED vars \/ PowerLoss  BY <2>2, <2>5 DEF vars, PowerLoss
  <2>6. ASSUME NEW b \in Builders, (\E p \in Plans : Call(b, p)) \/ Kill(b)
        PROVE  disk' \subseteq disk
    BY <2>6 DEF Call, Kill, Look
  <2> QED  BY <1>1, <2>2, <2>4, <2>5, <2>6 DEF Next
<1>2. IInv /\ [Next]_vars =>
        [(\A d \in disk : Complete(d)) => \A d \in disk' : Complete(d)]_vars
  BY <1>1
<1> QED  BY <1>2, PinnedInvariant, PTL DEF Spec, CompleteTreeSurvives

-----------------------------------------------------------------------------
(* What artifact.Write and artifact.Compare conclude from a comparison.      *)

\* What a walk of the output root finds: entries, each in a directory.
OutputTrees == {t \in UNION {[D -> Nodes] : D \in SUBSET Paths} : IsTree(t)}

Roots == {Missing, NotADirectory} \cup {Tree(t) : t \in OutputTrees}

Plan(files) == files \in Seq(PlannedFiles) /\ files # <<>>

\* A path is a sequence of names, bounded in length.
LEMMA PathParts ==
    ASSUME NEW p \in Paths
    PROVE  /\ Len(p) \in 1 .. Depth
           /\ p \in Seq(Names)
           /\ DOMAIN p = 1 .. Len(p)
<1>1. PICK n \in 1 .. Depth : p \in [1 .. n -> Names]
  BY DEF Paths
<1>2. n \in Nat
  BY <1>1, DepthAssumption
<1>3. p \in Seq(Names)
  BY <1>1, <1>2
<1>4. Len(p) = n
  BY <1>1, <1>2, <1>3
<1> QED BY <1>1, <1>3, <1>4

\* The ancestors of a path are paths, shorter ones, and have its ancestors only.
LEMMA AncestorsArePaths ==
    ASSUME NEW p \in Paths, NEW a \in Ancestors(p)
    PROVE  a \in Paths /\ Len(a) < Len(p) /\ Ancestors(a) \subseteq Ancestors(p)
<1>1. p \in Seq(Names) /\ Len(p) \in 1 .. Depth /\ Len(p) \in Nat /\ Depth \in Nat
  BY PathParts, DepthAssumption
<1>2. PICK n \in 1 .. Len(p) - 1 : a = SubSeq(p, 1, n)
  BY DEF Ancestors
<1>3. a \in Seq(Names) /\ Len(a) = n /\ a = [i \in 1 .. n |-> p[i]]
  BY <1>1, <1>2
<1>4. a \in [1 .. n -> Names] /\ n \in 1 .. Depth
  BY <1>1, <1>3
<1>5. ASSUME NEW b \in Ancestors(a)
      PROVE  b \in Ancestors(p)
  <2>1. PICK m \in 1 .. n - 1 : b = SubSeq(a, 1, m)
    BY <1>3, <1>5 DEF Ancestors
  <2>2. b = [i \in 1 .. m |-> a[i]]
    BY <1>1, <1>2, <1>3, <2>1
  <2>3. SubSeq(p, 1, m) = [i \in 1 .. m |-> p[i]]
    BY <1>1, <1>2, <2>1
  <2>4. b = SubSeq(p, 1, m)
    BY <1>1, <1>2, <1>3, <2>1, <2>2, <2>3
  <2> QED BY <1>1, <1>2, <2>1, <2>4 DEF Ancestors
<1> QED BY <1>1, <1>2, <1>3, <1>4, <1>5 DEF Paths

\* Destinations, required directories and expected files are what they are
\* called.
LEMMA PlannedFile ==
    ASSUME NEW files, Plan(files), NEW i \in DOMAIN files
    PROVE  files[i] \in PlannedFiles /\ files[i].path \in Paths
<1>1. files[i] \in PlannedFiles
  BY DEF Plan
<1> QED BY <1>1 DEF PlannedFiles

LEMMA PlannedPaths ==
    ASSUME NEW files, Plan(files)
    PROVE  /\ Destinations(files) \subseteq Paths
           /\ Destinations(files) # {}
           /\ RequiredDirectories(files) \subseteq Paths
<1>1. files \in Seq(PlannedFiles) /\ 1 \in DOMAIN files
  BY DEF Plan
<1>2. Destinations(files) \subseteq Paths /\ Destinations(files) # {}
  BY <1>1, PlannedFile DEF Destinations
<1> QED BY <1>2, AncestorsArePaths DEF RequiredDirectories

LEMMA ExpectedFiles ==
    ASSUME NEW files, Plan(files), NEW p \in Destinations(files)
    PROVE  Expected(files)[p] \in Files
<1>1. PICK i \in DOMAIN files : files[i].path = p
  BY DEF Destinations
<1>2. FileAt(files, p) \in PlannedFiles
  BY <1>1 DEF Plan, FileAt
<1> QED BY <1>2 DEF Expected, Files, PlannedFiles

\* Kinds tell nodes and output roots apart.
LEMMA NodesDiffer ==
    /\ Directory \in Nodes /\ Link \in Nodes /\ Files \subseteq Nodes
    /\ Directory \notin Files /\ Missing \notin Nodes
    /\ Missing # NotADirectory
    /\ NotADirectory # Directory
<1>1. \A f \in Files : f.kind = "file"
  BY DEF Files
<1>2. Directory.kind = "directory" /\ Missing.kind = "missing" /\ Link.kind = "symlink"
      /\ NotADirectory.kind = "file"
  BY DEF Directory, Missing, Link, NotADirectory
<1> QED BY <1>1, <1>2 DEF Nodes

LEMMA RootsDiffer ==
    ASSUME NEW t
    PROVE  /\ Tree(t) # Missing /\ Tree(t) # NotADirectory
           /\ Tree(t).entries = t
<1>1. Tree(t).kind = "directory" /\ Missing.kind = "missing" /\ NotADirectory.kind = "file"
  BY DEF Tree, Missing, NotADirectory
<1> QED BY <1>1 DEF Tree

\* validatePlan's folded conflicts leave no file in the way of another.
LEMMA NoFileIsADirectory ==
    ASSUME NEW files, Plan(files), ValidPlan(files)
    PROVE  Destinations(files) \cap RequiredDirectories(files) = {}
<1> SUFFICES ASSUME NEW p \in Destinations(files), p \in RequiredDirectories(files)
             PROVE  FALSE
  OBVIOUS
<1>1. PICK j \in DOMAIN files : p \in Ancestors(files[j].path)
  BY DEF RequiredDirectories, Destinations
<1>2. PICK i \in DOMAIN files : files[i].path = p
  BY DEF Destinations
<1> DEFINE q == files[j].path
<1>3. p \in Paths /\ q \in Paths
  BY <1>1, <1>2, PlannedFile
<1>4. i # j
  BY <1>1, <1>2, <1>3, PathParts, AncestorsArePaths
<1>5. p \in Seq(Names) /\ q \in Seq(Names) /\ DOMAIN q = 1 .. Len(q)
  BY <1>3, PathParts
<1>6. PICK n \in 1 .. Len(q) - 1 : p = SubSeq(q, 1, n)
  BY <1>1 DEF Ancestors
<1>7. Len(q) \in Nat /\ n \in Nat /\ n < Len(q)
  BY <1>5, <1>6
<1>8. p = [k \in 1 .. n |-> q[k]] /\ DOMAIN p = 1 .. n
  BY <1>5, <1>6, <1>7
<1>9. FoldPath(p) = [k \in 1 .. n |-> Fold[q[k]]]
  BY <1>8 DEF FoldPath
<1>10. FoldPath(q) = [k \in 1 .. Len(q) |-> Fold[q[k]]]
  BY <1>5 DEF FoldPath
<1> DEFINE V == {Fold[q[k]] : k \in 1 .. Len(q)}
<1>11. FoldPath(q) \in Seq(V) /\ Len(FoldPath(q)) = Len(q)
  BY <1>7, <1>10
<1>12. SubSeq(FoldPath(q), 1, n) = [k \in 1 .. n |-> FoldPath(q)[k]]
  BY <1>6, <1>7, <1>11
<1>13. FoldPath(p) = SubSeq(FoldPath(q), 1, n)
  BY <1>7, <1>9, <1>10, <1>12
<1>14. FoldPath(p) \in Ancestors(FoldPath(q))
  BY <1>6, <1>11, <1>13 DEF Ancestors
<1> QED BY <1>1, <1>2, <1>4, <1>14 DEF ValidPlan, Conflict

\* What stageFilesInRoot writes for a valid plan is a tree.
LEMMA MaterializedIsTree ==
    ASSUME NEW files, Plan(files), ValidPlan(files)
    PROVE  Materialized(files) \in OutputTrees
<1> DEFINE M == Materialized(files)
           D == Destinations(files)
           R == RequiredDirectories(files)
<1>1. D \subseteq Paths /\ R \subseteq Paths /\ D \cap R = {}
  BY PlannedPaths, NoFileIsADirectory
<1>2. DOMAIN M = D \cup R /\ \A p \in R : M[p] = Directory
  BY <1>1 DEF Materialized
<1>3. M \in [D \cup R -> Nodes]
  BY <1>1, ExpectedFiles, NodesDiffer DEF Materialized
<1>4. ASSUME NEW p \in D \cup R, NEW a \in Ancestors(p)
      PROVE  a \in R
  <2>1. CASE p \in D
    BY <1>4, <2>1 DEF RequiredDirectories
  <2>2. CASE p \in R
    <3>1. PICK q \in D : p \in Ancestors(q)
      BY <2>2 DEF RequiredDirectories
    <3>2. a \in Ancestors(q)
      BY <1>1, <1>4, <3>1, AncestorsArePaths
    <3> QED BY <3>1, <3>2 DEF RequiredDirectories
  <2> QED BY <2>1, <2>2
<1>5. IsTree(M)
  BY <1>2, <1>4 DEF IsTree
<1>6. D \cup R \in SUBSET Paths
  BY <1>1
<1> HIDE DEF M, D, R
<1> QED BY <1>3, <1>5, <1>6 DEF OutputTrees, M
\* Without drift the plan's files are there, and everything else is a directory
\* that they need.
LEMMA NoDriftMeans ==
    ASSUME NEW files, NEW entries
    PROVE  Drift(files, entries) = {} <=>
             /\ \A q \in DOMAIN entries \ Destinations(files) :
                   entries[q] = Directory /\ q \in RequiredDirectories(files)
             /\ \A q \in Destinations(files) :
                   q \in DOMAIN entries /\ entries[q] = Expected(files)[q]
BY DEF Drift

\* The entry that the pinned walk drops, and the output roots that hold the
\* plan's tree and at most this entry besides.
OwnEntry == <<OutputName>>

OthersOf(t) == [p \in DOMAIN t \ {OwnEntry} |-> t[p]]

ExactButForOwnName(r, files) ==
    \E t \in OutputTrees :
        /\ r = Tree(t)
        /\ \/ t = Materialized(files)
           \/ /\ OwnEntry \in DOMAIN t \ DOMAIN Materialized(files)
              /\ OthersOf(t) = Materialized(files)

\* An output in which the pinned walk finds no drift is one of these: it is not
\* missing, as a plan is never empty, and a required directory of the output
\* root's own name is known by what lies below it.
LEMMA CurrentIsExact ==
    ASSUME NEW files, Plan(files), ValidPlan(files),
           NEW r \in Roots, Drift(files, EntriesInRoot(r)) = {}
    PROVE  ExactButForOwnName(r, files)
<1> DEFINE D == Destinations(files)
           R == RequiredDirectories(files)
           E == EntriesInRoot(r)
           M == Materialized(files)
<1>1. /\ \A q \in DOMAIN E \ D : E[q] = Directory /\ q \in R
      /\ \A q \in D : q \in DOMAIN E /\ E[q] = Expected(files)[q]
  BY NoDriftMeans
<1>2. D \subseteq Paths /\ D # {} /\ R \subseteq Paths /\ D \cap R = {}
  BY PlannedPaths, NoFileIsADirectory
<1>3. \A q \in D : Expected(files)[q] \in Files
  BY ExpectedFiles
<1>4. r # Missing
  <2> SUFFICES ASSUME r = Missing PROVE FALSE
    OBVIOUS
  <2>1. E = NoEntries
    BY NodesDiffer DEF EntriesInRoot
  <2>2. DOMAIN E = {}
    BY <2>1 DEF NoEntries
  <2> QED BY <1>1, <1>2, <2>2
<1>5. r # NotADirectory
  <2> SUFFICES ASSUME r = NotADirectory PROVE FALSE
    OBVIOUS
  <2>1. E = [p \in {OwnEntry} |-> NotADirectory]
    BY <1>4 DEF EntriesInRoot, OwnEntry
  <2>2. OwnEntry \in D
    BY <1>1, <2>1, NodesDiffer
  <2>3. NotADirectory \in Files
    BY <1>1, <1>3, <2>1, <2>2
  <2>4. \A f \in Files : f = [kind |-> f.kind, bytes |-> f.bytes, executable |-> f.executable]
    BY DEF Files
  <2>5. DOMAIN NotADirectory = {"kind", "bytes", "executable"}
    BY <2>3, <2>4
  <2>6. DOMAIN NotADirectory = {"kind"}
    BY DEF NotADirectory
  <2> QED BY <2>5, <2>6
<1>6. PICK t \in OutputTrees : r = Tree(t)
  BY <1>4, <1>5 DEF Roots
<1>7. E = OthersOf(t)
  BY <1>4, <1>5, <1>6, RootsDiffer DEF EntriesInRoot, OwnEntry, OthersOf
<1>8. DOMAIN M = D \cup R /\ (\A p \in R : M[p] = Directory)
      /\ \A p \in D : M[p] = Expected(files)[p]
  BY <1>2 DEF Materialized
<1>9. \A p \in R : p \in DOMAIN t /\ t[p] = Directory
  <2> SUFFICES ASSUME NEW p \in R PROVE p \in DOMAIN t /\ t[p] = Directory
    OBVIOUS
  <2>1. PICK q \in D : p \in Ancestors(q)
    BY DEF RequiredDirectories
  <2>2. q \in DOMAIN t
    BY <1>1, <1>7 DEF OthersOf
  <2> QED BY <2>1, <2>2 DEF OutputTrees, IsTree
<1>10. OwnEntry \notin D
  BY <1>1, <1>7 DEF OthersOf
<1>11. \A p \in D \cup R : p \in DOMAIN t /\ t[p] = M[p]
  BY <1>1, <1>7, <1>8, <1>9 DEF OthersOf
<1>12. \A p \in DOMAIN t : p \in D \cup R \/ p = OwnEntry
  BY <1>1, <1>7 DEF OthersOf
<1>13. t = [p \in DOMAIN t |-> t[p]] /\ M = [p \in DOMAIN M |-> M[p]]
  BY DEF OutputTrees, Materialized
<1>14. CASE OwnEntry \in DOMAIN t => OwnEntry \in D \cup R
  <2>1. DOMAIN t = DOMAIN M
    BY <1>8, <1>11, <1>12, <1>14
  <2>2. t = M
    <3> HIDE DEF M, D, R
    <3> QED BY <1>8, <1>11, <1>13, <2>1
  <2> QED BY <1>6, <2>2 DEF ExactButForOwnName
<1>15. CASE OwnEntry \in DOMAIN t /\ OwnEntry \notin D \cup R
  <2>1. DOMAIN t \ {OwnEntry} = DOMAIN M
    BY <1>8, <1>11, <1>12, <1>15
  <2>2. OthersOf(t) = M
    <3> HIDE DEF M, D, R
    <3> QED BY <1>8, <1>11, <1>13, <2>1 DEF OthersOf
  <2> QED BY <1>6, <1>8, <1>15, <2>2 DEF ExactButForOwnName
<1> QED BY <1>14, <1>15

\* A tree stays one when an entry is removed with what is below it,
LEMMA Emptied ==
    ASSUME NEW t \in OutputTrees, NEW p
    PROVE  [q \in {q \in DOMAIN t : q # p /\ p \notin Ancestors(q)} |-> t[q]] \in OutputTrees
<1> DEFINE K == {q \in DOMAIN t : q # p /\ p \notin Ancestors(q)}
           u == [q \in K |-> t[q]]
<1>0. PICK D \in SUBSET Paths : t \in [D -> Nodes]
  BY DEF OutputTrees
<1>1. K \in SUBSET Paths /\ u \in [K -> Nodes]
  BY <1>0
<1>2. ASSUME NEW q \in K, NEW a \in Ancestors(q)
      PROVE  a \in K
  <2>1. a \in DOMAIN t /\ a # p
    BY <1>2 DEF OutputTrees, IsTree
  <2>2. Ancestors(a) \subseteq Ancestors(q)
    BY <1>1, <1>2, AncestorsArePaths
  <2> QED BY <1>2, <2>1, <2>2
<1>3. IsTree(u)
  BY <1>2 DEF IsTree, OutputTrees
<1> HIDE DEF K, u
<1> QED BY <1>1, <1>3 DEF OutputTrees, u, K

\* and when a node is put into a directory.
LEMMA PutIn ==
    ASSUME NEW t \in OutputTrees, NEW p \in Paths, NEW node \in Nodes,
           \A a \in Ancestors(p) : a \in DOMAIN t /\ t[a] = Directory
    PROVE  [q \in {q \in DOMAIN t : q # p /\ p \notin Ancestors(q)} \cup {p} |->
               IF q = p THEN node ELSE t[q]] \in OutputTrees
<1> DEFINE K == {q \in DOMAIN t : q # p /\ p \notin Ancestors(q)}
           u == [q \in K \cup {p} |-> IF q = p THEN node ELSE t[q]]
<1>0. PICK D \in SUBSET Paths : t \in [D -> Nodes]
  BY DEF OutputTrees
<1>1. K \cup {p} \in SUBSET Paths /\ u \in [K \cup {p} -> Nodes]
  BY <1>0
<1>2. ASSUME NEW q \in K \cup {p}, NEW a \in Ancestors(q)
      PROVE  a \in K /\ t[a] = Directory
  <2>1. q \in Paths /\ a \in Paths /\ Len(a) < Len(q) /\ Ancestors(a) \subseteq Ancestors(q)
        /\ Len(a) \in Nat /\ Len(q) \in Nat
    BY <1>1, <1>2, AncestorsArePaths, PathParts
  <2>2. a \in DOMAIN t /\ t[a] = Directory
    BY <1>2 DEF OutputTrees, IsTree
  <2>3. CASE q \in K
    BY <1>2, <2>1, <2>2, <2>3
  <2>4. CASE q = p
    <3>1. a # p
      BY <2>1, <2>4
    <3>2. p \notin Ancestors(a)
      <4> SUFFICES ASSUME p \in Ancestors(a) PROVE FALSE
        OBVIOUS
      <4>1. Len(p) < Len(a)
        BY <2>1, AncestorsArePaths
      <4> QED BY <2>1, <2>4, <4>1
    <3> QED BY <2>2, <3>1, <3>2
  <2> QED BY <1>2, <2>3, <2>4
<1>3. \A a \in K : a # p /\ u[a] = t[a]
  OBVIOUS
<1>4. IsTree(u)
  BY <1>2, <1>3 DEF IsTree
<1> HIDE DEF K, u
<1> QED BY <1>1, <1>4 DEF OutputTrees, u, K

\* The comparison of any tree with any plan names what differs, and as what.
LEMMA DriftNames ==
    ASSUME NEW files, Plan(files), NEW have \in OutputTrees
    PROVE  LET want == Materialized(files)
               differs == {p \in Paths : NodeAt(want, p) # NodeAt(have, p)}
               unnamed == {p \in differs :
                             NodeAt(want, p) = Directory /\ NodeAt(have, p) = Missing}
               kindOf(p) == CASE NodeAt(have, p) = Missing -> "missing"
                              [] NodeAt(want, p) \in {Missing, Directory} -> "extra"
                              [] OTHER -> "changed"
           IN  Drift(files, have) =
                 {[kind |-> kindOf(p), path |-> p] : p \in differs \ unnamed}
<1> DEFINE want == Materialized(files)
           differs == {p \in Paths : NodeAt(want, p) # NodeAt(have, p)}
           unnamed == {p \in differs :
                         NodeAt(want, p) = Directory /\ NodeAt(have, p) = Missing}
           kindOf(p) == CASE NodeAt(have, p) = Missing -> "missing"
                          [] NodeAt(want, p) \in {Missing, Directory} -> "extra"
                          [] OTHER -> "changed"
           D == Destinations(files)
           R == RequiredDirectories(files)
           Extra == {q \in DOMAIN have \ D : ~(have[q] = Directory /\ q \in R)}
           Changed == {q \in D \cap DOMAIN have : have[q] # Expected(files)[q]}
<1>1. D \subseteq Paths /\ R \subseteq Paths /\ DOMAIN have \subseteq Paths
      /\ (\A p \in DOMAIN have : have[p] \in Nodes)
      /\ \A p \in D : Expected(files)[p] \in Files
  BY PlannedPaths, ExpectedFiles DEF OutputTrees
<1>2. \A p \in Paths :
        /\ p \in D => NodeAt(want, p) = Expected(files)[p]
        /\ p \in R \ D => NodeAt(want, p) = Directory
        /\ p \notin D \cup R => NodeAt(want, p) = Missing
        /\ p \in DOMAIN have => NodeAt(have, p) = have[p]
        /\ p \notin DOMAIN have => NodeAt(have, p) = Missing
  BY DEF NodeAt, Materialized
<1>3. \A p \in Extra : p \in differs \ unnamed /\ kindOf(p) = "extra"
  BY <1>1, <1>2, NodesDiffer
<1>4. \A p \in D \ DOMAIN have : p \in differs \ unnamed /\ kindOf(p) = "missing"
  BY <1>1, <1>2, NodesDiffer
<1>5. \A p \in Changed : p \in differs \ unnamed /\ kindOf(p) = "changed"
  BY <1>1, <1>2, NodesDiffer
<1>6. \A p \in differs \ unnamed : p \in Extra \cup (D \ DOMAIN have) \cup Changed
  BY <1>1, <1>2, NodesDiffer
<1>7. Drift(files, have) =
        {[kind |-> "extra", path |-> p] : p \in Extra}
        \cup {[kind |-> "missing", path |-> p] : p \in D \ DOMAIN have}
        \cup {[kind |-> "changed", path |-> p] : p \in Changed}
  BY DEF Drift
<1> HIDE DEF want, differs, unnamed, kindOf, Extra, Changed, D
<1>8. Drift(files, have) = {[kind |-> kindOf(p), path |-> p] : p \in differs \ unnamed}
  BY <1>3, <1>4, <1>5, <1>6, <1>7
<1> QED BY <1>8 DEF want, differs, unnamed, kindOf

-----------------------------------------------------------------------------

\* The inductive invariant: output and plan are what they can be, a build that
\* succeeded has left its plan's tree, and a check has named the drift.
Compared ==
    /\ root \in Roots
    /\ Plan(compiled)
    /\ last.command = "build" /\ last.outcome = "ok" =>
          ExactButForOwnName(root, compiled)
    /\ last.command = "check" /\ last.outcome \in {"clean", "drift"} =>
          /\ Walkable(root)
          /\ last.drift = Drift(compiled, root.entries)

\* It holds at first, and every command and every edit keeps it.
LEMMA ComparedInit == ASSUME OutputInit PROVE Compared
BY PlansAssumption DEF OutputInit, Compared, Roots, Plan, NoCommand, Said

LEMMA ComparedStep ==
    ASSUME Compared, OutputNext
    PROVE  Compared'
<1>1. root \in Roots /\ Plan(compiled)
  BY DEF Compared
<1>2. CASE BuildRejected
  BY <1>1, <1>2 DEF BuildRejected, Compared, Said
<1>3. CASE BuildCurrent
  <2>1. ExactButForOwnName(root, compiled)
    BY <1>1, <1>3, CurrentIsExact DEF BuildCurrent, Invalid
  <2>2. UNCHANGED <<root, compiled>> /\ last'.command = "build"
    BY <1>3 DEF BuildCurrent, Said
  <2> QED BY <1>1, <2>1, <2>2 DEF Compared
<1>4. CASE BuildReplace
  <2> DEFINE M == Materialized(compiled)
  <2>1. M \in OutputTrees
    BY <1>1, <1>4, MaterializedIsTree DEF BuildReplace, Invalid
  <2>2. root' = Tree(M) /\ compiled' = compiled /\ last'.command = "build"
    BY <1>4 DEF BuildReplace, Said
  <2>3. ExactButForOwnName(root', compiled')
    BY <2>1, <2>2 DEF ExactButForOwnName
  <2>4. root' \in Roots
    BY <2>1, <2>2 DEF Roots
  <2> QED BY <1>1, <2>2, <2>3, <2>4 DEF Compared
<1>5. CASE BuildFails
  BY <1>1, <1>5 DEF BuildFails, Compared, Said
<1>6. CASE Check
  <2>1. UNCHANGED <<root, compiled>>
    BY <1>6 DEF Check
  <2>2. last'.command = "check"
    BY <1>6 DEF Check, Said
  <2>3. last'.outcome \in {"clean", "drift"} =>
          Walkable(root) /\ last'.drift = Drift(compiled, root.entries)
    BY <1>6 DEF Check, Said
  <2> QED BY <1>1, <2>1, <2>2, <2>3 DEF Compared
<1>7. ASSUME root' \in Roots, Plan(compiled'), last' = NoCommand
      PROVE  Compared'
  BY <1>7 DEF Compared, NoCommand, Said
<1>8. CASE \E files \in SourcePlans : EditSources(files)
  <2>1. PICK files \in SourcePlans : EditSources(files)
    BY <1>8
  <2>2. Plan(files)
    BY PlansAssumption DEF Plan
  <2> QED BY <1>1, <1>7, <2>1, <2>2 DEF EditSources
<1>9. \A r \in Roots : Walkable(r) => r.entries \in OutputTrees
  BY RootsDiffer DEF Roots, Walkable
<1>10. CASE \E p \in EditedPaths, node \in Nodes : PutEntry(p, node)
  <2>1. PICK p \in EditedPaths, node \in Nodes : PutEntry(p, node)
    BY <1>10
  <2>2. p \in Paths
    BY DEF EditedPaths
  <2>3. root.entries \in OutputTrees
    BY <1>1, <1>9, <2>1 DEF PutEntry
  <2>4. PICK t \in OutputTrees : root' = Tree(t)
    BY <2>1, <2>2, <2>3, PutIn DEF PutEntry
  <2>5. root' \in Roots
    BY <2>4 DEF Roots
  <2> QED BY <1>1, <1>7, <2>1, <2>5 DEF PutEntry
<1>11. CASE \E p \in Paths : RemoveEntry(p)
  <2>1. PICK p \in Paths : RemoveEntry(p)
    BY <1>11
  <2>2. root.entries \in OutputTrees
    BY <1>1, <1>9, <2>1 DEF RemoveEntry
  <2>3. PICK t \in OutputTrees : root' = Tree(t)
    BY <2>1, <2>2, Emptied DEF RemoveEntry
  <2>4. root' \in Roots
    BY <2>3 DEF Roots
  <2> QED BY <1>1, <1>7, <2>1, <2>4 DEF RemoveEntry
<1>12. CASE LoseRoot
  BY <1>1, <1>7, <1>12 DEF LoseRoot, Roots
<1> QED BY <1>2, <1>3, <1>4, <1>5, <1>6, <1>8, <1>10, <1>11, <1>12 DEF OutputNext, Build

LEMMA ComparedAlways == OutputSpec => []Compared
<1>1. OutputInit => Compared
  BY ComparedInit
<1>2. Compared /\ [OutputNext]_outputVars => Compared'
  <2>1. Compared /\ OutputNext => Compared'
    BY ComparedStep
  <2>2. Compared /\ UNCHANGED outputVars => Compared'
    BY DEF outputVars, Compared
  <2> QED BY <2>1, <2>2
<1> QED BY <1>1, <1>2, PTL DEF OutputSpec

\* Whatever the output root is called, a build that reports success leaves the
\* plan's tree, and at most an entry of that name besides
\* (outputEntriesInRoot drops it from the walk).
BuildIsExactButForOwnName ==
    last.command = "build" /\ last.outcome = "ok" => ExactButForOwnName(root, compiled)

THEOREM BuildNearlyExact == OutputSpec => []BuildIsExactButForOwnName
<1>1. Compared => BuildIsExactButForOwnName
  BY DEF Compared, BuildIsExactButForOwnName
<1> QED BY <1>1, ComparedAlways, PTL

\* Where no entry can have the output root's name, a build that reports success
\* leaves exactly the plan's tree, for any names, plans and edits
\* (artifact.Write).
THEOREM BuildExact ==
    ASSUME OutputName \notin Names
    PROVE  OutputSpec => []BuildIsExact
<1>1. Compared => BuildIsExact
  <2> SUFFICES ASSUME Compared, last.command = "build", last.outcome = "ok"
               PROVE  Current
    BY DEF BuildIsExact
  <2>1. OwnEntry \notin Paths
    <3> SUFFICES ASSUME OwnEntry \in Paths PROVE FALSE
      OBVIOUS
    <3>1. OwnEntry \in Seq(Names) /\ OwnEntry[1] = OutputName /\ 1 \in DOMAIN OwnEntry
      BY PathParts DEF OwnEntry
    <3> QED BY <3>1
  <2>2. PICK t \in OutputTrees :
          root = Tree(t) /\ (t = Materialized(compiled) \/ OwnEntry \in DOMAIN t)
    BY DEF Compared, ExactButForOwnName
  <2>3. OwnEntry \notin DOMAIN t
    BY <2>1 DEF OutputTrees
  <2> QED BY <2>2, <2>3 DEF Current
<1> QED BY <1>1, ComparedAlways, PTL

\* A check names each path that differs, once and under the right kind, for any
\* plan and any output (artifact.Compare).
THEOREM CheckNames == OutputSpec => []CheckNamesEveryDifference
<1>1. Compared => CheckNamesEveryDifference
  <2> SUFFICES ASSUME Compared, last.command = "check", last.outcome \in {"clean", "drift"}
               PROVE  CheckNamesEveryDifference
    BY DEF CheckNamesEveryDifference
  <2>1. Plan(compiled) /\ last.drift = Drift(compiled, root.entries)
    BY DEF Compared
  <2>2. root.entries \in OutputTrees
    BY RootsDiffer DEF Compared, Roots, Walkable
  <2> QED BY <2>1, <2>2, DriftNames DEF CheckNamesEveryDifference
<1> QED BY <1>1, ComparedAlways, PTL

=============================================================================
