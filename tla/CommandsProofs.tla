---------------------------- MODULE CommandsProofs ----------------------------
(***************************************************************************)
(* What a command reports is true and what it writes is whole, for every   *)
(* set of targets, packages and versions, any number of commands, edits,   *)
(* failures and kills.  Each property speaks of the end of a command; the  *)
(* strengthening says what each point of a command knows: that the plan    *)
(* renders, that unless somebody edited it is the plan of the sources, and *)
(* what the flags of the result say of output and root files.              *)
(***************************************************************************)
EXTENDS Commands, TLAPS

Typed ==
    /\ src \in [Packages -> Versions] /\ read \in [Packages -> Versions]
    /\ targets \subseteq Targets
    /\ drift \in BOOLEAN /\ errors \in BOOLEAN /\ nativeFailed \in BOOLEAN

\* From here on every target has rendered.
PlanRenders ==
    pc \notin {"idle", "import", "render"} =>
        \A t \in Plan.targets : t \in Targets /\ Renders(t, Plan)

\* What was read is what the sources say, all of it after the import.
ReadsSources ==
    /\ pc # "idle" /\ ~edited => \A p \in Packages : p \notin unread => read[p] = src[p]
    /\ pc \notin {"idle", "import"} => unread = {}

\* The flags of a result that nothing has reported to yet, and the ways that
\* build and the others go.
FlagsFollow ==
    /\ pc \in {"import", "render", "prepare", "write", "writeRoot", "compare"} =>
          ~drift /\ ~errors /\ ~nativeFailed /\ "root" \notin compared
    /\ pc = "compareRoot" => ~nativeFailed /\ (drift => errors) /\ "root" \notin compared
    /\ pc = "compiled" => (drift => errors) /\ (nativeFailed => errors)
    /\ pc \in {"write", "writeRoot"} => kind = "build"

\* What the flags say of output and root files.
FlagsTell ==
    ~edited =>
        /\ pc = "writeRoot" => output = Plan
        /\ pc = "compareRoot" =>
              /\ ~errors => output = Plan
              /\ drift => output # Plan
        /\ pc = "compiled" =>
              /\ ~errors => output = Plan /\ rootFiles = RootOf(Plan)
              /\ drift /\ "root" \in compared =>
                    ~(output = Plan /\ rootFiles = RootOf(Plan))

IInv ==
    /\ Typed
    /\ OutputIsWholeSelection
    /\ PlanRenders
    /\ ReadsSources
    /\ FlagsFollow
    /\ FlagsTell
    /\ ExitTellsState

-----------------------------------------------------------------------------
(* Lemmas *)

\* A selection selects declared targets only.
LEMMA PlanSelects == Typed => Plan.targets \subseteq Targets
  BY DEF Typed, Plan, PlanOf, SelectTargets

\* After the import the plan of an unedited workspace is that of its sources.
LEMMA PlanIsCurrent ==
    ASSUME Typed, ReadsSources, pc \notin {"idle", "import"}, ~edited
    PROVE  Plan = PlanOf(src)
<1>1. \A p \in Packages : read[p] = src[p]  BY DEF ReadsSources
<1>2. read = src  BY <1>1 DEF Typed
<1> QED  BY <1>2 DEF Plan

\* A step that stops half way disturbs what it was about to change, and no more.
LEMMA HalfDoneFrame ==
    ASSUME HalfDone
    PROVE  /\ output' \in {output, None, Plan}
           /\ pc # "write" => output' = output
           /\ rootFiles' \in {rootFiles, Foreign, RootOf(Plan)}
           /\ pc # "writeRoot" => rootFiles' = rootFiles
           /\ ~(pc = "compiled" /\ kind = "package" /\ ~errors) => archives' = archives
<1>1. CASE pc = "write"  BY <1>1 DEF HalfDone
<1>2. CASE pc = "writeRoot"  BY <1>2 DEF HalfDone
<1>3. CASE pc = "compiled" /\ kind = "package" /\ ~errors  BY <1>3 DEF HalfDone
<1>4. CASE ~(pc = "write") /\ ~(pc = "writeRoot")
           /\ ~(pc = "compiled" /\ kind = "package" /\ ~errors)
  <2>1. UNCHANGED <<output, rootFiles, archives>>  BY <1>4 DEF HalfDone
  <2> QED  BY <2>1, <1>4
<1> QED  BY <1>1, <1>2, <1>3, <1>4

\* An error that is neither drift nor a failed native check has status 1.
LEMMA PlainError == ASSUME ~drift, ~nativeFailed, Return(TRUE) PROVE exit' = 1
  BY DEF Return, ExitStatus

\* A command that ends with a plain error tells nothing.
LEMMA ErrorTellsNothing == exit' \notin {0, 2} => ExitTellsState'
  BY DEF ExitTellsState

-----------------------------------------------------------------------------
(* The invariant *)

LEMMA InitHolds == Init => IInv
<1> SUFFICES ASSUME Init PROVE IInv
  OBVIOUS
<1>1. Typed  BY CommandsAssumption DEF Init, Typed
<1>2. OutputIsWholeSelection  BY DEF Init, OutputIsWholeSelection
<1>3. PlanRenders /\ ReadsSources /\ FlagsFollow /\ FlagsTell /\ ExitTellsState
  BY DEF Init, PlanRenders, ReadsSources, FlagsFollow, FlagsTell, ExitTellsState
<1> QED  BY <1>1, <1>2, <1>3 DEF IInv

\* A step that changes neither sources nor request nor what was read.
LEMMA PlanStays ==
    UNCHANGED <<targets, packages, read, rootTargets>> => Plan' = Plan /\ RootOf(Plan)' = RootOf(Plan)
  BY DEF Plan, PlanOf, RootOf, SelectTargets, SelectPackages

LEMMA RunKeeps == IInv /\ Run => IInv'
<1> SUFFICES ASSUME IInv, Run PROVE IInv'
  OBVIOUS
<1> USE DEF IInv
<1>1. UNCHANGED <<rootTargets, src, output, rootFiles, archives, read>>
  BY DEF Run, workspace, sources
<1>2. targets' \subseteq Targets /\ ~drift' /\ ~nativeFailed' /\ ~edited' /\ "root" \notin compared'
  BY DEF Run
<1>3. drift' \in BOOLEAN /\ nativeFailed' \in BOOLEAN /\ errors' \in BOOLEAN
  BY DEF Run
<1>4. \/ pc' = "idle" /\ exit' = 1
      \/ pc' = "import" /\ ~errors' /\ unread' = Packages
  BY DEF Run
<1>5. Typed'  BY <1>1, <1>2, <1>3 DEF Typed
<1>6. OutputIsWholeSelection'  BY <1>1 DEF OutputIsWholeSelection, Renders
<1>7. PlanRenders' /\ ReadsSources' /\ FlagsFollow' /\ FlagsTell'
  BY <1>2, <1>4 DEF PlanRenders, ReadsSources, FlagsFollow, FlagsTell
<1>8. ExitTellsState'  BY <1>4 DEF ExitTellsState
<1> QED  BY <1>5, <1>6, <1>7, <1>8

LEMMA ImportKeeps == IInv /\ Import => IInv'
<1> SUFFICES ASSUME IInv, Import PROVE IInv'
  OBVIOUS
<1> USE DEF IInv
<1>1. UNCHANGED <<rootTargets, src, output, rootFiles, archives, targets, drift, nativeFailed, edited, compared>>
  BY DEF Import, workspace, sources, request
<1>2. pc = "import"  BY DEF Import
<1>3. ~drift /\ ~errors /\ ~nativeFailed /\ "root" \notin compared  BY <1>2 DEF FlagsFollow
<1>4. PICK p \in unread :
        /\ read' = [read EXCEPT ![p] = src[p]]
        /\ unread' = unread \ {p}
        /\ IF src[p] = Broken THEN Return(TRUE)
           ELSE /\ pc' = IF unread = {p} THEN "render" ELSE "import"
                /\ UNCHANGED <<errors, exit>>
  BY DEF Import
<1>5. errors' \in BOOLEAN  BY <1>4 DEF Return, Typed
<1>6. read' \in [Packages -> Versions]  BY <1>4 DEF Typed
<1>7. Typed'  BY <1>1, <1>5, <1>6 DEF Typed
<1>8. OutputIsWholeSelection'  BY <1>1 DEF OutputIsWholeSelection, Renders
<1>9. CASE src[p] = Broken
  <2>1. exit' = 1 /\ pc' = "idle"  BY <1>3, <1>4, <1>9, PlainError DEF Return
  <2> QED
    BY <1>7, <1>8, <2>1, ErrorTellsNothing
    DEF PlanRenders, ReadsSources, FlagsFollow, FlagsTell
<1>10. CASE src[p] # Broken
  <2>1. pc' \in {"render", "import"} /\ (pc' = "render" => unread' = {})
    BY <1>4, <1>10
  <2>2. errors' = errors  BY <1>4, <1>10
  <2>3. ReadsSources'
    BY <1>1, <1>2, <1>4, <2>1 DEF ReadsSources, Typed
  <2> QED
    BY <1>1, <1>3, <1>7, <1>8, <2>1, <2>2, <2>3
    DEF PlanRenders, FlagsFollow, FlagsTell, ExitTellsState
<1> QED  BY <1>9, <1>10

LEMMA RenderKeeps == IInv /\ (Render \/ Prepare) => IInv'
<1> SUFFICES ASSUME IInv, Render \/ Prepare PROVE IInv'
  OBVIOUS
<1> USE DEF IInv
<1>1. UNCHANGED <<rootTargets, src, output, rootFiles, archives, kind, targets, packages, unread, read, drift, nativeFailed, edited, compared>>
  BY DEF Render, Prepare, workspace, sources, request
<1>2. pc \in {"render", "prepare"}  BY DEF Render, Prepare
<1>3. ~drift /\ ~errors /\ ~nativeFailed /\ "root" \notin compared  BY <1>2 DEF FlagsFollow
<1>4. \/ Return(TRUE)
      \/ /\ UNCHANGED <<errors, exit>>
         /\ pc' \in {"prepare", "write", "compare"}
         /\ pc' = "write" => kind = "build"
         /\ pc = "render" => \A t \in Plan.targets : Renders(t, Plan)
  BY DEF Render, Prepare
<1>5. errors' \in BOOLEAN  BY <1>4 DEF Return, Typed
<1>6. Typed'  BY <1>1, <1>5 DEF Typed
<1>7. OutputIsWholeSelection'  BY <1>1 DEF OutputIsWholeSelection, Renders
<1>8. CASE Return(TRUE)
  <2>1. exit' = 1 /\ pc' = "idle"  BY <1>3, <1>8, PlainError DEF Return
  <2> QED
    BY <1>6, <1>7, <2>1, ErrorTellsNothing
    DEF PlanRenders, ReadsSources, FlagsFollow, FlagsTell
<1>9. CASE ~Return(TRUE)
  <2>1. Plan' = Plan  BY <1>1, PlanStays
  <2>2. \A t \in Plan.targets : t \in Targets /\ Renders(t, Plan)
    BY <1>2, <1>4, <1>9, PlanSelects DEF PlanRenders
  <2>3. PlanRenders'  BY <2>1, <2>2 DEF PlanRenders, Renders
  <2>4. ReadsSources'  BY <1>1, <1>2, <1>4, <1>9 DEF ReadsSources
  <2>5. pc' \in {"prepare", "write", "compare"} /\ (pc' = "write" => kind' = "build")
    BY <1>1, <1>4, <1>9
  <2> errors' = errors  BY <1>4, <1>9
  <2>6. ~drift' /\ ~errors' /\ ~nativeFailed' /\ "root" \notin compared'
    BY <1>1, <1>3
  <2>7. FlagsFollow'  BY <2>5, <2>6 DEF FlagsFollow
  <2>8. FlagsTell' /\ ExitTellsState'  BY <2>5 DEF FlagsTell, ExitTellsState
  <2> QED  BY <1>6, <1>7, <2>3, <2>4, <2>7, <2>8
<1> QED  BY <1>8, <1>9

LEMMA WriteOutputKeeps == IInv /\ WriteOutput => IInv'
<1> SUFFICES ASSUME IInv, WriteOutput PROVE IInv'
  OBVIOUS
<1> USE DEF IInv
<1>1. UNCHANGED <<rootTargets, src, rootFiles, archives, kind, targets, packages, unread, read, errors, drift, nativeFailed, edited, compared>>
  BY DEF WriteOutput, sources, request, result
<1>2. pc = "write" /\ pc' = "writeRoot" /\ output' = Plan  BY DEF WriteOutput
<1>3. Plan' = Plan  BY <1>1, PlanStays
<1>4. Typed'  BY <1>1 DEF Typed
<1>5. \A t \in Plan.targets : t \in Targets /\ Renders(t, Plan)
  BY <1>2 DEF PlanRenders
<1>6. OutputIsWholeSelection'  BY <1>2, <1>5 DEF OutputIsWholeSelection, Renders
<1>7. PlanRenders'  BY <1>3, <1>5 DEF PlanRenders, Renders
<1>8. ReadsSources' /\ FlagsFollow'  BY <1>1, <1>2 DEF ReadsSources, FlagsFollow
<1>9. FlagsTell' /\ ExitTellsState'
  BY <1>2, <1>3 DEF FlagsTell, ExitTellsState
<1> QED  BY <1>4, <1>6, <1>7, <1>8, <1>9

LEMMA WriteRootKeeps == IInv /\ WriteRoot => IInv'
<1> SUFFICES ASSUME IInv, WriteRoot PROVE IInv'
  OBVIOUS
<1> USE DEF IInv
<1>1. UNCHANGED <<rootTargets, src, output, archives, kind, targets, packages, read, drift, nativeFailed, edited, compared>>
  BY DEF WriteRoot, sources, request
<1>2. pc = "writeRoot" /\ pc' = "idle" /\ rootFiles' = RootOf(Plan) /\ ~errors' /\ errors' \in BOOLEAN
  BY DEF WriteRoot, Return
<1>3. ~drift /\ ~nativeFailed /\ kind = "build"  BY <1>2 DEF FlagsFollow
<1>4. exit' = 0  BY <1>3 DEF WriteRoot, Return, ExitStatus
<1>5. Typed'  BY <1>1, <1>2 DEF Typed
<1>6. OutputIsWholeSelection'  BY <1>1 DEF OutputIsWholeSelection, Renders
<1>7. ASSUME ~edited PROVE Current'
  <2>1. Plan = PlanOf(src)  BY <1>2, <1>7, PlanIsCurrent
  <2>2. output = Plan  BY <1>2, <1>7 DEF FlagsTell
  <2>3. PlanOf(src)' = PlanOf(src) /\ RootOf(PlanOf(src))' = RootOf(PlanOf(src))
    BY <1>1 DEF PlanOf, RootOf, SelectTargets, SelectPackages
  <2> QED  BY <1>1, <1>2, <2>1, <2>2, <2>3 DEF Current
<1>8. ExitTellsState'  BY <1>1, <1>3, <1>4, <1>7 DEF ExitTellsState
<1> QED
  BY <1>2, <1>5, <1>6, <1>8 DEF PlanRenders, ReadsSources, FlagsFollow, FlagsTell

LEMMA CompareKeeps == IInv /\ (CompareOutput \/ CompareRoot) => IInv'
<1> SUFFICES ASSUME IInv, CompareOutput \/ CompareRoot PROVE IInv'
  OBVIOUS
<1> USE DEF IInv
<1>1. UNCHANGED <<rootTargets, src, output, rootFiles, archives, kind, targets, packages, unread, read, nativeFailed, edited>>
  BY DEF CompareOutput, CompareRoot, workspace, sources, request
<1>2. Plan' = Plan /\ RootOf(Plan)' = RootOf(Plan)  BY <1>1, PlanStays
<1>3. pc \in {"compare", "compareRoot"} /\ pc' \in {"compareRoot", "compiled"}
  BY DEF CompareOutput, CompareRoot
<1>4. ~nativeFailed  BY <1>3 DEF FlagsFollow
<1>5. drift' \in BOOLEAN /\ errors' \in BOOLEAN
  BY DEF CompareOutput, CompareRoot, Typed
<1>6. Typed'  BY <1>1, <1>5 DEF Typed
<1>7. OutputIsWholeSelection'  BY <1>1 DEF OutputIsWholeSelection, Renders
<1>8. PlanRenders'  BY <1>2, <1>3 DEF PlanRenders, Renders
<1>9. ReadsSources'  BY <1>1, <1>3 DEF ReadsSources
<1>10. FlagsFollow' /\ FlagsTell'
  <2>1. CASE CompareOutput
    <3>1. pc = "compare" /\ pc' = "compareRoot"  BY <2>1 DEF CompareOutput
    <3>2. ~drift /\ "root" \notin compared  BY <3>1 DEF FlagsFollow
    <3>3. "root" \notin compared'  BY <2>1, <3>2 DEF CompareOutput
    <3>4. \/ drift' = (output # Plan) /\ errors' = (output # Plan)
          \/ drift' = drift /\ errors' = TRUE
      BY <2>1 DEF CompareOutput
    <3>5. CASE drift' = (output # Plan) /\ errors' = (output # Plan)
      BY <1>1, <1>2, <1>4, <3>1, <3>3, <3>5 DEF FlagsFollow, FlagsTell
    <3>6. CASE drift' = drift /\ errors' = TRUE
      BY <1>1, <1>2, <1>4, <3>1, <3>2, <3>3, <3>6 DEF FlagsFollow, FlagsTell
    <3> QED  BY <3>4, <3>5, <3>6
  <2>2. CASE CompareRoot
    <3>1. pc = "compareRoot" /\ pc' = "compiled"  BY <2>2 DEF CompareRoot
    <3>2. (drift => errors) /\ "root" \notin compared  BY <3>1 DEF FlagsFollow
    <3>3. ~edited => (~errors => output = Plan) /\ (drift => output # Plan)
      BY <3>1 DEF FlagsTell
    <3>4. \/ /\ drift' = (drift \/ rootFiles # RootOf(Plan))
             /\ errors' = (errors \/ rootFiles # RootOf(Plan))
          \/ drift' = TRUE /\ errors' = TRUE /\ "root" \notin compared'
      BY <2>2, <3>2 DEF CompareRoot
    <3>5. (drift' => errors') /\ (~errors' => ~errors /\ rootFiles = RootOf(Plan))
      BY <3>2, <3>4
    <3>6. drift' /\ "root" \in compared' => drift \/ rootFiles # RootOf(Plan)
      BY <3>4
    <3>7. FlagsFollow'  BY <1>1, <1>4, <3>1, <3>5 DEF FlagsFollow
    <3>8. FlagsTell'  BY <1>1, <1>2, <3>1, <3>3, <3>5, <3>6 DEF FlagsTell
    <3> QED  BY <3>7, <3>8
  <2> QED  BY <2>1, <2>2
<1>11. ExitTellsState'  BY <1>3 DEF ExitTellsState
<1> QED  BY <1>6, <1>7, <1>8, <1>9, <1>10, <1>11

LEMMA VerifyKeeps == IInv /\ Verify => IInv'
<1> SUFFICES ASSUME IInv, Verify PROVE IInv'
  OBVIOUS
<1> USE DEF IInv
<1>1. UNCHANGED <<rootTargets, src, output, rootFiles, archives, pc, kind, targets, packages, unread, read, drift, compared, edited>>
  BY DEF Verify, workspace, sources, request
<1>2. Plan' = Plan /\ RootOf(Plan)' = RootOf(Plan)  BY <1>1, PlanStays
<1>3. pc = "compiled"  BY DEF Verify
<1>4. nativeFailed' \in BOOLEAN  BY DEF Verify
<1>5. errors' = (errors \/ nativeFailed')  BY DEF Verify
<1>6. Typed'  BY <1>1, <1>4, <1>5 DEF Typed
<1>7. OutputIsWholeSelection'  BY <1>1 DEF OutputIsWholeSelection, Renders
<1>8. PlanRenders' /\ ReadsSources'
  BY <1>1, <1>2 DEF PlanRenders, ReadsSources, Renders
<1>9. FlagsFollow' /\ FlagsTell' /\ ExitTellsState'
  BY <1>1, <1>2, <1>3, <1>5 DEF FlagsFollow, FlagsTell, ExitTellsState
<1> QED  BY <1>6, <1>7, <1>8, <1>9

\* Nothing was reported, so that the workspace is what the plan says.
LEMMA FinishKeeps == IInv /\ Finish => IInv'
<1> SUFFICES ASSUME IInv, Finish PROVE IInv'
  OBVIOUS
<1> USE DEF IInv
<1>1. UNCHANGED <<rootTargets, src, output, rootFiles, kind, targets, packages, read, drift, nativeFailed, compared, edited>>
  BY DEF Finish, sources, request
<1>2. pc = "compiled" /\ pc' = "idle"  BY DEF Finish, Return
<1>3. errors' \in BOOLEAN  BY DEF Finish, Return, Typed
<1>4. Typed'  BY <1>1, <1>3 DEF Typed
<1>5. OutputIsWholeSelection'  BY <1>1 DEF OutputIsWholeSelection, Renders
<1>6. PlanRenders' /\ ReadsSources' /\ FlagsFollow' /\ FlagsTell'
  BY <1>2 DEF PlanRenders, ReadsSources, FlagsFollow, FlagsTell
<1>7. exit' = ExitStatus(nativeFailed, drift, errors)
  <2>1. \/ ~errors /\ Return(FALSE)
        \/ Return(errors)
    BY DEF Finish
  <2>2. ~errors => errors = FALSE  BY DEF Typed
  <2> QED  BY <2>1, <2>2 DEF Return
<1>8. ASSUME ~edited, exit' = 0
      PROVE  Current' /\ (kind' = "package" =>
                \A t \in SelectTargets(targets)' : archives'[t] = ArchiveOf(PlanOf(src), t)')
  <2>1. ~errors /\ ~drift /\ ~nativeFailed  BY <1>7, <1>8 DEF ExitStatus, Typed
  <2>2. output = Plan /\ rootFiles = RootOf(Plan)  BY <1>2, <1>8, <2>1 DEF FlagsTell
  <2>3. Plan = PlanOf(src)  BY <1>2, <1>8, PlanIsCurrent
  <2>4. PlanOf(src)' = PlanOf(src) /\ RootOf(PlanOf(src))' = RootOf(PlanOf(src)) /\ SelectTargets(targets)' = SelectTargets(targets)
    BY <1>1 DEF PlanOf, RootOf, SelectTargets, SelectPackages
  <2>5. Current'  BY <1>1, <2>2, <2>3, <2>4 DEF Current
  <2>6. ASSUME kind = "package", NEW t \in SelectTargets(targets)
        PROVE  archives'[t] = ArchiveOf(PlanOf(src), t)'
    <3>1. t \in Plan.targets /\ t \in Targets
      BY PlanSelects DEF Plan, PlanOf
    <3>2. archives'[t] = ArchiveOf(Plan, t)
      BY <2>1, <2>6, <3>1 DEF Finish
    <3> QED  BY <2>3, <2>4, <3>2 DEF ArchiveOf
  <2> QED  BY <1>1, <2>4, <2>5, <2>6
<1>9. ASSUME ~edited, exit' = 2, "root" \in compared
      PROVE  ~Current'
  <2>1. drift  BY <1>7, <1>9 DEF ExitStatus
  <2>2. ~(output = Plan /\ rootFiles = RootOf(Plan))  BY <1>2, <1>9, <2>1 DEF FlagsTell
  <2>3. Plan = PlanOf(src)  BY <1>2, <1>9, PlanIsCurrent
  <2>4. PlanOf(src)' = PlanOf(src) /\ RootOf(PlanOf(src))' = RootOf(PlanOf(src))
    BY <1>1 DEF PlanOf, RootOf, SelectTargets, SelectPackages
  <2> QED  BY <1>1, <2>2, <2>3, <2>4 DEF Current
<1>10. ExitTellsState'  BY <1>1, <1>8, <1>9 DEF ExitTellsState
<1> QED  BY <1>4, <1>5, <1>6, <1>10

LEMMA StopKeeps == IInv /\ (Fail \/ Kill) => IInv'
<1> SUFFICES ASSUME IInv, Fail \/ Kill PROVE IInv'
  OBVIOUS
<1> USE DEF IInv
<1>1. UNCHANGED <<rootTargets, src, kind, targets, packages, read, drift, nativeFailed, compared, edited>>
  BY DEF Fail, Kill, sources, request, result
<1>2. HalfDone /\ pc # "idle" /\ pc' = "idle"
  BY DEF Fail, Kill, Return
<1>3. errors' \in BOOLEAN  BY DEF Fail, Kill, Return, result, Typed
<1>4. Typed'  BY <1>1, <1>3 DEF Typed
<1>5. OutputIsWholeSelection'
  <2>1. CASE output' = output  BY <1>1, <2>1 DEF OutputIsWholeSelection, Renders
  <2>2. CASE output' = None  BY <2>2 DEF OutputIsWholeSelection
  <2>3. CASE pc = "write" /\ output' = Plan
    BY <2>3 DEF OutputIsWholeSelection, PlanRenders, Renders
  <2> QED  BY <1>2, <2>1, <2>2, <2>3, HalfDoneFrame
<1>6. PlanRenders' /\ ReadsSources' /\ FlagsFollow' /\ FlagsTell'
  BY <1>2 DEF PlanRenders, ReadsSources, FlagsFollow, FlagsTell
<1>7. exit' \notin {0, 2}
  <2>1. CASE Kill  BY <2>1 DEF Kill
  <2>2. CASE Fail
    <3>1. ~drift /\ ~nativeFailed
      BY <2>2 DEF Fail, FlagsFollow
    <3> QED  BY <2>2, <3>1, PlainError DEF Fail
  <2> QED  BY <2>1, <2>2
<1> QED  BY <1>4, <1>5, <1>6, <1>7, ErrorTellsNothing

LEMMA EditKeeps == IInv /\ Edit => IInv'
<1> SUFFICES ASSUME IInv, Edit PROVE IInv'
  OBVIOUS
<1> USE DEF IInv
<1>1. UNCHANGED <<rootTargets, pc, kind, targets, packages, unread, read, errors, drift, nativeFailed, compared>>
  BY DEF Edit, request, result
<1>2. edited' = TRUE  BY DEF Edit
<1>3. src' \in [Packages -> Versions]  BY DEF Edit, Typed
<1>4. output' \in {output, None, Foreign}  BY DEF Edit
<1>5. Plan' = Plan  BY <1>1, PlanStays
<1>6. Typed'  BY <1>1, <1>3 DEF Typed
<1>7. OutputIsWholeSelection'  BY <1>4 DEF OutputIsWholeSelection, Renders
<1>8. PlanRenders'  BY <1>1, <1>5 DEF PlanRenders, Renders
<1>9. ReadsSources' /\ FlagsFollow' /\ FlagsTell' /\ ExitTellsState'
  BY <1>1, <1>2 DEF ReadsSources, FlagsFollow, FlagsTell, ExitTellsState
<1> QED  BY <1>6, <1>7, <1>8, <1>9

LEMMA StutterKeeps == IInv /\ UNCHANGED vars => IInv'
<1> SUFFICES ASSUME IInv, UNCHANGED vars PROVE IInv'
  OBVIOUS
<1>1. UNCHANGED <<rootTargets, src, output, rootFiles, archives, pc, kind, targets, packages, unread, read, drift, errors, nativeFailed, compared, edited, exit>>
  BY DEF vars, workspace, sources, request, result
<1>2. Plan' = Plan  BY <1>1, PlanStays
<1>3. Typed'  BY <1>1 DEF IInv, Typed
<1>4. OutputIsWholeSelection' /\ PlanRenders'
  BY <1>1, <1>2 DEF IInv, OutputIsWholeSelection, PlanRenders, Renders
<1>5. ReadsSources' /\ FlagsFollow'  BY <1>1 DEF IInv, ReadsSources, FlagsFollow
<1>6. Current' = Current /\ RootOf(Plan)' = RootOf(Plan)
  BY <1>1, <1>2 DEF Current, PlanOf, RootOf, SelectTargets, SelectPackages
<1>7. FlagsTell'  BY <1>1, <1>2, <1>6 DEF IInv, FlagsTell, Current, PlanOf, RootOf, SelectTargets, SelectPackages
<1>8. ExitTellsState'
  BY <1>1, <1>6 DEF IInv, ExitTellsState, PlanOf, ArchiveOf, SelectTargets, SelectPackages
<1> QED  BY <1>3, <1>4, <1>5, <1>7, <1>8 DEF IInv

\* The inductive invariant: what each point of a command knows of the plan and
\* what its flags say of the workspace (compiler.Compile, run).
THEOREM CommandInvariant == Spec => []IInv
<1>1. IInv /\ [Next]_vars => IInv'
  BY RunKeeps, ImportKeeps, RenderKeeps, WriteOutputKeeps, WriteRootKeeps, CompareKeeps,
     VerifyKeeps, FinishKeeps, StopKeeps, EditKeeps, StutterKeeps DEF Next, Step
<1> QED  BY <1>1, InitHolds, PTL DEF Spec

\* A target that does not render keeps every target from being written (the
\* loop of compiler.Compile).
THEOREM OutputWhole == Spec => []OutputIsWholeSelection
<1>1. IInv => OutputIsWholeSelection  BY DEF IInv
<1> QED  BY <1>1, CommandInvariant, PTL

\* The exit status of a command tells the state of the workspace, whatever
\* failed or was killed before (renderResult).
THEOREM ExitIsTrue == Spec => []ExitTellsState
<1>1. IInv => ExitTellsState  BY DEF IInv
<1> QED  BY <1>1, CommandInvariant, PTL

\* Root files are never ahead of the output (artifact.Write before
\* compatibility.Write).
THEOREM RootFollowsOutput == Spec => RootComesFromOutput
<1>1. IInv /\ [Next]_vars => [rootFiles' # Foreign /\ ~edited => output = Plan]_rootFiles
  <2> SUFFICES ASSUME IInv, Next, rootFiles' # rootFiles, rootFiles' # Foreign, ~edited
               PROVE  output = Plan
    BY DEF vars, workspace
  <2>1. CASE WriteRoot  BY <2>1 DEF WriteRoot, IInv, FlagsTell
  <2>2. CASE Fail \/ Kill
    <3>1. HalfDone  BY <2>2 DEF Fail, Kill
    <3>2. pc = "writeRoot"  BY <3>1, HalfDoneFrame
    <3> QED  BY <3>2 DEF IInv, FlagsTell
  <2>3. CASE Edit  BY <2>3 DEF Edit
  <2>4. CASE Run \/ Import \/ Render \/ Prepare \/ WriteOutput \/ CompareOutput \/ CompareRoot \/ Verify \/ Finish
    BY <2>4 DEF Run, Import, Render, Prepare, WriteOutput, CompareOutput, CompareRoot, Verify, Finish, workspace
  <2> QED  BY <2>1, <2>2, <2>3, <2>4 DEF Next, Step
<1> QED  BY <1>1, CommandInvariant, PTL DEF Spec, RootComesFromOutput

\* Only what was compared with output and root files is released (run).
THEOREM ArchivesFollowOutput == Spec => ArchivesComeFromOutput
<1>1. IInv /\ [Next]_vars => [~edited => output = Plan /\ rootFiles = RootOf(Plan)]_archives
  <2> SUFFICES ASSUME IInv, Next, archives' # archives, ~edited
               PROVE  output = Plan /\ rootFiles = RootOf(Plan)
    BY DEF vars, workspace
  <2>1. pc = "compiled" /\ ~errors => output = Plan /\ rootFiles = RootOf(Plan)
    BY DEF IInv, FlagsTell
  <2>2. CASE Finish  BY <2>1, <2>2 DEF Finish
  <2>3. CASE Fail \/ Kill
    <3>1. HalfDone  BY <2>3 DEF Fail, Kill
    <3> QED  BY <2>1, <3>1, HalfDoneFrame
  <2>4. CASE Edit  BY <2>4 DEF Edit
  <2>5. CASE Run \/ Import \/ Render \/ Prepare \/ WriteOutput \/ WriteRoot \/ CompareOutput \/ CompareRoot \/ Verify
    BY <2>5 DEF Run, Import, Render, Prepare, WriteOutput, WriteRoot, CompareOutput, CompareRoot, Verify, workspace
  <2> QED  BY <2>2, <2>3, <2>4, <2>5 DEF Next, Step
<1> QED  BY <1>1, CommandInvariant, PTL DEF Spec, ArchivesComeFromOutput
=============================================================================
