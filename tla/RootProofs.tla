----------------------------- MODULE RootProofs -----------------------------
(***************************************************************************)
(* For every set of keys, every source, any number of edits, failures and  *)
(* kills.                                                                  *)
(*                                                                         *)
(* What the author put into package.json is safe.  AuthorsKept is not      *)
(* inductive: a build that is under way holds a new package.json and a new *)
(* state, computed before the output was written.  The strengthening says  *)
(* that these too keep the author's keys.                                  *)
(*                                                                         *)
(* A build that succeeds leaves the root exactly as its sources say, and a *)
(* check after it is clean.  Here the strengthening says what a build has  *)
(* still to write and to remove - all else is as planned -, that nothing   *)
(* generated is without an owner in the state unless a build was           *)
(* interrupted, and that the package.json of the last build is still there *)
(* while nobody edits.                                                     *)
(***************************************************************************)
EXTENDS RootCompatibility, TLAPS, WellFoundedInduction

\* The part of the type invariant that the argument needs.
Typed ==
    /\ src \in Sources
    /\ pkg \in Packages /\ author \in Packages
    /\ state.keys \subseteq Keys

\* package.json p and owned keys K leave the author's keys alone.
Keeps(p, K) == \A k \in Keys : author[k] # None => p[k] = author[k] /\ k \notin K

\* What a build under way will write is a package.json that keeps them.
PlanKeeps ==
    pc # "idle" =>
        /\ plan.pkg \in Packages
        /\ plan.state.keys \subseteq Keys
        /\ Keeps(plan.pkg, plan.state.keys)

IInv == Typed /\ AuthorsKept /\ PlanKeeps

-----------------------------------------------------------------------------

\* A source gives each key one of its values or none.
LEMMA SourceKeys == src \in Sources => src.keys \in Packages
  BY SourcesAssumption

\* Taking the old entries out leaves the author's keys.
LEMMA StripKeeps ==
    ASSUME Typed, AuthorsKept, NEW k \in Keys, author[k] # None
    PROVE  Stripped[k] = author[k]
  BY DEF Typed, AuthorsKept, Stripped, Packages

LEMMA StripTyped == Typed => Stripped \in Packages
  BY DEF Typed, Stripped, Packages

\* A merge without a collision keeps the author's keys, and claims none.
LEMMA MergeKeeps ==
    ASSUME Typed, AuthorsKept, ~Collision, NEW k \in Keys, author[k] # None
    PROVE  Merged[k] = author[k] /\ k \notin MergedKeys
<1>1. Stripped[k] = author[k]  BY StripKeeps
<1>2. src.keys[k] # None => Stripped[k] = src.keys[k]
  BY <1>1 DEF Collision
<1> QED  BY <1>1, <1>2 DEF Merged, MergedKeys

\* So does everything that Prepare plans.
LEMMA PreparedKeeps ==
    ASSUME Typed, AuthorsKept, ~Rejected
    PROVE  /\ NewPackage \in Packages
           /\ Desired.keys \subseteq Keys
           /\ Keeps(NewPackage, Desired.keys)
<1>1. Merged \in Packages
  BY SourceKeys, StripTyped DEF Typed, Merged, Packages
<1>2. NewPackage \in Packages
  BY <1>1, StripTyped DEF NewPackage, Typed
<1>3. Desired.keys = IF PiEnabled THEN MergedKeys ELSE {}
  BY DEF Desired
<1>4. Desired.keys \subseteq Keys  BY <1>3 DEF MergedKeys
<1>5. ASSUME NEW k \in Keys, author[k] # None
      PROVE  NewPackage[k] = author[k] /\ k \notin Desired.keys
  <2>1. CASE PiEnabled
    <3>1. ~Collision  BY <2>1 DEF Rejected
    <3> QED  BY <1>3, <1>5, <2>1, <3>1, MergeKeeps DEF NewPackage
  <2>2. CASE ~PiEnabled
    <3>1. NewPackage[k] = author[k]
      BY <1>5, <2>2, StripKeeps DEF NewPackage, AuthorsKept
    <3> QED  BY <1>3, <2>2, <3>1
  <2> QED  BY <2>1, <2>2
<1> QED  BY <1>2, <1>4, <1>5 DEF Keeps

-----------------------------------------------------------------------------

LEMMA InitKeeps == Init => IInv
<1> SUFFICES ASSUME Init PROVE IInv
  OBVIOUS
<1>1. PlanKeeps  BY DEF Init, PlanKeeps
<1>2. CASE NewProject
  <2>1. Typed  BY <1>2 DEF Init, NewProject, NoState, Typed
  <2>2. AuthorsKept  BY <1>2 DEF NewProject, NoState, AuthorsKept
  <2> QED  BY <1>1, <2>1, <2>2 DEF IInv
<1>3. CASE LegacyProject
  <2> DEFINE owned(q) == {k \in Keys :
                 (src.keys[k] # None \/ k \in LegacyKeys) /\ q[k] = None}
  <2>1. PICK q \in Packages :
          /\ author = q
          /\ state.keys = owned(q)
          /\ pkg \in Packages
          /\ \A k \in Keys : k \notin owned(q) => pkg[k] = q[k]
    BY <1>3 DEF LegacyProject
  <2>2. Typed  BY <2>1 DEF Init, Typed
  <2>3. AuthorsKept  BY <2>1 DEF AuthorsKept
  <2> QED  BY <1>1, <2>2, <2>3 DEF IInv
<1> QED  BY <1>2, <1>3 DEF Init

LEMMA NextKeeps == IInv /\ [Next]_vars => IInv'
<1> SUFFICES ASSUME IInv, [Next]_vars PROVE IInv'
  OBVIOUS
<1> USE DEF IInv
<1>1. CASE Reject \/ Check
  BY <1>1 DEF Reject, Check, Typed, AuthorsKept, PlanKeeps, Keeps, disk
<1>2. CASE Build
  <2>1. plan'.pkg = NewPackage /\ plan'.state = Desired
    BY <1>2 DEF Build, Prepared
  <2>2. UNCHANGED <<src, pkg, state, author>>  BY <1>2 DEF Build, disk
  <2>3. PlanKeeps'
    BY <1>2, <2>1, <2>2, PreparedKeeps DEF Build, PlanKeeps, Keeps
  <2> QED  BY <2>2, <2>3 DEF Typed, AuthorsKept
<1>3. CASE WriteOutput
  BY <1>3 DEF WriteOutput, Typed, AuthorsKept, PlanKeeps, Keeps, disk
<1>4. CASE WriteRootFile
  <2>1. /\ UNCHANGED <<src, author, pc, plan>>
        /\ pc # "idle"
        /\ pkg' \in {pkg, plan.pkg}
        /\ state' \in {state, plan.state}
    BY <1>4 DEF WriteRootFile
  <2> QED  BY <2>1 DEF Typed, AuthorsKept, PlanKeeps, Keeps
<1>5. CASE RemoveRootFile
  <2>1. /\ UNCHANGED <<src, author, pc, plan, pkg>>
        /\ state' \in {state, NoState}
    BY <1>5 DEF RemoveRootFile
  <2>2. NoState.keys = {}  BY DEF NoState
  <2> QED  BY <2>1, <2>2 DEF Typed, AuthorsKept, PlanKeeps, Keeps
<1>6. CASE Finish \/ Fails \/ Kill
  <2>1. UNCHANGED <<src, author, pkg, state>> /\ pc' = "idle"
    BY <1>6 DEF Finish, Fails, Kill, Ends, disk
  <2> QED  BY <2>1 DEF Typed, AuthorsKept, PlanKeeps, Keeps
<1>7. CASE EditSources
  <2>1. UNCHANGED <<pkg, author, state, pc>> /\ pc = "idle" /\ src' \in Sources
    BY <1>7 DEF EditSources, Edit
  <2> QED  BY <2>1 DEF Typed, AuthorsKept, PlanKeeps
<1>8. ASSUME NEW k \in Keys, EditPackage(k) PROVE IInv'
  <2>1. UNCHANGED <<src, state, pc>> /\ pc = "idle"
    BY <1>8 DEF EditPackage, Edit
  <2>2. PICK v \in Allowed[k] \cup {None} :
          /\ pkg' = [pkg EXCEPT ![k] = v]
          /\ author' = [author EXCEPT ![k] = IF k \in state.keys THEN @ ELSE v]
    BY <1>8 DEF EditPackage
  <2>3. v \in Values \cup {None}  BY <1>8, RootAssumption
  <2>4. Typed'  BY <2>1, <2>2, <2>3 DEF Typed, Packages
  <2>5. ASSUME NEW j \in Keys, author'[j] # None
        PROVE  pkg'[j] = author'[j] /\ j \notin state'.keys
    <3>1. CASE j # k
      <4>1. pkg'[j] = pkg[j] /\ author'[j] = author[j]
        BY <2>2, <3>1 DEF Typed, Packages
      <4> QED  BY <2>1, <2>5, <4>1 DEF AuthorsKept
    <3>2. CASE j = k /\ k \in state.keys
      <4>1. author'[k] = author[k]
        BY <2>2, <3>2 DEF Typed, Packages
      <4> QED  BY <2>5, <3>2, <4>1 DEF AuthorsKept
    <3>3. CASE j = k /\ k \notin state.keys
      <4>1. pkg'[k] = v /\ author'[k] = v
        BY <2>2, <3>3 DEF Typed, Packages
      <4> QED  BY <2>1, <3>3, <4>1
    <3> QED  BY <3>1, <3>2, <3>3
  <2>6. AuthorsKept'  BY <2>5 DEF AuthorsKept
  <2> QED  BY <2>1, <2>4, <2>6 DEF PlanKeeps
<1>9. ASSUME NEW f \in Files, EditFile(f) PROVE IInv'
  <2>1. UNCHANGED <<src, pkg, author, state, pc>> /\ pc = "idle"
    BY <1>9 DEF EditFile, Edit
  <2> QED  BY <2>1 DEF Typed, AuthorsKept, PlanKeeps
<1>10. CASE UNCHANGED vars
  BY <1>10 DEF vars, disk, Typed, AuthorsKept, PlanKeeps, Keeps
<1> QED
  BY <1>1, <1>2, <1>3, <1>4, <1>5, <1>6, <1>7, <1>8, <1>9, <1>10 DEF Next

\* No sequence of commands, edits of the sources, failures and kills changes,
\* removes or claims what the author put into package.json.
THEOREM AuthorsSafe == Spec => []AuthorsKept
<1>1. IInv => AuthorsKept  BY DEF IInv
<1> QED  BY <1>1, InitKeeps, NextKeeps, PTL DEF Spec

-----------------------------------------------------------------------------
(* What check says after a build, and what the build has left.             *)

\* package.json p has the generated keys, and state st says what is enabled.
Includes(p) ==
    PiEnabled => \A k \in Keys : src.keys[k] # None => p[k] = src.keys[k]

Describes(st) ==
    /\ st.present = (RootFiles # {} \/ PiEnabled)
    /\ st.files = RootFiles
    /\ st.pi = PiEnabled
    /\ st.legacy = FALSE
    /\ \A k \in st.keys : PiEnabled /\ src.keys[k] # None

StateOK ==
    /\ state \in States
    /\ files \in [Files -> Contents \cup {None, Authored}]
    /\ ~state.present => state = NoState
    /\ ~state.pi => state.keys = {}

\* A build under way: what is neither to be written nor to be removed any more
\* is as planned.
PlanFits ==
    pc # "idle" =>
        /\ src.enabled \subseteq src.targets
        /\ plan.pkg \in Packages /\ Includes(plan.pkg)
        /\ plan.state \in States /\ Describes(plan.state)
        /\ plan.files = src.files
        /\ writes \subseteq RootFiles \cup {Package, Npmrc, State}
        /\ removes \subseteq (Files \ RootFiles) \cup {Npmrc, State}
        /\ State \in removes => ~plan.state.present
        /\ Package \notin writes => pkg = plan.pkg
        /\ State \notin writes \cup removes => state = plan.state
        /\ \A f \in RootFiles \ writes : files[f] = src.files[f]
        /\ result = "none"

\* The root has what the sources enable.  Then the next build changes nothing.
Built ==
    /\ src.enabled \subseteq src.targets
    /\ Includes(pkg)
    /\ Describes(state)
    /\ \A f \in RootFiles : files[f] = src.files[f]

FreshKnows ==
    fresh =>
        /\ Built
        /\ pc # "idle" => /\ plan.pkg = pkg /\ plan.state = state
                          /\ removes = {} /\ Npmrc \notin writes

\* What package.json p has beyond the owned keys K is the author's.
RestIsAuthors(p, K) == \A k \in Keys \ K : p[k] = author[k]

Exact(p) ==
    \A k \in Keys : p[k] = IF PiEnabled /\ src.keys[k] # None THEN src.keys[k] ELSE author[k]

\* Unless a build was interrupted, whatever is not the author's has an owner.
OwnersKnown ==
    kills = 0 /\ faults = 0 =>
        /\ pc = "idle" =>
             /\ RestIsAuthors(pkg, state.keys)
             /\ \A f \in Files : files[f] \notin {None, Authored} => f \in state.files
             /\ npmrc \in {"marked", "only"} => state.pi /\ state.legacy
        /\ pc # "idle" =>
             /\ Exact(plan.pkg) /\ RestIsAuthors(plan.pkg, plan.state.keys)
             /\ \A f \in Files : files[f] \notin {None, Authored} => f \in RootFiles \cup removes
             /\ npmrc \in {"marked", "only"} => Npmrc \in writes \cup removes

RootKnown == StateOK /\ PlanFits /\ FreshKnows /\ OwnersKnown /\ RootIsExact /\ CheckAgrees

-----------------------------------------------------------------------------
(* Prepare.                                                                *)

\* The source as the assumptions type it.
LEMMA SourceFields ==
    src \in Sources => /\ src.targets \subseteq Targets /\ src.enabled \subseteq Targets
                       /\ src.keys \in Packages
                       /\ src.files \in [Files -> Contents \cup {None}]
  BY SourcesAssumption

\* Write's order has a first path.
LEMMA FirstIsOne ==
    ASSUME NEW S \in SUBSET Paths, S # {}
    PROVE  First(S) \in S
<1> DEFINE Before(p) == \A q \in S : q = State \/ (p # State /\ Rank[p] <= Rank[q])
<1>1. \E p \in S : Before(p)
  <2>1. CASE S \subseteq {State}  BY <2>1
  <2>2. CASE ~(S \subseteq {State})
    <3> DEFINE ranks == {Rank[p] : p \in S \ {State}}
    <3>1. ranks \subseteq Nat /\ ranks # {}  BY <2>2, RootAssumption
    <3> HIDE DEF ranks
    <3>2. PICK n \in ranks : \A m \in ranks : ~(<<m, n>> \in OpToRel(<, Nat))
      BY <3>1, NatLessThanWellFounded, WFMin
    <3>3. ASSUME NEW m \in ranks PROVE n <= m
      <4>1. <<m, n>> \in Nat \X Nat /\ <<m, n>>[1] = m /\ <<m, n>>[2] = n  BY <3>1
      <4>2. m < n => <<m, n>> \in OpToRel(<, Nat)  BY <4>1 DEF OpToRel
      <4>3. m \in Nat /\ n \in Nat /\ ~(m < n)  BY <3>1, <3>2, <4>2
      <4> QED  BY <4>3
    <3>4. PICK p \in S \ {State} : n = Rank[p]  BY DEF ranks
    <3>5. \A q \in S \ {State} : Rank[p] <= Rank[q]  BY <3>3, <3>4 DEF ranks
    <3> QED  BY <3>4, <3>5
  <2> QED  BY <2>1, <2>2
<1>2. First(S) = CHOOSE p \in S : Before(p)  BY DEF First
<1> HIDE DEF Before
<1> QED  BY <1>1, <1>2

\* The paths that Prepare plans.
LEMMA PlannedPaths ==
    /\ PlannedWrites \subseteq RootFiles \cup {Package, Npmrc, State}
    /\ RootFiles \subseteq PlannedWrites
    /\ PlannedWrites \subseteq Paths /\ PlannedRemoves \subseteq (state.files \cup Paths)
    /\ Package \in PlannedWrites <=> PiEnabled \/ NewPackage # pkg
    /\ Npmrc \in PlannedWrites <=> LegacyNpmrc /\ npmrc = "marked"
    /\ State \in PlannedWrites <=> Desired.present
    /\ state.files \subseteq Files =>
          /\ PlannedRemoves \subseteq (Files \ RootFiles) \cup {Npmrc, State}
          /\ state.files \ RootFiles \subseteq PlannedRemoves
          /\ Npmrc \in PlannedRemoves <=> LegacyNpmrc /\ npmrc = "only"
          /\ State \in PlannedRemoves <=> state.present /\ ~Desired.present
<1>1. /\ RootFiles \subseteq Files /\ Files \cap {Package, Npmrc, State} = {}
      /\ Package # Npmrc /\ Package # State /\ Npmrc # State
  BY RootAssumption DEF RootFiles, Package, Npmrc, State
<1> HIDE DEF Package, Npmrc, State
<1> QED  BY <1>1 DEF PlannedWrites, PlannedRemoves, Paths

\* What Prepare plans has the generated keys, and a state that describes it.
LEMMA PreparedDescribes ==
    ASSUME Typed, StateOK, AuthorsKept, ~Rejected
    PROVE  /\ src.enabled \subseteq src.targets
           /\ NewPackage \in Packages /\ Includes(NewPackage)
           /\ Desired \in States /\ Describes(Desired)
<1>1. src.enabled \subseteq src.targets  BY DEF Rejected
<1>2. NewPackage \in Packages  BY PreparedKeeps
<1>3. Includes(NewPackage)  BY DEF Includes, NewPackage, Merged
<1>4. RootFiles \subseteq Files /\ MergedKeys \subseteq Keys
  BY DEF RootFiles, MergedKeys
<1>5. (RootFiles # {} \/ PiEnabled) \in BOOLEAN /\ PiEnabled \in BOOLEAN
  BY DEF PiEnabled
<1>6. Desired \in States  BY <1>4, <1>5 DEF Desired, States
<1>7. Describes(Desired)  BY DEF Describes, Desired, MergedKeys
<1> QED  BY <1>1, <1>2, <1>3, <1>6, <1>7

\* If all that is not owned is the author's, so will it be.
LEMMA PreparedExact ==
    ASSUME Typed, StateOK, AuthorsKept, ~Rejected, RestIsAuthors(pkg, state.keys)
    PROVE  Exact(NewPackage) /\ RestIsAuthors(NewPackage, Desired.keys)
<1>1. \A k \in Keys : Stripped[k] = author[k]
  BY DEF Typed, AuthorsKept, Stripped, RestIsAuthors
<1>2. CASE PiEnabled
  <2>1. \A k \in Keys : NewPackage[k] = IF src.keys[k] # None THEN src.keys[k] ELSE author[k]
    BY <1>1, <1>2 DEF NewPackage, Merged
  <2>2. \A k \in Keys \ Desired.keys : src.keys[k] = None \/ author[k] = src.keys[k]
    BY <1>1, <1>2 DEF Desired, MergedKeys, Rejected, Collision
  <2> QED  BY <1>2, <2>1, <2>2 DEF Exact, RestIsAuthors
<1>3. CASE ~PiEnabled
  <2>1. \A k \in Keys : NewPackage[k] = author[k]
    <3>1. CASE state.pi  BY <1>1, <1>3, <3>1 DEF NewPackage
    <3>2. CASE ~state.pi
      BY <1>3, <3>2 DEF NewPackage, StateOK, RestIsAuthors
    <3> QED  BY <3>1, <3>2
  <2> QED  BY <1>3, <2>1 DEF Exact, RestIsAuthors
<1> QED  BY <1>2, <1>3

\* A state that describes nothing is no state.
LEMMA DescribesNothing ==
    ASSUME NEW st \in States, Describes(st), ~st.present
    PROVE  st = NoState
<1>1. st.files = {} /\ st.pi = FALSE /\ st.legacy = FALSE /\ st.present = FALSE
      /\ st.keys = {}
  BY DEF Describes, States
<1> QED  BY <1>1 DEF States, NoState

\* The merge of what is merged already, and the state of what is described.
LEMMA MergedTwice ==
    ASSUME Typed, StateOK, Built
    PROVE  NewPackage = pkg /\ Desired = state /\ (PiEnabled => ~Collision)
<1>0. /\ state.pi = PiEnabled /\ state.files = RootFiles /\ state.legacy = FALSE
      /\ state.present = (RootFiles # {} \/ PiEnabled)
      /\ state.keys \subseteq Keys
      /\ \A k \in state.keys : PiEnabled /\ src.keys[k] # None
  BY DEF Typed, Built, Describes
<1>1. CASE PiEnabled
  <2>1. \A k \in Keys : /\ src.keys[k] # None => pkg[k] = src.keys[k]
                        /\ k \in state.keys => src.keys[k] # None
                        /\ Stripped[k] = IF k \in state.keys THEN None ELSE pkg[k]
    BY <1>0, <1>1 DEF Built, Includes, Stripped
  <2>2. ~Collision  BY <2>1 DEF Collision
  <2>3. \A k \in Keys : Merged[k] = pkg[k]  BY <2>1 DEF Merged
  <2>4. Merged = pkg
    <3>1. Merged = [k \in Keys |-> Merged[k]]  BY DEF Merged
    <3>2. pkg = [k \in Keys |-> pkg[k]]  BY DEF Typed, Packages
    <3> QED  BY <2>3, <3>1, <3>2
  <2>5. MergedKeys = state.keys  BY <1>0, <2>1 DEF MergedKeys
  <2> QED  BY <1>0, <1>1, <2>2, <2>4, <2>5 DEF NewPackage, Desired, StateOK, States
<1>2. CASE ~PiEnabled
  <2>1. NewPackage = pkg  BY <1>0, <1>2 DEF NewPackage
  <2>2. state.keys = {}  BY <1>0, <1>2
  <2> QED  BY <1>0, <1>2, <2>1, <2>2 DEF Desired, StateOK, States
<1> QED  BY <1>1, <1>2

\* A root that has what the sources enable passes check, and the next build
\* plans no change.
LEMMA BuiltPasses ==
    ASSUME Typed, StateOK, Built
    PROVE  /\ ~Rejected /\ ~Drift
           /\ NewPackage = pkg /\ Desired = state
           /\ PlannedRemoves = {} /\ Npmrc \notin PlannedWrites
<1>0. /\ state.pi = PiEnabled /\ state.files = RootFiles /\ state.legacy = FALSE
      /\ state.keys \subseteq Keys /\ RootFiles \subseteq Files
      /\ \A k \in state.keys : PiEnabled /\ src.keys[k] # None
  BY DEF Typed, Built, Describes, RootFiles
<1>1. NewPackage = pkg /\ Desired = state /\ (PiEnabled => ~Collision)
  BY MergedTwice
<1>2. ValidOwnership
  <2>1. \A f \in state.files : Owner[f] \in src.targets /\ src.files[f] # None
    BY <1>0 DEF Built, RootFiles
  <2>2. LegacyExtension \notin state.keys
    BY <1>0, RootAssumption DEF Typed
  <2>3. state.pi => "pi" \in src.targets  BY <1>0 DEF Built, PiEnabled
  <2> QED  BY <1>0, <2>1, <2>2, <2>3 DEF ValidOwnership
<1>3. ~Rejected  BY <1>1, <1>2 DEF Rejected, Built
<1>4. ~LegacyNpmrc  BY <1>0 DEF LegacyNpmrc
<1>5. Npmrc \notin PlannedWrites  BY <1>4, PlannedPaths
<1>6. PlannedRemoves = {}
  <2>1. /\ Npmrc \notin PlannedRemoves /\ State \notin PlannedRemoves
        /\ PlannedRemoves \subseteq (Files \ RootFiles) \cup {Npmrc, State}
    BY <1>0, <1>1, <1>4, PlannedPaths
  <2>2. ASSUME NEW f \in Files \ RootFiles, f \in PlannedRemoves PROVE FALSE
    <3>1. f \notin {Package, Npmrc, State}  BY RootAssumption
    <3> QED  BY <1>0, <2>2, <3>1 DEF PlannedRemoves
  <2> QED  BY <2>1, <2>2
<1>7. ~Drift  BY <1>1, <1>5, <1>6 DEF Drift, Built
<1> QED  BY <1>1, <1>3, <1>5, <1>6, <1>7

\* A root without drift is exact, if whatever is not the author's has an owner.
LEMMA CurrentIsExact ==
    ASSUME Typed, StateOK, AuthorsKept, ~Rejected, ~Drift, RestIsAuthors(pkg, state.keys),
           \A f \in Files : files[f] \notin {None, Authored} => f \in state.files,
           npmrc \in {"marked", "only"} => state.pi /\ state.legacy
    PROVE  /\ Exact(pkg)
           /\ \A f \in Files : IF f \in RootFiles THEN files[f] = src.files[f]
                               ELSE files[f] \in {None, Authored}
           /\ npmrc \notin {"marked", "only"}
<1>1. NewPackage = pkg  BY PlannedPaths DEF Drift
<1>2. Exact(pkg)  BY <1>1, PreparedExact
<1>3. state.files \subseteq Files  BY DEF StateOK, States
<1>4. ASSUME NEW f \in Files
      PROVE  IF f \in RootFiles THEN files[f] = src.files[f]
             ELSE files[f] \in {None, Authored}
  BY <1>3, PlannedPaths DEF Drift
<1>5. npmrc \notin {"marked", "only"}
  BY <1>3, PlannedPaths DEF Drift, LegacyNpmrc
<1> QED  BY <1>2, <1>4, <1>5

-----------------------------------------------------------------------------
(* The steps.                                                              *)

LEMMA InitRoot == Init => RootKnown
<1> SUFFICES ASSUME Init PROVE RootKnown
  OBVIOUS
<1>1. pc = "idle" /\ fresh = FALSE /\ result = "none" /\ NoState.pi = FALSE
  BY DEF Init, NoState
<1>2. NoState \in States /\ NoState.keys = {} /\ NoState.present = FALSE
  BY DEF NoState, States
<1>3. CASE NewProject
  <2>1. /\ state = NoState /\ author = pkg /\ npmrc = "absent"
        /\ files \in [Files -> {None, Authored}]
    BY <1>3 DEF NewProject
  <2>2. StateOK  BY <1>1, <1>2, <2>1 DEF StateOK
  <2>3. OwnersKnown  BY <1>1, <2>1 DEF OwnersKnown, RestIsAuthors
  <2> QED  BY <1>1, <2>2, <2>3 DEF RootKnown, PlanFits, FreshKnows, RootIsExact, CheckAgrees
<1>4. CASE LegacyProject
  <2> DEFINE owned(q) == {k \in Keys :
                 (src.keys[k] # None \/ k \in LegacyKeys) /\ q[k] = None}
  <2>1. PICK q \in Packages :
          /\ author = q
          /\ state = [present |-> TRUE, files |-> {}, pi |-> TRUE,
                      keys |-> owned(q), legacy |-> TRUE]
          /\ \A k \in Keys : k \notin owned(q) => pkg[k] = q[k]
          /\ files = [f \in Files |-> None]
    BY <1>4 DEF LegacyProject
  <2>2. StateOK  BY <2>1 DEF StateOK, States
  <2>3. OwnersKnown  BY <1>1, <2>1 DEF OwnersKnown, RestIsAuthors
  <2> QED  BY <1>1, <2>2, <2>3 DEF RootKnown, PlanFits, FreshKnows, RootIsExact, CheckAgrees
<1> QED  BY <1>3, <1>4 DEF Init

\* A command that writes nothing.
LEMMA CheckKnows ==
    ASSUME IInv, RootKnown, Reject \/ Check
    PROVE  RootKnown'
<1>1. /\ pc = "idle" /\ pc' = "idle"
      /\ UNCHANGED <<src, pkg, files, npmrc, state, plan, writes, removes, fresh, author,
                     kills, faults>>
  BY DEF Reject, Check, disk
<1>2. StateOK'  BY <1>1 DEF RootKnown, StateOK
<1>3. PlanFits'  BY <1>1 DEF PlanFits
<1>4. FreshKnows'
  BY <1>1 DEF RootKnown, FreshKnows, Built, Includes, Describes, RootFiles, PiEnabled
<1>5. OwnersKnown'  BY <1>1 DEF RootKnown, OwnersKnown, RestIsAuthors
<1>6. CheckAgrees'
  <2>1. fresh => ~Rejected /\ ~Drift
    BY BuiltPasses DEF RootKnown, IInv, FreshKnows
  <2> QED  BY <1>1, <2>1 DEF CheckAgrees, Reject, Check
<1>7. RootIsExact'
  <2> SUFFICES ASSUME result' \in {"built", "current"}, kills = 0, faults = 0
               PROVE  /\ Exact(pkg)'
                      /\ \A f \in Files : IF f \in RootFiles' THEN files'[f] = src'.files[f]
                                          ELSE files'[f] \in {None, Authored}
                      /\ npmrc' \notin {"marked", "only"}
    BY <1>1 DEF RootIsExact, Exact
  <2>1. ~Rejected /\ ~Drift  BY DEF Reject, Check
  <2>2. /\ RestIsAuthors(pkg, state.keys)
        /\ \A f \in Files : files[f] \notin {None, Authored} => f \in state.files
        /\ npmrc \in {"marked", "only"} => state.pi /\ state.legacy
    BY <1>1 DEF RootKnown, OwnersKnown
  <2>3. /\ Exact(pkg) /\ npmrc \notin {"marked", "only"}
        /\ \A f \in Files : IF f \in RootFiles THEN files[f] = src.files[f]
                            ELSE files[f] \in {None, Authored}
    BY <2>1, <2>2, CurrentIsExact DEF RootKnown, IInv
  <2> QED  BY <1>1, <2>3 DEF Exact, RootFiles, PiEnabled
<1> QED  BY <1>2, <1>3, <1>4, <1>5, <1>6, <1>7 DEF RootKnown

LEMMA BuildKnows ==
    ASSUME IInv, RootKnown, Build
    PROVE  RootKnown'
<1>1. /\ pc = "idle" /\ ~Rejected /\ pc' = "output" /\ result' = "none"
      /\ plan'.pkg = NewPackage /\ plan'.files = src.files /\ plan'.state = Desired
      /\ writes' = PlannedWrites /\ removes' = PlannedRemoves
      /\ UNCHANGED <<src, pkg, files, npmrc, state, fresh, author, kills, faults>>
  BY DEF Build, disk, Prepared
<1>2. Typed /\ AuthorsKept /\ StateOK /\ state.files \subseteq Files
  BY DEF IInv, RootKnown, StateOK, States
<1>3. StateOK'  BY <1>1, <1>2 DEF StateOK
<1>4. UNCHANGED <<RootFiles, PiEnabled>>  BY <1>1 DEF RootFiles, PiEnabled
<1>5. PlanFits'
  <2>1. /\ src.enabled \subseteq src.targets
        /\ NewPackage \in Packages /\ Includes(NewPackage)
        /\ Desired \in States /\ Describes(Desired)
    BY <1>1, <1>2, PreparedDescribes
  <2>2. (Includes(plan.pkg))' /\ (Describes(plan.state))'
    BY <1>1, <1>4, <2>1 DEF Includes, Describes
  <2>3. /\ PlannedWrites \subseteq RootFiles \cup {Package, Npmrc, State}
        /\ PlannedRemoves \subseteq (Files \ RootFiles) \cup {Npmrc, State}
        /\ State \in PlannedRemoves => ~Desired.present
        /\ Package \notin PlannedWrites => pkg = NewPackage
        /\ RootFiles \subseteq PlannedWrites
    BY <1>2, PlannedPaths
  <2>4. State \notin PlannedWrites \cup PlannedRemoves => state = Desired
    <3>1. State \notin PlannedWrites \cup PlannedRemoves => ~state.present /\ ~Desired.present
      BY <1>2, PlannedPaths
    <3>2. ~Desired.present => Desired = NoState  BY <2>1, DescribesNothing
    <3> QED  BY <1>2, <3>1, <3>2 DEF StateOK
  <2> QED  BY <1>1, <1>4, <2>1, <2>2, <2>3, <2>4 DEF PlanFits
<1>6. FreshKnows'
  <2>1. fresh => /\ Built /\ NewPackage = pkg /\ Desired = state
                 /\ PlannedRemoves = {} /\ Npmrc \notin PlannedWrites
    BY <1>2, BuiltPasses DEF RootKnown, FreshKnows
  <2> QED  BY <1>1, <1>4, <2>1 DEF FreshKnows, Built, Includes, Describes
<1>7. OwnersKnown'
  <2> SUFFICES ASSUME kills = 0, faults = 0
               PROVE  /\ Exact(NewPackage) /\ RestIsAuthors(NewPackage, Desired.keys)
                      /\ \A f \in Files : files[f] \notin {None, Authored} =>
                            f \in RootFiles \cup PlannedRemoves
                      /\ npmrc \in {"marked", "only"} =>
                            Npmrc \in PlannedWrites \cup PlannedRemoves
    BY <1>1, <1>4 DEF OwnersKnown, Exact, RestIsAuthors
  <2>1. /\ RestIsAuthors(pkg, state.keys)
        /\ \A f \in Files : files[f] \notin {None, Authored} => f \in state.files
        /\ npmrc \in {"marked", "only"} => state.pi /\ state.legacy
    BY <1>1 DEF RootKnown, OwnersKnown
  <2>2. Exact(NewPackage) /\ RestIsAuthors(NewPackage, Desired.keys)
    BY <1>1, <1>2, <2>1, PreparedExact
  <2> QED  BY <1>2, <2>1, <2>2, PlannedPaths DEF LegacyNpmrc
<1> QED  BY <1>1, <1>3, <1>5, <1>6, <1>7 DEF RootKnown, RootIsExact, CheckAgrees

LEMMA WriteOutputKnows ==
    ASSUME IInv, RootKnown, WriteOutput
    PROVE  RootKnown'
<1>1. /\ pc # "idle" /\ pc' # "idle"
      /\ UNCHANGED <<src, pkg, files, npmrc, state, plan, writes, removes, result, fresh,
                     author, kills, faults>>
  BY DEF WriteOutput, disk
<1> QED
  BY <1>1 DEF RootKnown, StateOK, PlanFits, FreshKnows, Built, Includes, Describes,
     OwnersKnown, RestIsAuthors, Exact, RootFiles, PiEnabled, RootIsExact, CheckAgrees

\* A step of the build: only the written path changes.
LEMMA WriteKnows ==
    ASSUME IInv, RootKnown, WriteRootFile
    PROVE  RootKnown'
<1>1. PICK p : /\ p = First(writes) /\ writes # {} /\ pc # "idle" /\ pc' = pc
               /\ writes' = writes \ {p}
               /\ pkg' = IF p = Package THEN plan.pkg ELSE pkg
               /\ npmrc' = IF p = Npmrc THEN "authored" ELSE npmrc
               /\ state' = IF p = State THEN plan.state ELSE state
               /\ files' = [f \in Files |-> IF f = p THEN plan.files[f] ELSE files[f]]
               /\ UNCHANGED <<src, plan, removes, result, fresh, author, kills, faults>>
  BY DEF WriteRootFile
<1>2. /\ writes \subseteq RootFiles \cup {Package, Npmrc, State}
      /\ result = "none" /\ plan.files = src.files
      /\ plan.state \in States /\ Describes(plan.state)
      /\ State \in removes => ~plan.state.present
      /\ removes \subseteq (Files \ RootFiles) \cup {Npmrc, State}
  BY <1>1 DEF RootKnown, PlanFits
<1>3. /\ RootFiles \subseteq Files /\ Files \cap {Package, Npmrc, State} = {}
      /\ Package # Npmrc /\ Package # State /\ Npmrc # State
  BY RootAssumption DEF RootFiles, Package, Npmrc, State
<1> HIDE DEF Package, Npmrc, State
<1>4. p \in writes
  <2>1. writes \in SUBSET Paths  BY <1>2, <1>3 DEF Paths
  <2> QED  BY <1>1, <2>1, FirstIsOne
<1>5. UNCHANGED <<RootFiles, PiEnabled>>  BY <1>1 DEF RootFiles, PiEnabled
<1>6. \A f \in Files : files'[f] = IF f = p THEN src.files[f] ELSE files[f]
  BY <1>1, <1>2
<1>7. StateOK'
  <2>1. ~plan.state.present => plan.state = NoState  BY <1>2, DescribesNothing
  <2>2. ~plan.state.pi => plan.state.keys = {}  BY <1>2 DEF Describes
  <2>3. state' \in States /\ (~state'.present => state' = NoState)
        /\ (~state'.pi => state'.keys = {})
    BY <1>1, <1>2, <2>1, <2>2 DEF RootKnown, StateOK
  <2>4. files' \in [Files -> Contents \cup {None, Authored}]
    <3>1. src.files \in [Files -> Contents \cup {None}]
      BY SourceFields DEF IInv, Typed
    <3> QED  BY <1>1, <1>2, <3>1 DEF RootKnown, StateOK
  <2> QED  BY <2>3, <2>4 DEF StateOK
<1>8. PlanFits'
  <2>1. /\ src'.enabled \subseteq src'.targets
        /\ plan'.pkg \in Packages /\ (Includes(plan.pkg))'
        /\ plan'.state \in States /\ (Describes(plan.state))'
        /\ plan'.files = src'.files
    BY <1>1, <1>5 DEF RootKnown, PlanFits, Includes, Describes
  <2>2. /\ writes' \subseteq RootFiles' \cup {Package, Npmrc, State}
        /\ removes' \subseteq (Files \ RootFiles') \cup {Npmrc, State}
        /\ State \in removes' => ~plan'.state.present
        /\ result' = "none"
    BY <1>1, <1>2, <1>5
  <2>3. Package \notin writes' => pkg' = plan'.pkg
    BY <1>1 DEF RootKnown, PlanFits
  <2>4. State \notin writes' \cup removes' => state' = plan'.state
    BY <1>1 DEF RootKnown, PlanFits
  <2>5. \A f \in RootFiles' \ writes' : files'[f] = src'.files[f]
    <3>1. \A f \in RootFiles \ writes : files[f] = src.files[f]
      BY <1>1 DEF RootKnown, PlanFits
    <3> QED  BY <1>1, <1>3, <1>5, <1>6, <3>1
  <2> QED  BY <2>1, <2>2, <2>3, <2>4, <2>5 DEF PlanFits
<1>9. FreshKnows'
  <2> SUFFICES ASSUME fresh'
               PROVE  Built' /\ plan'.pkg = pkg' /\ plan'.state = state'
                      /\ removes' = {} /\ Npmrc \notin writes'
    BY DEF FreshKnows
  <2>1. Built /\ plan.pkg = pkg /\ plan.state = state /\ removes = {} /\ Npmrc \notin writes
    BY <1>1 DEF RootKnown, FreshKnows
  <2>2. pkg' = pkg /\ state' = state  BY <1>1, <2>1
  <2>3. \A f \in RootFiles : files'[f] = src.files[f]  BY <1>3, <1>6, <2>1 DEF Built
  <2>4. Built'  BY <1>1, <1>5, <2>1, <2>2, <2>3 DEF Built, Includes, Describes
  <2> QED  BY <1>1, <2>1, <2>2, <2>4
<1>10. OwnersKnown'
  <2> SUFFICES ASSUME kills = 0, faults = 0
               PROVE  /\ (Exact(plan.pkg))' /\ (RestIsAuthors(plan.pkg, plan.state.keys))'
                      /\ \A f \in Files : files'[f] \notin {None, Authored} =>
                            f \in RootFiles' \cup removes'
                      /\ npmrc' \in {"marked", "only"} => Npmrc \in writes' \cup removes'
    BY <1>1 DEF OwnersKnown
  <2>1. /\ Exact(plan.pkg) /\ RestIsAuthors(plan.pkg, plan.state.keys)
        /\ \A f \in Files : files[f] \notin {None, Authored} => f \in RootFiles \cup removes
        /\ npmrc \in {"marked", "only"} => Npmrc \in writes \cup removes
    BY <1>1 DEF RootKnown, OwnersKnown
  <2>2. (Exact(plan.pkg))' /\ (RestIsAuthors(plan.pkg, plan.state.keys))'
    BY <1>1, <1>5, <2>1 DEF Exact, RestIsAuthors
  <2>3. \A f \in Files : f = p => f \in RootFiles  BY <1>2, <1>3, <1>4
  <2>4. \A f \in Files : files'[f] \notin {None, Authored} => f \in RootFiles' \cup removes'
    BY <1>1, <1>5, <1>6, <2>1, <2>3
  <2>5. npmrc' \in {"marked", "only"} => Npmrc \in writes' \cup removes'
    BY <1>1, <2>1
  <2> QED  BY <2>2, <2>4, <2>5
<1> QED  BY <1>1, <1>2, <1>7, <1>8, <1>9, <1>10 DEF RootKnown, RootIsExact, CheckAgrees

LEMMA RemoveKnows ==
    ASSUME IInv, RootKnown, RemoveRootFile
    PROVE  RootKnown'
<1>1. PICK p : /\ p = First(removes) /\ removes # {} /\ writes = {} /\ writes' = {}
               /\ pc # "idle" /\ pc' = pc
               /\ removes' = removes \ {p}
               /\ npmrc' = IF p = Npmrc THEN "absent" ELSE npmrc
               /\ state' = IF p = State THEN NoState ELSE state
               /\ files' = [f \in Files |-> IF f = p THEN None ELSE files[f]]
               /\ UNCHANGED <<src, pkg, plan, result, fresh, author, kills, faults>>
  BY DEF RemoveRootFile
<1>2. /\ removes \subseteq (Files \ RootFiles) \cup {Npmrc, State}
      /\ result = "none" /\ plan.state \in States /\ Describes(plan.state)
      /\ State \in removes => ~plan.state.present
  BY <1>1 DEF RootKnown, PlanFits
<1>3. /\ RootFiles \subseteq Files /\ Files \cap {Package, Npmrc, State} = {}
      /\ Package # Npmrc /\ Package # State /\ Npmrc # State
  BY RootAssumption DEF RootFiles, Package, Npmrc, State
<1> HIDE DEF Package, Npmrc, State
<1>4. p \in removes
  <2>1. removes \in SUBSET Paths  BY <1>2, <1>3 DEF Paths
  <2> QED  BY <1>1, <2>1, FirstIsOne
<1>5. UNCHANGED <<RootFiles, PiEnabled>>  BY <1>1 DEF RootFiles, PiEnabled
<1>6. \A f \in Files : files'[f] = IF f = p THEN None ELSE files[f]
  BY <1>1
<1>7. StateOK'
  <2>1. NoState \in States /\ NoState.keys = {}  BY DEF NoState, States
  <2> QED  BY <1>1, <2>1 DEF RootKnown, StateOK
<1>8. PlanFits'
  <2>1. /\ src'.enabled \subseteq src'.targets
        /\ plan'.pkg \in Packages /\ (Includes(plan.pkg))'
        /\ plan'.state \in States /\ (Describes(plan.state))'
        /\ plan'.files = src'.files
    BY <1>1, <1>5 DEF RootKnown, PlanFits, Includes, Describes
  <2>2. pkg' = plan'.pkg  BY <1>1 DEF RootKnown, PlanFits
  <2>3. State \notin writes' \cup removes' => state' = plan'.state
    <3>1. p = State => plan.state = NoState  BY <1>2, <1>4, DescribesNothing
    <3> QED  BY <1>1, <3>1 DEF RootKnown, PlanFits
  <2>4. \A f \in RootFiles' \ writes' : files'[f] = src'.files[f]
    <3>1. \A f \in RootFiles : files[f] = src.files[f]
      BY <1>1 DEF RootKnown, PlanFits
    <3>2. p \notin RootFiles  BY <1>2, <1>3, <1>4
    <3> QED  BY <1>1, <1>3, <1>5, <1>6, <3>1, <3>2
  <2> QED  BY <1>1, <1>2, <1>5, <2>1, <2>2, <2>3, <2>4 DEF PlanFits
<1>9. ~fresh  BY <1>1 DEF RootKnown, FreshKnows
<1>10. OwnersKnown'
  <2> SUFFICES ASSUME kills = 0, faults = 0
               PROVE  /\ (Exact(plan.pkg))' /\ (RestIsAuthors(plan.pkg, plan.state.keys))'
                      /\ \A f \in Files : files'[f] \notin {None, Authored} =>
                            f \in RootFiles' \cup removes'
                      /\ npmrc' \in {"marked", "only"} => Npmrc \in writes' \cup removes'
    BY <1>1 DEF OwnersKnown
  <2>1. /\ Exact(plan.pkg) /\ RestIsAuthors(plan.pkg, plan.state.keys)
        /\ \A f \in Files : files[f] \notin {None, Authored} => f \in RootFiles \cup removes
        /\ npmrc \in {"marked", "only"} => Npmrc \in writes \cup removes
    BY <1>1 DEF RootKnown, OwnersKnown
  <2>2. (Exact(plan.pkg))' /\ (RestIsAuthors(plan.pkg, plan.state.keys))'
    BY <1>1, <1>5, <2>1 DEF Exact, RestIsAuthors
  <2>3. \A f \in Files : files'[f] \notin {None, Authored} => f \in RootFiles' \cup removes'
    BY <1>1, <1>5, <1>6, <2>1
  <2>4. npmrc' \in {"marked", "only"} => Npmrc \in writes' \cup removes'
    BY <1>1, <2>1
  <2> QED  BY <2>2, <2>3, <2>4
<1> QED
  BY <1>1, <1>2, <1>7, <1>8, <1>9, <1>10 DEF RootKnown, FreshKnows, RootIsExact, CheckAgrees

LEMMA FinishKnows ==
    ASSUME IInv, RootKnown, Finish
    PROVE  RootKnown'
<1>1. /\ pc # "idle" /\ pc' = "idle" /\ writes = {} /\ removes = {} /\ result' = "built"
      /\ UNCHANGED <<src, pkg, files, npmrc, state, author, kills, faults>>
  BY DEF Finish, Ends, disk
<1>2. /\ src.enabled \subseteq src.targets /\ Includes(plan.pkg) /\ Describes(plan.state)
      /\ pkg = plan.pkg /\ state = plan.state
      /\ \A f \in RootFiles : files[f] = src.files[f]
  BY <1>1 DEF RootKnown, PlanFits
<1>3. UNCHANGED <<RootFiles, PiEnabled>>  BY <1>1 DEF RootFiles, PiEnabled
<1>4. StateOK' /\ PlanFits'  BY <1>1 DEF RootKnown, StateOK, PlanFits
<1>5. Built'
  <2>1. Built  BY <1>2 DEF Built
  <2> QED  BY <1>1, <1>3, <2>1 DEF Built, Includes, Describes
<1>6. FreshKnows'  BY <1>1, <1>5 DEF FreshKnows
<1>7. ASSUME kills = 0, faults = 0
      PROVE  /\ Exact(pkg) /\ RestIsAuthors(pkg, state.keys)
             /\ \A f \in Files : files[f] \notin {None, Authored} => f \in RootFiles
             /\ npmrc \notin {"marked", "only"}
  BY <1>1, <1>2, <1>7 DEF RootKnown, OwnersKnown
<1>8. OwnersKnown'
  <2>1. state.files = RootFiles  BY <1>2 DEF Describes
  <2> QED  BY <1>1, <1>7, <2>1 DEF OwnersKnown, RestIsAuthors
<1>9. RootIsExact'
  <2> SUFFICES ASSUME kills = 0, faults = 0
               PROVE  /\ Exact(pkg)' /\ npmrc' \notin {"marked", "only"}
                      /\ \A f \in Files : IF f \in RootFiles' THEN files'[f] = src'.files[f]
                                          ELSE files'[f] \in {None, Authored}
    BY <1>1 DEF RootIsExact, Exact
  <2> QED  BY <1>1, <1>2, <1>3, <1>7 DEF Exact
<1> QED  BY <1>1, <1>4, <1>6, <1>8, <1>9 DEF RootKnown, CheckAgrees

\* A build that is interrupted.
LEMMA StopKnows ==
    ASSUME IInv, RootKnown, Fails \/ Kill, kills \in Nat, faults \in Nat
    PROVE  RootKnown'
<1>1. /\ pc # "idle" /\ pc' = "idle" /\ (kills' # 0 \/ faults' # 0)
      /\ result' \in {result, "failed"} /\ (fresh' => fresh)
      /\ UNCHANGED <<src, pkg, files, npmrc, state>>
  <2>1. kills + 1 # 0 /\ faults + 1 # 0  OBVIOUS
  <2>2. CASE Fails
    <3>1. UNCHANGED <<src, pkg, files, npmrc, state>>  BY <2>2 DEF Fails, Ends, disk
    <3>2. fresh' => fresh
      <4>1. fresh' = (fresh \/ "failed" = "built")  BY <2>2 DEF Fails, Ends
      <4>2. "failed" # "built"  OBVIOUS
      <4> QED  BY <4>1, <4>2
    <3>3. /\ pc # "idle" /\ pc' = "idle" /\ faults' = faults + 1 /\ result' = "failed"
      BY <2>2 DEF Fails, Ends
    <3> QED  BY <2>1, <3>1, <3>2, <3>3
  <2>3. CASE Kill
    <3>1. UNCHANGED <<src, pkg, files, npmrc, state, result, fresh>>
      BY <2>3 DEF Kill, disk
    <3>2. /\ pc # "idle" /\ pc' = "idle" /\ kills' = kills + 1  BY <2>3 DEF Kill
    <3> QED  BY <2>1, <3>1, <3>2
  <2> QED  BY <2>2, <2>3
<1>2. result = "none"  BY <1>1 DEF RootKnown, PlanFits
<1>3. StateOK' /\ PlanFits'  BY <1>1 DEF RootKnown, StateOK, PlanFits
<1>4. FreshKnows'
  BY <1>1 DEF RootKnown, FreshKnows, Built, Includes, Describes, RootFiles, PiEnabled
<1> QED  BY <1>1, <1>2, <1>3, <1>4 DEF RootKnown, OwnersKnown, RootIsExact, CheckAgrees

\* The author edits; what the state lists is not counted as the author's.
LEMMA EditKnows ==
    ASSUME IInv, RootKnown,
           EditSources \/ (\E k \in Keys : EditPackage(k)) \/ (\E f \in Files : EditFile(f))
    PROVE  RootKnown'
<1>1. /\ pc = "idle" /\ pc' = "idle" /\ result' = "none" /\ fresh' = FALSE
      /\ UNCHANGED <<npmrc, state, kills, faults>>
  BY DEF EditSources, EditPackage, EditFile, Edit
<1>2. StateOK /\ pkg \in Packages /\ author \in Packages  BY DEF RootKnown, IInv, Typed
<1>3. ASSUME kills = 0, faults = 0
      PROVE  /\ RestIsAuthors(pkg, state.keys)
             /\ \A f \in Files : files[f] \notin {None, Authored} => f \in state.files
             /\ npmrc \in {"marked", "only"} => state.pi /\ state.legacy
  BY <1>1, <1>3 DEF RootKnown, OwnersKnown
<1>4. ASSUME files' \in [Files -> Contents \cup {None, Authored}],
             \A f \in Files : files'[f] = files[f] \/ files'[f] \in {None, Authored},
             \A k \in Keys \ state.keys :
                \/ pkg'[k] = author'[k]
                \/ pkg'[k] = pkg[k] /\ author'[k] = author[k]
      PROVE  RootKnown'
  <2>1. StateOK'  BY <1>1, <1>2, <1>4 DEF StateOK
  <2>2. OwnersKnown'
    <3> SUFFICES ASSUME kills = 0, faults = 0
                 PROVE  /\ (RestIsAuthors(pkg, state.keys))'
                        /\ \A f \in Files : files'[f] \notin {None, Authored} => f \in state'.files
                        /\ npmrc' \in {"marked", "only"} => state'.pi /\ state'.legacy
      BY <1>1 DEF OwnersKnown
    <3> QED  BY <1>1, <1>3, <1>4 DEF RestIsAuthors
  <2> QED  BY <1>1, <2>1, <2>2 DEF RootKnown, PlanFits, FreshKnows, RootIsExact, CheckAgrees
<1>5. CASE EditSources
  <2>1. UNCHANGED <<pkg, files, author>>  BY <1>5 DEF EditSources
  <2> QED  BY <1>2, <1>4, <2>1 DEF StateOK
<1>6. ASSUME NEW k \in Keys, EditPackage(k) PROVE RootKnown'
  <2>1. PICK v \in Allowed[k] \cup {None} :
          /\ pkg' = [pkg EXCEPT ![k] = v]
          /\ author' = [author EXCEPT ![k] = IF k \in state.keys THEN @ ELSE v]
    BY <1>6 DEF EditPackage
  <2>2. files' = files  BY <1>6 DEF EditPackage
  <2>3. \A j \in Keys \ state.keys : \/ pkg'[j] = author'[j]
                                     \/ pkg'[j] = pkg[j] /\ author'[j] = author[j]
    BY <1>2, <2>1 DEF Packages
  <2> QED  BY <1>2, <1>4, <2>2, <2>3 DEF StateOK
<1>7. ASSUME NEW f \in Files, EditFile(f) PROVE RootKnown'
  <2>1. UNCHANGED <<pkg, author>>  BY <1>7 DEF EditFile
  <2>2. PICK c \in {None, Authored} : files' = [files EXCEPT ![f] = c]
    BY <1>7 DEF EditFile
  <2>3. /\ files' \in [Files -> Contents \cup {None, Authored}]
        /\ \A g \in Files : files'[g] = files[g] \/ files'[g] \in {None, Authored}
    BY <1>2, <2>2 DEF StateOK
  <2> QED  BY <1>4, <2>1, <2>3
<1> QED  BY <1>5, <1>6, <1>7

LEMMA StutterKnows == ASSUME RootKnown, UNCHANGED vars PROVE RootKnown'
  BY DEF vars, disk, RootKnown, StateOK, PlanFits, FreshKnows, Built, Includes, Describes,
     OwnersKnown, RestIsAuthors, Exact, RootFiles, PiEnabled, RootIsExact, CheckAgrees

Counted == kills \in Nat /\ faults \in Nat

LEMMA AlwaysCounted == Spec => []Counted
<1>1. Init => Counted  BY DEF Init, Counted
<1>2. Counted /\ [Next]_vars => Counted'
  BY DEF Counted, Next, Reject, Build, Check, WriteOutput, WriteRootFile, RemoveRootFile,
     Finish, Fails, Kill, Ends, Edit, EditSources, EditPackage, EditFile, vars
<1> QED  BY <1>1, <1>2, PTL DEF Spec

LEMMA AlwaysKnown == Spec => []RootKnown
<1>1. Spec => []IInv  BY InitKeeps, NextKeeps, PTL DEF Spec
<1>2. IInv /\ Counted /\ RootKnown /\ [Next]_vars => RootKnown'
  BY CheckKnows, BuildKnows, WriteOutputKnows, WriteKnows, RemoveKnows, FinishKnows,
     StopKnows, EditKnows, StutterKnows DEF Next, Counted
<1> QED  BY <1>1, <1>2, InitRoot, AlwaysCounted, PTL DEF Spec

\* After a build that succeeded, and whenever check says that the root is
\* current, the root is what the sources and the author say, unless a build was
\* interrupted: Prepare takes out all that earlier builds put in, and Write and
\* removeRootFile leave nothing of the plan undone.
THEOREM RootExact == Spec => []RootIsExact
<1>1. RootKnown => RootIsExact  BY DEF RootKnown
<1> QED  BY <1>1, AlwaysKnown, PTL

\* Prepare is a fixed point: until the author edits something, check finds no
\* drift after a build and no later build is rejected, even if later builds are
\* interrupted, and whatever happened before.
THEOREM CheckAgreesWithBuild == Spec => []CheckAgrees
<1>1. RootKnown => CheckAgrees  BY DEF RootKnown
<1> QED  BY <1>1, AlwaysKnown, PTL
=============================================================================
