------------------------- MODULE RootCompatibility -------------------------
(***************************************************************************)
(* The repository-root compatibility files: build merges the generated Pi  *)
(* registration into the author's package.json, writes marketplace markers *)
(* and Codex profiles at the root, and records what it owns in a state     *)
(* file, which the next build uses to take its own entries out again.      *)
(*                                                                         *)
(* package.json is a function of keys: the entry of an array is a key with *)
(* one allowed value, a dependency is a key with its versions.  The order  *)
(* of entries, formatting, symlinks and unreadable files are left out.     *)
(***************************************************************************)
EXTENDS Naturals, FiniteSets

CONSTANTS
    Keys,           \* array entries and dependencies of package.json
    Values,
    Allowed,        \* the values a key may have
    None,           \* no value, no file
    Files,          \* marketplace markers and Codex profiles at the root
    Profiles,       \* the Codex profiles among them
    Owner,          \* the target that generates a file
    Contents,       \* of generated files
    Authored,       \* the content of a file of the author's
    Rank,           \* the byte order of the root paths
    Sources,        \* what the sources and agentbundle.json may say
    LegacyExtension, LegacyDependencies,    \* the v0.5.1 runtime's keys
    Legacy,         \* whether v0.5.1 may have built this repository
    Edits, MaxKills, MaxFaults      \* bounds on the run

Targets == {"claude", "codex", "pi"}
Package == "package.json"
Npmrc == ".npmrc"
State == "state"
Paths == Files \cup {Package, Npmrc, State}
Packages == [Keys -> Values \cup {None}]

\* What a project says: the selected targets, rootManifests, the keys of the
\* generated Pi manifests and the generated files.
ASSUME SourcesAssumption ==
    /\ Sources # {}
    /\ Sources \subseteq [targets : SUBSET Targets, enabled : SUBSET Targets,
                          keys : Packages, files : [Files -> Contents \cup {None}]]

ASSUME RootAssumption ==
    /\ None \notin Values \cup Contents \cup {Authored}
    /\ Authored \notin Contents
    /\ Allowed \in [Keys -> SUBSET Values]
    /\ Profiles \subseteq Files
    /\ Owner \in [Files -> Targets]
    /\ Rank \in [Paths -> Nat]
    /\ Files \cap {Package, Npmrc, State} = {}
    /\ Legacy \in BOOLEAN
    /\ Legacy => LegacyExtension \in Keys /\ LegacyDependencies \subseteq Keys
    /\ LegacyExtension \in Keys => \A s \in Sources : s.keys[LegacyExtension] = None
    /\ {Edits, MaxKills, MaxFaults} \subseteq Nat

VARIABLES
    src,        \* the sources
    pkg,        \* package.json
    files,      \* the other root files
    npmrc,      \* .npmrc: "absent", "authored", "marked" or "only" the mark
    state,      \* .agentbundler/compatibility.json
    pc,         \* "idle", "output" (artifact.Write) or "root"
    plan,       \* what Prepare planned
    writes,     \* its paths still to be written
    removes,    \* and to be removed
    result,     \* of the last command, "none" after an edit
    fresh,      \* nothing was edited since a build succeeded
    author,     \* what the author put into package.json
    edits, kills, faults

disk == <<pkg, files, npmrc, state>>
vars == <<src, disk, pc, plan, writes, removes, result, fresh, author,
          edits, kills, faults>>

States == [present : BOOLEAN, files : SUBSET Files, pi : BOOLEAN,
           keys : SUBSET Keys, legacy : BOOLEAN]
NoState == [present |-> FALSE, files |-> {}, pi |-> FALSE, keys |-> {},
            legacy |-> FALSE]

-----------------------------------------------------------------------------
(* Prepare.                                                                *)

LegacyKeys == LegacyDependencies \cup {LegacyExtension}

\* validateOwnershipAgainstPlan, with validateLegacyPiOwnership.
ValidOwnership ==
    /\ \A f \in state.files \cap Profiles :
         Owner[f] \in src.targets /\ src.files[f] # None
    /\ state.pi =>
         /\ "pi" \in src.targets
         /\ state.legacy <=> LegacyExtension \in state.keys
         /\ state.legacy => npmrc \in {"marked", "only"}
         /\ \A k \in state.keys :
              src.keys[k] # None \/ (state.legacy /\ k \in LegacyKeys)

\* Mutant: entries of the last build stay.
MutantStripped == pkg

\* stripPiOwnership: the keys of the last build go.
Stripped == [k \in Keys |-> IF k \in state.keys THEN None ELSE pkg[k]]

\* Mutant: the generated version wins.
MutantNoCollision == FALSE

\* mergePiDependencies refuses another version of a dependency.
Collision ==
    \E k \in Keys : src.keys[k] # None /\ Stripped[k] \notin {None, src.keys[k]}

\* mergePiDependencies, mergePiManifest: what is there already stays.
Merged ==
    [k \in Keys |-> IF src.keys[k] # None THEN src.keys[k] ELSE Stripped[k]]

\* Mutant: the merge looks at the root as it was before the strip.
MutantNewKeys == {k \in Keys : src.keys[k] # None /\ pkg[k] = None}

\* What the merge adds is owned.
MergedKeys == {k \in Keys : src.keys[k] # None /\ Stripped[k] = None}

PiEnabled == "pi" \in src.enabled
RootFiles == {f \in Files : Owner[f] \in src.enabled /\ src.files[f] # None}

Desired ==
    [present |-> RootFiles # {} \/ PiEnabled,
     files |-> RootFiles,
     pi |-> PiEnabled,
     keys |-> IF PiEnabled THEN MergedKeys ELSE {},
     legacy |-> FALSE]

Rejected ==
    \/ ~ValidOwnership
    \/ ~(src.enabled \subseteq src.targets)
    \/ PiEnabled /\ Collision

NewPackage ==
    IF PiEnabled THEN Merged ELSE IF state.pi THEN Stripped ELSE pkg

\* cleanupPiNPMRC.
LegacyNpmrc == state.pi /\ state.legacy

\* The plan: new contents, the paths to write and the stale paths to remove.
Prepared == [pkg |-> NewPackage, files |-> src.files, state |-> Desired]

PlannedWrites ==
    RootFiles
    \cup {p \in {Package} : PiEnabled \/ NewPackage # pkg}
    \cup {p \in {Npmrc} : LegacyNpmrc /\ npmrc = "marked"}
    \cup {p \in {State} : Desired.present}

PlannedRemoves ==
    (state.files \ RootFiles)
    \cup {p \in {Npmrc} : LegacyNpmrc /\ npmrc = "only"}
    \cup {p \in {State} : state.present /\ ~Desired.present}

-----------------------------------------------------------------------------
(* Compile's last steps.                                                   *)

\* Prepare fails: build, or check, reports it and writes nothing.
Reject ==
    /\ pc = "idle"
    /\ Rejected
    /\ result' = "rejected"
    /\ UNCHANGED <<src, disk, pc, plan, writes, removes, fresh, author, edits,
                   kills, faults>>

Build ==
    /\ pc = "idle"
    /\ ~Rejected
    /\ pc' = "output"
    /\ plan' = Prepared
    /\ writes' = PlannedWrites
    /\ removes' = PlannedRemoves
    /\ result' = "none"
    /\ UNCHANGED <<src, disk, fresh, author, edits, kills, faults>>

\* Compare: a planned file differs from the root's, or a stale one is there.
Drift ==
    \/ Package \in PlannedWrites /\ NewPackage # pkg
    \/ \E f \in RootFiles : files[f] # src.files[f]
    \/ Npmrc \in PlannedWrites
    \/ State \in PlannedWrites /\ Desired # state
    \/ \E f \in PlannedRemoves \cap Files : files[f] # None
    \/ PlannedRemoves \cap {Npmrc, State} # {}

Check ==
    /\ pc = "idle"
    /\ ~Rejected
    /\ result' = IF Drift THEN "drift" ELSE "current"
    /\ UNCHANGED <<src, disk, pc, plan, writes, removes, fresh, author, edits,
                   kills, faults>>

\* artifact.Write replaces the output root; if it fails the root is not
\* written.
WriteOutput ==
    /\ pc = "output"
    /\ pc' = "root"
    /\ UNCHANGED <<src, disk, plan, writes, removes, result, fresh, author,
                   edits, kills, faults>>

Ends(r) ==
    /\ pc' = "idle"
    /\ result' = r
    /\ fresh' = (fresh \/ r = "built")
    /\ writes' = {}
    /\ removes' = {}
    /\ UNCHANGED <<src, plan, author, edits, kills>>

\* Write's order: the byte order of paths, but the state last.
First(S) ==
    CHOOSE p \in S : \A q \in S : q = State \/ (p # State /\ Rank[p] <= Rank[q])

\* writeRootFile replaces a file by a rename; one that is current stays.
WriteRootFile ==
    /\ pc = "root"
    /\ writes # {}
    /\ LET p == First(writes) IN
         /\ writes' = writes \ {p}
         /\ pkg' = IF p = Package THEN plan.pkg ELSE pkg
         /\ npmrc' = IF p = Npmrc THEN "authored" ELSE npmrc
         /\ state' = IF p = State THEN plan.state ELSE state
         /\ files' = [f \in Files |-> IF f = p THEN plan.files[f] ELSE files[f]]
    /\ UNCHANGED <<src, pc, plan, removes, result, fresh, author, edits, kills,
                   faults>>

\* removeRootFile: a file that is gone already is no error.
RemoveRootFile ==
    /\ pc = "root"
    /\ writes = {}
    /\ removes # {}
    /\ LET p == First(removes) IN
         /\ removes' = removes \ {p}
         /\ npmrc' = IF p = Npmrc THEN "absent" ELSE npmrc
         /\ state' = IF p = State THEN NoState ELSE state
         /\ files' = [f \in Files |-> IF f = p THEN None ELSE files[f]]
    /\ UNCHANGED <<src, pkg, pc, plan, writes, result, fresh, author, edits,
                   kills, faults>>

Finish ==
    /\ pc = "root"
    /\ writes = {} /\ removes = {}
    /\ Ends("built")
    /\ UNCHANGED <<disk, faults>>

\* A file operation fails: Compile reports it and stops where it is.
Fails ==
    /\ pc # "idle"
    /\ pc = "output" \/ writes \cup removes # {}
    /\ faults < MaxFaults
    /\ faults' = faults + 1
    /\ Ends("failed")
    /\ UNCHANGED disk

Kill ==
    /\ pc # "idle"
    /\ kills < MaxKills
    /\ kills' = kills + 1
    /\ pc' = "idle"
    /\ writes' = {} /\ removes' = {}
    /\ UNCHANGED <<src, disk, plan, result, fresh, author, edits, faults>>

-----------------------------------------------------------------------------
(* The author, between commands.                                           *)

Edit ==
    /\ pc = "idle"
    /\ edits < Edits
    /\ edits' = edits + 1
    /\ result' = "none"
    /\ fresh' = FALSE
    /\ UNCHANGED <<npmrc, state, pc, plan, writes, removes, kills, faults>>

EditSources ==
    /\ Edit
    /\ src' \in Sources
    /\ UNCHANGED <<pkg, files, author>>

\* A key that the state lists counts as the compiler's, whoever wrote it.
EditPackage(k) ==
    /\ Edit
    /\ \E v \in Allowed[k] \cup {None} :
         /\ pkg' = [pkg EXCEPT ![k] = v]
         /\ author' = [author EXCEPT ![k] = IF k \in state.keys THEN @ ELSE v]
    /\ UNCHANGED <<src, files>>

EditFile(f) ==
    /\ Edit
    /\ files' \in {[files EXCEPT ![f] = c] : c \in {None, Authored}}
    /\ UNCHANGED <<src, pkg, author>>

-----------------------------------------------------------------------------

\* A project that no build has seen, with whatever the author put at the root.
NewProject ==
    /\ state = NoState
    /\ pkg \in {q \in Packages : \A k \in Keys : q[k] \in Allowed[k] \cup {None}}
    /\ author = pkg
    /\ npmrc = "absent"
    /\ files \in [Files -> {None, Authored}]

\* A project that v0.5.1 built: it owned its runtime's keys and the generated
\* ones that the author does not have, and marked .npmrc.
LegacyProject ==
    LET owned(q) == {k \in Keys : (src.keys[k] # None \/ k \in LegacyKeys)
                                    /\ q[k] = None}
    IN  \E q \in Packages :
          /\ \A k \in Keys : q[k] \in Allowed[k] \cup {None}
          /\ q[LegacyExtension] = None
          /\ author = q
          /\ state = [present |-> TRUE, files |-> {}, pi |-> TRUE,
                      keys |-> owned(q), legacy |-> TRUE]
          /\ pkg \in {r \in Packages : \A k \in Keys :
                        IF k \in owned(q) THEN r[k] \in Allowed[k] ELSE r[k] = q[k]}
          /\ npmrc \in {"marked", "only"}
          /\ files = [f \in Files |-> None]

Init ==
    /\ src \in Sources
    /\ NewProject \/ (Legacy /\ LegacyProject)
    /\ pc = "idle"
    /\ plan = Prepared
    /\ writes = {} /\ removes = {}
    /\ result = "none"
    /\ fresh = FALSE
    /\ edits = 0 /\ kills = 0 /\ faults = 0

Next ==
    \/ Reject \/ Build \/ Check \/ WriteOutput
    \/ WriteRootFile \/ RemoveRootFile \/ Finish \/ Fails \/ Kill
    \/ EditSources
    \/ (\E k \in Keys : EditPackage(k))
    \/ (\E f \in Files : EditFile(f))

Spec == Init /\ [][Next]_vars

-----------------------------------------------------------------------------
(* Properties.                                                             *)

\* What the author put into package.json stays, with its value, through any
\* sequence of builds, edits of the sources, failures and kills; and the state
\* never claims it.
AuthorsKept ==
    \A k \in Keys :
        author[k] # None => pkg[k] = author[k] /\ k \notin state.keys

\* After a build that succeeded, and whenever check says "current", the root
\* is what the sources and the author say: every enabled key and file is
\* there, nothing of an earlier build is left in package.json, every file of
\* an earlier build that is no longer enabled is gone, and so is the v0.5.1
\* mark of .npmrc.  A build that was interrupted before the state was written
\* has no owner: what it left is left out.
RootIsExact ==
    result \in {"built", "current"} /\ kills = 0 /\ faults = 0 =>
        /\ \A k \in Keys :
             pkg[k] = IF PiEnabled /\ src.keys[k] # None THEN src.keys[k]
                      ELSE author[k]
        /\ \A f \in Files :
             IF f \in RootFiles THEN files[f] = src.files[f]
             ELSE files[f] \in {None, Authored}
        /\ npmrc \notin {"marked", "only"}

\* Nothing was edited since a build succeeded: check finds no drift and no
\* later build is rejected, whatever happened before that build.
CheckAgrees == fresh => result \notin {"drift", "rejected"}
=============================================================================
