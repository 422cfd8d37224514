# A formal model of Agent Bundler

Agent Bundler (`agbun`) reads portable sources of coding-agent packages
(skills, agents, commands, hooks), composes and renders them for several vendors'
tools, and writes the result below one output root of the repository. `agbun check`
compares that output with the sources and changes nothing, `agbun package` makes
release archives of it. A Pi package with hooks carries a small TypeScript runtime
that runs the hooks inside the Pi agent.

The program is a compiler around a few dangerous effects: replacing a directory
that the user has committed, merging into `package.json`, publishing archives, and
running hook commands under a deadline. The compiler part is sequential and pure.
The effects meet concurrent commands, kills, power losses, failing operations and
edits in between; the compiler meets every combination of manifests, overlays and
policies that an author can write. The modules cover both, the effects by
interleaving, the compiler by going through families of sources.

## The system

| Part | State it keeps | Operations | What is hard | What makes it correct |
| --- | --- | --- | --- | --- |
| Command line, `cmd/agbun` | none | `build`, `check`, `package`; selections; exit status | statuses must tell the truth about four effects | exit 0 means current, 2 means drift |
| Orchestration, `internal/compiler` | one result under way | import all, render all, then write or compare | a late failure must not leave half a selection | nothing is written unless everything rendered |
| Layout guard, `artifact/layout.go` | canonical roots | construct, revalidate | links that change after the check | source and output never overlap |
| Output facade, `artifact/artifact.go` | none | `Write`, `Compare`, `Archive`, `validatePlan` | what counts as a difference | build leaves exactly the plan |
| Comparator, `artifact/compare` | none | by pathname, or below a pinned root | edits between walk and reading | every difference is named |
| Writer, `artifact/write` | staging and backup trees, a journal | `ReplaceOutput` (journalled), `ReplaceOutputInRoot` (pinned) | kills, power losses, failing operations, concurrent builds | the output is whole, and old or new |
| Archives, `artifact/archive` | temporary files | pin, create, encode, publish | moved directories, two commands | an archive is whole and is the plan's |
| Native checks, `artifact/nativeverify` | an isolated home, two bounded streams | run each check with a deadline | deadline against exit, pipes that stay open | every check ends, and its verdict says how |
| Root compatibility, `internal/compatibility` | `.agentbundler` state file at the root | `Prepare`, `Write`, `Compare` | edits between builds, kills between files, migration | what the author wrote is kept |
| Pi hook runtime, `target/pi/runtime` | active runs, the end of the session | events, cancellation, shutdown | concurrent events, races of deadline, abort and exit | decisions are sound, everything ends |
| Importers, `compiler/source` | none | read sources into an inventory | what is read but not recorded, what silently wins | the inventory says all that the sources say |
| Composition, `compiler/composition` | none | gaps, capabilities, overlays, patches | three selections that must agree, sections that nest | no asset is lost without a policy, no weak capability is silent |
| Model, `compiler/model` | none | decode, validate, clone, order | references, case folding | what is invalid is refused |
| Codecs and rendering, `internal/target` | none | check, lay out and encode for a vendor | paths that collide, hooks of several packages | catalogs lead to packages, hooks run in their order |
| Provenance, `artifact/provenance` | none | digest the inputs and outputs | an input that is missing | equal inputs, equal plan |

One call of `compiler.Compile` passes through them in this order: manifest, guard,
import, composition and rendering per target, provenance, preparation of the root
files; then `artifact.Write` and `compatibility.Write`, or `artifact.Compare`,
`compatibility.Compare` and native checks. `package` is a `check` whose plan is
archived if nothing was reported. The parts call each other directly. They share the
file system, and with it they interact with other commands and with the user. The Pi runtime is generated code that runs
elsewhere, in one JavaScript thread, and talks to child processes.

`PROJECT.json` lists each part with its status, and under `hazards` what in it is
hard to test, with the properties that cover it.

## Modules

```
OutputReplacement  <=  OutputJournal      HookRun  <=  HookProcess
                       PinnedOutput                    PiHookRuntime
                       GeneratedOutput
                       RootCompatibility     LayoutGuard  <-  WorkspaceLayout
                       ReleaseArchive        Commands
                       NativeVerify

SourceModel  <-  Composition   <-  Rendering  <-  Compilation
             <-  VendorCodecs  <-  Rendering
             <-  BundleSource  <-                 Compilation
```

`A <= B`: B is shown to implement A by a refinement mapping. `A <- B`: B extends A.
`MC...` modules give TLC its constants. `...Proofs` modules hold theorems (ProcessProofs
those of HookProcess and of NativeVerify). Commands composes one level up:
each of its effects is one step that may stop half way, and what such a step does
inside is the subject of the module for that effect. Its assumption about the
output is what PinnedOutput checks (a call leaves the old tree, the new one, or none),
about the root what RootCompatibility checks, about archives what
ReleaseArchive checks; native checks have any outcome, which NativeVerify explains.

### OutputReplacement and OutputJournal: `write.ReplaceOutput`

The abstract module says what a caller may rely on: the output root holds a complete
tree, a call in progress may change it once, to its own plan, and what was
acknowledged survives power losses. The detailed module follows `write.go`: stage,
prepare the journal, exchange the two directories atomically where
the platform can, else rename twice with a journal phase after each; roll back on
errors; remove the backup; remove the journal. `recoverJournal` runs at the start of
each call and after kills. Its state:

- `fs`: the parent directory as one record (output, staging and backup trees,
  journal, the journal's temporary file). A tree is a plan or a partial one.
- `disk`: every state that a power loss may leave, that is the states of `fs` since
  the directory was last synced. Metadata is taken to reach the disk in the order of
  the operations, as on journalling file systems.
- `pc` and the variables of the call.

The production path of `agbun build` does not use the journal; the package exports it
and its tests and `module.md` describe it. (`docs/architecture.md` says that build
writes through a staging and journal path.)

### PinnedOutput: `artifact.Write` and `write.ReplaceOutputInRoot`

What `agbun build` does: observe the output below a pinned parent, leave it if
nothing differs, else stage the plan, rename the old output away, rename the staged
tree into place, remove the backup, sync. Several builders interleave at every system
call, with kills, power losses and failing operations. Comparison is split into the
walk and the reading of files. Nothing recovers, and the module says what then
holds: no partial tree is ever visible, and a complete tree always survives
somewhere. The guard's revalidation is a refusal that may happen.

### GeneratedOutput: `validatePlan`, the two comparators, build and check

A tree is a function from paths to files and directories. Build and check are
operators of it, with the two ways of observing the output (by path and below a
pinned parent) kept apart, as in the code, because they differ. Anybody edits the
output, and the sources compile to another plan. Left out: reserved names and
Windows, symbolic links below the output.

### HookRun, HookProcess, PiHookRuntime: `internal/target/pi/runtime`

HookRun is one run of a hook as its caller sees it: one cause at most, one
settlement. HookProcess is `runProcess` with its timers, listeners, streams, the
process group and a daemon outside it; an action is one callback, or one step of the
operating system. PiHookRuntime is `createPiHookRuntime` over runs that behave like
HookRun: an action is the code from one `await` to the next. Several events are
under way at once, are cancelled, and the session ends and is shut down at any
time. Matching a tool name, decoding JSON decisions and merging inputs are
values of small sets; `process.ts`'s environment and argument quoting are left out.

### RootCompatibility: `internal/compatibility`

`package.json` is a function of keys. An array entry is a key with one possible
value, a dependency a key with versions; each key knows who wrote it in the history
variable the properties use. Markers and Codex profiles are whole files, the state
file is the record of what the last build owned. `Write` is one step per file, in the
code's order. Left out: the order of arrays, formatting, symbolic links, path safety
and the rewriting of sources in marketplaces. The author edits between commands.

### ReleaseArchive: `artifact.Archive` and `artifact/archive`

Directories and base directories are identities, so that a path may lead elsewhere
from one step to the next. A command pins the longest existing ancestor, creates the
destination below it, checks names, stems and units of every target, then writes,
compares and publishes one archive after the other; a plan without archives succeeds
with nothing written. `strayed` is kept for the commands that will check the path
again (`WillCheck`). Left out: more than one missing path component, the bytes of
tar and gzip (an archive is its entries), power losses (nothing is synced), a
directory in the way of an archive's name, and a failing removal of a temporary file.

### NativeVerify: `nativeverify.RunNativeChecks`

One check after the other: refused before it starts, or started, waited for and
judged. `os/exec` is modelled from how the code configures it: the deadline kills the
command and nobody else, the wait delay closes pipes that somebody still holds, a
goroutine per stream copies chunks of any size into `boundedOutput`. `fate`, a
history variable, says what happened to each check, and the diagnostics must agree
with it. Left out: the isolated environment and the wording of diagnostics.

### Commands: `cmd/agbun` and `compiler.Compile`

The versions of the packages, the plan in the output, at the root and in the
archives. A command imports every package in a step of its own, so that edits fall
in between, renders, prepares, and then writes or compares. Failures and kills leave
an effect half done. A plan is which targets it covers and which versions it read.

### LayoutGuard, WorkspaceLayout: `artifact.WorkspaceLayoutGuard` and its callers

LayoutGuard is what is asked of a file system. That is directories with names that lead
to a directory, a link or nothing; `Resolve` follows links as `filepath.EvalSymlinks`
does, up to a number of them, and lookup may fold case. The guard's construction and
`revalidateRoots` are operators of it, with the canonical form of a path that does not
exist yet. WorkspaceLayout is the three commands, as the sequence of calls that
`compiler.go`, `artifact.go` and `archive.go` make, each call one action, with
`RevalidateOutputRoot` and the containment check of an archive destination; somebody may
change what a name leads to between any two. `spared`, a history variable, keeps the
directories that the command has imported. Left out: permission errors, relative link
targets, files, and hard links to directories: a directory has one name in one
other, which is `Forest`.

### SourceModel, BundleSource, Composition, VendorCodecs, Rendering, Compilation

The compiler, as operators that say what it accepts and what it returns.

- SourceModel: the validation of `compiler/model`: what a manifest, an inventory, a
  composed package, a render input and a plan must be, and the order of hooks.
- BundleSource: `InspectBundleRoot` over a tree of paths: how a path is classified,
  where its sidecar is, which of its files are support files, which overlay wins, what a
  hook's payload implies, and the recorded inputs.
- Composition: `Compose`: which native gaps are open and how policies close them,
  capability rules with their acknowledgments, overlays (frontmatter patches with
  null, section patches on lines, joined as text with nothing between them, files inline,
  brought and deleted), preambles.
- VendorCodecs: a record per vendor (`Codecs`): capabilities, paths, events, matchers,
  and what its hook manifest says of a hook.
- Rendering: `packageoutput`, `plugin`, `marketplace` and `pi`: one package, several,
  projects and aggregates; each check of a renderer is a conjunct of `RenderFits`.
- Compilation: `compiler.Compile` up to the plan as a state machine: validate, select
  targets, import, select packages, render target after target, finish. A failure of any
  of them refuses the request. It composes the five above.

A text, a name or a payload is an atom or says where it came from, so that files which
the program must not mix up differ; encodings, quoting and wording are left out. A body
is a sequence of lines that are headings, fences or text; the last need not be ended, and
what is joined to such a line goes on with it (`JoinLines`).

The properties compare a plan with the tree of the author by definitions of their own:
which files an author's asset has, in which order hooks must run, what a patched
body is, what else a plan might depend on. They do not go through the importer and
the composer they check. `SectionsAreExact` computes the outline of a body from
above, line by line, as a map from levels to headings; the code searches for a heading
and then for the one that ends its section. It speaks of patches of which none is
inside another: of nested ones the inner replaces a part of what the outer one has
taken out, and which of them wins is a question of their order in the file. It has two
halves. The text is always that of the pieces, the author's and the patches', in their
places, joined with nothing between them. That these pieces are also its lines, so that each
heading is still a heading and no section runs into another, holds where
a patch brings whole lines for a heading that is a whole line (`EndsLines`); the code asks for
neither, and elsewhere a section is lost (below).

## Runs

Each configuration asks one question. Constants are small because the properties
relate at most two plans, two commands or two interruptions at a time, or, in the
compiler, up to three hooks, two packages and two patches of one body; what each
bound lets happen is said in the last column.

| Run | Configuration | Shows | Bounds |
| --- | --- | --- | --- |
| `journal` | `OutputJournal_journal.cfg`, passes: OnlyWholeOutcomes, BackupsAreJournalled, RecoveryAcceptsOneInterruption, ReplacementIsAtomic, ForgottenBackupsAreSpare | With one failing file operation and two kills or power losses, ReplaceOutput is an atomic and durable replacement: no partial or lost tree, and no backup forgotten but where an operation failed, which then is not needed. | Two plans, two transactions, one failing operation, two kills or power losses: a replacement fails, is interrupted, its recovery is interrupted, and another call recovers. |
| `pinned_two` | `PinnedOutput_two.cfg`, passes: OutputIsWhole, CompleteTreeSurvives | Two concurrent builds with one failing operation and one kill or power loss: no partial output, and a complete tree always survives somewhere. | Two builders, two plans, one failing operation, one kill: each builder may find, lose or overwrite the other's tree. |
| `generated_edits` | `GeneratedOutput_edits.cfg`, passes: BuildIsExact, CheckNamesEveryDifference | Over every tree of two names and two levels and plans with and without collisions, build leaves exactly the plan's tree, and check names every difference once. | Paths of two components over three names of which two fold to one; a file in the way of a directory and the reverse, extra entries at each level, modes and contents. Edits use two of the names. |
| `generated_own_name` | `GeneratedOutput_own_name.cfg`, is violated: BuildIsExact | An entry below the output root that has the output root's own name is invisible to build, which reports the output as current. | As before, and one of the names is the output root's. |
| `hook_process` | `HookProcess_process.cfg`, passes: SettledIsClean, StaysBounded, SettlesOnceForOneCause, SettlesInTime | However timeout, abort, output, errors and exits race, a run settles once, for its first cause, in time and with nothing left behind, if the command leaves no daemon. | Streams of two chunks, so that each may be below, at and above its limit; no process leaves the group. |
| `hooks` | `PiHookRuntime_events.cfg`, passes: DecisionIsSound, ShutdownIsQuiet, ClosedStartsNothing, EverythingEnds | Two concurrent events, tool calls or ends of the session, over open, closed and asynchronous hooks, with cancellation and shutdown at any time: decisions are the hooks' own, a closed runtime starts nothing and everything ends. | Three kinds of hook (open, closed, asynchronous), one of them at the session's end twice, and two events under way at once. |
| `root_builds` | `RootCompatibility_builds.cfg`, passes: AuthorsKept, RootIsExact, CheckAgrees | New projects and projects that v0.5.1 built, through two edits, a failing operation and a kill: the author's package.json is safe, an undisturbed build leaves exactly what the sources and the author say, and check agrees. | Two edits (of the sources, by the author or of a file), a kill and a failing write, starting from a new project or one that v0.5.1 built; two versions of a dependency, a marker and a profile. |
| `archive` | `ReleaseArchive_commands.cfg`, passes: SuccessPublishesPlan, MovedFailsClosed, ArchivesAreWhole, UnchangedIsKept | Two package commands, at the same time or in a row, with good and bad plans, a fault, a kill, and a directory moved or an archive edited: success means exactly the plan's files, archives are whole. | Two commands at once, one run each after the other or together, two base directories, three directories, one move, one failure, one kill; plans with good and bad names, two stems that fold to one, units that overlap, files without a unit, and no files at all. |
| `commands` | `Commands_workspace.cfg`, passes: OutputIsWholeSelection, ExitTellsState, RootComesFromOutput, ArchivesComeFromOutput | Two commands of any kind and selection, with and without root compatibility, over two packages, with one edit, one failure and one kill anywhere. | Two commands over two packages and two targets, one edit, one failure, one kill: one command that fails and one that repairs or archives. |
| `native` | `NativeVerify_checks.cfg`, passes: VerdictIsSound, VerificationReturns | Two checks whose deadline, exit, kill, left-over processes and wait delay race: the verdict names what happened to each, and verification returns. | Two checks, streams of up to three chunks and a limit of two. |
| `layout` | `WorkspaceLayout_layout.cfg`, passes: GuardSeparatesRoots, WriteSparesSources, ArchivesStayApart | build, check and package of twenty pairs of roots on six file systems with aliases, cycles and dangling links, with and without folded case, with one change by somebody else between any two calls. | 120 requests over six file systems (an alias of the source, of a directory in it, of the output, a cycle, a dangling link), with lookup that folds case and that does not, and one edit between any two calls. |
| `compile` | `Compilation_compile.cfg`, passes: NothingIsLost, OthersStayOut, LossIsAcknowledged, HookManifestIsExact, SectionsAreExact, ProvenanceIsComplete, CatalogsFindPackages | Compilations of eight families of bundles, each a product of choices about one part of the pipeline: bodies, frontmatter, files, capabilities, native gaps, hooks, catalogs and aggregates, for seven targets. | 3872 requests in eight families: bodies with one or two section patches, each with or without the end of its last line, as the heading that ends the body, and preambles with and without it, frontmatter patches, files of four kinds of asset with overlays, capability rules with acknowledgments, native gaps with policies and selections, three hooks in one or two packages, distributions with root manifests, aggregates. Each family goes through the product of its choices, up to five targets at a time. |

Deadlock is checked where a call or an event can always follow. It is off where the
bounds on commands, edits and kills let the system come to rest.

Symmetry is used where no liveness is checked: builders, plans and suffixes in
PinnedOutput, commands and directories in ReleaseArchive.

Type invariants are proved (`TypeCorrect`, `HookTypes`) rather than run; what the
runs check are the properties that a wrong order of steps would break.

### Fairness

- `HookProcess!FairSpec`: timers that are due fire, the kernel delivers SIGKILL to
  the group, Node reports a child whose pipes are closed. No fairness for the
  command: it may never end by itself.
- `PiHookRuntime!FairRuntimeSpec`: a run that was started settles (what HookProcess shows
  when no daemon is left) and JavaScript resumes a settled promise. Pi owes nothing.
- `NativeVerify!FairVerifySpec`: the runner goes on, the deadline and the wait delay pass,
  and the kill is delivered. No fairness for the validator, for what it leaves
  behind, or for the copying of its output.

### Violations

One run states a sentence of the repository's documentation that the code does
not keep, and TLC refutes it:

- `generated_own_name` (BuildIsExact): outputEntriesInRoot records the output root under its own name and deletes that name after the walk, so that an unplanned file dist/dist below an output root dist is not reported as extra: build returns success and keeps it, while check, which walks by pathname, reports it for ever. src/internal/artifact/compare/module.md:47 says: "Extra valid vendor files are still drift because the build plan owns the complete selected output."

### Other places where code and text differ

Met while modelling and not a run of their own. The models follow the code, and the
properties are stated so that they say what does hold.

The effects:

- `artifact.go:62` says that `Write` atomically replaces the output root, and
  `write/module.md:48` that a failure cannot delete the last complete output.
  `ReplaceOutputInRoot` renames the output root to its backup (`write.go:123`) and the
  staging tree to the output root (`write.go:128`) without a journal. Killed in
  between, it leaves no output root, no later call looks for the backup, and check
  fails to observe the output. `CompleteTreeSurvives` says what holds: the tree is
  still there, as a backup.
- `docs/repository-root-compatibility.md:99` says that the next build removes the
  entries of the last before it merges the new manifest. `validateOwnershipAgainstPlan`
  (`compatibility.go:290`) judges what the last build owned by the manifest generated
  now: a skill, an extension or a dependency that left the sources, or Pi that left the
  targets, makes build fail with `compatibility-ownership-invalid` until the
  state file is edited by hand. In the model those builds are rejected, and
  `RootIsExact` speaks of the others.
- `write/module.md:34` calls recovery idempotent. `recoverJournal` (`write.go:631`)
  removes the staging tree of a prepared journal before the journal; killed in
  between, each later recovery finds an output root without a staging tree and
  returns an error. `RecoveryAcceptsOneInterruption` states what does hold: one
  interruption of a call, recovery included, is always recovered from.
- `write/module.md:56` says that a failing replacement preserves the prior output. On
  the pinned path a failing sync (`write.go:137`) is an error after the prior tree is gone.
- `docs/architecture.md:110` says that build writes through the journal; it writes
  through the pinned path, which has none.
- `pi/module.md:56` says that session-end hooks are waited for until they end or time
  out. A process that left the group and holds the pipes keeps a run pending after
  its timeout (`process.ts:117`), which `SettlesInTime` excludes by its assumption that there is none.
- It also says that explicit runtime shutdown aborts session-end work. `shutdown()` aborts the
  hooks that run (`runtime.ts:192`), but the loop over the hooks of the session's end is
  called so that it does not ask whether the runtime is closed (`runtime.ts:105`): the
  remaining ones start all the same, and nothing aborts them. `ClosedStartsNothing` exempts the
  dispatch that ends the session for that reason, after an explicit shutdown too.
- `docs/repository-root-compatibility.md:99` says that the next build removes the
  entries of the last. `package.json` is replaced before the state file
  (`files.go:72`); killed in between, a build leaves entries that nobody owns, and if
  the sources stop generating them no build takes them out.
- `docs/repository-root-compatibility.md:110` says that regenerating removes the
  v0.5.1 setting from `.npmrc`. A migration killed after `.npmrc` was cleaned leaves
  a state that still refers to it, and `npmrc.go:35` then rejects every build.
- `archive/module.md:47` says that names are validated before the output directory is
  created. The directory is pinned and created first (`artifact.go:112`).
- `compiler/module.md:69` says that native checks run only after an exact comparison.
  They run when there is no drift, which a failed observation does not set
  (`compiler.go:171`).

The layout guard:

- `package` makes a second guard for its archives (`cmd/agbun/main.go:108`), which knows
  nothing of the first. An alias of the source that changes between compilation and
  archiving lets archives land in the directory that was imported; `ArchivesStayApart`
  speaks of the roots that the second guard saw.
- The guard accepts an output root that is a dangling link into the source
  (`layout.go:229` takes it for a name
  that does not exist); `noSymlinkComponents` refuses it later.
- `samePath` falls back on the identity of files (`layout.go:197`): a source directory
  that was replaced by a link to where it had been moved passes `Revalidate`.
- A change that is taken back before the next check is not noticed; hence one edit
  (`MaxEdits = 1`) in the run, and in the theorems on builds and archives. With
  `MaxEdits = 2` TLC finds a build that pins a directory of its sources: the output's
  parent becomes a link to them after one check and a directory before the next.

The compiler:

- `docs/architecture.md:130` and `target/module.md:65` say that nothing is silently dropped or
  omitted. The files that an overlay gives to an agent are: no renderer looks at them. So is a
  `SKILL.md` at the top of a resource or of a native resource of another
  target than Antigravity (`readSupportFiles`), and whatever lies in `targets/<t>/`
  outside `files/`. A resource whose path is a regular file is imported without any
  file, and that file is not a recorded input.
- `docs/customization.md` says that headings in fenced code are ignored. The search
  for a section's start ignores them, the search for its end does not.
- `skills/agentbundler/SKILL.md:184` says that a section replacement keeps the heading and
  replaces its body until the next heading. `applySectionPatches` inserts the body of a
  patch as it is and joins the lines with nothing between them (`composition.go:464`). One
  without a newline at its end (`validation.go:789` accepts it, `composition_test.go:153`
  has one) shares its last line with the next heading, which is then no heading any more:
  the section after the patched one becomes a part of it. Likewise, a patched heading that
  is the last line of its file, without a newline, has the new body on its own line.
- `docs/customization.md` also says that overlapping section paths fail. `composition.go:460` compares
  intervals of lines and misses a patch nested in another whose heading is the last
  line of the outer section.
- A null nested in an object that a frontmatter patch brings in whole stays in the
  result as a null (`customization.md:72` says that null deletes).
- The replacement that a policy names for a native gap may itself be excluded by
  another gap (`composition.go:211` looks at its targets only).
- `--package` together with a policy for a component of another package is refused, for
  the policy is then unused.
- An overlay may delete a command's description: composition accepts that and the
  renderer refuses it.
- `codexHooksCanMatchTogether` compares portable tool categories, while `codexMatcher`
  maps write and edit to the same native tools (`codec.go:267`, `codec.go:331`): two
  hooks that Codex runs for one call may pass as disjoint.
- Codex's packages leave agents out and keep their acknowledgments, and rendering
  refuses an acknowledgment of an asset it does not know. Likewise, a capability that a
  manifest narrows from native to advisory cannot be rendered in the package profile
  (`docs/agent-plugins-architecture.md:302` says that narrowing is allowed).
- Provenance records the acknowledgments of assets that a target does not ship, and
  its check for a collision refuses a file `.agentbundler/build.json` of any target
  although it lies in that target's own directory.
- Two hooks of one file each share `hooks/.agentbundler`: an acknowledgment in the
  overlay there names one of them and is refused for the other.
- An Antigravity native file whose name is that of a rendered directory, such as
  `skills`, makes a file and a directory of one path. Only the write fails.

## Theorems

| Theorem | Module | States | 
| --- | --- | --- |
| TypeCorrect | OutputJournalProofs | Every variable keeps its type, for any plans, transactions and bounds on failures. |
| Inductive | OutputJournalProofs | The inductive invariant: what each point of a call knows of the directory, and that every state the disk may hold is sound. |
| OutputSafe (OnlyWholeOutcomes) | OutputJournalProofs | No failure, kill or power loss exposes a partial tree, loses the last complete output or takes back an acknowledged replacement. |
| Refinement (ReplacementIsAtomic) | OutputJournalProofs | ReplaceOutput with its journal implements the atomic and durable replacement of OutputReplacement. |
| BackupsJournalled (BackupsAreJournalled) | OutputJournalProofs | However often calls are killed or lose power, unless an operation fails as well, every backup that is there is the one the journal names. |
| OneInterruption (RecoveryAcceptsOneInterruption) | OutputJournalProofs | After one kill or power loss at any point of a call, for any plans and transactions, recovery accepts the directory it finds. |
| ForgottenIsSpare (ForgottenBackupsAreSpare) | OutputJournalProofs | Whatever fails, is killed or loses power, for any plans and bounds: where a failed removal left a backup that no journal names, there is an output, or recovery restores one. |
| PinnedInvariant | PinnedProofs | The inductive invariant of the builders: a builder in its call has a suffix that no other one has, what it knows of the trees with that suffix stays true, and builders that remove their backups leave a complete tree elsewhere. |
| PinnedOutputWhole (OutputIsWhole) | PinnedProofs | However many builders interleave, fail, are killed or lose power, neither the output root nor what a power loss may leave of it is ever a partial tree. |
| TreeSurvives (CompleteTreeSurvives) | PinnedProofs | For any number of builders and plans, a directory that has a complete output tree always keeps one, as output or as a backup that nobody has begun to remove. |
| BuildExact (BuildIsExact) | PinnedProofs | For any names, contents, plans and edits, where no entry can have the output root's own name, a build that reports success leaves exactly the plan's tree. |
| BuildNearlyExact | PinnedProofs | Whatever the output root is called, a build that reports success leaves the plan's tree and at most an entry of that name besides. |
| CheckNames (CheckNamesEveryDifference) | PinnedProofs | For any plan and any output, check names each path that differs, once and under the right kind. |
| HookInvariant | ProcessProofs | The inductive invariant of a run: guarded by its timeout until its first cause, then by the kill timer, for any output limit. |
| HookLeavesNothing (SettledIsClean) | ProcessProofs | A settled run has no timer, listener or process with its pipes left. |
| HookResolvesWithinBounds | ProcessProofs | A run resolves only if nothing condemned it and both streams are within the limit. |
| HookStaysBounded (StaysBounded) | ProcessProofs | A pending run has its timeout or its kill timer ahead, or its process group behind it, daemons or not. |
| HookRefines (SettlesOnceForOneCause) | ProcessProofs | runProcess implements HookRun: one cause, the first, and one settlement that agrees with it. |
| RuntimeInvariant | ProcessProofs | The inductive invariant of the runtime: a dispatch waits for its one synchronous run, only the dispatch that ends the session goes on when the runtime is closed, and the shutdown waits for whatever runs. |
| ShutdownQuiet (ShutdownIsQuiet) | ProcessProofs | For any hooks, events and number of dispatches, no hook runs once the promise of the shutdown has resolved. |
| ClosedQuiet (ClosedStartsNothing) | ProcessProofs | A closed runtime starts nothing but the session-end hooks of the one dispatch that ends the session. |
| DecisionSound (DecisionIsSound) | ProcessProofs | For any hooks, events and number of dispatches, a tool call that is allowed while the runtime is open has passed every matching hook, and one that is blocked was blocked by one hook, the last to run. |
| AuthorsSafe (AuthorsKept) | RootProofs | No sequence of commands, source edits, failures and kills changes, removes or claims what the author put into package.json, for any keys, versions and sources. |
| RootExact (RootIsExact) | RootProofs | For any keys, versions and sources, and however these and the author's entries were edited, a build that succeeds and a check that says current mean that the root is what sources and author say, as long as nothing was interrupted. |
| CheckAgreesWithBuild (CheckAgrees) | RootProofs | When nothing was edited since a build succeeded, no check finds drift and no build is rejected, whatever failed or was killed before. |
| MovedFails (MovedFailsClosed) | ArchiveProofs | For any commands, plans, moves, faults and kills, a package command whose path was moved away before the check of its last archive does not succeed. |
| WholeArchives (ArchivesAreWhole) | ArchiveProofs | However many commands run, fail, are killed and have directories moved under them, what stands under the name of an archive is a whole archive that some plan has under that name, or what somebody else put there. |
| SuccessIsPublished (SuccessPublishesPlan) | ArchiveProofs | For any plans, whatever earlier commands left, the archives of a package command that no other one interferes with hold exactly the files of its plan, each in one archive. |
| UnchangedStays (UnchangedIsKept) | ArchiveProofs | Unless another command runs, no archive is replaced by one with the same bytes. |
| CommandInvariant | CommandsProofs | The inductive invariant of a command: at each of its points the plan renders and is that of the sources unless these were edited, and its flags say what was found out about output and root files. |
| OutputWhole (OutputIsWholeSelection) | CommandsProofs | For any sources, targets and packages, a target that does not render keeps every target of the selection from being written. |
| ExitIsTrue (ExitTellsState) | CommandsProofs | Unless somebody edits meanwhile, the exit status of a command tells the state of output, root files and archives, whatever failed or was killed in earlier commands. |
| RootFollowsOutput (RootComesFromOutput) | CommandsProofs | Unless somebody edits meanwhile, every change of the root files is one of a plan whose output was written before. |
| ArchivesFollowOutput (ArchivesComeFromOutput) | CommandsProofs | Unless somebody edits meanwhile, every change of the archives is one of a plan that output and root files were found to agree with. |
| VerdictSound (VerdictIsSound) | ProcessProofs | For any number of checks, and however deadline, exit, kill and wait delay race, each check that went wrong has the one error that says how, and verification succeeds exactly when none did. |
| TypesHold | LayoutProofs | Every file system that a command and somebody else make is a forest of directories, what a command spares is none of the directories it makes, and what it holds open is one directory. |
| AcceptedApart | LayoutProofs | For every file system and every pair of roots that the guard accepts: the nearest directory that exists on the way to the output is not in the source, nor the source in the output, whatever links and cases the names have. |
| GuardSeparates (GuardSeparatesRoots) | LayoutProofs | The guard a command starts with tells real directories apart, for every file system, every request and any number of changes by somebody else. |
| BuildSpares (WriteSparesSources) | LayoutProofs | With one change by somebody else between any two calls, a build never replaces a directory it imported from, nor writes into one. |
| ArchivesApart (ArchivesStayApart) | LayoutProofs | With one change by somebody else between any two calls, archives are written neither into the sources and output that their guard found, nor where the output will be. |
| KnownAlways | CompilationProofs | The inductive invariant of a compilation: what it goes on with is the inventory of the manifest's packages, narrowed to the selected ones, and each plan is the one that PlanFor gives for it. |
| NothingGetsLost (NothingIsLost) | CompilationProofs | For any well-formed manifests and trees, each file that an author wrote for an asset is in the plan of every target that takes it, unless that target's overlay deletes or replaces it. |
| OthersAreOut (OthersStayOut) | CompilationProofs | For any well-formed manifests and trees, every payload of a target's plan is a file of an asset that the target takes, or of its own overlay. |
| LossIsAgreed (LossIsAcknowledged) | CompilationProofs | For any well-formed manifests and trees, what an asset of a plan relies on is there in the target, or an author's acknowledgment that it is only advised is in the provenance. |
| HooksAreExact (HookManifestIsExact) | CompilationProofs | For any well-formed manifests and trees, the hook manifest of each package registers every hook of its target once, as declared and in the declared order, and the files that hooks name are in the package. |
| SectionsAreKept (SectionsAreExact) | CompilationProofs | For any bodies without fences and any patches of which none is inside another, a patched skill is the pieces that its overlay and its author wrote, in their places, joined; and where the overlay brings whole lines for headings that are whole lines, these pieces are its lines, so that no section runs into another. |
| ProvenanceCompletes (ProvenanceIsComplete) | CompilationProofs | For any well-formed manifests and trees, what the recorded inputs hold determines the plan of every target. |
| CatalogsLeadToPackages (CatalogsFindPackages) | CompilationProofs | For any well-formed manifests and trees, each entry of a catalog leads to a manifest of that name and version, and every native check to something it can check. |
| SectionsArePatched | CompilationProofs | What applicable patches make of a body without fences is Patched, the text as its outline says it, joined piece by piece; its lines are those of Patched where each patch brings whole lines for headings that are whole lines, and not in general. |

The argument for the journal: at each point of a call, one record of what the call
knows of `fs` (`IInv` in OutputJournal) and the statement that every member of
`disk` is a directory from which recovery leads to the abstract output. Neither the
type invariant nor the property is inductive: that a rename is harmless depends on
the phase the journal holds, on the tree the backup holds, and on what an unsynced
rename may leave behind. The proof has
a step for each action, and lemmas for each way of changing the directory. The
refinement follows from it: the abstract output is what recovery would make of the
directory. `BackupsAreJournalled` and `RecoveryAcceptsOneInterruption` come from a second
invariant (`Tidy`) that holds as long as no operation has failed: in every directory that
a power loss may leave, a backup is named by the journal (`DiskTidy`); the old tree is a
backup exactly while the new one is not known to stay (`BackupsKnown`); and a call that
was not interrupted leaves no journal, while one interruption leaves a journal that
recovery accepts (`VerdictsKnown`). After a failed operation a backup may stay that no
journal names. `ForgottenBackupsAreSpare` then rests on a third (`DiskBacked`): a directory with
any backup has an output, or a journal by which recovery restores one. It does not follow
from the outcomes, which still include "no output" while an unfinished first build has
installed one.

The argument for a hook's run: until it is condemned its timeout is armed, from
then on the kill timer is, until the group is dead; listeners live as long as the
run. It holds for any output limit and with daemons.

The argument for the root: whoever wrote a key is known, the plan under way takes out
only what the last build owned, and what is owned was never the author's.
AuthorsKept needs the plan in the invariant, because `Prepare` and `Write` are
several steps apart. `RootIsExact` and `CheckAgrees` need more (`RootKnown`): what a
build has neither to write nor to remove any more is as planned (`PlanFits`); unless a
build was interrupted, whatever the author did not write has an owner, or is about to
go (`OwnersKnown`); and from a success to the next edit the root has what the sources
enable, and a build under way plans no change (`FreshKnows`). That `Write` always has
a first path among those that are left rests on a least element, which the theorem on
well-founded relations provides.

The argument for the pinned path: a suffix belongs to one builder from the making of
its staging tree to the end of its call, so that what a builder knows of the trees
with that suffix nobody else can change. The output can: between `Lstat`, the rename
of the old output and the rename of the new one any other builder may act. The tree
survives because a builder removes its backup only after it installed an output, and
whoever takes that output away holds it as a complete backup of its own: `Spared`
says that while backups are being removed there is a complete tree whose owner is not
removing it. That the output alone is whole follows from what a builder knows of its
staging tree when it installs it and of its backup when it puts it back.

The argument for the comparison (also in PinnedProofs, which extends both modules of
`artifact.Write`): output roots are trees, so a
directory that a planned file needs is there when the file is, and folded names that
do not collide keep every file out of another's way. Hence an output without drift is
the plan's tree, apart from the entry that the pinned walk drops. BuildExact assumes
that no entry can have the output root's name, which is what the refuted run shows to
be necessary; BuildNearlyExact says what holds without that assumption.

The argument for the Pi runtime: a synchronous run that is under way is the one its
dispatch awaits, so a run that ends wakes nobody else. When the runtime is closed only
the dispatch that ends the session goes on, and the promise of the shutdown is
past that point before it takes the set of runs to wait for. That the batch of hooks a
loop starts has one synchronous hook at most rests on the least element of a set of
positions again. `DecisionIsSound` needs
to know what a dispatch has passed (`DecisionsKnown`): every applicable hook before its
position has settled without blocking it, none behind it has started, and a blocked
dispatch stands at the one hook that blocked it.

The argument for native checks: the fate of the check at hand is what its process, its
deadline and its wait delay say, and the diagnostics are those of the checks before it.

The argument for commands: what each point of a command knows (the plan renders; it is
the plan of the sources unless somebody edited them; output is the plan once it is
written or compared), and what the flags of the result tell at that point. The two
action properties read off the same invariant.

The argument for archives: from the moment the destination is pinned, the path leads
to it or the next check finds out. A directory that another command makes meanwhile is
a new one, so it is never mistaken for the pinned one. What the archives hold needs the
list of archives of a plan, a fold over sequences of sequences: `FlattenHolds` proves that
it has exactly the members of its parts, by the least prefix that would not. Then
`Kept` says that the archives before `index` stand in the pinned directory while the
command is alone, that one with equal bytes counts as such only if it has them, and
that whatever else is there is whole. That the archives of an accepted plan are a
partition of its files (`ItemsPublish`) is set theory on paths and their prefixes.

The argument for compilations: the inductive invariant (`Known`) says what has been
computed at each point: the inventory is that of the manifest's packages (`Whole`), then
what was selected of it (`Ours`), and a plan is what `PlanFor` gives for its target. It
is short because a compilation only computes; the work is to follow values through it.
A file of an author is followed from the tree to the plan (`NothingIsLost`): its entry is
an asset of a package (`ListedFacts`), composed for a target unless a gap excludes it
(`IncludedAreEntries`), with its files but for those of the overlay, and rendered at a
path that no other part has (`PartsApart`). For `OthersStayOut` each payload is followed
back the same way. `ProvenanceIsComplete` takes two trees that have the same shape and
agree on the recorded inputs, and shows operator after operator that what is computed from them
is the same. `HookManifestIsExact` needs a sorted list to exist: a finite set with a strict
order is sorted by the ranks of its elements (`Sorts`). `SectionsAreExact` compares two
readings of a body line by line: the section of a heading is exactly the lines that stand under
it (`SectionEnds`, `MatchesAreHeads`), so patches that apply join what is meant
(`SectionsArePatched`). Where each patch brings whole lines, only the last line of the
result may lack its end (`PatchedIsText`), and joining such lines gives them back
(`JoinedLines`). Recursive functions are shown to exist before they are unfolded
(`Unfolds`: steps from 0 to n have a function that goes them).

The argument for the layout guard has three parts. A path leads to a directory when there is no
link on it (`Leads`); in a forest two paths that lead to one directory have the same names but
for case (`OnePath`), and what leads to something below a directory starts with that one's path
(`BelowStarts`). The canonical path of a root leads to it, and that of a missing one goes on
from a directory that exists (`CanonFacts`, `CanonLeads`), which needs that following links
from a path is the same with more names behind it (`FollowLong`, `TrailEnds`). So disjoint
canonical paths mean disjoint directories (`AcceptedApart`), for any number of changes. For
commands, `SourceKnown` and `RootsKnown` say which path every path to a spared directory starts
with, `Bound` which path leads to the directory held open; a change by somebody else takes
directories away and adds none (`Sparser`), so all three survive it. `Settled` says that the
guard is what the roots resolve to until then. Each effect comes after a check that either saw
no change before it, and then the paths are still those of the guard, or was made after it,
and then whatever it found is compared with what was known before (`ParentFound`,
`ParentClear`, `Confined`).

What is assumed of requests is what the program's own types guarantee, and no more
(`RequestsAssumption`): a tree is finite and what has something below it is a directory; lists are
lists and optional fields hold one value at most; the levels of headings are positive
numbers. Validation is not assumed: manifests that it refuses are requests like all
others. `NameOrderAssumption` says that names of hooks are compared as different bytes,
`TargetOrderAssumption` that targets are listed in some order.

Proving found three faults of the model, none of the code. `Kept`, the statement of which
native resources a target takes, left out any resource whose name a policy has, also one that
the target does take while the policy is about its namesake in another package; the
run could not tell, because no family of sources had two of one name, and one has now. And some
renderers were CASE expressions with arms that overlap, where TLC takes the first and the logic
any; they are IF expressions, in the code's order. And a build in WorkspaceLayout replaced an
output that had become a link since the last check, which the code refuses (`write.go:119`).
Sorted lists and catalog paths got names
of their own, for lemmas to speak about them.

Assumptions on constants are those the modules name: `PlanAssumption`, `BoundAssumption`,
`JournalAssumption`, `LimitAssumption`, `SourcesAssumption`, `RootAssumption`,
`CommandsAssumption`, `HooksAssumption`, `EventsAssumption`, `DispatchAssumption`,
`PlansAssumption`, `ArchiveAssumption`, `NameOrderAssumption`, `TargetOrderAssumption` and
`RequestsAssumption`, `LookupAssumption` and `LayoutAssumption`. TLC evaluates them in every run.

Only model-checked, never proved: all liveness (`SettlesInTime`,
`EverythingEnds`, `VerificationReturns`: the prover has neither fairness nor ENABLED).
Every other property of a passing run is stated by a theorem. The
library's induction theorems cannot be instantiated. Where a proof needs induction,
it takes the least counterexample of a set of numbers instead (`WFMin` with
`NatLessThanWellFounded`).

## Not modelled

- The importers of Claude plugins and skill repositories: tables that translate
  foreign fields, without state. What they return is an inventory, which
  SourceModel says the shape of.
- Agent Plugins (importer, renderer, `internal/agentplugins`): JSON documents copied
  through a compilation with their unknown fields kept. What matters is a round trip
  of bytes.
- Strict JSON decoding, deep copies and the syntax of frontmatter: questions of bytes
  and of shared memory within one sequential call, which tests answer better.
- Digests, quoting, the text of wrappers, READMEs, and agreement with the vendors'
  documentation, which golden tests pin.
- Edits of `package.json` while a command runs: it is read in `Prepare` and replaced
  after the whole output was written (`compatibility/pi.go:48`). In RootCompatibility
  the author edits between commands.
- Build information, smoke tests, scripts and CI.

## Plan

1. The effects, as above: journal, pinned path, comparison, hooks, root files,
   archives, native checks, commands. Done, with theorems for every safety property
   that a run checks.
2. LayoutGuard and WorkspaceLayout: the guard in the commands that call it. Done, with
   theorems for its three properties.
3. The compiler from manifest to plan: SourceModel, BundleSource, Composition,
   VendorCodecs, Rendering, Compilation. Done for bundles, with a theorem for every
   invariant.
4. The importers of Claude plugins and skill repositories, as tables from a package
   tree to an inventory, when their rules stop changing.
