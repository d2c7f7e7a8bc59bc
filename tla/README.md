# A TLA+ model of the dependency analysis, the release pipeline and live linting

The repository is a monorepo of ESLint plugins. Most of its code is some hundreds of rules, each a
function of one syntax tree. Three parts have logic of their own that outlives a file, a process or a click,
and these are what this project models:

- the **dependency analysis** and the rule **`import-next/no-cycle`** that drives it: an iterative Tarjan,
  a cache shared by all files of a lint run, an SCC index extended file by file and thrown away when a file
  is parsed, a cache file kept between runs, and path searches on the same cache. A mistake there is silent:
  a cycle is just not reported;
- the **release pipeline** and the weekly **hygiene run** that repairs what it leaves behind: three
  registries, no transaction, and every step may fail or be killed;
- **live linting** in the playground of the documentation site: a debounce, requests that overtake each
  other, and a status that must speak of what is on the screen.

Paths below are relative to the repository.

| Short | File |
|---|---|
| DA | `packages/eslint-devkit/src/resolver/dependency-analysis.ts` |
| NC | `packages/eslint-plugin-import-next/src/rules/no-cycle.ts` |
| REL | `.github/workflows/release.yml` |
| HYG | `.github/workflows/release-hygiene.yml` |
| REC | `scripts/reconcile-tags.ts` |
| PS | `apps/docs/src/components/play/usePlaygroundState.ts` |
| LL | `apps/docs/src/lib/playground/useLiveLinting.ts` |

## 1. The system

| Component | State | Operations | Talks to |
|---|---|---|---|
| Strongly connected components (DA 745-987) | `index`, `indices`, `lowlinks`, `stack`, `onStack`, `sccs`, the frames of the explicit stack | discovery, `tarjanStrongConnect`, `enter`, `relax` | reads imports from the dependency cache, hands `sccs` to the merge |
| Dependency cache (DA 267-700, 809-850) | `dependencies`, `fileHashes`, `sccIndex`, `sccs`, `sccComputed`, `nonCyclicFiles`, `resolvedPaths`, `fileExists` | `getFileImports`, `resolveImportPath`, `invalidateSCCCache`, `clearCache`, the merge of `computeSCCsFromFile`, `findShortestCyclePath` | the file system; every function of DA shares the record |
| Rule no-cycle (NC) | the module-level `sharedCache`; per file `fileName` and the reported cycles | `create`, the handlers `ImportDeclaration` and `ExportNamedDeclaration`, `clearCircularDependencyCache` | called by ESLint file by file, statement by statement; calls the above |
| Path-based detectors (DA 1067-1420) | local visited sets, plus `nonCyclicFiles` | `detectCycleFromImport`, `findAllCircularDependencies`, `getMinimalCycle`, `getCycleHash` | dependency cache; exported API without a caller in the repository |
| Incremental analysis (DA 1421-1650) | a cache file on disk: hashes, `nonCyclicFiles`, the SCC index | `saveCacheToDisk`, `loadCacheFromDisk`, `getFilesNeedingReanalysis` | dependency cache, file system, restarts |
| Release pipeline (REL, HYG, REC) | npm versions and dist-tags, git tags, GitHub releases, the tracking issue; the runs and jobs of two workflows | detect, publish, tag, release, cancel, re-run; report, backfill, create releases, track | npm, GitHub and git, which fail independently |
| Docs playground (PS, LL) | the snippet, the editor, the selected plugins; a timer, an `AbortController`, the findings and a status | edit, toggle, pick a snippet, unmount; effects, timer, answers, failures | React's effects, the browser, the lint API |
| Module resolution (`resolver*.ts`) | memoised resolvers | lookups in the file system, tsconfig and package.json | called by the dependency cache |
| Docs data cache (`apps/docs/src/lib/json-cache.ts`) | a TTL map | `get`, `set`, `invalidate` | one GET route |
| Rule packages, formatters, UI, benchmarks | none that is shared between files or steps, or presentation only | | ESLint, the browser |

What is hard differs by part. The analysis is synchronous and single-threaded: its hard part is not
interleaving but *long sequences of legal calls*, because which files were parsed, merged and loaded before
decides what a call finds in the cache. The release pipeline is *partial failure*: a job may die between any
two of its effects, and two workflows run side by side. The playground is *interleaving*: a handler, an
effect, a timer and the end of an await, in any order. The hazards, each at the line where it bites, are in
`PROJECT.json`; the main ones are

- an index read before, and compared after, a call that may throw the index away and renumber (NC 607-631);
- merging components into a list that already holds some of them (DA 809-850);
- `nonCyclicFiles`, which silences handlers and searches, outliving the graph it came from (NC 591, DA 1222);
- resuming a suspended Tarjan frame in the right place, and what `maxDepth` does to the stack (DA 929-985);
- cached imports that are never compared with the file again (DA 598), and a loaded index without them (DA 1538);
- a search that invalidates the cache it is consulting, or is cut by its depth limit (DA 1184-1222);
- a publish that worked and reported a failure, a push that failed and was ignored (REL 330-342);
- a lookup that fails and looks like "never published" or "nothing missing" (REL 114, REC 136), a comparison
  that fails and leaves a package out (REL 136);
- an older run that waits behind a newer one (REL 65), a repair that looks while a job publishes (REC 259);
- an old answer that arrives late, an abort that says nothing, a callback of an earlier render (LL 80-127).

What makes each component correct. *SCC*: the components are exactly the mutually reachable files, each once,
imported ones first, and the loops end. *Cache*: the index decomposes exactly the imports the cache remembers,
after any sequence of merges, invalidations, edits, saves and loads. *Rule*: a verdict depends on these imports
alone, not on what was linted before; without a stale cache it is the verdict of the disk. *Searches*: every
reported cycle is real, and one is missed only where the limit says so. *Release*: the registries fill in
order, a job that ends well has filled all three, nothing is skipped without a known reason, and repair and
report keep what they promise. *Playground*: only the
newest request may write, and a pause brings the screen and its findings together.

## 2. The modules

```
 ImportGraph <-- SCCDecomposition <== implemented by == Tarjan <-- MCTarjan
      ^                                                   ^
      |-- ImportSyntax                                    '-- TarjanProofs
      |        ^
      '-- DependencyCache <-- NoCycle <-- MCNoCycle
               ^                 '== implements ==> NoCycleOracle
               |
               '-- Incremental <== implemented by == CycleSearch <-- MCCycleSearch

 Release                        LiveLinting <-- MCLiveLinting

 proofs:  ImportGraphProofs <-- DependencyCacheProofs <-- NoCycleProofs
                   ^                    ^---------------- IncrementalProofs <-- CycleSearchProofs
                   '-- TarjanProofs
          ReleaseProofs                        LiveLintingProofs
```

| Module | Models | Correspondence |
|---|---|---|
| `ImportGraph` | graphs, reachability, components | No code of its own. Reachability is stated through closed sets, so the provers can instantiate it and nothing is `RECURSIVE`. `OnCycle` is the code's `hasCycle` (`files.length > 1`); `EmissionOrders` are the lists Tarjan may return. |
| `Tarjan` | DA 764-807, 861-987 | One action per turn of a loop: `SkipVisited`, `Visit`, `Scan` (discovery), `StartRoot`, `SkipRoot` (the loop over the discovered files), `Descend`, `Truncate`, `RelaxToStack`, `PassSuccessor` (one edge of the top frame), `FinishRoot`, `FinishInner` (a frame without edges left, with the do-while loop that pops a component). `maxDepth` is a variable that never changes, so one run covers several limits; `Infinity` is any value of at least `Cardinality(Files) - 1`, which no path can exceed. |
| `SCCDecomposition` | the promise of the above | Components come out whole, once, after what they import. |
| `ImportSyntax` | DA 110-139, 629-665, 789-799 | A file is a sequence of statements; `ParsedImports` is what survives the regular expressions, the dedupe of `pushImport` and the skipping of dynamic and type-only entries; `RuntimeImports` is what the statements mean. |
| `DependencyCache` | DA 267-364, 587-683, 745-850, 1021-1065 | The cache as a record, each function as an operator from a cache and a disk to the next cache. `ComputeSCCs` returns a *set* of results, one per emission order. |
| `NoCycle` | NC 64-78, 331-390, 549-731 | `StartFile`, one action per handler, `FinishFile`, `ClearCircularDependencyCache`, and `Edit` by the world between two files. `CheckImport` is the body the two handlers share. |
| `NoCycleOracle` | the promise of the rule | Every verdict computed from the disk, without a cache. |
| `Incremental` | DA 374-383, 998-1004, 1434-1623 | `SaveCacheToDisk`, `SaveInterrupted`, `Restart`, `LoadCacheFromDisk`, `GetFilesNeedingReanalysis`, `Edit`, and two abstract steps of the process that uses the cache: `Compute` merges the components of a file, `Search` reads some files and adds some to `nonCyclicFiles`. |
| `CycleSearch` | DA 1127-1386 | `DetectCycleFromImport` and `FindAllCircularDependencies` are the two root calls. The suspended calls are a stack of frames, and every file a loop comes to is one step: `Close` (a cycle), `Cut` (the depth limit), `Pass` (visited or known as non-cyclic), `Enter` (the recursive call, with the read that may invalidate the cache), then `Leave` and `Return`. `World` edits files and kills the process between any two of them; `Between` is the rest of `Incremental`. `MinimalCycle` is `getMinimalCycle`. |
| `Release` | REL, HYG, REC | `Push`, `RunAgain`, `RerunFailed` request a run (one waits, a newer one replaces it); `StartRun`, `Detect` (with `Decisions`: publish, skip, or go on without a package whose versions it could not compare), `Publish`, `Tag`, `GitHubRelease`, `JobFails`, `FinishRun` are its stages, jobs of several packages interleaving; `StartHygiene`, `LookForReport`, `LookForMissing`, `Backfill`, `SkipMissing`, `LookForReleases`, `CreateRelease`, `NextPass`, `PassFails`, `TrackIssue`, `HygieneKilled` are the passes of `reconcile-tags.ts` beside it. |
| `LiveLinting` | PS 37-121, LL 76-142 | `SetEditorValue`, `TogglePlugin`, `SelectSnippet`, `Unmount` by the user; `RunEffects`, `Lint` (the timer), `Respond`, `Answer`, `Fail`, `Superseded` (the ends of the awaits) by the page. |

Conventions. In the cache, `index` is 1-based and 0 stands for "no entry in `sccIndex`"; `hashes` likewise.
The `mtime-size` hash is a version number that grows with each edit, so two contents of one file never collide
here. A statement's `target` is the result of `resolveImportPath`; a target that resolves to `null` is
`NoFile`. `Missing` are paths that resolve and do not exist, which `pushImport` drops. In `Release`, versions
are numbers, a registry maps a version to the commit it came from, and `well` and `blind` are history that no
action depends on; `before`, the cache a search was started on, is history too. The loops of `CycleSearch` take
the imports of a file in any order: no property depends on theirs. In `LiveLinting`, findings stand for the input they were computed from. Definitions whose
comment begins with "Mutant of" are wrong on purpose: each is a plausible bug that one of the properties must
catch, listed under `mutants` in `PROJECT.json`, and no specification uses them.

## 3. The properties and the runs

| Run | What it asks | Bounds |
|---|---|---|
| `tarjan` | `TypeOK`, `StackPartition`, `LowlinkWitness`, `ExactDecomposition`, `ImplementsDecomposition`, `Terminates` | all graphs of 4 files with lists of at most 2 imports, in every order, at `maxDepth` 1, 2 and 4 |
| `tarjan_truncated` | violation of `EveryDiscoveredFileIndexed` | 5 files, 1 import each, self-imports allowed, `maxDepth = 1` |
| `no_cycle` | `TypeOK`, `IndexClosed`, `IndexExact`, `NonCyclicSound`, `ImplementsOracle` | all programs of 4 files with at most 2 imports, files linted in any order any number of times, cleared at any time |
| `no_cycle_editor` | the same and `VerdictExact` with re-exports, dynamic imports, type-only re-exports, self-imports, unresolved targets, a missing file and edits; the host clears the cache after an edit | 3 files and a missing one, initially at most 2 re-exports each, an edit leaves at most 1 statement, each file is edited at most once |
| `no_cycle_stale` | violation of `EditedCyclesReported` | 3 files, 1 import each, one edit each |
| `no_cycle_types` | violation of `AllCyclesReported` | 2 files, at most 2 statements |
| `cycle_search` | `IncrementalTypeOK`, `IndexMatchesHashes`, `UnchangedVerdictExact`, `NoStalePositive`, `CyclesAreReal`, `DetectMissesOnlyWhenCut`, `FindExact`, `ImplementsIncremental` | 4 files, `maxDepth = 3`, 2 searches; three families of programs: 5 imports nobody edits with at least one in every file, 3 imports of which one is type-only or dynamic, at most 3 imports with one file edited once, at any moment of a search |
| `cycle_poison` | violation of `OnlyNonCyclicSkipped` | 3 files, 4 imports, `maxDepth = 9` |
| `release` | `TypeOK`, `NoOrphans`, `TagsCarryVersion`, `DoneIsWhole`, `NoSilentSkip`, `LatestKeeps`, `FullRunRepairs`, `IssueTellsMissing` | 1 package, 2 commits on main |
| `release_drift` | violation of `IssueTellsDrift` | the same |
| `live_linting` | `TypeOK`, `StatusIsCurrent`, `OneWriter`, `TogglesFlip`, `Settles` | 2 snippets, 1 other text, 2 plugins, 2 requests that are not settled |
| `live_fallback` | violation of `FallsBackOnError` | 1 snippet, otherwise the same |

*Why the bounds suffice.* For the cache, the hazards need two roots whose parts of the graph overlap, a third
file to put between them, and a cycle beside a file that is on none: four files with two imports have all of
these, in every order of merges and invalidations. A second cycle of two files, back edges, cross edges to a
finished component and duplicate pushes in the discovery occur within four files as well; at `maxDepth` 1 and
2 these graphs truncate, at 4 they do not. `MaxVersion = 2` gives every file one edit, which is all that
staleness takes. For the searches, `maxDepth = 3` lies between the shortest and the longest path of four
files, so a search is cut in some programs and not in others, and the second search meets what the first has
left in the cache. Five imports among four files make two cycles that share a file, or one beside a branch that
leads into it, which is what a shared visited set could lose. For the release, jobs of different packages share nothing but the run they belong to
(`fail-fast: false`), so one package shows what can happen to one; two commits give an older and a newer
version, a queued run and a re-run of the older. For live linting, two requests are one that was aborted and
one that was not; a third cannot come before one of them is settled, but need not: every property is about
the newest and any other. `Permutations(Files)`, or of the readable files, is a sound symmetry: no definition
or constant distinguishes two of them and no liveness property is checked with it.

*Deadlock* is checked for the rule and for the searches, which can always go on. Tarjan ends (`Terminates`
says where), the release stops when the bounded commits are released, and an unmounted page has nothing left
to do: their configurations switch the check off.

*Fairness.* `Tarjan`: `WF_vars(Next)`, the thread goes on with its own loop; the computation is synchronous
and nothing can pre-empt it. `LiveLinting`: `WF_vars(Page)`, React runs the effects of a render, the browser
fires a timer that is not cleared, and a `fetch` is settled one way or the other; nothing is assumed of the
user or of the outcome. `NoCycle`, `Incremental`, `CycleSearch` and `Release` have no fairness, hence no liveness:
nobody has to lint, and nothing promises that a run is started again.

The properties in words:

- `StackPartition`: `state.stack` and `state.onStack` agree, in index order; every numbered file is on the
  stack or in exactly one component; suspended frames are on the stack. At every depth limit.
- `LowlinkWitness`: a lowlink is the index of a file on the stack that the owner really reaches.
- `ExactDecomposition`, `ImplementsDecomposition`: the result, and every step towards it, is right.
- `IndexClosed`: with a file, all its imports are indexed, from cached entries. This is why the export
  handler can do without the fallback and why the path search never parses.
- `IndexExact`: equal index exactly if on a common cycle, and the index points to that component, although
  re-merged components stay in the list twice.
- `NonCyclicSound`: the fast path skips no report.
- `VerdictExact`: each verdict on another file is `linting \in Component(View, target)`; `ImplementsOracle`:
  and that is the verdict of the disk, as long as the cache is not stale.
- `IndexMatchesHashes`: the index, in memory and in the cache file, is the component structure of the contents
  whose hashes are kept beside it, through edits, saves, kills and loads. `UnchangedVerdictExact` and
  `NoStalePositive` are what a caller gains: `isFileInCycle` is right about a file none of whose dependencies
  changed, and no broken cycle escapes the reanalysis.
- `CyclesAreReal`, `DetectMissesOnlyWhenCut`, `FindExact`: what the searches report is a simple cycle of
  imports, what they miss they admit, and what they remember is sound. The last two start from a sound
  `nonCyclicFiles`, which the code does not keep (finding 4).
- `ImplementsIncremental`: to the index, every search is a `Search` or a `Compute` of `Incremental`, so what is
  proved there holds of the real searches.
- `NoOrphans`, `TagsCarryVersion`: no tag without a version on npm, no release without a tag, and a tag points
  at a commit that has the version. `DoneIsWhole`: a job that ends well, first run or re-run, leaves its version
  on npm, tagged and released. `NoSilentSkip`: with the pipeline idle, a version that is not on npm has
  left a failed job, a cancelled run or a comparison error. `LatestKeeps`: `latest` goes back only by a re-run of failed jobs or
  after an unanswered lookup.
- `FullRunRepairs`, `IssueTellsMissing`: what `action=full` leaves, and that the weekly report opens the issue
  exactly for a version without a tag, when nothing fails and nothing is released beside them. `IssueTellsDrift`
  asks the report for missing GitHub releases as well, and is refuted (finding 5).
- `StatusIsCurrent`: with nothing due, "done" and "linting" speak of the code and plugins on the screen.
  `OneWriter`: one request may write, and it is the one the spinner waits for. `TogglesFlip`: a click changes
  one plugin. `Settles`: either the user goes on for ever or the page comes to rest, with an error or with
  the findings of what is shown.

## 4. What the model found

Six statements of the repository are refuted by what its code does (`findings` in `PROJECT.json`):

1. A run with a depth limit can leave discovered files without an index: the truncated edge sets the lowlink
   to 0, a frame with a larger index is then never a root, and what is above it stays on the stack
   (`tarjan_truncated`). `no-cycle` passes `Infinity` and is not affected. The same 0 also joins files that are on
   no cycle. In the run, `maxDepth = 1` and a chain a, b, c, d, e without a cycle, {a, b} comes out as one
   component, {e} as another, and c and d stay on the stack. This is why `LowlinkWitness` and the exactness of the components are stated without truncation.
2. The cache is *not* "automatically invalidated when file content changes" (NC 60-62): a cached entry is
   returned without a look at the hash (`no_cycle_stale`). A host has to call
   `clearCircularDependencyCache()`; `no_cycle_editor` shows that this is enough.
3. `import type` followed by `import` of the same file loses the run-time edge (`no_cycle_types`).
4. `detectCycleFromImport(source, target)` remembers a target as "known to not be in any cycle" (DA 1147)
   when no path leads back to *source*; the target may be on a cycle of other files, which every later search
   skips (`cycle_poison`).
5. The weekly report does not open the tracking issue "if tags / npm / GH Releases drift" (REL 496): it is gated
   on missing tags (HYG 211), and a report does not look for releases (REC 193). A job killed between its tag
   and its release leaves a tag without a release, and an undisturbed report leaves the issue closed
   (`release_drift`). The header of HYG (13) counts this as drift; its comment "Only `missing` is actionable
   drift" (HYG 145) gives reasons for orphan tags only.
6. The playground does not "fall back to static canonical findings ... if the API fails" (PS 67-68): nothing
   sets `liveFindings` back to null, so after one answer a failure leaves the findings of earlier code, or of
   another snippet, on the screen (`live_fallback`).

Smaller observations. But for the first, nothing in the repository says otherwise, or the properties name them
as their exceptions:

- *Rule.* `export * from` is matched by no regular expression (DA 139) and visited by no handler, so a cycle
  through one is not reported, neither at the re-export nor at the import, although DA 659-661 says of the
  expression that without it "cycles routed through re-export-only files ... are invisible". No run has such a
  text; the invariants of `NoCycleProofs` hold for it, and `CacheIsInvisible` excludes it. The option `maxDepth`
  reaches `findShortestCyclePath` and is not read there (NC 642-650, DA 1026), so the rule has no depth limit and
  the model of it none. Components merged again stay in `cache.sccs` twice;
  only the index tells which entry counts (`IndexExact`). The oracle is free where the code's answer depends
  on the past or on a type-only statement and no document says what is meant: a file importing itself, and
  `export type { } from`.
- *Cache.* A file is read at DA 610 and hashed at 668; an edit between the two stores old imports under the new
  hash. Two contents of one size within the clock's resolution have one hash (DA 378).
- *Incremental.* `getFilesNeedingReanalysis` does not drop the index of the files it returns (DA 1583), and
  `computeSCCsFromFile` returns early for an indexed file: analysing them again changes nothing until a file
  without an index is parsed. After a load no imports are known, so importers of a changed file are not found
  (DA 1606): a *new* cycle through an unchanged file is missed, which is why `NoStalePositive` has one direction.
- *Searches.* `findAllCircularDependencies` runs Tarjan with its finite `maxDepth` (DA 1297) and then inherits
  finding 1. `getCycleHash` rotates a list whose end point repeats its start, so one cycle gets different hashes
  depending on where the search met it (DA 1405; the comment at 1389 means the opposite).
- *Release.* A publish that worked before the job died is never tagged by a new run, because detect sees equal
  versions: only the hygiene run can tell. When `node` fails to compare two versions, detect prints "comparison
  error (skip)" (REL 136) and goes on without the package: the run is green and the version is not on npm. It is
  the one way to leave a version out with every job green, and `NoSilentSkip` names it. A queued run is
  cancelled by the next request, also by a re-run of an older commit. A re-run of failed jobs, or a detect without an answer, moves `latest` back
  (`LatestKeeps` names both). A lookup that fails counts no missing tag and closes the issue (HYG 222-241). After a
  repair the issue stays open until the next weekly report, as it is opened by the first pass. The backfill tags the first
  commit with the version, which need not be "the commit that produced it" (HYG 154-155, 250-252), the one npm's
  artifact was built from.
- *Playground.* `togglePlugin` compares sizes (PS 108): with plugins of another snippet in the URL, switching
  one off may switch all on. `TogglesFlip` names it.

## 5. What is proved

TLAPS checks these for every value of the constants: every finite set of files, every set of programs and
edits, every depth limit; every set of packages and any number of commits; any snippets, texts, plugins and
requests; and with no bound on the number of steps.

| Theorem | Statement |
|---|---|
| `TarjanProofs!TarjanTypes`, `StackIsPartitioned` | `Spec => []TypeOK`, `Spec => []StackPartition`, at every `maxDepth` |
| `TarjanProofs!LowlinksWitness` | `Spec => []LowlinkWitness` |
| `TarjanProofs!DecompositionIsExact` | `Spec => []ExactDecomposition` |
| `TarjanProofs!TarjanImplements` | `Spec => ImplementsDecomposition` |
| `NoCycleProofs!TypeCorrect`, `IndexIsClosed`, `IndexIsExact`, `NonCyclicIsSound` | `Spec => []TypeOK`, `[]IndexClosed`, `[]IndexExact`, `[]NonCyclicSound` |
| `NoCycleProofs!VerdictsAreExact` | `Spec => VerdictExact` |
| `NoCycleProofs!CacheIsInvisible` | `Spec => ImplementsOracle`, where `TextsReadAsMeant` and the host clears the cache after an edit |
| `IncrementalProofs!IncrementalTypes`, `IndexKeepsToHashes` | `IncrementalSpec => []IncrementalTypeOK`, `[]IndexMatchesHashes` |
| `IncrementalProofs!UnchangedVerdicts`, `StalePositivesReanalysed` | `IncrementalSpec => []UnchangedVerdictExact`, `[]NoStalePositive` |
| `CycleSearchProofs!SearchImplements` | `Spec => ImplementsIncremental` |
| `CycleSearchProofs!SearchesKeepPromises` | `Spec => []` of the four properties of `Incremental` above |
| `CycleSearchProofs!ReportsAreReal`, `DetectsUnlessCut`, `FindsExactly` | `Spec => []CyclesAreReal`, `[]DetectMissesOnlyWhenCut`, `[]FindExact` |
| `ReleaseProofs!ReleaseTypes`, `RegistriesInOrder`, `TagsTrue` | `Spec => []TypeOK`, `[]NoOrphans`, `[]TagsCarryVersion` |
| `ReleaseProofs!DoneJobsAreWhole`, `NoVersionSkipped`, `LatestNotMovedBack` | `Spec => []DoneIsWhole`, `[]NoSilentSkip`, `Spec => LatestKeeps` |
| `ReleaseProofs!FullRunsRepair`, `IssuesTellMissing` | `Spec => FullRunRepairs`, `Spec => IssueTellsMissing` |
| `LiveLintingProofs!LiveTypes`, `StatusCurrent`, `SingleWriter` | `Spec => []TypeOK`, `[]StatusIsCurrent`, `[]OneWriter` |
| `LiveLintingProofs!OnePluginFlips` | `Spec => TogglesFlip` |

*Assumptions*, all evaluated by TLC in the runs: the files are a finite set (`FilesAssumption`; a component
list has a length), `Missing` are files and `NoFile` is none, programs, edits and import lists have their
types, depth limits are integers, there is at least one commit, the plugins are finitely many and a snippet's
plugins are plugins. `MaxCommits`, `MaxFlights`, `Searches` and the versions of a program bound the state of a
run; the theorems hold for each of their values.

One theorem has hypotheses of its own, because without them it is false. `TextsReadAsMeant` says that no text has
a static import after an `import type` or `import()` of the same file (finding 3) and none has `export *`. The
other, `ClearsOnEdit \/ EditedTexts = {}`, leaves out the host of finding 2.
The runs `no_cycle` and `no_cycle_editor`, which check `ImplementsOracle`, are of this kind.

*Tarjan.* `TarjanInv` has three parts. `StackInv` is bookkeeping, true at every depth limit: types, the
partition, and indices that ascend along the stack. `DiscoveryInv` says that what was discovered is reachable
and that every edge scanned leads to something known. `PathInv`, where the limit does not truncate, is the
algorithm: each file on the stack has an *owner*, the innermost suspended frame entered before it, that
reaches it; a lowlink is the index of a file on the stack its owner reaches (`Witness`); a file whose frame is
gone but which is still on the stack has a lowlink below its index (`LeftBelow`); and every edge already looked
at is *bounded*: it leads to an emitted file, or to one on the stack no lower than the owner's lowlink
(`SeenEdges`, `LeftEdges`). When a frame ends with lowlink = index, its owner's bound makes the segment of
the stack above it closed up to emitted files, and a member with the least index that could not reach the root would
contradict `LeftBelow`: the segment is a whole component (`SegmentWhole`). Everything else is that each of the
eleven actions keeps these conjuncts.

*The rule.* The invariant is `IInv == TypeOK /\ CacheInv(cache, disk)`. None of the three index properties is
inductive alone. `IndexExact` says nothing of a file that is not indexed, and a merge gives the new file a
number that must not split it from a member of its component: that needs `IndexClosed`, so that a component is
indexed as a whole or not at all. `IndexClosed` in turn must survive an edit, and does because an indexed file
is cached or missing, so the edit changes no import the index is about. Last, `KnownFiles` says that a file
without a cache entry has no hash, so that its first parse always invalidates: with it a parse changes nothing
or empties the index, and a merge starts from a cache whose graph is the one Tarjan has just walked. The
argument has three layers: `ImportGraphProofs` is about graphs only; `DependencyCacheProofs` has one lemma per
operation on the cache (`EmptyCacheInv`, `ParseAllInv`, `MergeInv`, `ComputeSCCsInv`, `EditInv`) and
`SearchFinds`; `NoCycleProofs` has one step per action. The delicate one is `CheckImportEffect`: when the
source is not indexed although the target is, the import handler computes it, which may throw away the index
the target's number was read from. The two numbers may then be equal by accident. This does no harm:
`SearchStays` says a search from the target stays in what *was* indexed, so it finds no path, and the verdict
is the right one, "no cycle".

*The cache between processes.* After a load `KnownFiles` is false: files have hashes and an index but no
entry. `IncInv` therefore ties the index to the *hashes* and not to the files or the entries (`Kept`), in
memory and in the cache file alike, and each entry to the hash beside it (`Hashed`). An edit changes neither
side; a parse that finds another hash empties the index, and one that finds the same hash adds an entry that
the index already speaks of.

*The release.* `RelInv` adds to the types and the two registry properties that every commit a run, a job or
the checkout speaks of is on main, which is what makes a tag carry its version. `OrderInv` is about time:
versions grow along main, `latest` is on npm, a job at "publish" in a run that has compared is ahead of
`latest`, and what detect has skipped on the newest commit is on npm. `DoneReleased`, that the version of a
finished job has a release, is inductive beside `RelInv`, and `NoOrphans` gives the tag and npm. `WellInv` says that a hygiene run that
is well has in its hands what the registries hold: the tags of its checkout are those of origin, and what it
has found or counted so far is what is missing among the packages it has looked at.

*The playground.* `LiveInv` adds that every request that can still write is the one `abortRef` names, and that
without a due effect the timer holds the input on the screen.

`OracleInv`, for `CacheIsInvisible`, adds that a remembered import list is the one on disk, so that the graph of
`VerdictExact` is the one the oracle reads.

*The searches.* `SearchImplements` comes first: to the index, a read in a search is the small search of one
file, and a verdict that is remembered is one that reads nothing, so `IncInv` holds at every step and with it what
`Incremental` promises. Three more invariants speak of the search itself.
`Chain`: the frames hold a path of imports without a repetition, every loop has only imports of its own file
ahead of it, and all but the importing file have been entered. A cycle is closed at a file of that path, so what
is reported is a walk that returns (`Walks`), and getMinimalCycle() cuts it at the first repetition, which is its
end (`MinimalOfWalk`). None of this is undone by a read or an edit: imports, once read, stay (`FollowedStays`).
`Swept`, for `detectCycleFromImport()`: while nothing is found and nothing cut, every import of a file that was
entered was entered too, or was in `nonCyclicFiles` *when the search began*, or is still ahead. The history
variable is needed because a read may empty `nonCyclicFiles` in the middle. At the end nothing is ahead, and the
files entered, with all files that do not lead to the source, form a closed set without the source: no path back
was missed.
`FindSweep`, for `findAllCircularDependencies()`: no file that was left, and no import a loop has behind it, is
on a cycle (`LeftOffCycles`). It is *not* inductive for the remembered graph, which changes with each read, since
`View` takes an unread file from the disk. It is for *every* graph that agrees with what has been read
and for which the cache was sound when the search began (`Fits`): a read, or an edit, only leaves fewer of these.
A file on a cycle has an import on a cycle (`CycleGoesOn`), so a call that finds nothing cannot have been about one,
and since the search is only started for a file on a cycle (`ComputeSound`), it finds something. This is why a
visited set shared by all branches loses nothing for a search that asks for *some* cycle.

*What carries over from one model to another.* `DependencyCache` puts the set `EmissionOrders` in place of the
algorithm. `DecompositionIsExact` proves that Tarjan returns a list with the properties that define it, for every
graph and without truncation; a truncated call is covered by `StackPartition` and `TypeOK` only, and
`DependencyCache` does not use one. `SearchImplements` carries the theorems about `Incremental` to the real
searches.

*Only model-checked.* `Terminates` and `Settles` are liveness, which is out of the provers' reach. The six
refuted statements are runs too: among them `cycle_poison`, which shows that the soundness of `nonCyclicFiles`, from
which `DetectsUnlessCut` and `FindsExactly` start, is not kept by every search.

## 6. What is not modelled, and what could follow

Not modelled, because there is no state a model would add to:

- the rule packages: some thirty packages of syntax-tree visitors, each rule a pure function of one file. They
  are most of the lines of the repository;
- the text of messages and the fix strategies of `no-cycle`, formatters, UI, benchmarks and measurement scripts;
- module resolution: a function of the file system, which enters as the `target` of a statement;
- the docs data cache: one GET route, no caller that forces a refresh or invalidates, and staleness decided by
  Next.js's own cache, outside the repository.

Left out of modelled components:

- `resolvedPaths` and `fileExists`, two memo tables that never expire. A module `ResolutionCache` would show what
  a file that is created or deleted during the life of a cache does to verdicts;
- the early return of `computeSCCsFromFile` below a finite `maxDepth` (in `Tarjan` only), and loads into a cache
  that is already in use;
- `cleanup-orphans` of REC, which deletes tags and releases: with a failed `npm view` it would take real tags for
  orphans, so `NoOrphans` and `TagsCarryVersion` would need an action of their own and a stated promise. Dry runs,
  other dist-tags, and the queue of the hygiene workflow's own concurrency group;
- the playground's URL, its copied configuration and the filter of the findings shown.

Next in proof: the half of termination that is a safety property, a measure that every step of Tarjan and of a
search lowers; and what still holds of the components at a `maxDepth` that truncates.

## 7. Running it

```
tlc -workers 2 -config MCTarjan.cfg MCTarjan
tlc -workers 2 -config MCNoCycleEditor.cfg MCNoCycle
tlc -workers 2 -config MCCycleSearch.cfg MCCycleSearch
tlc -workers 2 -config MCRelease.cfg Release
tlc -workers 2 -config MCLiveLinting.cfg MCLiveLinting
tlapm NoCycleProofs.tla
tlapm TarjanProofs.tla
tlapm CycleSearchProofs.tla
```

`PROJECT.json` names the module and configuration of every run. Each takes from seconds to a few minutes;
`tarjan` has some 650000 states. The proofs of `TarjanProofs` take about three minutes from nothing, the others
about as long or less.
