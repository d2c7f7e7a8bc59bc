------------------------------- MODULE NoCycle -------------------------------
(***************************************************************************)
(* The rule import-next/no-cycle over one life of its module-level         *)
(* sharedCache: ESLint lints files one after another, in any order and any *)
(* number of times, and calls the rule's handler for every statement of    *)
(* the file that names another one.  Between two files somebody may edit a *)
(* file, as in an editor or in watch mode, and the host may call           *)
(* clearCircularDependencyCache().                                         *)
(***************************************************************************)
EXTENDS DependencyCache

CONSTANTS NoFile,        \* no file is being linted
          Programs,      \* the initial contents of the files
          EditedTexts,   \* the texts an edit may leave
          MaxVersion,    \* bound on the number of versions of a file
          ClearsOnEdit   \* does the host clear the cache after an edit?

ASSUME NoFileAssumption == NoFile \notin Files

ASSUME ClearsOnEditAssumption == ClearsOnEdit \in BOOLEAN

\* The texts of a source file.
Text == Seq([kind : Kinds, target : Files \cup {NoFile}])

ASSUME ProgramsAssumption == Programs \subseteq [Files -> Text]

ASSUME EditedTextsAssumption == EditedTexts \subseteq Text

VARIABLES disk,       \* file -> [version, text]
          cache,      \* sharedCache
          linting,    \* the file being linted, or NoFile
          text,       \* the statements of its syntax tree
          verdicts    \* one per statement visited: was it reported?

vars == <<disk, cache, linting, text, verdicts>>

Init ==
    /\ \E program \in Programs :
          disk = [f \in Files |-> [version |-> 1, text |-> program[f]]]
    /\ cache = EmptyCache
    /\ linting = NoFile
    /\ text = <<>>
    /\ verdicts = <<>>

-----------------------------------------------------------------------------
(* Linting one file                                                        *)

\* create(): ESLint has parsed the file; the cache is kept.  A file matched
\* by ignorePatterns is simply never started.
StartFile(f) ==
    /\ linting = NoFile
    /\ linting' = f
    /\ text' = disk[f].text
    /\ verdicts' = <<>>
    /\ UNCHANGED <<disk, cache>>

Unvisited == linting # NoFile /\ Len(verdicts) < Len(text)
Statement == text[Len(verdicts) + 1]

Verdict(reported) ==
    /\ verdicts' = Append(verdicts, reported)
    /\ UNCHANGED <<disk, linting, text>>

\* Extend the SCC index to f if it does not cover it.
Extend(f, c) == IF c.index[f] = 0 THEN ComputeSCCs(f, c, disk) ELSE {c}

(***************************************************************************)
(* The part the two handlers share, for the import of target by the file   *)
(* being linted.  extendSource is the fallback only ImportDeclaration has. *)
(* The index of the target is read before the source may be computed, and  *)
(* compared after.                                                         *)
(***************************************************************************)
CheckImport(target, extendSource) ==
    IF target \in cache.nonCyclic
    THEN Verdict(FALSE) /\ UNCHANGED cache
    ELSE \E c1 \in Extend(target, cache) :
         \E c2 \in IF extendSource THEN Extend(linting, c1) ELSE {c1} :
            LET sameSCC == /\ c2.index[linting] # 0
                           /\ c2.index[linting] = c1.index[target]
            IN  IF sameSCC
                THEN /\ Verdict(CycleFound(c2, disk, linting, target))
                     /\ cache' = ParseAll(CycleSearched(c2, disk, linting, target), c2, disk)
                ELSE Verdict(FALSE) /\ cache' = c2

ImportDeclaration ==
    /\ Unvisited
    /\ Statement.kind = "import"
    /\ Statement.target \in Files
    /\ CheckImport(Statement.target, TRUE)

\* Mutant of ExportNamedDeclaration: a re-export is never checked.
ExportUnchecked ==
    /\ Unvisited
    /\ Statement.kind \in {"export", "exportType"}
    /\ Statement.target \in Files
    /\ Verdict(FALSE)
    /\ UNCHANGED cache

\* The handler does not look at exportKind: a type-only re-export is treated
\* like a run-time one.
ExportNamedDeclaration ==
    /\ Unvisited
    /\ Statement.kind \in {"export", "exportType"}
    /\ Statement.target \in Files
    /\ CheckImport(Statement.target, FALSE)

\* The rule returns early for "import type" and for a target that does not
\* resolve, and has no handler for "export *" and import().
PassStatement ==
    /\ Unvisited
    /\ \/ Statement.kind \notin {"import", "export", "exportType"}
       \/ Statement.target \notin Files
    /\ Verdict(FALSE)
    /\ UNCHANGED cache

\* Mutant of FinishFile: the state kept per file outlives the file.
FinishKeepingVerdicts ==
    /\ linting # NoFile
    /\ Len(verdicts) = Len(text)
    /\ linting' = NoFile
    /\ text' = <<>>
    /\ UNCHANGED <<disk, cache, verdicts>>

FinishFile ==
    /\ linting # NoFile
    /\ Len(verdicts) = Len(text)
    /\ linting' = NoFile
    /\ text' = <<>>
    /\ verdicts' = <<>>
    /\ UNCHANGED <<disk, cache>>

-----------------------------------------------------------------------------
(* The world around the rule                                               *)

\* A file changes on disk between two lints.
Edit(f, newText) ==
    /\ linting = NoFile
    /\ f \notin Missing
    /\ disk[f].version < MaxVersion
    /\ newText # disk[f].text
    /\ disk' = [disk EXCEPT ![f] = [version |-> @.version + 1, text |-> newText]]
    /\ cache' = IF ClearsOnEdit THEN EmptyCache ELSE cache
    /\ UNCHANGED <<linting, text, verdicts>>

\* Mutant of ClearCircularDependencyCache: the SCC index is not cleared.
ClearAllButIndex ==
    /\ linting = NoFile
    /\ cache' = [EmptyCache EXCEPT !.index = cache.index, !.sccs = cache.sccs]
    /\ UNCHANGED <<disk, linting, text, verdicts>>

ClearCircularDependencyCache ==
    /\ linting = NoFile
    /\ cache' = EmptyCache
    /\ UNCHANGED <<disk, linting, text, verdicts>>

Handle == ImportDeclaration \/ ExportNamedDeclaration \/ PassStatement

Next ==
    \/ \E f \in Files \ Missing : StartFile(f)
    \/ Handle
    \/ FinishFile
    \/ \E f \in Files, newText \in EditedTexts : Edit(f, newText)
    \/ ClearCircularDependencyCache

Spec == Init /\ [][Next]_vars

-----------------------------------------------------------------------------
(* Properties                                                              *)

TypeOK ==
    /\ disk \in [Files -> [version : Nat \ {0}, text : Text]]
    /\ cache \in Cache
    /\ linting \in (Files \ Missing) \cup {NoFile}
    /\ text \in Text
    /\ verdicts \in Seq(BOOLEAN)
    /\ Len(verdicts) <= Len(text)

View_ == View(cache, disk)
IsIndexed(f) == cache.index[f] # 0

(***************************************************************************)
(* The index is closed: with a file, everything it reaches is indexed, and *)
(* from a cached entry.  This is why extending from the target alone finds *)
(* the source whenever there is a cycle, so that ExportNamedDeclaration    *)
(* can do without the fallback, and why the path search reads no new file  *)
(* and cannot invalidate the index it is using.                            *)
(***************************************************************************)
IndexClosed ==
    \A f \in Files : IsIndexed(f) =>
        /\ f \in cache.parsed \cup Missing
        /\ \A g \in View_[f] : IsIndexed(g)

(***************************************************************************)
(* Over any number of merges and invalidations, two indexed files have the *)
(* same index exactly when they are on a common cycle of the imports the   *)
(* cache remembers, and the index points to their component.               *)
(***************************************************************************)
IndexExact ==
    \A f \in Files : IsIndexed(f) =>
        /\ cache.index[f] \in DOMAIN cache.sccs
        /\ cache.sccs[cache.index[f]] = Component(View_, f)
        /\ \A g \in Files :
              g \in Component(View_, f) <=> cache.index[g] = cache.index[f]

(***************************************************************************)
(* The fast path of both handlers: a file in nonCyclicFiles is indexed and *)
(* shares no cycle with another file, so skipping it skips no report.      *)
(***************************************************************************)
NonCyclicSound ==
    \A f \in cache.nonCyclic : IsIndexed(f) /\ ~OnCycle(View_, f)

(***************************************************************************)
(* What a handler reports, whatever the host does between two files, is    *)
(* decided by the imports the cache stands for alone: the importing file   *)
(* is in the component of the target.  In particular the path search finds *)
(* a path exactly when the two indices agree, so no cycle is lost between  *)
(* the index and the search, and the epoch of an index never matters.      *)
(***************************************************************************)
VerdictExact ==
    [][(ImportDeclaration \/ ExportNamedDeclaration) /\ Statement.target # linting
         => verdicts' = Append(verdicts, linting \in Component(View_, Statement.target))]_vars

(***************************************************************************)
(* What a reader of the report expects: the import closes a cycle of       *)
(* run-time imports of the files as they are on disk.                      *)
(***************************************************************************)
ClosesCycle(s) ==
    /\ s.kind \in {"import", "export"}
    /\ s.target \in Files
    /\ Reaches(RuntimeGraph(disk, Files \ Missing), s.target, linting)

(***************************************************************************)
(* getFileImports() takes a text for what it means at run time, which the  *)
(* expressions of ImportSyntax do not do for every text: no static import  *)
(* after "import type" or "import()" of the same file, and no "export *".  *)
(***************************************************************************)
ReadAsMeant(t) == ParsedImports(t, Files \ Missing) = RuntimeImports(t, Files \ Missing)

TextsReadAsMeant ==
    /\ \A program \in Programs : \A f \in Files \ Missing : ReadAsMeant(program[f])
    /\ \A t \in EditedTexts : ReadAsMeant(t)

(***************************************************************************)
(* The rule answers as if it computed every verdict from the disk, without *)
(* a cache: no order of files and statements, and no mixture of cached and *)
(* new components, changes a verdict.                                      *)
(***************************************************************************)
Oracle == INSTANCE NoCycleOracle

ImplementsOracle == Oracle!Spec

\* The handler of a statement that closes a cycle with another file reports.
ReportsCycle ==
    Handle /\ ClosesCycle(Statement) /\ Statement.target # linting
        => verdicts' = Append(verdicts, TRUE)

(***************************************************************************)
(* no-cycle.ts:61 says of the shared cache: "Within a single lint run,     *)
(* files don't change, so caching is safe.  The cache is automatically     *)
(* invalidated when file content changes (detected via mtime + size        *)
(* hash)."  So a cycle that is on disk is reported after an edit as well.  *)
(***************************************************************************)
EditedCyclesReported ==
    [][(\E f \in Files : disk[f].version > 1) => ReportsCycle]_vars

(***************************************************************************)
(* dependency-analysis.ts:1659 says of the analysis: "Finds all cycles:    *)
(* Yes (guaranteed)".  So an import that closes a run-time cycle is        *)
(* reported, whatever else the files say.                                  *)
(***************************************************************************)
AllCyclesReported == [][ReportsCycle]_vars
=============================================================================
