--------------------------- MODULE DependencyCache ---------------------------
(***************************************************************************)
(* The FileSystemCache of dependency-analysis.ts and the functions that    *)
(* change it, as operators on a record:                                    *)
(*   parsed, imports   cache.dependencies: the files with an entry, and    *)
(*                     the static run-time edges of the entry              *)
(*   hashes            cache.fileHashes; 0 where the map has no entry      *)
(*   index             cache.sccIndex, counted from 1; 0 where the map has *)
(*                     no entry                                            *)
(*   sccs              cache.sccs                                          *)
(*   computed          cache.sccComputed                                   *)
(*   nonCyclic         cache.nonCyclicFiles                                *)
(* The file system is a function disk from files to [version, text];       *)
(* version stands for the mtime-size hash of getFileHash().                *)
(*                                                                         *)
(* The code is synchronous, so each operator is one uninterrupted call.    *)
(* ComputeSCCs returns the set of the possible results: which of the       *)
(* EmissionOrders comes out depends on the order of the imports inside the *)
(* files (module Tarjan), which is not kept here.                          *)
(***************************************************************************)
EXTENDS ImportGraph, ImportSyntax

CONSTANTS Files,     \* files an import can resolve to
          Missing    \* those of them that do not exist

ASSUME FilesAssumption == IsFiniteSet(Files)

ASSUME MissingAssumption == Missing \subseteq Files

Cache ==
    [parsed    : SUBSET Files,
     imports   : [Files -> SUBSET Files],
     hashes    : [Files -> Nat],
     index     : [Files -> Nat],
     sccs      : Seq(SUBSET Files),
     computed  : BOOLEAN,
     nonCyclic : SUBSET Files]

\* createFileSystemCache(), and what clearCache() leaves.
EmptyCache ==
    [parsed    |-> {},
     imports   |-> [f \in Files |-> {}],
     hashes    |-> [f \in Files |-> 0],
     index     |-> [f \in Files |-> 0],
     sccs      |-> <<>>,
     computed  |-> FALSE,
     nonCyclic |-> {}]

\* Mutant of InvalidateSCCCache: nonCyclicFiles survives.
InvalidateIndexOnly(c) ==
    [c EXCEPT !.index = [f \in Files |-> 0],
              !.sccs = <<>>,
              !.computed = FALSE]

InvalidateSCCCache(c) ==
    [c EXCEPT !.index = [f \in Files |-> 0],
              !.sccs = <<>>,
              !.computed = FALSE,
              !.nonCyclic = {}]

\* The static run-time imports getFileImports() would read from disk now;
\* pushImport() drops a target that does not exist.
ReadImports(disk, f) ==
    IF f \in Missing THEN {} ELSE ParsedImports(disk[f].text, Files \ Missing)

\* What getFileImports() answers for every file, were it asked now: a cached
\* entry is returned without looking at the disk.
View(c, disk) ==
    [f \in Files |-> IF f \in c.parsed THEN c.imports[f] ELSE ReadImports(disk, f)]

\* Mutant of ParseAll: a stored hash that differs is replaced, and no more.
ParseAllTrusting(S, c, disk) ==
    LET new == (S \ c.parsed) \ Missing
        entered == [c EXCEPT
            !.parsed  = @ \cup new,
            !.imports = [f \in Files |-> IF f \in new THEN ReadImports(disk, f) ELSE @[f]],
            !.hashes  = [f \in Files |-> IF f \in new THEN disk[f].version ELSE @[f]]]
    IN  IF \E f \in new : c.hashes[f] = 0 THEN InvalidateSCCCache(entered) ELSE entered

(***************************************************************************)
(* getFileImports() for every file of S.  A file that has no entry is      *)
(* parsed and gets one, unless it is missing; a hash that differs from the *)
(* stored one, or the absence of a stored one, invalidates the SCC cache.  *)
(***************************************************************************)
ParseAll(S, c, disk) ==
    LET new == (S \ c.parsed) \ Missing
        entered == [c EXCEPT
            !.parsed  = @ \cup new,
            !.imports = [f \in Files |-> IF f \in new THEN ReadImports(disk, f) ELSE @[f]],
            !.hashes  = [f \in Files |-> IF f \in new THEN disk[f].version ELSE @[f]]]
    IN  IF \E f \in new : c.hashes[f] # disk[f].version
        THEN InvalidateSCCCache(entered)
        ELSE entered

\* The files of the components in order, and the place of one of them.
Covered(order) == UNION {order[i] : i \in DOMAIN order}
PlaceIn(order, f) == CHOOSE i \in DOMAIN order : f \in order[i]

\* Mutant of MergedIndex: only components with a cycle are indexed.
MergedCyclesOnly(order, c) ==
    [f \in Files |->
        IF c.index[f] = 0 /\ \E i \in DOMAIN order : f \in order[i] /\ order[i] # {f}
        THEN Len(c.sccs) + PlaceIn(order, f)
        ELSE c.index[f]]

\* Mutant of MergedIndex: the new components are numbered from the start.
MergedWithoutOffset(order, c) ==
    [f \in Files |->
        IF c.index[f] = 0 /\ f \in Covered(order) THEN PlaceIn(order, f) ELSE c.index[f]]

\* Mutant of MergedIndex: the offset is read after the components are pushed.
MergedOffsetTooLate(order, c) ==
    [f \in Files |->
        IF c.index[f] = 0 /\ f \in Covered(order)
        THEN Len(c.sccs) + Len(order) + PlaceIn(order, f)
        ELSE c.index[f]]

\* A file that has an index already keeps it.
MergedIndex(order, c) ==
    [f \in Files |->
        IF c.index[f] = 0 /\ f \in Covered(order)
        THEN Len(c.sccs) + PlaceIn(order, f)
        ELSE c.index[f]]

\* Mutant of MergedNonCyclic: every file of a new component is added.
MergedAllNonCyclic(order, c) == c.nonCyclic \cup Covered(order)

MergedNonCyclic(order, c) ==
    (c.nonCyclic \ Covered(order)) \cup {f \in Files : \E i \in DOMAIN order : order[i] = {f}}

\* The merge that ends computeSCCsFromFile(): the new components are
\* appended, and the index and nonCyclicFiles are brought up to date.
MergeSCCs(order, c) ==
    [c EXCEPT !.sccs = @ \o order,
              !.computed = TRUE,
              !.index = MergedIndex(order, c),
              !.nonCyclic = MergedNonCyclic(order, c)]

\* Mutant of ComputeSCCs: the early return does not ask whether f is covered.
ComputeSCCsOnce(f, c, disk) ==
    IF c.computed /\ c.sccs # <<>>
    THEN {c}
    ELSE LET V == View(c, disk)
             R == Reachable(V, f)
         IN  {MergeSCCs(order, ParseAll(R, c, disk)) : order \in EmissionOrders(V, R)}

\* computeSCCsFromFile() with maxDepth = Infinity, the only value no-cycle
\* passes.
ComputeSCCs(f, c, disk) ==
    IF c.computed /\ c.sccs # <<>> /\ c.index[f] # 0
    THEN {c}
    ELSE LET V == View(c, disk)
             R == Reachable(V, f)
         IN  {MergeSCCs(order, ParseAll(R, c, disk)) : order \in EmissionOrders(V, R)}

(***************************************************************************)
(* findShortestCyclePath(): a breadth-first search from target that only   *)
(* enters files with the SCC index of source and looks for an import of    *)
(* source.  CycleSearched is an upper bound of the files it reads.         *)
(***************************************************************************)
WithinSCC(c, disk, source) ==
    [f \in Files |-> {g \in View(c, disk)[f] : c.index[g] = c.index[source]}]

\* Mutant of CycleSearched: no import is ever queued.
TargetSearched(c, disk, source, target) == {target}

CycleSearched(c, disk, source, target) ==
    Reachable(WithinSCC(c, disk, source), target)

CycleFound(c, disk, source, target) ==
    /\ c.index[source] # 0
    /\ \E f \in CycleSearched(c, disk, source, target) : source \in View(c, disk)[f]
=============================================================================
