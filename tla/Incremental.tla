----------------------------- MODULE Incremental -----------------------------
(***************************************************************************)
(* The life of the FileSystemCache of dependency-analysis.ts across lint   *)
(* runs: a process analyses files with the cache, saves it with            *)
(* saveCacheToDisk(), ends or is killed, and a later process may start     *)
(* from what loadCacheFromDisk() restores and ask                          *)
(* getFilesNeedingReanalysis() what to do again, while somebody edits the  *)
(* files at any time.                                                      *)
(*                                                                         *)
(* A save keeps the hashes, the SCC index and nonCyclicFiles but not the   *)
(* parsed imports, so a loaded index speaks of contents that may be gone.  *)
(* The searches that read imports are in module CycleSearch; here they are *)
(* any search that reads some files and adds some to nonCyclicFiles.       *)
(***************************************************************************)
EXTENDS DependencyCache

CONSTANTS Programs,  \* the contents a file has one after another, per file
          NoSave     \* no cache file that loadCacheFromDisk() accepts

Texts == Seq([kind : Kinds, target : Files])

ASSUME ProgramsAssumption == Programs \subseteq [Files -> Seq(Texts) \ {<<>>}]

VARIABLES program,   \* file -> its successive contents
          version,   \* file -> which of them is on disk
          cache,     \* the cache of the running process
          saved      \* the cache file

files == <<program, version>>
incrementalVars == <<files, cache, saved>>

disk == [f \in Files |-> [version |-> version[f], text |-> program[f][version[f]]]]

\* The data saveCacheToDisk() keeps.
Saved == [hashes    : [Files -> Nat],
          index     : [Files -> Nat],
          sccs      : Seq(SUBSET Files),
          nonCyclic : SUBSET Files]

IncrementalInit ==
    /\ program \in Programs
    /\ version = [f \in Files |-> 1]
    /\ cache = EmptyCache
    /\ saved = NoSave

-----------------------------------------------------------------------------
(* Analysing                                                               *)

Compute(f) ==
    /\ UNCHANGED <<files, saved>>
    /\ cache' \in ComputeSCCs(f, cache, disk)

\* d is c after some files were asked for with getFileImports() and some
\* files were added to nonCyclicFiles.
Searched(c, d) ==
    LET p == ParseAll(d.parsed, c, disk)
    IN  /\ d.parsed \subseteq Files
        /\ p.nonCyclic \subseteq d.nonCyclic /\ d.nonCyclic \subseteq Files
        /\ d = [p EXCEPT !.nonCyclic = d.nonCyclic]

\* detectCycleFromImport() starts with the search, findAllCircularDependencies()
\* computes the components of the file first.
Search ==
    /\ UNCHANGED <<files, saved>>
    /\ \/ Searched(cache, cache')
       \/ \E f \in Files : \E c \in ComputeSCCs(f, cache, disk) : Searched(c, cache')

-----------------------------------------------------------------------------
(* Keeping the cache between processes                                     *)

Edit(f) ==
    /\ version[f] < Len(program[f])
    /\ version' = [version EXCEPT ![f] = @ + 1]
    /\ UNCHANGED <<program, cache, saved>>

\* Mutant of Persisted: only the components with a cycle are kept.
PersistedCyclesOnly(c) ==
    LET Cyclic(C) == Cardinality(C) > 1
    IN  [hashes |-> c.hashes, index |-> c.index, sccs |-> SelectSeq(c.sccs, Cyclic),
         nonCyclic |-> c.nonCyclic]

Persisted(c) ==
    [hashes |-> c.hashes, index |-> c.index, sccs |-> c.sccs, nonCyclic |-> c.nonCyclic]

SaveCacheToDisk ==
    /\ saved' = Persisted(cache)
    /\ UNCHANGED <<files, cache>>

\* The process dies while it writes: what is left does not parse.
SaveInterrupted ==
    /\ saved' = NoSave
    /\ cache' = EmptyCache
    /\ UNCHANGED files

\* The process ends, or dies, without saving; the next has a new cache.
Restart ==
    /\ cache' = EmptyCache
    /\ UNCHANGED <<files, saved>>

\* Mutant of LoadCacheFromDisk: the hashes are not restored.
LoadWithoutHashes ==
    /\ cache = EmptyCache
    /\ saved # NoSave
    /\ cache' = [EmptyCache EXCEPT !.index = saved.index, !.sccs = saved.sccs,
                                   !.computed = TRUE, !.nonCyclic = saved.nonCyclic]
    /\ UNCHANGED <<files, saved>>

\* A host loads into the cache it has just created.  A cache file that is
\* too old, of another version or unreadable leaves the cache as it is.
LoadCacheFromDisk ==
    /\ cache = EmptyCache
    /\ saved # NoSave
    /\ cache' = [EmptyCache EXCEPT !.hashes = saved.hashes, !.index = saved.index,
                                   !.sccs = saved.sccs, !.computed = TRUE,
                                   !.nonCyclic = saved.nonCyclic]
    /\ UNCHANGED <<files, saved>>

-----------------------------------------------------------------------------
(* getFilesNeedingReanalysis() for all files                               *)

Changed(c) == {f \in Files : c.hashes[f] = 0 \/ f \in Missing \/ c.hashes[f] # version[f]}

\* The members of the components that hold a changed file.  The code asks
\* the first file of a component for its index; all its files have the same.
SharingComponent(c) ==
    {f \in Files : \E i \in DOMAIN c.sccs :
        /\ f \in c.sccs[i]
        /\ \E g \in c.sccs[i], h \in Changed(c) : c.index[g] # 0 /\ c.index[g] = c.index[h]}

\* The files whose cached entry, of whatever kind, names a changed file.
\* After a load there is no cached entry.
ImportingChanged(c) ==
    {f \in c.parsed : \E g \in Changed(c) : Matches(program[f][c.hashes[f]], g) # <<>>}

\* Mutant of NeedingReanalysis: only the changed files.
NeedingChangedOnly(c) == IF c.computed THEN Changed(c) ELSE Files

NeedingReanalysis(c) ==
    IF ~c.computed
    THEN Files
    ELSE Changed(c) \cup SharingComponent(c) \cup ImportingChanged(c)

\* A changed file leaves nonCyclicFiles only with its component, or when it
\* imports a changed file.
GetFilesNeedingReanalysis ==
    /\ cache' = IF cache.computed
                THEN [cache EXCEPT !.nonCyclic = @ \ (SharingComponent(cache)
                                                       \cup ImportingChanged(cache))]
                ELSE cache
    /\ UNCHANGED <<files, saved>>

-----------------------------------------------------------------------------

Housekeeping ==
    \/ \E f \in Files : Edit(f)
    \/ SaveCacheToDisk \/ SaveInterrupted \/ Restart \/ LoadCacheFromDisk
    \/ GetFilesNeedingReanalysis

IncrementalNext == Housekeeping \/ Search \/ (\E f \in Files : Compute(f))

IncrementalSpec == IncrementalInit /\ [][IncrementalNext]_incrementalVars

-----------------------------------------------------------------------------
(* Properties                                                              *)

\* Types; the index of a file leads into the list of components.
IncrementalTypeOK ==
    /\ program \in Programs
    /\ version \in [Files -> Nat \ {0}]
    /\ \A f \in Files : version[f] <= Len(program[f])
    /\ cache \in Cache
    /\ saved \in Saved \cup {NoSave}
    /\ \A c \in {cache, saved} \ {NoSave} : \A f \in Files : c.index[f] <= Len(c.sccs)

\* Import graphs.  TLC evaluates a function once and for all when it is asked
\* whether it is one.
Graphs == [Files -> SUBSET Files]

\* The static run-time imports of f in its v-th content.
ImportsAt(f, v) ==
    IF f \in Missing THEN {} ELSE ParsedImports(program[f][v], Files \ Missing)

\* The graph of the contents whose hashes a cache, or a cache file, holds.
HashedGraph(hashes) ==
    [f \in Files |-> IF hashes[f] = 0 THEN {} ELSE ImportsAt(f, hashes[f])]

IndexOfHashed(hashes, index) ==
    LET G == HashedGraph(hashes)
    IN  /\ G \in Graphs
        /\ Closed(G, {f \in Files : index[f] # 0})
        /\ \A f \in Files :
              index[f] # 0 => Component(G, f) = {g \in Files : index[g] = index[f]}

(***************************************************************************)
(* Through edits, saves, crashes and loads, in memory and in the cache     *)
(* file, the SCC index is exactly the component structure of the contents  *)
(* whose hashes are kept beside it, and covers whatever an indexed file    *)
(* imports.  getFileImports() keeps this by dropping the whole index when  *)
(* a hash it stores differs from the one it finds.                         *)
(***************************************************************************)
IndexMatchesHashes ==
    /\ IndexOfHashed(cache.hashes, cache.index)
    /\ saved # NoSave => IndexOfHashed(saved.hashes, saved.index)

InCycle(c, f) == c.index[f] # 0 /\ c.sccs[c.index[f]] # {f}

\* The graph on disk now.
DiskGraph == [f \in Files |-> ImportsAt(f, version[f])]

(***************************************************************************)
(* isFileInCycle() may be believed for an indexed file as soon as no file  *)
(* it depends on has changed since it was hashed, however old the loaded   *)
(* cache is and whatever else has changed.                                 *)
(***************************************************************************)
UnchangedVerdictExact ==
    LET G == DiskGraph
    IN  G \in Graphs /\ \A f \in Files :
            (/\ cache.index[f] # 0
             /\ \A g \in Reachable(G, f) : g \in Missing \/ cache.hashes[g] = version[g])
            => (InCycle(cache, f) <=> OnCycle(G, f))

(***************************************************************************)
(* A cycle that somebody broke is analysed again: a file that the cache    *)
(* calls cyclic and that getFilesNeedingReanalysis() does not return is    *)
(* still on a cycle on disk.                                               *)
(***************************************************************************)
NoStalePositive ==
    LET G == DiskGraph
    IN  /\ G \in Graphs
        /\ \A f \in Files \ NeedingReanalysis(cache) : InCycle(cache, f) => OnCycle(G, f)
=============================================================================
