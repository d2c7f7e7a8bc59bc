-------------------------- MODULE IncrementalProofs --------------------------
(***************************************************************************)
(* Proofs about Incremental.  The invariant ties what is kept of an index  *)
(* to the hashes kept beside it, and not to the files: that is what makes  *)
(* it survive an edit, a save, a crash and a load.                         *)
(***************************************************************************)
EXTENDS Incremental, DependencyCacheProofs, TLAPS

\* The index of c, a cache or a cache file, is closed and exact for the
\* contents whose hashes it holds.
Kept(c) ==
    /\ \A f \in Files : c.index[f] # 0 =>
          \A g \in HashedGraph(c.hashes)[f] : c.index[g] # 0
    /\ ExactIndex(c, HashedGraph(c.hashes))

\* A cached entry holds the imports of the content whose hash is stored.
Hashed(c) ==
    \A f \in c.parsed :
        f \notin Missing /\ c.hashes[f] # 0 /\ c.imports[f] = ImportsAt(f, c.hashes[f])

IncInv ==
    /\ program \in Programs
    /\ version \in [Files -> Nat \ {0}]
    /\ \A f \in Files : version[f] <= Len(program[f])
    /\ cache \in Cache /\ Hashed(cache) /\ Kept(cache)
    /\ saved \in Saved \cup {NoSave}
    /\ saved # NoSave => Kept(saved)

\* No version is 0, which stands for "no hash".
Versions == version \in [Files -> Nat \ {0}]

-----------------------------------------------------------------------------
(* Lemmas on one cache.                                                    *)

LEMMA HashedGraphType ==
    ASSUME NEW hashes
    PROVE  HashedGraph(hashes) \in [Files -> SUBSET Files]
BY DEF HashedGraph, ImportsAt, ParsedImports

\* A new cache satisfies the invariant.
LEMMA EmptyCacheKept == EmptyCache \in Cache /\ Hashed(EmptyCache) /\ Kept(EmptyCache)
BY DEF EmptyCache, Cache, Hashed, Kept, ExactIndex

\* What is on disk is what the version on disk says.
LEMMA ReadIsImportsAt ==
    ASSUME NEW f \in Files
    PROVE  ReadImports(disk, f) = ImportsAt(f, version[f]) /\ disk[f].version = version[f]
BY DEF ReadImports, ImportsAt, disk

(***************************************************************************)
(* getFileImports(): either no stored hash changes, and then neither does  *)
(* the graph the index was computed from, or the index is emptied.         *)
(***************************************************************************)
LEMMA ParseKept ==
    ASSUME Versions, NEW c \in Cache, Hashed(c), Kept(c), NEW S \in SUBSET Files
    PROVE  LET d == ParseAll(S, c, disk)
           IN  /\ d \in Cache /\ Hashed(d) /\ Kept(d)
               /\ d.parsed = c.parsed \cup ((S \ c.parsed) \ Missing)
               /\ \A f \in c.parsed : d.imports[f] = c.imports[f] /\ d.hashes[f] = c.hashes[f]
               /\ d.nonCyclic \subseteq c.nonCyclic
               /\ View(d, disk) = View(c, disk)
<1> DEFINE new == (S \ c.parsed) \ Missing
           d == ParseAll(S, c, disk)
           e == [c EXCEPT
                   !.parsed  = @ \cup new,
                   !.imports = [f \in Files |-> IF f \in new THEN ReadImports(disk, f) ELSE @[f]],
                   !.hashes  = [f \in Files |-> IF f \in new THEN disk[f].version ELSE @[f]]]
<1>1. d = IF \E f \in new : c.hashes[f] # disk[f].version THEN InvalidateSCCCache(e) ELSE e
  BY DEF ParseAll
<1>2. /\ e \in Cache
      /\ e.parsed = c.parsed \cup new
      /\ e.index = c.index /\ e.sccs = c.sccs /\ e.nonCyclic = c.nonCyclic
      /\ \A f \in Files : e.imports[f] = IF f \in new THEN ImportsAt(f, version[f]) ELSE c.imports[f]
      /\ \A f \in Files : e.hashes[f] = IF f \in new THEN version[f] ELSE c.hashes[f]
  <2>1. \A f \in Files : /\ ReadImports(disk, f) = ImportsAt(f, version[f])
                         /\ ReadImports(disk, f) \in SUBSET Files
                         /\ disk[f].version = version[f] /\ version[f] \in Nat
    BY ReadIsImportsAt DEF Versions, ReadImports, ParsedImports
  <2> DEFINE imports == [f \in Files |-> IF f \in new THEN ReadImports(disk, f) ELSE c.imports[f]]
             hashes == [f \in Files |-> IF f \in new THEN disk[f].version ELSE c.hashes[f]]
  <2>2. imports \in [Files -> SUBSET Files] /\ hashes \in [Files -> Nat]
    BY <2>1 DEF Cache
  <2>3. e = [c EXCEPT !.parsed = c.parsed \cup new, !.imports = imports, !.hashes = hashes]
    BY DEF Cache
  <2> HIDE DEF imports, hashes
  <2>4. /\ e \in Cache
        /\ e.parsed = c.parsed \cup new /\ e.imports = imports /\ e.hashes = hashes
        /\ e.index = c.index /\ e.sccs = c.sccs /\ e.nonCyclic = c.nonCyclic
    <3> HIDE DEF e
    <3> QED BY <2>2, <2>3 DEF Cache
  <2> HIDE DEF e
  <2> QED BY <2>1, <2>4 DEF imports, hashes
<1>3. Hashed(e)
  <2>1. e.parsed \subseteq Files
    BY <1>2 DEF Cache
  <2> HIDE DEF e
  <2>2. ASSUME NEW f \in e.parsed
        PROVE  f \notin Missing /\ e.hashes[f] # 0 /\ e.imports[f] = ImportsAt(f, e.hashes[f])
    <3>1. CASE f \in new
      BY <1>2, <2>1, <3>1 DEF Versions
    <3>2. CASE f \notin new
      BY <1>2, <2>1, <3>2 DEF Hashed
    <3> QED BY <3>1, <3>2
  <2> QED BY <2>2 DEF Hashed
<1>4. View(e, disk) = View(c, disk)
  <2>1. \A f \in Files : IF f \in e.parsed
                          THEN IF f \in c.parsed THEN e.imports[f] = c.imports[f]
                                                  ELSE e.imports[f] = ReadImports(disk, f)
                          ELSE f \notin c.parsed
    BY <1>2, ReadIsImportsAt
  <2>2. c.parsed \subseteq e.parsed
    BY <1>2
  <2> HIDE DEF e
  <2> QED BY <2>1, <2>2 DEF View
<1>5. \A f \in c.parsed : e.imports[f] = c.imports[f] /\ e.hashes[f] = c.hashes[f]
  BY <1>2 DEF Cache
<1> HIDE DEF e, d
<1>6. CASE \E f \in new : c.hashes[f] # disk[f].version
  <2>1. d = InvalidateSCCCache(e)
    BY <1>1, <1>6
  <2>2. /\ d \in Cache
        /\ d.parsed = e.parsed /\ d.imports = e.imports /\ d.hashes = e.hashes
        /\ d.nonCyclic = {}
        /\ \A f \in Files : d.index[f] = 0
    BY <1>2, <2>1, InvalidateFields
  <2>3. Hashed(d) /\ Kept(d)
    BY <1>3, <2>2 DEF Hashed, Kept, ExactIndex
  <2>4. View(d, disk) = View(c, disk)
    BY <1>4, <2>2 DEF View
  <2> QED BY <1>2, <1>5, <2>2, <2>3, <2>4 DEF d
<1>7. CASE ~\E f \in new : c.hashes[f] # disk[f].version
  <2>1. d = e
    BY <1>1, <1>7
  <2>2. e.hashes = c.hashes
    <3>1. \A f \in Files : e.hashes[f] = c.hashes[f]
      BY <1>2, <1>7, ReadIsImportsAt
    <3>2. e.hashes \in [Files -> Nat] /\ c.hashes \in [Files -> Nat]
      BY <1>2 DEF Cache
    <3> QED BY <3>1, <3>2
  <2>3. Kept(e)
    BY <1>2, <2>2 DEF Kept, ExactIndex
  <2> QED BY <1>2, <1>3, <1>4, <1>5, <2>1, <2>3 DEF d
<1> QED BY <1>6, <1>7

(***************************************************************************)
(* computeSCCsFromFile(): the files it parses have the graph on disk, the  *)
(* files it had parsed before the graph of their hashes, and on the region *)
(* it decomposes the two are one.                                          *)
(***************************************************************************)
LEMMA ComputeKept ==
    ASSUME Versions, NEW c \in Cache, Hashed(c), Kept(c), NEW f \in Files,
           NEW d \in ComputeSCCs(f, c, disk)
    PROVE  d \in Cache /\ Hashed(d) /\ Kept(d) /\ d.index[f] # 0
<1> DEFINE V == View(c, disk)
           R == Reachable(V, f)
           e == ParseAll(R, c, disk)
           H == HashedGraph(e.hashes)
<1>1. CASE c.computed /\ c.sccs # <<>> /\ c.index[f] # 0
  BY <1>1 DEF ComputeSCCs
<1>2. CASE ~(c.computed /\ c.sccs # <<>> /\ c.index[f] # 0)
  <2>1. PICK order \in EmissionOrders(V, R) : d = MergeSCCs(order, e)
    BY <1>2 DEF ComputeSCCs
  <2>2. V \in [Files -> SUBSET Files] /\ H \in [Files -> SUBSET Files]
    BY ViewType, HashedGraphType
  <2>3. R \in SUBSET Files /\ f \in R /\ Closed(V, R)
    <3> HIDE DEF V
    <3> QED BY <2>2, ReachableClosed
  <2>4. /\ e \in Cache /\ Hashed(e) /\ Kept(e)
        /\ R \subseteq e.parsed \cup Missing
        /\ View(e, disk) = V
    <3> HIDE DEF R
    <3> QED BY <2>3, ParseKept
  <2>5. \A g \in R : H[g] = V[g]
    <3> HIDE DEF R, e
    <3> SUFFICES ASSUME NEW g \in R PROVE H[g] = View(e, disk)[g]
      BY <2>4
    <3>1. CASE g \in e.parsed
      BY <2>3, <2>4, <3>1 DEF Hashed, View, HashedGraph
    <3>2. CASE g \in Missing
      BY <2>3, <2>4, <3>2 DEF Hashed, View, HashedGraph, ReadImports, ImportsAt
    <3> QED BY <2>4, <3>1, <3>2
  <2>6. Decomposes(order, V, R)
    <3> HIDE DEF V, R
    <3> QED BY <2>1, <2>2, <2>3, EmissionDecomposes
  <2> HIDE DEF V, R, e, H
  <2>7. \A g \in R : Component(H, g) = Component(V, g)
    BY <2>2, <2>3, <2>5, ComponentAgree
  <2>8. Decomposes(order, H, R)
    BY <2>6, <2>7 DEF Decomposes
  <2>9. ExactIndex(e, H)
    BY <2>4 DEF Kept, H
  <2>10. /\ d \in Cache
         /\ d.parsed = e.parsed /\ d.imports = e.imports /\ d.hashes = e.hashes
         /\ ExactIndex(d, H)
         /\ \A g \in Files : d.index[g] # 0 <=> e.index[g] # 0 \/ g \in R
    BY <2>1, <2>2, <2>3, <2>4, <2>8, <2>9, MergeExact
  <2>11. HashedGraph(d.hashes) = H
    BY <2>10 DEF H
  <2>12. \A g \in Files : d.index[g] # 0 => \A h \in H[g] : d.index[h] # 0
    <3> SUFFICES ASSUME NEW g \in Files, d.index[g] # 0, NEW h \in H[g]
                 PROVE  d.index[h] # 0
      OBVIOUS
    <3>1. CASE e.index[g] # 0
      BY <2>2, <2>4, <2>10, <3>1 DEF Kept, H
    <3>2. CASE g \in R
      BY <2>2, <2>3, <2>5, <2>10, <3>2 DEF Closed
    <3> QED BY <2>10, <3>1, <3>2
  <2> QED BY <2>3, <2>4, <2>10, <2>11, <2>12 DEF Hashed, Kept
<1> QED BY <1>1, <1>2

\* A search parses files and adds to nonCyclicFiles.
LEMMA SearchedKept ==
    ASSUME Versions, NEW c \in Cache, Hashed(c), Kept(c), NEW d, Searched(c, d)
    PROVE  d \in Cache /\ Hashed(d) /\ Kept(d)
<1> DEFINE p == ParseAll(d.parsed, c, disk)
<1>1. d.parsed \in SUBSET Files /\ d.nonCyclic \in SUBSET Files
  BY DEF Searched
<1>2. p \in Cache /\ Hashed(p) /\ Kept(p)
  BY <1>1, ParseKept
<1>3. d = [p EXCEPT !.nonCyclic = d.nonCyclic]
  BY DEF Searched
<1> HIDE DEF p
<1>4. /\ d \in Cache
      /\ d.parsed = p.parsed /\ d.imports = p.imports /\ d.hashes = p.hashes
      /\ d.index = p.index /\ d.sccs = p.sccs
  BY <1>1, <1>2, <1>3 DEF Cache
<1> QED BY <1>2, <1>4 DEF Hashed, Kept, ExactIndex

-----------------------------------------------------------------------------
(* The invariant.                                                          *)

LEMMA IncInit == IncrementalInit => IncInv
<1> SUFFICES ASSUME IncrementalInit PROVE IncInv
  OBVIOUS
<1>1. program \in [Files -> Seq(Texts) \ {<<>>}]
  BY ProgramsAssumption DEF IncrementalInit
<1>2. \A f \in Files : Len(program[f]) \in Nat \ {0}
  BY <1>1
<1> QED BY <1>2, EmptyCacheKept DEF IncrementalInit, IncInv

LEMMA IncNext == IncInv /\ [IncrementalNext]_incrementalVars => IncInv'
<1> SUFFICES ASSUME IncInv, [IncrementalNext]_incrementalVars PROVE IncInv'
  OBVIOUS
<1>1. /\ program \in Programs /\ Versions
      /\ \A f \in Files : version[f] <= Len(program[f])
      /\ cache \in Cache /\ Hashed(cache) /\ Kept(cache)
      /\ saved \in Saved \cup {NoSave}
      /\ saved # NoSave => Kept(saved)
  BY DEF IncInv, Versions
<1>2. ASSUME UNCHANGED program, Hashed(cache'), Kept(cache')
      PROVE  Hashed(cache)' /\ Kept(cache)'
  BY <1>2 DEF Hashed, Kept, HashedGraph, ImportsAt, ExactIndex
<1>3. ASSUME UNCHANGED program, Kept(saved')
      PROVE  Kept(saved)'
  BY <1>3 DEF Kept, HashedGraph, ImportsAt, ExactIndex
\* A step of the running process that leaves the files and the cache file alone.
<1>4. ASSUME UNCHANGED <<files, saved>>, cache' \in Cache, Hashed(cache'), Kept(cache')
      PROVE  IncInv'
  <2>1. UNCHANGED program /\ UNCHANGED version /\ UNCHANGED saved
    BY <1>4 DEF files
  <2>2. Hashed(cache)' /\ Kept(cache)'
    BY <1>2, <1>4, <2>1
  <2>3. saved' # NoSave => Kept(saved)'
    BY <1>1, <1>3, <2>1
  <2> QED BY <1>1, <1>4, <2>1, <2>2, <2>3 DEF IncInv, Versions
\* A step that leaves the files alone and starts from a new cache.
<1>5. ASSUME UNCHANGED files, cache' = EmptyCache,
             saved' \in Saved \cup {NoSave}, saved' # NoSave => Kept(saved')
      PROVE  IncInv'
  <2>1. UNCHANGED program /\ UNCHANGED version
    BY <1>5 DEF files
  <2>2. cache' \in Cache /\ Hashed(cache)' /\ Kept(cache)'
    BY <1>2, <1>5, <2>1, EmptyCacheKept
  <2>3. saved' # NoSave => Kept(saved)'
    BY <1>3, <1>5, <2>1
  <2> QED BY <1>1, <1>5, <2>1, <2>2, <2>3 DEF IncInv, Versions
<1>6. ASSUME NEW f \in Files, Compute(f) PROVE IncInv'
  <2>1. cache' \in Cache /\ Hashed(cache') /\ Kept(cache')
    BY <1>1, <1>6, ComputeKept DEF Compute
  <2> QED BY <1>4, <1>6, <2>1 DEF Compute
<1>7. CASE Search
  <2>1. cache' \in Cache /\ Hashed(cache') /\ Kept(cache')
    <3>1. CASE Searched(cache, cache')
      BY <1>1, <3>1, SearchedKept
    <3>2. CASE \E f \in Files : \E c \in ComputeSCCs(f, cache, disk) : Searched(c, cache')
      <4>1. PICK f \in Files : \E c \in ComputeSCCs(f, cache, disk) : Searched(c, cache')
        BY <3>2
      <4>2. PICK c \in ComputeSCCs(f, cache, disk) : Searched(c, cache')
        BY <4>1
      <4>3. c \in Cache /\ Hashed(c) /\ Kept(c)
        BY <1>1, ComputeKept
      <4> QED BY <1>1, <4>2, <4>3, SearchedKept
    <3> QED BY <1>7, <3>1, <3>2 DEF Search
  <2> QED BY <1>4, <1>7, <2>1 DEF Search
<1>8. ASSUME NEW f \in Files, Edit(f) PROVE IncInv'
  <2>1. UNCHANGED program /\ UNCHANGED cache /\ UNCHANGED saved
    BY <1>8 DEF Edit
  <2>2. Hashed(cache)' /\ Kept(cache)' /\ (saved' # NoSave => Kept(saved)')
    BY <1>1, <1>2, <1>3, <2>1
  <2>3. program \in [Files -> Seq(Texts) \ {<<>>}]
    BY <1>1, ProgramsAssumption
  <2>4. \A g \in Files : Len(program[g]) \in Nat
    BY <2>3
  <2>5. Versions' /\ \A g \in Files : version'[g] <= Len(program[g])
    BY <1>1, <1>8, <2>4 DEF Edit, Versions
  <2> QED BY <1>1, <2>1, <2>2, <2>5 DEF IncInv, Versions
<1>9. CASE SaveCacheToDisk
  <2>1. UNCHANGED program /\ UNCHANGED version /\ UNCHANGED cache
    BY <1>9 DEF SaveCacheToDisk, files
  <2>2. saved' \in Saved /\ saved'.hashes = cache.hashes /\ saved'.index = cache.index
        /\ saved'.sccs = cache.sccs
    BY <1>1, <1>9 DEF SaveCacheToDisk, Persisted, Saved, Cache
  <2>3. Kept(saved')
    BY <1>1, <2>2 DEF Kept, ExactIndex
  <2>4. Hashed(cache)' /\ Kept(cache)' /\ Kept(saved)'
    BY <1>1, <1>2, <1>3, <2>1, <2>3
  <2> QED BY <1>1, <2>1, <2>2, <2>4 DEF IncInv, Versions
<1>10. CASE SaveInterrupted
  BY <1>5, <1>10 DEF SaveInterrupted
<1>11. CASE Restart
  BY <1>1, <1>5, <1>11 DEF Restart
<1>12. CASE LoadCacheFromDisk
  <2>1. saved \in Saved /\ Kept(saved)
    BY <1>1, <1>12 DEF LoadCacheFromDisk
  <2>2. /\ cache' \in Cache /\ cache'.parsed = {}
        /\ cache'.hashes = saved.hashes /\ cache'.index = saved.index
        /\ cache'.sccs = saved.sccs
    BY <1>12, <2>1, EmptyCacheKept DEF LoadCacheFromDisk, Saved, Cache, EmptyCache
  <2>3. Hashed(cache') /\ Kept(cache')
    BY <2>1, <2>2 DEF Hashed, Kept, ExactIndex
  <2> QED BY <1>4, <1>12, <2>2, <2>3 DEF LoadCacheFromDisk
<1>13. CASE GetFilesNeedingReanalysis
  <2>1. /\ cache' \in Cache
        /\ cache'.parsed = cache.parsed /\ cache'.imports = cache.imports
        /\ cache'.hashes = cache.hashes /\ cache'.index = cache.index
        /\ cache'.sccs = cache.sccs
    BY <1>1, <1>13 DEF GetFilesNeedingReanalysis, Cache
  <2>2. Hashed(cache') /\ Kept(cache')
    BY <1>1, <2>1 DEF Hashed, Kept, ExactIndex
  <2> QED BY <1>4, <1>13, <2>1, <2>2 DEF GetFilesNeedingReanalysis
<1>14. CASE UNCHANGED incrementalVars
  BY <1>1, <1>4, <1>14 DEF incrementalVars
<1> QED
  BY <1>6, <1>7, <1>8, <1>9, <1>10, <1>11, <1>12, <1>13, <1>14
  DEF IncrementalNext, Housekeeping

\* The inductive invariant holds in every state.
THEOREM IncInvariant == IncrementalSpec => []IncInv
BY IncInit, IncNext, PTL DEF IncrementalSpec

-----------------------------------------------------------------------------
(* What follows from it.                                                   *)

\* An exact index leads into its list of components.
LEMMA IndexInRange ==
    ASSUME NEW c, c.sccs \in Seq(SUBSET Files), c.index \in [Files -> Nat], Kept(c),
           NEW f \in Files
    PROVE  c.index[f] <= Len(c.sccs)
<1>1. Len(c.sccs) \in Nat /\ DOMAIN c.sccs = 1..Len(c.sccs) /\ c.index[f] \in Nat
  OBVIOUS
<1>2. c.index[f] # 0 => c.index[f] \in DOMAIN c.sccs
  BY DEF Kept, ExactIndex
<1> QED BY <1>1, <1>2

(***************************************************************************)
(* Types are correct, and no index leads out of the list of components,    *)
(* through every sequence of searches, edits, saves, kills and loads.      *)
(***************************************************************************)
THEOREM IncrementalTypes == IncrementalSpec => []IncrementalTypeOK
<1>1. IncInv => IncrementalTypeOK
  <2> SUFFICES ASSUME IncInv PROVE IncrementalTypeOK
    OBVIOUS
  <2>1. \A f \in Files : cache.index[f] <= Len(cache.sccs)
    BY IndexInRange DEF IncInv, Cache
  <2>2. saved # NoSave => \A f \in Files : saved.index[f] <= Len(saved.sccs)
    BY IndexInRange DEF IncInv, Saved
  <2> QED BY <2>1, <2>2 DEF IncInv, IncrementalTypeOK
<1> QED BY <1>1, IncInvariant, PTL

\* What Kept says, in the terms of the property.
LEMMA KeptIsIndexOfHashed ==
    ASSUME NEW c, Kept(c)
    PROVE  IndexOfHashed(c.hashes, c.index)
<1> DEFINE H == HashedGraph(c.hashes)
<1>1. H \in [Files -> SUBSET Files] /\ ExactIndex(c, H)
  BY HashedGraphType DEF Kept
<1>2. Closed(H, {f \in Files : c.index[f] # 0})
  BY <1>1 DEF Closed, Kept
<1> HIDE DEF H
<1>3. ASSUME NEW f \in Files, c.index[f] # 0, NEW g \in Files
      PROVE  g \in Component(H, f) <=> c.index[g] = c.index[f]
  <2>1. g \in Component(H, f) => c.index[g] = c.index[f]
    BY <1>1, <1>3 DEF ExactIndex
  <2>2. ASSUME c.index[g] = c.index[f] PROVE g \in Component(H, f)
    <3>1. Component(H, g) = Component(H, f)
      BY <1>1, <1>3, <2>2 DEF ExactIndex
    <3> QED BY <1>1, <3>1, ComponentMember
  <2> QED BY <2>1, <2>2
<1>4. \A f \in Files : Component(H, f) \subseteq Files
  BY <1>1, ComponentMember
<1>5. \A f \in Files :
         c.index[f] # 0 => Component(H, f) = {g \in Files : c.index[g] = c.index[f]}
  BY <1>3, <1>4
<1> QED BY <1>1, <1>2, <1>5 DEF IndexOfHashed, Graphs, H

(***************************************************************************)
(* The index is the component structure of the contents whose hashes are   *)
(* kept beside it, in the cache and in the cache file.                     *)
(***************************************************************************)
THEOREM IndexKeepsToHashes == IncrementalSpec => []IndexMatchesHashes
<1>1. IncInv => IndexMatchesHashes
  BY KeptIsIndexOfHashed DEF IncInv, IndexMatchesHashes
<1> QED BY <1>1, IncInvariant, PTL

LEMMA DiskGraphType == DiskGraph \in [Files -> SUBSET Files]
BY DEF DiskGraph, ImportsAt, ParsedImports

\* A file whose stored hash is that of the disk has the edges of the disk.
LEMMA UnchangedEdges ==
    ASSUME IncInv, NEW f \in Files, f \in Missing \/ cache.hashes[f] = version[f]
    PROVE  HashedGraph(cache.hashes)[f] = DiskGraph[f]
BY DEF IncInv, HashedGraph, DiskGraph, ImportsAt

(***************************************************************************)
(* The verdict on a file that depends on no changed file is that of the    *)
(* disk: the two graphs agree on what the file reaches.                    *)
(***************************************************************************)
THEOREM UnchangedVerdicts == IncrementalSpec => []UnchangedVerdictExact
<1>1. ASSUME IncInv PROVE UnchangedVerdictExact
  <2> DEFINE G == DiskGraph
             H == HashedGraph(cache.hashes)
  <2>1. G \in [Files -> SUBSET Files] /\ H \in [Files -> SUBSET Files]
    BY DiskGraphType, HashedGraphType
  <2>2. ASSUME NEW f \in Files, cache.index[f] # 0,
               \A g \in Reachable(G, f) : g \in Missing \/ cache.hashes[g] = version[g]
        PROVE  InCycle(cache, f) <=> OnCycle(G, f)
    <3>1. Reachable(G, f) \in SUBSET Files /\ f \in Reachable(G, f) /\ Closed(G, Reachable(G, f))
      <4> HIDE DEF G
      <4> QED BY <2>1, ReachableClosed
    <3>2. \A g \in Reachable(G, f) : H[g] = G[g]
      BY <1>1, <2>2, <3>1, UnchangedEdges
    <3>3. Component(H, f) = Component(G, f)
      <4> DEFINE I == Reachable(G, f)
      <4> HIDE DEF G, H, I
      <4>1. I \in SUBSET Files /\ f \in I /\ Closed(G, I) /\ \A g \in I : H[g] = G[g]
        BY <3>1, <3>2 DEF I
      <4> QED BY <2>1, <4>1, ComponentAgree
    <3>4. cache.sccs[cache.index[f]] = Component(H, f)
      BY <1>1, <2>2 DEF IncInv, Kept, ExactIndex
    <3> QED BY <2>2, <3>3, <3>4 DEF InCycle, OnCycle
  <2> QED BY <2>1, <2>2 DEF UnchangedVerdictExact, Graphs
<1> QED BY <1>1, IncInvariant, PTL

(***************************************************************************)
(* A path inside a component whose edges two graphs share is a path of     *)
(* both: the files of the component that a closed set holds, with those    *)
(* that do not lead to f, are closed too.                                  *)
(***************************************************************************)
LEMMA PathInComponent ==
    ASSUME NEW N, NEW G \in [N -> SUBSET N], NEW H \in [N -> SUBSET N],
           NEW e \in N, \A x \in Component(H, e) : G[x] = H[x],
           NEW f \in Component(H, e), NEW g \in Component(H, e)
    PROVE  Reaches(G, f, g)
<1>1. /\ f \in N /\ g \in N
      /\ Reaches(H, e, f) /\ Reaches(H, f, e) /\ Reaches(H, e, g) /\ Reaches(H, g, e)
  BY ComponentMember
<1>2. Reaches(H, f, g) /\ Reaches(H, g, f)
  BY <1>1, ReachesTransitive
<1> SUFFICES ASSUME NEW S \in SUBSET N, f \in S, Closed(G, S), g \notin S
             PROVE  FALSE
  BY DEF Reaches
<1> DEFINE U == (S \cap Component(H, e)) \cup {x \in N : ~Reaches(H, x, e)}
<1>3. U \in SUBSET N /\ f \in U
  OBVIOUS
<1>4. g \notin U
  BY <1>1
<1>5. ASSUME NEW x \in U, NEW y \in H[x], Reaches(H, y, e)
      PROVE  y \in S \cap Component(H, e)
  <2>1. x \in N /\ y \in N
    BY <1>3, <1>5
  <2>2. Reaches(H, x, y)
    BY <1>5, <2>1, ReachesSelf, ReachesImport
  <2>3. Reaches(H, x, e)
    BY <1>5, <2>1, <2>2, ReachesTransitive
  <2>4. x \in S /\ x \in Component(H, e)
    BY <1>5, <2>3
  <2>5. y \in S
    BY <1>5, <2>4 DEF Closed
  <2>6. Reaches(H, e, x)
    BY <2>4, ComponentMember
  <2>7. Reaches(H, e, y)
    BY <2>1, <2>2, <2>6, ReachesTransitive
  <2> QED BY <1>5, <2>1, <2>5, <2>7, ComponentMember
<1>6. Closed(H, U)
  BY <1>3, <1>5 DEF Closed
<1> HIDE DEF U
<1> QED BY <1>2, <1>3, <1>4, <1>6, ReachesWithin

(***************************************************************************)
(* A file called cyclic that needs no reanalysis is on a cycle on disk:    *)
(* its whole component is unchanged.                                       *)
(***************************************************************************)
THEOREM StalePositivesReanalysed == IncrementalSpec => []NoStalePositive
<1>1. ASSUME IncInv PROVE NoStalePositive
  <2> DEFINE G == DiskGraph
             H == HashedGraph(cache.hashes)
  <2>1. G \in [Files -> SUBSET Files] /\ H \in [Files -> SUBSET Files]
    BY DiskGraphType, HashedGraphType
  <2>2. ASSUME NEW f \in Files \ NeedingReanalysis(cache), InCycle(cache, f)
        PROVE  OnCycle(G, f)
    <3>1. f \notin Changed(cache) /\ f \notin SharingComponent(cache)
      BY <2>2 DEF NeedingReanalysis
    <3>2. /\ cache.index[f] # 0 /\ cache.index[f] \in DOMAIN cache.sccs
          /\ cache.sccs[cache.index[f]] = Component(H, f)
          /\ \A g \in Component(H, f) : cache.index[g] = cache.index[f]
      BY <1>1, <2>2 DEF IncInv, Kept, ExactIndex, InCycle
    <3>3. f \in Component(H, f) /\ Component(H, f) \subseteq Files
      <4> HIDE DEF H
      <4> QED BY <2>1, <2>2, ComponentMember
    <3>4. \A g \in Component(H, f) : g \notin Changed(cache)
      BY <3>1, <3>2, <3>3 DEF SharingComponent
    <3>5. \A g \in Component(H, f) : G[g] = H[g]
      BY <1>1, <3>3, <3>4, UnchangedEdges DEF Changed
    <3>6. PICK g \in Component(H, f) : g # f
      BY <2>2, <3>2, <3>3 DEF InCycle
    <3> HIDE DEF G, H
    <3>7. Reaches(G, f, g) /\ Reaches(G, g, f)
      BY <2>1, <3>3, <3>5, <3>6, PathInComponent
    <3>8. g \in Component(G, f)
      BY <2>1, <3>3, <3>6, <3>7, ComponentMember
    <3> QED BY <3>6, <3>8 DEF OnCycle
  <2> QED BY <2>1, <2>2 DEF NoStalePositive, Graphs
<1> QED BY <1>1, IncInvariant, PTL
=============================================================================
