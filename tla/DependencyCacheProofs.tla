------------------------ MODULE DependencyCacheProofs ------------------------
(***************************************************************************)
(* What the operations on the cache preserve.  The invariant CacheInv      *)
(* speaks of one cache c and of the import graph it stands for, View; all  *)
(* operations but an edit and a clear leave View alone.                    *)
(***************************************************************************)
EXTENDS DependencyCache, ImportGraphProofs

\* An entry is there exactly for the files parsed, and only they have a hash,
\* so parsing one more always invalidates.
KnownFiles(c) ==
    /\ c.parsed \cap Missing = {}
    /\ \A f \in Files \ c.parsed : c.hashes[f] = 0

ClosedIndex(c, V) ==
    \A f \in Files : c.index[f] # 0 =>
        /\ f \in c.parsed \cup Missing
        /\ \A g \in V[f] : c.index[g] # 0

ExactIndex(c, V) ==
    \A f \in Files : c.index[f] # 0 =>
        /\ c.index[f] \in DOMAIN c.sccs
        /\ c.sccs[c.index[f]] = Component(V, f)
        /\ \A g \in Component(V, f) : c.index[g] = c.index[f]

SoundNonCyclic(c, V) ==
    \A f \in c.nonCyclic : c.index[f] # 0 /\ Component(V, f) = {f}

CacheInv(c, disk) ==
    /\ c \in Cache
    /\ KnownFiles(c)
    /\ ClosedIndex(c, View(c, disk))
    /\ ExactIndex(c, View(c, disk))
    /\ SoundNonCyclic(c, View(c, disk))

\* The versions of the files are never 0, which stands for "no hash".
Versioned(disk) == \A f \in Files : disk[f].version \in Nat \ {0}

-----------------------------------------------------------------------------

\* What the cache stands for is a graph on Files.
LEMMA ViewType ==
    ASSUME NEW disk, NEW c \in Cache
    PROVE  View(c, disk) \in [Files -> SUBSET Files]
BY DEF View, Cache, ReadImports, ParsedImports

\* Invalidation empties what is derived from the graph and nothing else.
LEMMA InvalidateFields ==
    ASSUME NEW c \in Cache
    PROVE  LET d == InvalidateSCCCache(c)
           IN  /\ d \in Cache
               /\ d.parsed = c.parsed /\ d.imports = c.imports /\ d.hashes = c.hashes
               /\ d.nonCyclic = {}
               /\ \A f \in Files : d.index[f] = 0
<1> DEFINE zero == [f \in Files |-> 0]
           d == InvalidateSCCCache(c)
<1>1. zero \in [Files -> Nat] /\ \A f \in Files : zero[f] = 0
  OBVIOUS
<1> HIDE DEF zero
<1>2. d = [c EXCEPT !.index = zero, !.sccs = <<>>, !.computed = FALSE, !.nonCyclic = {}]
  BY DEF InvalidateSCCCache, zero
<1>3. /\ d.parsed = c.parsed /\ d.imports = c.imports /\ d.hashes = c.hashes
      /\ d.nonCyclic = {} /\ d.index = zero
  BY <1>2 DEF Cache
<1>4. d = [parsed |-> c.parsed, imports |-> c.imports, hashes |-> c.hashes,
           index |-> zero, sccs |-> <<>>, computed |-> FALSE, nonCyclic |-> {}]
  BY <1>2 DEF Cache
<1>5. d \in Cache
  <2>1. <<>> \in Seq(SUBSET Files)
    OBVIOUS
  <2> QED BY <1>1, <1>4, <2>1 DEF Cache
<1> QED BY <1>1, <1>3, <1>5

\* The cache that createFileSystemCache() makes satisfies the invariant.
LEMMA EmptyCacheInv ==
    ASSUME NEW disk
    PROVE  CacheInv(EmptyCache, disk)
<1>1. EmptyCache \in Cache
  BY DEF EmptyCache, Cache
<1> QED
  BY <1>1 DEF CacheInv, EmptyCache, KnownFiles, ClosedIndex, ExactIndex, SoundNonCyclic

(***************************************************************************)
(* Parsing leaves the graph alone.  It either changes nothing or empties   *)
(* the index.                                                              *)
(***************************************************************************)
LEMMA ParseAllInv ==
    ASSUME NEW disk, Versioned(disk), NEW c, CacheInv(c, disk), NEW S \in SUBSET Files
    PROVE  LET d == ParseAll(S, c, disk)
           IN  /\ CacheInv(d, disk)
               /\ View(d, disk) = View(c, disk)
               /\ S \subseteq d.parsed \cup Missing
               /\ d = c \/ \A f \in Files : d.index[f] = 0
<1> DEFINE new == (S \ c.parsed) \ Missing
           d == ParseAll(S, c, disk)
<1>1. c \in Cache /\ KnownFiles(c)
  BY DEF CacheInv
<1>2. CASE new = {}
  <2> DEFINE imports == [f \in Files |-> IF f \in new THEN ReadImports(disk, f) ELSE c.imports[f]]
             hashes == [f \in Files |-> IF f \in new THEN disk[f].version ELSE c.hashes[f]]
  <2>1. imports = c.imports /\ hashes = c.hashes /\ c.parsed \cup new = c.parsed
    BY <1>1, <1>2 DEF Cache
  <2>2. d = [c EXCEPT !.parsed = c.parsed \cup new, !.imports = imports, !.hashes = hashes]
    BY <1>1, <1>2 DEF ParseAll, Cache
  <2>3. d = c
    BY <1>1, <2>1, <2>2 DEF Cache
  <2>4. S \subseteq c.parsed \cup Missing
    BY <1>2
  <2> QED BY <2>3, <2>4
<1>3. CASE new # {}
  <2> DEFINE e == [c EXCEPT
                     !.parsed  = @ \cup new,
                     !.imports = [f \in Files |-> IF f \in new THEN ReadImports(disk, f) ELSE @[f]],
                     !.hashes  = [f \in Files |-> IF f \in new THEN disk[f].version ELSE @[f]]]
  <2>1. \E f \in new : c.hashes[f] # disk[f].version
    BY <1>1, <1>3 DEF KnownFiles, Versioned
  <2>2. d = InvalidateSCCCache(e)
    BY <2>1 DEF ParseAll
  <2>3. /\ e \in Cache
        /\ e.parsed = c.parsed \cup new
        /\ \A f \in Files : e.imports[f] = IF f \in new THEN ReadImports(disk, f) ELSE c.imports[f]
        /\ \A f \in Files : e.hashes[f] = IF f \in new THEN disk[f].version ELSE c.hashes[f]
    BY <1>1 DEF Cache, Versioned, ReadImports, ParsedImports
  <2>4. /\ d \in Cache
        /\ d.parsed = e.parsed /\ d.imports = e.imports /\ d.hashes = e.hashes
        /\ d.nonCyclic = {}
        /\ \A f \in Files : d.index[f] = 0
    <3> HIDE DEF e, d
    <3> QED BY <2>2, <2>3, InvalidateFields
  <2>5. KnownFiles(d)
    BY <1>1, <2>3, <2>4 DEF KnownFiles
  <2>6. View(d, disk) = View(c, disk)
    BY <2>3, <2>4 DEF View
  <2>7. CacheInv(d, disk)
    BY <2>4, <2>5 DEF CacheInv, ClosedIndex, ExactIndex, SoundNonCyclic
  <2>8. S \subseteq d.parsed \cup Missing
    BY <2>3, <2>4
  <2> QED BY <2>4, <2>6, <2>7, <2>8
<1> QED BY <1>2, <1>3

(***************************************************************************)
(* What the merge leaves in the index: an old number where there was one,  *)
(* and otherwise a number above all the old ones.                          *)
(***************************************************************************)
LEMMA MergeFields ==
    ASSUME NEW c \in Cache, NEW order \in Seq(SUBSET Files)
    PROVE  LET d == MergeSCCs(order, c)
           IN  /\ d \in Cache
               /\ d.parsed = c.parsed /\ d.imports = c.imports /\ d.hashes = c.hashes
               /\ d.sccs = c.sccs \o order
               /\ d.nonCyclic = MergedNonCyclic(order, c)
               /\ d.index = MergedIndex(order, c)
<1> DEFINE d == MergeSCCs(order, c)
<1>1. MergedIndex(order, c) \in [Files -> Nat]
  <2> SUFFICES ASSUME NEW f \in Files, f \in Covered(order)
               PROVE  Len(c.sccs) + PlaceIn(order, f) \in Nat
    BY DEF MergedIndex, Cache
  <2>1. \E i \in DOMAIN order : f \in order[i]
    BY DEF Covered
  <2>2. PlaceIn(order, f) \in DOMAIN order
    BY <2>1 DEF PlaceIn
  <2> QED BY <2>2 DEF Cache
<1>2. MergedNonCyclic(order, c) \in SUBSET Files
  BY DEF MergedNonCyclic, Cache
<1>3. c.sccs \o order \in Seq(SUBSET Files)
  BY DEF Cache
<1>4. d = [parsed |-> c.parsed, imports |-> c.imports, hashes |-> c.hashes,
           index |-> MergedIndex(order, c), sccs |-> c.sccs \o order,
           computed |-> TRUE, nonCyclic |-> MergedNonCyclic(order, c)]
  <2> DEFINE sccs == c.sccs \o order
             index == MergedIndex(order, c)
             nonCyclic == MergedNonCyclic(order, c)
  <2>1. d = [c EXCEPT !.sccs = sccs, !.computed = TRUE, !.index = index, !.nonCyclic = nonCyclic]
    BY DEF MergeSCCs
  <2> HIDE DEF sccs, index, nonCyclic, d
  <2>2. d = [parsed |-> c.parsed, imports |-> c.imports, hashes |-> c.hashes, index |-> index,
             sccs |-> sccs, computed |-> TRUE, nonCyclic |-> nonCyclic]
    BY <2>1 DEF Cache
  <2> QED BY <2>2 DEF sccs, index, nonCyclic
<1>5. d \in Cache
  BY <1>1, <1>2, <1>3, <1>4 DEF Cache
<1> QED BY <1>4, <1>5

\* order lists the components of G that lie in R, each once.
Decomposes(order, G, R) ==
    /\ order \in Seq(SUBSET Files)
    /\ \A i \in DOMAIN order : \A f \in order[i] : f \in R /\ order[i] = Component(G, f)
    /\ \A f \in R : \E i \in DOMAIN order : order[i] = Component(G, f)
    /\ \A i, j \in DOMAIN order : order[i] = order[j] => i = j

\* Whatever order Tarjan emits the components of a closed region in.
LEMMA EmissionDecomposes ==
    ASSUME NEW G \in [Files -> SUBSET Files], NEW R \in SUBSET Files, Closed(G, R),
           NEW order \in EmissionOrders(G, R)
    PROVE  Decomposes(order, G, R)
<1>1. /\ order \in Seq(SUBSET Files)
      /\ \A i \in DOMAIN order : \A f \in order[i] : f \in R /\ order[i] = Component(G, f)
      /\ \A f \in R : \E i \in DOMAIN order : order[i] = Component(G, f)
      /\ \A i, j \in DOMAIN order : order[i] = order[j] => i = j
  <2>1. Closed(G, R) /\ order \in EmissionOrders(G, R) /\ IsFiniteSet(Files)
    BY FilesAssumption
  <2>2. G \in [Files -> SUBSET Files] /\ R \in SUBSET Files
    OBVIOUS
  <2> QED BY <2>1, <2>2, EmissionOrder
<1> QED BY <1>1 DEF Decomposes

(***************************************************************************)
(* Merging the components of a region R into an index that is exact for    *)
(* the same graph leaves it exact: a component of R is indexed already as  *)
(* a whole or not at all.                                                  *)
(***************************************************************************)
LEMMA MergeExact ==
    ASSUME NEW c \in Cache, NEW V \in [Files -> SUBSET Files], ExactIndex(c, V),
           NEW R \in SUBSET Files, NEW order, Decomposes(order, V, R)
    PROVE  LET d == MergeSCCs(order, c)
           IN  /\ d \in Cache
               /\ d.parsed = c.parsed /\ d.imports = c.imports /\ d.hashes = c.hashes
               /\ d.nonCyclic = MergedNonCyclic(order, c)
               /\ ExactIndex(d, V)
               /\ \A f \in Files : d.index[f] # 0 <=> c.index[f] # 0 \/ f \in R
<1> DEFINE d == MergeSCCs(order, c)
           fresh(f) == c.index[f] = 0 /\ f \in R
<1>1. c \in Cache /\ V \in [Files -> SUBSET Files] /\ ExactIndex(c, V)
  OBVIOUS
<1>2. /\ order \in Seq(SUBSET Files)
      /\ \A i \in DOMAIN order : \A f \in order[i] : f \in R /\ order[i] = Component(V, f)
      /\ \A f \in R : \E i \in DOMAIN order : order[i] = Component(V, f)
      /\ \A i, j \in DOMAIN order : order[i] = order[j] => i = j
  BY DEF Decomposes
<1>3. \A f \in Files : f \in Component(V, f) /\ Component(V, f) \in SUBSET Files
  BY ComponentMember
<1>4. Covered(order) = R
  BY <1>2, <1>3 DEF Covered
<1>5. \A f \in R : PlaceIn(order, f) \in DOMAIN order /\ order[PlaceIn(order, f)] = Component(V, f)
  <2> SUFFICES ASSUME NEW f \in R
               PROVE  PlaceIn(order, f) \in DOMAIN order /\ order[PlaceIn(order, f)] = Component(V, f)
    OBVIOUS
  <2>1. \E i \in DOMAIN order : f \in order[i]
    BY <1>2, <1>3
  <2>2. PlaceIn(order, f) \in DOMAIN order /\ f \in order[PlaceIn(order, f)]
    BY <2>1 DEF PlaceIn
  <2> QED BY <1>2, <2>2
<1>6. /\ d \in Cache
      /\ d.parsed = c.parsed /\ d.imports = c.imports /\ d.hashes = c.hashes
      /\ d.sccs = c.sccs \o order
      /\ d.nonCyclic = MergedNonCyclic(order, c)
      /\ d.index = MergedIndex(order, c)
  BY <1>1, <1>2, MergeFields
<1> HIDE DEF d
<1>7. \A f \in Files :
         /\ fresh(f)  => d.index[f] = Len(c.sccs) + PlaceIn(order, f)
         /\ ~fresh(f) => d.index[f] = c.index[f]
  BY <1>4, <1>6 DEF MergedIndex
<1>8. /\ Len(c.sccs) \in Nat /\ DOMAIN order = 1..Len(order) /\ Len(order) \in Nat
      /\ Len(d.sccs) = Len(c.sccs) + Len(order) /\ DOMAIN d.sccs = 1..Len(d.sccs)
      /\ \A i \in 1..Len(c.sccs) : d.sccs[i] = c.sccs[i]
      /\ \A i \in DOMAIN order : d.sccs[Len(c.sccs) + i] = order[i]
  BY <1>1, <1>2, <1>6 DEF Cache
<1>9. \A f \in Files : d.index[f] # 0 <=> c.index[f] # 0 \/ f \in R
  <2> SUFFICES ASSUME NEW f \in Files
               PROVE  d.index[f] # 0 <=> c.index[f] # 0 \/ f \in R
    OBVIOUS
  <2>1. CASE fresh(f)
    BY <1>5, <1>7, <1>8, <2>1
  <2>2. CASE ~fresh(f)
    BY <1>7, <2>2
  <2> QED BY <2>1, <2>2
<1>10. ExactIndex(d, V)
  <2> SUFFICES ASSUME NEW f \in Files, d.index[f] # 0
               PROVE  /\ d.index[f] \in DOMAIN d.sccs
                      /\ d.sccs[d.index[f]] = Component(V, f)
                      /\ \A g \in Component(V, f) : d.index[g] = d.index[f]
    BY DEF ExactIndex
  <2>1. CASE fresh(f)
    <3>1. d.index[f] \in DOMAIN d.sccs /\ d.sccs[d.index[f]] = Component(V, f)
      <4>1. PlaceIn(order, f) \in 1..Len(order) /\ order[PlaceIn(order, f)] = Component(V, f)
        BY <1>5, <1>8, <2>1
      <4>2. d.index[f] = Len(c.sccs) + PlaceIn(order, f)
        BY <1>7, <2>1
      <4> HIDE DEF fresh
      <4> QED BY <1>8, <4>1, <4>2
    <3>2. ASSUME NEW g \in Component(V, f) PROVE d.index[g] = d.index[f]
      <4>1. g \in Files /\ Component(V, g) = Component(V, f) /\ f \in Component(V, g)
        BY <1>1, <1>3, ComponentEqual
      <4>2. g \in R
        BY <1>2, <2>1, <3>2
      <4>3. c.index[g] = 0
        BY <1>1, <2>1, <4>1 DEF ExactIndex
      <4>4. PlaceIn(order, g) = PlaceIn(order, f)
        BY <1>2, <1>5, <2>1, <4>1, <4>2
      <4> QED BY <1>7, <2>1, <4>1, <4>2, <4>3, <4>4
    <3> QED BY <3>1, <3>2
  <2>2. CASE ~fresh(f)
    <3>1. c.index[f] # 0 /\ d.index[f] = c.index[f]
      BY <1>7, <2>2
    <3>2. c.index[f] \in 1..Len(c.sccs) /\ c.sccs[c.index[f]] = Component(V, f)
      BY <1>1, <3>1 DEF ExactIndex, Cache
    <3>3. d.index[f] \in DOMAIN d.sccs /\ d.sccs[d.index[f]] = Component(V, f)
      BY <1>8, <3>1, <3>2
    <3>4. ASSUME NEW g \in Component(V, f) PROVE d.index[g] = d.index[f]
      BY <1>1, <1>3, <1>7, <3>1, <3>4 DEF ExactIndex
    <3> QED BY <3>3, <3>4
  <2> QED BY <2>1, <2>2
<1> QED BY <1>6, <1>9, <1>10 DEF d

(***************************************************************************)
(* Merging the components of a closed region R into a cache that satisfies *)
(* the invariant.                                                          *)
(***************************************************************************)
LEMMA MergeInv ==
    ASSUME NEW disk, NEW c, CacheInv(c, disk),
           NEW R \in SUBSET Files, Closed(View(c, disk), R),
           R \subseteq c.parsed \cup Missing,
           NEW order \in EmissionOrders(View(c, disk), R)
    PROVE  LET d == MergeSCCs(order, c)
           IN  /\ CacheInv(d, disk)
               /\ View(d, disk) = View(c, disk)
               /\ \A f \in R : d.index[f] # 0
<1> DEFINE V == View(c, disk)
           d == MergeSCCs(order, c)
<1>1. /\ c \in Cache /\ V \in [Files -> SUBSET Files] /\ Closed(V, R)
      /\ KnownFiles(c) /\ ClosedIndex(c, V) /\ ExactIndex(c, V) /\ SoundNonCyclic(c, V)
  BY ViewType DEF CacheInv
<1>2. Decomposes(order, V, R)
  BY <1>1, EmissionDecomposes
<1>3. /\ d \in Cache
      /\ d.parsed = c.parsed /\ d.imports = c.imports /\ d.hashes = c.hashes
      /\ d.nonCyclic = MergedNonCyclic(order, c)
      /\ ExactIndex(d, V)
      /\ \A f \in Files : d.index[f] # 0 <=> c.index[f] # 0 \/ f \in R
  <2> HIDE DEF V
  <2> QED BY <1>1, <1>2, MergeExact
<1> HIDE DEF d, V
<1>4. View(d, disk) = V
  BY <1>3 DEF View, V
<1>5. KnownFiles(d)
  BY <1>1, <1>3 DEF KnownFiles
<1>6. ClosedIndex(d, V)
  BY <1>1, <1>3 DEF ClosedIndex, Closed
<1>7. SoundNonCyclic(d, V)
  <2> SUFFICES ASSUME NEW f \in d.nonCyclic
               PROVE  d.index[f] # 0 /\ Component(V, f) = {f}
    BY DEF SoundNonCyclic
  <2>1. CASE f \in c.nonCyclic
    BY <1>1, <1>3, <2>1 DEF SoundNonCyclic, Cache
  <2>2. CASE f \in Files /\ \E i \in DOMAIN order : order[i] = {f}
    BY <1>2, <1>3, <2>2 DEF Decomposes
  <2> QED BY <1>3, <2>1, <2>2 DEF MergedNonCyclic
<1> QED BY <1>3, <1>4, <1>5, <1>6, <1>7 DEF CacheInv, d, V

(***************************************************************************)
(* computeSCCsFromFile() keeps the invariant and the graph, and indexes    *)
(* the file it is asked about.                                             *)
(***************************************************************************)
LEMMA ComputeSCCsInv ==
    ASSUME NEW disk, Versioned(disk), NEW c, CacheInv(c, disk), NEW f \in Files,
           NEW d \in ComputeSCCs(f, c, disk)
    PROVE  /\ CacheInv(d, disk)
           /\ View(d, disk) = View(c, disk)
           /\ d.index[f] # 0
<1> DEFINE V == View(c, disk)
           R == Reachable(V, f)
           e == ParseAll(R, c, disk)
<1>1. CASE c.computed /\ c.sccs # <<>> /\ c.index[f] # 0
  BY <1>1 DEF ComputeSCCs
<1>2. CASE ~(c.computed /\ c.sccs # <<>> /\ c.index[f] # 0)
  <2>1. PICK order \in EmissionOrders(V, R) : d = MergeSCCs(order, e)
    BY <1>2 DEF ComputeSCCs
  <2>2. R \in SUBSET Files /\ f \in R /\ Closed(V, R)
    BY ViewType, ReachableClosed DEF CacheInv
  <2>3. CacheInv(e, disk) /\ View(e, disk) = V /\ R \subseteq e.parsed \cup Missing
    BY <2>2, ParseAllInv
  <2> HIDE DEF e, R
  <2> QED BY <2>1, <2>2, <2>3, MergeInv
<1> QED BY <1>1, <1>2

-----------------------------------------------------------------------------
(* The path search.                                                        *)

\* Two files have one index exactly when they share a component.
LEMMA SameIndex ==
    ASSUME NEW disk, NEW c, CacheInv(c, disk), NEW source \in Files, NEW target \in Files,
           c.index[target] # 0
    PROVE  c.index[source] = c.index[target] <=> source \in Component(View(c, disk), target)
<1> DEFINE V == View(c, disk)
<1>1. V \in [Files -> SUBSET Files] /\ ExactIndex(c, V)
  BY ViewType DEF CacheInv
<1> HIDE DEF V
<1>2. source \in Component(V, target) => c.index[source] = c.index[target]
  BY <1>1 DEF ExactIndex
<1>3. ASSUME c.index[source] = c.index[target]
      PROVE  source \in Component(V, target)
  <2>1. Component(V, source) = Component(V, target)
    BY <1>1, <1>3 DEF ExactIndex
  <2> QED BY <1>1, <2>1, ComponentMember
<1> QED BY <1>2, <1>3 DEF V

(***************************************************************************)
(* findShortestCyclePath() finds a path whenever the two files share an    *)
(* index, although it only enters files with that index: if it did not,    *)
(* the files it searched and those that cannot reach the source would be a *)
(* closed set with the target and without the source.                      *)
(***************************************************************************)
LEMMA SearchFinds ==
    ASSUME NEW disk, NEW c, CacheInv(c, disk), NEW source \in Files, NEW target \in Files,
           source # target, c.index[target] # 0, c.index[source] = c.index[target]
    PROVE  CycleFound(c, disk, source, target)
<1> DEFINE V == View(c, disk)
           W == WithinSCC(c, disk, source)
           S == Reachable(W, target)
           U == S \cup {f \in Files : ~Reaches(V, f, source)}
<1>1. /\ V \in [Files -> SUBSET Files] /\ ExactIndex(c, V)
      /\ W \in [Files -> SUBSET Files]
      /\ \A f \in Files : W[f] = {g \in V[f] : c.index[g] = c.index[source]}
  BY ViewType DEF CacheInv, WithinSCC
<1>2. S \in SUBSET Files /\ target \in S /\ Closed(W, S)
  BY <1>1, ReachableClosed
<1>3. Reaches(V, target, source) /\ Reaches(V, source, target)
  BY <1>1, SameIndex, ComponentMember
<1> HIDE DEF V, W
<1> SUFFICES ASSUME \A f \in S : source \notin V[f]
             PROVE  FALSE
  BY DEF CycleFound, CycleSearched, V, W
<1>4. source \notin S
  <2>1. Closed(W, S \ {source})
    BY <1>1, <1>2 DEF Closed
  <2> QED BY <1>1, <1>2, <2>1, ReachableWithin
<1>5. \A f \in S : Reaches(V, target, f)
  <2>1. Closed(W, Reachable(V, target))
    BY <1>1, ReachableClosed DEF Closed
  <2>2. S \subseteq Reachable(V, target)
    BY <1>1, <2>1, ReachableClosed, ReachableWithin
  <2> QED BY <2>2 DEF Reachable
<1>6. Closed(V, U)
  <2> SUFFICES ASSUME NEW f \in U, NEW g \in V[f], Reaches(V, g, source)
               PROVE  g \in S
    BY <1>1, <1>2 DEF Closed
  <2>1. f \in Files /\ g \in Files
    BY <1>1, <1>2
  <2>2. Reaches(V, f, g)
    BY <1>1, <2>1, ReachesSelf, ReachesImport
  <2>3. f \in S
    BY <1>1, <2>1, <2>2, ReachesTransitive
  <2>4. Reaches(V, source, g)
    BY <1>1, <1>3, <1>5, <2>1, <2>2, <2>3, ReachesTransitive
  <2>5. c.index[g] = c.index[source]
    BY <1>1, <2>1, <2>4, ComponentMember DEF ExactIndex
  <2> QED BY <1>1, <1>2, <2>1, <2>3, <2>5 DEF Closed
<1>7. source \notin U
  BY <1>1, <1>4, ReachesSelf, ReachesWithin, <1>3
<1> QED BY <1>1, <1>2, <1>3, <1>6, <1>7, ReachesWithin

(***************************************************************************)
(* A file on disk changes.  The cache may keep the old imports of the file *)
(* and becomes stale, but the index still decomposes what the cache        *)
(* remembers: an indexed file is cached or missing.                        *)
(***************************************************************************)
LEMMA EditInv ==
    ASSUME NEW disk, NEW other, NEW c, CacheInv(c, disk)
    PROVE  CacheInv(c, other)
<1> DEFINE V == View(c, disk)
           V2 == View(c, other)
           I == {f \in Files : c.index[f] # 0}
<1>1. /\ c \in Cache /\ V \in [Files -> SUBSET Files] /\ V2 \in [Files -> SUBSET Files]
      /\ KnownFiles(c) /\ ClosedIndex(c, V) /\ ExactIndex(c, V) /\ SoundNonCyclic(c, V)
  BY ViewType DEF CacheInv
<1>2. \A f \in I : V2[f] = V[f]
  BY <1>1 DEF ClosedIndex, View, ReadImports
<1> HIDE DEF V, V2
<1>3. Closed(V, I)
  BY <1>1 DEF ClosedIndex, Closed
<1>4. \A f \in I : Component(V2, f) = Component(V, f)
  BY <1>1, <1>2, <1>3, ComponentAgree
<1>5. ClosedIndex(c, V2)
  BY <1>1, <1>2 DEF ClosedIndex
<1>6. ExactIndex(c, V2)
  BY <1>1, <1>4 DEF ExactIndex
<1>7. SoundNonCyclic(c, V2)
  BY <1>1, <1>4 DEF SoundNonCyclic, Cache
<1> QED BY <1>1, <1>5, <1>6, <1>7 DEF CacheInv, V2
=============================================================================
