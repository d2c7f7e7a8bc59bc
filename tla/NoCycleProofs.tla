---------------------------- MODULE NoCycleProofs ----------------------------
(***************************************************************************)
(* For every set of files, every program, every sequence of lints, edits   *)
(* and clears: the shared SCC index decomposes exactly the imports the     *)
(* cache remembers, and every verdict is the one this graph calls for.     *)
(*                                                                         *)
(* The inductive invariant IInv adds to the type invariant what            *)
(* DependencyCacheProofs shows each operation on the cache to preserve.    *)
(***************************************************************************)
EXTENDS NoCycle, DependencyCacheProofs

IInv == TypeOK /\ CacheInv(cache, disk)

\* A file on disk has a hash that no missing map entry is taken for.
LEMMA DiskVersioned ==
    ASSUME TypeOK
    PROVE  Versioned(disk)
BY DEF TypeOK, Versioned

\* Extending the index keeps the invariant and the graph, and covers the file.
LEMMA ExtendInv ==
    ASSUME TypeOK, NEW c, CacheInv(c, disk), NEW f \in Files, NEW d \in Extend(f, c)
    PROVE  /\ CacheInv(d, disk)
           /\ View(d, disk) = View(c, disk)
           /\ d.index[f] # 0
<1>1. CASE c.index[f] = 0
  BY <1>1, DiskVersioned, ComputeSCCsInv DEF Extend
<1>2. CASE c.index[f] # 0
  BY <1>2 DEF Extend
<1> QED BY <1>1, <1>2

\* A search that starts in a closed index never leaves it, whichever index
\* it goes by.
LEMMA SearchStays ==
    ASSUME NEW c, CacheInv(c, disk), NEW d \in Cache, View(d, disk) = View(c, disk),
           NEW source \in Files, NEW target \in Files, c.index[target] # 0,
           CycleFound(d, disk, source, target)
    PROVE  c.index[source] # 0
<1> DEFINE V == View(c, disk)
           W == WithinSCC(d, disk, source)
           I == {f \in Files : c.index[f] # 0}
<1>1. V \in [Files -> SUBSET Files] /\ ClosedIndex(c, V)
  BY ViewType DEF CacheInv
<1>2. /\ W \in [Files -> SUBSET Files]
      /\ \A f \in Files : W[f] = {g \in V[f] : d.index[g] = d.index[source]}
  BY <1>1 DEF WithinSCC
<1>3. PICK f \in Reachable(W, target) : source \in V[f]
  BY DEF CycleFound, CycleSearched
<1> HIDE DEF V, W
<1>4. Closed(V, I) /\ target \in I /\ I \in SUBSET Files
  BY <1>1 DEF ClosedIndex, Closed
<1>5. Closed(W, I)
  BY <1>1, <1>2, <1>4 DEF Closed
<1>6. f \in I
  BY <1>2, <1>3, <1>4, <1>5 DEF Reachable, Reaches
<1> QED BY <1>3, <1>4, <1>6 DEF Closed

(***************************************************************************)
(* What one handler does to the cache and reports.  Where the source is    *)
(* not indexed once the target is, the two share no cycle: so the export   *)
(* handler can do without its fallback, and where the fallback of the      *)
(* import handler invalidates the index under the comparison, an equality  *)
(* of indices by chance is refuted by the search.                          *)
(***************************************************************************)
LEMMA CheckImportEffect ==
    ASSUME IInv, linting \in Files, NEW target \in Files, NEW extendSource \in BOOLEAN,
           CheckImport(target, extendSource)
    PROVE  /\ CacheInv(cache', disk)
           /\ View(cache', disk) = View(cache, disk)
           /\ UNCHANGED <<disk, linting, text>>
           /\ \E reported \in BOOLEAN : verdicts' = Append(verdicts, reported)
           /\ target # linting =>
                verdicts' = Append(verdicts, linting \in Component(View(cache, disk), target))
<1> DEFINE V == View(cache, disk)
           inSCC == linting \in Component(V, target)
<1>1. TypeOK /\ CacheInv(cache, disk) /\ V \in [Files -> SUBSET Files]
  BY ViewType DEF IInv, CacheInv
<1>2. CASE target \in cache.nonCyclic
  <2>1. Verdict(FALSE) /\ cache' = cache
    BY <1>2 DEF CheckImport
  <2>2. Component(V, target) = {target}
    BY <1>1, <1>2 DEF CacheInv, SoundNonCyclic
  <2>3. target # linting => inSCC = FALSE
    BY <2>2
  <2> QED BY <1>1, <2>1, <2>3 DEF Verdict
<1>3. CASE target \notin cache.nonCyclic
  <2> DEFINE same(c1, c2) == c2.index[linting] # 0 /\ c2.index[linting] = c1.index[target]
             step(c1, c2) ==
               IF same(c1, c2)
               THEN /\ Verdict(CycleFound(c2, disk, linting, target))
                    /\ cache' = ParseAll(CycleSearched(c2, disk, linting, target), c2, disk)
               ELSE Verdict(FALSE) /\ cache' = c2
  <2>1. PICK c1 \in Extend(target, cache) :
          \E c2 \in IF extendSource THEN Extend(linting, c1) ELSE {c1} : step(c1, c2)
    BY <1>3 DEF CheckImport
  <2>2. PICK c2 \in IF extendSource THEN Extend(linting, c1) ELSE {c1} : step(c1, c2)
    BY <2>1
  <2>3. CacheInv(c1, disk) /\ View(c1, disk) = V /\ c1.index[target] # 0
    BY <1>1, <2>1, ExtendInv
  <2>4. CacheInv(c2, disk) /\ View(c2, disk) = V /\ c2 \in Cache
    <3>1. CASE extendSource
      BY <1>1, <2>2, <2>3, <3>1, ExtendInv DEF CacheInv
    <3>2. CASE ~extendSource
      BY <2>2, <2>3, <3>2 DEF CacheInv
    <3> QED BY <3>1, <3>2
  <2> DEFINE found == CycleFound(c2, disk, linting, target)
             searched == CycleSearched(c2, disk, linting, target)
  <2>5. found \in BOOLEAN
    BY DEF CycleFound
  <2>6. searched \in SUBSET Files
    BY DEF CycleSearched, Reachable, WithinSCC
  <2>7. CacheInv(ParseAll(searched, c2, disk), disk) /\ View(ParseAll(searched, c2, disk), disk) = V
    BY <1>1, <2>4, <2>6, DiskVersioned, ParseAllInv
  <2>8. c1.index[linting] # 0 => c2 = c1
    BY <2>2 DEF Extend
  <2>9. target # linting => (inSCC <=> same(c1, c2) /\ found)
    <3>1. CASE c1.index[linting] # 0
      <4>1. c2 = c1
        BY <2>8, <3>1
      <4>2. inSCC <=> same(c1, c2)
        BY <2>3, <3>1, <4>1, SameIndex
      <4>3. target # linting /\ same(c1, c2) => found
        BY <2>3, <4>1, SearchFinds
      <4> QED BY <4>2, <4>3
    <3>2. CASE c1.index[linting] = 0
      <4>1. ~found
        BY <2>3, <2>4, <3>2, SearchStays
      <4>2. ~inSCC
        BY <2>3, <3>2, SameIndex
      <4> QED BY <4>1, <4>2
    <3> QED BY <3>1, <3>2
  <2> HIDE DEF found, searched, inSCC, V
  <2>10. CASE same(c1, c2)
    <3>1. Verdict(found) /\ cache' = ParseAll(searched, c2, disk)
      BY <2>2, <2>10 DEF found, searched
    <3>2. target # linting => inSCC = found
      BY <2>5, <2>9, <2>10 DEF inSCC
    <3> QED BY <2>5, <2>7, <3>1, <3>2 DEF Verdict, inSCC, V
  <2>11. CASE ~same(c1, c2)
    <3>1. Verdict(FALSE) /\ cache' = c2
      BY <2>2, <2>11
    <3>2. target # linting => inSCC = FALSE
      BY <2>9, <2>11 DEF inSCC
    <3> QED BY <2>4, <3>1, <3>2 DEF Verdict, inSCC, V
  <2> QED BY <2>10, <2>11
<1> QED BY <1>2, <1>3

\* Both handlers are the shared part, with and without the fallback.
LEMMA HandlerEffect ==
    ASSUME IInv, ImportDeclaration \/ ExportNamedDeclaration
    PROVE  /\ IInv'
           /\ View(cache', disk) = View(cache, disk)
           /\ UNCHANGED <<disk, linting, text>>
           /\ Statement.target # linting =>
                verdicts' = Append(verdicts, linting \in Component(View_, Statement.target))
<1>1. TypeOK /\ linting \in Files /\ Len(verdicts) < Len(text)
  BY DEF IInv, TypeOK, ImportDeclaration, ExportNamedDeclaration, Unvisited
<1>2. PICK extendSource \in BOOLEAN : /\ Statement.target \in Files
                                      /\ CheckImport(Statement.target, extendSource)
  BY DEF ImportDeclaration, ExportNamedDeclaration
<1>3. /\ CacheInv(cache', disk)
      /\ View(cache', disk) = View(cache, disk)
      /\ UNCHANGED <<disk, linting, text>>
      /\ \E reported \in BOOLEAN : verdicts' = Append(verdicts, reported)
      /\ Statement.target # linting =>
           verdicts' = Append(verdicts, linting \in Component(View_, Statement.target))
  <2> DEFINE target == Statement.target
  <2>1. target \in Files /\ CheckImport(target, extendSource)
    BY <1>2
  <2> HIDE DEF target
  <2>2. /\ CacheInv(cache', disk)
        /\ View(cache', disk) = View(cache, disk)
        /\ UNCHANGED <<disk, linting, text>>
        /\ \E reported \in BOOLEAN : verdicts' = Append(verdicts, reported)
        /\ target # linting =>
             verdicts' = Append(verdicts, linting \in Component(View(cache, disk), target))
    BY <1>1, <2>1, CheckImportEffect
  <2> QED BY <2>2 DEF target, View_
<1>4. verdicts' \in Seq(BOOLEAN) /\ Len(verdicts') <= Len(text)
  BY <1>1, <1>3 DEF TypeOK, Text
<1>5. TypeOK'
  BY <1>1, <1>3, <1>4 DEF TypeOK, CacheInv
<1> QED BY <1>3, <1>5 DEF IInv

-----------------------------------------------------------------------------

\* The rule starts with the empty cache of createFileSystemCache().
LEMMA InitIInv ==
    ASSUME Init
    PROVE  IInv
<1>1. CacheInv(cache, disk)
  BY EmptyCacheInv DEF Init
<1>2. disk \in [Files -> [version : Nat \ {0}, text : Text]]
  <2>1. PICK program \in Programs :
          disk = [f \in Files |-> [version |-> 1, text |-> program[f]]]
    BY DEF Init
  <2>2. program \in [Files -> Text]
    BY <2>1, ProgramsAssumption
  <2> QED BY <2>1, <2>2
<1>3. text \in Text /\ verdicts \in Seq(BOOLEAN) /\ Len(verdicts) <= Len(text)
  BY DEF Init, Text
<1>4. cache \in Cache
  BY <1>1 DEF CacheInv
<1> QED BY <1>1, <1>2, <1>3, <1>4 DEF Init, IInv, TypeOK

\* Every step of the rule and of the world around it keeps the invariant.
LEMMA NextIInv ==
    ASSUME IInv, [Next]_vars
    PROVE  IInv'
<1>1. TypeOK /\ CacheInv(cache, disk)
  BY DEF IInv
<1>2. ASSUME NEW f \in Files \ Missing, StartFile(f)
      PROVE  IInv'
  <2>1. text' \in Text
    BY <1>1, <1>2 DEF StartFile, TypeOK
  <2>2. verdicts' \in Seq(BOOLEAN) /\ Len(verdicts') <= Len(text')
    BY <1>2, <2>1 DEF StartFile, Text
  <2> QED BY <1>1, <1>2, <2>1, <2>2 DEF StartFile, IInv, TypeOK
<1>3. CASE ImportDeclaration \/ ExportNamedDeclaration
  BY <1>3, HandlerEffect
<1>4. CASE PassStatement
  <2>1. verdicts' \in Seq(BOOLEAN) /\ Len(verdicts') <= Len(text)
    BY <1>1, <1>4 DEF PassStatement, Unvisited, Verdict, TypeOK, Text
  <2> QED BY <1>1, <1>4, <2>1 DEF PassStatement, Verdict, IInv, TypeOK
<1>5. CASE FinishFile
  <2>1. text' \in Text /\ verdicts' \in Seq(BOOLEAN) /\ Len(verdicts') <= Len(text')
    BY <1>5 DEF FinishFile, Text
  <2> QED BY <1>1, <1>5, <2>1 DEF FinishFile, IInv, TypeOK
<1>6. ASSUME NEW f \in Files, NEW newText \in EditedTexts, Edit(f, newText)
      PROVE  IInv'
  <2>1. disk' \in [Files -> [version : Nat \ {0}, text : Text]]
    BY <1>1, <1>6, EditedTextsAssumption DEF Edit, TypeOK
  <2>2. CacheInv(cache', disk')
    <3>1. CacheInv(cache, disk') /\ CacheInv(EmptyCache, disk')
      BY <1>1, EditInv, EmptyCacheInv
    <3> QED BY <1>6, <3>1 DEF Edit
  <2>3. cache' \in Cache
    BY <2>2 DEF CacheInv
  <2> QED BY <1>1, <1>6, <2>1, <2>2, <2>3 DEF Edit, IInv, TypeOK
<1>7. CASE ClearCircularDependencyCache
  <2>1. CacheInv(cache', disk)
    BY <1>7, EmptyCacheInv DEF ClearCircularDependencyCache
  <2>2. cache' \in Cache
    BY <2>1 DEF CacheInv
  <2> QED BY <1>1, <1>7, <2>1, <2>2 DEF ClearCircularDependencyCache, IInv, TypeOK
<1>8. CASE UNCHANGED vars
  BY <1>1, <1>8 DEF vars, IInv, TypeOK
<1> QED BY <1>2, <1>3, <1>4, <1>5, <1>6, <1>7, <1>8 DEF Next, Handle

\* The inductive invariant holds throughout.
LEMMA SpecIInv == Spec => []IInv
<1>1. Init => IInv
  BY InitIInv
<1>2. IInv /\ [Next]_vars => IInv'
  BY NextIInv
<1> QED BY <1>1, <1>2, PTL DEF Spec

-----------------------------------------------------------------------------

(***************************************************************************)
(* Every variable keeps its type, and a handler is called at most once for *)
(* each statement of the file being linted.                                *)
(***************************************************************************)
THEOREM TypeCorrect == Spec => []TypeOK
<1>1. IInv => TypeOK
  BY DEF IInv
<1> QED BY <1>1, SpecIInv, PTL

(***************************************************************************)
(* computeSCCsFromFile() leaves the index closed under the imports the     *)
(* cache remembers, through every merge, invalidation, edit and clear.     *)
(***************************************************************************)
THEOREM IndexIsClosed == Spec => []IndexClosed
<1>1. IInv => IndexClosed
  BY DEF IInv, CacheInv, ClosedIndex, IndexClosed, IsIndexed, View_
<1> QED BY <1>1, SpecIInv, PTL

(***************************************************************************)
(* Equality in sccIndex is mutual reachability, whatever the order of the  *)
(* incremental calls that filled it.                                       *)
(***************************************************************************)
THEOREM IndexIsExact == Spec => []IndexExact
<1>1. IInv => IndexExact
  <2> SUFFICES ASSUME IInv, NEW f \in Files, IsIndexed(f)
               PROVE  /\ cache.index[f] \in DOMAIN cache.sccs
                      /\ cache.sccs[cache.index[f]] = Component(View_, f)
                      /\ \A g \in Files :
                            g \in Component(View_, f) <=> cache.index[g] = cache.index[f]
    BY DEF IndexExact
  <2>1. CacheInv(cache, disk) /\ cache.index[f] # 0
    BY DEF IInv, IsIndexed
  <2>2. \A g \in Files : g \in Component(View_, f) <=> cache.index[g] = cache.index[f]
    BY <2>1, SameIndex DEF View_
  <2> QED BY <2>1, <2>2 DEF CacheInv, ExactIndex, View_
<1> QED BY <1>1, SpecIInv, PTL

(***************************************************************************)
(* The fast path of the handlers is sound: no file of nonCyclicFiles is on *)
(* a cycle with another file.                                              *)
(***************************************************************************)
THEOREM NonCyclicIsSound == Spec => []NonCyclicSound
<1>1. IInv => NonCyclicSound
  BY DEF IInv, CacheInv, SoundNonCyclic, NonCyclicSound, IsIndexed, OnCycle, View_
<1> QED BY <1>1, SpecIInv, PTL

(***************************************************************************)
(* The handlers report an import of another file exactly when the          *)
(* importing file is in the component of the target in the graph that the  *)
(* cache stands for.                                                       *)
(***************************************************************************)
THEOREM VerdictsAreExact == Spec => VerdictExact
<1> DEFINE Exact ==
      (ImportDeclaration \/ ExportNamedDeclaration) /\ Statement.target # linting
         => verdicts' = Append(verdicts, linting \in Component(View_, Statement.target))
<1>1. IInv /\ [Next]_vars => [Exact]_vars
  BY HandlerEffect
<1>2. Spec => [][Exact]_vars
  BY <1>1, SpecIInv, PTL DEF Spec
<1> QED BY <1>2 DEF VerdictExact

-----------------------------------------------------------------------------
(* The cache cannot be told from the disk.  What has to be assumed is that *)
(* the texts are read as they are meant and that the host clears the cache *)
(* after an edit; without the first AllCyclesReported fails, without the   *)
(* second EditedCyclesReported.                                            *)

\* Beside IInv: the imports the cache remembers are those on disk, the syntax
\* tree is that of the file on disk, and every text is read as it is meant.
OracleInv ==
    /\ IInv
    /\ View(cache, disk) = [f \in Files |-> ReadImports(disk, f)]
    /\ linting # NoFile => text = disk[linting].text
    /\ \A f \in Files \ Missing : ReadAsMeant(disk[f].text)

\* A new cache knows of the disk only.
LEMMA EmptyView ==
    ASSUME NEW d
    PROVE  View(EmptyCache, d) = [f \in Files |-> ReadImports(d, f)]
BY DEF View, EmptyCache

\* What the cache stands for is the run-time import graph of the files.
LEMMA ViewIsRuntime ==
    ASSUME OracleInv
    PROVE  /\ View(cache, disk) = RuntimeGraph(disk, Files \ Missing)
           /\ RuntimeGraph(disk, Files \ Missing) \in [Files -> SUBSET Files]
<1>1. DOMAIN disk = Files
  BY DEF OracleInv, IInv, TypeOK
<1>2. \A f \in Files : ReadImports(disk, f) =
         IF f \in Files \ Missing THEN RuntimeImports(disk[f].text, Files \ Missing) ELSE {}
  BY DEF OracleInv, ReadAsMeant, ReadImports
<1>3. View(cache, disk) = RuntimeGraph(disk, Files \ Missing)
  BY <1>1, <1>2 DEF OracleInv, RuntimeGraph
<1>4. View(cache, disk) \in [Files -> SUBSET Files]
  BY ViewType DEF OracleInv, IInv, TypeOK
<1> QED BY <1>3, <1>4

\* The abstract specification speaks of the same graph.
LEMMA OracleGraph ==
    ASSUME NEW f
    PROVE  Oracle!ReachedFrom(f) = Reachable(RuntimeGraph(disk, Files \ Missing), f)
<1> DEFINE G == RuntimeGraph(disk, Files \ Missing)
<1>1. Oracle!RuntimeGraph(disk, Files \ Missing) = G
  BY DEF Oracle!RuntimeGraph, Oracle!RuntimeImports, RuntimeGraph, RuntimeImports
<1> HIDE DEF G
<1>2. Oracle!Reachable(G, f) = Reachable(G, f)
  BY DEF Oracle!Reachable, Oracle!Reaches, Oracle!Closed, Reachable, Reaches, Closed
<1> QED BY <1>1, <1>2 DEF Oracle!ReachedFrom, G

(***************************************************************************)
(* The import of another file closes a cycle exactly when the two share a  *)
(* component: the import itself is an edge, unless the target is missing,  *)
(* and then nothing leads on from it.                                      *)
(***************************************************************************)
LEMMA ExpectedIsComponent ==
    ASSUME OracleInv, Unvisited, Statement.target \in Files, Statement.target # linting,
           Statement.kind \in {"import", "export"}
    PROVE  linting \in Component(View_, Statement.target) <=> Oracle!Expected(Statement)
<1> DEFINE G == RuntimeGraph(disk, Files \ Missing)
           target == Statement.target
<1>1. /\ G \in [Files -> SUBSET Files] /\ View_ = G
      /\ linting \in Files \ Missing /\ text = disk[linting].text
      /\ target \in Files /\ target # linting
      /\ \A f \in Files : G[f] = IF f \in Files \ Missing
                                 THEN RuntimeImports(disk[f].text, Files \ Missing) ELSE {}
  BY ViewIsRuntime DEF OracleInv, IInv, TypeOK, Unvisited, View_, RuntimeGraph
<1>2. Oracle!Expected(Statement) <=> linting \in Reachable(G, target)
  BY OracleGraph DEF Oracle!Expected
<1> HIDE DEF G
<1>3. linting \in Component(G, target) <=>
         Reaches(G, target, linting) /\ Reaches(G, linting, target)
  BY <1>1, ComponentMember
<1>4. linting \in Reachable(G, target) <=> Reaches(G, target, linting)
  BY <1>1 DEF Reachable
<1>5. CASE target \in Missing
  <2>1. Closed(G, {target}) /\ {target} \in SUBSET Files
    BY <1>1, <1>5 DEF Closed
  <2>2. ~Reaches(G, target, linting)
    BY <1>1, <2>1, ReachesWithin
  <2> QED BY <1>1, <1>2, <1>3, <1>4, <2>2
<1>6. CASE target \notin Missing
  <2>1. Len(verdicts) + 1 \in DOMAIN text
    BY DEF OracleInv, IInv, TypeOK, Unvisited, Text
  <2>2. target \in RuntimeImports(text, Files \ Missing)
    BY <1>1, <1>6, <2>1 DEF RuntimeImports, Statement
  <2>3. target \in G[linting]
    BY <1>1, <2>2
  <2>4. Reaches(G, linting, target)
    BY <1>1, <2>3, ReachesSelf, ReachesImport
  <2> QED BY <1>1, <1>2, <1>3, <1>4, <2>4
<1> QED BY <1>5, <1>6

\* The rule starts without a cache, from texts read as they are meant.
LEMMA InitOracle ==
    ASSUME TextsReadAsMeant, Init
    PROVE  OracleInv /\ Oracle!Init
<1>1. PICK program \in Programs :
        disk = [f \in Files |-> [version |-> 1, text |-> program[f]]]
  BY DEF Init
<1>2. \A f \in Files \ Missing : ReadAsMeant(disk[f].text)
  BY <1>1 DEF TextsReadAsMeant
<1>3. View(cache, disk) = [f \in Files |-> ReadImports(disk, f)]
  BY EmptyView DEF Init
<1> QED BY <1>1, <1>2, <1>3, InitIInv DEF Init, OracleInv, Oracle!Init

\* Every step of the rule is one of the oracle, or none.
LEMMA NextOracle ==
    ASSUME TextsReadAsMeant, ClearsOnEdit \/ EditedTexts = {}, OracleInv, [Next]_vars
    PROVE  OracleInv' /\ [Oracle!Next]_(Oracle!vars)
<1>1. IInv /\ IInv'
  BY NextIInv DEF OracleInv
<1>2. ASSUME View(cache', disk') = View(cache, disk), UNCHANGED <<disk, linting, text>>
      PROVE  OracleInv'
  BY <1>1, <1>2 DEF OracleInv, ReadImports, ReadAsMeant
<1>3. ASSUME NEW f \in Files \ Missing, StartFile(f)
      PROVE  OracleInv' /\ Oracle!Next
  <2>1. OracleInv'
    BY <1>1, <1>3 DEF OracleInv, StartFile, ReadImports, ReadAsMeant
  <2>2. Oracle!StartFile(f)
    BY <1>3 DEF StartFile, Oracle!StartFile
  <2> QED BY <2>1, <2>2 DEF Oracle!Next
<1>4. CASE ImportDeclaration \/ ExportNamedDeclaration
  <2>1. /\ View(cache', disk) = View(cache, disk)
        /\ UNCHANGED <<disk, linting, text>>
        /\ Statement.target # linting =>
             verdicts' = Append(verdicts, linting \in Component(View_, Statement.target))
    BY <1>1, <1>4, HandlerEffect
  <2>2. OracleInv'
    BY <1>2, <2>1
  <2>3. PICK reported \in BOOLEAN : verdicts' = Append(verdicts, reported)
    <3>1. linting \in Files /\ Unvisited /\ Statement.target \in Files
      BY <1>1, <1>4 DEF IInv, TypeOK, ImportDeclaration, ExportNamedDeclaration, Unvisited
    <3>2. PICK extendSource \in BOOLEAN : CheckImport(Statement.target, extendSource)
      BY <1>4 DEF ImportDeclaration, ExportNamedDeclaration
    <3> DEFINE target == Statement.target
    <3>3. target \in Files /\ CheckImport(target, extendSource)
      BY <3>1, <3>2
    <3> HIDE DEF target
    <3>4. \E reported \in BOOLEAN : verdicts' = Append(verdicts, reported)
      BY <1>1, <3>1, <3>3, CheckImportEffect
    <3> QED BY <3>4
  <2>4. /\ Unvisited
        /\ Statement.target \in Files
        /\ Statement.kind # "exportType" => Statement.kind \in {"import", "export"}
    BY <1>4 DEF ImportDeclaration, ExportNamedDeclaration
  <2>5. \E answer \in BOOLEAN :
          /\ Statement.target # linting /\ Statement.kind # "exportType"
               => answer = Oracle!Expected(Statement)
          /\ verdicts' = Append(verdicts, answer)
    <3>1. CASE Statement.target # linting /\ Statement.kind # "exportType"
      <4> DEFINE inSCC == linting \in Component(View_, Statement.target)
      <4>1. inSCC \in BOOLEAN /\ verdicts' = Append(verdicts, inSCC)
        BY <2>1, <3>1
      <4>2. inSCC <=> Oracle!Expected(Statement)
        BY <2>4, <3>1, ExpectedIsComponent
      <4>3. inSCC = Oracle!Expected(Statement)
        BY <4>1, <4>2 DEF Oracle!Expected
      <4> HIDE DEF inSCC
      <4> QED BY <4>1, <4>3
    <3>2. CASE ~(Statement.target # linting /\ Statement.kind # "exportType")
      BY <2>3, <3>2
    <3> QED BY <3>1, <3>2
  <2>6. Oracle!Visit
    BY <2>1, <2>4, <2>5 DEF Oracle!Visit, Unvisited, Statement
  <2> QED BY <2>2, <2>6 DEF Oracle!Next
<1>5. CASE PassStatement
  <2>1. OracleInv'
    BY <1>2, <1>5 DEF PassStatement, Verdict
  <2>2. Statement.target # linting /\ Statement.kind # "exportType"
          => FALSE = Oracle!Expected(Statement)
    BY <1>5 DEF PassStatement, Oracle!Expected
  <2>3. Oracle!Visit
    BY <1>5, <2>2 DEF PassStatement, Unvisited, Verdict, Statement, Oracle!Visit
  <2> QED BY <2>1, <2>3 DEF Oracle!Next
<1>6. CASE FinishFile
  <2>1. OracleInv'
    BY <1>1, <1>6 DEF OracleInv, FinishFile, ReadImports, ReadAsMeant
  <2>2. Oracle!FinishFile
    BY <1>6 DEF FinishFile, Oracle!FinishFile
  <2> QED BY <2>1, <2>2 DEF Oracle!Next
<1>7. ASSUME NEW f \in Files, NEW newText \in EditedTexts, Edit(f, newText)
      PROVE  OracleInv' /\ Oracle!Next
  <2>1. cache' = EmptyCache /\ linting' = NoFile
    BY <1>7 DEF Edit
  <2>2. View(cache', disk') = [g \in Files |-> ReadImports(disk', g)]
    BY <2>1, EmptyView
  <2>3. \A g \in Files \ Missing : ReadAsMeant(disk'[g].text)
    <3>1. disk \in [Files -> [version : Nat \ {0}, text : Text]]
      BY <1>1 DEF IInv, TypeOK
    <3> QED BY <1>7, <3>1 DEF Edit, TextsReadAsMeant, OracleInv
  <2>4. OracleInv'
    BY <1>1, <2>1, <2>2, <2>3 DEF OracleInv, ReadImports, ReadAsMeant
  <2>5. Oracle!Edit(f, newText)
    BY <1>7 DEF Edit, Oracle!Edit
  <2> QED BY <2>4, <2>5 DEF Oracle!Next
<1>8. CASE ClearCircularDependencyCache
  <2>1. cache' = EmptyCache /\ UNCHANGED <<disk, linting, text, verdicts>>
    BY <1>8 DEF ClearCircularDependencyCache
  <2>2. View(cache', disk) = View(cache, disk)
    BY <2>1, EmptyView DEF OracleInv
  <2>3. OracleInv'
    BY <1>2, <2>1, <2>2
  <2> QED BY <2>1, <2>3 DEF Oracle!vars
<1>9. CASE UNCHANGED vars
  BY <1>2, <1>9 DEF vars, Oracle!vars
<1> QED BY <1>3, <1>4, <1>5, <1>6, <1>7, <1>8, <1>9 DEF Next, Handle

(***************************************************************************)
(* Where the texts are read as they are meant and the host clears the      *)
(* cache after an edit, the rule with its cache is a rule that computes    *)
(* every verdict from the files on disk.                                   *)
(***************************************************************************)
THEOREM CacheIsInvisible ==
    ASSUME TextsReadAsMeant, ClearsOnEdit \/ EditedTexts = {}
    PROVE  Spec => ImplementsOracle
<1>1. Init => OracleInv /\ Oracle!Init
  BY InitOracle
<1>2. OracleInv /\ [Next]_vars => OracleInv' /\ [Oracle!Next]_(Oracle!vars)
  BY NextOracle
<1> QED BY <1>1, <1>2, PTL DEF Spec, ImplementsOracle, Oracle!Spec
=============================================================================
