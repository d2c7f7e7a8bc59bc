-------------------------- MODULE CycleSearchProofs --------------------------
(***************************************************************************)
(* Proofs about CycleSearch, for any files, programs, depth limits and     *)
(* number of searches.  A search holds a chain of imports in its frames;   *)
(* what it has passed is not on a cycle through its start unless it found  *)
(* one, said that it was cut, or was told so by nonCyclicFiles.            *)
(***************************************************************************)
EXTENDS CycleSearch, IncrementalProofs

\* Parsing what is parsed, or missing, changes nothing.
LEMMA ParseNothing ==
    ASSUME NEW c \in Cache, NEW S, S \subseteq c.parsed \cup Missing
    PROVE  ParseAll(S, c, disk) = c
<1> DEFINE new == (S \ c.parsed) \ Missing
           imports == [f \in Files |-> IF f \in new THEN ReadImports(disk, f) ELSE c.imports[f]]
           hashes == [f \in Files |-> IF f \in new THEN disk[f].version ELSE c.hashes[f]]
<1>1. new = {}
  OBVIOUS
<1>2. imports = c.imports /\ hashes = c.hashes /\ c.parsed \cup new = c.parsed
  BY <1>1 DEF Cache
<1>3. ParseAll(S, c, disk)
        = [c EXCEPT !.parsed = c.parsed \cup new, !.imports = imports, !.hashes = hashes]
  BY <1>1 DEF ParseAll, Cache
<1> HIDE DEF imports, hashes, new
<1> QED BY <1>2, <1>3 DEF Cache

\* Reading some files is a search as Incremental sees it.
LEMMA ParseIsSearch ==
    ASSUME Versions, NEW c \in Cache, Hashed(c), Kept(c), NEW S \in SUBSET Files
    PROVE  Searched(c, ParseAll(S, c, disk))
<1> DEFINE d == ParseAll(S, c, disk)
           Parsed(new) ==
               LET entered == [c EXCEPT
                     !.parsed  = @ \cup new,
                     !.imports = [f \in Files |-> IF f \in new THEN ReadImports(disk, f) ELSE @[f]],
                     !.hashes  = [f \in Files |-> IF f \in new THEN disk[f].version ELSE @[f]]]
               IN  IF \E f \in new : c.hashes[f] # disk[f].version
                   THEN InvalidateSCCCache(entered)
                   ELSE entered
<1>1. \A T : ParseAll(T, c, disk) = Parsed((T \ c.parsed) \ Missing)
  BY DEF ParseAll
<1>2. d \in Cache /\ d.parsed = c.parsed \cup ((S \ c.parsed) \ Missing)
  BY ParseKept
<1> HIDE DEF d, Parsed
<1>3. (d.parsed \ c.parsed) \ Missing = (S \ c.parsed) \ Missing
  BY <1>2
<1>4. ParseAll(d.parsed, c, disk) = d
  BY <1>1, <1>3 DEF d
<1>5. d = [d EXCEPT !.nonCyclic = d.nonCyclic]
  BY <1>2 DEF Cache
<1>6. d.parsed \subseteq Files /\ d.nonCyclic \subseteq Files
  BY <1>2 DEF Cache
<1> QED BY <1>4, <1>5, <1>6 DEF Searched, d

\* So is adding a file to nonCyclicFiles.
LEMMA AddIsSearch ==
    ASSUME NEW c \in Cache, NEW f \in Files
    PROVE  Searched(c, [c EXCEPT !.nonCyclic = @ \cup {f}])
<1> DEFINE d == [c EXCEPT !.nonCyclic = @ \cup {f}]
<1>1. d \in Cache /\ d.parsed = c.parsed /\ d.nonCyclic = c.nonCyclic \cup {f}
  BY DEF Cache
<1>2. d = [c EXCEPT !.nonCyclic = d.nonCyclic]
  BY <1>1
<1> HIDE DEF d
<1>3. ParseAll(d.parsed, c, disk) = c
  BY <1>1, ParseNothing
<1>4. d.parsed \subseteq Files /\ d.nonCyclic \subseteq Files
  BY <1>1 DEF Cache
<1> QED BY <1>1, <1>2, <1>3, <1>4 DEF Searched, d

\* An import that is read at run time is one that the searches follow.
LEMMA ImportsFollowed ==
    ASSUME NEW c \in Cache, Hashed(c), NEW f \in c.parsed
    PROVE  c.imports[f] \subseteq Followed(c, f)
<1>1. f \notin Missing /\ c.imports[f] = ImportsAt(f, c.hashes[f])
  BY DEF Hashed
<1> QED BY <1>1 DEF ImportsAt, ParsedImports, Followed, FollowedIn

\* What is followed from a file that has an entry stays.
LEMMA FollowedStays ==
    ASSUME Versions, NEW c \in Cache, Hashed(c), Kept(c), NEW S \in SUBSET Files, NEW f
    PROVE  Followed(c, f) \subseteq Followed(ParseAll(S, c, disk), f)
BY ParseKept DEF Followed

\* On a cycle one import leads to another file that is on a cycle.
LEMMA CycleGoesOn ==
    ASSUME NEW N, NEW G \in [N -> SUBSET N], NEW f \in N, OnCycle(G, f)
    PROVE  \E g \in G[f] : OnCycle(G, g)
<1>1. PICK h \in Component(G, f) : h # f
  BY ComponentMember DEF OnCycle
<1>2. h \in N /\ Reaches(G, f, h) /\ Reaches(G, h, f)
  BY <1>1, ComponentMember
<1> SUFFICES ASSUME \A g \in G[f] : ~OnCycle(G, g)
             PROVE  FALSE
  OBVIOUS
<1> DEFINE U == {f} \cup {g \in N : ~Reaches(G, g, f)}
<1>3. ASSUME NEW g \in G[f], g # f PROVE ~Reaches(G, g, f)
  <2>1. g \in N /\ Reaches(G, f, g)
    BY <1>3, ReachesSelf, ReachesImport
  <2> SUFFICES ASSUME Reaches(G, g, f) PROVE FALSE
    OBVIOUS
  <2>2. f \in Component(G, g)
    BY <2>1, ComponentMember
  <2> QED BY <1>3, <2>2 DEF OnCycle
<1>4. ASSUME NEW g \in N, ~Reaches(G, g, f), NEW k \in G[g] PROVE ~Reaches(G, k, f)
  <2>1. k \in N /\ Reaches(G, g, k)
    BY <1>4, ReachesSelf, ReachesImport
  <2> QED BY <1>4, <2>1, ReachesTransitive
<1>5. U \in SUBSET N /\ Closed(G, U)
  BY <1>3, <1>4 DEF Closed
<1>6. f \in U
  OBVIOUS
<1> HIDE DEF U
<1>7. h \in U
  BY <1>2, <1>5, <1>6, ReachesWithin
<1> QED BY <1>1, <1>2, <1>7 DEF U

\* G has the imports that c has read, and agrees with its index.
Suits(G, c) ==
    /\ G \in [Files -> SUBSET Files]
    /\ \A f \in c.parsed : G[f] = c.imports[f]
    /\ \A f \in Missing : G[f] = {}

(***************************************************************************)
(* computeSCCsFromFile() on a cache that is sound for a graph, with an     *)
(* index that was computed from it: nonCyclicFiles stays sound and the     *)
(* verdict on the file is that of the graph.                               *)
(***************************************************************************)
LEMMA ComputeSound ==
    ASSUME Versions, NEW c \in Cache, Hashed(c), Kept(c), NEW f \in Files,
           NEW d \in ComputeSCCs(f, c, disk),
           NEW G, Suits(G, d),
           \A g \in c.nonCyclic : ~OnCycle(G, g),
           \A g \in Files : c.index[g] # 0 => HashedGraph(c.hashes)[g] = G[g]
    PROVE  /\ \A g \in d.nonCyclic : ~OnCycle(G, g)
           /\ InCycle(d, f) <=> OnCycle(G, f)
<1>1. /\ d \in Cache /\ Hashed(d) /\ Kept(d) /\ d.index[f] # 0
      /\ G \in [Files -> SUBSET Files]
  BY ComputeKept DEF Suits
<1> DEFINE V == View(c, disk)
           R == Reachable(V, f)
           e == ParseAll(R, c, disk)
           H == HashedGraph(d.hashes)
<1>2. H \in [Files -> SUBSET Files] /\ d.sccs[d.index[f]] = Component(H, f)
  BY <1>1, HashedGraphType DEF Kept, ExactIndex
<1>3. CASE c.computed /\ c.sccs # <<>> /\ c.index[f] # 0
  <2>1. d = c
    BY <1>3 DEF ComputeSCCs
  <2> DEFINE I == {g \in Files : c.index[g] # 0}
  <2>2. I \in SUBSET Files /\ f \in I /\ Closed(H, I) /\ \A g \in I : G[g] = H[g]
    BY <1>1, <1>2, <2>1 DEF Kept, Closed
  <2> HIDE DEF I, H
  <2>3. Component(G, f) = Component(H, f)
    BY <1>1, <1>2, <2>2, ComponentAgree
  <2> QED BY <1>1, <1>2, <2>1, <2>3 DEF InCycle, OnCycle
<1>4. CASE ~(c.computed /\ c.sccs # <<>> /\ c.index[f] # 0)
  <2>1. PICK order \in EmissionOrders(V, R) : d = MergeSCCs(order, e)
    BY <1>4 DEF ComputeSCCs
  <2>2. V \in [Files -> SUBSET Files]
    BY ViewType
  <2>3. R \in SUBSET Files /\ f \in R /\ Closed(V, R)
    <3> HIDE DEF V
    <3> QED BY <2>2, ReachableClosed
  <2>4. /\ e \in Cache /\ Hashed(e)
        /\ R \subseteq e.parsed \cup Missing
        /\ e.nonCyclic \subseteq c.nonCyclic
        /\ View(e, disk) = V
    <3> HIDE DEF R
    <3> QED BY <2>3, ParseKept
  <2>5. Decomposes(order, V, R)
    <3> HIDE DEF V, R
    <3> QED BY <2>1, <2>2, <2>3, EmissionDecomposes
  <2> HIDE DEF V, R, e, H
  <2>6. /\ d.parsed = e.parsed /\ d.imports = e.imports
        /\ d.nonCyclic = MergedNonCyclic(order, e)
    BY <2>1, <2>4, <2>5, MergeFields DEF Decomposes
  <2>7. ASSUME NEW g \in R PROVE G[g] = V[g] /\ H[g] = V[g]
    <3>1. g \in Files /\ V[g] = View(e, disk)[g]
      BY <2>3, <2>4
    <3>2. CASE g \in e.parsed
      <4>1. V[g] = e.imports[g]
        BY <3>1, <3>2 DEF View
      <4>2. G[g] = V[g]
        BY <2>6, <3>2, <4>1 DEF Suits
      <4>3. H[g] = d.imports[g]
        BY <1>1, <2>6, <3>1, <3>2 DEF Hashed, H, HashedGraph
      <4> QED BY <2>6, <4>1, <4>2, <4>3
    <3>3. CASE g \in Missing
      <4>1. V[g] = {}
        BY <2>4, <3>1, <3>3 DEF Hashed, View, ReadImports
      <4>2. G[g] = {} /\ H[g] = {}
        BY <3>1, <3>3 DEF Suits, H, HashedGraph, ImportsAt
      <4> QED BY <4>1, <4>2
    <3> QED BY <2>4, <3>2, <3>3
  <2>8. \A g \in R : Component(G, g) = Component(V, g) /\ Component(H, g) = Component(V, g)
    BY <1>1, <1>2, <2>2, <2>3, <2>7, ComponentAgree
  <2>9. ASSUME NEW g \in d.nonCyclic PROVE ~OnCycle(G, g)
    <3>1. CASE g \in e.nonCyclic
      BY <2>4, <3>1
    <3>2. CASE \E i \in DOMAIN order : order[i] = {g}
      <4>1. g \in R /\ {g} = Component(V, g)
        BY <2>5, <3>2 DEF Decomposes
      <4> QED BY <2>8, <4>1 DEF OnCycle
    <3> QED BY <2>6, <2>9, <3>1, <3>2 DEF MergedNonCyclic
  <2>10. InCycle(d, f) <=> OnCycle(G, f)
    BY <1>1, <1>2, <2>3, <2>8 DEF InCycle, OnCycle
  <2> QED BY <2>9, <2>10
<1> QED BY <1>3, <1>4

-----------------------------------------------------------------------------
(* Types, and that every step is one of Incremental.                       *)

Frame == [file : Files, todo : SUBSET Files]

SearchTypes ==
    /\ phase \in {"idle", "searching", "answered"}
    /\ phase # "idle" => request \in Detections \cup Finds
    /\ phase = "idle" => cycles = <<>>
    /\ frames \in Seq(Frame)
    /\ phase = "searching" <=> frames # <<>>
    /\ visited \in SUBSET Files
    /\ cycles \in Seq(Seq(Files))
    /\ limit \in BOOLEAN
    /\ before \in Cache

\* What a request holds.
LEMMA RequestType ==
    ASSUME NEW q \in Detections \cup Finds
    PROVE  /\ q.target \in Files
           /\ q.kind = "detect" => q \in Detections /\ q.source \in Files
           /\ q.kind # "detect" => q \in Finds /\ q.kind = "find"
BY DEF Detections, Finds

\* A search that is under way has an innermost call.
LEMMA TopType ==
    ASSUME SearchTypes, phase = "searching"
    PROVE  /\ Len(frames) \in Nat \ {0} /\ DOMAIN frames = 1..Len(frames)
           /\ \A i \in DOMAIN frames : frames[i] \in Frame
           /\ Top = frames[Len(frames)]
BY DEF SearchTypes, Top

\* The loop of the innermost call goes on; nothing else changes.
LEMMA PastFrames ==
    ASSUME SearchTypes, phase = "searching", NEW f
    PROVE  LET p == Past(f)
           IN  /\ p \in Seq(Frame) /\ Len(p) = Len(frames) /\ p # <<>>
               /\ \A i \in DOMAIN frames :
                     /\ p[i].file = frames[i].file
                     /\ i < Len(frames) => p[i].todo = frames[i].todo
                     /\ i = Len(frames) => p[i].todo = frames[i].todo \ {f}
<1> DEFINE n == Len(frames)
           top == [frames[n] EXCEPT !.todo = @ \ {f}]
<1>1. /\ n \in Nat \ {0} /\ DOMAIN frames = 1..n
      /\ \A i \in DOMAIN frames : frames[i] \in Frame
      /\ frames \in Seq(Frame)
  BY TopType DEF SearchTypes
<1>2. top \in Frame /\ top.file = frames[n].file /\ top.todo = frames[n].todo \ {f}
  BY <1>1 DEF Frame
<1>3. Past(f) = [frames EXCEPT ![n] = top]
  BY DEF Past
<1> HIDE DEF top, n
<1>4. Past(f) \in Seq(Frame) /\ Len(Past(f)) = n /\ Past(f) # <<>>
  BY <1>1, <1>2, <1>3 DEF n
<1>5. \A i \in DOMAIN frames : Past(f)[i] = IF i = n THEN top ELSE frames[i]
  BY <1>1, <1>3
<1> QED BY <1>1, <1>2, <1>4, <1>5 DEF n

\* A call begins: the frame is the innermost.
LEMMA AppendFrames ==
    ASSUME NEW p \in Seq(Frame), NEW fr \in Frame
    PROVE  /\ Append(p, fr) \in Seq(Frame) /\ Append(p, fr) # <<>>
           /\ Len(Append(p, fr)) = Len(p) + 1
           /\ DOMAIN Append(p, fr) = 1..(Len(p) + 1)
           /\ \A i \in 1..Len(p) : Append(p, fr)[i] = p[i]
           /\ Append(p, fr)[Len(p) + 1] = fr
OBVIOUS

\* A call ends: its caller is the innermost.
LEMMA LeaveFrames ==
    ASSUME SearchTypes, phase = "searching", Len(frames) > 1
    PROVE  LET p == SubSeq(frames, 1, Len(frames) - 1)
           IN  /\ p \in Seq(Frame) /\ Len(p) = Len(frames) - 1 /\ p # <<>>
               /\ DOMAIN p = 1..(Len(frames) - 1)
               /\ \A i \in DOMAIN p : p[i] = frames[i]
<1>1. Len(frames) \in Nat /\ frames \in Seq(Frame)
  BY DEF SearchTypes
<1> DEFINE n == Len(frames) - 1
           p == SubSeq(frames, 1, n)
<1>2. n \in 1..Len(frames)
  BY <1>1
<1>3. p \in Seq(Frame) /\ Len(p) = n /\ \A i \in 1..n : p[i] = frames[i]
  BY <1>1, <1>2
<1> HIDE DEF p
<1>4. DOMAIN p = 1..n /\ p # <<>>
  BY <1>1, <1>2, <1>3
<1> QED BY <1>3, <1>4 DEF p

\* A new search has found nothing.
LEMMA AskFields ==
    ASSUME NEW q, Ask(q)
    PROVE  /\ request' = q /\ cycles' = <<>> /\ before' = cache
           /\ ~limit' /\ limit' \in BOOLEAN
           /\ cycles' \in Seq(Seq(Files))
           /\ UNCHANGED <<program, version, saved>>
<1>1. ~limit' /\ limit' \in BOOLEAN
  BY DEF Ask
<1>2. cycles' \in Seq(Seq(Files))
  BY DEF Ask
<1> QED BY <1>1, <1>2 DEF Ask, files

LEMMA SearchTypesInit == Init => SearchTypes
<1> SUFFICES ASSUME Init PROVE SearchTypes
  OBVIOUS
<1>1. <<>> \in Seq(Frame) /\ <<>> \in Seq(Seq(Files))
  OBVIOUS
<1> QED BY <1>1, EmptyCacheKept DEF Init, SearchTypes

\* What is followed are files that exist.
LEMMA FollowedType ==
    ASSUME NEW c, NEW f
    PROVE  Followed(c, f) \subseteq Files \ Missing
BY DEF Followed, FollowedIn

\* The path of a search is a list of files.
LEMMA PathType ==
    ASSUME SearchTypes, phase = "searching"
    PROVE  /\ Path \in Seq(Files) /\ Len(Path) = Len(frames)
           /\ \A i \in DOMAIN frames : Path[i] = frames[i].file
<1>1. /\ Len(frames) \in Nat /\ DOMAIN frames = 1..Len(frames)
      /\ \A i \in DOMAIN frames : frames[i].file \in Files
  BY TopType DEF Frame
<1>2. Path = [i \in 1..Len(frames) |-> frames[i].file]
  BY <1>1 DEF Path
<1> QED BY <1>1, <1>2

\* What the loop comes to is a file.
LEMMA AtType ==
    ASSUME SearchTypes, NEW f, At(f)
    PROVE  phase = "searching" /\ f \in Files /\ f \in frames[Len(frames)].todo
BY TopType DEF At, Frame

LEMMA EnterFrames ==
    ASSUME SearchTypes, NEW f, At(f), NEW todo \in SUBSET Files
    PROVE  LET p == Append(Past(f), [file |-> f, todo |-> todo])
           IN  /\ p \in Seq(Frame) /\ p # <<>>
               /\ Len(p) = Len(frames) + 1 /\ DOMAIN p = 1..(Len(frames) + 1)
               /\ \A i \in DOMAIN frames :
                     /\ p[i].file = frames[i].file
                     /\ i < Len(frames) => p[i].todo = frames[i].todo
                     /\ i = Len(frames) => p[i].todo = frames[i].todo \ {f}
               /\ p[Len(frames) + 1].file = f /\ p[Len(frames) + 1].todo = todo
<1> DEFINE fr == [file |-> f, todo |-> todo]
<1>1. phase = "searching" /\ f \in Files
  BY AtType
<1>2. fr \in Frame /\ fr.file = f /\ fr.todo = todo
  BY <1>1 DEF Frame
<1>3. /\ Past(f) \in Seq(Frame) /\ Len(Past(f)) = Len(frames)
      /\ Len(frames) \in Nat /\ DOMAIN frames = 1..Len(frames)
      /\ \A i \in DOMAIN frames :
            /\ Past(f)[i].file = frames[i].file
            /\ i < Len(frames) => Past(f)[i].todo = frames[i].todo
            /\ i = Len(frames) => Past(f)[i].todo = frames[i].todo \ {f}
  BY <1>1, PastFrames, TopType
<1> HIDE DEF fr
<1> QED BY <1>2, <1>3, AppendFrames DEF fr

\* A search that starts has one frame.
LEMMA FirstFrame ==
    ASSUME NEW f \in Files, NEW todo \in SUBSET Files
    PROVE  LET p == <<[file |-> f, todo |-> todo]>>
           IN  /\ p \in Seq(Frame) /\ p # <<>> /\ Len(p) = 1 /\ DOMAIN p = {1}
               /\ p[1].file = f /\ p[1].todo = todo
<1> DEFINE fr == [file |-> f, todo |-> todo]
<1>1. fr \in Frame /\ fr.file = f /\ fr.todo = todo
  BY DEF Frame
<1> HIDE DEF fr
<1> QED BY <1>1 DEF fr

LEMMA ForgetTypes == Forget => SearchTypes'
<1> SUFFICES ASSUME Forget PROVE SearchTypes'
  OBVIOUS
<1>1. <<>> \in Seq(Frame) /\ <<>> \in Seq(Seq(Files))
  OBVIOUS
<1> QED BY <1>1, EmptyCacheKept DEF Forget, SearchTypes

LEMMA SearchTypesNext == IncInv /\ SearchTypes /\ [Next]_vars => SearchTypes'
<1> SUFFICES ASSUME IncInv, SearchTypes, [Next]_vars PROVE SearchTypes'
  OBVIOUS
<1>1. cache \in Cache
  BY DEF IncInv
\* A step that leaves the searches alone.
<1>2. ASSUME UNCHANGED search PROVE SearchTypes'
  BY <1>2 DEF SearchTypes, search
<1>3. ASSUME NEW q \in Detections \cup Finds, Ask(q), AnswerAtOnce PROVE SearchTypes'
  <2>1. <<>> \in Seq(Frame)
    OBVIOUS
  <2> QED BY <1>1, <1>3, <2>1, AskFields DEF AnswerAtOnce, SearchTypes
<1>4. ASSUME NEW q \in Detections \cup Finds, Ask(q), phase' = "searching",
             frames' \in Seq(Frame), frames' # <<>>, visited' \in SUBSET Files
      PROVE  SearchTypes'
  BY <1>1, <1>4, AskFields DEF SearchTypes
<1>5. ASSUME NEW q \in Detections, DetectCycleFromImport(q) PROVE SearchTypes'
  <2>1. Ask(q) /\ q.source \in Files /\ q.target \in Files
    BY <1>5 DEF DetectCycleFromImport, Detections
  <2>2. CASE q.target \in cache.nonCyclic
    BY <1>3, <1>5, <2>1, <2>2 DEF DetectCycleFromImport
  <2>3. CASE q.target \notin cache.nonCyclic
    <3>1. /\ phase' = "searching" /\ visited' = {}
          /\ frames' = <<[file |-> q.source, todo |-> {q.target}]>>
      BY <1>5, <2>3 DEF DetectCycleFromImport
    <3>2. frames' \in Seq(Frame) /\ frames' # <<>>
      BY <2>1, <3>1, FirstFrame
    <3> QED BY <1>4, <2>1, <3>1, <3>2
  <2> QED BY <2>2, <2>3
<1>6. ASSUME NEW q \in Finds, FindAllCircularDependencies(q) PROVE SearchTypes'
  <2>1. Ask(q) /\ q.target \in Files
    BY <1>6 DEF FindAllCircularDependencies, Finds
  <2>2. CASE AnswerAtOnce
    BY <1>3, <2>1, <2>2
  <2>3. CASE ~AnswerAtOnce
    <3>1. /\ phase' = "searching" /\ visited' = {q.target}
          /\ frames' = <<[file |-> q.target, todo |-> Followed(cache', q.target)]>>
      BY <1>6, <2>3 DEF FindAllCircularDependencies
    <3>2. frames' \in Seq(Frame) /\ frames' # <<>>
      BY <2>1, <3>1, FirstFrame, FollowedType
    <3> QED BY <1>4, <2>1, <3>1, <3>2
  <2> QED BY <2>2, <2>3
<1>7. ASSUME NEW f \in Files, Close(f) \/ Cut(f) \/ Pass(f) PROVE SearchTypes'
  <2>1. /\ At(f) /\ frames' = Past(f)
        /\ UNCHANGED <<phase, request, visited, before>>
    BY <1>7 DEF Close, Cut, Pass
  <2>2. phase = "searching" /\ frames' \in Seq(Frame) /\ frames' # <<>>
    BY <2>1, AtType, PastFrames
  <2>3. Append(cycles, Append(Path, f)) \in Seq(Seq(Files))
    <3> DEFINE walk == Append(Path, f)
    <3>1. walk \in Seq(Files) /\ cycles \in Seq(Seq(Files))
      BY <2>2, PathType DEF SearchTypes
    <3> HIDE DEF walk
    <3> QED BY <3>1 DEF walk
  <2>4. cycles' \in Seq(Seq(Files))
    <3>1. cycles' = Append(cycles, Append(Path, f)) \/ cycles' = cycles
      BY <1>7 DEF Close, Cut, Pass
    <3> QED BY <2>3, <3>1 DEF SearchTypes
  <2>5. limit' \in BOOLEAN
    BY <1>7 DEF Close, Cut, Pass, SearchTypes
  <2> QED BY <2>1, <2>2, <2>4, <2>5 DEF SearchTypes
<1>8. ASSUME NEW f \in Files, Enter(f) PROVE SearchTypes'
  <2>1. /\ At(f) /\ visited' = visited \cup {f}
        /\ frames' = Append(Past(f), [file |-> f, todo |-> Followed(cache', f)])
        /\ UNCHANGED <<phase, request, cycles, limit, before>>
    BY <1>8 DEF Enter
  <2>2. phase = "searching" /\ frames' \in Seq(Frame) /\ frames' # <<>>
    BY <2>1, AtType, EnterFrames, FollowedType
  <2> QED BY <2>1, <2>2 DEF SearchTypes
<1>9. CASE Leave
  <2>1. frames' \in Seq(Frame) /\ frames' # <<>> /\ phase = "searching"
    BY <1>9, LeaveFrames DEF Leave, Done
  <2> QED BY <1>9, <2>1 DEF Leave, SearchTypes
<1>10. CASE Return
  <2>1. <<>> \in Seq(Frame)
    OBVIOUS
  <2> QED BY <1>10, <2>1 DEF Return, Done, SearchTypes
<1>11. CASE Between
  BY <1>11, ForgetTypes DEF Between
<1>12. CASE World
  BY <1>2, <1>12, ForgetTypes DEF World
<1>13. CASE UNCHANGED vars
  BY <1>2, <1>13 DEF vars
<1> QED
  BY <1>5, <1>6, <1>7, <1>8, <1>9, <1>10, <1>11, <1>12, <1>13 DEF Next, Call, SearchStep

(***************************************************************************)
(* Every step is one of Incremental or leaves its variables alone: a read  *)
(* is a small search, and so is a verdict that is remembered.              *)
(***************************************************************************)
LEMMA StepImplements ==
    IncInv /\ SearchTypes /\ [Next]_vars => [IncrementalNext]_incrementalVars
<1> SUFFICES ASSUME IncInv, SearchTypes, [Next]_vars
             PROVE  IncrementalNext \/ UNCHANGED incrementalVars
  OBVIOUS
<1>1. Versions /\ cache \in Cache /\ Hashed(cache) /\ Kept(cache)
  BY DEF IncInv, Versions
<1>2. ASSUME NEW q \in Detections, DetectCycleFromImport(q) PROVE UNCHANGED incrementalVars
  BY <1>2 DEF DetectCycleFromImport, Ask, incrementalVars
<1>3. ASSUME NEW q \in Finds, FindAllCircularDependencies(q)
      PROVE  Search \/ UNCHANGED incrementalVars
  <2>1. q.target \in Files /\ UNCHANGED <<files, saved>>
    BY <1>3 DEF FindAllCircularDependencies, Ask, Finds
  <2>2. CASE q.target \in cache.nonCyclic
    BY <1>3, <2>1, <2>2 DEF FindAllCircularDependencies, incrementalVars
  <2>3. CASE q.target \notin cache.nonCyclic
    <3>1. PICK c \in ComputeSCCs(q.target, cache, disk) :
             \/ cache' = [c EXCEPT !.nonCyclic = @ \cup {q.target}]
             \/ cache' = ParseAll({q.target}, c, disk)
      BY <1>3, <2>3 DEF FindAllCircularDependencies, Reading
    <3>2. c \in Cache /\ Hashed(c) /\ Kept(c)
      BY <1>1, <2>1, ComputeKept
    <3>3. {q.target} \in SUBSET Files
      BY <2>1
    <3>4. Searched(c, cache')
      <4>1. CASE cache' = [c EXCEPT !.nonCyclic = @ \cup {q.target}]
        BY <2>1, <3>2, <4>1, AddIsSearch
      <4>2. CASE cache' = ParseAll({q.target}, c, disk)
        BY <1>1, <3>2, <3>3, <4>2, ParseIsSearch
      <4> QED BY <3>1, <4>1, <4>2
    <3> QED BY <2>1, <3>4 DEF Search
  <2> QED BY <2>2, <2>3
<1>4. ASSUME NEW f \in Files, Close(f) \/ Cut(f) \/ Pass(f) PROVE UNCHANGED incrementalVars
  BY <1>4 DEF Close, Cut, Pass, incrementalVars
<1>5. ASSUME NEW f \in Files, Enter(f) PROVE Search
  <2>1. cache' = ParseAll({f}, cache, disk) /\ UNCHANGED <<files, saved>>
    BY <1>5 DEF Enter, Reading
  <2>2. {f} \in SUBSET Files
    OBVIOUS
  <2>3. Searched(cache, cache')
    BY <1>1, <2>1, <2>2, ParseIsSearch
  <2> QED BY <2>1, <2>3 DEF Search
<1>6. CASE Leave
  BY <1>6 DEF Leave, incrementalVars
<1>7. ASSUME Return PROVE Search \/ UNCHANGED incrementalVars
  <2>1. request.target \in Files /\ UNCHANGED <<files, saved>>
    BY <1>7, RequestType DEF Return, Done, SearchTypes
  <2>2. CASE cache' = cache
    BY <2>1, <2>2 DEF incrementalVars
  <2>3. CASE cache' = [cache EXCEPT !.nonCyclic = @ \cup {request.target}]
    <3>1. Searched(cache, cache')
      BY <1>1, <2>1, <2>3, AddIsSearch
    <3> QED BY <2>1, <3>1 DEF Search
  <2> QED BY <1>7, <2>2, <2>3 DEF Return
<1>8. CASE Between
  BY <1>8 DEF Between, IncrementalNext, Housekeeping
<1>9. CASE World
  BY <1>9 DEF World, IncrementalNext, Housekeeping
<1>10. CASE UNCHANGED vars
  BY <1>10 DEF vars
<1> QED
  BY <1>2, <1>3, <1>4, <1>5, <1>6, <1>7, <1>8, <1>9, <1>10
  DEF Next, Call, SearchStep, IncrementalNext

\* The cache is as Incremental keeps it, and the types are right.
SearchInv == IncInv /\ SearchTypes

(***************************************************************************)
(* The invariant of the cache in Incremental survives a search: files that *)
(* are read and edited under way leave index and hashes in step.           *)
(***************************************************************************)
THEOREM SearchInvariant == Spec => []SearchInv
<1>1. Init => SearchInv
  BY IncInit, SearchTypesInit DEF Init, SearchInv
<1>2. SearchInv /\ [Next]_vars => SearchInv'
  BY IncNext, StepImplements, SearchTypesNext DEF SearchInv
<1> QED BY <1>1, <1>2, PTL DEF Spec

(***************************************************************************)
(* Every search, step by step, with edits and kills in the middle of it,   *)
(* is to the index and the cache file what Incremental says.               *)
(***************************************************************************)
THEOREM SearchImplements == Spec => ImplementsIncremental
<1>1. Init => IncrementalInit
  BY DEF Init
<1>2. SearchInv /\ [Next]_vars => [IncrementalNext]_incrementalVars
  BY StepImplements DEF SearchInv
<1> QED
  BY <1>1, <1>2, SearchInvariant, PTL DEF Spec, ImplementsIncremental, IncrementalSpec

(***************************************************************************)
(* What Incremental promises of the cache holds between and during the     *)
(* searches.                                                               *)
(***************************************************************************)
THEOREM SearchesKeepPromises ==
    Spec => [](IncrementalTypeOK /\ IndexMatchesHashes /\ UnchangedVerdictExact /\ NoStalePositive)
<1>1. Spec => IncrementalSpec
  BY SearchImplements DEF ImplementsIncremental
<1> QED
  BY <1>1, IncrementalTypes, IndexKeepsToHashes, UnchangedVerdicts, StalePositivesReanalysed, PTL

-----------------------------------------------------------------------------
(* The chain of imports in the frames, and the cycles it closes.           *)

\* The i-th file on a path of detectCycleFromImport() is the importing one.
AtCaller(i) == request.kind = "detect" /\ i = 1

Chain ==
    phase = "searching" =>
        /\ \A i, j \in DOMAIN frames : frames[i].file = frames[j].file => i = j
        /\ \A i \in DOMAIN frames :
              IF AtCaller(i)
              THEN frames[i].file = request.source /\ frames[i].todo \subseteq {request.target}
              ELSE /\ frames[i].file \in visited
                   /\ frames[i].todo \subseteq Followed(cache, frames[i].file)
        /\ \A i, j \in DOMAIN frames :
              j = i + 1 => AtCaller(i) \/ frames[j].file \in Followed(cache, frames[i].file)
        /\ request.kind = "detect" => request.source \notin visited

\* A list of files that ends where it, or for detectCycleFromImport() the
\* importing file, has been.
ClosedWalk(w) ==
    /\ Len(w) > 1
    /\ \E j \in 1..(Len(w) - 1) : w[j] = w[Len(w)] /\ (request.kind = "detect" => j = 1)
    /\ \A i, j \in 1..(Len(w) - 1) : w[i] = w[j] => i = j
    /\ \A i \in 1..(Len(w) - 1) : AtCaller(i) \/ w[i + 1] \in Followed(cache, w[i])

Walks == \A k \in DOMAIN cycles : ClosedWalk(cycles[k])

\* What was followed is followed still.
Grows == request' = request /\ \A f : Followed(cache, f) \subseteq Followed(cache, f)'

LEMMA StepGrows ==
    ASSUME SearchInv, phase = "searching",
           SearchStep \/ (UNCHANGED <<program, cache, request>>)
    PROVE  Grows
<1>1. Versions /\ cache \in Cache /\ Hashed(cache) /\ Kept(cache)
  BY DEF SearchInv, IncInv, Versions
<1>2. ASSUME UNCHANGED <<program, request>>,
             \A f : Followed(cache, f) \subseteq Followed(cache', f)
      PROVE  Grows
  BY <1>2 DEF Grows, Followed, FollowedIn
<1>3. CASE UNCHANGED <<program, cache, request>>
  BY <1>2, <1>3
<1>4. ASSUME NEW f \in Files, Close(f) \/ Cut(f) \/ Pass(f) PROVE Grows
  BY <1>2, <1>4 DEF Close, Cut, Pass, incrementalVars, files
<1>5. ASSUME NEW f \in Files, Enter(f) PROVE Grows
  <2>1. cache' = ParseAll({f}, cache, disk) /\ UNCHANGED <<program, request>>
    BY <1>5 DEF Enter, Reading, files
  <2>2. {f} \in SUBSET Files
    OBVIOUS
  <2> QED BY <1>1, <1>2, <2>1, <2>2, FollowedStays
<1>6. CASE Leave
  BY <1>2, <1>6 DEF Leave, incrementalVars, files
<1>7. CASE Return
  <2>1. cache'.parsed = cache.parsed /\ cache'.hashes = cache.hashes
    BY <1>1, <1>7 DEF Return, Cache
  <2> QED BY <1>2, <1>7, <2>1 DEF Return, Followed, files
<1> QED BY <1>3, <1>4, <1>5, <1>6, <1>7 DEF SearchStep

LEMMA WalksGrow == ASSUME Walks, Grows, UNCHANGED cycles PROVE Walks'
<1>1. ASSUME NEW w, ClosedWalk(w) PROVE ClosedWalk(w)'
  BY <1>1 DEF ClosedWalk, AtCaller, Grows
<1> QED BY <1>1 DEF Walks

\* The loop has come to the end of a cycle.
LEMMA CloseWalk ==
    ASSUME SearchInv, Chain, NEW f, At(f), Closes(f)
    PROVE  ClosedWalk(Append(Path, f))
<1> DEFINE w == Append(Path, f)
           n == Len(frames)
<1>1. SearchTypes /\ phase = "searching" /\ f \in Files /\ f \in frames[n].todo
  BY AtType DEF SearchInv
<1>2. n \in Nat \ {0} /\ DOMAIN frames = 1..n /\ Path \in Seq(Files) /\ Len(Path) = n
  BY <1>1, TopType, PathType
<1>3. /\ Len(w) = n + 1 /\ w[n + 1] = f
      /\ \A i \in 1..n : w[i] = frames[i].file
  BY <1>1, <1>2, PathType
<1> HIDE DEF w, n
<1>4. \E j \in 1..n : w[j] = f /\ (request.kind = "detect" => j = 1)
  <2>1. CASE request.kind = "detect"
    <3>1. w[1] = request.source
      BY <1>1, <1>2, <1>3, <2>1 DEF Chain, AtCaller
    <3> QED BY <1>2, <2>1, <3>1 DEF Closes
  <2>2. CASE request.kind # "detect"
    BY <1>2, <1>3, <2>2 DEF Closes
  <2> QED BY <2>1, <2>2
<1>5. \A i, j \in 1..n : w[i] = w[j] => i = j
  BY <1>1, <1>2, <1>3 DEF Chain
<1>6. ASSUME NEW i \in 1..n PROVE AtCaller(i) \/ w[i + 1] \in Followed(cache, w[i])
  <2>1. CASE i < n
    BY <1>1, <1>2, <1>3, <2>1 DEF Chain
  <2>2. CASE i = n
    BY <1>1, <1>2, <1>3, <2>2 DEF Chain
  <2> QED BY <1>2, <2>1, <2>2
<1> QED BY <1>2, <1>3, <1>4, <1>5, <1>6 DEF ClosedWalk, w

\* A search goes one call deeper.
LEMMA EnterChain ==
    ASSUME SearchInv, Chain, NEW f \in Files, Enter(f)
    PROVE  Chain'
<1> DEFINE n == Len(frames)
<1>1. /\ SearchTypes /\ At(f) /\ ~Closes(f) /\ f \notin visited
      /\ phase = "searching" /\ f \in frames[n].todo
      /\ visited' = visited \cup {f} /\ program' = program
      /\ UNCHANGED <<phase, request>>
      /\ frames' = Append(Past(f), [file |-> f, todo |-> Followed(cache', f)])
  BY AtType DEF SearchInv, Enter, files
<1>2. n \in Nat \ {0} /\ DOMAIN frames = 1..n
  BY <1>1, TopType
<1>3. /\ DOMAIN frames' = 1..(n + 1)
      /\ \A i \in 1..n : frames'[i].file = frames[i].file /\ frames'[i].todo \subseteq frames[i].todo
      /\ frames'[n + 1].file = f /\ frames'[n + 1].todo = Followed(cache', f)
  <2>1. Followed(cache', f) \in SUBSET Files
    BY FollowedType
  <2> HIDE DEF n
  <2>2. /\ DOMAIN frames' = 1..(n + 1)
        /\ \A i \in 1..n :
              /\ frames'[i].file = frames[i].file
              /\ i < n => frames'[i].todo = frames[i].todo
              /\ i = n => frames'[i].todo = frames[i].todo \ {f}
        /\ frames'[n + 1].file = f /\ frames'[n + 1].todo = Followed(cache', f)
    BY <1>1, <1>2, <2>1, EnterFrames DEF n
  <2> QED BY <1>2, <2>2
<1>4. Grows /\ Followed(cache, f)' = Followed(cache', f)
  BY <1>1, StepGrows DEF SearchStep, Followed, FollowedIn
<1> HIDE DEF n
<1>5. ASSUME NEW i \in 1..n PROVE frames[i].file # f
  <2>1. CASE AtCaller(i)
    BY <1>1, <1>2, <2>1 DEF Chain, AtCaller, Closes
  <2>2. CASE ~AtCaller(i)
    BY <1>1, <1>2, <2>2 DEF Chain
  <2> QED BY <2>1, <2>2
<1>6. \A i, j \in DOMAIN frames' : frames'[i].file = frames'[j].file => i = j
  BY <1>1, <1>2, <1>3, <1>5 DEF Chain
<1>7. ASSUME NEW i \in DOMAIN frames'
      PROVE  IF AtCaller(i)
             THEN frames'[i].file = request.source /\ frames'[i].todo \subseteq {request.target}
             ELSE /\ frames'[i].file \in visited'
                  /\ frames'[i].todo \subseteq Followed(cache, frames[i].file)'
  <2>1. CASE i = n + 1
    <3>1. ~AtCaller(i)
      BY <1>2, <2>1 DEF AtCaller
    <3> QED BY <1>1, <1>3, <1>4, <2>1, <3>1
  <2>2. CASE i \in 1..n
    <3>1. CASE AtCaller(i)
      BY <1>1, <1>2, <1>3, <2>2, <3>1 DEF Chain
    <3>2. CASE ~AtCaller(i)
      <4>1. frames[i].file \in visited /\ frames[i].todo \subseteq Followed(cache, frames[i].file)
        BY <1>1, <1>2, <2>2, <3>2 DEF Chain
      <4>2. Followed(cache, frames[i].file) \subseteq Followed(cache, frames[i].file)'
        BY <1>3, <1>4, <2>2 DEF Grows
      <4> QED BY <1>1, <1>3, <2>2, <3>2, <4>1, <4>2
    <3> QED BY <3>1, <3>2
  <2> QED BY <1>2, <1>3, <2>1, <2>2
<1>8. ASSUME NEW i \in DOMAIN frames', NEW j \in DOMAIN frames', j = i + 1
      PROVE  AtCaller(i) \/ frames'[j].file \in Followed(cache, frames[i].file)'
  <2>1. i \in 1..n /\ (j = n + 1 \/ j \in 1..n)
    BY <1>2, <1>3, <1>8
  <2>2. AtCaller(i) \/ frames'[j].file \in Followed(cache, frames[i].file)
    BY <1>1, <1>2, <1>3, <1>8, <2>1 DEF Chain
  <2> QED BY <1>3, <1>4, <2>1, <2>2 DEF Grows
<1>9. request.kind = "detect" => request.source \notin visited'
  BY <1>1 DEF Chain, Closes
<1> QED BY <1>1, <1>6, <1>7, <1>8, <1>9 DEF Chain, AtCaller

\* The frames lose entries of their loops, or the innermost of them.
LEMMA FewerChain ==
    ASSUME SearchInv, Chain, phase = "searching", Grows, UNCHANGED <<phase, visited>>,
           DOMAIN frames' \subseteq DOMAIN frames,
           \A i \in DOMAIN frames' :
              frames'[i].file = frames[i].file /\ frames'[i].todo \subseteq frames[i].todo
    PROVE  Chain'
<1>1. \A i, j \in DOMAIN frames' : frames'[i].file = frames'[j].file => i = j
  BY DEF Chain
<1>2. ASSUME NEW i \in DOMAIN frames'
      PROVE  IF AtCaller(i)
             THEN frames'[i].file = request.source /\ frames'[i].todo \subseteq {request.target}
             ELSE /\ frames'[i].file \in visited
                  /\ frames'[i].todo \subseteq Followed(cache, frames[i].file)'
  <2>1. CASE AtCaller(i)
    BY <1>2, <2>1 DEF Chain
  <2>2. CASE ~AtCaller(i)
    <3>1. frames[i].file \in visited /\ frames[i].todo \subseteq Followed(cache, frames[i].file)
      BY <1>2, <2>2 DEF Chain
    <3>2. Followed(cache, frames[i].file) \subseteq Followed(cache, frames[i].file)'
      <4>1. frames'[i].file = frames[i].file
        BY <1>2
      <4> QED BY <4>1 DEF Grows
    <3> QED BY <1>2, <2>2, <3>1, <3>2
  <2> QED BY <2>1, <2>2
<1>3. ASSUME NEW i \in DOMAIN frames', NEW j \in DOMAIN frames', j = i + 1
      PROVE  AtCaller(i) \/ frames'[j].file \in Followed(cache, frames[i].file)'
  <2>1. AtCaller(i) \/ frames[j].file \in Followed(cache, frames[i].file)
    BY <1>3 DEF Chain
  <2>2. frames'[i].file = frames[i].file /\ frames'[j].file = frames[j].file
    BY <1>3
  <2> QED BY <2>1, <2>2 DEF Grows
<1>4. request.kind = "detect" => request.source \notin visited
  BY DEF Chain
<1> QED BY <1>1, <1>2, <1>3, <1>4 DEF Chain, AtCaller, Grows

\* An edit during a search leaves its cache alone.
LEMMA EditDuring ==
    ASSUME World, phase = "searching"
    PROVE  \/ UNCHANGED <<search, cache, program>>
           \/ Forget
BY DEF World, Edit

LEMMA ChainNext == SearchInv /\ Chain /\ Walks /\ [Next]_vars => Chain' /\ Walks'
<1> SUFFICES ASSUME SearchInv, Chain, Walks, [Next]_vars PROVE Chain' /\ Walks'
  OBVIOUS
<1>1. SearchTypes
  BY DEF SearchInv
<1>2. ASSUME phase' # "searching", cycles' = <<>> PROVE Chain' /\ Walks'
  BY <1>2 DEF Chain, Walks
<1>3. ASSUME Forget PROVE Chain' /\ Walks'
  BY <1>2, <1>3 DEF Forget
<1>4. ASSUME NEW q, Ask(q), AnswerAtOnce PROVE Chain' /\ Walks'
  BY <1>2, <1>4, AskFields DEF AnswerAtOnce
<1>5. ASSUME NEW q \in Detections, DetectCycleFromImport(q) PROVE Chain' /\ Walks'
  <2>1. Ask(q) /\ q.source \in Files /\ q.target \in Files /\ q.kind = "detect"
    BY <1>5 DEF DetectCycleFromImport, Detections
  <2>2. CASE q.target \in cache.nonCyclic
    BY <1>4, <1>5, <2>1, <2>2 DEF DetectCycleFromImport
  <2>3. CASE q.target \notin cache.nonCyclic
    <3>1. /\ visited' = {} /\ request' = q /\ cycles' = <<>>
          /\ frames' = <<[file |-> q.source, todo |-> {q.target}]>>
      BY <1>5, <2>1, <2>3, AskFields DEF DetectCycleFromImport
    <3>2. /\ DOMAIN frames' = {1}
          /\ frames'[1].file = q.source /\ frames'[1].todo = {q.target}
      BY <2>1, <3>1, FirstFrame
    <3> QED BY <2>1, <3>1, <3>2 DEF Chain, AtCaller, Walks
  <2> QED BY <2>2, <2>3
<1>6. ASSUME NEW q \in Finds, FindAllCircularDependencies(q) PROVE Chain' /\ Walks'
  <2>1. Ask(q) /\ q.target \in Files /\ q.kind # "detect"
    BY <1>6 DEF FindAllCircularDependencies, Finds
  <2>2. CASE AnswerAtOnce
    BY <1>4, <2>1, <2>2
  <2>3. CASE ~AnswerAtOnce
    <3>1. /\ visited' = {q.target} /\ request' = q /\ cycles' = <<>> /\ program' = program
          /\ frames' = <<[file |-> q.target, todo |-> Followed(cache', q.target)]>>
      BY <1>6, <2>1, <2>3, AskFields DEF FindAllCircularDependencies
    <3>2. /\ DOMAIN frames' = {1}
          /\ frames'[1].file = q.target /\ frames'[1].todo = Followed(cache', q.target)
      BY <2>1, <3>1, FirstFrame, FollowedType
    <3>3. Followed(cache, q.target)' = Followed(cache', q.target)
      BY <3>1 DEF Followed, FollowedIn
    <3> QED BY <2>1, <3>1, <3>2, <3>3 DEF Chain, AtCaller, Walks
  <2> QED BY <2>2, <2>3
<1>7. ASSUME NEW f \in Files, Close(f) \/ Cut(f) \/ Pass(f) PROVE Chain' /\ Walks'
  <2>1. /\ At(f) /\ phase = "searching" /\ frames' = Past(f) /\ Grows
        /\ UNCHANGED <<phase, visited>>
    BY <1>1, <1>7, AtType, StepGrows DEF Close, Cut, Pass, SearchStep
  <2>2. /\ DOMAIN frames' = DOMAIN frames
        /\ \A i \in DOMAIN frames :
              frames'[i].file = frames[i].file /\ frames'[i].todo \subseteq frames[i].todo
    <3>1. DOMAIN frames' = 1..Len(frames) /\ DOMAIN frames = 1..Len(frames)
      BY <1>1, <2>1, PastFrames, TopType
    <3>2. \A i \in DOMAIN frames :
             /\ frames'[i].file = frames[i].file
             /\ i < Len(frames) => frames'[i].todo = frames[i].todo
             /\ i = Len(frames) => frames'[i].todo = frames[i].todo \ {f}
      BY <1>1, <2>1, PastFrames
    <3>3. \A i \in DOMAIN frames : i < Len(frames) \/ i = Len(frames)
      BY <1>1, <2>1, TopType
    <3> QED BY <3>1, <3>2, <3>3
  <2>3. Chain'
    BY <2>1, <2>2, FewerChain
  <2>4. Walks'
    <3>1. CASE UNCHANGED cycles
      BY <2>1, <3>1, WalksGrow
    <3>2. CASE Close(f)
      <4> DEFINE w == Append(Path, f)
      <4>1. ClosedWalk(w) /\ cycles' = Append(cycles, w)
        BY <1>7, <3>2, CloseWalk DEF Close
      <4>2. ASSUME NEW x, ClosedWalk(x) PROVE ClosedWalk(x)'
        BY <2>1, <4>2 DEF ClosedWalk, AtCaller, Grows
      <4>3. cycles \in Seq(Seq(Files))
        BY <1>1 DEF SearchTypes
      <4> HIDE DEF w
      <4>4. \A k \in DOMAIN cycles' : cycles'[k] = w \/ \E l \in DOMAIN cycles : cycles'[k] = cycles[l]
        BY <4>1, <4>3
      <4>5. ASSUME NEW k \in DOMAIN cycles' PROVE ClosedWalk(cycles'[k])
        BY <4>1, <4>4 DEF Walks
      <4>6. ASSUME NEW k \in DOMAIN cycles' PROVE ClosedWalk(cycles[k])'
        <5> DEFINE x == cycles'[k]
        <5>1. ClosedWalk(x)
          BY <4>5
        <5> QED BY <2>1, <5>1 DEF ClosedWalk, AtCaller, Grows
      <4> QED BY <4>6 DEF Walks
    <3> QED BY <1>7, <3>1, <3>2 DEF Cut, Pass
  <2> QED BY <2>3, <2>4
<1>8. ASSUME NEW f \in Files, Enter(f) PROVE Chain' /\ Walks'
  <2>1. phase = "searching" /\ UNCHANGED cycles /\ Grows
    BY <1>1, <1>8, AtType, StepGrows DEF Enter, SearchStep
  <2> QED BY <1>8, <2>1, EnterChain, WalksGrow
<1>9. CASE Leave
  <2>1. phase = "searching" /\ Len(frames) > 1 /\ UNCHANGED <<phase, visited, cycles>> /\ Grows
    BY <1>9, StepGrows DEF Leave, Done, SearchStep
  <2>2. /\ DOMAIN frames' \subseteq DOMAIN frames
        /\ \A i \in DOMAIN frames' : frames'[i] = frames[i]
    BY <1>1, <1>9, <2>1, LeaveFrames, TopType DEF Leave
  <2> QED BY <2>1, <2>2, FewerChain, WalksGrow
<1>10. CASE Return
  <2>1. phase = "searching" /\ phase' = "answered" /\ UNCHANGED cycles /\ Grows
    BY <1>10, StepGrows DEF Return, Done, SearchStep
  <2> QED BY <2>1, WalksGrow DEF Chain
<1>11. CASE Between
  BY <1>3, <1>11 DEF Between
<1>12. ASSUME UNCHANGED <<search, cache, program>> PROVE Chain' /\ Walks'
  <2>1. UNCHANGED <<phase, request, frames, visited, cycles>>
    BY <1>12 DEF search
  <2>2. \A f : Followed(cache, f)' = Followed(cache, f)
    BY <1>12 DEF Followed, FollowedIn
  <2>3. Chain'
    BY <2>1, <2>2 DEF Chain, AtCaller
  <2>4. Walks'
    BY <2>1, <2>2, WalksGrow DEF Grows
  <2> QED BY <2>3, <2>4
<1>13. CASE World
  <2>1. CASE phase = "searching"
    BY <1>3, <1>12, <1>13, <2>1, EditDuring
  <2>2. CASE phase # "searching"
    BY <1>3, <1>13, <2>2 DEF World
  <2> QED BY <2>1, <2>2
<1>14. CASE UNCHANGED vars
  BY <1>12, <1>14 DEF vars, incrementalVars, files
<1> QED
  BY <1>5, <1>6, <1>7, <1>8, <1>9, <1>10, <1>11, <1>13, <1>14 DEF Next, Call, SearchStep

(***************************************************************************)
(* The frames of a search are a chain of imports without a repetition, and *)
(* every list of files it reports is one that closes.                      *)
(***************************************************************************)
THEOREM ChainInvariant == Spec => [](SearchInv /\ Chain /\ Walks)
<1>1. Init => Chain /\ Walks
  BY DEF Init, Chain, Walks
<1>2. SearchInv /\ SearchInv' /\ Chain /\ Walks /\ [Next]_vars => Chain' /\ Walks'
  BY ChainNext
<1> QED BY <1>1, <1>2, SearchInvariant, PTL DEF Spec

\* getMinimalCycle() of a list in which only the last file is repeated.
LEMMA MinimalOfWalk ==
    ASSUME NEW n \in Nat \ {0}, NEW w \in Seq(Files), Len(w) = n + 1,
           \A i, j \in 1..n : w[i] = w[j] => i = j,
           NEW j \in 1..n, w[j] = w[n + 1]
    PROVE  MinimalCycle(w) = SubSeq(w, j, n + 1)
<1>1. DOMAIN w = 1..(n + 1)
  OBVIOUS
<1>2. \A i \in DOMAIN w : Repeats(w, i) <=> i = n + 1
  <2>1. Repeats(w, n + 1)
    BY DEF Repeats
  <2>2. ASSUME NEW i \in 1..n PROVE ~Repeats(w, i)
    <3>1. \A k \in 1..(i - 1) : k \in 1..n /\ k # i
      OBVIOUS
    <3> QED BY <3>1 DEF Repeats
  <2>3. \A i \in DOMAIN w : i \in 1..n \/ i = n + 1
    BY <1>1
  <2>4. n + 1 \notin 1..n
    OBVIOUS
  <2> QED BY <2>1, <2>2, <2>3, <2>4
<1> DEFINE end == CHOOSE i \in DOMAIN w : Repeats(w, i) /\ \A k \in 1..(i - 1) : ~Repeats(w, k)
           start == CHOOSE k \in 1..(end - 1) : w[k] = w[end]
<1>3. end = n + 1
  <2>1. n + 1 \in DOMAIN w /\ \A k \in 1..(n + 1 - 1) : k \in DOMAIN w /\ k # n + 1
    BY <1>1
  <2>2. Repeats(w, n + 1) /\ \A k \in 1..(n + 1 - 1) : ~Repeats(w, k)
    BY <1>2, <2>1
  <2>3. \E i \in DOMAIN w : Repeats(w, i) /\ \A k \in 1..(i - 1) : ~Repeats(w, k)
    BY <2>1, <2>2
  <2>4. end \in DOMAIN w /\ Repeats(w, end)
    BY <2>3
  <2> HIDE DEF end
  <2> QED BY <1>2, <2>4
<1>4. start = j
  <2> HIDE DEF end
  <2>1. 1..(end - 1) = 1..n /\ w[end] = w[n + 1]
    BY <1>3
  <2>2. start \in 1..n /\ w[start] = w[n + 1]
    BY <2>1
  <2> HIDE DEF start
  <2> QED BY <2>2
<1>5. MinimalCycle(w) = SubSeq(w, start, end)
  <2>1. n + 1 \in DOMAIN w
    BY <1>1
  <2>2. \E i \in DOMAIN w : Repeats(w, i)
    BY <1>2, <2>1
  <2> QED BY <2>2 DEF MinimalCycle
<1> HIDE DEF start, end
<1> QED BY <1>3, <1>4, <1>5

(***************************************************************************)
(* Every reported cycle, cut down, is one closed chain of imports that     *)
(* passes each of its files once.                                          *)
(***************************************************************************)
THEOREM ReportsAreReal == Spec => []CyclesAreReal
<1>1. ASSUME SearchInv, Walks PROVE CyclesAreReal
  <2> SUFFICES ASSUME NEW k \in DOMAIN cycles
               PROVE  LET m == MinimalCycle(cycles[k])
                      IN  /\ Len(m) > 1 /\ m[1] = m[Len(m)]
                          /\ \A i, j \in 1..(Len(m) - 1) : m[i] = m[j] => i = j
                          /\ \A i \in 1..(Len(m) - 1) :
                                \/ m[i + 1] \in Edges(m[i])
                                \/ request.kind = "detect" /\ i = 1
    BY DEF CyclesAreReal
  <2> DEFINE w == cycles[k]
             n == Len(w) - 1
  <2>1. w \in Seq(Files) /\ ClosedWalk(w)
    BY <1>1 DEF SearchInv, SearchTypes, Walks
  <2> HIDE DEF w
  <2>2. n \in Nat \ {0} /\ Len(w) = n + 1 /\ \A i \in 1..(n + 1) : w[i] \in Files
    BY <2>1 DEF ClosedWalk
  <2> HIDE DEF n
  <2>3. /\ \A i, j \in 1..n : w[i] = w[j] => i = j
        /\ \A i \in 1..n : AtCaller(i) \/ w[i + 1] \in Followed(cache, w[i])
        /\ \E j \in 1..n : w[j] = w[n + 1] /\ (request.kind = "detect" => j = 1)
    BY <2>1, <2>2 DEF ClosedWalk, n
  <2>4. PICK j \in 1..n : w[j] = w[n + 1] /\ (request.kind = "detect" => j = 1)
    BY <2>3
  <2> DEFINE m == SubSeq(w, j, n + 1)
  <2>5. MinimalCycle(w) = m
    BY <2>1, <2>2, <2>3, <2>4, MinimalOfWalk
  <2>6. /\ Len(m) = n + 2 - j
        /\ \A i \in 1..(n + 2 - j) : m[i] = w[j + i - 1]
    BY <2>1, <2>2, <2>4
  <2> HIDE DEF m
  <2>7. Len(m) > 1 /\ m[1] = m[Len(m)]
    BY <2>2, <2>4, <2>6
  <2>8. \A i, l \in 1..(Len(m) - 1) : m[i] = m[l] => i = l
    BY <2>2, <2>3, <2>4, <2>6
  <2>9. ASSUME NEW i \in 1..(Len(m) - 1)
        PROVE  m[i + 1] \in Edges(m[i]) \/ (request.kind = "detect" /\ i = 1)
    <3>1. j + i - 1 \in 1..n /\ m[i] = w[j + i - 1] /\ m[i + 1] = w[(j + i - 1) + 1]
      BY <2>2, <2>4, <2>6
    <3>2. CASE AtCaller(j + i - 1)
      BY <2>4, <2>6, <3>2 DEF AtCaller
    <3>3. CASE ~AtCaller(j + i - 1)
      <4>1. m[i] \in Files /\ m[i + 1] \in Followed(cache, m[i])
        BY <2>2, <2>3, <3>1, <3>3
      <4>2. {m[i]} \in SUBSET Files
        BY <4>1
      <4>3. Followed(cache, m[i]) \subseteq Edges(m[i])
        BY <1>1, <4>2, FollowedStays DEF SearchInv, IncInv, Versions, Edges
      <4> QED BY <4>1, <4>3
    <3> QED BY <3>2, <3>3
  <2> QED BY <2>5, <2>7, <2>8, <2>9 DEF w
<1> QED BY <1>1, ChainInvariant, PTL

-----------------------------------------------------------------------------
(* detectCycleFromImport() passes nothing over.                            *)

(***************************************************************************)
(* As long as no cycle is found and nothing was cut, every run-time import *)
(* of a file that was entered was entered too, was known as non-cyclic     *)
(* when the search began, or is still ahead in the loop of that file.      *)
(***************************************************************************)
Ahead(f, g) == \E i \in DOMAIN frames : frames[i].file = f /\ g \in frames[i].todo

SweepComplete ==
    /\ request.target \in visited \/ Ahead(request.source, request.target)
    /\ \A f \in visited : \A g \in cache.imports[f] :
          g \in visited \cup before.nonCyclic \/ Ahead(f, g)

Swept ==
    phase # "idle" /\ request.kind = "detect" =>
        /\ visited \subseteq cache.parsed
        /\ request.target \notin Missing
        /\ request.source \notin visited
        /\ phase = "searching" =>
              cache.nonCyclic \subseteq before.nonCyclic /\ request.target \notin before.nonCyclic
        /\ limit => request.target \notin cache.nonCyclic
        /\ cycles = <<>> /\ ~limit /\ request.target \notin before.nonCyclic => SweepComplete

\* What a search reads next exists.
LEMMA AtExists ==
    ASSUME SearchInv, Chain, NEW f, At(f),
           request.kind = "detect" => request.target \notin Missing
    PROVE  f \notin Missing
<1>1. /\ phase = "searching" /\ f \in frames[Len(frames)].todo
      /\ Len(frames) \in DOMAIN frames
  BY AtType, TopType DEF SearchInv
<1>2. CASE AtCaller(Len(frames))
  BY <1>1, <1>2 DEF Chain, AtCaller
<1>3. CASE ~AtCaller(Len(frames))
  BY <1>1, <1>3, FollowedType DEF Chain
<1> QED BY <1>2, <1>3

\* What a step of the search does to the cache.
LEMMA StepCache ==
    ASSUME SearchInv, SearchStep
    PROVE  /\ cache.parsed \subseteq cache'.parsed
           /\ \A f \in cache.parsed : cache'.imports[f] = cache.imports[f]
           /\ phase' = "searching" => cache'.nonCyclic \subseteq cache.nonCyclic
           /\ \A f \in Files : Enter(f) /\ f \notin Missing => f \in cache'.parsed
<1>1. Versions /\ cache \in Cache /\ Hashed(cache) /\ Kept(cache)
  BY DEF SearchInv, IncInv, Versions
<1>2. ASSUME NEW f \in Files, Enter(f)
      PROVE  /\ cache.parsed \subseteq cache'.parsed
             /\ \A g \in cache.parsed : cache'.imports[g] = cache.imports[g]
             /\ cache'.nonCyclic \subseteq cache.nonCyclic
             /\ f \notin Missing => f \in cache'.parsed
  <2>1. cache' = ParseAll({f}, cache, disk) /\ {f} \in SUBSET Files
    BY <1>2 DEF Enter, Reading
  <2> QED BY <1>1, <2>1, ParseKept
<1>3. CASE \E f \in Files : Enter(f)
  BY <1>2, <1>3
<1>4. ASSUME ~\E f \in Files : Enter(f), cache' = cache
      PROVE  /\ cache.parsed \subseteq cache'.parsed
             /\ \A f \in cache.parsed : cache'.imports[f] = cache.imports[f]
             /\ phase' = "searching" => cache'.nonCyclic \subseteq cache.nonCyclic
             /\ \A f \in Files : Enter(f) /\ f \notin Missing => f \in cache'.parsed
  BY <1>4
<1>5. CASE (\E f \in Files : Close(f) \/ Cut(f) \/ Pass(f)) \/ Leave
  BY <1>3, <1>4, <1>5 DEF Close, Cut, Pass, Leave, incrementalVars
<1>6. CASE Return
  <2>1. cache'.parsed = cache.parsed /\ cache'.imports = cache.imports
    BY <1>1, <1>6 DEF Return, Cache
  <2> QED BY <1>3, <1>6, <2>1 DEF Return
<1> QED BY <1>3, <1>5, <1>6 DEF SearchStep

LEMMA SweptNext == SearchInv /\ Chain /\ Swept /\ [Next]_vars => Swept'
<1> SUFFICES ASSUME SearchInv, Chain, Swept, [Next]_vars PROVE Swept'
  OBVIOUS
<1>1. SearchTypes
  BY DEF SearchInv
<1>2. ASSUME Forget PROVE Swept'
  BY <1>2 DEF Forget, Swept
<1>3. ASSUME NEW q \in Detections, DetectCycleFromImport(q) PROVE Swept'
  <2>1. /\ Ask(q) /\ q.source \in Files /\ q.target \in Files /\ q.target \notin Missing
        /\ visited' = {} /\ cache' = cache
    BY <1>3 DEF DetectCycleFromImport, AnswerAtOnce, Detections
  <2>2. request' = q /\ before' = cache /\ ~limit' /\ cycles' = <<>>
    BY <2>1, AskFields
  <2>3. CASE q.target \in cache.nonCyclic
    <3>1. phase' = "answered"
      BY <1>3, <2>3 DEF DetectCycleFromImport, AnswerAtOnce
    <3> QED BY <2>1, <2>2, <2>3, <3>1 DEF Swept
  <2>4. CASE q.target \notin cache.nonCyclic
    <3>1. /\ phase' = "searching"
          /\ frames' = <<[file |-> q.source, todo |-> {q.target}]>>
      BY <1>3, <2>4 DEF DetectCycleFromImport
    <3>2. /\ DOMAIN frames' = {1}
          /\ frames'[1].file = q.source /\ frames'[1].todo = {q.target}
      BY <2>1, <3>1, FirstFrame
    <3>3. SweepComplete'
      BY <2>1, <2>2, <3>2 DEF SweepComplete, Ahead
    <3> QED BY <2>1, <2>2, <2>4, <3>1, <3>3 DEF Swept
  <2> QED BY <2>3, <2>4
<1>4. ASSUME NEW q \in Finds, FindAllCircularDependencies(q) PROVE Swept'
  <2>1. Ask(q) /\ q.kind # "detect"
    BY <1>4 DEF FindAllCircularDependencies, Finds
  <2> QED BY <2>1, AskFields DEF Swept
\* A step of the search.
<1>5. ASSUME SearchStep PROVE Swept'
  <2>1. /\ phase = "searching" /\ phase' \in {"searching", "answered"}
        /\ request' = request /\ before' = before
    BY <1>1, <1>5, AtType DEF SearchStep, Close, Cut, Pass, Enter, Leave, Return, Done
  <2> SUFFICES ASSUME request.kind = "detect" PROVE Swept'
    BY <2>1 DEF Swept
  <2>2. /\ visited \subseteq cache.parsed
        /\ request.target \notin Missing
        /\ request.source \notin visited
        /\ cache.nonCyclic \subseteq before.nonCyclic /\ request.target \notin before.nonCyclic
        /\ cycles = <<>> /\ ~limit => SweepComplete
    BY <2>1 DEF Swept
  <2>3. /\ cache.parsed \subseteq cache'.parsed
        /\ \A f \in visited : cache'.imports[f] = cache.imports[f]
        /\ phase' = "searching" => cache'.nonCyclic \subseteq before.nonCyclic
    BY <1>5, <2>2, StepCache
  <2>4. Len(frames) \in Nat \ {0} /\ DOMAIN frames = 1..Len(frames)
    BY <1>1, <2>1, TopType
  \* The files entered before the step and what is ahead in their loops.
  <2>5. ASSUME UNCHANGED <<phase, visited>>, limit => limit', cycles # <<>> => cycles' # <<>>,
               cycles' = <<>> /\ ~limit' => SweepComplete'
        PROVE  Swept'
    BY <2>1, <2>2, <2>3, <2>5 DEF Swept
  <2>6. ASSUME NEW f \in Files, Close(f) PROVE Swept'
    <3> DEFINE w == Append(Path, f)
    <3>1. cycles' = Append(cycles, w) /\ cycles \in Seq(Seq(Files))
      BY <1>1, <2>6 DEF Close, SearchTypes
    <3> HIDE DEF w
    <3>2. cycles' # <<>>
      BY <3>1
    <3> QED BY <2>5, <2>6, <3>2 DEF Close
  <2>7. ASSUME NEW f \in Files, Cut(f) PROVE Swept'
    BY <2>5, <2>7 DEF Cut
  <2>8. ASSUME NEW f \in Files, Pass(f) PROVE Swept'
    <3>1. /\ UNCHANGED <<phase, visited, cycles, limit>> /\ frames' = Past(f)
          /\ f \in visited \cup before.nonCyclic
          /\ cache' = cache
      BY <2>2, <2>8 DEF Pass, incrementalVars
    <3>2. /\ DOMAIN frames' = DOMAIN frames
          /\ \A i \in DOMAIN frames : /\ frames'[i].file = frames[i].file
                                      /\ frames[i].todo \subseteq frames'[i].todo \cup {f}
      <4>1. DOMAIN frames' = 1..Len(frames)
        BY <1>1, <2>1, <3>1, PastFrames
      <4>2. \A i \in DOMAIN frames :
               /\ frames'[i].file = frames[i].file
               /\ i < Len(frames) => frames'[i].todo = frames[i].todo
               /\ i = Len(frames) => frames'[i].todo = frames[i].todo \ {f}
        BY <1>1, <2>1, <3>1, PastFrames
      <4>3. \A i \in DOMAIN frames : i < Len(frames) \/ i = Len(frames)
        BY <2>4
      <4> QED BY <2>4, <4>1, <4>2, <4>3
    <3>3. \A h, g : Ahead(h, g) => Ahead(h, g)' \/ g = f
      BY <3>2 DEF Ahead
    <3>4. ASSUME cycles' = <<>> /\ ~limit' PROVE SweepComplete'
      <4>1. SweepComplete
        BY <2>2, <3>1, <3>4
      <4>2. request.target \in visited \/ Ahead(request.source, request.target)'
        <5>1. Ahead(request.source, request.target)
                => \/ request.target = f
                   \/ \E i \in DOMAIN frames' : /\ frames'[i].file = request.source
                                                 /\ request.target \in frames'[i].todo
          BY <3>2 DEF Ahead
        <5> QED BY <2>1, <2>2, <3>1, <4>1, <5>1 DEF SweepComplete, Ahead
      <4>3. \A h \in visited : \A g \in cache.imports[h] :
               g \in visited \cup before.nonCyclic \/ Ahead(h, g)'
        BY <3>1, <3>3, <4>1 DEF SweepComplete
      <4> QED BY <2>1, <3>1, <4>2, <4>3 DEF SweepComplete, Ahead
    <3> QED BY <2>5, <3>1, <3>4
  <2>9. ASSUME NEW f \in Files, Enter(f) PROVE Swept'
    <3>1. /\ UNCHANGED <<phase, cycles, limit>> /\ visited' = visited \cup {f} /\ At(f)
          /\ frames' = Append(Past(f), [file |-> f, todo |-> Followed(cache', f)])
          /\ ~Closes(f) /\ program' = program
      BY <2>9 DEF Enter, files
    <3>2. Followed(cache', f) \in SUBSET Files
      BY FollowedType
    <3> DEFINE n == Len(frames)
    <3>3. /\ DOMAIN frames' = 1..(n + 1)
          /\ \A i \in DOMAIN frames : /\ frames'[i].file = frames[i].file
                                      /\ frames[i].todo \subseteq frames'[i].todo \cup {f}
          /\ frames'[n + 1].file = f /\ frames'[n + 1].todo = Followed(cache', f)
      <4> HIDE DEF n
      <4>1. /\ DOMAIN frames' = 1..(n + 1)
            /\ \A i \in DOMAIN frames :
                  /\ frames'[i].file = frames[i].file
                  /\ i < n => frames'[i].todo = frames[i].todo
                  /\ i = n => frames'[i].todo = frames[i].todo \ {f}
            /\ frames'[n + 1].file = f /\ frames'[n + 1].todo = Followed(cache', f)
        BY <1>1, <3>1, <3>2, EnterFrames DEF n
      <4>2. \A i \in DOMAIN frames : i < n \/ i = n
        BY <2>4 DEF n
      <4> QED BY <4>1, <4>2
    <3>4. f \notin Missing /\ f \in cache'.parsed
      BY <1>5, <2>2, <2>9, <3>1, AtExists, StepCache
    <3>5. cache'.imports[f] \subseteq Followed(cache', f)
      <4>1. SearchInv'
        BY IncNext, StepImplements, SearchTypesNext DEF SearchInv
      <4>2. Hashed(cache')
        BY <3>1, <4>1 DEF SearchInv, IncInv, Hashed, ImportsAt
      <4>3. cache' \in Cache
        BY <4>1 DEF SearchInv, IncInv
      <4> QED BY <3>4, <4>2, <4>3, ImportsFollowed
    <3> HIDE DEF n
    <3>6. \A h, g : Ahead(h, g) => Ahead(h, g)' \/ g = f
      <4>1. DOMAIN frames \subseteq DOMAIN frames'
        BY <2>4, <3>3 DEF n
      <4> QED BY <3>3, <4>1 DEF Ahead
    <3>7. \A g \in Followed(cache', f) : Ahead(f, g)'
      <4>1. n + 1 \in DOMAIN frames'
        BY <2>4, <3>3 DEF n
      <4> QED BY <3>3, <4>1 DEF Ahead
    <3>8. ASSUME cycles' = <<>> /\ ~limit' PROVE SweepComplete'
      <4>1. SweepComplete
        BY <2>2, <3>1, <3>8
      <4>2. request.target \in visited' \/ Ahead(request.source, request.target)'
        <5>1. Ahead(request.source, request.target)
                => \/ request.target = f
                   \/ \E i \in DOMAIN frames' : /\ frames'[i].file = request.source
                                                 /\ request.target \in frames'[i].todo
          BY <2>4, <3>3 DEF Ahead, n
        <5> QED BY <2>1, <3>1, <4>1, <5>1 DEF SweepComplete, Ahead
      <4>3. ASSUME NEW h \in visited', NEW g \in cache'.imports[h]
            PROVE  g \in visited' \cup before.nonCyclic \/ Ahead(h, g)'
        <5>1. CASE h \in visited
          BY <2>3, <3>1, <3>6, <4>1, <4>3, <5>1 DEF SweepComplete
        <5>2. CASE h = f
          BY <3>5, <3>7, <4>3, <5>2
        <5> QED BY <3>1, <4>3, <5>1, <5>2
      <4> QED BY <2>1, <4>2, <4>3 DEF SweepComplete, Ahead
    <3>9. request.source \notin visited'
      BY <2>2, <3>1 DEF Closes
    <3>10. visited' \subseteq cache'.parsed
      BY <2>2, <2>3, <3>1, <3>4
    <3> QED BY <2>1, <2>2, <2>3, <3>1, <3>8, <3>9, <3>10 DEF Swept
  <2>10. ASSUME Leave PROVE Swept'
    <3>1. /\ UNCHANGED <<phase, visited, cycles, limit>> /\ cache' = cache
          /\ Len(frames) > 1 /\ (Top.todo = {} \/ Stopped)
      BY <2>10 DEF Leave, Done, incrementalVars
    <3>2. /\ DOMAIN frames' = 1..(Len(frames) - 1)
          /\ \A i \in DOMAIN frames' : frames'[i] = frames[i]
      BY <1>1, <2>1, <2>10, <3>1, LeaveFrames DEF Leave
    <3>3. ASSUME cycles' = <<>> /\ ~limit' PROVE SweepComplete'
      <4>1. SweepComplete /\ frames[Len(frames)].todo = {}
        BY <1>1, <2>1, <2>2, <3>1, <3>3, TopType DEF Stopped
      <4>2. ASSUME NEW h, NEW g, Ahead(h, g) PROVE Ahead(h, g)'
        <5>1. PICK i \in DOMAIN frames : frames[i].file = h /\ g \in frames[i].todo
          BY <4>2 DEF Ahead
        <5>2. i # Len(frames)
          BY <4>1, <5>1
        <5>3. i \in DOMAIN frames'
          BY <2>4, <3>2, <5>1, <5>2
        <5> QED BY <3>2, <5>1, <5>3 DEF Ahead
      <4>3. request.target \in visited \/ Ahead(request.source, request.target)'
        BY <2>1, <4>1, <4>2 DEF SweepComplete, Ahead
      <4>4. \A h \in visited : \A g \in cache.imports[h] :
               g \in visited \cup before.nonCyclic \/ Ahead(h, g)'
        BY <4>1, <4>2 DEF SweepComplete
      <4> QED BY <2>1, <3>1, <4>3, <4>4 DEF SweepComplete, Ahead
    <3> QED BY <2>5, <3>1, <3>3
  <2>11. ASSUME Return PROVE Swept'
    <3>1. /\ UNCHANGED <<visited, cycles, limit>> /\ phase' = "answered"
          /\ Len(frames) = 1 /\ (Top.todo = {} \/ Stopped) /\ frames' = <<>>
      BY <2>11 DEF Return, Done
    <3>2. limit' => request.target \notin cache'.nonCyclic
      BY <2>2, <2>11 DEF Return
    <3>3. ASSUME cycles' = <<>> /\ ~limit' PROVE SweepComplete'
      <4>1. SweepComplete /\ frames[Len(frames)].todo = {}
        BY <1>1, <2>1, <2>2, <3>1, <3>3, TopType DEF Stopped
      <4>2. \A h, g : ~Ahead(h, g)
        BY <2>4, <3>1, <4>1 DEF Ahead
      <4>3. request.target \in visited
        BY <4>1, <4>2 DEF SweepComplete
      <4>4. \A h \in visited : \A g \in cache.imports[h] : g \in visited \cup before.nonCyclic
        BY <4>1, <4>2 DEF SweepComplete
      <4> QED BY <2>1, <2>3, <3>1, <4>3, <4>4 DEF SweepComplete
    <3> QED BY <2>1, <2>2, <2>3, <3>1, <3>2, <3>3 DEF Swept
  <2> QED BY <1>5, <2>6, <2>7, <2>8, <2>9, <2>10, <2>11 DEF SearchStep
<1>6. CASE Between
  BY <1>2, <1>6 DEF Between
<1>7. ASSUME UNCHANGED <<search, cache>> PROVE Swept'
  BY <1>7 DEF search, Swept, SweepComplete, Ahead
<1>8. CASE World
  BY <1>2, <1>7, <1>8, EditDuring DEF World
<1>9. CASE UNCHANGED vars
  BY <1>7, <1>9 DEF vars, incrementalVars
<1> QED BY <1>3, <1>4, <1>5, <1>6, <1>8, <1>9 DEF Next, Call

(***************************************************************************)
(* detectCycleFromImport() has behind it, at every step, only imports that *)
(* it entered, was told to skip by nonCyclicFiles, or has still to come to,*)
(* unless it has found a cycle or has said that it was cut.                *)
(***************************************************************************)
THEOREM SweptInvariant == Spec => []Swept
<1>1. Init => Swept
  BY DEF Init, Swept
<1>2. SearchInv /\ Chain /\ Walks /\ Swept /\ [Next]_vars => Swept'
  BY SweptNext
<1> QED BY <1>1, <1>2, ChainInvariant, PTL DEF Spec

\* The remembered imports are a graph.
LEMMA RememberedType ==
    ASSUME cache \in Cache
    PROVE  Remembered \in [Files -> SUBSET Files] /\ Remembered \in Graphs
BY ViewType DEF Remembered, Graphs

(***************************************************************************)
(* If detectCycleFromImport() found nothing and was not cut, the files it  *)
(* entered, with those that do not lead to the importing file, are closed  *)
(* under imports: what nonCyclicFiles kept it from entering is on no cycle *)
(* and so leads nowhere near.                                              *)
(***************************************************************************)
THEOREM DetectsUnlessCut == Spec => []DetectMissesOnlyWhenCut
<1>1. ASSUME SearchInv, Swept PROVE DetectMissesOnlyWhenCut
  <2> DEFINE G == Remembered
             s == request.source
             t == request.target
  <2> SUFFICES ASSUME phase = "answered", request.kind = "detect",
                      s # t, t \in G[s], OffCycles(before.nonCyclic), Reaches(G, t, s),
                      cycles = <<>>, ~(limit /\ t \notin cache.nonCyclic)
               PROVE  FALSE
    BY DEF DetectMissesOnlyWhenCut
  <2>1. /\ s \in Files /\ t \in Files /\ frames = <<>>
        /\ visited \subseteq cache.parsed /\ visited \in SUBSET Files
        /\ s \notin visited /\ ~limit
        /\ t \notin before.nonCyclic => SweepComplete
    <3>1. SearchTypes
      BY <1>1 DEF SearchInv
    <3>2. request \in Detections \cup Finds /\ frames = <<>> /\ visited \in SUBSET Files
      BY <3>1 DEF SearchTypes
    <3> QED BY <1>1, <3>2, RequestType DEF Swept
  <2>2. /\ G \in [Files -> SUBSET Files]
        /\ \A f \in cache.parsed : f \in Files => G[f] = cache.imports[f]
        /\ \A f \in before.nonCyclic : ~OnCycle(G, f)
    BY <1>1, RememberedType DEF SearchInv, IncInv, OffCycles, Remembered, View
  <2> HIDE DEF G, s, t
  <2>3. Reaches(G, s, t)
    BY <2>1, <2>2, ReachesSelf, ReachesImport
  <2>4. ASSUME NEW f \in Files, Reaches(G, t, f), Reaches(G, f, s)
        PROVE  OnCycle(G, f)
    <3>1. Reaches(G, s, f) /\ Reaches(G, f, t)
      BY <2>1, <2>2, <2>3, <2>4, ReachesTransitive
    <3>2. s \in Component(G, f) /\ t \in Component(G, f)
      BY <2>1, <2>2, <2>4, <3>1, ComponentMember
    <3> QED BY <3>2 DEF OnCycle
  <2>5. SweepComplete
    BY <2>1, <2>2, <2>4, ReachesSelf
  <2>6. t \in visited /\ \A f \in visited : \A g \in G[f] : g \in visited \cup before.nonCyclic
    <3>1. \A f, g : ~Ahead(f, g)
      BY <2>1 DEF Ahead
    <3> QED BY <2>1, <2>2, <2>5, <3>1 DEF SweepComplete, t
  <2> DEFINE U == (visited \cap Reachable(G, t)) \cup {f \in Files : ~Reaches(G, f, s)}
  <2>7. U \in SUBSET Files /\ t \in U /\ s \notin U
    BY <2>1, <2>2, <2>6, ReachesSelf, ReachableClosed
  <2>8. ASSUME NEW f \in U, NEW g \in G[f], Reaches(G, g, s) PROVE g \in U
    <3>1. f \in Files /\ g \in Files
      BY <2>2, <2>7, <2>8
    <3>2. Reaches(G, f, s)
      <4>1. Reaches(G, f, g)
        BY <2>2, <2>8, <3>1, ReachesSelf, ReachesImport
      <4> QED BY <2>1, <2>2, <2>8, <3>1, <4>1, ReachesTransitive
    <3>3. f \in visited /\ Reaches(G, t, f)
      BY <3>2 DEF Reachable
    <3>4. Reaches(G, t, g)
      BY <2>1, <2>2, <2>8, <3>1, <3>3, ReachesImport
    <3>5. OnCycle(G, g)
      BY <2>4, <2>8, <3>1, <3>4
    <3>6. g \in visited
      BY <2>2, <2>6, <2>8, <3>3, <3>5
    <3>7. g \in Reachable(G, t)
      BY <2>2, <3>1, <3>4 DEF Reachable
    <3> QED BY <3>6, <3>7
  <2>9. Closed(G, U)
    BY <2>2, <2>7, <2>8 DEF Closed
  <2> HIDE DEF U
  <2> QED BY <2>2, <2>7, <2>9, ReachesWithin
<1> QED BY <1>1, SearchInvariant, SweptInvariant, PTL

-----------------------------------------------------------------------------
(* findAllCircularDependencies() finds a cycle whenever there is one.      *)

\* G is what the search may believe the imports to be: those it has read,
\* with a nonCyclicFiles and an index that were right when it began.
Fits(G) ==
    /\ Suits(G, cache)
    /\ \A f \in before.nonCyclic : ~OnCycle(G, f)
    /\ \A f \in Files : before.index[f] # 0 => HashedGraph(before.hashes)[f] = G[f]

(***************************************************************************)
(* As long as no cycle is found, a file that was entered and left is on no *)
(* cycle, and neither is an import that the loop of a suspended call has   *)
(* behind it, but for the one the next call is about.                      *)
(***************************************************************************)
LeftOffCycles(G) ==
    /\ \A f \in visited : OnCycle(G, f) => \E i \in DOMAIN frames : frames[i].file = f
    /\ \A i \in DOMAIN frames : \A g \in G[frames[i].file] :
          OnCycle(G, g) => \/ g \in frames[i].todo
                           \/ \E j \in DOMAIN frames : j = i + 1 /\ g = frames[j].file

Explored(G) ==
    /\ \A f \in cache.nonCyclic : ~OnCycle(G, f)
    /\ phase = "answered" => (cycles # <<>> <=> OnCycle(G, request.target))
    /\ phase = "searching" =>
          /\ OnCycle(G, request.target)
          /\ frames[1].file = request.target
          /\ cycles = <<>> => LeftOffCycles(G)

FindSweep ==
    phase # "idle" /\ request.kind # "detect" =>
        /\ ~limit
        /\ \A G \in Graphs : Fits(G) => Explored(G)

\* The root call: what it answers at once, or goes on to search, is right.
LEMMA FindStarts ==
    ASSUME SearchInv, NEW q \in Finds, FindAllCircularDependencies(q)
    PROVE  FindSweep'
<1> DEFINE t == q.target
<1>1. /\ Ask(q) /\ t \in Files /\ q.kind # "detect"
      /\ Versions /\ cache \in Cache /\ Hashed(cache) /\ Kept(cache)
  BY DEF FindAllCircularDependencies, Finds, SearchInv, IncInv, Versions
<1>2. request' = q /\ before' = cache /\ ~limit' /\ cycles' = <<>> /\ program' = program
  BY <1>1, AskFields
<1> SUFFICES ASSUME NEW G \in Graphs, Fits(G)' PROVE Explored(G)'
  BY <1>2 DEF FindSweep
<1>3. /\ Suits(G, cache') /\ G \in [Files -> SUBSET Files]
      /\ \A f \in cache.nonCyclic : ~OnCycle(G, f)
      /\ \A f \in Files : cache.index[f] # 0 => HashedGraph(cache.hashes)[f] = G[f]
  BY <1>2 DEF Fits, Suits, HashedGraph, ImportsAt
<1>4. CASE t \in cache.nonCyclic
  <2>1. phase' = "answered" /\ cache' = cache
    BY <1>4 DEF FindAllCircularDependencies, AnswerAtOnce
  <2> QED BY <1>2, <1>3, <1>4, <2>1 DEF Explored
<1>5. CASE t \notin cache.nonCyclic
  <2>1. PICK c \in ComputeSCCs(t, cache, disk) :
           IF ~InCycle(c, t)
           THEN /\ AnswerAtOnce
                /\ cache' = [c EXCEPT !.nonCyclic = @ \cup {t}]
           ELSE /\ phase' = "searching"
                /\ cache' = Reading(t, c)
                /\ frames' = <<[file |-> t, todo |-> Followed(cache', t)]>>
                /\ visited' = {t}
    BY <1>5 DEF FindAllCircularDependencies
  <2>2. c \in Cache /\ Hashed(c) /\ Kept(c)
    BY <1>1, ComputeKept
  <2>3. ASSUME Suits(G, c)
        PROVE  /\ \A g \in c.nonCyclic : ~OnCycle(G, g)
               /\ InCycle(c, t) <=> OnCycle(G, t)
    BY <1>1, <1>3, <2>3, ComputeSound
  <2>4. CASE ~InCycle(c, t)
    <3>1. phase' = "answered" /\ cache' = [c EXCEPT !.nonCyclic = @ \cup {t}]
      BY <2>1, <2>4 DEF AnswerAtOnce
    <3>2. cache'.parsed = c.parsed /\ cache'.imports = c.imports
          /\ cache'.nonCyclic = c.nonCyclic \cup {t}
      BY <2>2, <3>1 DEF Cache
    <3>3. Suits(G, c)
      BY <1>3, <3>2 DEF Suits
    <3> QED BY <1>2, <2>3, <2>4, <3>1, <3>2, <3>3 DEF Explored
  <2>5. CASE InCycle(c, t)
    <3>1. /\ phase' = "searching" /\ cache' = ParseAll({t}, c, disk) /\ visited' = {t}
          /\ frames' = <<[file |-> t, todo |-> Followed(cache', t)]>>
      BY <2>1, <2>5 DEF Reading
    <3>2. {t} \in SUBSET Files
      BY <1>1
    <3>3. /\ cache' \in Cache /\ Hashed(cache')
          /\ c.parsed \subseteq cache'.parsed /\ {t} \subseteq cache'.parsed \cup Missing
          /\ \A f \in c.parsed : cache'.imports[f] = c.imports[f]
          /\ cache'.nonCyclic \subseteq c.nonCyclic
      BY <1>1, <2>2, <3>1, <3>2, ParseKept
    <3>4. Suits(G, c)
      BY <1>3, <3>3 DEF Suits
    <3>5. G[t] \subseteq Followed(cache', t)
      <4>1. CASE t \in cache'.parsed
        BY <1>3, <3>3, <4>1, ImportsFollowed DEF Suits
      <4>2. CASE t \in Missing
        BY <1>3, <4>2 DEF Suits
      <4> QED BY <3>3, <4>1, <4>2
    <3>6. /\ DOMAIN frames' = {1}
          /\ frames'[1].file = t /\ frames'[1].todo = Followed(cache', t)
      BY <1>1, <3>1, FirstFrame, FollowedType
    <3>7. LeftOffCycles(G)'
      BY <3>1, <3>5, <3>6 DEF LeftOffCycles
    <3> QED BY <1>2, <2>3, <2>5, <3>1, <3>3, <3>4, <3>6, <3>7 DEF Explored
  <2> QED BY <2>4, <2>5
<1> QED BY <1>4, <1>5

\* A step inside the search.
LEMMA FindGoesOn ==
    ASSUME SearchInv, SearchInv', Chain, FindSweep, SearchStep
    PROVE  FindSweep'
<1>1. SearchTypes
  BY DEF SearchInv
<1>2. /\ phase = "searching" /\ phase' \in {"searching", "answered"}
      /\ request' = request /\ before' = before /\ program' = program
  BY <1>1, AtType
  DEF SearchStep, Close, Cut, Pass, Enter, Leave, Return, Done, incrementalVars, files
<1> SUFFICES ASSUME request.kind # "detect" PROVE FindSweep'
  BY <1>2 DEF FindSweep
<1>3. ~limit /\ \A G \in Graphs : Fits(G) => Explored(G)
  BY <1>2 DEF FindSweep
<1>4. ~limit'
  BY <1>2, <1>3 DEF SearchStep, Close, Cut, AtLimit, Pass, Enter, Leave, Return
<1> SUFFICES ASSUME NEW G \in Graphs, Fits(G)' PROVE Explored(G)'
  BY <1>4 DEF FindSweep
<1>5. /\ cache.parsed \subseteq cache'.parsed
      /\ \A f \in cache.parsed : cache'.imports[f] = cache.imports[f]
      /\ phase' = "searching" => cache'.nonCyclic \subseteq cache.nonCyclic
  BY StepCache
<1>6. G \in [Files -> SUBSET Files] /\ Suits(G, cache') /\ Fits(G)
  <2>1. Suits(G, cache')
    BY DEF Fits, Suits
  <2>2. Suits(G, cache)
    BY <1>5, <2>1 DEF Suits
  <2>3. /\ \A f \in before.nonCyclic : ~OnCycle(G, f)
        /\ \A f \in Files : before.index[f] # 0 => HashedGraph(before.hashes)[f] = G[f]
    BY <1>2 DEF Fits, HashedGraph, ImportsAt
  <2> QED BY <2>1, <2>2, <2>3 DEF Fits, Suits
<1>7. /\ \A f \in cache.nonCyclic : ~OnCycle(G, f)
      /\ OnCycle(G, request.target)
      /\ frames[1].file = request.target
      /\ cycles = <<>> => LeftOffCycles(G)
  BY <1>2, <1>3, <1>6 DEF Explored
<1>8. Len(frames) \in Nat \ {0} /\ DOMAIN frames = 1..Len(frames)
  BY <1>1, <1>2, TopType
<1>9. ASSUME phase' = "searching", frames'[1].file = frames[1].file,
             cycles' = <<>> => LeftOffCycles(G)'
      PROVE  Explored(G)'
  BY <1>2, <1>5, <1>7, <1>9 DEF Explored
<1>10. ASSUME NEW f \in Files, Close(f) PROVE Explored(G)'
  <2> DEFINE w == Append(Path, f)
  <2>1. /\ cycles' = Append(cycles, w) /\ cycles \in Seq(Seq(Files))
        /\ phase' = phase /\ frames' = Past(f)
    BY <1>1, <1>10 DEF Close, SearchTypes
  <2> HIDE DEF w
  <2>2. cycles' # <<>>
    BY <2>1
  <2>3. frames'[1].file = frames[1].file
    BY <1>1, <1>2, <1>8, <2>1, PastFrames
  <2> QED BY <1>2, <1>9, <2>1, <2>2, <2>3
<1>11. ASSUME NEW f \in Files, Pass(f) PROVE Explored(G)'
  <2>1. /\ UNCHANGED <<phase, visited, cycles>> /\ frames' = Past(f) /\ ~Closes(f)
        /\ f \in visited \cup cache.nonCyclic
    BY <1>11 DEF Pass
  <2>2. /\ DOMAIN frames' = DOMAIN frames
        /\ \A i \in DOMAIN frames : /\ frames'[i].file = frames[i].file
                                    /\ frames[i].todo \subseteq frames'[i].todo \cup {f}
    <3>1. DOMAIN frames' = 1..Len(frames)
      BY <1>1, <1>2, <2>1, PastFrames
    <3>2. \A i \in DOMAIN frames :
             /\ frames'[i].file = frames[i].file
             /\ i < Len(frames) => frames'[i].todo = frames[i].todo
             /\ i = Len(frames) => frames'[i].todo = frames[i].todo \ {f}
      BY <1>1, <1>2, <2>1, PastFrames
    <3>3. \A i \in DOMAIN frames : i < Len(frames) \/ i = Len(frames)
      BY <1>8
    <3> QED BY <1>8, <3>1, <3>2, <3>3
  <2>3. ASSUME cycles' = <<>> PROVE LeftOffCycles(G)'
    <3>1. LeftOffCycles(G)
      BY <1>7, <2>1, <2>3
    <3>2. ~OnCycle(G, f)
      <4>1. CASE f \in cache.nonCyclic
        BY <1>7, <4>1
      <4>2. CASE f \notin cache.nonCyclic
        BY <2>1, <3>1, <4>2 DEF LeftOffCycles, Closes
      <4> QED BY <4>1, <4>2
    <3>3. \A h \in visited : OnCycle(G, h) => \E i \in DOMAIN frames' : frames'[i].file = h
      BY <2>2, <3>1 DEF LeftOffCycles
    <3>4. \A i \in DOMAIN frames' : \A g \in G[frames'[i].file] :
             OnCycle(G, g) => \/ g \in frames'[i].todo
                              \/ \E j \in DOMAIN frames' : j = i + 1 /\ g = frames'[j].file
      BY <2>2, <3>1, <3>2 DEF LeftOffCycles
    <3> QED BY <2>1, <3>3, <3>4 DEF LeftOffCycles
  <2> QED BY <1>2, <1>8, <1>9, <2>1, <2>2, <2>3
<1>12. ASSUME NEW f \in Files, Enter(f) PROVE Explored(G)'
  <2> DEFINE n == Len(frames)
  <2>1. /\ UNCHANGED <<phase, cycles>> /\ visited' = visited \cup {f} /\ At(f)
        /\ frames' = Append(Past(f), [file |-> f, todo |-> Followed(cache', f)])
        /\ f \notin cache.nonCyclic
    BY <1>12 DEF Enter
  <2>2. Followed(cache', f) \in SUBSET Files
    BY FollowedType
  <2> HIDE DEF n
  <2>3. /\ DOMAIN frames' = 1..(n + 1)
        /\ \A i \in DOMAIN frames : /\ frames'[i].file = frames[i].file
                                    /\ i < n => frames'[i].todo = frames[i].todo
                                    /\ i = n => frames'[i].todo = frames[i].todo \ {f}
        /\ frames'[n + 1].file = f /\ frames'[n + 1].todo = Followed(cache', f)
    BY <1>1, <2>1, <2>2, EnterFrames DEF n
  <2>4. G[f] \subseteq Followed(cache', f)
    <3>1. f \notin Missing
      BY <1>2, <2>1, AtExists
    <3>2. f \in cache'.parsed
      BY <1>12, <3>1, StepCache
    <3>3. Hashed(cache') /\ cache' \in Cache
      BY <1>2 DEF SearchInv, IncInv, Hashed, ImportsAt
    <3> QED BY <1>6, <3>2, <3>3, ImportsFollowed DEF Suits
  <2>5. n \in Nat \ {0} /\ DOMAIN frames = 1..n
    BY <1>8 DEF n
  <2>6. ASSUME cycles' = <<>> PROVE LeftOffCycles(G)'
    <3>1. LeftOffCycles(G)
      BY <1>7, <2>1, <2>6
    <3>2. ASSUME NEW h \in visited', OnCycle(G, h)
          PROVE  \E i \in DOMAIN frames' : frames'[i].file = h
      <4>1. CASE h = f
        BY <2>3, <2>5, <4>1
      <4>2. CASE h \in visited
        <5>1. PICK i \in DOMAIN frames : frames[i].file = h
          BY <3>1, <3>2, <4>2 DEF LeftOffCycles
        <5>2. i \in DOMAIN frames' /\ frames'[i].file = h
          BY <2>3, <2>5, <5>1
        <5> QED BY <5>2
      <4> QED BY <2>1, <3>2, <4>1, <4>2
    <3>3. ASSUME NEW i \in DOMAIN frames', NEW g \in G[frames'[i].file], OnCycle(G, g)
          PROVE  \/ g \in frames'[i].todo
                 \/ \E j \in DOMAIN frames' : j = i + 1 /\ g = frames'[j].file
      <4>1. CASE i = n + 1
        BY <2>3, <2>4, <3>3, <4>1
      <4>2. CASE i \in 1..n
        <5>1. g \in G[frames[i].file]
          BY <2>3, <2>5, <3>3, <4>2
        <5>2. \/ g \in frames[i].todo
              \/ \E j \in DOMAIN frames : j = i + 1 /\ g = frames[j].file
          BY <2>5, <3>1, <3>3, <4>2, <5>1 DEF LeftOffCycles
        <5>3. CASE \E j \in DOMAIN frames : j = i + 1 /\ g = frames[j].file
          <6>1. i + 1 \in DOMAIN frames /\ g = frames[i + 1].file
            BY <5>3
          <6>2. i + 1 \in DOMAIN frames' /\ g = frames'[i + 1].file
            BY <2>3, <2>5, <6>1
          <6> QED BY <6>2
        <5>4. CASE g \in frames[i].todo /\ i < n
          BY <2>3, <2>5, <4>2, <5>4
        <5>5. CASE g \in frames[i].todo /\ i = n
          <6>1. g \in frames'[i].todo \/ g = f
            BY <2>3, <2>5, <4>2, <5>5
          <6>2. n + 1 \in DOMAIN frames' /\ frames'[n + 1].file = f
            BY <2>3, <2>5
          <6> QED BY <5>5, <6>1, <6>2
        <5> QED BY <2>5, <4>2, <5>2, <5>3, <5>4, <5>5
      <4> QED BY <2>3, <2>5, <4>1, <4>2
    <3> QED BY <3>2, <3>3 DEF LeftOffCycles
  <2>7. frames'[1].file = frames[1].file
    BY <2>3, <2>5
  <2> QED BY <1>2, <1>9, <2>1, <2>6, <2>7
<1>13. ASSUME Leave PROVE Explored(G)'
  <2> DEFINE n == Len(frames)
  <2>1. /\ UNCHANGED <<phase, visited, cycles>>
        /\ n > 1 /\ (Top.todo = {} \/ Stopped)
    BY <1>13 DEF Leave, Done
  <2>2. /\ DOMAIN frames' = 1..(n - 1)
        /\ \A i \in DOMAIN frames' : frames'[i] = frames[i]
    BY <1>1, <1>2, <1>13, <2>1, LeaveFrames DEF Leave
  <2>3. n \in Nat \ {0} /\ DOMAIN frames = 1..n /\ Top = frames[n]
    BY <1>1, <1>2, TopType
  <2> HIDE DEF n
  <2>4. ASSUME cycles' = <<>> PROVE LeftOffCycles(G)'
    <3>1. LeftOffCycles(G) /\ frames[n].todo = {}
      BY <1>7, <2>1, <2>3, <2>4 DEF Stopped
    <3>2. ~OnCycle(G, frames[n].file)
      <4>1. frames[n].file \in Files
        BY <1>1, <1>2, <2>3, TopType DEF Frame
      <4>2. \A g \in G[frames[n].file] : ~OnCycle(G, g)
        BY <2>3, <3>1 DEF LeftOffCycles
      <4> QED BY <1>6, <4>1, <4>2, CycleGoesOn
    <3>3. ASSUME NEW h \in visited, OnCycle(G, h)
          PROVE  \E i \in DOMAIN frames' : frames'[i].file = h
      <4>1. PICK i \in DOMAIN frames : frames[i].file = h
        BY <3>1, <3>3 DEF LeftOffCycles
      <4>2. i # n
        BY <3>2, <3>3, <4>1
      <4>3. i \in DOMAIN frames' /\ frames'[i].file = h
        BY <2>2, <2>3, <4>1, <4>2
      <4> QED BY <4>3
    <3>4. ASSUME NEW i \in DOMAIN frames', NEW g \in G[frames'[i].file], OnCycle(G, g)
          PROVE  \/ g \in frames'[i].todo
                 \/ \E j \in DOMAIN frames' : j = i + 1 /\ g = frames'[j].file
      <4>1. i \in DOMAIN frames /\ frames'[i] = frames[i]
        BY <2>2, <2>3, <3>4
      <4>2. \/ g \in frames[i].todo
            \/ \E j \in DOMAIN frames : j = i + 1 /\ g = frames[j].file
        BY <3>1, <3>4, <4>1 DEF LeftOffCycles
      <4>3. CASE \E j \in DOMAIN frames : j = i + 1 /\ g = frames[j].file
        <5>1. i + 1 \in DOMAIN frames /\ g = frames[i + 1].file
          BY <4>3
        <5>2. i + 1 # n
          BY <3>2, <3>4, <5>1
        <5>3. i + 1 \in DOMAIN frames' /\ g = frames'[i + 1].file
          BY <2>2, <2>3, <5>1, <5>2
        <5> QED BY <5>3
      <4> QED BY <4>1, <4>2, <4>3
    <3> QED BY <2>1, <3>3, <3>4 DEF LeftOffCycles
  <2>5. frames'[1].file = frames[1].file
    BY <2>1, <2>2, <2>3
  <2> QED BY <1>2, <1>9, <2>1, <2>4, <2>5
<1>14. ASSUME Return PROVE Explored(G)'
  <2>1. cycles # <<>>
    <3> SUFFICES ASSUME cycles = <<>> PROVE FALSE
      OBVIOUS
    <3>1. LeftOffCycles(G) /\ Len(frames) = 1 /\ frames[1].todo = {}
      BY <1>1, <1>2, <1>7, <1>14, TopType DEF Return, Done, Stopped
    <3>2. \A g \in G[frames[1].file] : ~OnCycle(G, g)
      BY <1>8, <3>1 DEF LeftOffCycles
    <3>3. request.target \in Files
      BY <1>1, <1>2, RequestType DEF SearchTypes
    <3> QED BY <1>6, <1>7, <3>2, <3>3, CycleGoesOn
  <2>2. phase' = "answered" /\ cycles' = cycles /\ cache' = cache
    BY <1>14, <2>1 DEF Return
  <2> QED BY <1>2, <1>7, <2>1, <2>2 DEF Explored
<1> QED
  BY <1>10, <1>11, <1>12, <1>13, <1>14 DEF SearchStep, Cut, AtLimit

LEMMA FindSweepNext ==
    SearchInv /\ SearchInv' /\ Chain /\ FindSweep /\ [Next]_vars => FindSweep'
<1> SUFFICES ASSUME SearchInv, SearchInv', Chain, FindSweep, [Next]_vars PROVE FindSweep'
  OBVIOUS
<1>1. ASSUME Forget PROVE FindSweep'
  BY <1>1 DEF Forget, FindSweep
<1>2. ASSUME NEW q \in Detections, DetectCycleFromImport(q) PROVE FindSweep'
  <2>1. Ask(q) /\ q.kind = "detect"
    BY <1>2 DEF DetectCycleFromImport, Detections
  <2> QED BY <2>1, AskFields DEF FindSweep
<1>3. ASSUME UNCHANGED <<search, cache, program>> PROVE FindSweep'
  <2>1. UNCHANGED <<phase, request, frames, visited, cycles, limit, before>>
    BY <1>3 DEF search
  <2>2. ASSUME NEW G \in Graphs, Fits(G)' PROVE Fits(G)
    BY <1>3, <2>1, <2>2 DEF Fits, Suits, HashedGraph, ImportsAt
  <2>3. ASSUME NEW G \in Graphs, Explored(G) PROVE Explored(G)'
    BY <1>3, <2>1, <2>3 DEF Explored, LeftOffCycles
  <2> QED BY <2>1, <2>2, <2>3 DEF FindSweep
<1>4. CASE SearchStep
  BY <1>4, FindGoesOn
<1>5. CASE Between
  BY <1>1, <1>5 DEF Between
<1>6. CASE World
  BY <1>1, <1>3, <1>6, EditDuring DEF World
<1>7. CASE UNCHANGED vars
  BY <1>3, <1>7 DEF vars, incrementalVars, files
<1> QED BY <1>2, <1>4, <1>5, <1>6, <1>7, FindStarts DEF Next, Call

(***************************************************************************)
(* As long as findAllCircularDependencies() has found nothing, no file it  *)
(* has left is on a cycle, in any graph that agrees with what it has read. *)
(***************************************************************************)
THEOREM FindSweepInvariant == Spec => []FindSweep
<1>1. Init => FindSweep
  BY DEF Init, FindSweep
<1>2. SearchInv /\ SearchInv' /\ Chain /\ Walks /\ FindSweep /\ [Next]_vars => FindSweep'
  BY FindSweepNext
<1> QED BY <1>1, <1>2, SearchInvariant, ChainInvariant, PTL DEF Spec

(***************************************************************************)
(* findAllCircularDependencies() finds a cycle exactly for a file that is  *)
(* on one, and what it remembers as non-cyclic is: the shared visited set  *)
(* loses nothing, because what it skips was left without a cycle.          *)
(***************************************************************************)
THEOREM FindsExactly == Spec => []FindExact
<1>1. ASSUME SearchInv, FindSweep PROVE FindExact
  <2> DEFINE G == Remembered
  <2> SUFFICES ASSUME phase = "answered", request.kind = "find",
                      OffCycles(before.nonCyclic),
                      \A f \in Files : before.index[f] # 0 =>
                          HashedGraph(before.hashes)[f] = G[f]
               PROVE  /\ cycles # <<>> <=> ~OffCycles({request.target})
                      /\ OffCycles(cache.nonCyclic)
    BY DEF FindExact
  <2>1. cache \in Cache /\ Hashed(cache)
    BY <1>1 DEF SearchInv, IncInv
  <2>2. G \in [Files -> SUBSET Files] /\ G \in Graphs
    BY <2>1, RememberedType
  <2>3. \A f \in Files : G[f] = IF f \in cache.parsed THEN cache.imports[f] ELSE ReadImports(disk, f)
    BY DEF Remembered, View
  <2>4. Suits(G, cache)
    <3>1. \A f \in cache.parsed : f \in Files
      BY <2>1 DEF Cache
    <3>2. \A f \in Missing : f \in Files /\ f \notin cache.parsed
      BY <2>1, MissingAssumption DEF Hashed
    <3> QED BY <2>2, <2>3, <3>1, <3>2 DEF Suits, ReadImports
  <2>5. \A f \in before.nonCyclic : ~OnCycle(G, f)
    BY DEF OffCycles
  <2> HIDE DEF G
  <2>6. Fits(G)
    BY <2>4, <2>5 DEF Fits, G
  <2>7. Explored(G)
    BY <1>1, <2>2, <2>6 DEF FindSweep
  <2>8. cycles # <<>> <=> OnCycle(G, request.target)
    BY <2>7 DEF Explored
  <2>9. \A f \in cache.nonCyclic : ~OnCycle(G, f)
    BY <2>7 DEF Explored
  <2> QED BY <2>2, <2>8, <2>9 DEF OffCycles, G
<1> QED BY <1>1, SearchInvariant, FindSweepInvariant, PTL
=============================================================================
