----------------------------- MODULE CycleSearch -----------------------------
(***************************************************************************)
(* The path searches of dependency-analysis.ts, detectCycleFromImport()    *)
(* and findAllCircularDependencies(), called in any order on the cache of  *)
(* module Incremental, with getMinimalCycle() on what they find.           *)
(*                                                                         *)
(* Both are depth-first searches, here one step per file that the loop of  *)
(* a call comes to, with the suspended calls as a stack of frames.  They   *)
(* read imports through getFileImports(), which may invalidate the cache   *)
(* while the search is under way.  The process is one thread, but the      *)
(* files may be edited between two reads, and the process may be killed.   *)
(* The order of the imports inside a file is not kept: a loop takes them   *)
(* in any order.                                                           *)
(***************************************************************************)
EXTENDS Incremental

CONSTANTS NoRequest,   \* no search has been asked for
          MaxDepths,   \* the values of options.maxDepth considered
          Searches     \* bound on the number of searches in one behaviour

Detections == [kind : {"detect"}, source : Files, target : Files,
               maxDepth : MaxDepths, all : BOOLEAN]
Finds == [kind : {"find"}, target : Files, all : BOOLEAN]

ASSUME NoRequestAssumption == NoRequest \notin Detections \cup Finds

ASSUME MaxDepthsAssumption == MaxDepths \subseteq Nat \ {0}

VARIABLES
    phase,     \* "idle", "searching" or "answered"
    request,   \* what the search was asked, or NoRequest
    frames,    \* its suspended calls: [file, todo], the innermost last
    visited,   \* the files it has entered
    cycles,    \* the cycles it has found, each a list of files
    limit,     \* depthLimitHit
    before,    \* history: the cache it was started on
    searches   \* the number of searches so far

search == <<phase, request, frames, visited, cycles, limit, before>>
vars == <<incrementalVars, search, searches>>

\* The files the loop over the imports of a text comes to: type-only entries
\* are followed, dynamic ones are not.
FollowedIn(text) ==
    {g \in Files \ Missing : /\ Matches(text, g) # <<>>
                             /\ Head(Matches(text, g)).kind # "dynamic"}

Followed(c, f) ==
    IF f \in c.parsed THEN FollowedIn(program[f][c.hashes[f]]) ELSE {}

\* Mutant of Reading: a file read during the search invalidates nothing.
ReadingQuietly(f, c) ==
    [ParseAll({f}, c, disk) EXCEPT !.index = c.index, !.sccs = c.sccs, !.computed = c.computed]

Reading(f, c) == ParseAll({f}, c, disk)

-----------------------------------------------------------------------------
(* The call and the return                                                 *)

\* The local state of a search does not outlive it.
Forget ==
    /\ phase' = "idle" /\ request' = NoRequest
    /\ frames' = <<>> /\ visited' = {} /\ cycles' = <<>> /\ limit' = FALSE
    /\ before' = EmptyCache

\* A new search: it is counted, and has found nothing.
Ask(q) ==
    /\ phase # "searching"
    /\ searches < Searches
    /\ searches' = searches + 1
    /\ request' = q
    /\ cycles' = <<>> /\ limit' = FALSE
    /\ before' = cache
    /\ UNCHANGED <<files, saved>>

AnswerAtOnce == phase' = "answered" /\ frames' = <<>> /\ visited' = {}

\* The handler of an import calls detectCycleFromImport() for the file and
\* what it imports.  The path starts with the file, which is not visited.
DetectCycleFromImport(q) ==
    /\ Ask(q)
    /\ q.source \notin Missing /\ q.target \notin Missing
    /\ Matches(disk[q.source].text, q.target) # <<>>
    /\ UNCHANGED cache
    /\ IF q.target \in cache.nonCyclic
       THEN AnswerAtOnce
       ELSE /\ phase' = "searching"
            /\ frames' = <<[file |-> q.source, todo |-> {q.target}]>>
            /\ visited' = {}

\* The root call of findAllCircularDependencies(): the components first, and
\* the search only for a file that is on a cycle.
FindAllCircularDependencies(q) ==
    /\ Ask(q)
    /\ IF q.target \in cache.nonCyclic
       THEN AnswerAtOnce /\ UNCHANGED cache
       ELSE \E c \in ComputeSCCs(q.target, cache, disk) :
                IF ~InCycle(c, q.target)
                THEN /\ AnswerAtOnce
                     /\ cache' = [c EXCEPT !.nonCyclic = @ \cup {q.target}]
                ELSE /\ phase' = "searching"
                     /\ cache' = Reading(q.target, c)
                     /\ frames' = <<[file |-> q.target, todo |-> Followed(cache', q.target)]>>
                     /\ visited' = {q.target}

-----------------------------------------------------------------------------
(* The search, with a maxDepth that does not truncate                      *)
(* findAllCircularDependencies()                                           *)

Top == frames[Len(frames)]
Path == [i \in DOMAIN frames |-> frames[i].file]

\* reportAllCycles is off and there is one: the loops break.
Stopped == ~request.all /\ cycles # <<>>

\* The innermost loop comes to f, and goes on behind it.
At(f) == phase = "searching" /\ ~Stopped /\ f \in Top.todo
Past(f) == [frames EXCEPT ![Len(frames)].todo = @ \ {f}]

\* Mutant of Closes: visited is asked before the current path.
ClosesUnvisited(f) ==
    IF request.kind = "detect"
    THEN f = request.source
    ELSE f \notin cache.nonCyclic \cup visited /\ \E i \in DOMAIN frames : f = frames[i].file

\* Both searches ask for the end of a cycle before they ask visited;
\* findAllCircularDependencies() asks nonCyclicFiles first of all.
Closes(f) ==
    IF request.kind = "detect"
    THEN f = request.source
    ELSE f \notin cache.nonCyclic /\ \E i \in DOMAIN frames : f = frames[i].file

AtLimit == request.kind = "detect" /\ Len(frames) >= request.maxDepth

Close(f) ==
    /\ At(f) /\ Closes(f)
    /\ cycles' = Append(cycles, Append(Path, f))
    /\ frames' = Past(f)
    /\ UNCHANGED <<incrementalVars, phase, request, visited, limit, before, searches>>

\* Mutant of Cut: a search that is cut does not say so.
CutSilently(f) ==
    /\ At(f) /\ ~Closes(f) /\ AtLimit
    /\ frames' = Past(f)
    /\ UNCHANGED <<incrementalVars, phase, request, visited, cycles, limit, before, searches>>

\* The limit is asked before visited and nonCyclicFiles.
Cut(f) ==
    /\ At(f) /\ ~Closes(f) /\ AtLimit
    /\ limit' = TRUE
    /\ frames' = Past(f)
    /\ UNCHANGED <<incrementalVars, phase, request, visited, cycles, before, searches>>

Pass(f) ==
    /\ At(f) /\ ~Closes(f) /\ ~AtLimit
    /\ f \in visited \cup cache.nonCyclic
    /\ frames' = Past(f)
    /\ UNCHANGED <<incrementalVars, phase, request, visited, cycles, limit, before, searches>>

Enter(f) ==
    /\ At(f) /\ ~Closes(f) /\ ~AtLimit
    /\ f \notin visited \cup cache.nonCyclic
    /\ visited' = visited \cup {f}
    /\ cache' = Reading(f, cache)
    /\ frames' = Append(Past(f), [file |-> f, todo |-> Followed(cache', f)])
    /\ UNCHANGED <<files, saved, phase, request, cycles, limit, before, searches>>

\* The loop of the innermost call is at its end, or breaks.
Done == phase = "searching" /\ (Top.todo = {} \/ Stopped)

Leave ==
    /\ Done /\ Len(frames) > 1
    /\ frames' = SubSeq(frames, 1, Len(frames) - 1)
    /\ UNCHANGED <<incrementalVars, phase, request, visited, cycles, limit, before, searches>>

\* The outermost call returns.  The target is remembered as non-cyclic when
\* the search was not cut and found nothing.
Return ==
    /\ Done /\ Len(frames) = 1
    /\ phase' = "answered"
    /\ frames' = <<>>
    /\ cache' = IF cycles = <<>> /\ ~limit
                THEN [cache EXCEPT !.nonCyclic = @ \cup {request.target}]
                ELSE cache
    /\ UNCHANGED <<files, saved, request, visited, cycles, limit, before, searches>>

SearchStep ==
    \/ \E f \in Files : Close(f) \/ Cut(f) \/ Pass(f) \/ Enter(f)
    \/ Leave
    \/ Return

-----------------------------------------------------------------------------
(* The callers and the world                                               *)

Call ==
    \/ \E q \in Detections : DetectCycleFromImport(q)
    \/ \E q \in Finds : FindAllCircularDependencies(q)

\* What the process does between two searches.
Between ==
    /\ phase # "searching"
    /\ Forget
    /\ \/ /\ searches < Searches
          /\ searches' = searches + 1
          /\ \E f \in Files : Compute(f)
       \/ /\ UNCHANGED searches
          /\ \/ SaveCacheToDisk \/ SaveInterrupted \/ LoadCacheFromDisk
             \/ GetFilesNeedingReanalysis

\* What may happen at any time.
World ==
    /\ UNCHANGED searches
    /\ \/ \E f \in Files : Edit(f) /\ IF phase = "searching" THEN UNCHANGED search ELSE Forget
       \/ Restart /\ Forget

Init ==
    /\ IncrementalInit
    /\ phase = "idle" /\ request = NoRequest
    /\ frames = <<>> /\ visited = {} /\ cycles = <<>> /\ limit = FALSE
    /\ before = EmptyCache
    /\ searches = 0

Next == Call \/ SearchStep \/ Between \/ World

Spec == Init /\ [][Next]_vars

-----------------------------------------------------------------------------
(* Properties                                                              *)

Repeats(cycle, i) == \E j \in 1..(i - 1) : cycle[j] = cycle[i]

\* Mutant of MinimalCycle: the end of the loop is left out.
MinimalWithoutEnd(cycle) ==
    IF \E i \in DOMAIN cycle : Repeats(cycle, i)
    THEN LET end == CHOOSE i \in DOMAIN cycle :
                       Repeats(cycle, i) /\ \A j \in 1..(i - 1) : ~Repeats(cycle, j)
             start == CHOOSE j \in 1..(end - 1) : cycle[j] = cycle[end]
         IN  SubSeq(cycle, start, end - 1)
    ELSE cycle

\* getMinimalCycle(): up to the first repetition of a file, from where that
\* file was first.
MinimalCycle(cycle) ==
    IF \E i \in DOMAIN cycle : Repeats(cycle, i)
    THEN LET end == CHOOSE i \in DOMAIN cycle :
                       Repeats(cycle, i) /\ \A j \in 1..(i - 1) : ~Repeats(cycle, j)
             start == CHOOSE j \in 1..(end - 1) : cycle[j] = cycle[end]
         IN  SubSeq(cycle, start, end)
    ELSE cycle

\* What a search that starts now would follow from f.
Edges(f) == Followed(ParseAll({f}, cache, disk), f)

(***************************************************************************)
(* Whatever a search reports, cut down by getMinimalCycle(), is one closed *)
(* chain of imports that passes every file once: no false cycle comes from *)
(* a shared visited set, an early exit or an invalidation under way.       *)
(* detectCycleFromImport() takes its first import from its caller.         *)
(***************************************************************************)
CyclesAreReal ==
    \A k \in DOMAIN cycles :
        LET m == MinimalCycle(cycles[k])
        IN  /\ Len(m) > 1 /\ m[1] = m[Len(m)]
            /\ \A i, j \in 1..(Len(m) - 1) : m[i] = m[j] => i = j
            /\ \A i \in 1..(Len(m) - 1) :
                  m[i + 1] \in Edges(m[i]) \/ (request.kind = "detect" /\ i = 1)

Remembered == View(cache, disk)

\* No file of a set is on a cycle of run-time imports.
OffCycles(S) ==
    LET G == Remembered IN G \in Graphs /\ \A f \in S : ~OnCycle(G, f)

(***************************************************************************)
(* detectCycleFromImport() on a sound cache misses a run-time path back to *)
(* the importing file only when the depth limit cut the search, and then   *)
(* it does not remember the target as non-cyclic.  The visited set,        *)
(* nonCyclicFiles and the limit all prune the search, in an order that     *)
(* matters, and a read may empty the second of them.                       *)
(***************************************************************************)
DetectMissesOnlyWhenCut ==
    phase = "answered" /\ request.kind = "detect" =>
        LET G == Remembered
        IN  (/\ request.source # request.target
             /\ request.target \in G[request.source]
             /\ OffCycles(before.nonCyclic)
             /\ Reaches(G, request.target, request.source))
            => cycles # <<>> \/ (limit /\ request.target \notin cache.nonCyclic)

(***************************************************************************)
(* findAllCircularDependencies() on a sound cache whose index speaks of    *)
(* what it remembers finds a cycle exactly when the file is on one, and    *)
(* leaves the cache sound, whatever is edited meanwhile.                   *)
(***************************************************************************)
FindExact ==
    (/\ phase = "answered" /\ request.kind = "find"
     /\ OffCycles(before.nonCyclic)
     /\ \A f \in Files : before.index[f] # 0 =>
           HashedGraph(before.hashes)[f] = Remembered[f])
    => /\ cycles # <<>> <=> ~OffCycles({request.target})
       /\ OffCycles(cache.nonCyclic)

(***************************************************************************)
(* To the index and the cache file every search is one that reads some     *)
(* files and adds to nonCyclicFiles: this module implements Incremental,   *)
(* whatever its theorems say of the index holds here.                      *)
(***************************************************************************)
ImplementsIncremental == IncrementalSpec

(***************************************************************************)
(* dependency-analysis.ts:302 says of nonCyclicFiles: "Once a file is      *)
(* confirmed to not be in a cycle, we can skip SCC check for it", and      *)
(* :1147 of a member: "target is known to not be in any cycle".            *)
(***************************************************************************)
OnlyNonCyclicSkipped == OffCycles(cache.nonCyclic)
=============================================================================
