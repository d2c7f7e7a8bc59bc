------------------------------- MODULE Tarjan -------------------------------
(***************************************************************************)
(* The graph pass of computeSCCsFromFile() in eslint-devkit's              *)
(* dependency-analysis.ts: the discovery of the files reachable from the   *)
(* start file, then tarjanStrongConnect() from every discovered file that  *)
(* has no index yet.  tarjanStrongConnect() is Tarjan's algorithm with an  *)
(* explicit stack of suspended frames; one action below is one turn of one *)
(* of its loops.                                                           *)
(*                                                                         *)
(* The file system and the caches are left to module DependencyCache: here *)
(* a file's imports are a given list, the one getFileImports() returns     *)
(* without the dynamic and type-only entries.                              *)
(***************************************************************************)
EXTENDS ImportGraph, Integers, Sequences, FiniteSets

CONSTANTS Files,        \* the files of the workspace
          MaxDepths,    \* the values of options.maxDepth considered; Infinity is
                        \* any value >= |Files| - 1
          StartFiles,   \* the files the computation may start from
          ImportLists   \* the import graphs considered: Files -> list of files

ASSUME FilesAssumption == IsFiniteSet(Files)

ASSUME MaxDepthsAssumption == MaxDepths \subseteq Int

ASSUME StartFilesAssumption == StartFiles \subseteq Files

ASSUME ImportListsAssumption == ImportLists \subseteq [Files -> Seq(Files)]

VARIABLES maxDepth,     \* options.maxDepth
          imports,      \* the import list of every file
          start,        \* startFile
          toProcess,    \* filesToProcess, used as a stack
          visited,      \* the insertion-ordered Set of discovered files
          cursor,       \* position in the imports of the file visited last
          root,         \* position in visited of the "for ... of visited" loop
          index,        \* state.index
          indices,      \* state.indices; Unset where the map has no entry
          lowlinks,     \* state.lowlinks; Unset where the map has no entry
          stack,        \* state.stack
          onStack,      \* state.onStack
          frames,       \* the suspended invocations, innermost last
          sccs          \* state.sccs, each component as a set

discovery == <<toProcess, visited, cursor>>
numbering == <<index, indices, stack, onStack>>
input == <<maxDepth, imports, start>>
vars == <<input, discovery, root, numbering, lowlinks, frames, sccs>>

Unset == -1

ToFiles(seq) == {seq[i] : i \in DOMAIN seq}
Smaller(a, b) == IF a < b THEN a ELSE b

\* The import graph as a relation, for the properties.
graph == [f \in Files |-> ToFiles(imports[f])]

Init ==
    /\ maxDepth \in MaxDepths
    /\ imports \in ImportLists
    /\ start \in StartFiles
    /\ toProcess = <<start>>
    /\ visited = <<>> /\ cursor = 1
    /\ root = 1
    /\ index = 0
    /\ indices = [f \in Files |-> Unset]
    /\ lowlinks = [f \in Files |-> Unset]
    /\ stack = <<>>
    /\ onStack = {}
    /\ frames = <<>>
    /\ sccs = <<>>

-----------------------------------------------------------------------------
(* Discovery: a depth-first walk with an explicit stack.                   *)

Scanned == imports[visited[Len(visited)]]
Scanning == visited # <<>> /\ cursor <= Len(Scanned)

NextFile == toProcess[Len(toProcess)]
RestToProcess == SubSeq(toProcess, 1, Len(toProcess) - 1)

\* The file was pushed twice before its first visit.
SkipVisited ==
    /\ toProcess # <<>> /\ ~Scanning
    /\ NextFile \in ToFiles(visited)
    /\ toProcess' = RestToProcess
    /\ UNCHANGED <<input, visited, cursor, root, numbering, lowlinks, frames, sccs>>

Visit ==
    /\ toProcess # <<>> /\ ~Scanning
    /\ NextFile \notin ToFiles(visited)
    /\ visited' = Append(visited, NextFile)
    /\ cursor' = 1
    /\ toProcess' = RestToProcess
    /\ UNCHANGED <<input, root, numbering, lowlinks, frames, sccs>>

\* One import of the file visited last.
Scan ==
    /\ Scanning
    /\ toProcess' = IF Scanned[cursor] \in ToFiles(visited)
                    THEN toProcess
                    ELSE Append(toProcess, Scanned[cursor])
    /\ cursor' = cursor + 1
    /\ UNCHANGED <<input, visited, root, numbering, lowlinks, frames, sccs>>

-----------------------------------------------------------------------------
(* tarjanStrongConnect()                                                   *)

Indexed(f) == indices[f] # Unset

\* Mutant of Enter: the cursor of a new frame starts one too low.
EnterBeforeFirst(f, depth, below) ==
    /\ indices' = [indices EXCEPT ![f] = index]
    /\ lowlinks' = [lowlinks EXCEPT ![f] = index]
    /\ index' = index + 1
    /\ stack' = Append(stack, f)
    /\ onStack' = onStack \cup {f}
    /\ frames' = Append(below, [file |-> f, depth |-> depth, next |-> 0])

\* enter(): number the file, put it on the stack and suspend what is below.
Enter(f, depth, below) ==
    /\ indices' = [indices EXCEPT ![f] = index]
    /\ lowlinks' = [lowlinks EXCEPT ![f] = index]
    /\ index' = index + 1
    /\ stack' = Append(stack, f)
    /\ onStack' = onStack \cup {f}
    /\ frames' = Append(below, [file |-> f, depth |-> depth, next |-> 1])

\* relax(): lower f's lowlink to the candidate.
Relaxed(f, candidate) == [lowlinks EXCEPT ![f] = Smaller(@, candidate)]

AtRoot ==
    /\ toProcess = <<>> /\ ~Scanning
    /\ frames = <<>>
    /\ root <= Len(visited)

StartRoot ==
    /\ AtRoot
    /\ ~Indexed(visited[root])
    /\ 0 <= maxDepth
    /\ root' = root + 1
    /\ Enter(visited[root], 0, <<>>)
    /\ UNCHANGED <<input, discovery, sccs>>

SkipRoot ==
    /\ AtRoot
    /\ Indexed(visited[root]) \/ 0 > maxDepth
    /\ root' = root + 1
    /\ UNCHANGED <<input, discovery, numbering, lowlinks, frames, sccs>>

Top == frames[Len(frames)]
HasSuccessor == frames # <<>> /\ Top.next <= Len(imports[Top.file])
Successor == imports[Top.file][Top.next]
Advanced == [frames EXCEPT ![Len(frames)].next = @ + 1]

\* The successor has no index: suspend this frame and enter it.
Descend ==
    /\ HasSuccessor
    /\ ~Indexed(Successor)
    /\ Top.depth + 1 <= maxDepth
    /\ Enter(Successor, Top.depth + 1, Advanced)
    /\ UNCHANGED <<input, discovery, root, sccs>>

\* Mutant of Truncate: the file that is too deep is numbered as if entered.
TruncateNumbered ==
    /\ HasSuccessor
    /\ ~Indexed(Successor)
    /\ Top.depth + 1 > maxDepth
    /\ indices' = [indices EXCEPT ![Successor] = index]
    /\ lowlinks' = Relaxed(Top.file, 0)
    /\ frames' = Advanced
    /\ UNCHANGED <<input, discovery, root, index, stack, onStack, sccs>>

\* Mutant of Truncate: the loop continues before the cursor is advanced.
TruncateForever ==
    /\ HasSuccessor
    /\ ~Indexed(Successor)
    /\ Top.depth + 1 > maxDepth
    /\ lowlinks' = Relaxed(Top.file, 0)
    /\ UNCHANGED <<input, discovery, root, numbering, frames, sccs>>

\* The successor has no index and is too deep: the lowlink drops to 0.
Truncate ==
    /\ HasSuccessor
    /\ ~Indexed(Successor)
    /\ Top.depth + 1 > maxDepth
    /\ lowlinks' = Relaxed(Top.file, 0)
    /\ frames' = Advanced
    /\ UNCHANGED <<input, discovery, root, numbering, sccs>>

\* Mutant of RelaxToStack: onStack is not asked.
RelaxToIndexed ==
    /\ HasSuccessor
    /\ Indexed(Successor)
    /\ lowlinks' = Relaxed(Top.file, indices[Successor])
    /\ frames' = Advanced
    /\ UNCHANGED <<input, discovery, root, numbering, sccs>>

\* The successor is in the component under construction.
RelaxToStack ==
    /\ HasSuccessor
    /\ Indexed(Successor)
    /\ Successor \in onStack
    /\ lowlinks' = Relaxed(Top.file, indices[Successor])
    /\ frames' = Advanced
    /\ UNCHANGED <<input, discovery, root, numbering, sccs>>

\* The successor belongs to a component that is already out.
PassSuccessor ==
    /\ HasSuccessor
    /\ Indexed(Successor)
    /\ Successor \notin onStack
    /\ frames' = Advanced
    /\ UNCHANGED <<input, discovery, root, numbering, lowlinks, sccs>>

Position(f) == CHOOSE i \in DOMAIN stack : stack[i] = f

\* The do-while loop: everything above f on the stack, f included.
PopComponent(f) ==
    /\ sccs' = Append(sccs, {stack[i] : i \in Position(f)..Len(stack)})
    /\ stack' = SubSeq(stack, 1, Position(f) - 1)
    /\ onStack' = onStack \ {stack[i] : i \in Position(f)..Len(stack)}

\* Mutant of LeaveFrame: the parent's lowlink is not lowered.
LeaveUnfolded ==
    /\ frames' = SubSeq(frames, 1, Len(frames) - 1)
    /\ UNCHANGED <<input, discovery, root, index, indices, lowlinks>>

\* Mutant of LeaveFrame: the parent takes the child's index.
LeaveFoldingIndex ==
    /\ frames' = SubSeq(frames, 1, Len(frames) - 1)
    /\ lowlinks' = IF Len(frames) = 1
                   THEN lowlinks
                   ELSE Relaxed(frames[Len(frames) - 1].file, indices[Top.file])
    /\ UNCHANGED <<input, discovery, root, index, indices>>

\* Pop the frame and fold its lowlink into its parent's.
LeaveFrame ==
    /\ frames' = SubSeq(frames, 1, Len(frames) - 1)
    /\ lowlinks' = IF Len(frames) = 1
                   THEN lowlinks
                   ELSE Relaxed(frames[Len(frames) - 1].file, lowlinks[Top.file])
    /\ UNCHANGED <<input, discovery, root, index, indices>>

FinishRoot ==
    /\ frames # <<>> /\ ~HasSuccessor
    /\ lowlinks[Top.file] = indices[Top.file]
    /\ PopComponent(Top.file)
    /\ LeaveFrame

FinishInner ==
    /\ frames # <<>> /\ ~HasSuccessor
    /\ lowlinks[Top.file] # indices[Top.file]
    /\ UNCHANGED <<stack, onStack, sccs>>
    /\ LeaveFrame

-----------------------------------------------------------------------------

Next ==
    \/ SkipVisited \/ Visit \/ Scan
    \/ StartRoot \/ SkipRoot
    \/ Descend \/ Truncate \/ RelaxToStack \/ PassSuccessor
    \/ FinishRoot \/ FinishInner

\* One synchronous loop after another: nothing else runs in the thread.
Spec == Init /\ [][Next]_vars /\ WF_vars(Next)

Done == toProcess = <<>> /\ ~Scanning /\ frames = <<>> /\ root > Len(visited)

-----------------------------------------------------------------------------
(* Properties                                                              *)

\* Deep enough for the longest chain of frames.
Untruncated == maxDepth >= Cardinality(Files) - 1

Emitted == UNION {sccs[i] : i \in DOMAIN sccs}

TypeOK ==
    /\ maxDepth \in MaxDepths
    /\ imports \in [Files -> Seq(Files)]
    /\ start \in Files
    /\ toProcess \in Seq(Files)
    /\ visited \in Seq(Files) /\ cursor \in Nat \ {0}
    /\ root \in Nat \ {0}
    /\ index \in Nat
    /\ indices \in [Files -> Nat \cup {Unset}]
    /\ lowlinks \in [Files -> Nat \cup {Unset}]
    /\ stack \in Seq(Files)
    /\ onStack \in SUBSET Files
    /\ frames \in Seq([file : Files, depth : Nat, next : Nat \ {0}])
    /\ sccs \in Seq(SUBSET Files)

(***************************************************************************)
(* The Set state.onStack and the array state.stack always hold the same    *)
(* files, in the order of their indices; a file that was numbered is       *)
(* either on the stack or in exactly one component, and a suspended frame  *)
(* always belongs to a file on the stack.  Otherwise the do-while loop     *)
(* would pop past its root, or a file would land in two components.  Holds *)
(* at every maxDepth.                                                      *)
(***************************************************************************)
StackPartition ==
    /\ onStack = ToFiles(stack)
    /\ \A i, j \in DOMAIN stack : i < j => indices[stack[i]] < indices[stack[j]]
    /\ \A f \in Files : Indexed(f) <=> f \in onStack \cup Emitted
    /\ onStack \cap Emitted = {}
    /\ \A i, j \in DOMAIN sccs : i # j => sccs[i] \cap sccs[j] = {}
    /\ \A i \in DOMAIN frames : frames[i].file \in onStack

(***************************************************************************)
(* A lowlink is always a witness: it is the index of a file that is still  *)
(* on the stack, not above the owner, and that the owner reaches.  It is   *)
(* what makes "lowlink = index" mean that the stack above the file is a    *)
(* whole component.  Only without truncation: a truncated edge writes 0.   *)
(***************************************************************************)
LowlinkWitness ==
    Untruncated => \A f \in onStack :
        \E g \in onStack :
            /\ indices[g] = lowlinks[f]
            /\ indices[g] <= indices[f]
            /\ Reaches(graph, f, g)

(***************************************************************************)
(* What the caller relies on when it merges the result into the cache:     *)
(* when the computation ends, the components are those of the files        *)
(* reachable from the start file, each once, imported ones first.          *)
(***************************************************************************)
ExactDecomposition ==
    Untruncated /\ Done => sccs \in EmissionOrders(graph, Reachable(graph, start))

(***************************************************************************)
(* Every step that emits a component emits a whole one, after everything   *)
(* it imports, and every component comes out in the end: without           *)
(* truncation the algorithm implements module SCCDecomposition.            *)
(***************************************************************************)
Decomposition == INSTANCE SCCDecomposition WITH emitted <- sccs

ImplementsDecomposition ==
    /\ Untruncated => Decomposition!Init
    /\ [][Untruncated => Decomposition!Next]_(Decomposition!vars)

(***************************************************************************)
(* The explicit stack is unwound and the computation ends, on every graph  *)
(* and at every maxDepth: a file is numbered at most once and an edge is   *)
(* looked at at most once.                                                 *)
(***************************************************************************)
Terminates == <>Done

(***************************************************************************)
(* dependency-analysis.coverage.test.ts:210 says of a truncated run:       *)
(* "Every discovered file is indexed even under truncation".               *)
(***************************************************************************)
EveryDiscoveredFileIndexed ==
    Done => ToFiles(visited) \subseteq Emitted
=============================================================================
