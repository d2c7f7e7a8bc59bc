---------------------------- MODULE TarjanProofs ----------------------------
(***************************************************************************)
(* Proofs about Tarjan, for any finite set of files, any import lists and  *)
(* any depth limits: types, the agreement of stack, Set and components,    *)
(* and, where the limit does not truncate, that the components are exactly *)
(* the strongly connected ones, in dependency order.                       *)
(***************************************************************************)
EXTENDS Tarjan, ImportGraphProofs

FrameType == [file : Files, depth : Nat, next : Nat \ {0}]

FileAt(i) == frames[i].file

\* Numbers grow up the stack and up the frames, and index is above them all.
Ascending ==
    /\ \A f \in Files : indices[f] < index
    /\ \A i, j \in DOMAIN frames : i < j => indices[FileAt(i)] < indices[FileAt(j)]

StackInv == TypeOK /\ StackPartition /\ Ascending

-----------------------------------------------------------------------------
(* Sequences.                                                              *)

LEMMA Prefix ==
    ASSUME NEW S, NEW seq \in Seq(S), NEW n \in 0..Len(seq)
    PROVE  /\ SubSeq(seq, 1, n) \in Seq(S) /\ Len(SubSeq(seq, 1, n)) = n
           /\ \A i \in 1..n : SubSeq(seq, 1, n)[i] = seq[i]
OBVIOUS

LEMMA Appended ==
    ASSUME NEW S, NEW seq \in Seq(S), NEW e \in S
    PROVE  /\ Append(seq, e) \in Seq(S) /\ Len(Append(seq, e)) = Len(seq) + 1
           /\ \A i \in 1..Len(seq) : Append(seq, e)[i] = seq[i]
           /\ Append(seq, e)[Len(seq) + 1] = e
OBVIOUS

LEMMA GraphType == ASSUME TypeOK PROVE graph \in [Files -> SUBSET Files]
BY DEF TypeOK, graph, ToFiles

-----------------------------------------------------------------------------
(* The top frame.                                                          *)

LEMMA TopType ==
    ASSUME TypeOK, frames # <<>>
    PROVE  /\ Len(frames) \in Nat \ {0} /\ DOMAIN frames = 1..Len(frames)
           /\ Top = frames[Len(frames)] /\ Top.file = FileAt(Len(frames))
           /\ Top \in FrameType /\ Top.file \in Files
<1>1. frames \in Seq(FrameType)
  BY DEF TypeOK, FrameType
<1>2. /\ Len(frames) \in Nat \ {0} /\ DOMAIN frames = 1..Len(frames)
      /\ frames[Len(frames)] \in FrameType
  <2> HIDE DEF FrameType
  <2> QED BY <1>1
<1>3. \A frame \in FrameType : frame.file \in Files
  BY DEF FrameType
<1> QED BY <1>2, <1>3 DEF Top, FileAt

LEMMA SuccessorType ==
    ASSUME TypeOK, HasSuccessor
    PROVE  /\ Successor \in Files /\ Successor \in graph[Top.file]
           /\ Successor = imports[Top.file][Top.next] /\ Top.next \in DOMAIN imports[Top.file]
<1>1. Top \in FrameType
  BY TopType DEF HasSuccessor
<1>2. Top.next \in DOMAIN imports[Top.file] /\ imports[Top.file] \in Seq(Files)
  BY <1>1 DEF HasSuccessor, FrameType, TypeOK
<1> QED BY <1>1, <1>2 DEF Successor, graph, ToFiles, FrameType

\* The cursor of the top frame moves on, and nothing else of the frames.
LEMMA AdvancedType ==
    ASSUME TypeOK, frames # <<>>
    PROVE  /\ Advanced \in Seq(FrameType) /\ Len(Advanced) = Len(frames)
           /\ \A i \in 1..Len(frames) : /\ Advanced[i].file = frames[i].file
                                        /\ Advanced[i].depth = frames[i].depth
           /\ \A i \in 1..Len(frames) - 1 : Advanced[i] = frames[i]
           /\ Advanced[Len(frames)].next = Top.next + 1
<1> DEFINE n == Len(frames)
           moved == [Top EXCEPT !.next = @ + 1]
<1>1. n \in 1..n /\ Top = frames[n] /\ Top \in FrameType /\ frames \in Seq(FrameType)
  BY TopType DEF TypeOK, FrameType
<1>2. moved \in FrameType /\ moved.file = Top.file /\ moved.depth = Top.depth
      /\ moved.next = Top.next + 1
  BY <1>1 DEF FrameType
<1>3. Advanced = [frames EXCEPT ![n] = moved]
  BY <1>1 DEF Advanced
<1> HIDE DEF moved
<1>4. Advanced \in Seq(FrameType) /\ Len(Advanced) = n /\ Advanced[n] = moved
      /\ \A i \in 1..n - 1 : Advanced[i] = frames[i]
  BY <1>1, <1>2, <1>3
<1>5. ASSUME NEW i \in 1..n
      PROVE  Advanced[i].file = frames[i].file /\ Advanced[i].depth = frames[i].depth
  <2>1. CASE i = n
    BY <1>1, <1>2, <1>4, <2>1
  <2>2. CASE i \in 1..n - 1
    BY <1>4, <2>2
  <2> QED BY <1>1, <2>1, <2>2
<1> QED BY <1>2, <1>4, <1>5

LEMMA RelaxedType ==
    ASSUME TypeOK, NEW f \in Files, NEW low \in Nat \cup {Unset}
    PROVE  /\ Relaxed(f, low) \in [Files -> Nat \cup {Unset}]
           /\ \A g \in Files : g # f => Relaxed(f, low)[g] = lowlinks[g]
           /\ Relaxed(f, low)[f] = Smaller(lowlinks[f], low)
           /\ Smaller(lowlinks[f], low) \in {lowlinks[f], low}
           /\ Smaller(lowlinks[f], low) <= lowlinks[f] /\ Smaller(lowlinks[f], low) <= low
BY DEF TypeOK, Relaxed, Smaller, Unset

-----------------------------------------------------------------------------
(* What Enter, PopComponent and LeaveFrame do.                             *)

LEMMA EnterEffect ==
    ASSUME StackInv, NEW f \in Files, ~Indexed(f), NEW depth \in Nat,
           NEW below \in Seq(FrameType), Enter(f, depth, below)
    PROVE  /\ index' = index + 1 /\ index' \in Nat
           /\ indices' \in [Files -> Nat \cup {Unset}]
           /\ lowlinks' \in [Files -> Nat \cup {Unset}]
           /\ indices'[f] = index /\ lowlinks'[f] = index
           /\ \A g \in Files : g # f => indices'[g] = indices[g] /\ lowlinks'[g] = lowlinks[g]
           /\ stack' \in Seq(Files) /\ Len(stack') = Len(stack) + 1
           /\ stack'[Len(stack) + 1] = f
           /\ \A i \in 1..Len(stack) : stack'[i] = stack[i]
           /\ onStack' = onStack \cup {f} /\ ToFiles(stack') = ToFiles(stack) \cup {f}
           /\ f \notin onStack \cup Emitted
           /\ frames' \in Seq(FrameType) /\ Len(frames') = Len(below) + 1
           /\ frames'[Len(below) + 1] = [file |-> f, depth |-> depth, next |-> 1]
           /\ \A i \in 1..Len(below) : frames'[i] = below[i]
<1>1. /\ index' = index + 1 /\ index' \in Nat
      /\ indices' \in [Files -> Nat \cup {Unset}]
      /\ lowlinks' \in [Files -> Nat \cup {Unset}]
      /\ indices'[f] = index /\ lowlinks'[f] = index
      /\ \A g \in Files : g # f => indices'[g] = indices[g] /\ lowlinks'[g] = lowlinks[g]
  BY DEF Enter, StackInv, TypeOK
<1>2. /\ stack' \in Seq(Files) /\ Len(stack') = Len(stack) + 1
      /\ stack'[Len(stack) + 1] = f
      /\ \A i \in 1..Len(stack) : stack'[i] = stack[i]
  BY Appended DEF Enter, StackInv, TypeOK
<1>3. ToFiles(stack') = ToFiles(stack) \cup {f}
  <2>1. DOMAIN stack = 1..Len(stack) /\ DOMAIN stack' = 1..Len(stack) + 1 /\ Len(stack) \in Nat
    BY <1>2 DEF StackInv, TypeOK
  <2>2. \A i \in DOMAIN stack' : i \in DOMAIN stack \/ i = Len(stack) + 1
    BY <2>1
  <2> QED BY <1>2, <2>1, <2>2 DEF ToFiles
<1>4. onStack' = onStack \cup {f}
  BY DEF Enter
<1>5. f \notin onStack \cup Emitted
  BY DEF StackInv, StackPartition
<1> DEFINE new == [file |-> f, depth |-> depth, next |-> 1]
<1>6. new \in FrameType
  BY DEF FrameType
<1>7. frames' = Append(below, new)
  BY DEF Enter
<1> HIDE DEF new
<1>8. /\ frames' \in Seq(FrameType) /\ Len(frames') = Len(below) + 1
      /\ frames'[Len(below) + 1] = new
      /\ \A i \in 1..Len(below) : frames'[i] = below[i]
  BY <1>6, <1>7, Appended
<1> QED BY <1>1, <1>2, <1>3, <1>4, <1>5, <1>8 DEF new

\* The files above f on the stack, f included.
Segment(f) == {g \in onStack : indices[f] <= indices[g]}

LEMMA PopEffect ==
    ASSUME StackInv, NEW f \in onStack, PopComponent(f)
    PROVE  /\ sccs' \in Seq(SUBSET Files) /\ Len(sccs') = Len(sccs) + 1
           /\ sccs'[Len(sccs) + 1] = Segment(f)
           /\ \A i \in 1..Len(sccs) : sccs'[i] = sccs[i]
           /\ Emitted' = Emitted \cup Segment(f)
           /\ onStack' = onStack \ Segment(f)
           /\ stack' \in Seq(Files) /\ ToFiles(stack') = onStack'
           /\ Len(stack') <= Len(stack) /\ \A i \in 1..Len(stack') : stack'[i] = stack[i]
<1> USE DEF StackInv
<1> DEFINE n == Len(stack)
           p == Position(f)
           above == {stack[i] : i \in p..n}
<1>1. DOMAIN stack = 1..n /\ n \in Nat /\ stack \in Seq(Files)
  BY DEF TypeOK
<1>2. p \in 1..n /\ stack[p] = f
  <2>1. \E i \in DOMAIN stack : stack[i] = f
    BY DEF StackPartition, ToFiles
  <2> QED BY <1>1, <2>1 DEF Position
<1>3. \A i \in 1..n : stack[i] \in Files /\ indices[stack[i]] \in Nat \cup {Unset}
  BY <1>1 DEF TypeOK
<1>4. \A i, j \in 1..n : i < j => indices[stack[i]] < indices[stack[j]]
  BY <1>1 DEF StackPartition
<1> HIDE DEF p
<1>5. ASSUME NEW i \in 1..n PROVE indices[f] <= indices[stack[i]] <=> i \in p..n
  <2>1. CASE i < p
    BY <1>1, <1>2, <1>3, <1>4, <2>1 DEF Unset
  <2>2. CASE i = p
    BY <1>1, <1>2, <1>3, <2>2 DEF Unset
  <2>3. CASE i > p
    BY <1>1, <1>2, <1>3, <1>4, <2>3 DEF Unset
  <2> QED BY <1>2, <2>1, <2>2, <2>3
<1>6. above = Segment(f)
  <2>1. ASSUME NEW g PROVE g \in onStack <=> \E i \in 1..n : stack[i] = g
    BY <1>1 DEF StackPartition, ToFiles
  <2> QED BY <1>2, <1>5, <2>1 DEF Segment
<1>7. /\ sccs' = Append(sccs, above) /\ stack' = SubSeq(stack, 1, p - 1)
      /\ onStack' = onStack \ above
  BY DEF PopComponent, p
<1>8. /\ sccs' \in Seq(SUBSET Files) /\ Len(sccs') = Len(sccs) + 1
      /\ sccs'[Len(sccs) + 1] = Segment(f)
      /\ \A i \in 1..Len(sccs) : sccs'[i] = sccs[i]
  <2>1. above \in SUBSET Files /\ sccs \in Seq(SUBSET Files)
    BY <1>6 DEF TypeOK, Segment
  <2> HIDE DEF above
  <2> QED BY <1>6, <1>7, <2>1, Appended
<1>9. Emitted' = Emitted \cup Segment(f)
  <2>1. Len(sccs) \in Nat /\ DOMAIN sccs = 1..Len(sccs) /\ DOMAIN sccs' = 1..Len(sccs) + 1
    BY <1>8 DEF TypeOK
  <2>2. \A i \in DOMAIN sccs' : i \in DOMAIN sccs \/ i = Len(sccs) + 1
    BY <2>1
  <2> QED BY <1>8, <2>1, <2>2 DEF Emitted
<1>10. onStack' = onStack \ Segment(f)
  BY <1>6, <1>7
<1>11. /\ stack' \in Seq(Files) /\ Len(stack') = p - 1
       /\ \A i \in 1..p - 1 : stack'[i] = stack[i]
  BY <1>1, <1>2, <1>7, Prefix
<1>12. ToFiles(stack') = onStack'
  <2>1. DOMAIN stack' = 1..p - 1
    BY <1>11
  <2>2. ASSUME NEW g PROVE g \in ToFiles(stack') <=> \E i \in 1..p - 1 : stack[i] = g
    BY <1>11, <2>1 DEF ToFiles
  <2>3. ASSUME NEW g PROVE g \in onStack <=> \E i \in 1..n : stack[i] = g
    BY <1>1 DEF StackPartition, ToFiles
  <2>4. \A i \in 1..n : i \in 1..p - 1 <=> i \notin p..n
    BY <1>2
  <2>5. 1..p - 1 \subseteq 1..n
    BY <1>1, <1>2
  <2> QED BY <1>5, <1>10, <2>2, <2>3, <2>4, <2>5 DEF Segment
<1> QED BY <1>1, <1>2, <1>8, <1>9, <1>10, <1>11, <1>12

LEMMA LeaveEffect ==
    ASSUME TypeOK, frames # <<>>, LeaveFrame
    PROVE  /\ frames' \in Seq(FrameType) /\ Len(frames') = Len(frames) - 1
           /\ \A i \in 1..Len(frames) - 1 : frames'[i] = frames[i]
           /\ lowlinks' \in [Files -> Nat \cup {Unset}]
           /\ Len(frames) = 1 => lowlinks' = lowlinks
           /\ Len(frames) > 1 =>
                 lowlinks' = Relaxed(FileAt(Len(frames) - 1), lowlinks[Top.file])
<1> DEFINE n == Len(frames)
<1>1. n \in Nat \ {0} /\ Top.file \in Files /\ frames \in Seq(FrameType)
  BY TopType DEF TypeOK, FrameType
<1>2. frames' = SubSeq(frames, 1, n - 1) /\ n - 1 \in 0..n
  BY <1>1 DEF LeaveFrame
<1>3. /\ frames' \in Seq(FrameType) /\ Len(frames') = n - 1
      /\ \A i \in 1..n - 1 : frames'[i] = frames[i]
  BY <1>1, <1>2, Prefix
<1>4. n = 1 => lowlinks' = lowlinks
  BY DEF LeaveFrame
<1>5. n > 1 => lowlinks' = Relaxed(FileAt(n - 1), lowlinks[Top.file])
  BY <1>1 DEF LeaveFrame, FileAt
<1>6. lowlinks' \in [Files -> Nat \cup {Unset}]
  <2>1. CASE n = 1
    BY <1>4, <2>1 DEF TypeOK
  <2>2. CASE n > 1
    <3>1. n - 1 \in 1..n
      BY <1>1, <2>2
    <3>2. FileAt(n - 1) \in Files
      <4>1. frames[n - 1] \in FrameType
        BY <1>1, <3>1
      <4>2. \A frame \in FrameType : frame.file \in Files
        BY DEF FrameType
      <4> QED BY <4>1, <4>2 DEF FileAt
    <3>3. lowlinks[Top.file] \in Nat \cup {Unset}
      BY <1>1 DEF TypeOK
    <3> QED BY <1>5, <2>2, <3>2, <3>3, RelaxedType
  <2>3. n = 1 \/ n > 1
    <3>1. n \in Nat \ {0}
      BY <1>1
    <3> HIDE DEF n
    <3> QED BY <3>1
  <2> QED BY <2>1, <2>2, <2>3
<1> QED BY <1>3, <1>4, <1>5, <1>6

-----------------------------------------------------------------------------
(* Stack, Set and components agree at every depth limit.                   *)

LEMMA InitStack == Init => StackInv
<1> SUFFICES ASSUME Init PROVE StackInv
  OBVIOUS
<1>1. start \in Files /\ imports \in [Files -> Seq(Files)]
  BY StartFilesAssumption, ImportListsAssumption DEF Init
<1>2. TypeOK
  BY <1>1 DEF Init, TypeOK, Unset
<1>3. StackPartition
  BY DEF Init, StackPartition, ToFiles, Indexed, Emitted
<1>4. Ascending
  BY DEF Init, Ascending, Unset
<1> QED BY <1>2, <1>3, <1>4 DEF StackInv

LEMMA DiscoveryStack ==
    ASSUME StackInv, SkipVisited \/ Visit \/ Scan
    PROVE  StackInv'
<1> USE DEF StackInv
<1>1. UNCHANGED <<input, root, numbering, lowlinks, frames, sccs>>
  BY DEF SkipVisited, Visit, Scan
<1>2. toProcess' \in Seq(Files) /\ visited' \in Seq(Files) /\ cursor' \in Nat \ {0}
  <2>1. toProcess # <<>> => /\ NextFile \in Files /\ RestToProcess \in Seq(Files)
    <3> SUFFICES ASSUME toProcess # <<>>
                 PROVE  NextFile \in Files /\ RestToProcess \in Seq(Files)
      OBVIOUS
    <3>1. toProcess \in Seq(Files) /\ Len(toProcess) - 1 \in 0..Len(toProcess)
      BY DEF TypeOK
    <3> QED BY <3>1, Prefix DEF NextFile, RestToProcess
  <2>2. CASE SkipVisited
    BY <2>1, <2>2 DEF SkipVisited, TypeOK
  <2>3. CASE Visit
    BY <2>1, <2>3, Appended DEF Visit, TypeOK
  <2>4. CASE Scan
    <3>1. visited \in Seq(Files) /\ visited # <<>>
      BY <2>4 DEF Scan, Scanning, TypeOK
    <3>2. visited[Len(visited)] \in Files
      BY <3>1
    <3>3. Scanned \in Seq(Files) /\ cursor \in 1..Len(Scanned)
      BY <2>4, <3>2 DEF Scan, Scanning, Scanned, TypeOK
    <3>4. Scanned[cursor] \in Files
      BY <3>3
    <3> QED BY <2>4, <3>4, Appended DEF Scan, TypeOK
  <2> QED BY <2>2, <2>3, <2>4
<1>3. TypeOK'
  BY <1>1, <1>2 DEF TypeOK, input, numbering
<1>4. StackPartition' /\ Ascending'
  BY <1>1 DEF StackPartition, Ascending, FileAt, Emitted, Indexed, ToFiles, numbering
<1> QED BY <1>3, <1>4

\* The steps along an edge that enter no file.
LEMMA EdgeStack ==
    ASSUME StackInv, Truncate \/ RelaxToStack \/ PassSuccessor
    PROVE  StackInv'
<1> USE DEF StackInv
<1>1. /\ frames # <<>> /\ frames' = Advanced
      /\ UNCHANGED <<input, discovery, root, numbering, sccs>>
  BY DEF Truncate, RelaxToStack, PassSuccessor, HasSuccessor
<1>2. lowlinks' \in [Files -> Nat \cup {Unset}]
  <2>1. Top.file \in Files /\ 0 \in Nat \cup {Unset}
    BY <1>1, TopType
  <2>2. HasSuccessor => indices[Successor] \in Nat \cup {Unset}
    BY SuccessorType DEF TypeOK
  <2>3. CASE Truncate
    BY <2>1, <2>3, RelaxedType DEF Truncate
  <2>4. CASE RelaxToStack
    BY <2>1, <2>2, <2>4, RelaxedType DEF RelaxToStack
  <2>5. CASE PassSuccessor
    BY <2>5 DEF PassSuccessor, TypeOK
  <2> QED BY <2>3, <2>4, <2>5
<1>3. /\ frames' \in Seq(FrameType) /\ DOMAIN frames' = DOMAIN frames
      /\ \A i \in DOMAIN frames : FileAt(i)' = FileAt(i)
  BY <1>1, TopType, AdvancedType DEF FileAt
<1>4. TypeOK'
  BY <1>1, <1>2, <1>3 DEF TypeOK, FrameType, input, discovery, numbering
<1>5. StackPartition'
  <2>1. \A i \in DOMAIN frames' : FileAt(i)' \in onStack
    BY <1>3 DEF StackPartition, FileAt
  <2> QED BY <1>1, <2>1 DEF StackPartition, FileAt, Emitted, Indexed, ToFiles, numbering
<1>6. Ascending'
  BY <1>1, <1>3 DEF Ascending, numbering
<1> QED BY <1>4, <1>5, <1>6

\* The file f is entered on top of frames that stay as they are, but for the
\* cursor of the one that was on top.
EnteredOver(f, depth, below) ==
    /\ ~Indexed(f) /\ Enter(f, depth, below)
    /\ Len(below) = Len(frames)
    /\ \A i \in 1..Len(frames) : below[i].file = FileAt(i) /\ below[i].depth = frames[i].depth
    /\ \A i \in 1..Len(frames) - 1 : below[i] = frames[i]
    /\ Len(frames) = 0 => depth = 0 /\ f \in ToFiles(visited)
    /\ Len(frames) > 0 => /\ depth = Top.depth + 1 /\ HasSuccessor /\ f = Successor
                          /\ below[Len(frames)].next = Top.next + 1

LEMMA Entered ==
    ASSUME StackInv, StartRoot \/ Descend
    PROVE  \E f \in Files, depth \in Nat, below \in Seq(FrameType) :
              EnteredOver(f, depth, below)
<1>1. CASE StartRoot
  <2>1. visited[root] \in Files /\ visited[root] \in ToFiles(visited)
    <3>1. visited \in Seq(Files) /\ root \in 1..Len(visited)
      BY <1>1 DEF StartRoot, AtRoot, StackInv, TypeOK
    <3> QED BY <3>1 DEF ToFiles
  <2>2. <<>> \in Seq(FrameType) /\ Len(<<>>) = Len(frames) /\ Len(<<>>) = 0
        /\ 1..Len(<<>>) = {} /\ 1..Len(<<>>) - 1 = {}
    BY <1>1 DEF StartRoot, AtRoot
  <2>3. ~Indexed(visited[root]) /\ Enter(visited[root], 0, <<>>)
    BY <1>1 DEF StartRoot
  <2>4. EnteredOver(visited[root], 0, <<>>)
    BY <2>1, <2>2, <2>3 DEF EnteredOver
  <2> QED BY <2>1, <2>2, <2>4
<1>2. CASE Descend
  <2>1. TypeOK /\ frames # <<>> /\ HasSuccessor
    BY <1>2 DEF Descend, HasSuccessor, StackInv
  <2>2. Successor \in Files /\ Top.depth + 1 \in Nat /\ Len(frames) > 0 /\ Len(frames) # 0
    BY <2>1, SuccessorType, TopType DEF FrameType
  <2>3. /\ Advanced \in Seq(FrameType) /\ Len(Advanced) = Len(frames)
        /\ \A i \in 1..Len(frames) : /\ Advanced[i].file = FileAt(i)
                                     /\ Advanced[i].depth = frames[i].depth
        /\ \A i \in 1..Len(frames) - 1 : Advanced[i] = frames[i]
        /\ Advanced[Len(frames)].next = Top.next + 1
    BY <2>1, AdvancedType DEF FileAt
  <2>4. ~Indexed(Successor) /\ Enter(Successor, Top.depth + 1, Advanced)
    BY <1>2 DEF Descend
  <2>5. EnteredOver(Successor, Top.depth + 1, Advanced)
    BY <2>1, <2>2, <2>3, <2>4 DEF EnteredOver
  <2> QED BY <2>2, <2>3, <2>5
<1> QED BY <1>1, <1>2

LEMMA EnterStack ==
    ASSUME StackInv, StartRoot \/ Descend
    PROVE  StackInv'
<1> USE DEF StackInv
<1>1. PICK f \in Files, depth \in Nat, below \in Seq(FrameType) :
         /\ ~Indexed(f) /\ Enter(f, depth, below)
         /\ Len(below) = Len(frames)
         /\ \A i \in 1..Len(below) : below[i].file = FileAt(i)
  BY Entered DEF EnteredOver
<1> DEFINE n == Len(frames)
<1>2. UNCHANGED <<input, discovery, sccs>> /\ root' \in Nat \ {0}
  BY DEF StartRoot, Descend, TypeOK
<1>3. /\ index' = index + 1 /\ index' \in Nat
      /\ indices' \in [Files -> Nat \cup {Unset}]
      /\ lowlinks' \in [Files -> Nat \cup {Unset}]
      /\ indices'[f] = index
      /\ \A g \in Files : g # f => indices'[g] = indices[g]
      /\ stack' \in Seq(Files) /\ Len(stack') = Len(stack) + 1
      /\ stack'[Len(stack) + 1] = f
      /\ \A i \in 1..Len(stack) : stack'[i] = stack[i]
      /\ onStack' = onStack \cup {f} /\ ToFiles(stack') = ToFiles(stack) \cup {f}
      /\ f \notin onStack \cup Emitted
  BY <1>1, EnterEffect
<1>4. /\ frames' \in Seq(FrameType) /\ Len(frames') = n + 1 /\ frames'[n + 1].file = f
      /\ \A i \in 1..n : FileAt(i)' = FileAt(i)
  <2>1. /\ frames' \in Seq(FrameType) /\ Len(frames') = n + 1
        /\ frames'[n + 1] = [file |-> f, depth |-> depth, next |-> 1]
        /\ \A i \in 1..n : frames'[i] = below[i]
    BY <1>1, EnterEffect
  <2>2. frames'[n + 1].file = f /\ \A i \in 1..n : frames'[i].file = frames[i].file
    BY <1>1, <2>1 DEF FileAt
  <2> QED BY <2>1, <2>2 DEF FileAt
<1>5. /\ n \in Nat /\ DOMAIN frames = 1..n /\ DOMAIN frames' = 1..n + 1
      /\ Len(stack) \in Nat /\ DOMAIN stack = 1..Len(stack) /\ DOMAIN stack' = 1..Len(stack) + 1
  BY <1>3, <1>4 DEF TypeOK
<1>6. TypeOK'
  BY <1>2, <1>3, <1>4 DEF TypeOK, FrameType, input, discovery
<1>7. Emitted' = Emitted
  BY <1>2 DEF Emitted
<1>8. \A g \in Files : g # f => (Indexed(g)' <=> Indexed(g))
  BY <1>3 DEF Indexed
<1>9. Indexed(f)'
  BY <1>3 DEF Indexed, Unset, TypeOK
<1>10. \A g \in Files : g # f => indices'[g] < index
  BY <1>3 DEF Ascending
<1>11. StackPartition'
  <2>1. onStack' = ToFiles(stack')
    BY <1>3 DEF StackPartition
  <2>2. ASSUME NEW i \in DOMAIN stack', NEW j \in DOMAIN stack', i < j
        PROVE  indices'[stack'[i]] < indices'[stack'[j]]
    <3>1. i \in 1..Len(stack) /\ stack'[i] = stack[i] /\ stack[i] \in onStack
      BY <1>3, <1>5, <2>2 DEF StackPartition, ToFiles
    <3>2. stack[i] # f /\ stack[i] \in Files
      BY <1>3, <3>1 DEF TypeOK
    <3>3. CASE j = Len(stack) + 1
      BY <1>3, <1>10, <3>1, <3>2, <3>3
    <3>4. CASE j \in 1..Len(stack)
      <4>1. stack'[j] = stack[j] /\ stack[j] \in onStack
        BY <1>3, <1>5, <3>4 DEF StackPartition, ToFiles
      <4>2. stack[j] # f /\ stack[j] \in Files
        BY <1>3, <4>1 DEF TypeOK
      <4> QED BY <1>3, <1>5, <2>2, <3>1, <3>2, <3>4, <4>1, <4>2 DEF StackPartition
    <3> QED BY <1>5, <3>3, <3>4
  <2>3. \A g \in Files : Indexed(g)' <=> g \in onStack' \cup Emitted'
    BY <1>3, <1>7, <1>8, <1>9 DEF StackPartition
  <2>4. onStack' \cap Emitted' = {}
    BY <1>3, <1>7 DEF StackPartition
  <2>5. \A i, j \in DOMAIN sccs' : i # j => sccs'[i] \cap sccs'[j] = {}
    BY <1>2 DEF StackPartition
  <2>6. \A i \in DOMAIN frames' : FileAt(i)' \in onStack'
    <3> SUFFICES ASSUME NEW i \in DOMAIN frames' PROVE FileAt(i)' \in onStack'
      OBVIOUS
    <3>1. CASE i = n + 1
      BY <1>3, <1>4, <3>1 DEF FileAt
    <3>2. CASE i \in 1..n
      BY <1>3, <1>4, <1>5, <3>2 DEF StackPartition, FileAt
    <3> QED BY <1>5, <3>1, <3>2
  <2> QED BY <2>1, <2>2, <2>3, <2>4, <2>5, <2>6 DEF StackPartition, FileAt
<1>12. Ascending'
  <2>1. \A g \in Files : indices'[g] < index'
    <3>1. index \in Nat /\ index' = index + 1 /\ \A g \in Files : indices'[g] \in Int
      BY <1>3 DEF TypeOK, Unset
    <3>2. indices'[f] = index /\ \A g \in Files : g # f => indices'[g] < index
      BY <1>3, <1>10
    <3> QED BY <3>1, <3>2
  <2>2. ASSUME NEW i \in DOMAIN frames', NEW j \in DOMAIN frames', i < j
        PROVE  indices'[FileAt(i)'] < indices'[FileAt(j)']
    <3>1. \A k \in 1..n : FileAt(k) # f /\ FileAt(k) \in Files
      BY <1>3, <1>5 DEF StackPartition, FileAt, TypeOK
    <3>2. i \in 1..n
      BY <1>5, <2>2
    <3>3. CASE j = n + 1
      BY <1>3, <1>4, <1>10, <3>1, <3>2, <3>3 DEF FileAt
    <3>4. CASE j \in 1..n
      BY <1>3, <1>4, <1>5, <2>2, <3>1, <3>2, <3>4 DEF Ascending
    <3> QED BY <1>5, <3>3, <3>4
  <2> QED BY <2>1, <2>2 DEF Ascending
<1> QED BY <1>6, <1>11, <1>12

LEMMA FinishStack ==
    ASSUME StackInv, FinishRoot \/ FinishInner
    PROVE  StackInv'
<1> USE DEF StackInv
<1> DEFINE n == Len(frames)
           f == Top.file
<1>1. frames # <<>> /\ LeaveFrame
  BY DEF FinishRoot, FinishInner
<1>2. n \in Nat \ {0} /\ DOMAIN frames = 1..n /\ f = FileAt(n) /\ f \in Files /\ f \in onStack
  BY <1>1, TopType DEF StackPartition, FileAt
<1>3. /\ frames' \in Seq(FrameType) /\ Len(frames') = n - 1
      /\ \A i \in 1..n - 1 : FileAt(i)' = FileAt(i)
      /\ lowlinks' \in [Files -> Nat \cup {Unset}]
  BY <1>1, LeaveEffect DEF FileAt
<1>4. UNCHANGED <<input, discovery, root, index, indices>>
  BY <1>1 DEF LeaveFrame
<1>5. DOMAIN frames' = 1..n - 1 /\ 1..n - 1 \subseteq 1..n
  BY <1>2, <1>3
<1>6. Ascending'
  BY <1>2, <1>3, <1>4, <1>5 DEF Ascending
<1> HIDE DEF f
<1>7. CASE FinishInner
  <2>1. UNCHANGED <<stack, onStack, sccs>>
    BY <1>7 DEF FinishInner
  <2>2. TypeOK'
    BY <1>3, <1>4, <2>1 DEF TypeOK, FrameType, input, discovery
  <2>3. \A i \in DOMAIN frames' : FileAt(i)' \in onStack
    BY <1>2, <1>3, <1>5 DEF StackPartition, FileAt
  <2>4. StackPartition'
    BY <1>4, <2>1, <2>3 DEF StackPartition, Indexed, Emitted, ToFiles, FileAt
  <2> QED BY <1>6, <2>2, <2>4
<1>8. CASE FinishRoot
  <2>1. PopComponent(f)
    BY <1>8 DEF FinishRoot, f
  <2>2. /\ sccs' \in Seq(SUBSET Files) /\ Len(sccs') = Len(sccs) + 1
        /\ sccs'[Len(sccs) + 1] = Segment(f)
        /\ \A i \in 1..Len(sccs) : sccs'[i] = sccs[i]
        /\ Emitted' = Emitted \cup Segment(f)
        /\ onStack' = onStack \ Segment(f)
        /\ stack' \in Seq(Files) /\ ToFiles(stack') = onStack'
        /\ Len(stack') <= Len(stack) /\ \A i \in 1..Len(stack') : stack'[i] = stack[i]
    BY <1>2, <2>1, PopEffect
  <2>3. Segment(f) \subseteq onStack
    BY DEF Segment
  <2>4. TypeOK'
    BY <1>3, <1>4, <2>2 DEF TypeOK, FrameType, input, discovery
  <2>5. \A i, j \in DOMAIN stack' : i < j => indices'[stack'[i]] < indices'[stack'[j]]
    <3>1. /\ DOMAIN stack' = 1..Len(stack') /\ DOMAIN stack = 1..Len(stack)
          /\ Len(stack') \in Nat /\ Len(stack) \in Nat
      BY <2>2 DEF TypeOK
    <3>2. DOMAIN stack' \subseteq DOMAIN stack
      BY <2>2, <3>1
    <3> QED BY <1>4, <2>2, <3>1, <3>2 DEF StackPartition
  <2>6. \A g \in Files : Indexed(g)' <=> g \in onStack' \cup Emitted'
    BY <1>4, <2>2, <2>3 DEF StackPartition, Indexed
  <2>7. onStack' \cap Emitted' = {}
    BY <2>2 DEF StackPartition
  <2>8. ASSUME NEW i \in DOMAIN sccs', NEW j \in DOMAIN sccs', i # j
        PROVE  sccs'[i] \cap sccs'[j] = {}
    <3>1. Len(sccs) \in Nat /\ DOMAIN sccs = 1..Len(sccs) /\ DOMAIN sccs' = 1..Len(sccs) + 1
      BY <2>2 DEF TypeOK
    <3>2. \A k \in 1..Len(sccs) : sccs'[k] = sccs[k] /\ sccs[k] \cap Segment(f) = {}
      BY <2>2, <2>3, <3>1 DEF StackPartition, Emitted
    <3>3. CASE i \in 1..Len(sccs) /\ j \in 1..Len(sccs)
      BY <2>8, <3>1, <3>2, <3>3 DEF StackPartition
    <3>4. CASE i = Len(sccs) + 1 /\ j \in 1..Len(sccs)
      BY <2>2, <3>2, <3>4
    <3>5. CASE j = Len(sccs) + 1 /\ i \in 1..Len(sccs)
      BY <2>2, <3>2, <3>5
    <3> QED BY <2>8, <3>1, <3>3, <3>4, <3>5
  <2>9. \A i \in DOMAIN frames' : FileAt(i)' \in onStack'
    <3> SUFFICES ASSUME NEW i \in 1..n - 1 PROVE FileAt(i) \in onStack \ Segment(f)
      BY <1>3, <1>5, <2>2
    <3>1. i \in 1..n /\ n \in 1..n /\ i < n
      BY <1>2
    <3>2. FileAt(i) \in onStack /\ indices[FileAt(i)] < indices[f]
      BY <1>2, <3>1 DEF StackPartition, Ascending, FileAt
    <3>3. \A g \in onStack : indices[g] \in Int
      BY DEF TypeOK, Unset
    <3> QED BY <1>2, <3>2, <3>3 DEF Segment
  <2>10. StackPartition'
    BY <2>2, <2>5, <2>6, <2>7, <2>8, <2>9 DEF StackPartition, FileAt
  <2> QED BY <1>6, <2>4, <2>10
<1> QED BY <1>7, <1>8

LEMMA SkipRootStack ==
    ASSUME StackInv, SkipRoot \/ UNCHANGED vars
    PROVE  StackInv'
<1>1. UNCHANGED <<input, discovery, numbering, lowlinks, frames, sccs>>
      /\ root' \in Nat \ {0}
  BY DEF SkipRoot, vars, StackInv, TypeOK
<1>2. TypeOK'
  BY <1>1 DEF StackInv, TypeOK, input, discovery, numbering
<1>3. StackPartition' /\ Ascending'
  BY <1>1 DEF StackInv, StackPartition, Ascending, FileAt, Emitted, Indexed, ToFiles, numbering
<1> QED BY <1>2, <1>3 DEF StackInv

LEMMA StackStep == ASSUME StackInv, [Next]_vars PROVE StackInv'
BY DiscoveryStack, EdgeStack, EnterStack, FinishStack, SkipRootStack DEF Next

\* What the stack, the Set and the components say of each other holds in
\* every reachable state.
THEOREM StackInvariant == Spec => []StackInv
BY InitStack, StackStep, PTL DEF Spec

\* Every map, array and Set keeps its type: a cursor never points before the
\* first import, a component never holds what is not a file.
THEOREM TarjanTypes == Spec => []TypeOK
BY StackInvariant, PTL DEF StackInv

\* state.onStack and state.stack hold the same files in index order, and each
\* numbered file is on the stack or in exactly one component, at every depth
\* limit, truncating ones included.
THEOREM StackIsPartitioned == Spec => []StackPartition
BY StackInvariant, PTL DEF StackInv

-----------------------------------------------------------------------------
(* Where the limit does not truncate: what lowlinks, frames and stack say   *)
(* of the paths of the graph.                                              *)

FrameFiles == {FileAt(i) : i \in DOMAIN frames}

\* Frame i is the innermost one that was entered before h.
Owner(h, i) ==
    /\ i \in DOMAIN frames
    /\ indices[FileAt(i)] <= indices[h]
    /\ \A j \in DOMAIN frames : i < j => indices[h] < indices[FileAt(j)]

\* The file g, imported on behalf of frame i, is no way out of the component
\* that the frame does not know of.
Bounded(i, g) == g \in Emitted \/ (g \in onStack /\ lowlinks[FileAt(i)] <= indices[g])

FramesReach ==
    \A i, j \in DOMAIN frames : i <= j => Reaches(graph, FileAt(i), FileAt(j))

Depths == \A i \in DOMAIN frames : frames[i].depth = i - 1

Owned == \A h \in onStack : \E i \in DOMAIN frames :
             Owner(h, i) /\ Reaches(graph, FileAt(i), h)

Witness ==
    \A f \in onStack : \E g \in onStack :
        /\ indices[g] = lowlinks[f]
        /\ indices[g] <= indices[f]
        /\ Reaches(graph, f, g)

\* A file whose frame is gone but not its component reaches a lower one.
LeftBelow == \A h \in onStack \ FrameFiles : lowlinks[h] < indices[h]

LeftEdges ==
    \A h \in onStack \ FrameFiles : \A g \in graph[h] : \A i \in DOMAIN frames :
        Owner(h, i) => Bounded(i, g)

SeenEdges ==
    \A i \in DOMAIN frames : \A k \in DOMAIN imports[FileAt(i)] :
        k < frames[i].next =>
            \/ Bounded(i, imports[FileAt(i)][k])
            \/ i < Len(frames) /\ imports[FileAt(i)][k] = FileAt(i + 1)

\* Components are whole, and import only themselves and earlier ones.
Whole ==
    \A i \in DOMAIN sccs :
        /\ sccs[i] # {}
        /\ \A f \in sccs[i] :
              /\ sccs[i] = Component(graph, f)
              /\ \A g \in graph[f] : \E j \in 1..i : g \in sccs[j]

RootsNumbered ==
    /\ root <= Len(visited) + 1
    /\ \A k \in 1..root - 1 : Indexed(visited[k])

PathInv ==
    /\ FramesReach /\ Depths /\ Owned /\ Witness
    /\ LeftBelow /\ LeftEdges /\ SeenEdges
    /\ Whole /\ RootsNumbered

LEMMA Standing ==
    ASSUME StackInv
    PROVE  /\ Len(frames) \in Nat /\ DOMAIN frames = 1..Len(frames)
           /\ \A i \in DOMAIN frames : FileAt(i) \in Files /\ FileAt(i) \in onStack
           /\ \A h \in onStack : /\ h \in Files /\ h \notin Emitted /\ lowlinks[h] \in Int
                                 /\ indices[h] \in Nat /\ indices[h] < index
           /\ \A g, h \in onStack : indices[g] = indices[h] => g = h
           /\ \A f \in Files : \A g : g \in graph[f] <=>
                 \E k \in DOMAIN imports[f] : imports[f][k] = g
           /\ \A f \in Files : graph[f] \subseteq Files
<1> USE DEF StackInv
<1>1. Len(frames) \in Nat /\ DOMAIN frames = 1..Len(frames)
  BY DEF TypeOK
<1>2. \A i \in DOMAIN frames : FileAt(i) \in Files /\ FileAt(i) \in onStack
  BY DEF TypeOK, StackPartition, FileAt
<1>3. \A h \in onStack : /\ h \in Files /\ h \notin Emitted /\ lowlinks[h] \in Int
                         /\ indices[h] \in Nat /\ indices[h] < index
  BY DEF TypeOK, StackPartition, Ascending, Indexed, Unset
<1>4. ASSUME NEW g \in onStack, NEW h \in onStack, indices[g] = indices[h] PROVE g = h
  <2>1. PICK i \in DOMAIN stack : stack[i] = g
    BY DEF StackPartition, ToFiles
  <2>2. PICK j \in DOMAIN stack : stack[j] = h
    BY DEF StackPartition, ToFiles
  <2>3. i \in Nat /\ j \in Nat
    BY <2>1, <2>2 DEF TypeOK
  <2>4. ~(i < j) /\ ~(j < i)
    BY <1>3, <1>4, <2>1, <2>2 DEF StackPartition
  <2> QED BY <2>1, <2>2, <2>3, <2>4
<1>5. \A f \in Files : \A g : g \in graph[f] <=> \E k \in DOMAIN imports[f] : imports[f][k] = g
  BY DEF graph, ToFiles
<1>6. \A f \in Files : graph[f] \subseteq Files
  BY GraphType
<1> QED BY <1>1, <1>2, <1>3, <1>4, <1>5, <1>6

\* Only one frame owns a file.
LEMMA OneOwner ==
    ASSUME StackInv, NEW h \in onStack, NEW i, NEW j, Owner(h, i), Owner(h, j)
    PROVE  i = j
<1>1. i \in Nat /\ j \in Nat /\ indices[h] \in Nat
      /\ indices[FileAt(i)] \in Nat /\ indices[FileAt(j)] \in Nat
  BY Standing DEF Owner
<1>2. ~(i < j) /\ ~(j < i)
  BY <1>1 DEF Owner
<1> QED BY <1>1, <1>2

\* The discovery and the loop over the discovered files leave frames alone.
LEMMA IdlePath ==
    ASSUME StackInv, Untruncated, PathInv,
           SkipVisited \/ Visit \/ Scan \/ SkipRoot \/ UNCHANGED vars
    PROVE  PathInv'
<1>1. UNCHANGED <<input, numbering, lowlinks, frames, sccs>>
  BY DEF SkipVisited, Visit, Scan, SkipRoot, vars
<1>2. graph' = graph
  BY <1>1 DEF graph, input
<1>3. \A i, h : /\ FileAt(i)' = FileAt(i) /\ Owner(h, i)' = Owner(h, i)
                /\ Bounded(i, h)' = Bounded(i, h)
  BY <1>1 DEF FileAt, Owner, Bounded, Emitted, numbering
<1>4. FramesReach' /\ Depths' /\ Owned' /\ Witness'
  BY <1>1, <1>2, <1>3 DEF PathInv, FramesReach, Depths, Owned, Witness, numbering
<1>5. LeftBelow' /\ LeftEdges' /\ SeenEdges'
  BY <1>1, <1>2, <1>3 DEF PathInv, LeftBelow, LeftEdges, SeenEdges, FrameFiles, numbering, input
<1>6. Whole'
  BY <1>1, <1>2 DEF PathInv, Whole
<1>7. RootsNumbered'
  <2>1. \A f : Indexed(f)' = Indexed(f)
    BY <1>1 DEF Indexed, numbering
  <2>2. root \in Nat \ {0} /\ visited \in Seq(Files)
    BY DEF StackInv, TypeOK
  <2>3. CASE SkipVisited \/ Scan \/ UNCHANGED vars
    <3>1. root' = root /\ visited' = visited
      BY <2>3 DEF SkipVisited, Scan, vars, discovery
    <3> QED BY <2>1, <3>1 DEF PathInv, RootsNumbered
  <2>4. CASE Visit
    <3>1. NextFile \in Files
      BY <2>4 DEF Visit, NextFile, StackInv, TypeOK
    <3>2. root' = root /\ Len(visited') = Len(visited) + 1
          /\ \A k \in 1..Len(visited) : visited'[k] = visited[k]
      BY <2>2, <2>4, <3>1, Appended DEF Visit
    <3>3. Len(visited) \in Nat /\ 1..root - 1 \subseteq 1..Len(visited)
      BY <2>2 DEF PathInv, RootsNumbered
    <3>4. root' <= Len(visited') + 1
      BY <2>2, <3>2, <3>3 DEF PathInv, RootsNumbered
    <3>5. \A k \in 1..root' - 1 : Indexed(visited[k]) /\ visited'[k] = visited[k]
      BY <3>2, <3>3 DEF PathInv, RootsNumbered
    <3> QED BY <2>1, <3>4, <3>5 DEF RootsNumbered, Indexed
  <2>5. CASE SkipRoot
    <3>1. root' = root + 1 /\ visited' = visited /\ root <= Len(visited)
      BY <2>5 DEF SkipRoot, AtRoot, discovery
    <3>2. maxDepth >= 0
      <4>1. Files # {} /\ IsFiniteSet(Files) /\ maxDepth \in Int
        BY FilesAssumption, MaxDepthsAssumption DEF StackInv, TypeOK
      <4>2. Cardinality(Files) \in Nat \ {0}
        BY <4>1, FS_CardinalityType, FS_EmptySet
      <4> QED BY <4>1, <4>2 DEF Untruncated
    <3>3. Indexed(visited[root])
      <4>1. maxDepth \in Int
        BY MaxDepthsAssumption DEF StackInv, TypeOK
      <4> QED BY <2>5, <3>2, <4>1 DEF SkipRoot
    <3>4. root \in Nat \ {0} /\ Len(visited) \in Nat
      BY <2>2
    <3>5. \A k \in 1..root' - 1 : k \in 1..root - 1 \/ k = root
      BY <3>1, <3>4
    <3>6. \A k \in 1..root' - 1 : Indexed(visited[k])
      BY <3>3, <3>5 DEF PathInv, RootsNumbered
    <3>7. root' <= Len(visited') + 1
      BY <3>1, <3>4
    <3> QED BY <2>1, <3>1, <3>6, <3>7 DEF RootsNumbered, Indexed
  <2> QED BY <2>3, <2>4, <2>5
<1> QED BY <1>4, <1>5, <1>6, <1>7 DEF PathInv

\* A step along an edge that enters no file: to the stack, or to what is out.
LEMMA EdgePath ==
    ASSUME StackInv, Untruncated, PathInv, RelaxToStack \/ PassSuccessor
    PROVE  PathInv'
<1> DEFINE n == Len(frames)
           f == Top.file
           s == Successor
<1>1. /\ HasSuccessor /\ frames # <<>> /\ frames' = Advanced
      /\ UNCHANGED <<input, discovery, root, numbering, sccs>>
  BY DEF RelaxToStack, PassSuccessor, HasSuccessor
<1>2. /\ n \in DOMAIN frames /\ DOMAIN frames = 1..n /\ f = FileAt(n) /\ f \in onStack
      /\ f \in Files /\ s \in Files /\ s \in graph[f] /\ s = imports[f][Top.next]
  BY <1>1, TopType, SuccessorType, Standing DEF StackInv
<1>3. /\ graph' = graph /\ DOMAIN frames' = DOMAIN frames /\ Len(frames') = n
      /\ \A i \in DOMAIN frames : FileAt(i)' = FileAt(i) /\ frames'[i].depth = frames[i].depth
      /\ \A i \in 1..n - 1 : frames'[i] = frames[i]
      /\ frames'[n].next = Top.next + 1 /\ Top = frames[n]
  <2>1. graph' = graph
    BY <1>1 DEF graph, input
  <2> QED BY <1>1, <2>1, TopType, AdvancedType DEF FileAt, StackInv
<1> HIDE DEF f, s
\* Only the top's lowlink changes, and it is only lowered.
<1>4. /\ \A g \in onStack : lowlinks'[g] \in Int /\ lowlinks'[g] <= lowlinks[g]
      /\ \A g \in onStack : g # f => lowlinks'[g] = lowlinks[g]
      /\ \/ lowlinks'[f] = lowlinks[f]
         \/ s \in onStack /\ lowlinks'[f] = indices[s]
      /\ s \in Emitted \/ (s \in onStack /\ lowlinks'[f] <= indices[s])
  <2>1. \A g \in onStack : g \in Files /\ lowlinks[g] \in Int
    BY Standing
  <2>2. CASE PassSuccessor
    <3>1. lowlinks' = lowlinks /\ s \in Emitted
      BY <1>2, <2>2 DEF PassSuccessor, s, StackInv, StackPartition
    <3> QED BY <2>1, <3>1
  <2>3. CASE RelaxToStack
    <3>1. s \in onStack /\ lowlinks' = Relaxed(f, indices[s])
      BY <2>3 DEF RelaxToStack, s, f
    <3>2. indices[s] \in Nat /\ TypeOK
      BY <3>1, Standing DEF StackInv
    <3>3. /\ \A g \in Files : g # f => lowlinks'[g] = lowlinks[g]
          /\ lowlinks'[f] \in {lowlinks[f], indices[s]}
          /\ lowlinks'[f] <= lowlinks[f] /\ lowlinks'[f] <= indices[s]
      BY <1>2, <3>1, <3>2, RelaxedType
    <3> QED BY <1>2, <2>1, <3>1, <3>2, <3>3
  <2> QED BY <2>2, <2>3
<1>5. \A i, h : Owner(h, i)' <=> Owner(h, i)
  BY <1>1, <1>3 DEF Owner, numbering
<1>6. ASSUME NEW i \in DOMAIN frames, NEW g, Bounded(i, g) PROVE Bounded(i, g)'
  <2>1. FileAt(i) \in onStack /\ lowlinks[FileAt(i)] \in Int
    BY Standing
  <2>2. g \in onStack => indices[g] \in Int
    BY Standing
  <2>3. Bounded(i, g)' <=> g \in Emitted \/ (g \in onStack /\ lowlinks'[FileAt(i)] <= indices[g])
    BY <1>1, <1>3 DEF Bounded, Emitted, numbering
  <2> QED BY <1>4, <1>6, <2>1, <2>2, <2>3 DEF Bounded
<1>7. FramesReach' /\ Depths' /\ Owned'
  BY <1>1, <1>3, <1>5 DEF PathInv, FramesReach, Depths, Owned, numbering
<1>8. Witness'
  <2> SUFFICES ASSUME NEW h \in onStack
               PROVE  \E g \in onStack : /\ indices[g] = lowlinks'[h]
                                         /\ indices[g] <= indices[h]
                                         /\ Reaches(graph, h, g)
    BY <1>1, <1>3 DEF Witness, numbering
  <2>1. CASE lowlinks'[h] = lowlinks[h]
    BY <2>1 DEF PathInv, Witness
  <2>2. CASE h = f /\ s \in onStack /\ lowlinks'[f] = indices[s]
    <3>1. lowlinks[f] <= indices[f] /\ lowlinks[f] \in Int /\ indices[f] \in Int
      BY <1>2, Standing DEF PathInv, Witness
    <3>2. indices[s] <= indices[f]
      BY <1>2, <1>4, <2>2, <3>1
    <3>3. Reaches(graph, f, s)
      <4>1. graph \in [Files -> SUBSET Files]
        BY GraphType DEF StackInv
      <4> QED BY <1>2, <4>1, ReachesSelf, ReachesImport
    <3> QED BY <2>2, <3>2, <3>3
  <2> QED BY <1>4, <2>1, <2>2
<1>9. LeftBelow' /\ LeftEdges'
  <2>1. FrameFiles' = FrameFiles
    BY <1>3 DEF FrameFiles
  <2>2. LeftBelow'
    <3>1. f \in FrameFiles
      BY <1>2 DEF FrameFiles
    <3> QED BY <1>1, <1>4, <2>1, <3>1 DEF PathInv, LeftBelow, numbering
  <2>3. LeftEdges'
    <3> SUFFICES ASSUME NEW h \in onStack \ FrameFiles, NEW g \in graph[h],
                        NEW i \in DOMAIN frames, Owner(h, i)
                 PROVE  Bounded(i, g)'
      BY <1>1, <1>3, <1>5, <2>1 DEF LeftEdges, numbering
    <3> QED BY <1>6 DEF PathInv, LeftEdges
  <2> QED BY <2>2, <2>3
<1>10. SeenEdges'
  <2> SUFFICES ASSUME NEW i \in DOMAIN frames, NEW k \in DOMAIN imports[FileAt(i)],
                      k < frames'[i].next, NEW g, g = imports[FileAt(i)][k]
               PROVE  Bounded(i, g)' \/ (i < n /\ g = FileAt(i + 1))
    <3>1. imports' = imports
      BY <1>1 DEF input
    <3>2. \A i \in DOMAIN frames : i < n => FileAt(i + 1)' = FileAt(i + 1)
      BY <1>2, <1>3 DEF FileAt
    <3> QED BY <1>3, <3>1, <3>2 DEF SeenEdges
  <2>1. CASE k < frames[i].next
    BY <1>6, <2>1 DEF PathInv, SeenEdges
  <2>2. CASE i = n /\ k = Top.next
    <3>1. g = s /\ FileAt(i)' = f
      BY <1>2, <1>3, <2>2
    <3> QED BY <1>1, <1>4, <3>1 DEF Bounded, Emitted, numbering
  <2>3. k < frames[i].next \/ (i = n /\ k = Top.next)
    <3>1. Top.next \in Nat
      BY <1>1, TopType DEF FrameType, StackInv
    <3>2. k \in Nat
      <4>1. imports[FileAt(i)] \in Seq(Files)
        BY Standing DEF StackInv, TypeOK
      <4> QED BY <4>1
    <3> QED BY <1>2, <1>3, <3>1, <3>2
  <2> QED BY <2>1, <2>2, <2>3
<1>11. Whole' /\ RootsNumbered'
  BY <1>1, <1>3 DEF PathInv, Whole, RootsNumbered, Indexed, numbering, discovery
<1> QED BY <1>7, <1>8, <1>9, <1>10, <1>11 DEF PathInv

\* A file that is entered, from the loop or from the frame that imports it.
LEMMA EnterPath ==
    ASSUME StackInv, Untruncated, PathInv, StartRoot \/ Descend
    PROVE  PathInv'
<1> DEFINE n == Len(frames)
<1>1. PICK f \in Files, depth \in Nat, below \in Seq(FrameType) :
         /\ ~Indexed(f) /\ Enter(f, depth, below)
         /\ Len(below) = n
         /\ \A i \in 1..n : /\ below[i].file = FileAt(i) /\ below[i].depth = frames[i].depth
         /\ \A i \in 1..n - 1 : below[i] = frames[i]
         /\ n = 0 => depth = 0
         /\ n > 0 => /\ depth = Top.depth + 1 /\ HasSuccessor /\ f = Successor
                     /\ below[n].next = Top.next + 1
  BY Entered DEF EnteredOver
<1>2. UNCHANGED <<input, discovery, sccs>>
  BY DEF StartRoot, Descend
<1>3. graph' = graph /\ imports' = imports
  BY <1>2 DEF graph, input
<1>4. /\ n \in Nat /\ DOMAIN frames = 1..n
      /\ \A i \in 1..n : FileAt(i) \in Files /\ FileAt(i) \in onStack
      /\ \A h \in onStack : /\ h \in Files /\ h \notin Emitted /\ lowlinks[h] \in Int
                            /\ indices[h] \in Nat /\ indices[h] < index
      /\ \A h \in Files : graph[h] \subseteq Files
      /\ graph \in [Files -> SUBSET Files] /\ index \in Nat
  <2>1. index \in Nat
    BY DEF StackInv, TypeOK
  <2> QED BY <2>1, Standing, GraphType DEF StackInv
<1>5. /\ index' = index + 1
      /\ indices'[f] = index /\ lowlinks'[f] = index
      /\ \A g \in Files : g # f => indices'[g] = indices[g] /\ lowlinks'[g] = lowlinks[g]
      /\ onStack' = onStack \cup {f} /\ f \notin onStack \cup Emitted
      /\ frames' \in Seq(FrameType) /\ Len(frames') = n + 1
      /\ frames'[n + 1] = [file |-> f, depth |-> depth, next |-> 1]
      /\ \A i \in 1..n : frames'[i] = below[i]
  BY <1>1, EnterEffect
<1>6. /\ DOMAIN frames' = 1..n + 1
      /\ \A i \in 1..n : FileAt(i)' = FileAt(i) /\ frames'[i].depth = frames[i].depth
      /\ \A i \in 1..n + 1 : i \in 1..n \/ i = n + 1
      /\ \A i \in 1..n + 1 : i = n + 1 => FileAt(i)' = f /\ frames'[i].next = 1
                                          /\ frames'[i].depth = depth
  BY <1>1, <1>4, <1>5 DEF FileAt
<1>7. Emitted' = Emitted
  BY <1>2 DEF Emitted
\* What was on the stack keeps its numbers, and its owner.
<1>8. \A h \in onStack : h # f /\ indices'[h] = indices[h] /\ lowlinks'[h] = lowlinks[h]
  BY <1>4, <1>5
<1>9. ASSUME NEW h \in onStack, NEW i PROVE Owner(h, i)' <=> Owner(h, i)
  <2>1. Owner(h, i) => Owner(h, i)'
    <3> SUFFICES ASSUME Owner(h, i), NEW j \in 1..n + 1, i < j
                 PROVE  i \in 1..n /\ indices'[FileAt(i)'] <= indices'[h]
                        /\ indices'[h] < indices'[FileAt(j)']
      BY <1>4, <1>5, <1>6 DEF Owner
    <3>1. i \in 1..n /\ indices[FileAt(i)] <= indices[h]
      BY <1>4 DEF Owner
    <3>2. indices'[FileAt(i)'] <= indices'[h]
      BY <1>4, <1>6, <1>8, <3>1
    <3>3. CASE j = n + 1
      BY <1>4, <1>5, <1>6, <1>8, <3>1, <3>2, <3>3
    <3>4. CASE j \in 1..n
      BY <1>4, <1>6, <1>8, <3>1, <3>2, <3>4 DEF Owner
    <3> QED BY <1>6, <3>3, <3>4
  <2>2. Owner(h, i)' => Owner(h, i)
    <3> SUFFICES ASSUME Owner(h, i)' PROVE Owner(h, i)
      OBVIOUS
    <3>1. i \in 1..n + 1 /\ indices'[FileAt(i)'] <= indices'[h]
          /\ \A j \in 1..n + 1 : i < j => indices'[h] < indices'[FileAt(j)']
      BY <1>6 DEF Owner
    <3>2. i # n + 1
      BY <1>4, <1>5, <1>6, <1>8, <3>1
    <3>3. i \in 1..n
      BY <1>6, <3>1, <3>2
    <3>4. ASSUME NEW j \in 1..n, i < j PROVE indices[h] < indices[FileAt(j)]
      <4>1. indices'[h] < indices'[FileAt(j)'] /\ FileAt(j)' = FileAt(j)
        BY <1>4, <1>6, <3>1, <3>4
      <4> QED BY <1>4, <1>8, <4>1
    <3> QED BY <1>4, <1>6, <1>8, <3>1, <3>3, <3>4 DEF Owner
  <2> QED BY <2>1, <2>2
<1>10. ASSUME NEW i \in 1..n, NEW g, Bounded(i, g) PROVE Bounded(i, g)'
  <2>1. CASE g \in Emitted
    BY <1>7, <2>1 DEF Bounded
  <2>2. CASE g \in onStack /\ lowlinks[FileAt(i)] <= indices[g]
    BY <1>4, <1>5, <1>6, <1>8, <2>2 DEF Bounded
  <2> QED BY <1>10, <2>1, <2>2 DEF Bounded
\* The frame below imports the new file.
<1>11. n > 0 => /\ Top = frames[n] /\ f = imports[FileAt(n)][Top.next]
                /\ f \in graph[FileAt(n)] /\ Top.next \in Nat \ {0}
  <2> SUFFICES ASSUME n > 0, HasSuccessor, f = Successor
               PROVE  /\ Top = frames[n] /\ f = imports[FileAt(n)][Top.next]
                      /\ f \in graph[FileAt(n)] /\ Top.next \in Nat \ {0}
    BY <1>1
  <2>1. frames # <<>> /\ TypeOK
    BY DEF HasSuccessor, StackInv
  <2> QED BY <2>1, TopType, SuccessorType DEF FrameType
<1>12. FramesReach'
  <2> SUFFICES ASSUME NEW i \in 1..n + 1, NEW j \in 1..n + 1, i <= j
               PROVE  Reaches(graph, FileAt(i)', FileAt(j)')
    BY <1>3, <1>6 DEF FramesReach
  <2>1. CASE i \in 1..n /\ j \in 1..n
    <3>1. FramesReach
      BY DEF PathInv
    <3>2. Reaches(graph, FileAt(i), FileAt(j))
      BY <1>4, <2>1, <3>1 DEF FramesReach
    <3> QED BY <1>6, <2>1, <3>2
  <2>2. CASE i \in 1..n /\ j = n + 1
    <3>1. n \in 1..n /\ i <= n /\ n > 0
      BY <1>4, <2>2
    <3>2. Reaches(graph, FileAt(i), FileAt(n))
      BY <1>4, <2>2, <3>1 DEF PathInv, FramesReach
    <3>3. Reaches(graph, FileAt(i), f)
      BY <1>4, <1>11, <2>2, <3>1, <3>2, ReachesImport
    <3> QED BY <1>6, <2>2, <3>3
  <2>3. CASE i = n + 1 /\ j = n + 1
    BY <1>4, <1>6, <2>3, ReachesSelf
  <2>4. ~(i = n + 1 /\ j \in 1..n)
    BY <1>4
  <2> QED BY <1>6, <2>1, <2>2, <2>3, <2>4
<1>13. Depths'
  <2> SUFFICES ASSUME NEW i \in 1..n + 1 PROVE frames'[i].depth = i - 1
    BY <1>6 DEF Depths
  <2>1. CASE i \in 1..n
    BY <1>4, <1>6, <2>1 DEF PathInv, Depths
  <2>2. CASE i = n + 1 /\ n > 0
    <3>1. n \in 1..n /\ Depths
      BY <1>4, <2>2 DEF PathInv
    <3>2. frames[n].depth = n - 1
      BY <1>4, <3>1 DEF Depths
    <3> QED BY <1>1, <1>4, <1>6, <1>11, <2>2, <3>2
  <2>3. CASE i = n + 1 /\ n = 0
    BY <1>1, <1>6, <2>3
  <2> QED BY <1>4, <1>6, <2>1, <2>2, <2>3
<1>14. Owned'
  <2> SUFFICES ASSUME NEW h \in onStack \cup {f}
               PROVE  \E i \in 1..n + 1 : Owner(h, i)' /\ Reaches(graph, FileAt(i)', h)
    BY <1>3, <1>5, <1>6 DEF Owned
  <2>1. CASE h \in onStack
    <3>1. PICK i \in 1..n : Owner(h, i) /\ Reaches(graph, FileAt(i), h)
      BY <1>4, <2>1 DEF PathInv, Owned
    <3>2. Owner(h, i)' /\ Reaches(graph, FileAt(i)', h) /\ i \in 1..n + 1
      BY <1>4, <1>6, <1>9, <2>1, <3>1
    <3> QED BY <3>2
  <2>2. CASE h = f
    <3>1. PICK m \in 1..n + 1 : m = n + 1
      BY <1>4
    <3>2. Owner(h, m)'
      <4>1. FileAt(m)' = f /\ \A j \in 1..n + 1 : ~(m < j)
        BY <1>4, <1>6, <3>1
      <4>2. indices'[FileAt(m)'] <= indices'[h]
        BY <1>4, <1>5, <2>2, <4>1
      <4> QED BY <1>6, <3>1, <4>1, <4>2 DEF Owner
    <3>3. Reaches(graph, f, h)
      BY <1>4, <2>2, ReachesSelf
    <3> QED BY <1>6, <2>2, <3>1, <3>2, <3>3
  <2> QED BY <2>1, <2>2
<1>15. Witness'
  <2> SUFFICES ASSUME NEW h \in onStack \cup {f}
               PROVE  \E g \in onStack \cup {f} :
                         /\ indices'[g] = lowlinks'[h] /\ indices'[g] <= indices'[h]
                         /\ Reaches(graph, h, g)
    BY <1>3, <1>5 DEF Witness
  <2>1. CASE h \in onStack
    BY <1>8, <2>1 DEF PathInv, Witness
  <2>2. CASE h = f
    BY <1>4, <1>5, <2>2, ReachesSelf
  <2> QED BY <2>1, <2>2
<1>16. (onStack \ FrameFiles)' = onStack \ FrameFiles
  <2>1. FrameFiles' = FrameFiles \cup {f}
    <3>1. ASSUME NEW g PROVE g \in FrameFiles' <=> \E i \in 1..n + 1 : FileAt(i)' = g
      BY <1>6 DEF FrameFiles
    <3>2. ASSUME NEW g PROVE g \in FrameFiles <=> \E i \in 1..n : FileAt(i) = g
      BY <1>4 DEF FrameFiles
    <3>3. n + 1 \in 1..n + 1 /\ 1..n \subseteq 1..n + 1
      BY <1>4
    <3> QED BY <1>6, <3>1, <3>2, <3>3
  <2> QED BY <1>5, <2>1
<1>17. LeftBelow' /\ LeftEdges'
  <2>1. LeftBelow'
    BY <1>8, <1>16 DEF PathInv, LeftBelow
  <2>2. LeftEdges'
    <3> SUFFICES ASSUME NEW h \in onStack \ FrameFiles, NEW g \in graph[h],
                        NEW i \in 1..n + 1, Owner(h, i)'
                 PROVE  Bounded(i, g)'
      BY <1>3, <1>6, <1>16 DEF LeftEdges
    <3>1. Owner(h, i) /\ i \in 1..n
      BY <1>4, <1>9 DEF Owner
    <3>2. Bounded(i, g)
      BY <1>4, <3>1 DEF PathInv, LeftEdges
    <3> QED BY <1>10, <3>1, <3>2
  <2> QED BY <2>1, <2>2
<1>18. SeenEdges'
  <2> SUFFICES ASSUME NEW i \in 1..n + 1, NEW k \in DOMAIN imports[FileAt(i)'],
                      k < frames'[i].next, NEW g, g = imports[FileAt(i)'][k]
               PROVE  Bounded(i, g)' \/ (i < n + 1 /\ g = frames'[i + 1].file)
    BY <1>3, <1>5, <1>6 DEF SeenEdges, FileAt
  <2>1. FileAt(i)' \in Files /\ k \in Nat \ {0}
    <3>1. FileAt(i)' \in Files
      BY <1>4, <1>6
    <3>2. imports[FileAt(i)'] \in Seq(Files)
      BY <3>1 DEF StackInv, TypeOK
    <3> QED BY <3>1, <3>2
  <2>2. i \in 1..n
    BY <1>6, <2>1
  <2>3. FileAt(i)' = FileAt(i)
    BY <1>6, <2>2
  <2>4. CASE k < frames[i].next
    <3>1. Bounded(i, g) \/ (i < n /\ g = FileAt(i + 1))
      BY <1>4, <2>2, <2>3, <2>4 DEF PathInv, SeenEdges
    <3>2. i < n => i + 1 \in 1..n
      BY <1>4, <2>2
    <3>3. i < n => frames'[i + 1].file = FileAt(i + 1)
      BY <1>1, <1>5, <3>2
    <3> QED BY <1>4, <1>10, <2>2, <3>1, <3>3
  <2>5. CASE i = n /\ k = Top.next
    <3>1. n > 0 /\ i < n + 1
      BY <1>4, <2>2, <2>5
    <3>2. g = f
      BY <1>11, <2>3, <2>5, <3>1
    <3> QED BY <1>5, <2>5, <3>1, <3>2
  <2>6. k < frames[i].next \/ (i = n /\ k = Top.next)
    <3>1. CASE i \in 1..n - 1
      BY <1>1, <1>5, <2>2, <3>1
    <3>2. CASE i = n
      <4>1. n > 0
        BY <1>4, <2>2, <3>2
      <4>2. k < Top.next + 1 /\ Top = frames[n] /\ Top.next \in Nat
        BY <1>1, <1>5, <1>11, <2>2, <3>2, <4>1
      <4> QED BY <2>1, <3>2, <4>2
    <3>3. i \in 1..n - 1 \/ i = n
      <4>1. n \in Nat
        BY <1>4
      <4> HIDE DEF n
      <4> QED BY <2>2, <4>1
    <3> QED BY <3>1, <3>2, <3>3
  <2> QED BY <2>4, <2>5, <2>6
<1>19. Whole'
  BY <1>2, <1>3 DEF PathInv, Whole
<1>20. RootsNumbered'
  <2>1. \A g \in Files : Indexed(g) => Indexed(g)'
    BY <1>1, <1>5 DEF Indexed
  <2>2. visited' = visited /\ visited \in Seq(Files) /\ Len(visited) \in Nat /\ root \in Nat \ {0}
    BY <1>2 DEF discovery, StackInv, TypeOK
  <2>3. CASE Descend
    <3>1. root' = root
      BY <2>3 DEF Descend
    <3>2. \A k \in 1..root - 1 : visited[k] \in Files
      BY <2>2 DEF PathInv, RootsNumbered
    <3> QED BY <2>1, <2>2, <3>1, <3>2 DEF PathInv, RootsNumbered, Indexed
  <2>4. CASE StartRoot
    <3>1. root' = root + 1 /\ root <= Len(visited) /\ Enter(visited[root], 0, <<>>)
          /\ visited[root] \in Files /\ ~Indexed(visited[root])
      BY <2>2, <2>4 DEF StartRoot, AtRoot
    <3>2. <<>> \in Seq(FrameType)
      OBVIOUS
    <3>3. indices'[visited[root]] = index
      BY <3>1, <3>2, EnterEffect
    <3>4. \A k \in 1..root : k \in 1..root - 1 \/ k = root
      BY <2>2
    <3>5. \A k \in 1..root - 1 : visited[k] \in Files /\ Indexed(visited[k])
      BY <2>2, <3>1 DEF PathInv, RootsNumbered
    <3>6. index \in Nat
      BY DEF StackInv, TypeOK
    <3>7. \A k \in 1..root : indices'[visited[k]] # Unset
      BY <2>1, <3>3, <3>4, <3>5, <3>6 DEF Indexed, Unset
    <3>8. root' - 1 = root /\ root' <= Len(visited) + 1
      BY <2>2, <3>1
    <3> QED BY <2>2, <3>7, <3>8 DEF RootsNumbered, Indexed
  <2> QED BY <2>3, <2>4
<1> QED BY <1>12, <1>13, <1>14, <1>15, <1>17, <1>18, <1>19, <1>20 DEF PathInv

\* A truncated edge would need more frames than there are files.
LEMMA NeverTruncated == ASSUME StackInv, Untruncated, PathInv PROVE ~Truncate
<1> SUFFICES ASSUME Truncate PROVE FALSE
  OBVIOUS
<1> DEFINE n == Len(frames)
           others == Files \ {Successor}
<1>1. HasSuccessor /\ frames # <<>> /\ ~Indexed(Successor) /\ Top.depth + 1 > maxDepth
  BY DEF Truncate, HasSuccessor
<1>2. n \in Nat \ {0} /\ DOMAIN frames = 1..n /\ Top = frames[n] /\ Successor \in Files
  BY <1>1, TopType, SuccessorType DEF StackInv
<1>3. Cardinality(Files) \in Nat /\ IsFiniteSet(others)
      /\ Cardinality(others) = Cardinality(Files) - 1
  BY <1>2, FilesAssumption, FS_CardinalityType, FS_RemoveElement
<1>4. n > Cardinality(others)
  <2>1. Top.depth = n - 1
    <3>1. Depths /\ n \in DOMAIN frames
      BY <1>2 DEF PathInv
    <3> QED BY <1>2, <3>1 DEF Depths
  <2>2. maxDepth \in Int /\ maxDepth >= Cardinality(Files) - 1
    BY MaxDepthsAssumption DEF Untruncated, StackInv, TypeOK
  <2> QED BY <1>1, <1>2, <1>3, <2>1, <2>2
<1>5. \A i \in 1..n : FileAt(i) \in others
  BY <1>1, <1>2, Standing DEF Indexed, StackInv, StackPartition
<1>6. \A i, j \in 1..n : FileAt(i) = FileAt(j) => i = j
  <2> SUFFICES ASSUME NEW i \in 1..n, NEW j \in 1..n, FileAt(i) = FileAt(j) PROVE i = j
    OBVIOUS
  <2>1. indices[FileAt(i)] \in Nat
    BY <1>2, Standing
  <2>2. ~(i < j) /\ ~(j < i)
    BY <1>2, <2>1 DEF StackInv, Ascending
  <2> QED BY <1>2, <2>2
<1>7. IsFiniteSet(1..n) /\ Cardinality(1..n) = n
  BY <1>2, FS_Interval
<1> DEFINE fileOf == [i \in 1..n |-> FileAt(i)]
<1>8. fileOf \in [1..n -> others]
  BY <1>5
<1> HIDE DEF n, others
<1>9. \E i, j \in 1..n : i # j /\ fileOf[i] = fileOf[j]
  <2> HIDE DEF fileOf
  <2> QED BY <1>3, <1>4, <1>7, <1>8, FS_PigeonHole
<1> QED BY <1>6, <1>9

\* What is out is closed under imports.
LEMMA EmittedClosed ==
    ASSUME StackInv, PathInv
    PROVE  Emitted \in SUBSET Files /\ Closed(graph, Emitted)
<1>1. Emitted \in SUBSET Files
  BY DEF Emitted, StackInv, TypeOK
<1>2. \A i \in DOMAIN sccs : i \in Nat /\ 1..i \subseteq DOMAIN sccs
  BY DEF StackInv, TypeOK
<1>3. ASSUME NEW f \in Emitted, NEW g \in graph[f] PROVE g \in Emitted
  <2>1. PICK i \in DOMAIN sccs : f \in sccs[i]
    BY DEF Emitted
  <2>2. PICK j \in 1..i : g \in sccs[j]
    BY <2>1 DEF PathInv, Whole
  <2> QED BY <1>2, <2>1, <2>2 DEF Emitted
<1> QED BY <1>1, <1>3 DEF Closed

LEMMA LeastMember ==
    ASSUME NEW S \in SUBSET Nat, S # {}
    PROVE  \E m \in S : \A n \in S : m <= n
<1> DEFINE Less == {ss \in Nat \X Nat : ss[1] < ss[2]}
<1>1. IsWellFoundedOn(Less, Nat)
  <2>1. OpToRel(<, Nat) = Less
    BY Zenon DEF OpToRel
  <2> QED BY <2>1, NatLessThanWellFounded, Zenon
<1>2. PICK m \in S : \A n \in S : <<n, m>> \notin Less
  <2> HIDE DEF Less
  <2> QED BY <1>1, WFMin
<1>3. \A x, y \in Nat : <<x, y>> \notin Less => y <= x
  OBVIOUS
<1> HIDE DEF Less
<1>4. \A n \in S : m <= n
  BY <1>2, <1>3
<1> QED BY <1>4

(***************************************************************************)
(* Why "lowlink = index" is the moment to pop: the files above f on the    *)
(* stack are then f's component, and import nothing but one another and    *)
(* what is out.                                                            *)
(***************************************************************************)
LEMMA SegmentWhole ==
    ASSUME StackInv, PathInv, frames # <<>>, ~HasSuccessor,
           NEW f, f = Top.file, lowlinks[f] = indices[f]
    PROVE  /\ f \in Segment(f)
           /\ \A h \in Segment(f) : graph[h] \subseteq Segment(f) \cup Emitted
           /\ \A h \in Segment(f) : Segment(f) = Component(graph, h)
<1> DEFINE n == Len(frames)
           C == Segment(f)
<1>1. n \in DOMAIN frames /\ DOMAIN frames = 1..n /\ n \in Nat /\ f = FileAt(n)
      /\ f \in Files /\ f \in onStack
  BY TopType, Standing DEF StackInv
<1>2. f \in C /\ C \subseteq onStack /\ C \in SUBSET Files /\ C \cap Emitted = {}
  BY <1>1, Standing DEF Segment
<1>3. graph \in [Files -> SUBSET Files]
  BY GraphType DEF StackInv
\* The top frame owns them all, and is the only frame of one of them.
<1>4. ASSUME NEW h \in C PROVE Owner(h, n)
  BY <1>1, <1>4 DEF Owner, Segment
<1>5. ASSUME NEW h \in C, h \in FrameFiles PROVE h = f
  <2>1. PICK i \in DOMAIN frames : h = FileAt(i)
    BY <1>5 DEF FrameFiles
  <2>2. i \in 1..n /\ indices[f] <= indices[FileAt(i)] /\ indices[f] \in Nat /\ indices[h] \in Nat
    BY <1>1, <2>1, Standing DEF Segment
  <2>3. ~(i < n)
    BY <1>1, <2>1, <2>2 DEF StackInv, Ascending
  <2> QED BY <1>1, <2>1, <2>2, <2>3
<1>6. ASSUME NEW h \in C, NEW g \in graph[h] PROVE g \in C \cup Emitted
  <2>1. Bounded(n, g)
    <3>1. CASE h \in FrameFiles
      <4>1. h = f /\ g \in graph[f]
        BY <1>5, <1>6, <3>1
      <4>2. PICK k \in DOMAIN imports[f] : imports[f][k] = g
        BY <1>1, <4>1, Standing
      <4>3. k < frames[n].next
        <5>1. imports[f] \in Seq(Files) /\ Top = frames[n] /\ Top.next \in Nat
          BY <1>1, TopType DEF StackInv, TypeOK, FrameType
        <5>2. ~(Top.next <= Len(imports[f]))
          BY DEF HasSuccessor
        <5> QED BY <4>2, <5>1, <5>2
      <4>4. ~(n < n)
        BY <1>1
      <4> QED BY <1>1, <4>2, <4>3, <4>4 DEF PathInv, SeenEdges
    <3>2. CASE h \notin FrameFiles
      BY <1>1, <1>2, <1>4, <1>6, <3>2 DEF PathInv, LeftEdges
    <3> QED BY <3>1, <3>2
  <2> QED BY <1>1, <2>1 DEF Bounded, Segment
<1>7. C \cup Emitted \in SUBSET Files /\ Closed(graph, C \cup Emitted)
  BY <1>2, <1>6, EmittedClosed DEF Closed
<1>8. ASSUME NEW h \in C PROVE Reaches(graph, f, h)
  <2>1. PICK i \in DOMAIN frames : Owner(h, i) /\ Reaches(graph, FileAt(i), h)
    BY <1>2, <1>8 DEF PathInv, Owned
  <2>2. i = n
    BY <1>2, <1>4, <1>8, <2>1, OneOwner
  <2> QED BY <1>1, <2>1, <2>2
<1>9. ASSUME NEW h \in C PROVE Reaches(graph, h, f)
  <2> DEFINE Stray == {k \in C : ~Reaches(graph, k, f)}
  <2> SUFFICES ASSUME Stray # {} PROVE FALSE
    BY <1>9
  <2>1. PICK k \in Stray : \A m \in Stray : indices[k] <= indices[m]
    <3> DEFINE Numbers == {indices[m] : m \in Stray}
    <3>1. Numbers \in SUBSET Nat /\ Numbers # {}
      BY <1>2, Standing
    <3> HIDE DEF Numbers
    <3>2. PICK low \in Numbers : \A m \in Numbers : low <= m
      BY <3>1, LeastMember
    <3> QED BY <3>2 DEF Numbers
  <2>2. k \in C /\ k \in onStack /\ k \in Files /\ ~Reaches(graph, k, f)
    BY <1>2, <2>1
  <2>3. k # f
    BY <1>1, <1>3, <2>2, ReachesSelf
  <2>4. lowlinks[k] < indices[k]
    BY <1>5, <2>2, <2>3 DEF PathInv, LeftBelow
  <2>5. PICK g \in onStack : indices[g] = lowlinks[k] /\ Reaches(graph, k, g)
    BY <2>2 DEF PathInv, Witness
  <2>6. g \in C /\ g \in Files
    <3>1. g \in C \cup Emitted
      BY <1>3, <1>7, <2>2, <2>5, ReachesWithin
    <3> QED BY <1>2, <2>5, <3>1, Standing
  <2>7. g \notin Stray
    <3>1. indices[k] \in Nat /\ indices[g] \in Nat
      BY <2>2, <2>5, Standing
    <3> QED BY <2>1, <2>4, <2>5, <3>1
  <2>8. Reaches(graph, k, f)
    BY <1>1, <1>3, <2>2, <2>5, <2>6, <2>7, ReachesTransitive
  <2> QED BY <2>2, <2>8
<1>10. ASSUME NEW g \in Component(graph, f) PROVE g \in C
  <2>1. g \in Files /\ Reaches(graph, f, g) /\ Reaches(graph, g, f)
    BY <1>1, <1>3, ComponentMember
  <2>2. g \in C \cup Emitted
    BY <1>2, <1>3, <1>7, <2>1, ReachesWithin
  <2>3. g \notin Emitted
    <3>1. g \in Emitted => f \in Emitted
      BY <1>3, <2>1, EmittedClosed, ReachesWithin
    <3> QED BY <1>2, <3>1
  <2> QED BY <2>2, <2>3
<1>11. C = Component(graph, f)
  <2>1. \A h \in C : h \in Component(graph, f)
    BY <1>1, <1>2, <1>3, <1>8, <1>9, ComponentMember
  <2> QED BY <1>10, <2>1
<1>12. \A h \in C : C = Component(graph, h)
  <2> HIDE DEF C
  <2> QED BY <1>1, <1>3, <1>11, ComponentEqual
<1> QED BY <1>2, <1>6, <1>12

LEMMA LastOrBelow ==
    ASSUME NEW n \in Nat, NEW i \in 1..n
    PROVE  /\ i = n \/ i \in 1..n - 1
           /\ i \in 1..n - 1 => i = n - 1 \/ (i < n - 1 /\ i + 1 \in 1..n - 1)
OBVIOUS

\* A frame whose file has no lower lowlink left: nothing but the component
\* goes, and no lowlink changes.
LEMMA FinishRootPath ==
    ASSUME StackInv, Untruncated, PathInv, FinishRoot
    PROVE  PathInv'
<1> DEFINE n == Len(frames)
           m == Len(sccs)
<1>1. PICK f : f = Top.file
  OBVIOUS
<1>2. /\ frames # <<>> /\ ~HasSuccessor /\ lowlinks[f] = indices[f]
      /\ PopComponent(f) /\ LeaveFrame
  BY <1>1 DEF FinishRoot
<1> DEFINE C == Segment(f)
<1>3. n \in DOMAIN frames /\ DOMAIN frames = 1..n /\ n \in Nat \ {0} /\ f = FileAt(n)
      /\ f \in Files /\ f \in onStack
  BY <1>1, <1>2, TopType, Standing DEF StackInv
<1>4. /\ f \in C
      /\ \A h \in C : graph[h] \subseteq C \cup Emitted
      /\ \A h \in C : C = Component(graph, h)
  BY <1>1, <1>2, SegmentWhole
<1>5. /\ sccs' \in Seq(SUBSET Files) /\ Len(sccs') = m + 1 /\ sccs'[m + 1] = C
      /\ \A i \in 1..m : sccs'[i] = sccs[i]
      /\ Emitted' = Emitted \cup C /\ onStack' = onStack \ C
  BY <1>2, <1>3, PopEffect
<1>6. /\ UNCHANGED <<input, discovery, root, index, indices>>
      /\ graph' = graph /\ imports' = imports
  BY <1>2 DEF LeaveFrame, graph, input
<1>7. /\ Len(frames') = n - 1 /\ DOMAIN frames' = 1..n - 1
      /\ \A i \in 1..n - 1 : frames'[i] = frames[i] /\ FileAt(i)' = FileAt(i)
      /\ \A i \in 1..n - 1 : i \in 1..n /\ i \in DOMAIN frames /\ i < n
  <2>1. /\ frames' \in Seq(FrameType) /\ Len(frames') = n - 1
        /\ \A i \in 1..n - 1 : frames'[i] = frames[i]
    BY <1>2, LeaveEffect DEF StackInv
  <2>2. DOMAIN frames' = 1..n - 1
    BY <1>3, <2>1
  <2> QED BY <1>3, <2>1, <2>2 DEF FileAt
\* The frame below keeps its lowlink, which is no higher than f's.
<1>8. \A g \in Files : lowlinks'[g] = lowlinks[g]
  <2>1. CASE n = 1
    BY <1>2, <2>1, LeaveEffect DEF StackInv
  <2>2. CASE n > 1
    <3>1. PICK p : p = FileAt(n - 1)
      OBVIOUS
    <3>2. n - 1 \in DOMAIN frames /\ n - 1 < n
      BY <1>3, <2>2
    <3>3. p \in Files /\ p \in onStack /\ indices[p] < indices[f]
      BY <1>3, <3>1, <3>2, Standing DEF StackInv, Ascending
    <3>4. lowlinks[p] <= indices[p]
      BY <3>3 DEF PathInv, Witness
    <3>5. lowlinks' = Relaxed(p, lowlinks[f])
      BY <1>1, <1>2, <2>2, <3>1, LeaveEffect DEF StackInv
    <3>6. lowlinks[f] \in Nat \cup {Unset} /\ lowlinks[p] \in Int
          /\ indices[p] \in Int /\ indices[f] \in Int
      BY <1>3, <3>3, Standing DEF StackInv, TypeOK
    <3>7. /\ \A g \in Files : g # p => lowlinks'[g] = lowlinks[g]
          /\ lowlinks'[p] = Smaller(lowlinks[p], lowlinks[f])
      BY <3>3, <3>5, <3>6, RelaxedType DEF StackInv
    <3>8. lowlinks'[p] = lowlinks[p]
      BY <1>2, <3>3, <3>4, <3>6, <3>7 DEF Smaller
    <3> QED BY <3>7, <3>8
  <2> QED BY <1>3, <2>1, <2>2
\* Whatever stays on the stack was entered before f, and keeps its owner.
<1>9. ASSUME NEW h \in onStack' PROVE h \in onStack /\ h \notin C /\ h \in Files
                                       /\ indices[h] < indices[f]
  <2>1. h \in onStack /\ h \notin C
    BY <1>5, <1>9
  <2>2. indices[h] \in Nat /\ indices[f] \in Nat /\ h \in Files
    BY <1>3, <2>1, Standing
  <2> QED BY <2>1, <2>2 DEF Segment
<1>10. ASSUME NEW h \in onStack', NEW i PROVE Owner(h, i)' <=> Owner(h, i)
  <2>1. indices[h] \in Nat /\ indices[f] \in Nat /\ indices[h] < indices[f]
    BY <1>3, <1>9, <1>10, Standing
  <2>2. Owner(h, i) => Owner(h, i)'
    <3> SUFFICES ASSUME Owner(h, i) PROVE Owner(h, i)'
      OBVIOUS
    <3>1. i \in 1..n /\ i # n
      BY <1>3, <2>1 DEF Owner
    <3>2. i \in 1..n - 1
      BY <1>3, <3>1, LastOrBelow
    <3> QED BY <1>6, <1>7, <3>2 DEF Owner
  <2>3. Owner(h, i)' => Owner(h, i)
    <3> SUFFICES ASSUME Owner(h, i)' PROVE Owner(h, i)
      OBVIOUS
    <3>1. i \in 1..n - 1
      BY <1>7 DEF Owner
    <3>2. \A j \in 1..n : j \in 1..n - 1 \/ j = n
      BY <1>3, LastOrBelow
    <3> QED BY <1>3, <1>6, <1>7, <2>1, <3>1, <3>2 DEF Owner
  <2> QED BY <2>2, <2>3
<1>11. ASSUME NEW i \in 1..n - 1, NEW g, Bounded(i, g) PROVE Bounded(i, g)'
  <2>1. FileAt(i) \in Files
    BY <1>7, Standing
  <2>2. FileAt(i)' = FileAt(i) /\ lowlinks'[FileAt(i)] = lowlinks[FileAt(i)]
    BY <1>7, <1>8, <2>1
  <2> QED BY <1>5, <1>6, <1>11, <2>2 DEF Bounded
<1>12. FramesReach' /\ Depths'
  BY <1>6, <1>7 DEF PathInv, FramesReach, Depths
<1>13. Owned'
  <2> SUFFICES ASSUME NEW h \in onStack'
               PROVE  \E i \in 1..n - 1 : Owner(h, i)' /\ Reaches(graph, FileAt(i)', h)
    BY <1>6, <1>7 DEF Owned
  <2>1. PICK i \in DOMAIN frames : Owner(h, i) /\ Reaches(graph, FileAt(i), h)
    BY <1>9 DEF PathInv, Owned
  <2>2. Owner(h, i)'
    BY <1>10, <2>1
  <2>3. i \in 1..n - 1
    BY <1>7, <2>2 DEF Owner
  <2> QED BY <1>7, <2>1, <2>2, <2>3
<1>14. Witness'
  <2> SUFFICES ASSUME NEW h \in onStack'
               PROVE  \E g \in onStack' : /\ indices[g] = lowlinks'[h]
                                          /\ indices[g] <= indices[h]
                                          /\ Reaches(graph, h, g)
    BY <1>6 DEF Witness
  <2>1. PICK g \in onStack : /\ indices[g] = lowlinks[h] /\ indices[g] <= indices[h]
                             /\ Reaches(graph, h, g)
    BY <1>9 DEF PathInv, Witness
  <2>2. g \in onStack'
    <3>1. indices[g] \in Nat /\ indices[h] \in Nat /\ indices[f] \in Nat /\ indices[h] < indices[f]
      BY <1>3, <1>9, <2>1, Standing
    <3>2. g \notin C
      BY <2>1, <3>1 DEF Segment
    <3> QED BY <1>5, <2>1, <3>2
  <2> QED BY <1>8, <1>9, <2>1, <2>2
<1>15. \A h \in (onStack \ FrameFiles)' : h \in onStack' /\ h \in onStack \ FrameFiles
  <2> SUFFICES ASSUME NEW h \in onStack', h \in FrameFiles PROVE h \in FrameFiles'
    BY <1>9
  <2>1. PICK i \in 1..n : FileAt(i) = h
    BY <1>3 DEF FrameFiles
  <2>2. i # n
    BY <1>3, <1>4, <1>9, <2>1
  <2>3. i \in 1..n - 1
    BY <1>3, <2>1, <2>2, LastOrBelow
  <2> QED BY <1>7, <2>1, <2>3 DEF FrameFiles
<1>16. LeftBelow'
  BY <1>6, <1>8, <1>9, <1>15 DEF PathInv, LeftBelow
<1>17. LeftEdges'
  <2> SUFFICES ASSUME NEW h \in (onStack \ FrameFiles)', NEW g \in graph[h],
                      NEW i \in 1..n - 1, Owner(h, i)'
               PROVE  Bounded(i, g)'
    BY <1>6, <1>7 DEF LeftEdges
  <2>1. h \in onStack \ FrameFiles /\ Owner(h, i)
    BY <1>10, <1>15
  <2>2. Bounded(i, g)
    BY <1>7, <2>1 DEF PathInv, LeftEdges
  <2> QED BY <1>11, <2>2
<1>18. SeenEdges'
  <2> SUFFICES ASSUME NEW i \in 1..n - 1, NEW k \in DOMAIN imports[FileAt(i)],
                      k < frames[i].next, NEW g, g = imports[FileAt(i)][k]
               PROVE  Bounded(i, g)' \/ (i < n - 1 /\ g = frames'[i + 1].file)
    BY <1>6, <1>7 DEF SeenEdges, FileAt
  <2>1. Bounded(i, g) \/ g = FileAt(i + 1)
    BY <1>7 DEF PathInv, SeenEdges
  <2>2. CASE Bounded(i, g)
    BY <1>11, <2>2
  <2>3. CASE i = n - 1 /\ g = FileAt(i + 1)
    <3>1. g = f
      BY <1>3, <2>3
    <3> QED BY <1>4, <1>5, <3>1 DEF Bounded
  <2>4. CASE i < n - 1 /\ g = FileAt(i + 1)
    <3>1. i + 1 \in 1..n - 1
      BY <1>3, <2>4
    <3> QED BY <1>7, <2>4, <3>1 DEF FileAt
  <2>5. i = n - 1 \/ i < n - 1
    <3>1. n \in Nat /\ i \in 1..n
      BY <1>3, <1>7
    <3> QED BY <3>1, LastOrBelow
  <2> QED BY <2>1, <2>2, <2>3, <2>4, <2>5
<1>19. Whole'
  <2>1. m \in Nat /\ DOMAIN sccs = 1..m /\ DOMAIN sccs' = 1..m + 1
    BY <1>5 DEF StackInv, TypeOK
  <2> SUFFICES ASSUME NEW i \in 1..m + 1
               PROVE  /\ sccs'[i] # {}
                      /\ \A h \in sccs'[i] :
                            /\ sccs'[i] = Component(graph, h)
                            /\ \A g \in graph[h] : \E j \in 1..i : g \in sccs'[j]
    BY <1>6, <2>1 DEF Whole
  <2>2. CASE i \in 1..m
    <3>1. \A j \in 1..i : j \in 1..m
      BY <2>1, <2>2
    <3> QED BY <1>5, <2>1, <2>2, <3>1 DEF PathInv, Whole
  <2>3. CASE i = m + 1
    <3>1. sccs'[i] = C
      BY <1>5, <2>3
    <3>2. ASSUME NEW h \in C, NEW g \in graph[h] PROVE \E j \in 1..i : g \in sccs'[j]
      <4>1. CASE g \in C
        BY <2>1, <2>3, <3>1, <4>1
      <4>2. CASE g \in Emitted
        <5>1. PICK j \in 1..m : g \in sccs[j]
          BY <2>1, <4>2 DEF Emitted
        <5> QED BY <1>5, <2>1, <2>3, <5>1
      <4> QED BY <1>4, <3>2, <4>1, <4>2
    <3> QED BY <1>4, <3>1, <3>2
  <2> QED BY <2>1, <2>2, <2>3
<1>20. RootsNumbered'
  BY <1>6 DEF PathInv, RootsNumbered, Indexed, discovery
<1> QED BY <1>12, <1>13, <1>14, <1>16, <1>17, <1>18, <1>19, <1>20 DEF PathInv

\* A frame whose file belongs to a component with a lower root: the frame
\* below takes over its files, and its lowlink if that is lower.
LEMMA FinishInnerPath ==
    ASSUME StackInv, Untruncated, PathInv, FinishInner
    PROVE  PathInv'
<1> DEFINE n == Len(frames)
<1>1. PICK f : f = Top.file
  OBVIOUS
<1>2. /\ frames # <<>> /\ ~HasSuccessor /\ lowlinks[f] # indices[f] /\ LeaveFrame
      /\ UNCHANGED <<stack, onStack, sccs>>
  BY <1>1 DEF FinishInner
<1>3. n \in DOMAIN frames /\ DOMAIN frames = 1..n /\ n \in Nat \ {0} /\ f = FileAt(n)
      /\ f \in Files /\ f \in onStack
  BY <1>1, <1>2, TopType, Standing DEF StackInv
<1>4. /\ UNCHANGED <<input, discovery, root, index, indices>>
      /\ graph' = graph /\ imports' = imports /\ Emitted' = Emitted
      /\ graph \in [Files -> SUBSET Files]
  BY <1>2, GraphType DEF LeaveFrame, graph, input, Emitted, StackInv
<1>5. PICK low \in onStack : /\ indices[low] = lowlinks[f] /\ indices[low] < indices[f]
                             /\ Reaches(graph, f, low)
  <2>1. PICK low \in onStack : /\ indices[low] = lowlinks[f] /\ indices[low] <= indices[f]
                               /\ Reaches(graph, f, low)
    BY <1>3 DEF PathInv, Witness
  <2>2. indices[low] \in Nat /\ indices[f] \in Nat
    BY <1>3, <2>1, Standing
  <2> QED BY <1>2, <2>1, <2>2
\* The lowest frame is never left this way.
<1>6. n > 1
  <2> SUFFICES ASSUME n = 1 PROVE FALSE
    BY <1>3
  <2>1. PICK i \in DOMAIN frames : Owner(low, i)
    BY <1>5 DEF PathInv, Owned
  <2>2. i = n
    BY <1>3, <2>1
  <2>3. indices[f] <= indices[low] /\ indices[f] \in Nat /\ indices[low] \in Nat
    BY <1>3, <1>5, <2>1, <2>2, Standing DEF Owner
  <2> QED BY <1>5, <2>3
<1>7. PICK p : p = FileAt(n - 1)
  OBVIOUS
<1>8. /\ n - 1 \in 1..n - 1 /\ n - 1 \in DOMAIN frames /\ n - 1 < n /\ n - 1 <= n
      /\ p \in Files /\ p \in onStack /\ p # f /\ indices[p] < indices[f]
      /\ indices[p] \in Nat /\ indices[f] \in Nat /\ Reaches(graph, p, f)
  <2>1. n - 1 \in 1..n - 1 /\ n - 1 \in DOMAIN frames /\ n - 1 < n /\ n - 1 <= n
    BY <1>3, <1>6
  <2>2. p \in Files /\ p \in onStack /\ indices[p] < indices[f]
    BY <1>3, <1>7, <2>1, Standing DEF StackInv, Ascending
  <2>3. indices[p] \in Nat /\ indices[f] \in Nat
    BY <1>3, <2>2, Standing
  <2>4. Reaches(graph, p, f)
    BY <1>3, <1>7, <2>1 DEF PathInv, FramesReach
  <2> QED BY <2>1, <2>2, <2>3, <2>4
<1>9. /\ Len(frames') = n - 1 /\ DOMAIN frames' = 1..n - 1
      /\ \A i \in 1..n - 1 : frames'[i] = frames[i] /\ FileAt(i)' = FileAt(i)
      /\ \A i \in 1..n - 1 : i \in 1..n /\ i \in DOMAIN frames /\ i < n
  <2>1. /\ frames' \in Seq(FrameType) /\ Len(frames') = n - 1
        /\ \A i \in 1..n - 1 : frames'[i] = frames[i]
    BY <1>2, LeaveEffect DEF StackInv
  <2>2. DOMAIN frames' = 1..n - 1
    BY <1>3, <2>1
  <2> QED BY <1>3, <2>1, <2>2 DEF FileAt
<1>10. /\ \A g \in Files : g # p => lowlinks'[g] = lowlinks[g]
       /\ lowlinks'[p] \in {lowlinks[p], lowlinks[f]}
       /\ lowlinks'[p] <= lowlinks[p] /\ lowlinks'[p] <= lowlinks[f]
       /\ lowlinks'[p] \in Int /\ lowlinks[p] \in Int /\ lowlinks[f] \in Int
  <2>1. lowlinks' = Relaxed(p, lowlinks[f])
    BY <1>1, <1>2, <1>6, <1>7, LeaveEffect DEF StackInv
  <2>2. lowlinks[f] \in Nat \cup {Unset} /\ lowlinks[p] \in Int /\ lowlinks[f] \in Int
    BY <1>3, <1>8, Standing DEF StackInv, TypeOK
  <2> QED BY <1>8, <2>1, <2>2, RelaxedType DEF StackInv
\* The top's files go to the frame below, the others keep their owner.
<1>11. ASSUME NEW h \in onStack, NEW i, Owner(h, i), i # n PROVE Owner(h, i)'
  <2>1. i \in 1..n - 1
    BY <1>3, <1>11, LastOrBelow DEF Owner
  <2> QED BY <1>4, <1>9, <1>11, <2>1 DEF Owner
<1>12. ASSUME NEW h \in onStack, Owner(h, n), NEW i, i = n - 1 PROVE Owner(h, i)'
  <2>1. indices[p] <= indices[h]
    <3>1. indices[f] <= indices[h] /\ indices[h] \in Nat
      BY <1>3, <1>12, Standing DEF Owner
    <3> QED BY <1>8, <3>1
  <2>2. ASSUME NEW j \in 1..n - 1 PROVE ~(i < j)
    <3>1. n \in Nat /\ j \in 1..n
      BY <1>3, <1>9
    <3>2. j = n - 1 \/ j < n - 1
      BY <3>1, LastOrBelow
    <3> QED BY <1>12, <3>1, <3>2
  <2> QED BY <1>4, <1>7, <1>8, <1>9, <1>12, <2>1, <2>2 DEF Owner
<1>13. ASSUME NEW h \in onStack, NEW i, Owner(h, i)'
       PROVE  /\ i \in 1..n - 1
              /\ Owner(h, i) \/ (i = n - 1 /\ Owner(h, n))
  <2>1. /\ i \in 1..n - 1 /\ indices[FileAt(i)] <= indices[h]
        /\ \A j \in 1..n - 1 : i < j => indices[h] < indices[FileAt(j)]
    BY <1>4, <1>9, <1>13 DEF Owner
  <2>2. indices[h] \in Nat
    BY <1>13, Standing
  <2>3. CASE indices[h] < indices[f]
    <3>1. \A j \in 1..n : j \in 1..n - 1 \/ j = n
      BY <1>3, LastOrBelow
    <3> QED BY <1>3, <1>9, <2>1, <2>3, <3>1 DEF Owner
  <2>4. CASE indices[f] <= indices[h]
    <3>1. Owner(h, n)
      BY <1>3, <2>4 DEF Owner
    <3>2. ~(i < n - 1)
      BY <1>7, <1>8, <2>1, <2>2, <2>4
    <3>3. i = n - 1
      BY <1>3, <1>9, <2>1, <3>2, LastOrBelow
    <3> QED BY <2>1, <3>1, <3>3
  <2> QED BY <1>8, <2>2, <2>3, <2>4
<1>14. ASSUME NEW i \in 1..n - 1, NEW g, Bounded(i, g) PROVE Bounded(i, g)'
  <2>1. /\ FileAt(i) \in Files /\ lowlinks[FileAt(i)] \in Int
        /\ g \in onStack => indices[g] \in Int
    <3>1. FileAt(i) \in Files /\ FileAt(i) \in onStack
      BY <1>9, Standing
    <3> QED BY <3>1, Standing
  <2>2. FileAt(i)' = FileAt(i) /\ lowlinks'[FileAt(i)] <= lowlinks[FileAt(i)]
        /\ lowlinks'[FileAt(i)] \in Int
    BY <1>9, <1>10, <2>1
  <2>3. Bounded(i, g)' <=> g \in Emitted \/ (g \in onStack /\ lowlinks'[FileAt(i)] <= indices[g])
    BY <1>2, <1>4, <2>2 DEF Bounded
  <2> QED BY <1>14, <2>1, <2>2, <2>3 DEF Bounded
<1>15. ASSUME NEW i, i = n - 1, NEW g, Bounded(n, g) PROVE Bounded(i, g)'
  <2>1. FileAt(i)' = p /\ (g \in onStack => indices[g] \in Int)
    BY <1>7, <1>8, <1>9, <1>15, Standing
  <2>2. Bounded(i, g)' <=> g \in Emitted \/ (g \in onStack /\ lowlinks'[p] <= indices[g])
    BY <1>2, <1>4, <2>1 DEF Bounded
  <2> QED BY <1>3, <1>10, <1>15, <2>1, <2>2 DEF Bounded
<1>16. FramesReach' /\ Depths'
  BY <1>4, <1>9 DEF PathInv, FramesReach, Depths
<1>17. Owned'
  <2> SUFFICES ASSUME NEW h \in onStack
               PROVE  \E i \in 1..n - 1 : Owner(h, i)' /\ Reaches(graph, FileAt(i)', h)
    BY <1>2, <1>4, <1>9 DEF Owned
  <2>1. PICK i \in DOMAIN frames : Owner(h, i) /\ Reaches(graph, FileAt(i), h)
    BY DEF PathInv, Owned
  <2>2. CASE i # n
    <3>1. i \in 1..n - 1
      BY <1>3, <2>1, <2>2, LastOrBelow
    <3> QED BY <1>9, <1>11, <2>1, <2>2, <3>1
  <2>3. CASE i = n
    <3>1. Reaches(graph, p, h)
      <4>1. h \in Files
        BY Standing
      <4> QED BY <1>3, <1>4, <1>8, <2>1, <2>3, <4>1, ReachesTransitive
    <3>2. PICK q \in 1..n - 1 : q = n - 1
      BY <1>8
    <3>3. Owner(h, q)'
      BY <1>12, <2>1, <2>3, <3>2
    <3>4. FileAt(q)' = p
      BY <1>7, <1>9, <3>2
    <3> QED BY <3>1, <3>2, <3>3, <3>4
  <2> QED BY <2>2, <2>3
<1>18. Witness'
  <2> SUFFICES ASSUME NEW h \in onStack
               PROVE  \E g \in onStack : /\ indices[g] = lowlinks'[h]
                                         /\ indices[g] <= indices[h]
                                         /\ Reaches(graph, h, g)
    BY <1>2, <1>4 DEF Witness
  <2>1. CASE lowlinks'[h] = lowlinks[h]
    BY <2>1 DEF PathInv, Witness
  <2>2. CASE h = p /\ lowlinks'[h] = lowlinks[f]
    <3>1. lowlinks[p] <= indices[p]
      BY <1>8 DEF PathInv, Witness
    <3>2. indices[low] <= indices[h]
      BY <1>5, <1>8, <1>10, <2>2, <3>1
    <3>3. Reaches(graph, h, low)
      <4>1. low \in Files
        BY <1>5, Standing
      <4> QED BY <1>3, <1>4, <1>5, <1>8, <2>2, <4>1, ReachesTransitive
    <3> QED BY <1>5, <2>2, <3>2, <3>3
  <2>3. h \in Files
    BY Standing
  <2> QED BY <1>10, <2>1, <2>2, <2>3
<1>19. \A h \in (onStack \ FrameFiles)' : /\ h \in onStack /\ h # p /\ h \in Files
                                          /\ h \notin FrameFiles \/ h = f
  <2> SUFFICES ASSUME NEW h \in onStack, h \notin FrameFiles'
               PROVE  h # p /\ h \in Files /\ (h \notin FrameFiles \/ h = f)
    BY <1>2
  <2>1. \A i \in 1..n - 1 : FileAt(i) # h
    BY <1>9 DEF FrameFiles
  <2>2. h # p
    BY <1>7, <1>8, <2>1
  <2>3. \A i \in 1..n : i \in 1..n - 1 \/ i = n
    BY <1>3, LastOrBelow
  <2>4. h \in FrameFiles => h = f
    BY <1>3, <2>1, <2>3 DEF FrameFiles
  <2> QED BY <2>2, <2>4, Standing
<1>20. LeftBelow'
  <2> SUFFICES ASSUME NEW h \in (onStack \ FrameFiles)' PROVE lowlinks'[h] < indices[h]
    BY <1>4 DEF LeftBelow
  <2>1. h \in onStack /\ lowlinks'[h] = lowlinks[h] /\ (h \notin FrameFiles \/ h = f)
    BY <1>10, <1>19
  <2>2. lowlinks[h] < indices[h]
    BY <1>5, <2>1 DEF PathInv, LeftBelow
  <2> QED BY <2>1, <2>2
<1>21. LeftEdges'
  <2> SUFFICES ASSUME NEW h \in (onStack \ FrameFiles)', NEW g \in graph[h],
                      NEW i \in 1..n - 1, Owner(h, i)'
               PROVE  Bounded(i, g)'
    BY <1>4, <1>9 DEF LeftEdges
  <2>1. h \in onStack /\ (h \notin FrameFiles \/ h = f)
    BY <1>19
  <2>2. CASE h = f
    <3>1. Owner(f, n)
      BY <1>3, <1>8 DEF Owner
    <3>2. i = n - 1
      <4>1. ~Owner(f, i)
        BY <1>3, <1>9, <3>1, OneOwner
      <4> QED BY <1>13, <2>1, <2>2, <4>1
    <3>3. PICK k \in DOMAIN imports[f] : imports[f][k] = g
      BY <1>3, <2>2, Standing
    <3>4. k < frames[n].next
      <4>1. imports[f] \in Seq(Files) /\ Top = frames[n] /\ Top.next \in Nat
        BY <1>2, <1>3, TopType DEF StackInv, TypeOK, FrameType
      <4>2. ~(Top.next <= Len(imports[f]))
        BY <1>1, <1>2 DEF HasSuccessor
      <4> QED BY <3>3, <4>1, <4>2
    <3>5. Bounded(n, g)
      <4>1. ~(n < n)
        BY <1>3
      <4> QED BY <1>3, <3>3, <3>4, <4>1 DEF PathInv, SeenEdges
    <3> QED BY <1>15, <3>2, <3>5
  <2>3. CASE h \notin FrameFiles
    <3>1. CASE Owner(h, i)
      <4>1. Bounded(i, g)
        BY <1>9, <2>1, <2>3, <3>1 DEF PathInv, LeftEdges
      <4> QED BY <1>14, <4>1
    <3>2. CASE i = n - 1 /\ Owner(h, n)
      <4>1. Bounded(n, g)
        BY <1>3, <2>1, <2>3, <3>2 DEF PathInv, LeftEdges
      <4> QED BY <1>15, <3>2, <4>1
    <3> QED BY <1>13, <2>1, <3>1, <3>2
  <2> QED BY <2>1, <2>2, <2>3
<1>22. SeenEdges'
  <2> SUFFICES ASSUME NEW i \in 1..n - 1, NEW k \in DOMAIN imports[FileAt(i)],
                      k < frames[i].next, NEW g, g = imports[FileAt(i)][k]
               PROVE  Bounded(i, g)' \/ (i < n - 1 /\ g = frames'[i + 1].file)
    BY <1>4, <1>9 DEF SeenEdges, FileAt
  <2>1. Bounded(i, g) \/ g = FileAt(i + 1)
    BY <1>9 DEF PathInv, SeenEdges
  <2>2. CASE Bounded(i, g)
    BY <1>14, <2>2
  <2>3. CASE i = n - 1 /\ g = FileAt(i + 1)
    <3>1. g = f
      BY <1>3, <2>3
    <3>2. FileAt(i)' = p
      BY <1>7, <1>9, <2>3
    <3>3. lowlinks'[p] <= indices[f]
      BY <1>5, <1>8, <1>10
    <3> QED BY <1>2, <1>3, <1>4, <3>1, <3>2, <3>3 DEF Bounded
  <2>4. CASE i < n - 1 /\ i + 1 \in 1..n - 1 /\ g = FileAt(i + 1)
    BY <1>9, <2>4 DEF FileAt
  <2>5. i = n - 1 \/ (i < n - 1 /\ i + 1 \in 1..n - 1)
    <3>1. n \in Nat /\ i \in 1..n
      BY <1>3, <1>9
    <3> QED BY <3>1, LastOrBelow
  <2> QED BY <2>1, <2>2, <2>3, <2>4, <2>5
<1>23. Whole' /\ RootsNumbered'
  BY <1>2, <1>4 DEF PathInv, Whole, RootsNumbered, Indexed, discovery
<1> QED BY <1>16, <1>17, <1>18, <1>20, <1>21, <1>22, <1>23 DEF PathInv

LEMMA PathStep ==
    ASSUME StackInv, Untruncated, PathInv, [Next]_vars
    PROVE  PathInv'
BY IdlePath, EdgePath, EnterPath, FinishRootPath, FinishInnerPath, NeverTruncated DEF Next

-----------------------------------------------------------------------------
(* Nothing is discovered that the start file does not reach, and nothing   *)
(* that it reaches is forgotten.                                           *)

Known == ToFiles(toProcess) \cup ToFiles(visited)

DiscoveryInv ==
    /\ Known \cup onStack \cup Emitted \subseteq Reachable(graph, start)
    /\ start \in Known
    /\ \A k \in DOMAIN visited : \A m \in DOMAIN imports[visited[k]] :
          k < Len(visited) \/ m < cursor => imports[visited[k]][m] \in Known

TarjanInv == StackInv /\ DiscoveryInv /\ (Untruncated => PathInv)

LEMMA LastFile ==
    ASSUME NEW seq \in Seq(Files), seq # <<>>
    PROVE  /\ Len(seq) \in DOMAIN seq /\ DOMAIN seq = 1..Len(seq)
           /\ ToFiles(seq) = ToFiles(SubSeq(seq, 1, Len(seq) - 1)) \cup {seq[Len(seq)]}
<1> DEFINE n == Len(seq)
           rest == SubSeq(seq, 1, n - 1)
<1>1. n \in Nat \ {0} /\ DOMAIN seq = 1..n
  OBVIOUS
<1>2. rest \in Seq(Files) /\ Len(rest) = n - 1 /\ \A i \in 1..n - 1 : rest[i] = seq[i]
  <2>1. n - 1 \in 0..n
    BY <1>1
  <2> QED BY <2>1, Prefix
<1>3. DOMAIN rest = 1..n - 1 /\ n \in 1..n /\ 1..n - 1 \subseteq 1..n
  BY <1>1, <1>2
<1>4. \A i \in 1..n : i = n \/ i \in 1..n - 1
  BY <1>1, LastOrBelow
<1> HIDE DEF n, rest
<1>5. ToFiles(seq) = ToFiles(rest) \cup {seq[n]}
  BY <1>1, <1>2, <1>3, <1>4 DEF ToFiles
<1> QED BY <1>1, <1>3, <1>5 DEF n, rest

LEMMA AddedFile ==
    ASSUME NEW seq \in Seq(Files), NEW f \in Files
    PROVE  ToFiles(Append(seq, f)) = ToFiles(seq) \cup {f}
<1> DEFINE longer == Append(seq, f)
<1>1. /\ longer \in Seq(Files) /\ Len(longer) = Len(seq) + 1
      /\ \A i \in 1..Len(seq) : longer[i] = seq[i]
      /\ longer[Len(seq) + 1] = f
  BY Appended
<1> HIDE DEF longer
<1>2. /\ DOMAIN seq = 1..Len(seq) /\ DOMAIN longer = 1..Len(seq) + 1
      /\ Len(seq) \in Nat /\ Len(seq) + 1 \in 1..Len(seq) + 1
  BY <1>1
<1>3. \A i \in 1..Len(seq) + 1 : i \in 1..Len(seq) \/ i = Len(seq) + 1
  BY <1>2
<1>4. 1..Len(seq) \subseteq 1..Len(seq) + 1
  BY <1>2
<1>5. ToFiles(longer) = ToFiles(seq) \cup {f}
  BY <1>1, <1>2, <1>3, <1>4 DEF ToFiles
<1> QED BY <1>5 DEF longer

LEMMA InitTarjan == Init => TarjanInv
<1> SUFFICES ASSUME Init PROVE TarjanInv
  OBVIOUS
<1>1. StackInv
  BY InitStack
<1>2. start \in Files /\ graph \in [Files -> SUBSET Files]
  BY <1>1, GraphType DEF StackInv, TypeOK
<1>3. toProcess = <<start>> /\ visited = <<>> /\ onStack = {} /\ frames = <<>> /\ sccs = <<>>
      /\ root = 1
  BY DEF Init
<1>4. Known = {start} /\ Emitted = {}
  BY <1>3 DEF Known, ToFiles, Emitted
<1>5. DiscoveryInv
  <2>1. start \in Reachable(graph, start)
    BY <1>2, ReachableClosed
  <2> QED BY <1>3, <1>4, <2>1 DEF DiscoveryInv
<1>6. PathInv
  <2>1. FramesReach /\ Depths /\ Owned /\ Witness /\ LeftBelow /\ LeftEdges /\ SeenEdges
    BY <1>3 DEF FramesReach, Depths, Owned, Witness, LeftBelow, LeftEdges, SeenEdges
  <2>2. Whole /\ RootsNumbered
    BY <1>3 DEF Whole, RootsNumbered
  <2> QED BY <2>1, <2>2 DEF PathInv
<1> QED BY <1>1, <1>5, <1>6 DEF TarjanInv

\* The steps of the discovery walk.
LEMMA WalkDiscovery ==
    ASSUME StackInv, DiscoveryInv, SkipVisited \/ Visit \/ Scan
    PROVE  DiscoveryInv'
<1>1. /\ onStack' = onStack /\ Emitted' = Emitted /\ imports' = imports /\ graph' = graph
      /\ start' = start
  BY DEF SkipVisited, Visit, Scan, Emitted, graph, input, numbering
<1>2. toProcess \in Seq(Files) /\ visited \in Seq(Files) /\ cursor \in Nat \ {0}
      /\ imports \in [Files -> Seq(Files)] /\ start \in Files
  BY DEF StackInv, TypeOK
<1>3. ~Scanning => \A k \in DOMAIN visited : \A m \in DOMAIN imports[visited[k]] :
                      imports[visited[k]][m] \in Known
  <2> SUFFICES ASSUME ~Scanning, NEW k \in DOMAIN visited, NEW m \in DOMAIN imports[visited[k]]
               PROVE  k < Len(visited) \/ m < cursor
    BY DEF DiscoveryInv
  <2>1. k \in 1..Len(visited) /\ visited # <<>> /\ visited[k] \in Files
    BY <1>2
  <2>2. imports[visited[k]] \in Seq(Files)
    BY <1>2, <2>1
  <2>3. m \in 1..Len(imports[visited[k]])
    BY <2>2
  <2>4. k = Len(visited) => m < cursor
    BY <1>2, <2>1, <2>2, <2>3 DEF Scanning, Scanned
  <2> QED BY <1>2, <2>1, <2>4
<1>4. CASE SkipVisited
  <2>1. toProcess # <<>> /\ NextFile \in ToFiles(visited) /\ toProcess' = RestToProcess
        /\ visited' = visited /\ cursor' = cursor
    BY <1>4 DEF SkipVisited
  <2>2. Known' = Known
    BY <1>2, <2>1, LastFile DEF Known, NextFile, RestToProcess
  <2> QED BY <1>1, <2>1, <2>2 DEF DiscoveryInv
<1>5. CASE Visit
  <2>1. toProcess # <<>> /\ toProcess' = RestToProcess /\ ~Scanning
        /\ visited' = Append(visited, NextFile) /\ cursor' = 1
    BY <1>5 DEF Visit
  <2>2. NextFile \in Files
    BY <1>2, <2>1, LastFile DEF NextFile
  <2>3. Known' = Known
    <3>1. ToFiles(visited') = ToFiles(visited) \cup {NextFile}
      BY <1>2, <2>1, <2>2, AddedFile
    <3>2. ToFiles(toProcess) = ToFiles(toProcess') \cup {NextFile}
      BY <1>2, <2>1, LastFile DEF NextFile, RestToProcess
    <3> QED BY <3>1, <3>2 DEF Known
  <2>4. ASSUME NEW k \in DOMAIN visited', NEW m \in DOMAIN imports[visited'[k]],
               k < Len(visited') \/ m < cursor'
        PROVE  imports[visited'[k]][m] \in Known
    <3>1. /\ visited' \in Seq(Files) /\ Len(visited') = Len(visited) + 1
          /\ \A i \in 1..Len(visited) : visited'[i] = visited[i]
      BY <1>2, <2>1, <2>2, Appended
    <3>2. k \in 1..Len(visited) + 1 /\ Len(visited) \in Nat /\ visited'[k] \in Files
      BY <1>2, <3>1
    <3>3. ~(m < cursor')
      <4>1. imports[visited'[k]] \in Seq(Files)
        BY <1>2, <3>2
      <4> QED BY <2>1, <4>1
    <3>4. k \in 1..Len(visited)
      BY <2>4, <3>1, <3>2, <3>3
    <3> QED BY <1>2, <1>3, <2>1, <3>1, <3>4
  <2> QED BY <1>1, <2>3, <2>4 DEF DiscoveryInv
<1>6. CASE Scan
  <2>1. Scanning /\ visited' = visited /\ cursor' = cursor + 1
        /\ toProcess' = IF Scanned[cursor] \in ToFiles(visited)
                        THEN toProcess ELSE Append(toProcess, Scanned[cursor])
    BY <1>6 DEF Scan
  <2>2. PICK f : f = visited[Len(visited)]
    OBVIOUS
  <2>3. f \in Files /\ f \in ToFiles(visited) /\ Scanned = imports[f] /\ Scanned \in Seq(Files)
    BY <1>2, <2>1, <2>2, LastFile DEF Scanning, Scanned, ToFiles
  <2>4. PICK g : g = Scanned[cursor]
    OBVIOUS
  <2>5. g \in Files /\ g \in graph[f]
    <3>1. cursor \in DOMAIN Scanned
      BY <1>2, <2>1, <2>3 DEF Scanning
    <3> QED BY <2>3, <2>4, <3>1 DEF graph, ToFiles
  <2>6. Known' = Known \cup {g}
    BY <1>2, <2>1, <2>4, <2>5, AddedFile DEF Known
  <2>7. g \in Reachable(graph, start)
    <3>1. f \in Reachable(graph, start)
      BY <2>3 DEF DiscoveryInv, Known
    <3>2. graph \in [Files -> SUBSET Files]
      BY GraphType DEF StackInv
    <3>3. Closed(graph, Reachable(graph, start))
      BY <1>2, <3>2, ReachableClosed
    <3> QED BY <2>5, <3>1, <3>3 DEF Closed
  <2>8. ASSUME NEW k \in DOMAIN visited, NEW m \in DOMAIN imports[visited[k]],
               k < Len(visited) \/ m < cursor + 1
        PROVE  imports[visited[k]][m] \in Known \cup {g}
    <3>1. k \in 1..Len(visited) /\ visited[k] \in Files
      BY <1>2
    <3>2. imports[visited[k]] \in Seq(Files)
      BY <1>2, <3>1
    <3>3. m \in Nat
      BY <3>2
    <3>4. CASE k < Len(visited) \/ m < cursor
      BY <3>4 DEF DiscoveryInv
    <3>5. CASE k = Len(visited) /\ m = cursor
      BY <2>2, <2>3, <2>4, <3>5
    <3>6. (k < Len(visited) \/ m < cursor) \/ (k = Len(visited) /\ m = cursor)
      BY <1>2, <2>8, <3>1, <3>3
    <3> QED BY <3>4, <3>5, <3>6
  <2> QED BY <1>1, <2>1, <2>6, <2>7, <2>8 DEF DiscoveryInv
<1> QED BY <1>4, <1>5, <1>6

LEMMA DiscoveryStep ==
    ASSUME StackInv, DiscoveryInv, [Next]_vars
    PROVE  DiscoveryInv'
<1>1. ASSUME UNCHANGED <<input, discovery>>,
             onStack' \cup Emitted' \subseteq Reachable(graph, start)
      PROVE  DiscoveryInv'
  <2>1. graph' = graph /\ start' = start /\ imports' = imports /\ Known' = Known
    BY <1>1 DEF graph, input, discovery, Known
  <2>2. visited' = visited /\ cursor' = cursor
    BY <1>1 DEF discovery
  <2> QED BY <1>1, <2>1, <2>2 DEF DiscoveryInv
<1>2. CASE SkipVisited \/ Visit \/ Scan
  BY <1>2, WalkDiscovery
<1>3. CASE SkipRoot \/ Truncate \/ RelaxToStack \/ PassSuccessor \/ FinishInner \/ UNCHANGED vars
  <2>1. UNCHANGED <<input, discovery, onStack, sccs>>
    BY <1>3 DEF SkipRoot, Truncate, RelaxToStack, PassSuccessor, FinishInner, LeaveFrame,
                vars, numbering
  <2>2. Emitted' = Emitted
    BY <2>1 DEF Emitted
  <2> QED BY <1>1, <2>1, <2>2 DEF DiscoveryInv
<1>4. CASE StartRoot \/ Descend
  <2>1. PICK f \in Files, depth \in Nat, below \in Seq(FrameType) :
           EnteredOver(f, depth, below)
    BY <1>4, Entered
  <2>2. onStack' = onStack \cup {f}
    BY <2>1 DEF EnteredOver, Enter
  <2>3. UNCHANGED <<input, discovery, sccs>>
    BY <1>4 DEF StartRoot, Descend
  <2>4. Emitted' = Emitted
    BY <2>3 DEF Emitted
  <2>5. f \in Reachable(graph, start)
    <3>1. CASE Len(frames) = 0
      BY <2>1, <3>1 DEF EnteredOver, DiscoveryInv, Known
    <3>2. CASE Len(frames) > 0
      <4>1. HasSuccessor /\ f = Successor
        BY <2>1, <3>2 DEF EnteredOver
      <4>2. f \in graph[Top.file]
        BY <4>1, SuccessorType DEF StackInv
      <4>3. Top.file \in onStack
        BY <4>1, TopType, Standing DEF HasSuccessor, StackInv
      <4>4. Closed(graph, Reachable(graph, start))
        <5>1. graph \in [Files -> SUBSET Files] /\ start \in Files
          BY GraphType DEF StackInv, TypeOK
        <5> QED BY <5>1, ReachableClosed
      <4> QED BY <4>2, <4>3, <4>4 DEF DiscoveryInv, Closed
    <3>3. Len(frames) \in Nat
      BY Standing
    <3> QED BY <3>1, <3>2, <3>3
  <2> QED BY <1>1, <2>2, <2>3, <2>4, <2>5 DEF DiscoveryInv
<1>5. CASE FinishRoot
  <2>1. UNCHANGED <<input, discovery>> /\ PopComponent(Top.file) /\ frames # <<>>
    BY <1>5 DEF FinishRoot, LeaveFrame
  <2>2. Top.file \in onStack
    BY <2>1, TopType, Standing DEF StackInv
  <2>3. Emitted' = Emitted \cup Segment(Top.file) /\ onStack' = onStack \ Segment(Top.file)
    BY <2>1, <2>2, PopEffect
  <2> QED BY <1>1, <2>1, <2>3 DEF DiscoveryInv, Segment
<1> QED BY <1>2, <1>3, <1>4, <1>5 DEF Next

LEMMA TarjanStep == ASSUME TarjanInv, [Next]_vars PROVE TarjanInv'
<1>1. StackInv' /\ DiscoveryInv'
  BY StackStep, DiscoveryStep DEF TarjanInv
<1>2. Untruncated' => Untruncated
  BY DEF Untruncated, Next, vars, input, SkipVisited, Visit, Scan, StartRoot, SkipRoot, Descend,
         Truncate, RelaxToStack, PassSuccessor, FinishRoot, FinishInner, LeaveFrame
<1>3. Untruncated' => PathInv'
  BY <1>2, PathStep DEF TarjanInv
<1> QED BY <1>1, <1>3 DEF TarjanInv

-----------------------------------------------------------------------------
(* The end of a computation, and each emission.                            *)

LEMMA AllEmitted ==
    ASSUME TarjanInv, PathInv, Done
    PROVE  Emitted = Reachable(graph, start)
<1> DEFINE found == ToFiles(visited)
<1>1. toProcess = <<>> /\ ~Scanning /\ frames = <<>> /\ root > Len(visited)
  BY DEF Done
<1>2. /\ visited \in Seq(Files) /\ Len(visited) \in Nat /\ DOMAIN visited = 1..Len(visited)
      /\ root \in Nat /\ cursor \in Nat /\ imports \in [Files -> Seq(Files)]
      /\ start \in Files /\ graph \in [Files -> SUBSET Files]
  BY GraphType DEF TarjanInv, StackInv, TypeOK
<1>3. Known = found
  BY <1>1 DEF Known, ToFiles
<1>4. found \subseteq Emitted
  <2>1. onStack = {}
    BY <1>1 DEF PathInv, Owned
  <2>2. root - 1 = Len(visited)
    BY <1>1, <1>2 DEF PathInv, RootsNumbered
  <2>3. \A k \in 1..Len(visited) : visited[k] \in Files /\ Indexed(visited[k])
    BY <1>2, <2>2 DEF PathInv, RootsNumbered
  <2> QED BY <1>2, <2>1, <2>3 DEF ToFiles, TarjanInv, StackInv, StackPartition
<1>5. found \in SUBSET Files /\ Closed(graph, found)
  <2>1. found \in SUBSET Files
    BY <1>2 DEF ToFiles
  <2> SUFFICES ASSUME NEW f \in found, NEW g \in graph[f] PROVE g \in found
    BY <2>1 DEF Closed
  <2>2. PICK k \in 1..Len(visited) : visited[k] = f
    BY <1>2 DEF ToFiles
  <2>3. f \in Files /\ imports[f] \in Seq(Files)
    BY <1>2, <2>1
  <2>4. PICK m \in DOMAIN imports[f] : imports[f][m] = g
    BY <2>3 DEF graph, ToFiles
  <2>5. m \in Nat /\ m <= Len(imports[f])
    BY <2>3, <2>4
  <2>6. k < Len(visited) \/ m < cursor
    <3>1. visited # <<>>
      BY <2>2
    <3>2. k = Len(visited) => Len(imports[f]) < cursor
      <4>1. k = Len(visited) => Scanned = imports[f]
        BY <2>2 DEF Scanned
      <4> QED BY <1>1, <1>2, <2>3, <3>1, <4>1 DEF Scanning
    <3>3. k = Len(visited) \/ k < Len(visited)
      <4>1. Len(visited) \in Nat
        BY <1>2
      <4>2. \A n \in Nat : \A i \in 1..n : i = n \/ i < n
        OBVIOUS
      <4> QED BY <2>2, <4>1, <4>2
    <3>4. m < cursor \/ ~(Len(imports[f]) < cursor)
      BY <1>2, <2>3, <2>5
    <3> QED BY <3>2, <3>3, <3>4
  <2> QED BY <1>2, <1>3, <2>2, <2>4, <2>6 DEF TarjanInv, DiscoveryInv
<1>6. Reachable(graph, start) \subseteq found
  <2>1. start \in found
    BY <1>3 DEF TarjanInv, DiscoveryInv
  <2> HIDE DEF found
  <2> QED BY <1>2, <1>5, <2>1, ReachableWithin
<1>7. Emitted \subseteq Reachable(graph, start)
  BY DEF TarjanInv, DiscoveryInv
<1> QED BY <1>4, <1>6, <1>7

LEMMA EndExact == ASSUME TarjanInv PROVE ExactDecomposition
<1> SUFFICES ASSUME Untruncated, Done
             PROVE  sccs \in EmissionOrders(graph, Reachable(graph, start))
  BY DEF ExactDecomposition
<1> DEFINE R == Reachable(graph, start)
           K == Components(graph, R)
           m == Len(sccs)
<1>1. PathInv /\ Whole /\ Emitted = R
  BY AllEmitted DEF TarjanInv, PathInv
<1>2. m \in Nat /\ DOMAIN sccs = 1..m /\ sccs = [i \in 1..m |-> sccs[i]]
  BY DEF TarjanInv, StackInv, TypeOK
<1>3. ASSUME NEW i \in 1..m PROVE sccs[i] \in K
  <2>1. PICK f : f \in sccs[i]
    BY <1>1, <1>2 DEF Whole
  <2>2. f \in R /\ sccs[i] = Component(graph, f)
    BY <1>1, <1>2, <2>1 DEF Whole, Emitted
  <2> QED BY <2>2 DEF Components
<1>4. ASSUME NEW C \in K PROVE \E i \in 1..m : sccs[i] = C
  <2>1. PICK f \in R : C = Component(graph, f)
    BY DEF Components
  <2>2. PICK i \in 1..m : f \in sccs[i]
    BY <1>1, <1>2 DEF Emitted
  <2> QED BY <1>1, <1>2, <2>1, <2>2 DEF Whole
<1>5. ASSUME NEW i \in 1..m, NEW j \in 1..m, i # j PROVE sccs[i] \cap sccs[j] = {}
  BY <1>2, <1>5 DEF TarjanInv, StackInv, StackPartition
<1>6. \A i, j \in 1..m : i # j => sccs[i] # sccs[j]
  BY <1>1, <1>2, <1>5 DEF Whole
<1>7. ASSUME NEW i \in 1..m, NEW j \in 1..m, i < j PROVE ~Imports(graph, sccs[i], sccs[j])
  <2> SUFFICES ASSUME NEW f \in sccs[i], NEW g \in graph[f], g \in sccs[j] PROVE FALSE
    BY DEF Imports
  <2>1. PICK l \in 1..i : g \in sccs[l]
    BY <1>1, <1>2 DEF Whole
  <2>2. l \in 1..m /\ l # j
    BY <1>2, <1>7
  <2> QED BY <1>5, <2>1, <2>2
<1>8. Cardinality(K) = m
  <2>1. sccs \in Bijection(1..m, K)
    <3>1. sccs \in [1..m -> K]
      BY <1>2, <1>3
    <3>2. IsInjective(sccs)
      BY <1>2, <1>6 DEF IsInjective
    <3> HIDE DEF K
    <3>3. sccs \in Injection(1..m, K)
      BY <3>1, <3>2 DEF Injection
    <3>4. sccs \in Surjection(1..m, K)
      BY <1>4, <3>1 DEF Surjection
    <3> QED BY <3>3, <3>4 DEF Bijection
  <2>2. ExistsBijection(1..m, K)
    BY <2>1 DEF ExistsBijection
  <2>3. IsFiniteSet(1..m) /\ Cardinality(1..m) = m
    <3>1. m \in Nat
      BY <1>2
    <3> HIDE DEF m
    <3> QED BY <3>1, FS_Interval
  <2> HIDE DEF K, m
  <2> QED BY <2>2, <2>3, FS_Bijection
<1>9. sccs \in [1..Cardinality(K) -> K]
  BY <1>2, <1>3, <1>8
<1>10. \A C \in K : \E i \in DOMAIN sccs : sccs[i] = C
  BY <1>2, <1>4
<1>11. \A i, j \in DOMAIN sccs :
          i < j => sccs[i] # sccs[j] /\ ~Imports(graph, sccs[i], sccs[j])
  <2>1. \A i, j \in 1..m : i < j => i # j
    BY <1>2
  <2> QED BY <1>2, <1>6, <1>7, <2>1
<1> QED BY <1>9, <1>10, <1>11 DEF EmissionOrders

LEMMA WitnessHolds == ASSUME TarjanInv PROVE LowlinkWitness
BY DEF TarjanInv, PathInv, Witness, LowlinkWitness

LEMMA InitDecomposition == Init => (Untruncated => Decomposition!Init)
<1> SUFFICES ASSUME Init PROVE Decomposition!Init
  OBVIOUS
<1>1. TypeOK
  BY InitStack DEF StackInv
<1>2. graph \in [Files -> SUBSET Files] /\ start \in Files
  BY <1>1, GraphType DEF TypeOK
<1> QED BY <1>2 DEF Init, Decomposition!Init

LEMMA StepDecomposition ==
    ASSUME TarjanInv, [Next]_vars
    PROVE  [Untruncated => Decomposition!Next]_(Decomposition!vars)
<1>1. graph' = graph /\ start' = start
  BY DEF graph, Next, vars, input, SkipVisited, Visit, Scan, StartRoot, SkipRoot, Descend,
         Truncate, RelaxToStack, PassSuccessor, FinishRoot, FinishInner, LeaveFrame
<1>2. CASE UNCHANGED sccs
  BY <1>1, <1>2 DEF Decomposition!vars
<1>3. CASE FinishRoot /\ Untruncated
  <2>1. PICK f : f = Top.file
    OBVIOUS
  <2> DEFINE C == Segment(f)
  <2>2. /\ frames # <<>> /\ ~HasSuccessor /\ lowlinks[f] = indices[f] /\ PopComponent(f)
        /\ StackInv /\ DiscoveryInv /\ PathInv
    BY <1>3, <2>1 DEF FinishRoot, TarjanInv
  <2>3. f \in onStack /\ f \in Files /\ graph \in [Files -> SUBSET Files]
    BY <2>1, <2>2, TopType, Standing, GraphType DEF StackInv
  <2>4. /\ f \in C
        /\ \A h \in C : graph[h] \subseteq C \cup Emitted
        /\ \A h \in C : C = Component(graph, h)
    BY <2>1, <2>2, SegmentWhole
  <2>5. sccs' = Append(sccs, C)
    <3>1. PICK above : sccs' = Append(sccs, above)
      BY <2>2 DEF PopComponent
    <3>2. sccs'[Len(sccs) + 1] = C
      BY <2>2, <2>3, PopEffect
    <3>3. Append(sccs, above)[Len(sccs) + 1] = above
      BY <2>2 DEF StackInv, TypeOK
    <3> QED BY <3>1, <3>2, <3>3
  <2>6. C \in SUBSET Files /\ C \cap Emitted = {}
    BY <2>2, Standing DEF Segment
  <2>7. C \in Components(graph, Reachable(graph, start))
    BY <2>2, <2>3, <2>4 DEF Components, DiscoveryInv
  <2> HIDE DEF C
  <2>8. Decomposition!Emit(C)
    <3>1. Decomposition!Found = Emitted
      BY DEF Decomposition!Found, Emitted
    <3>2. C \cap Decomposition!Found = {} /\ \A h \in C : graph[h] \subseteq C \cup Decomposition!Found
      BY <2>4, <2>6, <3>1
    <3>3. UNCHANGED <<graph, start>>
      BY <1>1
    <3>4. C \in Decomposition!Components(graph, Decomposition!Reachable(graph, start))
      BY <2>7 DEF Decomposition!Components, Decomposition!Component, Decomposition!Reachable,
                  Decomposition!Reaches, Decomposition!Closed,
                  Components, Component, Reachable, Reaches, Closed
    <3> QED BY <2>5, <3>2, <3>3, <3>4 DEF Decomposition!Emit
  <2> QED BY <2>6, <2>8 DEF Decomposition!Next
<1>4. FinishRoot \/ UNCHANGED sccs
  BY DEF Next, vars, SkipVisited, Visit, Scan, StartRoot, SkipRoot, Descend,
         Truncate, RelaxToStack, PassSuccessor, FinishInner
<1> QED BY <1>2, <1>3, <1>4

-----------------------------------------------------------------------------

\* The paths behind lowlinks, frames, stack and components, in every state.
THEOREM TarjanInvariant == Spec => []TarjanInv
BY InitTarjan, TarjanStep, PTL DEF Spec

\* Unless the depth limit truncates, a lowlink is always the index of a file
\* that is on the stack and that its owner reaches.
THEOREM LowlinksWitness == Spec => []LowlinkWitness
BY TarjanInvariant, WitnessHolds, PTL

\* Unless the depth limit truncates, what tarjanStrongConnect() leaves in
\* state.sccs when it ends is the strongly connected components of the files
\* reachable from the start file, each once, imported ones first.
THEOREM DecompositionIsExact == Spec => []ExactDecomposition
BY TarjanInvariant, EndExact, PTL

\* And each component comes out whole, after everything it imports: the
\* algorithm implements SCCDecomposition.
THEOREM TarjanImplements == Spec => ImplementsDecomposition
<1>1. Init => (Untruncated => Decomposition!Init)
  BY InitDecomposition
<1>2. TarjanInv /\ [Next]_vars => [Untruncated => Decomposition!Next]_(Decomposition!vars)
  BY StepDecomposition
<1> QED BY <1>1, <1>2, TarjanInvariant, PTL DEF Spec, ImplementsDecomposition
=============================================================================
