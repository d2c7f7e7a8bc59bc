---------------------------- MODULE MCCycleSearch ----------------------------
(***************************************************************************)
(* Model-checking instances of CycleSearch, over three families of         *)
(* programs: graphs nobody edits, for the searches; the same with a        *)
(* statement that is not a plain import; and small graphs in which one     *)
(* file changes, for the life of the cache.                                *)
(***************************************************************************)
EXTENDS CycleSearch, SequencesExt, TLC

CONSTANTS StaticEdges,  \* the number of statements of a program nobody edits
          MixedEdges,   \* the same, where one is of one of the OtherKinds
          OtherKinds,
          EditedEdges   \* bound on the statements of a program with an edit

\* Lists of imports of different files, none of them f.
ImportLists(f, n) ==
    {t \in UNION {[1..k -> [kind : {"import"}, target : Files \ {f}]] : k \in 0..n} :
        \A i, j \in DOMAIN t : i # j => t[i] # t[j]}

AllLists(n) == UNION {ImportLists(f, n) : f \in Files}

\* The statements of a program, in all contents of all files.
Statements(p) ==
    FoldFunctionOnSet(LAMBDA texts, n : FoldLeft(LAMBDA m, t : m + Len(t), n, texts),
                      0, p, Files)

\* No statement of f or of another file is about f.
Idle(p, f) ==
    \A g \in Files : \A v \in DOMAIN p[g] : \A i \in DOMAIN p[g][v] :
        f \notin {g, p[g][v][i].target}

StaticPrograms(edges) ==
    {p \in [Files -> {<<t>> : t \in AllLists(2)}] :
        /\ \A f \in Files : p[f][1] \in ImportLists(f, 2)
        /\ Statements(p) = edges}

MixedPrograms ==
    UNION {UNION {{[p EXCEPT ![f][1][i].kind = kind] : kind \in OtherKinds, i \in DOMAIN p[f][1]} :
                    f \in Files} :
             p \in {q \in StaticPrograms(MixedEdges) : \E f \in Files : Idle(q, f)}}

EditedPrograms ==
    {p \in [Files -> {<<t>> : t \in AllLists(1)} \cup {<<t, u>> : t, u \in AllLists(1)}] :
        /\ \E edited \in Files :
              /\ \A f \in Files : Len(p[f]) = 2 <=> f = edited
              /\ p[edited][1] # p[edited][2]
        /\ \A f \in Files : \A v \in DOMAIN p[f] : p[f][v] \in ImportLists(f, 1)
        /\ \E f \in Files : Idle(p, f)
        /\ Statements(p) <= EditedEdges}

\* In a graph nobody edits every file imports something.
MCPrograms ==
    {p \in StaticPrograms(StaticEdges) : \A f \in Files : p[f][1] # <<>>}
        \cup MixedPrograms \cup EditedPrograms

Symmetry == Permutations(Files)
=============================================================================
