-------------------------- MODULE SCCDecomposition --------------------------
(***************************************************************************)
(* What computeSCCsFromFile() promises of its graph pass: the strongly     *)
(* connected components of the files reachable from the start file come    *)
(* out one by one, each of them whole, each once, and none before a        *)
(* component it imports.  How they are found is module Tarjan's business.  *)
(***************************************************************************)
EXTENDS ImportGraph, Sequences

CONSTANTS Files

VARIABLES graph,      \* the import graph, fixed
          start,      \* the file the computation starts from, fixed
          emitted     \* the components found so far, in order

vars == <<graph, start, emitted>>

Found == UNION {emitted[i] : i \in DOMAIN emitted}

Init ==
    /\ graph \in [Files -> SUBSET Files]
    /\ start \in Files
    /\ emitted = <<>>

\* A component comes out whole, once, and only when everything it imports is
\* in a component that is already out, or in itself.
Emit(C) ==
    /\ emitted' = Append(emitted, C)
    /\ C \cap Found = {}
    /\ \A f \in C : graph[f] \subseteq C \cup Found
    /\ C \in Components(graph, Reachable(graph, start))
    /\ UNCHANGED <<graph, start>>

Next == \E C \in SUBSET Files : Emit(C)

Spec == Init /\ [][Next]_vars
=============================================================================
