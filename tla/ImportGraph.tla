---------------------------- MODULE ImportGraph ----------------------------
(***************************************************************************)
(* Directed import graphs and the decomposition of the part reachable from *)
(* a file into strongly connected components.  A graph is a function G     *)
(* from files to the set of files they import; it is what                  *)
(* getFileImports() leaves once dynamic and type-only imports are skipped. *)
(*                                                                         *)
(* Reachability is stated through closed sets rather than by recursion: f  *)
(* reaches g when no set that holds f and is closed under imports leaves g *)
(* out.  TLC evaluates it by enumeration, the provers by instantiation.    *)
(***************************************************************************)
EXTENDS Naturals, FiniteSets

\* No import leads out of S.
Closed(G, S) == \A f \in S : G[f] \subseteq S

Reaches(G, f, g) ==
    \A S \in SUBSET DOMAIN G : f \in S /\ Closed(G, S) => g \in S

Reachable(G, f) == {g \in DOMAIN G : Reaches(G, f, g)}

\* The strongly connected component of f.
Component(G, f) == {g \in Reachable(G, f) : Reaches(G, g, f)}

\* f shares an import cycle with some other file: its component is not a
\* singleton, which is the code's hasCycle (files.length > 1).
OnCycle(G, f) == Component(G, f) # {f}

Components(G, R) == {Component(G, f) : f \in R}

\* A file of C imports a file of D.
Imports(G, C, D) == \E f \in C : G[f] \cap D # {}

(***************************************************************************)
(* The lists of components that Tarjan's algorithm may return for the      *)
(* closed set R: each component once, and no component before one that it  *)
(* imports.                                                                *)
(***************************************************************************)
EmissionOrders(G, R) ==
    LET K == Components(G, R)
    IN  {order \in [1..Cardinality(K) -> K] :
           /\ \A C \in K : \E i \in DOMAIN order : order[i] = C
           /\ \A i, j \in DOMAIN order :
                i < j => order[i] # order[j] /\ ~Imports(G, order[i], order[j])}
=============================================================================
