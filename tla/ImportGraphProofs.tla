-------------------------- MODULE ImportGraphProofs --------------------------
(***************************************************************************)
(* What the operators of ImportGraph return, for every graph G over a set  *)
(* N of files.                                                             *)
(***************************************************************************)
EXTENDS ImportGraph, Sequences, FiniteSetTheorems, TLAPS

\* A file reaches itself.
LEMMA ReachesSelf ==
    ASSUME NEW N, NEW G \in [N -> SUBSET N], NEW f \in N
    PROVE  Reaches(G, f, f)
BY DEF Reaches

\* What is reached stays inside a closed set.
LEMMA ReachesWithin ==
    ASSUME NEW N, NEW G \in [N -> SUBSET N], NEW I \in SUBSET N, Closed(G, I),
           NEW f \in I, NEW g, Reaches(G, f, g)
    PROVE  g \in I
BY DEF Reaches

\* An import extends a path.
LEMMA ReachesImport ==
    ASSUME NEW N, NEW G \in [N -> SUBSET N], NEW f \in N, NEW g \in N,
           Reaches(G, f, g), NEW h \in G[g]
    PROVE  Reaches(G, f, h)
BY DEF Reaches, Closed

\* Paths of imports compose.
LEMMA ReachesTransitive ==
    ASSUME NEW N, NEW G \in [N -> SUBSET N],
           NEW f \in N, NEW g \in N, NEW h \in N,
           Reaches(G, f, g), Reaches(G, g, h)
    PROVE  Reaches(G, f, h)
BY DEF Reaches

\* The files reached from f are closed under imports, and hold f.
LEMMA ReachableClosed ==
    ASSUME NEW N, NEW G \in [N -> SUBSET N], NEW f \in N
    PROVE  /\ Reachable(G, f) \in SUBSET N
           /\ f \in Reachable(G, f)
           /\ Closed(G, Reachable(G, f))
<1>1. Reachable(G, f) \in SUBSET N /\ f \in Reachable(G, f)
  BY ReachesSelf DEF Reachable
<1>2. Closed(G, Reachable(G, f))
  <2> SUFFICES ASSUME NEW g \in Reachable(G, f), NEW h \in G[g]
               PROVE  h \in Reachable(G, f)
    BY DEF Closed
  <2>1. g \in N /\ Reaches(G, f, g) /\ h \in N
    BY DEF Reachable
  <2> QED BY <2>1, ReachesImport DEF Reachable
<1> QED BY <1>1, <1>2

\* Everything reached from a file of a closed set lies in the set.
LEMMA ReachableWithin ==
    ASSUME NEW N, NEW G \in [N -> SUBSET N], NEW I \in SUBSET N, Closed(G, I),
           NEW f \in I
    PROVE  Reachable(G, f) \subseteq I
BY ReachesWithin DEF Reachable

\* Membership in a component is mutual reachability.
LEMMA ComponentMember ==
    ASSUME NEW N, NEW G \in [N -> SUBSET N], NEW f \in N
    PROVE  /\ f \in Component(G, f)
           /\ Component(G, f) \in SUBSET N
           /\ \A g : g \in Component(G, f) <=>
                        g \in N /\ Reaches(G, f, g) /\ Reaches(G, g, f)
BY ReachesSelf DEF Component, Reachable

\* Two files of one component have the same component.
LEMMA ComponentEqual ==
    ASSUME NEW N, NEW G \in [N -> SUBSET N], NEW f \in N, NEW g \in Component(G, f)
    PROVE  Component(G, g) = Component(G, f)
<1>1. g \in N /\ Reaches(G, f, g) /\ Reaches(G, g, f)
  BY ComponentMember
<1>2. ASSUME NEW h
      PROVE  h \in Component(G, g) <=> h \in Component(G, f)
  <2>1. h \in Component(G, g) => h \in Component(G, f)
    <3> SUFFICES ASSUME h \in Component(G, g) PROVE h \in Component(G, f)
      OBVIOUS
    <3>1. h \in N /\ Reaches(G, g, h) /\ Reaches(G, h, g)
      BY <1>1, ComponentMember
    <3>2. Reaches(G, f, h) /\ Reaches(G, h, f)
      BY <1>1, <3>1, ReachesTransitive
    <3> QED BY <3>1, <3>2, ComponentMember
  <2>2. h \in Component(G, f) => h \in Component(G, g)
    <3> SUFFICES ASSUME h \in Component(G, f) PROVE h \in Component(G, g)
      OBVIOUS
    <3>1. h \in N /\ Reaches(G, f, h) /\ Reaches(G, h, f)
      BY ComponentMember
    <3>2. Reaches(G, g, h) /\ Reaches(G, h, g)
      BY <1>1, <3>1, ReachesTransitive
    <3> QED BY <1>1, <3>1, <3>2, ComponentMember
  <2> QED BY <2>1, <2>2
<1> QED BY <1>2

\* Two graphs that agree on a closed set reach the same files from it.
LEMMA ReachesAgree ==
    ASSUME NEW N, NEW G \in [N -> SUBSET N], NEW H \in [N -> SUBSET N],
           NEW I \in SUBSET N, Closed(G, I), \A f \in I : H[f] = G[f],
           NEW f \in I, NEW g, Reaches(H, f, g)
    PROVE  Reaches(G, f, g)
<1> SUFFICES ASSUME NEW S \in SUBSET N, f \in S, Closed(G, S)
             PROVE  g \in S
  BY DEF Reaches
<1>1. Closed(H, S \cap I)
  BY DEF Closed
<1>2. S \cap I \in SUBSET N /\ f \in S \cap I
  OBVIOUS
<1>3. g \in S \cap I
  BY <1>1, <1>2, ReachesWithin
<1> QED BY <1>3

\* So the component of an unchanged region is unchanged as well.
LEMMA ComponentAgree ==
    ASSUME NEW N, NEW G \in [N -> SUBSET N], NEW H \in [N -> SUBSET N],
           NEW I \in SUBSET N, Closed(G, I), \A f \in I : H[f] = G[f],
           NEW f \in I
    PROVE  Component(H, f) = Component(G, f)
<1>1. Closed(H, I)
  BY DEF Closed
<1>2. \A g \in I : \A h : Reaches(G, g, h) <=> Reaches(H, g, h)
  <2>1. \A g \in I : \A h : Reaches(H, g, h) => Reaches(G, g, h)
    BY ReachesAgree
  <2>2. \A g \in I : \A h : Reaches(G, g, h) => Reaches(H, g, h)
    BY <1>1, ReachesAgree
  <2> QED BY <2>1, <2>2
<1>3. \A g : Reaches(G, f, g) => g \in I
  BY ReachesWithin
<1>4. \A g : g \in Component(H, f) <=> g \in Component(G, f)
  BY <1>2, <1>3, ComponentMember
<1> QED BY <1>4

(***************************************************************************)
(* The lists of components EmissionOrders allows for a closed set R: they  *)
(* cover R, hold the component of every file of R and nothing else, and    *)
(* hold none twice.                                                        *)
(***************************************************************************)
LEMMA EmissionOrder ==
    ASSUME NEW N, IsFiniteSet(N), NEW G \in [N -> SUBSET N],
           NEW R \in SUBSET N, Closed(G, R), NEW order \in EmissionOrders(G, R)
    PROVE  /\ order \in Seq(SUBSET N)
           /\ \A i \in DOMAIN order : \A f \in order[i] :
                 f \in R /\ order[i] = Component(G, f)
           /\ \A f \in R : \E i \in DOMAIN order : order[i] = Component(G, f)
           /\ \A i, j \in DOMAIN order : order[i] = order[j] => i = j
<1> DEFINE K == Components(G, R)
<1>1. \A f \in R : Component(G, f) \in SUBSET N /\ f \in Component(G, f)
  BY ComponentMember
<1>2. K \subseteq SUBSET N
  BY <1>1 DEF Components
<1>3. IsFiniteSet(K) /\ Cardinality(K) \in Nat
  BY <1>2, FS_SUBSET, FS_Subset, FS_CardinalityType
<1>4. /\ order \in [1..Cardinality(K) -> K]
      /\ \A C \in K : \E i \in DOMAIN order : order[i] = C
      /\ \A i, j \in DOMAIN order : i < j => order[i] # order[j]
  BY DEF EmissionOrders
<1>5. order \in Seq(SUBSET N)
  BY <1>2, <1>3, <1>4
<1>6. \A i \in DOMAIN order : \A f \in order[i] :
         f \in R /\ order[i] = Component(G, f)
  <2> SUFFICES ASSUME NEW i \in DOMAIN order, NEW f \in order[i]
               PROVE  f \in R /\ order[i] = Component(G, f)
    OBVIOUS
  <2>1. PICK g \in R : order[i] = Component(G, g)
    BY <1>4 DEF Components
  <2>2. f \in R
    BY <2>1, ComponentMember, ReachesWithin
  <2> QED BY <2>1, <2>2, ComponentEqual
<1>7. \A f \in R : \E i \in DOMAIN order : order[i] = Component(G, f)
  BY <1>4 DEF Components
<1>8. \A i, j \in DOMAIN order : order[i] = order[j] => i = j
  BY <1>3, <1>4
<1> QED BY <1>5, <1>6, <1>7, <1>8
=============================================================================
