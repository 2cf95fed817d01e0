----------------------------- MODULE FatChains ------------------------------
(***************************************************************************)
(* What FatProofs rests on, for volumes of any size with any number of     *)
(* files, handles and buffers: the hint of the allocation table, chains as *)
(* sets of clusters closed under the entries, what the directory and the   *)
(* open files say of the clusters at which chains begin, and how beginning *)
(* a chain, growing one at its end and dropping one keep all of it.        *)
(***************************************************************************)
EXTENDS FatFiles, WellFoundedInduction, TLAPS

FatType(F) == F \in [Entries -> {0, EOC} \cup Clusters]

\* No cluster below the hint is free.
NoneBelowHint(t) == \A c \in Clusters : c < t.m_nNextFreeCluster => t.fat[c] # 0

\* The part of the type of the table that the argument needs.
TableType(t) ==
    /\ t = [fat |-> t.fat, m_nFreeCount |-> t.m_nFreeCount,
            m_nNextFreeCluster |-> t.m_nNextFreeCluster]
    /\ FatType(t.fat)
    /\ t.m_nNextFreeCluster \in Clusters

HintOK(t) == TableType(t) /\ NoneBelowHint(t)

USE TableAssumption

LEMMA ClustersAreNumbers == Clusters \subseteq Nat /\ 2 \in Clusters /\ 3 \in Clusters
  BY DEF Clusters

LEMMA Kinds == /\ 0 \notin Clusters /\ EOC \notin Clusters /\ EOC # 0
               /\ Clusters \subseteq Entries /\ nRootCluster \in Clusters
  BY DEF Clusters, EOC, Entries

\* A set of numbers has a lowest one, which Min names.
LEMMA Lowest ==
    ASSUME NEW S, S \subseteq Nat, S # {}
    PROVE  /\ \E c \in S : \A d \in S : c <= d
           /\ Min(S) \in S /\ \A d \in S : Min(S) <= d
<1>1. PICK c \in S : \A d \in S : ~(<<d, c>> \in OpToRel(<, Nat))
  BY NatLessThanWellFounded, WFMin, Zenon
<1>2. \A d \in S : ~(d < c)
  BY <1>1, Zenon DEF OpToRel
<1>3. \A d \in S : c <= d
  BY <1>2
<1> QED
  BY <1>3, Zenon DEF Min

\* FATAllocateCluster returns the first free cluster from the hint on.
LEMMA AllocateFinds ==
    ASSUME NEW t, TableType(t), FreeFromHint(t) # {}
    PROVE  /\ FATAllocateCluster(t) \in FreeFromHint(t)
           /\ \A d \in FreeFromHint(t) : FATAllocateCluster(t) <= d
<1>1. FreeFromHint(t) \subseteq Nat
  BY ClustersAreNumbers, Zenon DEF FreeFromHint
<1> QED
  BY <1>1, Lowest DEF FATAllocateCluster

\* A cluster that is returned is a free one.
LEMMA AllocateFree ==
    ASSUME NEW t, TableType(t), FATAllocateCluster(t) # 0
    PROVE  /\ FreeFromHint(t) # {}
           /\ FATAllocateCluster(t) \in Clusters /\ t.fat[FATAllocateCluster(t)] = 0
<1>1. FreeFromHint(t) # {}
  BY DEF FATAllocateCluster
<1> QED
  BY <1>1, AllocateFinds, Zenon DEF FreeFromHint

\* A failed search has met no free cluster.
LEMMA AllocateFails ==
    ASSUME NEW t, TableType(t), FATAllocateCluster(t) = 0
    PROVE  FreeFromHint(t) = {}
<1> SUFFICES ASSUME FreeFromHint(t) # {} PROVE FALSE
  BY Zenon
<1>1. 0 \in Clusters
  BY AllocateFinds DEF FreeFromHint
<1> QED
  BY <1>1 DEF Clusters

\* Marking a cluster as taken, or linking to one, keeps the hint right.
LEMMA SetKeeps ==
    ASSUME NEW t, TableType(t), NoneBelowHint(t), NEW c, NEW e \in {EOC} \cup Clusters
    PROVE  /\ TableType(FATSetClusterEntry(t, c, e))
           /\ NoneBelowHint(FATSetClusterEntry(t, c, e))
           /\ FATSetClusterEntry(t, c, e).m_nNextFreeCluster = t.m_nNextFreeCluster
           /\ FATSetClusterEntry(t, c, e).fat = [t.fat EXCEPT ![c] = e]
<1> DEFINE u == FATSetClusterEntry(t, c, e)
<1>1. /\ u = [fat |-> [t.fat EXCEPT ![c] = e], m_nFreeCount |-> t.m_nFreeCount,
              m_nNextFreeCluster |-> t.m_nNextFreeCluster]
  BY DEF FATSetClusterEntry, TableType
<1>2. /\ u.fat = [t.fat EXCEPT ![c] = e] /\ u.m_nFreeCount = t.m_nFreeCount
      /\ u.m_nNextFreeCluster = t.m_nNextFreeCluster
  BY <1>1
<1>3. FatType(u.fat) /\ e # 0
  BY <1>2, Kinds, Zenon DEF TableType, FatType
<1>4. \A d \in Entries : u.fat[d] = t.fat[d] \/ u.fat[d] = e
  BY <1>2, Zenon DEF TableType, FatType
<1>5. Clusters \subseteq Entries
  BY Zenon DEF Entries
<1> QED
  BY <1>1, <1>2, <1>3, <1>4, <1>5, Zenon DEF TableType, NoneBelowHint

\* FATAllocateCluster, with FATInfoClusterAllocated, keeps the hint right.
LEMMA AllocatedKeeps ==
    ASSUME NEW t, TableType(t), NoneBelowHint(t), NEW c, c = FATAllocateCluster(t), c # 0
    PROVE  /\ TableType(Allocated(t, c)) /\ NoneBelowHint(Allocated(t, c))
           /\ Allocated(t, c).fat = [t.fat EXCEPT ![c] = EOC]
<1> DEFINE s == FATSetClusterEntry(t, c, EOC)
           u == Allocated(t, c)
<1>1. FreeFromHint(t) # {}
  BY AllocateFree, Zenon
<1>2. /\ c \in Clusters /\ c >= t.m_nNextFreeCluster
      /\ \A d \in Clusters : d >= t.m_nNextFreeCluster /\ t.fat[d] = 0 => c <= d
  BY <1>1, AllocateFinds, Zenon DEF FreeFromHint
<1>3. TableType(s) /\ NoneBelowHint(s) /\ s.m_nNextFreeCluster = t.m_nNextFreeCluster
      /\ s.fat = [t.fat EXCEPT ![c] = EOC]
  <2>1. EOC \in {EOC} \cup Clusters
    BY Zenon
  <2>2. \A e \in {EOC} \cup Clusters :
            /\ TableType(FATSetClusterEntry(t, c, e)) /\ NoneBelowHint(FATSetClusterEntry(t, c, e))
            /\ FATSetClusterEntry(t, c, e).m_nNextFreeCluster = t.m_nNextFreeCluster
            /\ FATSetClusterEntry(t, c, e).fat = [t.fat EXCEPT ![c] = e]
    BY SetKeeps
  <2> QED
    BY <2>1, <2>2, Zenon
<1>4. /\ u.fat = s.fat
      /\ u.m_nNextFreeCluster = IF c <= m_nClusters THEN c + 1 ELSE 2
      /\ u = [fat |-> u.fat, m_nFreeCount |-> u.m_nFreeCount,
              m_nNextFreeCluster |-> u.m_nNextFreeCluster]
  <2>1. s = [fat |-> s.fat, m_nFreeCount |-> s.m_nFreeCount,
             m_nNextFreeCluster |-> s.m_nNextFreeCluster]
    BY <1>3, Zenon DEF TableType
  <2>2. u = FATInfoClusterAllocated(s, c)
    BY Zenon DEF Allocated
  <2> HIDE DEF s, u
  <2>3. u = [fat |-> s.fat,
             m_nFreeCount |-> IF s.m_nFreeCount # FREE_COUNT_UNKNOWN /\ s.m_nFreeCount > 0
                              THEN s.m_nFreeCount - 1 ELSE s.m_nFreeCount,
             m_nNextFreeCluster |-> IF c <= m_nClusters THEN c + 1 ELSE 2]
    BY <2>1, <2>2, Zenon DEF FATInfoClusterAllocated
  <2> QED
    BY <2>3, Zenon
<1>5. u.m_nNextFreeCluster \in Clusters
  BY <1>2, <1>4 DEF Clusters
<1>6. TableType(u)
  BY <1>3, <1>4, <1>5, Zenon DEF TableType
<1>7. ASSUME NEW d \in Clusters, d < u.m_nNextFreeCluster PROVE u.fat[d] # 0
  <2>1. d < c + 1 /\ d \in Nat /\ c \in Nat /\ t.m_nNextFreeCluster \in Nat
    BY <1>2, <1>4, <1>7, ClustersAreNumbers DEF Clusters, TableType
  <2>2. CASE d = c
    BY <2>2, <1>2, <1>3, <1>4 DEF TableType, FatType, Entries, EOC
  <2>3. CASE d < c
    <3>1. t.fat[d] # 0
      BY <2>1, <2>3, <1>2 DEF NoneBelowHint
    <3> QED
      BY <3>1, <2>3, <2>1, <1>3, <1>4 DEF TableType, FatType, Entries
  <2> QED
    BY <2>1, <2>2, <2>3
<1> QED
  BY <1>3, <1>4, <1>6, <1>7, Zenon DEF NoneBelowHint

\* FATFreeClusterChain lowers the hint to the lowest cluster it frees.
LEMMA FreedKeeps ==
    ASSUME NEW t, TableType(t), NoneBelowHint(t), NEW S, S \subseteq Clusters
    PROVE  /\ TableType(Freed(t, S)) /\ NoneBelowHint(Freed(t, S))
           /\ Freed(t, S).fat = [c \in Entries |-> IF c \in S THEN 0 ELSE t.fat[c]]
<1> DEFINE u == Freed(t, S)
           below == {c \in S : c < t.m_nNextFreeCluster}
           hint == u.m_nNextFreeCluster
<1>1. /\ u.fat = [c \in Entries |-> IF c \in S THEN 0 ELSE t.fat[c]]
      /\ u = [fat |-> u.fat, m_nFreeCount |-> u.m_nFreeCount, m_nNextFreeCluster |-> hint]
      /\ hint = IF below = {} THEN t.m_nNextFreeCluster
                ELSE CHOOSE c \in below : \A d \in below : c <= d
  BY DEF Freed
<1>2. FatType(u.fat)
  BY <1>1, Zenon DEF TableType, FatType
<1>3. below # {} => hint \in below /\ \A d \in below : hint <= d
  <2>1. below \subseteq Nat
    BY ClustersAreNumbers, Zenon
  <2> HIDE DEF below
  <2> QED
    BY <1>1, <2>1, Lowest
<1>4. hint \in Clusters /\ hint <= t.m_nNextFreeCluster
  BY <1>1, <1>3, ClustersAreNumbers DEF TableType
<1>5. ASSUME NEW d \in Clusters, d < hint PROVE u.fat[d] # 0
  <2>1. d < t.m_nNextFreeCluster
    BY <1>4, <1>5, ClustersAreNumbers DEF TableType
  <2>2. d \notin below
    <3> SUFFICES ASSUME d \in below PROVE FALSE
      BY Zenon
    <3>1. hint <= d
      BY <1>3
    <3>2. hint \in Nat /\ d \in Nat
      BY <1>4, ClustersAreNumbers, Zenon
    <3> HIDE DEF hint, below
    <3> QED
      BY <3>1, <3>2, <1>5
  <2> QED
    BY <2>1, <2>2, <1>1, Zenon DEF NoneBelowHint, Entries
<1> QED
  BY <1>1, <1>2, <1>4, <1>5, Zenon DEF TableType, NoneBelowHint

-----------------------------------------------------------------------------
(* Walks along the entries of a table.                                     *)

\* A walk stays in the clusters, contains its start and follows the entries.
LEMMA WalkFacts ==
    ASSUME NEW F, NEW c
    PROVE  /\ Walk(F, c) \subseteq Clusters
           /\ c \in Clusters => c \in Walk(F, c)
           /\ \A e \in Walk(F, c) : F[e] \in Clusters => F[e] \in Walk(F, c)
  BY Zenon DEF Walk, Closed

\* It is contained in every set of clusters that does so.
LEMMA WalkLeast ==
    ASSUME NEW F, NEW c, NEW S, S \subseteq Clusters, c \in Clusters => c \in S,
           \A e \in S : F[e] \in Clusters => F[e] \in S
    PROVE  Walk(F, c) \subseteq S
  BY Zenon DEF Walk, Closed

\* Every cluster of a walk but the first is entered from another one.
LEMMA WalkEnters ==
    ASSUME NEW F, NEW c, NEW x \in Walk(F, c), x # c
    PROVE  \E y \in Walk(F, c) : F[y] = x
<1> SUFFICES ASSUME \A y \in Walk(F, c) : F[y] # x PROVE FALSE
  OBVIOUS
<1> DEFINE S == Walk(F, c) \ {x}
<1>1. S \in SUBSET Clusters /\ (c \in Clusters => c \in S)
  BY WalkFacts, Zenon
<1>2. \A e \in S : F[e] \in Clusters => F[e] \in S
  BY WalkFacts, Zenon
<1> HIDE DEF S
<1>3. Walk(F, c) \subseteq S
  BY <1>1, <1>2, WalkLeast
<1> QED
  BY <1>3, Zenon DEF S

\* Tables that agree on the clusters of a walk have the same walk.
LEMMA WalkSame ==
    ASSUME NEW F, NEW G, NEW c, \A e \in Walk(F, c) : G[e] = F[e]
    PROVE  Walk(G, c) = Walk(F, c)
<1>1. Walk(G, c) \subseteq Walk(F, c)
  BY WalkFacts, WalkLeast, Zenon
<1> DEFINE S == Walk(F, c) \cap Walk(G, c)
<1>2. S \in SUBSET Clusters /\ (c \in Clusters => c \in S)
  BY WalkFacts, Zenon
<1>3. \A e \in S : F[e] \in Clusters => F[e] \in S
  BY WalkFacts, Zenon
<1> HIDE DEF S
<1>4. Walk(F, c) \subseteq S
  BY <1>2, <1>3, WalkLeast
<1> QED
  BY <1>1, <1>4, Zenon DEF S

\* A walk that stops at its first cluster.
LEMMA WalkOne ==
    ASSUME NEW F, NEW c \in Clusters, F[c] \notin Clusters
    PROVE  Walk(F, c) = {c}
<1> DEFINE S == {c}
<1>1. S \subseteq Clusters /\ c \in S /\ \A e \in S : F[e] \in Clusters => F[e] \in S
  BY Zenon
<1> HIDE DEF S
<1>2. Walk(F, c) \subseteq S
  BY <1>1, WalkLeast
<1> QED
  BY <1>2, WalkFacts DEF S

-----------------------------------------------------------------------------
(* Tables F whose chains begin at the clusters H.                          *)

\* No two clusters lead to the same one, and none leads to a free one.
Links(F) ==
    /\ \A c, d \in Clusters : F[c] \in Clusters /\ F[c] = F[d] => c = d
    /\ \A c \in Clusters : F[c] \in Clusters => F[F[c]] # 0

\* A chain begins at a taken cluster to which none leads.
Rooted(F, H) ==
    /\ H \subseteq Clusters
    /\ \A h \in H : F[h] # 0 /\ \A d \in Clusters : F[d] # h

Ended(F, H) == \A h \in H : \E d \in Walk(F, h) : F[d] = EOC

\* The taken clusters are those of the chains.
Covered(F, H) == \A c \in Clusters : F[c] # 0 <=> \E h \in H : c \in Walk(F, h)

Sound(F, H) == FatType(F) /\ Links(F) /\ Rooted(F, H) /\ Ended(F, H) /\ Covered(F, H)

\* Chains that begin at different clusters have no cluster in common.
LEMMA WalksApart ==
    ASSUME NEW F, NEW H, Sound(F, H), NEW g \in H, NEW h \in H, g # h
    PROVE  Walk(F, g) \cap Walk(F, h) = {}
<1> DEFINE S == Walk(F, g) \ Walk(F, h)
<1>1. S \in SUBSET Clusters
  BY WalkFacts, Zenon
<1>2. g \in S
  <2>1. g \in Walk(F, g) /\ g \in Clusters
    BY WalkFacts, Zenon DEF Sound, Rooted
  <2>2. ASSUME g \in Walk(F, h) PROVE FALSE
    <3>1. PICK y \in Walk(F, h) : F[y] = g
      BY <2>2, WalkEnters, Zenon
    <3> QED
      BY <3>1, WalkFacts, Zenon DEF Sound, Rooted
  <2> QED
    BY <2>1, <2>2, Zenon
<1>3. ASSUME NEW e \in S, F[e] \in Clusters PROVE F[e] \in S
  <2>1. F[e] \in Walk(F, g) /\ e \in Clusters
    BY <1>3, WalkFacts, Zenon
  <2>2. ASSUME F[e] \in Walk(F, h) PROVE FALSE
    <3>1. F[e] # h
      BY <2>1, Zenon DEF Sound, Rooted
    <3>2. PICK y \in Walk(F, h) : F[y] = F[e]
      BY <2>2, <3>1, WalkEnters, Zenon
    <3>3. y \in Clusters
      BY WalkFacts, Zenon
    <3>4. y = e
      BY <1>3, <2>1, <3>2, <3>3, Zenon DEF Sound, Links
    <3> QED
      BY <3>4, Zenon
  <2> QED
    BY <2>1, <2>2, Zenon
<1> HIDE DEF S
<1>4. Walk(F, g) \subseteq S
  BY <1>1, <1>2, <1>3, WalkLeast
<1> QED
  BY <1>4, Zenon DEF S

\* A free cluster is in no chain, and no cluster leads to it.
LEMMA FreeApart ==
    ASSUME NEW F, NEW H, Sound(F, H), NEW c \in Clusters, F[c] = 0
    PROVE  /\ \A h \in H : c \notin Walk(F, h)
           /\ \A d \in Clusters : F[d] # c
           /\ c \notin H
  BY Zenon DEF Sound, Covered, Links, Rooted

\* FATAllocateCluster for the first cluster of a file begins a chain.
LEMMA BeginChain ==
    ASSUME NEW F, NEW H, Sound(F, H), NEW c \in Clusters, F[c] = 0,
           NEW G, FatType(G), G[c] = EOC, \A d \in Clusters : d # c => G[d] = F[d]
    PROVE  /\ Sound(G, H \cup {c})
           /\ Walk(G, c) = {c}
           /\ \A h \in H : Walk(G, h) = Walk(F, h)
<1>1. FatType(G) /\ G[c] = EOC /\ \A d \in Clusters : d # c => G[d] = F[d]
  OBVIOUS
<1>2. Walk(G, c) = {c}
  BY <1>1, Kinds, WalkOne, Zenon
<1>3. ASSUME NEW h \in H PROVE Walk(G, h) = Walk(F, h)
  <2>1. \A e \in Walk(F, h) : G[e] = F[e]
    BY <1>1, FreeApart, WalkFacts, Zenon
  <2> QED
    BY <2>1, WalkSame, Zenon
<1>4. Links(G)
  <2>1. ASSUME NEW d \in Clusters, G[d] \in Clusters
        PROVE  d # c /\ G[d] = F[d] /\ F[d] # c /\ F[F[d]] # 0
    BY <1>1, <2>1, Kinds, FreeApart DEF Links, Sound
  <2>2. \A d \in Clusters : G[d] \in Clusters => G[G[d]] # 0
    BY <1>1, <2>1, Zenon
  <2>3. \A a, b \in Clusters : G[a] \in Clusters /\ G[a] = G[b] => a = b
    BY <2>1, Zenon DEF Links, Sound
  <2> QED
    BY <2>2, <2>3, Zenon DEF Links
<1>5. Rooted(G, H \cup {c})
  <2>1. ASSUME NEW h \in H, NEW d \in Clusters
        PROVE  h \in Clusters /\ G[h] # 0 /\ G[d] # h
    <3>1. h \in Clusters /\ F[h] # 0 /\ F[d] # h
      BY Zenon DEF Rooted, Sound
    <3> QED
      BY <1>1, <3>1, Kinds, Zenon
  <2>2. \A d \in Clusters : G[d] # c
    BY <1>1, Kinds, FreeApart
  <2>3. G[c] # 0
    BY <1>1, Kinds, Zenon
  <2> QED
    BY <2>1, <2>2, <2>3, Kinds, Zenon DEF Rooted
<1>6. Ended(G, H \cup {c})
  <2>1. ASSUME NEW h \in H PROVE \E d \in Walk(G, h) : G[d] = EOC
    <3>1. PICK d \in Walk(F, h) : F[d] = EOC
      BY Zenon DEF Sound, Ended
    <3>2. d \in Clusters /\ d # c
      BY WalkFacts, FreeApart, Zenon
    <3> QED
      BY <1>1, <1>3, <3>1, <3>2, Zenon
  <2> QED
    BY <1>1, <1>2, <2>1, Zenon DEF Ended
<1>7. Covered(G, H \cup {c})
  <2> SUFFICES ASSUME NEW d \in Clusters
               PROVE  G[d] # 0 <=> \E h \in H \cup {c} : d \in Walk(G, h)
    BY Zenon DEF Covered
  <2>1. CASE d = c
    BY <2>1, <1>1, <1>2, Kinds, Zenon
  <2>2. CASE d # c
    BY <2>2, <1>1, <1>2, <1>3, Zenon DEF Sound, Covered
  <2> QED
    BY <2>1, <2>2, Zenon
<1> QED
  BY <1>1, <1>2, <1>3, <1>4, <1>5, <1>6, <1>7, Zenon DEF Sound

\* A new cluster c is linked behind the last cluster l of a chain.
LEMMA GrowChain ==
    ASSUME NEW F, NEW H, Sound(F, H), NEW c \in Clusters, F[c] = 0,
           NEW h \in H, NEW l \in Walk(F, h), F[l] = EOC,
           NEW G, FatType(G), G[c] = EOC, G[l] = c,
           \A d \in Clusters : d # c /\ d # l => G[d] = F[d]
    PROVE  /\ Sound(G, H)
           /\ c \in Walk(G, h)
           /\ \A g \in H \ {h} : Walk(G, g) = Walk(F, g) /\ \A e \in Walk(F, g) : G[e] = F[e]
<1>1. l \in Clusters /\ l # c
  BY WalkFacts, FreeApart, Zenon
<1>2. /\ FatType(G) /\ G[c] = EOC /\ G[l] = c
      /\ \A d \in Clusters : d # c /\ d # l => G[d] = F[d]
  BY Zenon
<1>3. ASSUME NEW g \in H, g # h
      PROVE  Walk(G, g) = Walk(F, g) /\ \A e \in Walk(F, g) : G[e] = F[e]
  <2>1. l \notin Walk(F, g)
    BY <1>3, WalksApart, Zenon
  <2>2. \A e \in Walk(F, g) : G[e] = F[e]
    BY <1>2, <2>1, FreeApart, WalkFacts, Zenon
  <2> QED
    BY <2>2, WalkSame
<1>4. Walk(G, h) = Walk(F, h) \cup {c}
  <2>1. Walk(G, h) \subseteq Walk(F, h) \cup {c}
    <3> DEFINE S == Walk(F, h) \cup {c}
    <3>1. S \in SUBSET Clusters /\ (h \in Clusters => h \in S)
      BY WalkFacts, Zenon
    <3>2. \A e \in S : G[e] \in Clusters => G[e] \in S
      BY <1>2, Kinds, WalkFacts, Zenon
    <3> HIDE DEF S
    <3>3. Walk(G, h) \subseteq S
      BY <3>1, <3>2, WalkLeast, Zenon
    <3> QED
      BY <3>3, Zenon DEF S
  <2>2. Walk(F, h) \subseteq Walk(G, h)
    <3> DEFINE S == Walk(F, h) \cap Walk(G, h)
    <3>1. S \in SUBSET Clusters /\ (h \in Clusters => h \in S)
      BY WalkFacts, Zenon
    <3>2. ASSUME NEW e \in S, F[e] \in Clusters PROVE F[e] \in S
      <4>1. e # l /\ e # c /\ e \in Clusters
        BY <3>2, Kinds, <3>1, Zenon
      <4>2. G[e] = F[e]
        BY <4>1, <1>2, Zenon
      <4> QED
        BY <3>2, <4>2, WalkFacts, Zenon
    <3> HIDE DEF S
    <3>3. Walk(F, h) \subseteq S
      BY <3>1, <3>2, WalkLeast, Zenon
    <3> QED
      BY <3>3, Zenon DEF S
  <2>3. c \in Walk(G, h)
    BY <1>2, <2>2, WalkFacts
  <2> QED
    BY <2>1, <2>2, <2>3, Zenon
<1>5. Links(G)
  <2>1. ASSUME NEW d \in Clusters, G[d] \in Clusters
        PROVE  d # c /\ (d = l \/ (G[d] = F[d] /\ F[d] # c /\ F[F[d]] # 0))
    BY <1>2, <2>1, Kinds, FreeApart DEF Links, Sound
  <2>2. \A d \in Clusters : F[d] # 0 => G[d] # 0
    BY <1>2, Kinds, Zenon
  <2>3. \A d \in Clusters : G[d] \in Clusters => G[G[d]] # 0
    BY <1>2, <2>1, <2>2, Kinds, Zenon
  <2>4. \A a, b \in Clusters : G[a] \in Clusters /\ G[a] = G[b] => a = b
    BY <1>2, <2>1, Zenon DEF Links, Sound
  <2> QED
    BY <2>3, <2>4, Zenon DEF Links
<1>6. Rooted(G, H)
  BY <1>1, <1>2, Kinds, FreeApart DEF Rooted, Sound
<1>7. Ended(G, H)
  BY <1>2, <1>3, <1>4 DEF Ended, Sound
<1>8. Covered(G, H)
  <2> SUFFICES ASSUME NEW d \in Clusters
               PROVE  G[d] # 0 <=> \E g \in H : d \in Walk(G, g)
    BY Zenon DEF Covered
  <2>1. CASE d = c
    BY <2>1, <1>2, <1>4, Kinds, Zenon
  <2>2. CASE d # c
    <3>1. G[d] # 0 <=> F[d] # 0
      BY <2>2, <1>1, <1>2, Kinds, Zenon
    <3>2. \A g \in H : d \in Walk(G, g) <=> d \in Walk(F, g)
      BY <2>2, <1>3, <1>4
    <3> QED
      BY <3>1, <3>2, Zenon DEF Sound, Covered
  <2> QED
    BY <2>1, <2>2, Zenon
<1> QED
  BY <1>2, <1>3, <1>4, <1>5, <1>6, <1>7, <1>8 DEF Sound

\* FATFreeClusterChain frees one chain and leaves the others.
LEMMA DropChain ==
    ASSUME NEW F, NEW H, Sound(F, H), NEW h \in H,
           NEW G, FatType(G),
           \A c \in Clusters : G[c] = IF c \in Walk(F, h) THEN 0 ELSE F[c]
    PROVE  /\ Sound(G, H \ {h})
           /\ \A g \in H \ {h} : Walk(G, g) = Walk(F, g) /\ \A e \in Walk(F, g) : G[e] = F[e]
<1>1. /\ FatType(G)
      /\ \A c \in Clusters : G[c] = IF c \in Walk(F, h) THEN 0 ELSE F[c]
  OBVIOUS
<1>2. ASSUME NEW g \in H \ {h}
      PROVE  Walk(G, g) = Walk(F, g) /\ \A e \in Walk(F, g) : G[e] = F[e]
  <2>1. \A e \in Walk(F, g) : G[e] = F[e]
    BY <1>1, WalksApart, WalkFacts, Zenon
  <2> QED
    BY <2>1, WalkSame, Zenon
<1>3. ASSUME NEW c \in Clusters, G[c] \in Clusters
      PROVE  G[c] = F[c] /\ F[c] \notin Walk(F, h)
  <2>1. G[c] = F[c] /\ c \notin Walk(F, h)
    BY <1>1, <1>3, Kinds, Zenon
  <2>2. ASSUME F[c] \in Walk(F, h) PROVE FALSE
    <3>1. F[c] # h
      BY Zenon DEF Sound, Rooted
    <3>2. PICK y \in Walk(F, h) : F[y] = F[c]
      BY <2>2, <3>1, WalkEnters, Zenon
    <3>3. y \in Clusters
      BY WalkFacts, Zenon
    <3>4. y = c
      BY <1>3, <2>1, <3>2, <3>3, Zenon DEF Sound, Links
    <3> QED
      BY <3>4, <2>1, Zenon
  <2> QED
    BY <2>1, <2>2, Zenon
<1>4. Links(G)
  BY <1>1, <1>3, Zenon DEF Links, Sound
<1>5. Rooted(G, H \ {h})
  <2>1. ASSUME NEW g \in H \ {h} PROVE G[g] # 0
    <3>1. g \in Walk(F, g) /\ g \in Clusters
      BY WalkFacts, Zenon DEF Sound, Rooted
    <3> QED
      BY <3>1, <1>2, Zenon DEF Sound, Rooted
  <2>2. ASSUME NEW g \in H \ {h}, NEW d \in Clusters PROVE G[d] # g
    BY <1>3, Zenon DEF Sound, Rooted
  <2> QED
    BY <2>1, <2>2, Zenon DEF Sound, Rooted
<1>6. Ended(G, H \ {h})
  BY <1>2, Zenon DEF Ended, Sound
<1>7. Covered(G, H \ {h})
  <2> SUFFICES ASSUME NEW d \in Clusters
               PROVE  G[d] # 0 <=> \E g \in H \ {h} : d \in Walk(G, g)
    BY Zenon DEF Covered
  <2>1. CASE d \in Walk(F, h)
    BY <2>1, <1>1, <1>2, WalksApart, Zenon
  <2>2. CASE d \notin Walk(F, h)
    BY <2>2, <1>1, <1>2 DEF Sound, Covered
  <2> QED
    BY <2>1, <2>2, Zenon
<1> QED
  BY <1>1, <1>2, <1>4, <1>5, <1>6, <1>7, Zenon DEF Sound

\* A freshly formatted volume has the chain of its root directory.
LEMMA FormatSound == Sound(FormatFat32Disk.fat, {nRootCluster})
<1> DEFINE F == FormatFat32Disk.fat
<1>1. F = [c \in Entries |-> IF c \in {0, 1, nRootCluster} THEN EOC ELSE 0]
  BY Zenon DEF FormatFat32Disk
<1> HIDE DEF F
<1>2. /\ FatType(F) /\ F[nRootCluster] = EOC
      /\ \A c \in Clusters : c # nRootCluster => F[c] = 0
  BY <1>1, Kinds DEF FatType, Clusters, Entries
<1>3. Walk(F, nRootCluster) = {nRootCluster}
  BY <1>2, Kinds, WalkOne, Zenon
<1>4. Links(F)
  BY <1>2, Kinds, Zenon DEF Links
<1>5. Rooted(F, {nRootCluster})
  BY <1>2, Kinds, Zenon DEF Rooted
<1>6. Ended(F, {nRootCluster})
  BY <1>2, <1>3, Zenon DEF Ended
<1>7. Covered(F, {nRootCluster})
  BY <1>2, <1>3, Kinds DEF Covered
<1> QED
  BY <1>2, <1>4, <1>5, <1>6, <1>7, Zenon DEF Sound, F

-----------------------------------------------------------------------------
(* The directory d and the open files fs.                                  *)

DirEntry == [Name : Names \cup {FAT_DIR_NAME0_LAST, FAT_DIR_NAME0_FREE, VOLUME_ID},
             nFirstCluster : {0} \cup Clusters, nFileSize : Int]

File == [nUseCount : {0, 1}, cFileName : Names \cup {NULL}, nSize : Int, nOffset : Int,
         nCluster : {0, EOC} \cup Clusters, nFirstCluster : {0} \cup Clusters,
         pBuffer : {NULL, 0} \cup Clusters, bWrite : BOOLEAN]

\* Behind the last entry there are only last ones, a name is listed once, and
\* a file with bytes has a cluster.
DirOK(d) ==
    /\ d \in Seq(DirEntry)
    /\ \A i, j \in DOMAIN d :
        i <= j /\ d[i].Name = FAT_DIR_NAME0_LAST => d[j].Name = FAT_DIR_NAME0_LAST
    /\ \A i, j \in DOMAIN d : d[i].Name \in Names /\ d[i].Name = d[j].Name => i = j
    /\ \A i \in DOMAIN d :
        d[i].Name \in Names /\ d[i].nFileSize # 0 => d[i].nFirstCluster # 0

Opens(fs, h, n) == fs[h].nUseCount # 0 /\ fs[h].cFileName = n
Writes(fs, h, n) == Opens(fs, h, n) /\ fs[h].bWrite

\* An open file is listed, it has one writer at most, and a writer that has
\* no cluster yet has written nothing.
FilesOK(d, fs) ==
    /\ fs \in [Handles -> File]
    /\ \A h \in Handles : fs[h].nUseCount # 0 =>
        fs[h].cFileName \in Names /\ \E i \in DOMAIN d : d[i].Name = fs[h].cFileName
    /\ \A n \in Names : \A g, h \in Handles : Writes(fs, g, n) /\ Writes(fs, h, n) => g = h
    /\ \A n \in Names : \A h \in Handles : Writes(fs, h, n) /\ fs[h].nFirstCluster = 0 =>
        fs[h].nSize = 0 /\ fs[h].nOffset = 0 /\ fs[h].pBuffer = NULL

\* File n starts at cluster c, as its writer knows it, otherwise as listed.
Starts(d, fs, n, c) ==
    \/ \E h \in Handles : Writes(fs, h, n) /\ fs[h].nFirstCluster = c
    \/ /\ \A h \in Handles : ~Writes(fs, h, n)
       /\ \E i \in DOMAIN d : d[i].Name = n /\ d[i].nFirstCluster = c

\* The clusters where the directory and the files start.
Roots(d, fs) == {nRootCluster} \cup {c \in Clusters : \E n \in Names : Starts(d, fs, n, c)}

\* No two of them start at the same cluster.
HeadsOK(d, fs) ==
    \A n \in Names : \A c \in Clusters : Starts(d, fs, n, c) =>
        c # nRootCluster /\ \A m \in Names : Starts(d, fs, m, c) => m = n

\* A writer is at the last cluster of its file.
TailsOK(F, fs) ==
    \A n \in Names : \A h \in Handles : Writes(fs, h, n) /\ fs[h].nFirstCluster # 0 =>
        /\ fs[h].nCluster \in Walk(F, fs[h].nFirstCluster)
        /\ F[fs[h].nCluster] = EOC

ChainInv(F, d, fs) ==
    DirOK(d) /\ FilesOK(d, fs) /\ HeadsOK(d, fs) /\ TailsOK(F, fs) /\ Sound(F, Roots(d, fs))

\* The chains are sound as long as the files start where they did.
LEMMA SameStarts ==
    ASSUME NEW F, NEW d, NEW fs, ChainInv(F, d, fs),
           NEW e, NEW gs, DirOK(e), FilesOK(e, gs), TailsOK(F, gs),
           \A n \in Names : \A c \in Clusters : Starts(e, gs, n, c) <=> Starts(d, fs, n, c)
    PROVE  ChainInv(F, e, gs)
<1>1. Roots(e, gs) = Roots(d, fs)
  BY Zenon DEF Roots
<1>2. HeadsOK(e, gs)
  BY DEF HeadsOK, ChainInv
<1> QED
  BY <1>1, <1>2, Zenon DEF ChainInv

\* The chain of a writer begins at one of the roots, which is not the root
\* directory, and different files have different ones.
LEMMA WriterRoot ==
    ASSUME NEW F, NEW d, NEW fs, ChainInv(F, d, fs),
           NEW n \in Names, NEW h \in Handles, Writes(fs, h, n), fs[h].nFirstCluster # 0
    PROVE  /\ fs[h].nFirstCluster \in Roots(d, fs) \ {nRootCluster}
           /\ fs[h].nFirstCluster \in Clusters
           /\ Starts(d, fs, n, fs[h].nFirstCluster)
<1>1. fs[h].nFirstCluster \in Clusters
  BY Zenon DEF ChainInv, FilesOK, File
<1>2. Starts(d, fs, n, fs[h].nFirstCluster)
  BY DEF Starts
<1> QED
  BY <1>1, <1>2, Zenon DEF ChainInv, HeadsOK, Roots

\* The file n, which nobody has open, loses its entry i and its chain.
LEMMA DeleteKeeps ==
    ASSUME NEW F, NEW d, NEW fs, ChainInv(F, d, fs),
           NEW n \in Names, \A h \in Handles : ~Opens(fs, h, n),
           NEW i \in DOMAIN d, d[i].Name = n,
           NEW e \in Seq(DirEntry), DOMAIN e = DOMAIN d,
           e[i] = Entry(FAT_DIR_NAME0_FREE, 0, 0), \A j \in DOMAIN d : j # i => e[j] = d[j],
           NEW G, FatType(G), d[i].nFirstCluster = 0 => G = F,
           d[i].nFirstCluster # 0 =>
             \A c \in Clusters : G[c] = IF c \in Walk(F, d[i].nFirstCluster) THEN 0 ELSE F[c]
    PROVE  ChainInv(G, e, fs) /\ \A j \in DOMAIN e : e[j].Name # n
<1> DEFINE first == d[i].nFirstCluster
<1>1. d \in Seq(DirEntry) /\ i \in 1 .. Len(d)
  BY DEF ChainInv, DirOK
<1>3. /\ e \in Seq(DirEntry) /\ DOMAIN e = DOMAIN d
      /\ e[i] = Entry(FAT_DIR_NAME0_FREE, 0, 0)
      /\ \A j \in DOMAIN d : j # i => e[j] = d[j]
  BY Zenon
<1>4. e[i].Name = FAT_DIR_NAME0_FREE /\ FAT_DIR_NAME0_FREE \notin Names
      /\ FAT_DIR_NAME0_FREE # FAT_DIR_NAME0_LAST /\ n # FAT_DIR_NAME0_LAST
  BY <1>3, FilesAssumption DEF Entry, FAT_DIR_NAME0_FREE, FAT_DIR_NAME0_LAST
<1>5. DirOK(e)
  BY <1>3, <1>4 DEF DirOK, ChainInv
<1>6. \A j \in DOMAIN e : e[j].Name # n
  BY <1>3, <1>4, Zenon DEF DirOK, ChainInv
<1>7. FilesOK(e, fs)
  <2>1. ASSUME NEW h \in Handles, fs[h].nUseCount # 0
        PROVE  fs[h].cFileName \in Names /\ \E j \in DOMAIN e : e[j].Name = fs[h].cFileName
    <3>1. PICK j \in DOMAIN d : d[j].Name = fs[h].cFileName
      BY <2>1, Zenon DEF ChainInv, FilesOK
    <3>2. fs[h].cFileName \in Names /\ fs[h].cFileName # n
      BY <2>1, Zenon DEF ChainInv, FilesOK, Opens
    <3> QED
      BY <1>3, <3>1, <3>2, Zenon
  <2> QED
    BY <2>1, Zenon DEF ChainInv, FilesOK
<1>8. ASSUME NEW m \in Names, NEW c
      PROVE  Starts(e, fs, m, c) <=> m # n /\ Starts(d, fs, m, c)
  <2>1. CASE m = n
    <3>1. \A h \in Handles : ~Writes(fs, h, n)
      BY Zenon DEF Writes
    <3> QED
      BY <2>1, <1>6, <3>1, Zenon DEF Starts
  <2>2. CASE m # n
    <3>1. \A j \in DOMAIN d : d[j].Name = m => j # i
      BY <2>2, Zenon
    <3>2. \A j \in DOMAIN e : e[j].Name = m => j # i
      BY <1>4, Zenon
    <3> QED
      BY <2>2, <1>3, <3>1, <3>2, Zenon DEF Starts
  <2> QED
    BY <2>1, <2>2, Zenon
<1>9. HeadsOK(e, fs)
  BY <1>8 DEF ChainInv, HeadsOK
<1>10. first = 0 \/ (first \in Clusters /\ Starts(d, fs, n, first))
  <2>1. first \in {0} \cup Clusters
    <3>1. d[i] \in DirEntry
      BY <1>1
    <3> QED
      BY <3>1, Zenon DEF DirEntry
  <2>2. \A h \in Handles : ~Writes(fs, h, n)
    BY Zenon DEF Writes
  <2> QED
    BY <2>1, <2>2, Zenon DEF Starts
<1>11. CASE first = 0
  <2>1. \A c \in Clusters : ~Starts(d, fs, n, c)
    <3>1. \A h \in Handles : ~Writes(fs, h, n)
      BY Zenon DEF Writes
    <3>2. \A j \in DOMAIN d : d[j].Name = n => j = i
      BY Zenon DEF ChainInv, DirOK
    <3> QED
      BY <3>1, <3>2, <1>11, Kinds, Zenon DEF Starts
  <2>2. \A m \in Names : \A c \in Clusters : Starts(e, fs, m, c) <=> Starts(d, fs, m, c)
    BY <1>8, <2>1, Zenon
  <2>3. G = F /\ TailsOK(F, fs)
    BY <1>11, Zenon DEF ChainInv
  <2>4. ChainInv(F, e, fs)
    BY <1>5, <1>7, <2>2, <2>3, SameStarts, Zenon
  <2> QED
    BY <1>6, <2>3, <2>4, Zenon
<1>12. CASE first # 0
  <2>1. first \in Roots(d, fs) /\ first # nRootCluster
    BY <1>10, <1>12, Zenon DEF Roots, ChainInv, HeadsOK
  <2>2. Roots(e, fs) = Roots(d, fs) \ {first}
    <3>1. \A c : Starts(d, fs, n, c) => c = first
      <4>1. \A h \in Handles : ~Writes(fs, h, n)
        BY DEF Writes
      <4>2. \A j \in DOMAIN d : d[j].Name = n => j = i
        BY Zenon DEF ChainInv, DirOK
      <4> QED
        BY <4>1, <4>2, Zenon DEF Starts
    <3>2. \A m \in Names : Starts(d, fs, m, first) => m = n
      BY <1>10, <1>12, Zenon DEF ChainInv, HeadsOK
    <3>3. \A c \in Clusters : (\E m \in Names : Starts(e, fs, m, c))
                <=> c # first /\ \E m \in Names : Starts(d, fs, m, c)
      BY <1>8, <3>1, <3>2, Zenon
    <3> HIDE DEF first
    <3> QED
      BY <2>1, <3>3, Zenon DEF Roots
  <2>3. /\ Sound(G, Roots(d, fs) \ {first})
        /\ \A g \in Roots(d, fs) \ {first} :
             Walk(G, g) = Walk(F, g) /\ \A x \in Walk(F, g) : G[x] = F[x]
    <3>1. /\ Sound(F, Roots(d, fs))
          /\ \A c \in Clusters : G[c] = IF c \in Walk(F, first) THEN 0 ELSE F[c]
      BY <1>12, Zenon DEF ChainInv
    <3> HIDE DEF first
    <3> QED
      BY <3>1, <2>1, DropChain, Zenon
  <2>4. TailsOK(G, fs)
    <3> SUFFICES ASSUME NEW m \in Names, NEW h \in Handles,
                        Writes(fs, h, m), fs[h].nFirstCluster # 0
                 PROVE  /\ fs[h].nCluster \in Walk(G, fs[h].nFirstCluster)
                        /\ G[fs[h].nCluster] = EOC
      BY Zenon DEF TailsOK
    <3>1. m # n
      BY Zenon DEF Writes
    <3>2. fs[h].nFirstCluster \in Roots(d, fs) \ {first}
      BY <1>10, <1>12, <3>1, WriterRoot, Zenon DEF ChainInv, HeadsOK
    <3>3. fs[h].nCluster \in Walk(F, fs[h].nFirstCluster) /\ F[fs[h].nCluster] = EOC
      BY Zenon DEF ChainInv, TailsOK
    <3> QED
      BY <2>3, <3>2, <3>3
  <2> QED
    BY <1>5, <1>6, <1>7, <1>9, <2>2, <2>3, <2>4, Zenon DEF ChainInv
<1> QED
  BY <1>11, <1>12, Zenon

\* A new file n gets the entry Entry(n, 0, 0), and the handle h writes it.
LEMMA CreateKeeps ==
    ASSUME NEW F, NEW d, NEW fs, ChainInv(F, d, fs),
           NEW n \in Names, \A i \in DOMAIN d : d[i].Name # n,
           NEW h \in Handles, fs[h].nUseCount = 0,
           NEW e, DirOK(e),
           \A i \in DOMAIN d : d[i].Name \in Names => i \in DOMAIN e /\ e[i] = d[i],
           \A i \in DOMAIN e : e[i].Name \in Names =>
                e[i] = Entry(n, 0, 0) \/ (i \in DOMAIN d /\ e[i] = d[i]),
           \E i \in DOMAIN e : e[i] = Entry(n, 0, 0),
           NEW gs, gs \in [Handles -> File], \A g \in Handles \ {h} : gs[g] = fs[g],
           gs[h].nUseCount # 0, gs[h].cFileName = n, gs[h].bWrite,
           gs[h].nFirstCluster = 0, gs[h].nSize = 0, gs[h].nOffset = 0, gs[h].pBuffer = NULL
    PROVE  ChainInv(F, e, gs)
<1>1. \A g \in Handles : ~Opens(fs, g, n)
  BY DEF Opens, ChainInv, FilesOK
<1>2. Writes(gs, h, n) /\ \A m \in Names : Writes(gs, h, m) => m = n
  BY Zenon DEF Writes, Opens
<1>3. \A m \in Names : \A g \in Handles \ {h} : Writes(gs, g, m) <=> Writes(fs, g, m)
  BY Zenon DEF Writes, Opens
<1>4. \A m \in Names : ~Writes(fs, h, m)
  BY Zenon DEF Writes, Opens
<1>5. FilesOK(e, gs)
  <2>1. ASSUME NEW g \in Handles, gs[g].nUseCount # 0
        PROVE  gs[g].cFileName \in Names /\ \E i \in DOMAIN e : e[i].Name = gs[g].cFileName
    <3>1. CASE g = h
      BY <3>1 DEF Entry
    <3>2. CASE g # h
      BY <2>1, <3>2 DEF ChainInv, FilesOK
    <3> QED
      BY <3>1, <3>2, Zenon
  <2>2. ASSUME NEW m \in Names, NEW f \in Handles, NEW g \in Handles,
               Writes(gs, f, m), Writes(gs, g, m)
        PROVE  f = g
    <3>1. CASE m = n
      BY <2>2, <3>1, <1>1, <1>3, Zenon DEF Writes
    <3>2. CASE m # n
      BY <2>2, <3>2, <1>2, <1>3 DEF ChainInv, FilesOK
    <3> QED
      BY <3>1, <3>2, Zenon
  <2>3. ASSUME NEW m \in Names, NEW g \in Handles, Writes(gs, g, m), gs[g].nFirstCluster = 0
        PROVE  gs[g].nSize = 0 /\ gs[g].nOffset = 0 /\ gs[g].pBuffer = NULL
    BY <2>3, <1>3 DEF ChainInv, FilesOK
  <2> QED
    BY <2>1, <2>2, <2>3, Zenon DEF FilesOK
<1>6. ASSUME NEW m \in Names, NEW c \in Clusters
      PROVE  Starts(e, gs, m, c) <=> Starts(d, fs, m, c)
  <2>1. CASE m = n
    <3>1. ~Starts(d, fs, n, c)
      BY <1>1, Zenon DEF Starts, Writes
    <3>2. ~Starts(e, gs, n, c)
      BY <1>1, <1>2, <1>3, Kinds DEF Starts, Writes
    <3> QED
      BY <2>1, <3>1, <3>2, Zenon
  <2>2. CASE m # n
    <3>1. \A g \in Handles : /\ Writes(gs, g, m) <=> Writes(fs, g, m)
                             /\ Writes(fs, g, m) => gs[g] = fs[g]
      BY <2>2, <1>2, <1>3, <1>4, Zenon
    <3>2. (\E i \in DOMAIN e : e[i].Name = m /\ e[i].nFirstCluster = c)
            <=> (\E i \in DOMAIN d : d[i].Name = m /\ d[i].nFirstCluster = c)
      BY <2>2 DEF Entry
    <3> QED
      BY <3>1, <3>2 DEF Starts
  <2> QED
    BY <2>1, <2>2, Zenon
<1>7. TailsOK(F, gs)
  BY <1>2, <1>3 DEF TailsOK, ChainInv
<1> QED
  BY <1>5, <1>6, <1>7, SameStarts, Zenon

\* The root directory grows by a cluster.
LEMMA GrowRootKeeps ==
    ASSUME NEW F, NEW d, NEW fs, ChainInv(F, d, fs), NEW c \in Clusters, F[c] = 0,
           NEW l \in Walk(F, nRootCluster), F[l] = EOC,
           NEW G, FatType(G), G[c] = EOC, G[l] = c,
           \A x \in Clusters : x # c /\ x # l => G[x] = F[x]
    PROVE  ChainInv(G, d, fs)
<1>1. Sound(F, Roots(d, fs)) /\ nRootCluster \in Roots(d, fs)
  BY Zenon DEF ChainInv, Roots
<1>2. /\ Sound(G, Roots(d, fs))
      /\ \A g \in Roots(d, fs) \ {nRootCluster} :
           Walk(G, g) = Walk(F, g) /\ \A x \in Walk(F, g) : G[x] = F[x]
  BY <1>1, GrowChain
<1>3. TailsOK(G, fs)
  <2> SUFFICES ASSUME NEW m \in Names, NEW h \in Handles,
                      Writes(fs, h, m), fs[h].nFirstCluster # 0
               PROVE  /\ fs[h].nCluster \in Walk(G, fs[h].nFirstCluster)
                      /\ G[fs[h].nCluster] = EOC
    BY Zenon DEF TailsOK
  <2>1. fs[h].nFirstCluster \in Roots(d, fs) \ {nRootCluster}
    BY WriterRoot, Zenon
  <2>2. fs[h].nCluster \in Walk(F, fs[h].nFirstCluster) /\ F[fs[h].nCluster] = EOC
    BY DEF ChainInv, TailsOK
  <2> QED
    BY <1>2, <2>1, <2>2, Zenon
<1> QED
  BY <1>2, <1>3, Zenon DEF ChainInv

\* A step of a handle that neither wrote nor writes.
LEMMA ReaderKeeps ==
    ASSUME NEW F, NEW d, NEW fs, ChainInv(F, d, fs), NEW h \in Handles,
           fs[h].nUseCount = 0 \/ ~fs[h].bWrite,
           NEW gs, gs \in [Handles -> File], \A g \in Handles \ {h} : gs[g] = fs[g],
           gs[h].nUseCount = 0 \/ ~gs[h].bWrite,
           gs[h].nUseCount # 0 =>
             gs[h].cFileName \in Names /\ \E i \in DOMAIN d : d[i].Name = gs[h].cFileName
    PROVE  ChainInv(F, d, gs)
<1>1. \A n \in Names : ~Writes(fs, h, n) /\ ~Writes(gs, h, n)
  BY Zenon DEF Writes, Opens
<1>2. \A n \in Names : \A g \in Handles : /\ Writes(gs, g, n) <=> Writes(fs, g, n)
                                          /\ Writes(fs, g, n) => gs[g] = fs[g]
  BY <1>1, Zenon DEF Writes, Opens
<1>3. FilesOK(d, gs)
  <2>1. ASSUME NEW g \in Handles, gs[g].nUseCount # 0
        PROVE  gs[g].cFileName \in Names /\ \E i \in DOMAIN d : d[i].Name = gs[g].cFileName
    BY <2>1, Zenon DEF ChainInv, FilesOK
  <2> QED
    BY <1>2, <2>1 DEF ChainInv, FilesOK
<1>4. \A n \in Names : \A c \in Clusters : Starts(d, gs, n, c) <=> Starts(d, fs, n, c)
  BY <1>2, Zenon DEF Starts
<1>5. TailsOK(F, gs)
  BY <1>2 DEF ChainInv, TailsOK
<1> QED
  BY <1>3, <1>4, <1>5, SameStarts, Zenon DEF ChainInv

\* The handle h, unused so far, opens file n, listed as entry i, for appending.
LEMMA AppendKeeps ==
    ASSUME NEW F, NEW d, NEW fs, ChainInv(F, d, fs), NEW h \in Handles, fs[h].nUseCount = 0,
           NEW n \in Names, \A g \in Handles : ~Writes(fs, g, n),
           NEW i \in DOMAIN d, d[i].Name = n, d[i].nFirstCluster # 0,
           NEW gs, gs \in [Handles -> File], \A g \in Handles \ {h} : gs[g] = fs[g],
           gs[h].nUseCount # 0, gs[h].cFileName = n, gs[h].bWrite,
           gs[h].nFirstCluster = d[i].nFirstCluster,
           gs[h].nCluster \in Walk(F, d[i].nFirstCluster), F[gs[h].nCluster] = EOC
    PROVE  ChainInv(F, d, gs)
<1>1. Writes(gs, h, n) /\ \A m \in Names : Writes(gs, h, m) => m = n
  BY Zenon DEF Writes, Opens
<1>2. \A m \in Names : \A g \in Handles \ {h} : Writes(gs, g, m) <=> Writes(fs, g, m)
  BY Zenon DEF Writes, Opens
<1>3. \A m \in Names : ~Writes(fs, h, m)
  BY Zenon DEF Writes, Opens
<1>4. FilesOK(d, gs)
  <2>1. ASSUME NEW g \in Handles, gs[g].nUseCount # 0
        PROVE  gs[g].cFileName \in Names /\ \E j \in DOMAIN d : d[j].Name = gs[g].cFileName
    BY <2>1 DEF ChainInv, FilesOK
  <2>2. ASSUME NEW m \in Names, NEW f \in Handles, NEW g \in Handles,
               Writes(gs, f, m), Writes(gs, g, m)
        PROVE  f = g
    BY <2>2, <1>1, <1>2 DEF ChainInv, FilesOK
  <2>3. ASSUME NEW m \in Names, NEW g \in Handles, Writes(gs, g, m), gs[g].nFirstCluster = 0
        PROVE  gs[g].nSize = 0 /\ gs[g].nOffset = 0 /\ gs[g].pBuffer = NULL
    BY <2>3, <1>2 DEF ChainInv, FilesOK
  <2> QED
    BY <2>1, <2>2, <2>3, Zenon DEF FilesOK
<1>5. ASSUME NEW m \in Names, NEW c \in Clusters
      PROVE  Starts(d, gs, m, c) <=> Starts(d, fs, m, c)
  <2>1. CASE m = n
    <3>1. \A j \in DOMAIN d : d[j].Name = n => j = i
      BY Zenon DEF ChainInv, DirOK
    <3>2. Starts(d, fs, n, c) <=> c = d[i].nFirstCluster
      BY <3>1, Zenon DEF Starts
    <3>3. Starts(d, gs, n, c) <=> c = d[i].nFirstCluster
      BY <1>1, <1>2, Zenon DEF Starts
    <3> QED
      BY <2>1, <3>2, <3>3, Zenon
  <2>2. CASE m # n
    <3>1. \A g \in Handles : /\ Writes(gs, g, m) <=> Writes(fs, g, m)
                             /\ Writes(fs, g, m) => gs[g] = fs[g]
      BY <2>2, <1>1, <1>2, <1>3
    <3> QED
      BY <3>1, Zenon DEF Starts
  <2> QED
    BY <2>1, <2>2, Zenon
<1>6. TailsOK(F, gs)
  BY <1>1, <1>2 DEF TailsOK, ChainInv
<1> QED
  BY <1>4, <1>5, <1>6, SameStarts, Zenon DEF ChainInv

\* The writer h of file n goes on: what is common to its three cases.
LEMMA WriterFiles ==
    ASSUME NEW F, NEW d, NEW fs, ChainInv(F, d, fs),
           NEW n \in Names, NEW h \in Handles, Writes(fs, h, n),
           NEW gs, gs \in [Handles -> File], \A g \in Handles \ {h} : gs[g] = fs[g],
           gs[h].nUseCount = fs[h].nUseCount, gs[h].cFileName = n, gs[h].bWrite,
           gs[h].nFirstCluster # 0
    PROVE  /\ FilesOK(d, gs)
           /\ \A m \in Names : \A g \in Handles :
                /\ Writes(gs, g, m) <=> Writes(fs, g, m)
                /\ Writes(fs, g, m) => (g = h <=> m = n) /\ (g # h => gs[g] = fs[g])
           /\ \A m \in Names \ {n} : \A c : Starts(d, gs, m, c) <=> Starts(d, fs, m, c)
           /\ \A c : Starts(d, gs, n, c) <=> c = gs[h].nFirstCluster
           /\ \A c : Starts(d, fs, n, c) <=> c = fs[h].nFirstCluster
<1>1. \A m \in Names : \A g \in Handles : Writes(gs, g, m) <=> Writes(fs, g, m)
  BY Zenon DEF Writes, Opens
<1>2. \A g \in Handles : Writes(fs, g, n) => g = h
  BY Zenon DEF ChainInv, FilesOK
<1>3. \A m \in Names : Writes(fs, h, m) => m = n
  BY Zenon DEF Writes, Opens
<1>4. FilesOK(d, gs)
  <2>1. ASSUME NEW g \in Handles, gs[g].nUseCount # 0
        PROVE  gs[g].cFileName \in Names /\ \E j \in DOMAIN d : d[j].Name = gs[g].cFileName
    BY <2>1 DEF ChainInv, FilesOK, Writes, Opens
  <2>2. ASSUME NEW m \in Names, NEW g \in Handles, Writes(gs, g, m), gs[g].nFirstCluster = 0
        PROVE  gs[g].nSize = 0 /\ gs[g].nOffset = 0 /\ gs[g].pBuffer = NULL
    BY <2>2, <1>1 DEF ChainInv, FilesOK
  <2> QED
    BY <1>1, <2>1, <2>2, Zenon DEF FilesOK, ChainInv
<1>5. \A m \in Names \ {n} : \A c : Starts(d, gs, m, c) <=> Starts(d, fs, m, c)
  BY <1>1, <1>3, Zenon DEF Starts
<1>6. /\ \A c : Starts(d, gs, n, c) <=> c = gs[h].nFirstCluster
      /\ \A c : Starts(d, fs, n, c) <=> c = fs[h].nFirstCluster
  BY <1>1, <1>2 DEF Starts
<1> QED
  BY <1>1, <1>2, <1>3, <1>4, <1>5, <1>6

\* It writes in the cluster it is in.
LEMMA WriteStays ==
    ASSUME NEW F, NEW d, NEW fs, ChainInv(F, d, fs),
           NEW n \in Names, NEW h \in Handles, Writes(fs, h, n),
           NEW gs, gs \in [Handles -> File], \A g \in Handles \ {h} : gs[g] = fs[g],
           gs[h].nUseCount = fs[h].nUseCount, gs[h].cFileName = n, gs[h].bWrite,
           fs[h].nFirstCluster # 0,
           gs[h].nFirstCluster = fs[h].nFirstCluster, gs[h].nCluster = fs[h].nCluster
    PROVE  ChainInv(F, d, gs)
<1>1. FilesOK(d, gs)
  BY WriterFiles
<1>2. \A m \in Names : \A c \in Clusters : Starts(d, gs, m, c) <=> Starts(d, fs, m, c)
  BY WriterFiles
<1>3. \A m \in Names : \A g \in Handles : Writes(gs, g, m) <=> Writes(fs, g, m)
  BY WriterFiles
<1>4. TailsOK(F, gs)
  BY <1>3 DEF ChainInv, TailsOK
<1> QED
  BY <1>1, <1>2, <1>4, SameStarts, Zenon DEF ChainInv

\* It begins the chain of its file.
LEMMA WriteBegins ==
    ASSUME NEW F, NEW d, NEW fs, ChainInv(F, d, fs),
           NEW n \in Names, NEW h \in Handles, Writes(fs, h, n), fs[h].nFirstCluster = 0,
           NEW c \in Clusters, F[c] = 0,
           NEW gs, gs \in [Handles -> File], \A g \in Handles \ {h} : gs[g] = fs[g],
           gs[h].nUseCount = fs[h].nUseCount, gs[h].cFileName = n, gs[h].bWrite,
           gs[h].nFirstCluster = c, gs[h].nCluster = c,
           NEW G, FatType(G), G[c] = EOC, \A x \in Clusters : x # c => G[x] = F[x]
    PROVE  ChainInv(G, d, gs)
<1> DEFINE H == Roots(d, fs)
<1>1. c # 0
  BY Kinds, Zenon
<1>2. /\ FilesOK(d, gs)
      /\ \A m \in Names : \A g \in Handles :
           /\ Writes(gs, g, m) <=> Writes(fs, g, m)
           /\ Writes(fs, g, m) => (g = h <=> m = n) /\ (g # h => gs[g] = fs[g])
      /\ \A m \in Names \ {n} : \A x : Starts(d, gs, m, x) <=> Starts(d, fs, m, x)
      /\ \A x : Starts(d, gs, n, x) <=> x = c
      /\ \A x : Starts(d, fs, n, x) <=> x = 0
  BY <1>1, WriterFiles
<1>3. Sound(F, H)
  BY Zenon DEF ChainInv
<1>4. /\ Sound(G, H \cup {c}) /\ Walk(G, c) = {c}
      /\ \A g \in H : Walk(G, g) = Walk(F, g)
  BY <1>3, BeginChain
<1>5. c \notin H /\ \A g \in H : c \notin Walk(F, g)
  BY <1>3, FreeApart, Zenon
<1>6. Roots(d, gs) = H \cup {c}
  BY <1>2, Kinds DEF Roots
<1>7. HeadsOK(d, gs)
  <2>1. c # nRootCluster /\ \A m \in Names : ~Starts(d, fs, m, c)
    BY <1>5, Zenon DEF Roots
  <2>2. \A m \in Names \ {n} : ~Starts(d, gs, m, c)
    BY <1>2, <2>1, Zenon
  <2> QED
    BY <1>2, <2>1, <2>2 DEF ChainInv, HeadsOK
<1>8. TailsOK(G, gs)
  <2> SUFFICES ASSUME NEW m \in Names, NEW g \in Handles,
                      Writes(gs, g, m), gs[g].nFirstCluster # 0
               PROVE  /\ gs[g].nCluster \in Walk(G, gs[g].nFirstCluster)
                      /\ G[gs[g].nCluster] = EOC
    BY Zenon DEF TailsOK
  <2>1. CASE g = h
    BY <2>1, <1>4, Zenon
  <2>2. CASE g # h
    <3>1. Writes(fs, g, m) /\ gs[g] = fs[g]
      BY <2>2, <1>2, Zenon
    <3>2. fs[g].nFirstCluster \in H
      BY <3>1, WriterRoot, Zenon
    <3>3. fs[g].nCluster \in Walk(F, fs[g].nFirstCluster) /\ F[fs[g].nCluster] = EOC
      BY <3>1 DEF ChainInv, TailsOK
    <3>4. fs[g].nCluster # c /\ fs[g].nCluster \in Clusters
      BY <1>5, <3>2, <3>3, WalkFacts
    <3> QED
      BY <1>4, <3>1, <3>2, <3>3, <3>4, Zenon
  <2> QED
    BY <2>1, <2>2, Zenon
<1> QED
  BY <1>2, <1>4, <1>6, <1>7, <1>8 DEF ChainInv

\* It links a further cluster to the chain of its file.
LEMMA WriteGrows ==
    ASSUME NEW F, NEW d, NEW fs, ChainInv(F, d, fs),
           NEW n \in Names, NEW h \in Handles, Writes(fs, h, n), fs[h].nFirstCluster # 0,
           NEW c \in Clusters, F[c] = 0,
           NEW gs, gs \in [Handles -> File], \A g \in Handles \ {h} : gs[g] = fs[g],
           gs[h].nUseCount = fs[h].nUseCount, gs[h].cFileName = n, gs[h].bWrite,
           gs[h].nFirstCluster = fs[h].nFirstCluster, gs[h].nCluster = c,
           NEW G, FatType(G), G[c] = EOC, G[fs[h].nCluster] = c,
           \A x \in Clusters : x # c /\ x # fs[h].nCluster => G[x] = F[x]
    PROVE  ChainInv(G, d, gs)
<1> DEFINE H == Roots(d, fs)
           first == fs[h].nFirstCluster
           l == fs[h].nCluster
<1>2. /\ FilesOK(d, gs)
      /\ \A m \in Names : \A g \in Handles :
           /\ Writes(gs, g, m) <=> Writes(fs, g, m)
           /\ Writes(fs, g, m) => (g = h <=> m = n) /\ (g # h => gs[g] = fs[g])
      /\ \A m \in Names : \A x : Starts(d, gs, m, x) <=> Starts(d, fs, m, x)
  BY WriterFiles
<1>3. Sound(F, H) /\ first \in H /\ first \in Clusters /\ Starts(d, fs, n, first)
  BY WriterRoot, Zenon DEF ChainInv
<1>4. l \in Walk(F, first) /\ F[l] = EOC
  BY Zenon DEF ChainInv, TailsOK
<1>5. /\ Sound(G, H) /\ c \in Walk(G, first)
      /\ \A g \in H \ {first} : Walk(G, g) = Walk(F, g) /\ \A x \in Walk(F, g) : G[x] = F[x]
  <2> HIDE DEF H, first
  <2> QED
    BY <1>3, <1>4, GrowChain
<1>6. Roots(d, gs) = H
  BY <1>2, Zenon DEF Roots
<1>7. HeadsOK(d, gs)
  BY <1>2, Zenon DEF ChainInv, HeadsOK
<1>8. TailsOK(G, gs)
  <2> SUFFICES ASSUME NEW m \in Names, NEW g \in Handles,
                      Writes(gs, g, m), gs[g].nFirstCluster # 0
               PROVE  /\ gs[g].nCluster \in Walk(G, gs[g].nFirstCluster)
                      /\ G[gs[g].nCluster] = EOC
    BY Zenon DEF TailsOK
  <2>1. CASE g = h
    BY <2>1, <1>5, Zenon
  <2>2. CASE g # h
    <3>1. Writes(fs, g, m) /\ gs[g] = fs[g] /\ m # n
      BY <2>2, <1>2, Zenon
    <3>2. fs[g].nFirstCluster \in H /\ Starts(d, fs, m, fs[g].nFirstCluster)
      BY <3>1, WriterRoot, Zenon
    <3>3. fs[g].nCluster \in Walk(F, fs[g].nFirstCluster) /\ F[fs[g].nCluster] = EOC
      BY <3>1 DEF ChainInv, TailsOK
    <3>4. fs[g].nFirstCluster # first
      BY <1>3, <3>1, <3>2, Zenon DEF ChainInv, HeadsOK
    <3> QED
      BY <1>5, <3>1, <3>2, <3>3, <3>4
  <2> QED
    BY <2>1, <2>2, Zenon
<1> QED
  BY <1>2, <1>5, <1>6, <1>7, <1>8, Zenon DEF ChainInv

\* The writer h of file n closes it, and its entry is brought up to date.
LEMMA CloseKeeps ==
    ASSUME NEW F, NEW d, NEW fs, ChainInv(F, d, fs),
           NEW n \in Names, NEW h \in Handles, Writes(fs, h, n),
           NEW gs, gs \in [Handles -> File], \A g \in Handles \ {h} : gs[g] = fs[g],
           gs[h].nUseCount = 0,
           NEW e, DirOK(e), DOMAIN e = DOMAIN d, \A i \in DOMAIN d : e[i].Name = d[i].Name,
           \A i \in DOMAIN d : e[i].nFirstCluster =
                IF d[i].Name = n THEN fs[h].nFirstCluster ELSE d[i].nFirstCluster
    PROVE  ChainInv(F, e, gs)
<1>1. \A m \in Names : ~Writes(gs, h, m)
  BY Zenon DEF Writes, Opens
<1>2. \A m \in Names : \A g \in Handles \ {h} : Writes(gs, g, m) <=> Writes(fs, g, m)
  BY Zenon DEF Writes, Opens
<1>3. /\ \A g \in Handles : Writes(fs, g, n) => g = h
      /\ \A m \in Names : Writes(fs, h, m) => m = n
  BY Zenon DEF ChainInv, FilesOK, Writes, Opens
<1>4. FilesOK(e, gs)
  <2>1. ASSUME NEW g \in Handles, gs[g].nUseCount # 0
        PROVE  gs[g].cFileName \in Names /\ \E j \in DOMAIN e : e[j].Name = gs[g].cFileName
    BY <2>1 DEF ChainInv, FilesOK
  <2>2. ASSUME NEW m \in Names, NEW f \in Handles, NEW g \in Handles,
               Writes(gs, f, m), Writes(gs, g, m)
        PROVE  f = g
    BY <2>2, <1>1, <1>2, Zenon DEF ChainInv, FilesOK
  <2>3. ASSUME NEW m \in Names, NEW g \in Handles, Writes(gs, g, m), gs[g].nFirstCluster = 0
        PROVE  gs[g].nSize = 0 /\ gs[g].nOffset = 0 /\ gs[g].pBuffer = NULL
    BY <2>3, <1>1, <1>2 DEF ChainInv, FilesOK
  <2> QED
    BY <2>1, <2>2, <2>3, Zenon DEF FilesOK
<1>5. ASSUME NEW m \in Names, NEW c \in Clusters
      PROVE  Starts(e, gs, m, c) <=> Starts(d, fs, m, c)
  <2>1. CASE m = n
    <3>1. \E i \in DOMAIN d : d[i].Name = n
      BY Zenon DEF ChainInv, FilesOK, Writes, Opens
    <3>2. Starts(d, fs, n, c) <=> c = fs[h].nFirstCluster
      BY <1>3, Zenon DEF Starts
    <3>3. Starts(e, gs, n, c) <=> c = fs[h].nFirstCluster
      BY <1>1, <1>2, <1>3, <3>1 DEF Starts
    <3> QED
      BY <2>1, <3>2, <3>3, Zenon
  <2>2. CASE m # n
    <3>1. \A g \in Handles : /\ Writes(gs, g, m) <=> Writes(fs, g, m)
                             /\ Writes(fs, g, m) => gs[g] = fs[g]
      BY <2>2, <1>1, <1>2, <1>3, Zenon
    <3> QED
      BY <2>2, <3>1, Zenon DEF Starts
  <2> QED
    BY <2>1, <2>2, Zenon
<1>6. TailsOK(F, gs)
  BY <1>1, <1>2 DEF TailsOK, ChainInv
<1> QED
  BY <1>4, <1>5, <1>6, SameStarts, Zenon
=============================================================================
