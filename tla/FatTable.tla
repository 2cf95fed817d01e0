------------------------------ MODULE FatTable ------------------------------
(***************************************************************************)
(* The file allocation table (env/lib/fs/fat.c) and the allocation data    *)
(* kept beside it (env/lib/fs/fatinfo.c), as operators on a table          *)
(*     [fat, m_nFreeCount, m_nNextFreeCluster].                            *)
(*                                                                         *)
(* fat is the table as read through the sector cache.  The copies that     *)
(* FATSetClusterEntry keeps equal are one function, and the three kinds of *)
(* 32 bit entries the code tells apart are 0 (free), the number of the     *)
(* next cluster, and EOC for every value from 0x0FFFFFF8 on.  Entries 0    *)
(* and 1 exist and hold such values; no cluster has these numbers.         *)
(***************************************************************************)
EXTENDS Integers, FiniteSetsExt

CONSTANTS
    m_nClusters,    \* data clusters of the volume, numbered from 2
    nRootCluster    \* the first cluster of the root directory

EOC == -1
FREE_COUNT_UNKNOWN == -1

Clusters == 2 .. (m_nClusters + 1)
Entries == {0, 1} \cup Clusters

ASSUME TableAssumption ==
    /\ m_nClusters \in Nat \ {0, 1}
    /\ nRootCluster = 2

Tables == [fat : [Entries -> {0, EOC} \cup Clusters],
           m_nFreeCount : Int,
           m_nNextFreeCluster : Clusters]

-----------------------------------------------------------------------------
(* FormatFat32Disk: the root directory has one cluster, everything else is *)
(* free.  The free count is the number of entries of the table (SetFSInfo),*)
(* the root's included.                                                    *)
FormatFat32Disk ==
    [fat |-> [c \in Entries |-> IF c \in {0, 1, nRootCluster} THEN EOC ELSE 0],
     m_nFreeCount |-> m_nClusters,
     m_nNextFreeCluster |-> 3]

FATGetClusterEntry(t, c) == t.fat[c]

FATSetClusterEntry(t, c, e) == [t EXCEPT !.fat[c] = e]

\* mutant: the hint does not start again at 2
HintRunsOn(t, c) ==
    [t EXCEPT !.m_nFreeCount = @ - 1, !.m_nNextFreeCluster = c + 1]

FATInfoClusterAllocated(t, c) ==
    [t EXCEPT
        !.m_nFreeCount = IF @ # FREE_COUNT_UNKNOWN /\ @ > 0 THEN @ - 1 ELSE @,
        !.m_nNextFreeCluster = IF c <= m_nClusters THEN c + 1 ELSE 2]

\* the free clusters that the search from the hint upwards comes across
FreeFromHint(t) == {c \in Clusters : c >= t.m_nNextFreeCluster /\ t.fat[c] = 0}

\* the cluster FATAllocateCluster returns, 0 when it finds none
FATAllocateCluster(t) ==
    IF FreeFromHint(t) = {} THEN 0
    ELSE CHOOSE c \in FreeFromHint(t) : \A d \in FreeFromHint(t) : c <= d

\* the table after FATAllocateCluster has returned c
Allocated(t, c) == FATInfoClusterAllocated(FATSetClusterEntry(t, c, EOC), c)

\* mutant: freeing a chain does not lower the hint
FreedKeepsHint(t, S) ==
    [t EXCEPT !.fat = [c \in Entries |-> IF c \in S THEN 0 ELSE @[c]]]

(* FATInfoClusterFreed for every cluster of a chain with the set S, after  *)
(* its entry is 0: the count grows up to the number of clusters, the hint  *)
(* falls to the lowest cluster of the chain.                               *)
Freed(t, S) ==
    [fat |-> [c \in Entries |-> IF c \in S THEN 0 ELSE t.fat[c]],
     m_nFreeCount |->
        LET grown == t.m_nFreeCount + Cardinality(S)
        IN  IF t.m_nFreeCount = FREE_COUNT_UNKNOWN \/ t.m_nFreeCount >= m_nClusters
            THEN t.m_nFreeCount
            ELSE IF grown <= m_nClusters THEN grown ELSE m_nClusters,
     m_nNextFreeCluster |->
        LET below == {c \in S : c < t.m_nNextFreeCluster}
        IN  IF below = {} THEN t.m_nNextFreeCluster
            ELSE CHOOSE c \in below : \A d \in below : c <= d]

-----------------------------------------------------------------------------
\* the sets of clusters that a walk along the entries from c does not leave
Closed(fat, c) ==
    {S \in SUBSET Clusters : /\ c \in Clusters => c \in S
                             /\ \A e \in S : fat[e] \in Clusters => fat[e] \in S}

\* the clusters the walk comes across
Walk(fat, c) ==
    LET closed == Closed(fat, c) IN {d \in Clusters : \A S \in closed : d \in S}

Chain(t, c) == Walk(t.fat, c)
ChainLength(t, c) == Cardinality(Chain(t, c))

\* a walk through the clusters of a chain comes to an EOC entry, so it has
\* met none of them twice
Ends(t, chain) == \E d \in chain : t.fat[d] = EOC

FATFreeClusterChain(t, c) == Freed(t, Chain(t, c))

\* the last cluster of the chain: FATIsEOC holds of its entry
FATGetFileLastCluster(t, c) == CHOOSE d \in Chain(t, c) \cup {c} : t.fat[d] = EOC

\* the k-th cluster of the chain that starts at c (k = 0: c itself)
ChainAt(t, c, k) ==
    LET at[i \in Nat] ==
            IF i = 0 THEN c
            ELSE LET before == at[i - 1]
                 IN  IF before \in Entries THEN t.fat[before] ELSE EOC
    IN  at[k]

\* FATGetFileCluster: the chain's k-th cluster, 0 when the chain is shorter
FATGetFileCluster(t, c, k) ==
    IF k = 0 THEN c
    ELSE IF ChainAt(t, c, k) \in Clusters THEN ChainAt(t, c, k) ELSE 0
=============================================================================
