------------------------------ MODULE FatCache ------------------------------
(***************************************************************************)
(* The cluster cache of fatcache.c under any number of files, handles and  *)
(* buffers, as long as there are more buffers than handles: use counts are *)
(* right, so that a file that needs a buffer finds one, and a dirty buffer *)
(* always belongs to a file that is being written.                         *)
(*                                                                         *)
(* The invariant, CacheInv, adds to FatInv the list of buffers as seen     *)
(* from the handles (CacheOK), that a file has at most the cluster it is   *)
(* at pinned (PinsCurrent), and that dirty clusters are on the chain of a  *)
(* writer. The first part is about the operations of fatcache.c on the     *)
(* list alone; the second about the calls of fatfs.c, which pin a cluster, *)
(* copy and release it.                                                    *)
(***************************************************************************)
EXTENDS FatProofs, FiniteSetTheorems

\* The places of the list of buffers.
Slots == 1 .. FAT_CLUSER_BUFFERS

\* A buffer of the list.
IsBuffer(b) ==
    /\ b = [nCluster |-> b.nCluster, nUseCount |-> b.nUseCount,
            bDirty |-> b.bDirty, pBuf |-> b.pBuf]
    /\ b.nCluster # NULL /\ b.nUseCount \in Nat /\ b.bDirty \in BOOLEAN

\* The handles that have cluster c pinned, where P is the cluster of each handle.
Holders(P, c) == {h \in Handles : P[h] = c}

\* The list L is right for the clusters P that the handles have pinned: use
\* counts are the numbers of handles, no cluster is in two buffers, and pinned
\* clusters are in buffers.
CacheOK(L, P) ==
    /\ L = [i \in Slots |-> L[i]]
    /\ \A i \in Slots : /\ IsBuffer(L[i])
                        /\ L[i].nUseCount = Cardinality(Holders(P, L[i].nCluster))
    /\ \A i, j \in Slots : L[i].nCluster = L[j].nCluster => i = j \/ L[i].nCluster = BUFFER_NOCLUSTER
    /\ \A h \in Handles : P[h] # NULL =>
            P[h] # BUFFER_NOCLUSTER /\ \E i \in Slots : L[i].nCluster = P[h]

\* The clusters that are in dirty buffers.
DirtyOnes(L) == {L[i].nCluster : i \in {j \in Slots : L[j].bDirty}}

\* M is L in another order.
Reordered(L, M) ==
    \E p \in [Slots -> Slots] :
        /\ \A j, k \in Slots : p[j] = p[k] => j = k
        /\ \A k \in Slots : \E j \in Slots : p[j] = k
        /\ M = [j \in Slots |-> L[p[j]]]

-----------------------------------------------------------------------------
\* There are finitely many handles and buffers, and more buffers.
LEMMA SlotsFinite ==
    /\ IsFiniteSet(Handles) /\ Cardinality(Handles) = FAT_FILES
    /\ IsFiniteSet(Slots) /\ Cardinality(Slots) = FAT_CLUSER_BUFFERS
    /\ FAT_CLUSER_BUFFERS \in Nat /\ FAT_FILES < FAT_CLUSER_BUFFERS
<1>1. FAT_FILES \in Nat \ {0} /\ FAT_CLUSER_BUFFERS \in Nat /\ FAT_FILES < FAT_CLUSER_BUFFERS
  BY FilesAssumption, Zenon
<1>2. \A b \in Nat \ {0} : IsFiniteSet(1 .. b) /\ Cardinality(1 .. b) = b
  <2> SUFFICES ASSUME NEW b \in Nat \ {0} PROVE IsFiniteSet(1 .. b) /\ Cardinality(1 .. b) = b
    BY Zenon
  <2>1. IsFiniteSet(1 .. b) /\ Cardinality(1 .. b) = IF 1 > b THEN 0 ELSE b - 1 + 1
    BY FS_Interval
  <2> QED
    BY ONLY <2>1, b \in Nat \ {0}
<1>3. FAT_CLUSER_BUFFERS \in Nat \ {0}
  BY ONLY <1>1
<1> QED
  BY <1>1, <1>2, <1>3, Zenon DEF Handles, Slots

\* The holders of a cluster can be counted.
LEMMA HoldersFinite ==
    ASSUME NEW P, NEW c
    PROVE  /\ IsFiniteSet(Holders(P, c)) /\ Cardinality(Holders(P, c)) \in Nat
           /\ Cardinality(Holders(P, c)) = 0 <=> Holders(P, c) = {}
<1>1. Holders(P, c) \in SUBSET Handles
  BY Zenon DEF Holders
<1>2. IsFiniteSet(Holders(P, c))
  BY <1>1, SlotsFinite, FS_Subset, Zenon
<1> QED
  BY <1>2, FS_EmptySet, FS_CardinalityType, Zenon

\* A set of buffers has a last one, which Max names.
LEMMA Highest ==
    ASSUME NEW S, S \subseteq Slots, S # {}
    PROVE  Max(S) \in S
<1> DEFINE N == FAT_CLUSER_BUFFERS
           T == {k \in Nat : \E x \in S : k = N - x}
<1>1. N \in Nat /\ S \subseteq 1 .. N
  BY SlotsFinite, Zenon DEF Slots
<1> HIDE DEF N
<1>2. \A x \in S : x \in Int /\ N - x \in Nat
  BY ONLY <1>1
<1>3. T # {} /\ T \subseteq Nat
  BY <1>2, Zenon
<1>4. PICK m \in T : \A d \in T : m <= d
  BY <1>3, Lowest, Zenon
<1>5. PICK x \in S : m = N - x
  BY <1>4, Zenon
<1>6. \A y \in S : N - x <= N - y
  BY <1>2, <1>4, <1>5, Zenon
<1>7. \A y \in S : x >= y
  BY ONLY <1>1, <1>2, <1>6, x \in S
<1> QED
  BY <1>5, <1>7, Zenon DEF Max

\* The order of the buffers does not matter to the use counts.
LEMMA ReorderOK ==
    ASSUME NEW L, NEW M, NEW P, CacheOK(L, P), Reordered(L, M)
    PROVE  CacheOK(M, P) /\ DirtyOnes(M) \subseteq DirtyOnes(L)
<1>1. PICK p \in [Slots -> Slots] :
        /\ \A j, k \in Slots : p[j] = p[k] => j = k
        /\ \A k \in Slots : \E j \in Slots : p[j] = k
        /\ M = [j \in Slots |-> L[p[j]]]
  BY Zenon DEF Reordered
<1>2. \A j \in Slots : p[j] \in Slots /\ M[j] = L[p[j]]
  BY <1>1, Zenon
<1>3. M = [j \in Slots |-> M[j]]
  BY <1>1, <1>2, Zenon
<1>4. ASSUME NEW i \in Slots
      PROVE  IsBuffer(M[i]) /\ M[i].nUseCount = Cardinality(Holders(P, M[i].nCluster))
  <2>1. p[i] \in Slots /\ M[i] = L[p[i]]
    BY <1>2, Zenon
  <2>2. /\ IsBuffer(L[p[i]])
        /\ L[p[i]].nUseCount = Cardinality(Holders(P, L[p[i]].nCluster))
    BY <2>1, Zenon DEF CacheOK
  <2> QED
    BY ONLY <2>1, <2>2, Zenon
<1>5. ASSUME NEW i \in Slots, NEW j \in Slots, M[i].nCluster = M[j].nCluster
      PROVE  i = j \/ M[i].nCluster = BUFFER_NOCLUSTER
  <2>1. /\ p[i] \in Slots /\ p[j] \in Slots
        /\ M[i].nCluster = L[p[i]].nCluster /\ M[j].nCluster = L[p[j]].nCluster
    BY <1>2, Zenon
  <2>2. L[p[i]].nCluster = L[p[j]].nCluster
    BY ONLY <1>5, <2>1, Zenon
  <2>3. p[i] = p[j] \/ L[p[i]].nCluster = BUFFER_NOCLUSTER
    BY <2>1, <2>2, Zenon DEF CacheOK
  <2> QED
    BY <1>1, <2>1, <2>3, Zenon
<1>6. ASSUME NEW h \in Handles, P[h] # NULL
      PROVE  P[h] # BUFFER_NOCLUSTER /\ \E i \in Slots : M[i].nCluster = P[h]
  <2>1. PICK k \in Slots : L[k].nCluster = P[h] /\ P[h] # BUFFER_NOCLUSTER
    BY <1>6, Zenon DEF CacheOK
  <2>2. PICK j \in Slots : p[j] = k
    BY <1>1, Zenon
  <2>3. M[j].nCluster = P[h]
    BY <1>2, <2>1, <2>2, Zenon
  <2> QED
    BY <2>1, <2>3, Zenon
<1>7. ASSUME NEW c \in DirtyOnes(M) PROVE c \in DirtyOnes(L)
  <2>1. PICK i \in Slots : M[i].bDirty /\ c = M[i].nCluster
    BY Zenon DEF DirtyOnes
  <2>2. p[i] \in Slots /\ L[p[i]].bDirty /\ c = L[p[i]].nCluster
    BY <1>2, <2>1, Zenon
  <2> QED
    BY <2>2, Zenon DEF DirtyOnes
<1> QED
  BY <1>3, <1>4, <1>5, <1>6, <1>7, Zenon DEF CacheOK

\* The list without its i-th buffer.
LEMMA UnlinkedIs ==
    ASSUME NEW S, NEW L \in Seq(S), NEW i \in 1 .. Len(L)
    PROVE  /\ Unlinked(L, i) \in Seq(S) /\ Len(Unlinked(L, i)) = Len(L) - 1
           /\ \A j \in 1 .. (Len(L) - 1) : Unlinked(L, i)[j] = IF j < i THEN L[j] ELSE L[j + 1]
<1> DEFINE u == SubSeq(L, 1, i - 1)
           v == SubSeq(L, i + 1, Len(L))
<1>1. u \in Seq(S) /\ Len(u) = i - 1 /\ \A j \in 1 .. (i - 1) : u[j] = L[j]
  OBVIOUS
<1>2. v \in Seq(S) /\ Len(v) = Len(L) - i /\ \A j \in 1 .. (Len(L) - i) : v[j] = L[j + i]
  OBVIOUS
<1>3. Unlinked(L, i) = u \o v
  BY Zenon DEF Unlinked
<1> HIDE DEF u, v
<1>4. /\ u \o v \in Seq(S) /\ Len(u \o v) = Len(u) + Len(v)
      /\ \A j \in 1 .. (Len(u) + Len(v)) : (u \o v)[j] = IF j <= Len(u) THEN u[j] ELSE v[j - Len(u)]
  BY <1>1, <1>2, Joined, Zenon
<1> QED
  BY <1>1, <1>2, <1>3, <1>4

\* Moving a buffer to an end of the list.
LEMMA MoveFirstIs ==
    ASSUME NEW L, L = [j \in Slots |-> L[j]], NEW i \in Slots, NEW b
    PROVE  Reordered([L EXCEPT ![i] = b], MoveFirst(L, i, b))
<1> DEFINE N == FAT_CLUSER_BUFFERS
           S == {L[j] : j \in Slots} \cup {b}
           w == Unlinked(L, i)
           K == [L EXCEPT ![i] = b]
           M == MoveFirst(L, i, b)
           o == <<b>>
           p == [j \in Slots |-> IF j = 1 THEN i ELSE IF j <= i THEN j - 1 ELSE j]
<1>1. N \in Nat /\ i \in 1 .. N /\ Slots = 1 .. N
  BY SlotsFinite, Zenon DEF Slots
<1>2. L \in [1 .. N -> S]
  BY Zenon DEF Slots
<1>3. L \in Seq(S) /\ Len(L) = N
  BY <1>1, <1>2, FunctionIsSeq, Zenon
<1>4. /\ w \in Seq(S) /\ Len(w) = N - 1
      /\ \A j \in 1 .. (N - 1) : w[j] = IF j < i THEN L[j] ELSE L[j + 1]
  <2>1. L \in Seq(S) /\ i \in 1 .. Len(L)
    BY <1>1, <1>3, Zenon
  <2>2. /\ w \in Seq(S) /\ Len(w) = Len(L) - 1
        /\ \A j \in 1 .. (Len(L) - 1) : w[j] = IF j < i THEN L[j] ELSE L[j + 1]
    BY ONLY <2>1, UnlinkedIs, Zenon
  <2> QED
    BY ONLY <1>3, <2>2, Zenon
<1>5. o \in Seq(S) /\ Len(o) = 1 /\ o[1] = b
  <2>1. b \in S
    BY Zenon
  <2> HIDE DEF S
  <2> QED
    BY ONLY <2>1
<1>6. M = o \o w
  BY Zenon DEF MoveFirst
<1>7. K = [j \in 1 .. N |-> IF j = i THEN b ELSE L[j]]
  BY <1>1, Zenon
<1> HIDE DEF w, S, N, M, K, o
<1>8. /\ M \in Seq(S) /\ Len(M) = N
      /\ \A j \in 1 .. N : M[j] = IF j = 1 THEN b ELSE w[j - 1]
  <2>1. /\ o \o w \in Seq(S) /\ Len(o \o w) = Len(o) + Len(w)
        /\ \A j \in 1 .. (Len(o) + Len(w)) :
             (o \o w)[j] = IF j <= Len(o) THEN o[j] ELSE w[j - Len(o)]
    <3>1. o \in Seq(S) /\ w \in Seq(S)
      BY <1>4, <1>5, Zenon
    <3> QED
      BY ONLY <3>1, Joined, Zenon
  <2>2. M \in Seq(S) /\ Len(M) = 1 + (N - 1)
        /\ \A j \in 1 .. (1 + (N - 1)) : M[j] = IF j <= 1 THEN o[j] ELSE w[j - 1]
    BY ONLY <1>4, <1>5, <1>6, <2>1, Zenon
  <2> QED
    BY ONLY <1>1, <1>5, <2>2
<1>9. /\ p \in [Slots -> Slots]
      /\ \A j, k \in Slots : p[j] = p[k] => j = k
      /\ \A k \in Slots : \E j \in Slots : p[j] = k
  <2>1. p \in [Slots -> Slots]
    BY ONLY <1>1
  <2>2. \A j, k \in Slots : p[j] = p[k] => j = k
    BY ONLY <1>1
  <2>3. ASSUME NEW k \in Slots PROVE \E j \in Slots : p[j] = k
    <3>1. CASE k = i
      BY ONLY <1>1, <3>1
    <3>2. CASE k < i
      <4>1. k + 1 \in Slots /\ p[k + 1] = k
        BY ONLY <1>1, <3>2, k \in Slots
      <4> QED
        BY <4>1, Zenon
    <3>3. CASE k > i
      <4>1. p[k] = k
        BY ONLY <1>1, <3>3, k \in Slots
      <4> QED
        BY <4>1, Zenon
    <3> QED
      BY ONLY <1>1, <3>1, <3>2, <3>3, k \in Slots
  <2> QED
    BY <2>1, <2>2, <2>3, Zenon
<1>10. ASSUME NEW j \in Slots PROVE M[j] = K[p[j]]
  <2>1. j \in 1 .. N /\ p[j] \in 1 .. N /\ K[p[j]] = IF p[j] = i THEN b ELSE L[p[j]]
    BY <1>1, <1>7, <1>9, Zenon
  <2>2. p[j] = IF j = 1 THEN i ELSE IF j <= i THEN j - 1 ELSE j
    BY Zenon
  <2> HIDE DEF p
  <2>3. CASE j = 1
    BY ONLY <1>8, <2>1, <2>2, <2>3
  <2>4. CASE j # 1 /\ j <= i
    <3>1. j - 1 \in 1 .. (N - 1) /\ j - 1 < i /\ p[j] = j - 1 /\ p[j] # i
      BY ONLY <1>1, <2>1, <2>2, <2>4
    <3> QED
      BY ONLY <1>4, <1>8, <2>1, <2>4, <3>1
  <2>5. CASE j # 1 /\ ~(j <= i)
    <3>1. j - 1 \in 1 .. (N - 1) /\ ~(j - 1 < i) /\ p[j] = j /\ p[j] # i /\ (j - 1) + 1 = j
      BY ONLY <1>1, <2>1, <2>2, <2>5
    <3> QED
      BY ONLY <1>4, <1>8, <2>1, <2>5, <3>1
  <2> QED
    BY <2>3, <2>4, <2>5, Zenon
<1>11. M = [j \in Slots |-> K[p[j]]]
  <2>1. M = [j \in Slots |-> M[j]]
    BY ONLY <1>1, <1>8
  <2> QED
    BY <1>10, <2>1, Zenon
<1> HIDE DEF p
<1> QED
  BY <1>9, <1>11, Zenon DEF Reordered, M, K

\* The same for the other end.
LEMMA MoveLastIs ==
    ASSUME NEW L, L = [j \in Slots |-> L[j]], NEW i \in Slots, NEW b
    PROVE  Reordered([L EXCEPT ![i] = b], MoveLast(L, i, b))
<1> DEFINE N == FAT_CLUSER_BUFFERS
           S == {L[j] : j \in Slots} \cup {b}
           w == Unlinked(L, i)
           K == [L EXCEPT ![i] = b]
           M == MoveLast(L, i, b)
           p == [j \in Slots |-> IF j = N THEN i ELSE IF j < i THEN j ELSE j + 1]
<1>1. N \in Nat /\ i \in 1 .. N /\ Slots = 1 .. N
  BY SlotsFinite, Zenon DEF Slots
<1>2. L \in [1 .. N -> S]
  BY Zenon DEF Slots
<1>3. L \in Seq(S) /\ Len(L) = N
  BY <1>1, <1>2, FunctionIsSeq, Zenon
<1>4. /\ w \in Seq(S) /\ Len(w) = N - 1
      /\ \A j \in 1 .. (N - 1) : w[j] = IF j < i THEN L[j] ELSE L[j + 1]
  <2>1. L \in Seq(S) /\ i \in 1 .. Len(L)
    BY <1>1, <1>3, Zenon
  <2>2. /\ w \in Seq(S) /\ Len(w) = Len(L) - 1
        /\ \A j \in 1 .. (Len(L) - 1) : w[j] = IF j < i THEN L[j] ELSE L[j + 1]
    BY ONLY <2>1, UnlinkedIs, Zenon
  <2> QED
    BY ONLY <1>3, <2>2, Zenon
<1>5. b \in S
  BY Zenon
<1>6. M = Append(w, b)
  BY Zenon DEF MoveLast
<1>7. K = [j \in 1 .. N |-> IF j = i THEN b ELSE L[j]]
  BY <1>1, Zenon
<1> HIDE DEF w, S, N, M, K
<1>8. /\ M \in Seq(S) /\ Len(M) = N
      /\ \A j \in 1 .. N : M[j] = IF j = N THEN b ELSE w[j]
  BY ONLY <1>1, <1>4, <1>5, <1>6
<1>9. /\ p \in [Slots -> Slots]
      /\ \A j, k \in Slots : p[j] = p[k] => j = k
      /\ \A k \in Slots : \E j \in Slots : p[j] = k
  <2>1. p \in [Slots -> Slots]
    BY ONLY <1>1
  <2>2. \A j, k \in Slots : p[j] = p[k] => j = k
    BY ONLY <1>1
  <2>3. ASSUME NEW k \in Slots PROVE \E j \in Slots : p[j] = k
    <3>1. CASE k = i
      BY ONLY <1>1, <3>1
    <3>2. CASE k < i
      <4>1. p[k] = k
        BY ONLY <1>1, <3>2, k \in Slots
      <4> QED
        BY <4>1, Zenon
    <3>3. CASE k > i
      <4>1. k - 1 \in Slots /\ p[k - 1] = k
        BY ONLY <1>1, <3>3, k \in Slots
      <4> QED
        BY <4>1, Zenon
    <3> QED
      BY ONLY <1>1, <3>1, <3>2, <3>3, k \in Slots
  <2> QED
    BY <2>1, <2>2, <2>3, Zenon
<1>10. ASSUME NEW j \in Slots PROVE M[j] = K[p[j]]
  <2>1. j \in 1 .. N /\ p[j] \in 1 .. N /\ K[p[j]] = IF p[j] = i THEN b ELSE L[p[j]]
    BY <1>1, <1>7, <1>9, Zenon
  <2>2. p[j] = IF j = N THEN i ELSE IF j < i THEN j ELSE j + 1
    BY Zenon
  <2> HIDE DEF p
  <2>3. CASE j = N
    BY ONLY <1>8, <2>1, <2>2, <2>3
  <2>4. CASE j # N
    <3>1. j \in 1 .. (N - 1) /\ p[j] # i /\ (j < i => p[j] = j) /\ (~(j < i) => p[j] = j + 1)
      BY ONLY <1>1, <2>1, <2>2, <2>4
    <3> QED
      BY ONLY <1>4, <1>8, <2>1, <2>4, <3>1
  <2> QED
    BY <2>3, <2>4, Zenon
<1>11. M = [j \in Slots |-> K[p[j]]]
  <2>1. M = [j \in Slots |-> M[j]]
    BY ONLY <1>1, <1>8
  <2> QED
    BY <1>10, <2>1, Zenon
<1> HIDE DEF p
<1> QED
  BY <1>9, <1>11, Zenon DEF Reordered, M, K

\* Buffer b can take the place of the i-th one of L when the pinned clusters
\* change from P to Q.
Fits(L, P, i, b, Q) ==
    /\ i \in Slots /\ IsBuffer(b) /\ b.nUseCount = Cardinality(Holders(Q, b.nCluster))
    /\ \A j \in Slots \ {i} : /\ L[j].nCluster # b.nCluster \/ b.nCluster = BUFFER_NOCLUSTER
                              /\ Holders(Q, L[j].nCluster) = Holders(P, L[j].nCluster)
    /\ \A h \in Handles : Q[h] # NULL =>
            /\ Q[h] # BUFFER_NOCLUSTER
            /\ Q[h] = b.nCluster \/ \E j \in Slots \ {i} : L[j].nCluster = Q[h]

\* Changing one buffer.
LEMMA ReplaceOK ==
    ASSUME NEW L, NEW P, CacheOK(L, P), NEW i, NEW b, NEW Q, Fits(L, P, i, b, Q),
           NEW K, K = [L EXCEPT ![i] = b]
    PROVE  /\ CacheOK(K, Q)
           /\ \A c \in DirtyOnes(K) : c \in DirtyOnes(L) \/ (b.bDirty /\ c = b.nCluster)
<1>0. /\ i \in Slots /\ IsBuffer(b) /\ b.nUseCount = Cardinality(Holders(Q, b.nCluster))
      /\ \A j \in Slots \ {i} : /\ L[j].nCluster # b.nCluster \/ b.nCluster = BUFFER_NOCLUSTER
                                /\ Holders(Q, L[j].nCluster) = Holders(P, L[j].nCluster)
      /\ \A h \in Handles : Q[h] # NULL =>
            /\ Q[h] # BUFFER_NOCLUSTER
            /\ Q[h] = b.nCluster \/ \E j \in Slots \ {i} : L[j].nCluster = Q[h]
  BY Zenon DEF Fits
<1>1. L = [j \in Slots |-> L[j]]
  BY Zenon DEF CacheOK
<1>2. K[i] = b /\ \A j \in Slots \ {i} : K[j] = L[j]
  BY <1>0, <1>1, Zenon
<1>3. K = [j \in Slots |-> K[j]]
  BY <1>1, Zenon
<1>4. ASSUME NEW j \in Slots
      PROVE  IsBuffer(K[j]) /\ K[j].nUseCount = Cardinality(Holders(Q, K[j].nCluster))
  <2>1. CASE j = i
    BY <1>0, <1>2, <2>1, Zenon
  <2>2. CASE j # i
    <3>1. K[j] = L[j] /\ Holders(Q, L[j].nCluster) = Holders(P, L[j].nCluster)
      BY <1>0, <1>2, <2>2, Zenon
    <3>2. IsBuffer(L[j]) /\ L[j].nUseCount = Cardinality(Holders(P, L[j].nCluster))
      BY Zenon DEF CacheOK
    <3> QED
      BY ONLY <3>1, <3>2, Zenon
  <2> QED
    BY <2>1, <2>2, Zenon
<1>5. ASSUME NEW j \in Slots, NEW k \in Slots, K[j].nCluster = K[k].nCluster
      PROVE  j = k \/ K[j].nCluster = BUFFER_NOCLUSTER
  <2>1. CASE j = i \/ k = i
    BY <1>0, <1>2, <1>5, <2>1, Zenon
  <2>2. CASE j # i /\ k # i
    <3>1. K[j] = L[j] /\ K[k] = L[k]
      BY <1>2, <2>2, Zenon
    <3>2. L[j].nCluster = L[k].nCluster
      BY ONLY <1>5, <3>1, Zenon
    <3>3. j = k \/ L[j].nCluster = BUFFER_NOCLUSTER
      BY <3>2, Zenon DEF CacheOK
    <3> QED
      BY <3>1, <3>3, Zenon
  <2> QED
    BY <2>1, <2>2, Zenon
<1>6. ASSUME NEW h \in Handles, Q[h] # NULL
      PROVE  Q[h] # BUFFER_NOCLUSTER /\ \E j \in Slots : K[j].nCluster = Q[h]
  <2>1. /\ Q[h] # BUFFER_NOCLUSTER
        /\ Q[h] = b.nCluster \/ \E j \in Slots \ {i} : L[j].nCluster = Q[h]
    BY <1>0, <1>6, Zenon
  <2>2. CASE Q[h] = b.nCluster
    BY <1>0, <1>2, <2>1, <2>2, Zenon
  <2>3. CASE \E j \in Slots \ {i} : L[j].nCluster = Q[h]
    <3>1. PICK j \in Slots \ {i} : L[j].nCluster = Q[h]
      BY <2>3, Zenon
    <3>2. K[j].nCluster = Q[h]
      BY <1>2, <3>1, Zenon
    <3> QED
      BY <2>1, <3>2, Zenon
  <2> QED
    BY <2>1, <2>2, <2>3, Zenon
<1>7. ASSUME NEW c \in DirtyOnes(K) PROVE c \in DirtyOnes(L) \/ (b.bDirty /\ c = b.nCluster)
  <2>1. PICK j \in Slots : K[j].bDirty /\ c = K[j].nCluster
    BY Zenon DEF DirtyOnes
  <2>2. CASE j = i
    BY <1>2, <2>1, <2>2, Zenon
  <2>3. CASE j # i
    <3>1. L[j].bDirty /\ c = L[j].nCluster
      BY <1>2, <2>1, <2>3, Zenon
    <3> QED
      BY <3>1, Zenon DEF DirtyOnes
  <2> QED
    BY <2>2, <2>3, Zenon
<1> QED
  BY <1>3, <1>4, <1>5, <1>6, <1>7, Zenon DEF CacheOK

-----------------------------------------------------------------------------
(* The operations of the cache.                                            *)

\* There are more buffers than handles, so one of them is out of use.
LEMMA SomeIdle ==
    ASSUME NEW L, NEW P, CacheOK(L, P)
    PROVE  Idle(L) # {}
<1> SUFFICES ASSUME Idle(L) = {} PROVE FALSE
  BY Zenon
<1>1. DOMAIN L = Slots
  BY Zenon DEF CacheOK
<1>2. ASSUME NEW i \in Slots PROVE \E h \in Handles : P[h] = L[i].nCluster
  <2>1. L[i].nUseCount # 0
    BY <1>1, Zenon DEF Idle
  <2>2. L[i].nUseCount = Cardinality(Holders(P, L[i].nCluster))
    BY Zenon DEF CacheOK
  <2>3. Holders(P, L[i].nCluster) # {}
    BY <2>1, <2>2, HoldersFinite, Zenon
  <2> QED
    BY <2>3, Zenon DEF Holders
<1> DEFINE f == [i \in Slots |-> CHOOSE h \in Handles : P[h] = L[i].nCluster]
<1>3. \A i \in Slots : f[i] \in Handles /\ P[f[i]] = L[i].nCluster
  BY <1>2, Zenon
<1>4. f \in [Slots -> Handles]
  BY <1>3, Zenon
<1> HIDE DEF f
<1>5. PICK i \in Slots, j \in Slots : i # j /\ f[i] = f[j]
  <2>1. IsFiniteSet(Slots) /\ IsFiniteSet(Handles) /\ Cardinality(Handles) < Cardinality(Slots)
    BY SlotsFinite, Zenon
  <2> QED
    BY ONLY <1>4, <2>1, FS_PigeonHole, Zenon
<1>6. L[i].nCluster = L[j].nCluster /\ P[f[i]] = L[i].nCluster /\ f[i] \in Handles
  BY <1>3, <1>5, Zenon
<1>7. L[i].nCluster # NULL
  BY Zenon DEF CacheOK, IsBuffer
<1>8. P[f[i]] # BUFFER_NOCLUSTER
  BY <1>6, <1>7, Zenon DEF CacheOK
<1> QED
  BY <1>5, <1>6, <1>8, Zenon DEF CacheOK

\* FATCacheGetCluster pins a cluster for a handle that has none.
LEMMA GetOK ==
    ASSUME NEW s, NEW P, P = [g \in Handles |-> P[g]], CacheOK(s.list, P),
           NEW h \in Handles, P[h] = NULL, NEW c, c # NULL, c # BUFFER_NOCLUSTER, NEW w,
           NEW Q, Q = [P EXCEPT ![h] = c], NEW r, r = FATCacheGetCluster(s, c, w)
    PROVE  /\ CacheOK(r.list, Q) /\ DirtyOnes(r.list) \subseteq DirtyOnes(s.list)
           /\ r = [list |-> r.list, data |-> r.data]
<1> DEFINE L == s.list
           hit == Holding(L, c)
           empty == Holding(L, BUFFER_NOCLUSTER)
           i == IF hit # {} THEN Max(hit) ELSE IF empty # {} THEN Max(empty) ELSE Max(Idle(L))
           old == L[i]
           data == IF hit # {} THEN s.data ELSE WriteVictim(s.data, old)
           new == IF hit # {} THEN [old EXCEPT !.nUseCount = @ + 1]
                  ELSE [nCluster |-> c, nUseCount |-> 1, bDirty |-> FALSE,
                        pBuf |-> IF w THEN old.pBuf ELSE data[c]]
           K == [L EXCEPT ![i] = new]
<1>1. r = [list |-> MoveFirst(L, i, new), data |-> data]
  BY Zenon DEF FATCacheGetCluster
<1>2. r.list = MoveFirst(L, i, new) /\ r = [list |-> r.list, data |-> r.data]
  <2> HIDE DEF L, i, new, data
  <2> QED
    BY ONLY <1>1, Zenon
<1>3. DOMAIN L = Slots /\ L = [j \in Slots |-> L[j]]
  BY Zenon DEF CacheOK
<1>4. hit \subseteq Slots /\ empty \subseteq Slots /\ Idle(L) \subseteq Slots
  BY <1>3, Zenon DEF Holding, Idle
<1>5. i \in hit \/ (hit = {} /\ (i \in empty \/ i \in Idle(L)))
  BY <1>4, Highest, SomeIdle, Zenon
<1> HIDE DEF i
<1>6. i \in Slots
  BY <1>4, <1>5, Zenon
<1>7. \A g \in Handles : Q[g] = IF g = h THEN c ELSE P[g]
  BY Zenon
<1>8. Holders(Q, c) = Holders(P, c) \cup {h} /\ h \notin Holders(P, c)
  BY <1>7, Zenon DEF Holders
<1>9. Cardinality(Holders(Q, c)) = Cardinality(Holders(P, c)) + 1
  BY <1>8, HoldersFinite, FS_AddElement, Zenon
<1>10. IsBuffer(old) /\ old.nUseCount = Cardinality(Holders(P, old.nCluster))
  BY <1>6, Zenon DEF CacheOK
<1>11. \A j \in Slots \ {i} : L[j].nCluster # c
  <2>1. CASE i \in hit
    BY <1>6, <2>1, Zenon DEF Holding, CacheOK
  <2>2. CASE hit = {}
    BY <1>3, <2>2, Zenon DEF Holding
  <2> QED
    BY <1>5, <2>1, <2>2, Zenon
<1>12. \A j \in Slots \ {i} : Holders(Q, L[j].nCluster) = Holders(P, L[j].nCluster)
  <2> SUFFICES ASSUME NEW j \in Slots \ {i}
               PROVE  Holders(Q, L[j].nCluster) = Holders(P, L[j].nCluster)
    BY Zenon
  <2>1. L[j].nCluster # c /\ L[j].nCluster # NULL
    BY <1>11, Zenon DEF CacheOK, IsBuffer
  <2> QED
    BY <1>7, <2>1, Zenon DEF Holders
<1>13. hit = {} => Holders(P, old.nCluster) = {}
  <2> SUFFICES ASSUME hit = {} PROVE Holders(P, old.nCluster) = {}
    BY Zenon
  <2>1. CASE i \in empty
    <3>1. old.nCluster = BUFFER_NOCLUSTER
      BY <2>1, Zenon DEF Holding
    <3>2. old.nCluster # NULL
      BY <1>10, Zenon DEF IsBuffer
    <3> QED
      BY <3>1, <3>2, Zenon DEF Holders, CacheOK
  <2>2. CASE i \in Idle(L)
    <3>1. old.nUseCount = 0
      BY <2>2, Zenon DEF Idle
    <3> QED
      BY <1>10, <3>1, HoldersFinite, Zenon
  <2> QED
    BY <1>5, <2>1, <2>2, Zenon
<1>14. hit # {} => old.nCluster = c
  BY <1>5, Zenon DEF Holding
<1>15. /\ IsBuffer(new) /\ new.nCluster = c
       /\ new.nUseCount = Cardinality(Holders(Q, c))
       /\ new.bDirty => old.bDirty /\ old.nCluster = c
  <2>1. CASE hit # {}
    <3>1. /\ old.nCluster = c /\ new = [old EXCEPT !.nUseCount = old.nUseCount + 1]
          /\ old.nUseCount \in Nat /\ old.nUseCount = Cardinality(Holders(P, c))
      BY <1>10, <1>14, <2>1, Zenon DEF IsBuffer
    <3>2. new = [nCluster |-> old.nCluster, nUseCount |-> old.nUseCount + 1,
                 bDirty |-> old.bDirty, pBuf |-> old.pBuf]
      BY <1>10, <3>1, Zenon DEF IsBuffer
    <3> HIDE DEF new, old
    <3>3. old.nUseCount + 1 \in Nat
      BY ONLY <3>1
    <3>4. /\ new.nCluster = c /\ new.nUseCount = old.nUseCount + 1 /\ new.bDirty = old.bDirty
          /\ new = [nCluster |-> new.nCluster, nUseCount |-> new.nUseCount,
                    bDirty |-> new.bDirty, pBuf |-> new.pBuf]
      BY ONLY <3>1, <3>2, Zenon
    <3>5. IsBuffer(new)
      BY <1>10, <3>1, <3>3, <3>4, Zenon DEF IsBuffer
    <3> QED
      BY <1>9, <3>1, <3>4, <3>5, Zenon
  <2>2. CASE hit = {}
    <3>1. new = [nCluster |-> c, nUseCount |-> 1, bDirty |-> FALSE,
                 pBuf |-> IF w THEN old.pBuf ELSE data[c]]
      BY <2>2, Zenon
    <3> HIDE DEF new, old, data
    <3>2. /\ new.nCluster = c /\ new.nUseCount = 1 /\ new.bDirty = FALSE
          /\ new = [nCluster |-> new.nCluster, nUseCount |-> new.nUseCount,
                    bDirty |-> new.bDirty, pBuf |-> new.pBuf]
      BY ONLY <3>1, Zenon
    <3>3. IsBuffer(new)
      <4>1. 1 \in Nat
        OBVIOUS
      <4> QED
        BY <3>2, <4>1, Zenon DEF IsBuffer
    <3>4. \A j \in Slots : L[j].nCluster # c
      BY <1>3, <2>2, Zenon DEF Holding
    <3>5. Holders(P, c) = {}
      <4> SUFFICES ASSUME NEW g \in Handles, P[g] = c PROVE FALSE
        BY Zenon DEF Holders
      <4>1. \E j \in Slots : L[j].nCluster = P[g]
        BY Zenon DEF CacheOK
      <4> QED
        BY <3>4, <4>1, Zenon
    <3>6. Cardinality(Holders(P, c)) = 0
      BY <3>5, HoldersFinite, Zenon
    <3>7. Cardinality(Holders(Q, c)) = 1
      BY ONLY <1>9, <3>6
    <3> QED
      BY <3>2, <3>3, <3>7, Zenon
  <2> QED
    BY <2>1, <2>2, Zenon
<1>16. \A g \in Handles : Q[g] # NULL =>
            /\ Q[g] # BUFFER_NOCLUSTER
            /\ Q[g] = new.nCluster \/ \E j \in Slots \ {i} : L[j].nCluster = Q[g]
  <2> SUFFICES ASSUME NEW g \in Handles, Q[g] # NULL
               PROVE  /\ Q[g] # BUFFER_NOCLUSTER
                      /\ Q[g] = c \/ \E j \in Slots \ {i} : L[j].nCluster = Q[g]
    BY <1>15, Zenon
  <2>1. CASE g = h
    BY <1>7, <2>1, Zenon
  <2>2. CASE g # h
    <3>1. Q[g] = P[g] /\ P[g] # NULL
      BY <1>7, <2>2, Zenon
    <3>2. PICK j \in Slots : L[j].nCluster = P[g] /\ P[g] # BUFFER_NOCLUSTER
      BY <3>1, Zenon DEF CacheOK
    <3>3. CASE j = i
      <4>1. Holders(P, old.nCluster) # {}
        BY <3>2, <3>3, Zenon DEF Holders
      <4>2. old.nCluster = c
        BY <1>13, <1>14, <4>1, Zenon
      <4> QED
        BY <3>1, <3>2, <3>3, <4>2, Zenon
    <3> QED
      BY <3>1, <3>2, <3>3, Zenon
  <2> QED
    BY <2>1, <2>2, Zenon
<1> HIDE DEF new, K
<1>17. /\ CacheOK(K, Q)
       /\ \A x \in DirtyOnes(K) : x \in DirtyOnes(L) \/ (new.bDirty /\ x = new.nCluster)
  <2>1. new.nUseCount = Cardinality(Holders(Q, new.nCluster))
    BY <1>15, Zenon
  <2>2. \A j \in Slots \ {i} : L[j].nCluster # new.nCluster
    BY <1>11, <1>15, Zenon
  <2>3. Fits(L, P, i, new, Q)
    BY <1>6, <1>12, <1>15, <1>16, <2>1, <2>2, Zenon DEF Fits
  <2>4. K = [L EXCEPT ![i] = new] /\ CacheOK(L, P)
    BY Zenon DEF K
  <2> HIDE DEF L
  <2> QED
    BY ONLY <2>3, <2>4, ReplaceOK, Zenon
<1>18. DirtyOnes(K) \subseteq DirtyOnes(L)
  <2>1. new.bDirty => new.nCluster \in DirtyOnes(L)
    BY <1>6, <1>15, Zenon DEF DirtyOnes
  <2> QED
    BY <1>17, <2>1, Zenon
<1>19. Reordered(K, r.list)
  <2>1. L = [j \in Slots |-> L[j]] /\ K = [L EXCEPT ![i] = new]
    BY <1>3, Zenon DEF K
  <2> HIDE DEF L
  <2>2. Reordered([L EXCEPT ![i] = new], MoveFirst(L, i, new))
    BY ONLY <1>6, <2>1, MoveFirstIs, Zenon
  <2> QED
    BY ONLY <1>2, <2>1, <2>2, Zenon
<1> QED
  BY <1>2, <1>17, <1>18, <1>19, ReorderOK, Zenon

\* FATCacheFreeCluster unpins the cluster of a handle.
LEMMA FreeOK ==
    ASSUME NEW s, s = [list |-> s.list, data |-> s.data],
           NEW P, P = [g \in Handles |-> P[g]], CacheOK(s.list, P),
           NEW h \in Handles, NEW c, P[h] = c, c # NULL,
           NEW Q, Q = [P EXCEPT ![h] = NULL], NEW r, r = FATCacheFreeCluster(s, c)
    PROVE  CacheOK(r.list, Q) /\ DirtyOnes(r.list) \subseteq DirtyOnes(s.list)
<1> DEFINE L == s.list
           i == CHOOSE j \in Holding(L, c) : TRUE
           old == L[i]
           b == [old EXCEPT !.nUseCount = @ - 1]
           K == [L EXCEPT ![i] = b]
           M == IF b.nUseCount > 0 THEN K ELSE MoveLast(L, i, b)
<1>1. r = [s EXCEPT !.list = M]
  BY Zenon DEF FATCacheFreeCluster
<1>2. r.list = M
  <2> HIDE DEF M
  <2> QED
    BY <1>1, Zenon
<1>3. DOMAIN L = Slots /\ L = [j \in Slots |-> L[j]] /\ CacheOK(L, P)
  BY Zenon DEF CacheOK
<1>4. \E j \in Slots : L[j].nCluster = c
  BY Zenon DEF CacheOK
<1>5. i \in Slots /\ old.nCluster = c
  <2>1. Holding(L, c) # {}
    BY <1>3, <1>4, Zenon DEF Holding
  <2>2. i \in Holding(L, c)
    BY <2>1, Zenon
  <2> HIDE DEF i
  <2> QED
    BY <1>3, <2>2, Zenon DEF Holding
<1> HIDE DEF i
<1>6. \A g \in Handles : Q[g] = IF g = h THEN NULL ELSE P[g]
  BY Zenon
<1>7. Holders(Q, c) = Holders(P, c) \ {h} /\ h \in Holders(P, c)
  BY <1>6, Zenon DEF Holders
<1>8. Cardinality(Holders(Q, c)) = Cardinality(Holders(P, c)) - 1
  BY <1>7, HoldersFinite, FS_RemoveElement, Zenon
<1>9. IsBuffer(old) /\ old.nUseCount = Cardinality(Holders(P, c))
  BY <1>5, Zenon DEF CacheOK
<1>10. \A j \in Slots \ {i} : L[j].nCluster # c
  <2> SUFFICES ASSUME NEW j \in Slots \ {i}, L[j].nCluster = c PROVE FALSE
    BY Zenon
  <2>1. L[j].nCluster = old.nCluster
    BY <1>5, Zenon
  <2>2. L[j].nCluster = BUFFER_NOCLUSTER
    BY <1>5, <2>1, Zenon DEF CacheOK
  <2> QED
    BY <2>2, Zenon DEF CacheOK
<1>11. \A j \in Slots \ {i} : Holders(Q, L[j].nCluster) = Holders(P, L[j].nCluster)
  <2> SUFFICES ASSUME NEW j \in Slots \ {i}
               PROVE  Holders(Q, L[j].nCluster) = Holders(P, L[j].nCluster)
    BY Zenon
  <2>1. L[j].nCluster # c /\ L[j].nCluster # NULL
    BY <1>10, Zenon DEF CacheOK, IsBuffer
  <2> QED
    BY <1>6, <2>1, Zenon DEF Holders
<1>12. /\ IsBuffer(b) /\ b.nCluster = c /\ b.nUseCount = Cardinality(Holders(Q, c))
       /\ b.bDirty = old.bDirty
  <2>1. b = [nCluster |-> old.nCluster, nUseCount |-> old.nUseCount - 1,
             bDirty |-> old.bDirty, pBuf |-> old.pBuf]
    <3>1. old = [nCluster |-> old.nCluster, nUseCount |-> old.nUseCount,
                 bDirty |-> old.bDirty, pBuf |-> old.pBuf]
      BY <1>9, Zenon DEF IsBuffer
    <3>2. b = [old EXCEPT !.nUseCount = old.nUseCount - 1]
      BY Zenon
    <3> HIDE DEF old, b
    <3> QED
      BY ONLY <3>1, <3>2, Zenon
  <2> HIDE DEF b, old
  <2>2. /\ b.nCluster = c /\ b.nUseCount = old.nUseCount - 1 /\ b.bDirty = old.bDirty
        /\ b = [nCluster |-> b.nCluster, nUseCount |-> b.nUseCount,
                bDirty |-> b.bDirty, pBuf |-> b.pBuf]
    BY ONLY <1>5, <2>1, Zenon DEF old
  <2>3. b.nUseCount = Cardinality(Holders(Q, c))
    BY <1>8, <1>9, <2>2, Zenon
  <2>4. b.nUseCount \in Nat /\ old.bDirty \in BOOLEAN
    BY <1>9, <2>3, HoldersFinite, Zenon DEF IsBuffer
  <2> QED
    BY <2>2, <2>3, <2>4, Zenon DEF IsBuffer
<1>13. ASSUME NEW g \in Handles, Q[g] # NULL
       PROVE  /\ Q[g] # BUFFER_NOCLUSTER
              /\ Q[g] = c \/ \E j \in Slots \ {i} : L[j].nCluster = Q[g]
  <2>1. Q[g] = P[g] /\ P[g] # NULL
    BY <1>6, <1>13, Zenon
  <2>2. PICK j \in Slots : L[j].nCluster = P[g] /\ P[g] # BUFFER_NOCLUSTER
    BY <2>1, Zenon DEF CacheOK
  <2>3. CASE j = i
    BY <1>5, <2>1, <2>2, <2>3, Zenon
  <2> QED
    BY <2>1, <2>2, <2>3, Zenon
<1> HIDE DEF b, K
<1>14. Fits(L, P, i, b, Q)
  <2>1. b.nUseCount = Cardinality(Holders(Q, b.nCluster))
    BY <1>12, Zenon
  <2>2. \A j \in Slots \ {i} : L[j].nCluster # b.nCluster
    BY <1>10, <1>12, Zenon
  <2>3. \A g \in Handles : Q[g] # NULL =>
            /\ Q[g] # BUFFER_NOCLUSTER
            /\ Q[g] = b.nCluster \/ \E j \in Slots \ {i} : L[j].nCluster = Q[g]
    BY <1>12, <1>13, Zenon
  <2> QED
    BY <1>5, <1>11, <1>12, <2>1, <2>2, <2>3, Zenon DEF Fits
<1>15. old.bDirty => c \in DirtyOnes(L)
  BY <1>5, Zenon DEF DirtyOnes
<1>16. K = [L EXCEPT ![i] = b]
  BY Zenon DEF K
<1> HIDE DEF L
<1>17. /\ CacheOK(K, Q)
       /\ \A x \in DirtyOnes(K) : x \in DirtyOnes(L) \/ (b.bDirty /\ x = b.nCluster)
  <2>1. CacheOK(L, P)
    BY <1>3, Zenon
  <2> QED
    BY ONLY <1>14, <1>16, <2>1, ReplaceOK, Zenon
<1>18. DirtyOnes(K) \subseteq DirtyOnes(L)
  BY <1>12, <1>15, <1>17, Zenon
<1>19. M = K \/ Reordered(K, M)
  <2>1. Reordered([L EXCEPT ![i] = b], MoveLast(L, i, b))
    BY ONLY <1>3, <1>5, MoveLastIs, Zenon
  <2> QED
    BY ONLY <1>16, <2>1, Zenon
<1> HIDE DEF M
<1>20. CacheOK(M, Q) /\ DirtyOnes(M) \subseteq DirtyOnes(L)
  BY <1>17, <1>18, <1>19, ReorderOK, Zenon
<1> QED
  BY <1>2, <1>20, Zenon DEF L

\* Handle h has cluster c pinned in the cache state s.
Held(s, P, h, c) ==
    /\ s = [list |-> s.list, data |-> s.data] /\ P = [g \in Handles |-> P[g]]
    /\ CacheOK(s.list, P) /\ P[h] = c /\ c # NULL

\* Bytes are copied into it.
LEMMA CopyOK ==
    ASSUME NEW s, NEW P, NEW h \in Handles, NEW c, Held(s, P, h, c), NEW n, NEW p, NEW k,
           NEW r, r = CopyIn(s, c, n, p, k)
    PROVE  Held(r, P, h, c) /\ DirtyOnes(r.list) \subseteq DirtyOnes(s.list) \cup {c}
<1> SUFFICES ASSUME s = [list |-> s.list, data |-> s.data], CacheOK(s.list, P), P[h] = c, c # NULL
             PROVE  /\ CacheOK(r.list, P) /\ DirtyOnes(r.list) \subseteq DirtyOnes(s.list) \cup {c}
                    /\ r = [list |-> r.list, data |-> r.data]
  BY Zenon DEF Held
<1> DEFINE L == s.list
           i == CHOOSE j \in Holding(L, c) : TRUE
           old == L[i]
           b == Filled(old, n, p, k)
           K == [L EXCEPT ![i] = b]
<1>1. DOMAIN L = Slots /\ L = [j \in Slots |-> L[j]] /\ CacheOK(L, P)
  BY Zenon DEF CacheOK
<1>2. \E j \in Slots : L[j].nCluster = c
  BY Zenon DEF CacheOK
<1>3. i \in Slots /\ old.nCluster = c
  <2>1. Holding(L, c) # {}
    BY <1>1, <1>2, Zenon DEF Holding
  <2>2. i \in Holding(L, c)
    BY <2>1, Zenon
  <2> HIDE DEF i
  <2> QED
    BY <1>1, <2>2, Zenon DEF Holding
<1>4. IsBuffer(old) /\ old.nUseCount = Cardinality(Holders(P, c))
  BY <1>3, Zenon DEF CacheOK
<1>5. r = [s EXCEPT !.list = K]
  BY Zenon DEF CopyIn
<1> HIDE DEF i
<1>6. r.list = K /\ r = [list |-> r.list, data |-> r.data]
  <2> HIDE DEF K
  <2> QED
    BY <1>5, Zenon
<1>7. IsBuffer(b) /\ b.nCluster = c /\ b.nUseCount = old.nUseCount
  <2>1. old = [nCluster |-> old.nCluster, nUseCount |-> old.nUseCount,
               bDirty |-> old.bDirty, pBuf |-> old.pBuf]
    BY <1>4, Zenon DEF IsBuffer
  <2>2. PICK q : b = [old EXCEPT !.bDirty = TRUE, !.pBuf = q]
    BY Zenon DEF Filled
  <2> HIDE DEF old, b
  <2>3. b = [nCluster |-> old.nCluster, nUseCount |-> old.nUseCount, bDirty |-> TRUE, pBuf |-> q]
    BY ONLY <2>1, <2>2, Zenon
  <2>4. /\ b.nCluster = old.nCluster /\ b.nUseCount = old.nUseCount /\ b.bDirty = TRUE
        /\ b = [nCluster |-> b.nCluster, nUseCount |-> b.nUseCount,
                bDirty |-> b.bDirty, pBuf |-> b.pBuf]
    BY ONLY <2>3, Zenon
  <2> QED
    BY <1>3, <1>4, <2>4, Zenon DEF IsBuffer
<1>8. \A j \in Slots \ {i} : L[j].nCluster # c
  <2> SUFFICES ASSUME NEW j \in Slots \ {i}, L[j].nCluster = c PROVE FALSE
    BY Zenon
  <2>1. L[j].nCluster = old.nCluster
    BY <1>3, Zenon
  <2>2. L[j].nCluster = BUFFER_NOCLUSTER
    BY <1>3, <2>1, Zenon DEF CacheOK
  <2> QED
    BY <2>2, Zenon DEF CacheOK
<1>9. ASSUME NEW g \in Handles, P[g] # NULL
      PROVE  /\ P[g] # BUFFER_NOCLUSTER
             /\ P[g] = c \/ \E j \in Slots \ {i} : L[j].nCluster = P[g]
  <2>1. PICK j \in Slots : L[j].nCluster = P[g] /\ P[g] # BUFFER_NOCLUSTER
    BY <1>9, Zenon DEF CacheOK
  <2>2. CASE j = i
    BY <1>3, <2>1, <2>2, Zenon
  <2> QED
    BY <2>1, <2>2, Zenon
<1> HIDE DEF b, K
<1>10. Fits(L, P, i, b, P)
  <2>1. b.nUseCount = Cardinality(Holders(P, b.nCluster))
    BY <1>4, <1>7, Zenon
  <2>2. \A j \in Slots \ {i} : L[j].nCluster # b.nCluster
    BY <1>7, <1>8, Zenon
  <2>3. \A g \in Handles : P[g] # NULL =>
            /\ P[g] # BUFFER_NOCLUSTER
            /\ P[g] = b.nCluster \/ \E j \in Slots \ {i} : L[j].nCluster = P[g]
    BY <1>7, <1>9, Zenon
  <2> QED
    BY <1>3, <1>7, <2>1, <2>2, <2>3, Zenon DEF Fits
<1>11. K = [L EXCEPT ![i] = b]
  BY Zenon DEF K
<1> HIDE DEF L
<1>12. /\ CacheOK(K, P)
       /\ \A x \in DirtyOnes(K) : x \in DirtyOnes(L) \/ (b.bDirty /\ x = b.nCluster)
  <2>1. CacheOK(L, P)
    BY <1>1, Zenon
  <2> QED
    BY ONLY <1>10, <1>11, <2>1, ReplaceOK, Zenon
<1> QED
  BY <1>6, <1>7, <1>12, Zenon DEF L

\* Flushing leaves no buffer dirty and moves none.
LEMMA FlushOK ==
    ASSUME NEW s, NEW P, CacheOK(s.list, P), NEW r, r = FATCacheClusterFlush(s)
    PROVE  CacheOK(r.list, P) /\ DirtyOnes(r.list) = {}
<1> DEFINE L == s.list
           M == [i \in DOMAIN L |-> [L[i] EXCEPT !.bDirty = FALSE]]
<1>1. r.list = M
  BY Zenon DEF FATCacheClusterFlush
<1>2. DOMAIN L = Slots
  BY Zenon DEF CacheOK
<1>3. M = [i \in Slots |-> M[i]] /\ \A i \in Slots : M[i] = [L[i] EXCEPT !.bDirty = FALSE]
  BY <1>2, Zenon
<1> HIDE DEF M
<1>4. ASSUME NEW i \in Slots
      PROVE  /\ IsBuffer(M[i]) /\ M[i].nCluster = L[i].nCluster
             /\ M[i].nUseCount = L[i].nUseCount /\ M[i].bDirty = FALSE
  <2> DEFINE a == L[i]
             b == M[i]
  <2>1. IsBuffer(a)
    BY Zenon DEF CacheOK
  <2>2. a = [nCluster |-> a.nCluster, nUseCount |-> a.nUseCount,
             bDirty |-> a.bDirty, pBuf |-> a.pBuf]
        /\ b = [a EXCEPT !.bDirty = FALSE]
    BY <1>3, <2>1, Zenon DEF IsBuffer
  <2> HIDE DEF a, b
  <2>3. b = [nCluster |-> a.nCluster, nUseCount |-> a.nUseCount, bDirty |-> FALSE, pBuf |-> a.pBuf]
    BY ONLY <2>2, Zenon
  <2>4. /\ b.nCluster = a.nCluster /\ b.nUseCount = a.nUseCount /\ b.bDirty = FALSE
        /\ b = [nCluster |-> b.nCluster, nUseCount |-> b.nUseCount,
                bDirty |-> b.bDirty, pBuf |-> b.pBuf]
    BY ONLY <2>3, Zenon
  <2>5. IsBuffer(b)
    BY <2>1, <2>4, Zenon DEF IsBuffer
  <2> QED
    BY <2>4, <2>5, Zenon DEF a, b
<1>5. ASSUME NEW i \in Slots
      PROVE  M[i].nUseCount = Cardinality(Holders(P, M[i].nCluster))
  <2>1. L[i].nUseCount = Cardinality(Holders(P, L[i].nCluster))
    BY Zenon DEF CacheOK
  <2> QED
    BY <1>4, <2>1, Zenon
<1>6. ASSUME NEW i \in Slots, NEW j \in Slots, M[i].nCluster = M[j].nCluster
      PROVE  i = j \/ M[i].nCluster = BUFFER_NOCLUSTER
  <2>1. L[i].nCluster = L[j].nCluster
    BY <1>4, <1>6, Zenon
  <2>2. i = j \/ L[i].nCluster = BUFFER_NOCLUSTER
    BY <2>1, Zenon DEF CacheOK
  <2> QED
    BY <1>4, <2>2, Zenon
<1>7. ASSUME NEW h \in Handles, P[h] # NULL
      PROVE  P[h] # BUFFER_NOCLUSTER /\ \E i \in Slots : M[i].nCluster = P[h]
  <2>1. PICK i \in Slots : L[i].nCluster = P[h] /\ P[h] # BUFFER_NOCLUSTER
    BY <1>7, Zenon DEF CacheOK
  <2> QED
    BY <1>4, <2>1, Zenon
<1>8. DirtyOnes(M) = {}
  BY <1>4, Zenon DEF DirtyOnes
<1>9. CacheOK(M, P)
  BY <1>3, <1>4, <1>5, <1>6, <1>7, Zenon DEF CacheOK
<1> QED
  BY <1>1, <1>8, <1>9, Zenon

-----------------------------------------------------------------------------
(* The calls.                                                              *)

\* The cluster that each handle has pinned.
PinOf(fs) == [h \in Handles |-> IF fs[h].nUseCount # 0 THEN fs[h].pBuffer ELSE NULL]

\* Cluster c belongs to a file that is being written.
Owned(F, fs, c) ==
    \E h \in Handles : fs[h].nUseCount # 0 /\ fs[h].bWrite /\ c \in Walk(F, fs[h].nFirstCluster)

\* An open file has no cluster pinned but the one it is at.
PinsCurrent(fs) ==
    \A h \in Handles : fs[h].nUseCount # 0 /\ fs[h].pBuffer # NULL => fs[h].pBuffer = fs[h].nCluster

\* The inductive invariant.
CacheInv ==
    /\ FatInv /\ CacheOK(cache, PinOf(m_Files)) /\ PinsCurrent(m_Files)
    /\ \A c \in DirtyOnes(cache) : Owned(table.fat, m_Files, c)

\* There is no chain from what is no cluster.
LEMMA WalkNone == ASSUME NEW F, NEW c, c \notin Clusters PROVE \A x : x \notin Walk(F, c)
<1> DEFINE S == {}
<1>1. S \subseteq Clusters /\ (c \in Clusters => c \in S) /\ \A e \in S : F[e] \in Clusters => F[e] \in S
  BY Zenon
<1> HIDE DEF S
<1>2. Walk(F, c) \subseteq S
  BY <1>1, WalkLeast
<1> QED
  BY <1>2, Zenon DEF S

\* What is owned stays so while writers keep their files and links are kept.
LEMMA OwnedKept ==
    ASSUME NEW F, NEW fs, NEW G, NEW gs, NEW c, Owned(F, fs, c),
           \A h \in Handles : fs[h].nUseCount # 0 /\ fs[h].bWrite =>
             /\ gs[h].nUseCount # 0 /\ gs[h].bWrite
             /\ fs[h].nFirstCluster \in Clusters => gs[h].nFirstCluster = fs[h].nFirstCluster
             /\ \A e \in Walk(F, fs[h].nFirstCluster) : F[e] \in Clusters => G[e] = F[e]
    PROVE  Owned(G, gs, c)
<1>1. PICK h \in Handles : /\ fs[h].nUseCount # 0 /\ fs[h].bWrite
                           /\ c \in Walk(F, fs[h].nFirstCluster)
  BY Zenon DEF Owned
<1> DEFINE x == fs[h].nFirstCluster
<1>2. x \in Clusters
  BY <1>1, WalkNone, Zenon
<1>3. /\ gs[h].nUseCount # 0 /\ gs[h].bWrite /\ gs[h].nFirstCluster = x
      /\ \A e \in Walk(F, x) : F[e] \in Clusters => G[e] = F[e]
  BY <1>1, <1>2, Zenon
<1> HIDE DEF x
<1> DEFINE S == Walk(F, x) \cap Walk(G, x)
<1>4. S \subseteq Clusters /\ x \in S
  BY <1>2, WalkFacts, Zenon
<1>5. \A e \in S : F[e] \in Clusters => F[e] \in S
  BY <1>3, WalkFacts, Zenon
<1> HIDE DEF S
<1>6. Walk(F, x) \subseteq S
  BY <1>4, <1>5, WalkLeast, Zenon
<1>7. c \in Walk(G, x)
  BY <1>1, <1>6, Zenon DEF S, x
<1> QED
  BY <1>3, <1>7, Zenon DEF Owned

\* A call changes the file of handle h.
LEMMA PinsMove ==
    ASSUME NEW fs, NEW gs, NEW h \in Handles, \A g \in Handles \ {h} : gs[g] = fs[g],
           NEW c, PinOf(gs)[h] = c, NEW L, CacheOK(L, [PinOf(fs) EXCEPT ![h] = c])
    PROVE  CacheOK(L, PinOf(gs))
<1>1. PinOf(gs) = [PinOf(fs) EXCEPT ![h] = c]
  BY Zenon DEF PinOf
<1> QED
  BY <1>1, Zenon

\* The cluster a handle has pinned, by the fields of its file.
LEMMA PinFacts ==
    ASSUME NEW fs, NEW h \in Handles
    PROVE  /\ PinOf(fs) = [g \in Handles |-> PinOf(fs)[g]]
           /\ fs[h].nUseCount = 0 => PinOf(fs)[h] = NULL
           /\ fs[h].nUseCount # 0 => PinOf(fs)[h] = fs[h].pBuffer
  BY Zenon DEF PinOf

\* Clusters can be pinned.
LEMMA Pinnable == \A c \in {0} \cup Clusters : c # NULL /\ c # BUFFER_NOCLUSTER
<1>1. \A c \in {0} \cup Clusters : c # BUFFER_NOCLUSTER
  BY ClustersAreNumbers DEF BUFFER_NOCLUSTER
<1> QED
  BY <1>1, NullAssumption, Zenon

\* A call of handle h, seen from the cache.
LEMMA CallKeeps ==
    ASSUME CacheInv, FatInv', NEW h \in Handles,
           \A g \in Handles \ {h} : m_Files'[g] = m_Files[g],
           CacheOK(cache', PinOf(m_Files')),
           m_Files'[h].nUseCount # 0 /\ m_Files'[h].pBuffer # NULL
             => m_Files'[h].pBuffer = m_Files'[h].nCluster,
           \A c \in DirtyOnes(cache') : Owned(table'.fat, m_Files', c)
    PROVE  CacheInv'
<1>1. PinsCurrent(m_Files)'
  BY Zenon DEF CacheInv, PinsCurrent
<1> QED
  BY <1>1, Zenon DEF CacheInv

\* A call of a reader, or one by which a reader or a writer opens its file,
\* that makes no buffer dirty.
LEMMA OthersOwn ==
    ASSUME CacheInv, NEW h \in Handles, \A g \in Handles \ {h} : m_Files'[g] = m_Files[g],
           m_Files[h].nUseCount = 0 \/ ~m_Files[h].bWrite,
           table' = table, DirtyOnes(cache') \subseteq DirtyOnes(cache)
    PROVE  \A c \in DirtyOnes(cache') : Owned(table'.fat, m_Files', c)
<1> SUFFICES ASSUME NEW c \in DirtyOnes(cache') PROVE Owned(table'.fat, m_Files', c)
  BY Zenon
<1>1. Owned(table.fat, m_Files, c)
  BY Zenon DEF CacheInv
<1>2. PICK g \in Handles : /\ m_Files[g].nUseCount # 0 /\ m_Files[g].bWrite
                           /\ c \in Walk(table.fat, m_Files[g].nFirstCluster)
  BY <1>1, Zenon DEF Owned
<1>3. m_Files'[g] = m_Files[g]
  BY <1>2, Zenon
<1>4. c \in Walk(table'.fat, m_Files'[g].nFirstCluster)
  BY <1>2, <1>3, Zenon
<1> QED
  BY <1>2, <1>3, <1>4, Zenon DEF Owned

\* FATCacheGetCluster of a handle that has nothing pinned.
LEMMA GetStep ==
    ASSUME CacheInv, NEW h \in Handles, PinOf(m_Files)[h] = NULL,
           NEW c \in {0} \cup Clusters, NEW w, NEW s, s.list = cache,
           NEW r, r = FATCacheGetCluster(s, c, w)
    PROVE  /\ CacheOK(r.list, [PinOf(m_Files) EXCEPT ![h] = c])
           /\ DirtyOnes(r.list) \subseteq DirtyOnes(cache)
           /\ r = [list |-> r.list, data |-> r.data]
<1> DEFINE P == PinOf(m_Files)
           Q == [P EXCEPT ![h] = c]
<1>1. CacheOK(s.list, P) /\ P = [g \in Handles |-> P[g]] /\ P[h] = NULL
  BY PinFacts, Zenon DEF CacheInv
<1>2. c # NULL /\ c # BUFFER_NOCLUSTER /\ Q = [P EXCEPT ![h] = c]
  BY Pinnable, Zenon
<1> HIDE DEF P, Q
<1>3. /\ CacheOK(r.list, Q) /\ DirtyOnes(r.list) \subseteq DirtyOnes(s.list)
      /\ r = [list |-> r.list, data |-> r.data]
  BY <1>1, <1>2, GetOK
<1> QED
  BY <1>3, Zenon DEF P, Q

\* FATCacheFreeCluster of the cluster that a handle has pinned, if any.
LEMMA FreeStep ==
    ASSUME CacheInv, NEW h \in Handles, m_Files[h].nUseCount # 0, NEW r,
           r = IF m_Files[h].pBuffer = NULL THEN CacheState
               ELSE FATCacheFreeCluster(CacheState, m_Files[h].pBuffer)
    PROVE  /\ CacheOK(r.list, [PinOf(m_Files) EXCEPT ![h] = NULL])
           /\ DirtyOnes(r.list) \subseteq DirtyOnes(cache)
<1> DEFINE P == PinOf(m_Files)
           Q == [P EXCEPT ![h] = NULL]
           c == m_Files[h].pBuffer
           s == CacheState
<1>1. s = [list |-> s.list, data |-> s.data] /\ s.list = cache
  BY Zenon DEF CacheState
<1>2. CacheOK(s.list, P) /\ P = [g \in Handles |-> P[g]] /\ P[h] = c
  BY <1>1, PinFacts, Zenon DEF CacheInv
<1>3. Q = [P EXCEPT ![h] = NULL] /\ r = IF c = NULL THEN s ELSE FATCacheFreeCluster(s, c)
  BY Zenon
<1> HIDE DEF P, Q, c, s
<1>4. CASE c = NULL
  <2>1. r = s /\ Q = P
    BY <1>2, <1>3, <1>4, Zenon
  <2> QED
    BY <1>1, <1>2, <2>1, Zenon DEF P, Q
<1>5. CASE c # NULL
  <2>1. r = FATCacheFreeCluster(s, c)
    BY <1>3, <1>5, Zenon
  <2>2. CacheOK(r.list, Q) /\ DirtyOnes(r.list) \subseteq DirtyOnes(s.list)
    BY <1>1, <1>2, <1>3, <1>5, <2>1, FreeOK
  <2> QED
    BY <1>1, <2>2, Zenon DEF P, Q
<1> QED
  BY <1>4, <1>5, Zenon

\* File g is at cluster c and has it pinned.
FileAt(g, c) == g \in File /\ g.nCluster = c /\ g.pBuffer = c

\* What r = ReleaseAtEnd(s, g) has of them.
Released(s, P, h, c, g, r) ==
    /\ r.f.pBuffer \in {NULL, c} /\ CacheOK(r.s.list, [P EXCEPT ![h] = r.f.pBuffer])
    /\ DirtyOnes(r.s.list) \subseteq DirtyOnes(s.list)
    /\ r.f.nUseCount = g.nUseCount /\ r.f.nCluster = c

\* The end of a copying loop.
LEMMA ReleaseStep ==
    ASSUME NEW s, NEW P, NEW h \in Handles, NEW c, Held(s, P, h, c), NEW g, FileAt(g, c),
           NEW r, r = ReleaseAtEnd(s, g)
    PROVE  Released(s, P, h, c, g, r)
<1> USE DEF Held, FileAt, Released
<1>1. CASE AtEnd(g)
  <2> DEFINE t == FATCacheFreeCluster(s, c)
             Q == [P EXCEPT ![h] = NULL]
  <2>1. r.s = t /\ r.f = [g EXCEPT !.pBuffer = NULL]
    BY <1>1, Zenon DEF ReleaseAtEnd
  <2>2. r.f.pBuffer = NULL /\ r.f.nUseCount = g.nUseCount /\ r.f.nCluster = c
    BY <2>1, Zenon DEF File
  <2>3. t = FATCacheFreeCluster(s, c) /\ Q = [P EXCEPT ![h] = NULL]
    BY Zenon
  <2> HIDE DEF t, Q
  <2>4. CacheOK(t.list, Q) /\ DirtyOnes(t.list) \subseteq DirtyOnes(s.list)
    BY <2>3, FreeOK
  <2> QED
    BY <2>1, <2>2, <2>3, <2>4, Zenon
<1>2. CASE ~AtEnd(g)
  <2>1. r.s = s /\ r.f = g
    BY <1>2, Zenon DEF ReleaseAtEnd
  <2>2. [P EXCEPT ![h] = c] = P
    BY Zenon
  <2> QED
    BY <2>1, <2>2, Zenon
<1> QED
  BY <1>1, <1>2, Zenon

-----------------------------------------------------------------------------
\* FATFileSystemFileOpen of a file that is there.
LEMMA OpenReadCaches ==
    ASSUME CacheInv, FatInv', NEW h \in Handles, NEW n \in Names, OpenRead(h, n)
    PROVE  CacheInv'
<1>1. PICK i \in Listed(dir, n) :
        /\ SetCache(FATCacheGetCluster(CacheState, dir[i].nFirstCluster, FALSE))
        /\ m_Files' = [m_Files EXCEPT ![h] =
            [NoFile EXCEPT !.nUseCount = 1, !.cFileName = n, !.nSize = dir[i].nFileSize,
                           !.nFirstCluster = dir[i].nFirstCluster,
                           !.nCluster = dir[i].nFirstCluster, !.pBuffer = dir[i].nFirstCluster]]
  BY Zenon DEF OpenRead
<1> DEFINE c == dir[i].nFirstCluster
           r == [NoFile EXCEPT !.nUseCount = 1, !.cFileName = n, !.nSize = dir[i].nFileSize,
                           !.nFirstCluster = c, !.nCluster = c, !.pBuffer = c]
           t == FATCacheGetCluster(CacheState, c, FALSE)
<1>2. table' = table /\ m_Files[h].nUseCount = 0 /\ FatInv
  BY Zenon DEF OpenRead, OpenHandle, InUse, CacheInv
<1>3. c \in {0} \cup Clusters
  BY <1>2, EntryFacts, Zenon
<1>4. m_Files' = [m_Files EXCEPT ![h] = r] /\ cache' = t.list
  BY <1>1, Zenon DEF SetCache
<1>5. r.nUseCount = 1 /\ r.pBuffer = c /\ r.nCluster = c
  BY NoFileFacts, Zenon DEF File
<1> HIDE DEF r
<1>6. m_Files'[h] = r /\ \A g \in Handles \ {h} : m_Files'[g] = m_Files[g]
  BY <1>2, <1>4, Facts, Zenon
<1>7. PinOf(m_Files)[h] = NULL /\ CacheState.list = cache
  BY <1>2, PinFacts, Zenon DEF CacheState
<1> HIDE DEF c
<1>8. t = FATCacheGetCluster(CacheState, c, FALSE)
  BY Zenon
<1> HIDE DEF t
<1>9. CacheOK(t.list, [PinOf(m_Files) EXCEPT ![h] = c]) /\ DirtyOnes(t.list) \subseteq DirtyOnes(cache)
  BY <1>3, <1>7, <1>8, GetStep, Zenon
<1>10. PinOf(m_Files')[h] = c
  BY <1>5, <1>6 DEF PinOf
<1>11. CacheOK(cache', PinOf(m_Files'))
  BY <1>6, <1>4, <1>9, <1>10, PinsMove, Zenon
<1>12. \A x \in DirtyOnes(cache') : Owned(table'.fat, m_Files', x)
  BY <1>2, <1>4, <1>6, <1>9, OthersOwn, Zenon
<1> QED
  BY <1>5, <1>6, <1>11, <1>12, CallKeeps, Zenon

\* The same, for a file that is opened to be written at its end.
LEMMA OpenAppendCaches ==
    ASSUME CacheInv, FatInv', NEW h \in Handles, NEW n \in Names, OpenAppend(h, n)
    PROVE  CacheInv'
<1>1. PICK i \in Listed(dir, n) :
        LET c == FATGetFileLastCluster(table, dir[i].nFirstCluster)
        IN  /\ dir[i].nFirstCluster # 0
            /\ SetCache(FATCacheGetCluster(CacheState, c, TRUE))
            /\ m_Files' = [m_Files EXCEPT ![h] =
                [nUseCount |-> 1, cFileName |-> n, nSize |-> dir[i].nFileSize,
                 nOffset |-> dir[i].nFileSize, nCluster |-> c,
                 nFirstCluster |-> dir[i].nFirstCluster, pBuffer |-> c, bWrite |-> TRUE]]
  BY Zenon DEF OpenAppend, Appendable
<1> DEFINE c == FATGetFileLastCluster(table, dir[i].nFirstCluster)
           r == [nUseCount |-> 1, cFileName |-> n, nSize |-> dir[i].nFileSize,
                 nOffset |-> dir[i].nFileSize, nCluster |-> c,
                 nFirstCluster |-> dir[i].nFirstCluster, pBuffer |-> c, bWrite |-> TRUE]
           t == FATCacheGetCluster(CacheState, c, TRUE)
<1>2. table' = table /\ m_Files[h].nUseCount = 0 /\ FatInv
  BY Zenon DEF OpenAppend, OpenHandle, InUse, CacheInv
<1>3. m_Files' = [m_Files EXCEPT ![h] = r] /\ cache' = t.list
  BY <1>1, Zenon DEF SetCache
<1>4. /\ r.nUseCount = 1 /\ r.pBuffer = c /\ r.nCluster = c
      /\ r.cFileName = n /\ r.bWrite = TRUE /\ r.nFirstCluster # 0
  BY <1>1, Zenon
<1> HIDE DEF r
<1>5. m_Files'[h] = r /\ \A g \in Handles \ {h} : m_Files'[g] = m_Files[g]
  BY <1>2, <1>3, Facts, Zenon
<1> HIDE DEF c
<1>6. c \in {0} \cup Clusters
  <2>1. Writes(m_Files', h, n)
    BY <1>4, <1>5 DEF Writes, Opens
  <2>2. TailsOK(table'.fat, m_Files')
    BY Zenon DEF FatInv, ChainInv
  <2>3. r.nCluster \in Walk(table'.fat, r.nFirstCluster)
    BY <1>4, <1>5, <2>1, <2>2, Zenon DEF TailsOK
  <2> QED
    BY <1>4, <2>3, WalkFacts, Zenon
<1>7. PinOf(m_Files)[h] = NULL /\ CacheState.list = cache
  BY <1>2, PinFacts, Zenon DEF CacheState
<1>8. t = FATCacheGetCluster(CacheState, c, TRUE)
  BY Zenon
<1> HIDE DEF t
<1>9. CacheOK(t.list, [PinOf(m_Files) EXCEPT ![h] = c]) /\ DirtyOnes(t.list) \subseteq DirtyOnes(cache)
  BY <1>6, <1>7, <1>8, GetStep, Zenon
<1>10. PinOf(m_Files')[h] = c
  BY <1>4, <1>5 DEF PinOf
<1>11. CacheOK(cache', PinOf(m_Files'))
  BY <1>5, <1>3, <1>9, <1>10, PinsMove, Zenon
<1>12. \A x \in DirtyOnes(cache') : Owned(table'.fat, m_Files', x)
  BY <1>2, <1>3, <1>5, <1>9, OthersOwn, Zenon
<1> QED
  BY <1>4, <1>5, <1>11, <1>12, CallKeeps, Zenon

\* The buffer from which or into which an iteration of a copying loop copies.
LEMMA CopyFrom ==
    ASSUME CacheInv, NEW h \in Handles, m_Files[h].nUseCount # 0, NEW c \in {0} \cup Clusters,
           m_Files[h].pBuffer # NULL => c = m_Files[h].nCluster, NEW w, NEW s,
           s = IF m_Files[h].pBuffer = NULL THEN FATCacheGetCluster(CacheState, c, w) ELSE CacheState
    PROVE  /\ Held(s, [PinOf(m_Files) EXCEPT ![h] = c], h, c)
           /\ DirtyOnes(s.list) \subseteq DirtyOnes(cache)
<1>0. /\ [PinOf(m_Files) EXCEPT ![h] = c] =
            [g \in Handles |-> [PinOf(m_Files) EXCEPT ![h] = c][g]]
      /\ [PinOf(m_Files) EXCEPT ![h] = c][h] = c /\ c # NULL
  BY Pinnable, Zenon DEF PinOf
<1> DEFINE P == PinOf(m_Files)
<1>1. P = [g \in Handles |-> P[g]] /\ P[h] = m_Files[h].pBuffer
  BY PinFacts, Zenon
<1>2. CacheState.list = cache /\ CacheState = [list |-> CacheState.list, data |-> CacheState.data]
  BY Zenon DEF CacheState
<1>3. CASE m_Files[h].pBuffer = NULL
  <2>1. s = FATCacheGetCluster(CacheState, c, w) /\ PinOf(m_Files)[h] = NULL
    BY <1>1, <1>3, Zenon
  <2>2. /\ CacheOK(s.list, [PinOf(m_Files) EXCEPT ![h] = c])
        /\ DirtyOnes(s.list) \subseteq DirtyOnes(cache) /\ s = [list |-> s.list, data |-> s.data]
    BY <1>2, <2>1, GetStep
  <2> QED
    BY <1>0, <2>2, Zenon DEF Held
<1>4. CASE m_Files[h].pBuffer # NULL
  <2>1. m_Files[h].pBuffer = c /\ s = CacheState
    BY <1>4, Zenon DEF CacheInv, PinsCurrent
  <2> HIDE DEF P
  <2>2. [P EXCEPT ![h] = c] = P
    BY <1>1, <2>1, Zenon
  <2>3. CacheOK(s.list, [P EXCEPT ![h] = c])
    BY <1>2, <2>1, <2>2, Zenon DEF CacheInv, P
  <2> QED
    BY <1>0, <1>2, <2>1, <2>3, Zenon DEF P, Held
<1> QED
  BY <1>3, <1>4, Zenon

\* The end of an iteration of a copying loop that has left cache state s and
\* file g: r is what ReleaseAtEnd makes of them.
Copied(h, c, s, g, r) ==
    /\ Held(s, [PinOf(m_Files) EXCEPT ![h] = c], h, c)
    /\ FileAt(g, c) /\ m_Files[h].nUseCount # 0 /\ g.nUseCount = m_Files[h].nUseCount
    /\ r = ReleaseAtEnd(s, g) /\ m_Files' = [m_Files EXCEPT ![h] = r.f] /\ cache' = r.s.list

\* After the copying of a call the cache is in order.
LEMMA CopyEnds ==
    ASSUME CacheInv, NEW h \in Handles, NEW c, NEW s, NEW g, NEW r, Copied(h, c, s, g, r)
    PROVE  /\ m_Files'[h] = r.f /\ \A x \in Handles \ {h} : m_Files'[x] = m_Files[x]
           /\ CacheOK(cache', PinOf(m_Files')) /\ DirtyOnes(cache') \subseteq DirtyOnes(s.list)
           /\ m_Files'[h].pBuffer # NULL => m_Files'[h].pBuffer = m_Files'[h].nCluster
<1> USE DEF Copied
<1> DEFINE Q == [PinOf(m_Files) EXCEPT ![h] = c]
           p == r.f.pBuffer
<1> HIDE DEF Q
<1>1. Held(s, Q, h, c) /\ m_Files \in [Handles -> File]
  BY Facts, Zenon DEF CacheInv, Q
<1>2. /\ p \in {NULL, c} /\ CacheOK(r.s.list, [Q EXCEPT ![h] = p])
      /\ DirtyOnes(r.s.list) \subseteq DirtyOnes(s.list)
      /\ r.f.nUseCount = g.nUseCount /\ r.f.nCluster = c
  <2>1. Released(s, Q, h, c, g, r)
    BY <1>1, ReleaseStep, Zenon
  <2> QED
    BY <2>1, Zenon DEF Released
<1>3. m_Files'[h] = r.f /\ \A x \in Handles \ {h} : m_Files'[x] = m_Files[x]
  BY <1>1, Zenon
<1> HIDE DEF p
<1>4. [Q EXCEPT ![h] = p] = [PinOf(m_Files) EXCEPT ![h] = p]
  BY Zenon DEF Q, PinOf
<1>5. PinOf(m_Files')[h] = p
  BY <1>2, <1>3, Zenon DEF PinOf, p
<1>6. CacheOK(cache', [PinOf(m_Files) EXCEPT ![h] = p])
  BY <1>2, <1>4, Zenon
<1>7. CacheOK(cache', PinOf(m_Files'))
  BY <1>3, <1>5, <1>6, PinsMove, Zenon
<1> QED
  BY <1>2, <1>3, <1>7, Zenon DEF p

\* FATFileSystemFileRead.
LEMMA FileReadCaches ==
    ASSUME CacheInv, FatInv', NEW h \in Handles, NEW b \in 1 .. CLUSTER, FileRead(h, b)
    PROVE  CacheInv'
<1> DEFINE f == m_Files[h]
           c == ReadCluster(f)
           k == Min({f.nSize - f.nOffset, b, CLUSTER - (f.nOffset % CLUSTER)})
           s == IF f.pBuffer = NULL THEN FATCacheGetCluster(CacheState, c, FALSE) ELSE CacheState
           g == [f EXCEPT !.nCluster = c, !.pBuffer = c, !.nOffset = @ + k]
           r == ReleaseAtEnd(s, g)
<1>1. /\ table' = table /\ m_Files' = [m_Files EXCEPT ![h] = r.f] /\ cache' = r.s.list
      /\ f.nUseCount # 0 /\ ~f.bWrite /\ f.nCluster # EOC /\ c # EOC
  BY Zenon DEF FileRead, InUse, SetCache
<1>2. FatInv /\ f \in File
  BY Facts, Zenon DEF CacheInv
<1>3. c \in {0} \cup Clusters
  <2>1. f.nCluster \in {0} \cup Clusters
    BY <1>1, <1>2, Zenon DEF File
  <2>2. c \in {f.nCluster, table.fat[f.nCluster]}
    BY Zenon DEF ReadCluster, FATGetClusterEntry
  <2>3. table.fat[f.nCluster] \in {0, EOC} \cup Clusters
    BY <1>2, <2>1, Facts, Zenon DEF FatType, Entries
  <2> QED
    BY <1>1, <2>1, <2>2, <2>3, Zenon
<1>4. f.pBuffer # NULL => c = f.nCluster
  BY Zenon DEF ReadCluster
<1> HIDE DEF c, k
<1>5. /\ Held(s, [PinOf(m_Files) EXCEPT ![h] = c], h, c)
      /\ DirtyOnes(s.list) \subseteq DirtyOnes(cache)
  BY <1>1, <1>3, <1>4, CopyFrom, Zenon
<1>6. FileAt(g, c) /\ g.nUseCount = f.nUseCount
  <2>1. k \in Int
    <3>1. f.nSize - f.nOffset \in Int /\ b \in Int /\ CLUSTER - (f.nOffset % CLUSTER) \in Int
      BY <1>2, Remainder DEF File
    <3> HIDE DEF f
    <3> QED
      BY <3>1, MinOfThree, Zenon DEF k
  <2>2. f.nOffset + k \in Int /\ c \in {NULL, 0} \cup Clusters
    BY <1>2, <1>3, <2>1 DEF File
  <2>3. g = [f EXCEPT !.nCluster = c, !.pBuffer = c, !.nOffset = f.nOffset + k]
    BY <1>2, Zenon DEF File
  <2> HIDE DEF g, f
  <2> QED
    BY ONLY <1>2, <1>3, <2>2, <2>3, Zenon DEF File, FileAt
<1>7. r = ReleaseAtEnd(s, g)
  BY Zenon
<1> HIDE DEF s, g, r
<1>8. /\ \A x \in Handles \ {h} : m_Files'[x] = m_Files[x]
      /\ CacheOK(cache', PinOf(m_Files')) /\ DirtyOnes(cache') \subseteq DirtyOnes(s.list)
      /\ m_Files'[h].pBuffer # NULL => m_Files'[h].pBuffer = m_Files'[h].nCluster
  <2>1. Copied(h, c, s, g, r)
    BY <1>1, <1>5, <1>6, <1>7, Zenon DEF Copied
  <2> QED
    BY <2>1, CopyEnds, Zenon
<1>9. DirtyOnes(cache') \subseteq DirtyOnes(cache)
  BY <1>5, <1>8, Zenon
<1>10. \A x \in DirtyOnes(cache') : Owned(table'.fat, m_Files', x)
  BY <1>1, <1>8, <1>9, OthersOwn, Zenon
<1> QED
  BY <1>8, <1>10, CallKeeps, Zenon

\* FATFileSystemFileRead when the chain ends too early: the reader holds no
\* buffer then.
LEMMA FileReadFailsCaches ==
    ASSUME CacheInv, FatInv', NEW h \in Handles, FileReadFails(h)
    PROVE  CacheInv'
<1> DEFINE f == m_Files[h]
           q == [f EXCEPT !.nCluster = EOC]
<1>1. /\ table' = table /\ m_Files' = [m_Files EXCEPT ![h] = q] /\ cache' = cache
      /\ f.nUseCount # 0 /\ ~f.bWrite /\ f.nCluster # EOC /\ ReadCluster(f) = EOC
  BY Zenon DEF FileReadFails, InUse
<1>2. FatInv /\ f \in File /\ m_Files \in [Handles -> File]
  BY Facts, Zenon DEF CacheInv
<1>3. f.pBuffer = NULL
  BY <1>1, Zenon DEF ReadCluster
<1>4. q.nUseCount = f.nUseCount /\ q.pBuffer = NULL
  BY <1>2, <1>3, Zenon DEF File
<1> HIDE DEF q
<1>5. m_Files'[h] = q /\ \A x \in Handles \ {h} : m_Files'[x] = m_Files[x]
  BY <1>1, <1>2, Zenon
<1>6. PinOf(m_Files')[h] = PinOf(m_Files)[h]
  BY <1>3, <1>4, <1>5, Zenon DEF PinOf
<1>7. [PinOf(m_Files) EXCEPT ![h] = PinOf(m_Files)[h]] = PinOf(m_Files)
  BY Zenon DEF PinOf
<1>8. CacheOK(cache', [PinOf(m_Files) EXCEPT ![h] = PinOf(m_Files)[h]])
  BY <1>1, <1>7, Zenon DEF CacheInv
<1>9. CacheOK(cache', PinOf(m_Files'))
  BY <1>5, <1>6, <1>8, PinsMove, Zenon
<1>10. m_Files'[h].nUseCount # 0 /\ m_Files'[h].pBuffer # NULL
         => m_Files'[h].pBuffer = m_Files'[h].nCluster
  BY <1>4, <1>5, Zenon
<1>11. \A x \in DirtyOnes(cache') : Owned(table'.fat, m_Files', x)
  BY <1>1, <1>5, OthersOwn, Zenon
<1> QED
  BY <1>5, <1>9, <1>10, <1>11, CallKeeps, Zenon

\* FATFileSystemFileSeek.
LEMMA FileSeekCaches ==
    ASSUME CacheInv, FatInv', NEW h \in Handles, NEW o \in 0 .. FAT_MAX_FILESIZE, FileSeek(h, o)
    PROVE  CacheInv'
<1> DEFINE f == m_Files[h]
           c == FATGetFileCluster(table, f.nFirstCluster, o \div CLUSTER)
           s == IF f.pBuffer = NULL THEN CacheState ELSE FATCacheFreeCluster(CacheState, f.pBuffer)
           t == FATCacheGetCluster(s, c, f.bWrite)
           r == [f EXCEPT !.nOffset = o, !.nCluster = c, !.pBuffer = c]
<1>1. /\ table' = table /\ f.nUseCount # 0 /\ ~f.bWrite
      /\ \/ m_Files' = [m_Files EXCEPT ![h].nOffset = o] /\ cache' = cache
         \/ m_Files' = [m_Files EXCEPT ![h] = r] /\ cache' = t.list
  BY Zenon DEF FileSeek, InUse, SeeksElsewhere, SetCache
<1>2. FatInv /\ f \in File /\ m_Files \in [Handles -> File]
  BY Facts, Zenon DEF CacheInv
<1>3. c \in {0} \cup Clusters
  <2>1. f.nFirstCluster \in {0} \cup Clusters
    BY <1>2, Zenon DEF File
  <2> QED
    BY <2>1, Zenon DEF FATGetFileCluster
<1>4. CASE m_Files' = [m_Files EXCEPT ![h].nOffset = o] /\ cache' = cache
  <2> DEFINE q == [f EXCEPT !.nOffset = o]
  <2>1. q.nUseCount = f.nUseCount /\ q.pBuffer = f.pBuffer /\ q.nCluster = f.nCluster
    BY <1>2, Zenon DEF File
  <2>2. m_Files' = [m_Files EXCEPT ![h] = q]
    BY <1>4, Zenon
  <2> HIDE DEF q
  <2>3. m_Files'[h] = q /\ \A x \in Handles \ {h} : m_Files'[x] = m_Files[x]
    BY <1>2, <2>2, Zenon
  <2>4. PinOf(m_Files')[h] = PinOf(m_Files)[h]
    BY <2>1, <2>3, Zenon DEF PinOf
  <2>5. [PinOf(m_Files) EXCEPT ![h] = PinOf(m_Files)[h]] = PinOf(m_Files)
    BY Zenon DEF PinOf
  <2>6. CacheOK(cache', [PinOf(m_Files) EXCEPT ![h] = PinOf(m_Files)[h]])
    BY <1>4, <2>5, Zenon DEF CacheInv
  <2>7. CacheOK(cache', PinOf(m_Files'))
    BY <2>3, <2>4, <2>6, PinsMove, Zenon
  <2>8. m_Files'[h].nUseCount # 0 /\ m_Files'[h].pBuffer # NULL
          => m_Files'[h].pBuffer = m_Files'[h].nCluster
    BY <2>1, <2>3, Zenon DEF CacheInv, PinsCurrent
  <2>9. \A x \in DirtyOnes(cache') : Owned(table'.fat, m_Files', x)
    BY <1>1, <1>4, <2>3, OthersOwn, Zenon
  <2> QED
    BY <2>3, <2>7, <2>8, <2>9, CallKeeps, Zenon
<1>5. CASE m_Files' = [m_Files EXCEPT ![h] = r] /\ cache' = t.list
  <2> DEFINE P == PinOf(m_Files)
             Q == [P EXCEPT ![h] = NULL]
  <2>1. r.nUseCount = f.nUseCount /\ r.pBuffer = c /\ r.nCluster = c
    BY <1>2, Zenon DEF File
  <2>2. t = FATCacheGetCluster(s, c, f.bWrite) /\ c # NULL /\ c # BUFFER_NOCLUSTER
    BY <1>3, Pinnable, Zenon
  <2> HIDE DEF c, r, t
  <2>3. CacheOK(s.list, Q) /\ DirtyOnes(s.list) \subseteq DirtyOnes(cache)
    BY <1>1, FreeStep
  <2>4. Q = [x \in Handles |-> Q[x]] /\ Q[h] = NULL /\ [Q EXCEPT ![h] = c] = [P EXCEPT ![h] = c]
    BY Zenon DEF PinOf
  <2> HIDE DEF P, Q, s
  <2> DEFINE w == f.bWrite
             R == [Q EXCEPT ![h] = c]
  <2>5. t = FATCacheGetCluster(s, c, w) /\ R = [Q EXCEPT ![h] = c]
    BY <2>2, Zenon
  <2> HIDE DEF w, R
  <2>6. CacheOK(t.list, R) /\ DirtyOnes(t.list) \subseteq DirtyOnes(s.list)
    BY <2>2, <2>3, <2>4, <2>5, GetOK
  <2>7. m_Files'[h] = r /\ \A x \in Handles \ {h} : m_Files'[x] = m_Files[x]
    BY <1>2, <1>5, Zenon
  <2>8. PinOf(m_Files')[h] = c
    BY <1>1, <2>1, <2>7, Zenon DEF PinOf
  <2>9. CacheOK(t.list, [PinOf(m_Files) EXCEPT ![h] = c])
    BY <2>4, <2>5, <2>6, Zenon DEF P
  <2>10. CacheOK(cache', PinOf(m_Files'))
    BY <1>5, <2>7, <2>8, <2>9, PinsMove, Zenon
  <2>11. DirtyOnes(cache') \subseteq DirtyOnes(cache)
    BY <1>5, <2>3, <2>6, Zenon
  <2>12. \A x \in DirtyOnes(cache') : Owned(table'.fat, m_Files', x)
    BY <1>1, <2>7, <2>11, OthersOwn, Zenon
  <2> QED
    BY <2>1, <2>7, <2>10, <2>12, CallKeeps, Zenon
<1> QED
  BY <1>1, <1>4, <1>5, Zenon

\* The table that an iteration of FileWrite leaves: links are kept.
LEMMA WriteLinks ==
    ASSUME FatInv, NEW h \in Handles, m_Files[h].nUseCount # 0, m_Files[h].bWrite,
           NEW c, c = FATAllocateCluster(table), c # 0,
           NEW u, u = Extended(table, m_Files[h], c)
    PROVE  \A e \in Clusters : table.fat[e] \in Clusters => u.fat[e] = table.fat[e]
<1> DEFINE f == m_Files[h]
           n == f.cFileName
<1>1. n \in Names /\ Writes(m_Files, h, n) /\ HintOK(table)
  BY Facts, Zenon DEF FilesOK, Writes, Opens
<1>2. CASE f.nFirstCluster = 0
  <2>1. u = Allocated(table, c)
    BY <1>2, Zenon DEF Extended
  <2>2. table.fat[c] = 0 /\ \A x \in Clusters : x # c => u.fat[x] = table.fat[x]
    BY <1>1, <2>1, AllocatedFat
  <2> QED
    BY <2>2, Kinds, Zenon
<1>3. CASE f.nFirstCluster # 0
  <2> DEFINE l == f.nCluster
  <2>1. u = FATSetClusterEntry(Allocated(table, c), l, c)
    BY <1>3, Zenon DEF Extended
  <2>2. table.fat[l] = EOC /\ l \in Walk(table.fat, f.nFirstCluster)
    BY <1>1, <1>3, Facts, Zenon DEF ChainInv, TailsOK
  <2>3. l \in Clusters /\ table.fat[c] = 0 /\ l # c
    BY <1>1, <2>2, Facts, AllocateFree, WalkFacts, Kinds DEF HintOK
  <2> HIDE DEF l
  <2>4. \A x \in Clusters : x # c /\ x # l => u.fat[x] = table.fat[x]
    BY <1>1, <2>1, <2>3, LinkedFat
  <2> QED
    BY <2>2, <2>3, <2>4, Kinds, Zenon
<1> QED
  BY <1>2, <1>3, Zenon

\* The file that it leaves.
Written(f, c, k) ==
    [f EXCEPT !.nFirstCluster = IF @ = 0 THEN c ELSE @, !.nCluster = c,
              !.pBuffer = c, !.nOffset = @ + k, !.nSize = @ + k]

\* It is at the cluster that was written.
LEMMA WrittenFile ==
    ASSUME NEW f \in File, NEW c \in Clusters, NEW k \in Int, NEW g, g = Written(f, c, k)
    PROVE  /\ FileAt(g, c) /\ g.nUseCount = f.nUseCount /\ g.bWrite = f.bWrite
           /\ g.cFileName = f.cFileName
           /\ g.nFirstCluster = IF f.nFirstCluster = 0 THEN c ELSE f.nFirstCluster
<1> DEFINE first == IF f.nFirstCluster = 0 THEN c ELSE f.nFirstCluster
<1>1. /\ f.nOffset + k \in Int /\ f.nSize + k \in Int
      /\ c \in {NULL, 0} \cup Clusters /\ c \in {0} \cup Clusters /\ first \in {0} \cup Clusters
  BY DEF File
<1>2. g = [f EXCEPT !.nFirstCluster = first, !.nCluster = c, !.pBuffer = c,
                    !.nOffset = f.nOffset + k, !.nSize = f.nSize + k]
  BY Zenon DEF File, Written
<1> HIDE DEF first
<1>3. /\ FileAt(g, c) /\ g.nUseCount = f.nUseCount /\ g.bWrite = f.bWrite
      /\ g.cFileName = f.cFileName /\ g.nFirstCluster = first
  BY ONLY f \in File, <1>1, <1>2, Zenon DEF File, FileAt
<1> QED
  BY <1>3, Zenon DEF first

\* An iteration of FATFileSystemFileWrite.
LEMMA FileWriteCaches ==
    ASSUME CacheInv, FatInv', NEW h \in Handles, NEW b \in 1 .. CLUSTER, FileWrite(h, b)
    PROVE  CacheInv'
<1> DEFINE f == m_Files[h]
           needs == f.pBuffer = NULL /\ f.nOffset % CLUSTER = 0
           c == IF needs THEN FATAllocateCluster(table) ELSE f.nCluster
           k == Min({FAT_MAX_FILESIZE - f.nSize, b, CLUSTER - (f.nOffset % CLUSTER)})
           s == IF f.pBuffer = NULL THEN FATCacheGetCluster(CacheState, c, TRUE) ELSE CacheState
           t == CopyIn(s, c, f.cFileName, f.nOffset, k)
           g == Written(f, c, k)
           r == ReleaseAtEnd(t, g)
           Q == [PinOf(m_Files) EXCEPT ![h] = c]
<1>1. /\ table' = IF needs THEN Extended(table, f, c) ELSE table
      /\ m_Files' = [m_Files EXCEPT ![h] = r.f] /\ cache' = r.s.list
      /\ f.nUseCount # 0 /\ f.bWrite /\ c # 0
  BY Zenon DEF FileWrite, InUse, SetCache, Written
<1>2. FatInv /\ f \in File
  BY Facts, Zenon DEF CacheInv
<1>3. c \in Clusters
  <2>1. CASE needs
    BY <1>1, <1>2, <2>1, Facts, AllocateFree, Zenon DEF HintOK
  <2>2. CASE ~needs
    BY <1>1, <1>2, <2>2, WritesOn, Zenon
  <2> QED
    BY <2>1, <2>2, Zenon
<1>4. \A e \in Clusters : table.fat[e] \in Clusters => table'.fat[e] = table.fat[e]
  <2>1. CASE needs
    <3> DEFINE u == Extended(table, m_Files[h], c)
    <3> HIDE DEF k, s, t, g, r, Q
    <3>1. c = FATAllocateCluster(table) /\ table' = u
      BY <1>1, <2>1, Zenon
    <3> HIDE DEF c, u
    <3>2. \A e \in Clusters : table.fat[e] \in Clusters => u.fat[e] = table.fat[e]
      BY <1>1, <1>2, <3>1, WriteLinks DEF u
    <3> QED
      BY <3>1, <3>2, Zenon
  <2>2. CASE ~needs
    BY <1>1, <2>2, Zenon
  <2> QED
    BY <2>1, <2>2, Zenon
<1>5. f.pBuffer # NULL => c = f.nCluster
  BY Zenon
<1>6. k \in Int
  <2>1. /\ FAT_MAX_FILESIZE - f.nSize \in Int /\ b \in Int
        /\ CLUSTER - (f.nOffset % CLUSTER) \in Int
    BY <1>2, Remainder, FilesAssumption DEF File
  <2> HIDE DEF f
  <2> QED
    BY <2>1, MinOfThree, Zenon
<1> HIDE DEF c, k
<1>7. /\ Held(s, [PinOf(m_Files) EXCEPT ![h] = c], h, c)
      /\ DirtyOnes(s.list) \subseteq DirtyOnes(cache)
  BY <1>1, <1>3, <1>5, CopyFrom, Zenon
<1>8. /\ FileAt(g, c) /\ g.nUseCount = f.nUseCount /\ g.bWrite = f.bWrite
      /\ g.cFileName = f.cFileName
      /\ g.nFirstCluster = IF f.nFirstCluster = 0 THEN c ELSE f.nFirstCluster
  BY <1>2, <1>3, <1>6, WrittenFile
<1>9. t = CopyIn(s, c, f.cFileName, f.nOffset, k) /\ r = ReleaseAtEnd(t, g)
  BY Zenon
<1> HIDE DEF s, g, r, t
<1>10. Held(t, Q, h, c) /\ DirtyOnes(t.list) \subseteq DirtyOnes(s.list) \cup {c}
  <2> DEFINE n == f.cFileName
             p == f.nOffset
  <2>1. t = CopyIn(s, c, n, p, k) /\ Held(s, Q, h, c)
    BY <1>7, <1>9, Zenon
  <2> HIDE DEF n, p, Q
  <2> QED
    BY <2>1, CopyOK
<1>11. /\ m_Files'[h] = r.f /\ \A x \in Handles \ {h} : m_Files'[x] = m_Files[x]
       /\ CacheOK(cache', PinOf(m_Files')) /\ DirtyOnes(cache') \subseteq DirtyOnes(t.list)
       /\ m_Files'[h].pBuffer # NULL => m_Files'[h].pBuffer = m_Files'[h].nCluster
  <2>1. Copied(h, c, t, g, r)
    BY <1>1, <1>8, <1>9, <1>10, Zenon DEF Copied
  <2> QED
    BY <2>1, CopyEnds, Zenon
<1>12. DirtyOnes(cache') \subseteq DirtyOnes(cache) \cup {c}
  BY <1>7, <1>10, <1>11, Zenon
<1> DEFINE q == m_Files'[h]
<1>13. /\ q.nUseCount # 0 /\ q.bWrite /\ q.nCluster = c /\ q.cFileName = f.cFileName
       /\ q.nFirstCluster = IF f.nFirstCluster = 0 THEN c ELSE f.nFirstCluster
  <2>1. q = ReleaseAtEnd(t, g).f /\ g \in File /\ g.nCluster = c
    BY <1>8, <1>9, <1>11, Zenon DEF FileAt
  <2> HIDE DEF q
  <2>2. /\ q.nUseCount = g.nUseCount /\ q.cFileName = g.cFileName /\ q.bWrite = g.bWrite
        /\ q.nFirstCluster = g.nFirstCluster /\ q.nCluster = g.nCluster
    BY <2>1, ReleaseFile
  <2> QED
    BY <1>1, <1>8, <2>1, <2>2
<1>14. Owned(table'.fat, m_Files', c)
  <2>1. Writes(m_Files', h, q.cFileName) /\ q.cFileName \in Names
    BY <1>13, Zenon DEF Writes, Opens, FatInv, ChainInv, FilesOK
  <2>2. q.nFirstCluster # 0
    BY <1>3, <1>13, Kinds, Zenon
  <2>3. c \in Walk(table'.fat, q.nFirstCluster)
    BY <1>13, <2>1, <2>2, Zenon DEF FatInv, ChainInv, TailsOK
  <2> QED
    BY <1>13, <2>3, Zenon DEF Owned
<1>15. ASSUME NEW x \in DirtyOnes(cache) PROVE Owned(table'.fat, m_Files', x)
  <2>1. Owned(table.fat, m_Files, x)
    BY Zenon DEF CacheInv
  <2>2. ASSUME NEW y \in Handles, m_Files[y].nUseCount # 0, m_Files[y].bWrite
        PROVE  /\ m_Files'[y].nUseCount # 0 /\ m_Files'[y].bWrite
               /\ m_Files[y].nFirstCluster \in Clusters =>
                    m_Files'[y].nFirstCluster = m_Files[y].nFirstCluster
               /\ \A e \in Walk(table.fat, m_Files[y].nFirstCluster) :
                    table.fat[e] \in Clusters => table'.fat[e] = table.fat[e]
    <3>1. \A e \in Walk(table.fat, m_Files[y].nFirstCluster) :
             table.fat[e] \in Clusters => table'.fat[e] = table.fat[e]
      BY <1>4, WalkFacts, Zenon
    <3>2. CASE y = h
      BY <1>13, <3>1, <3>2, Kinds, Zenon
    <3>3. CASE y # h
      BY <1>11, <2>2, <3>1, <3>3, Zenon
    <3> QED
      BY <3>2, <3>3, Zenon
  <2> DEFINE F == table.fat
             G == table'.fat
  <2>3. \A y \in Handles : m_Files[y].nUseCount # 0 /\ m_Files[y].bWrite =>
             /\ m_Files'[y].nUseCount # 0 /\ m_Files'[y].bWrite
             /\ m_Files[y].nFirstCluster \in Clusters =>
                  m_Files'[y].nFirstCluster = m_Files[y].nFirstCluster
             /\ \A e \in Walk(F, m_Files[y].nFirstCluster) : F[e] \in Clusters => G[e] = F[e]
    BY <2>2, Zenon
  <2>4. Owned(F, m_Files, x)
    BY <2>1, Zenon
  <2> HIDE DEF F, G
  <2>5. Owned(G, m_Files', x)
    BY <2>3, <2>4, OwnedKept
  <2> QED
    BY <2>5, Zenon DEF G
<1>16. \A x \in DirtyOnes(cache') : Owned(table'.fat, m_Files', x)
  BY <1>12, <1>14, <1>15, Zenon
<1> QED
  BY <1>11, <1>16, CallKeeps, Zenon

\* Deleting a file that nobody has open leaves the chains of writers alone.
LEMMA DeletedApart ==
    ASSUME FatInv, NEW n \in Names, NotOpen(n), NEW h \in Handles,
           m_Files[h].nUseCount # 0, m_Files[h].bWrite,
           NEW e \in Walk(table.fat, m_Files[h].nFirstCluster)
    PROVE  Deleted(n).table.fat[e] = table.fat[e]
<1> DEFINE f == m_Files[h].nFirstCluster
<1>1. CASE Listed(dir, n) = {}
  BY <1>1, Zenon DEF Deleted
<1>2. CASE Listed(dir, n) # {}
  <2>1. PICK i : i \in Listed(dir, n)
    BY <1>2, Zenon
  <2>2. /\ i \in DOMAIN dir /\ dir[i].Name = n /\ Min(Listed(dir, n)) = i
        /\ dir[i].nFirstCluster \in {0} \cup Clusters
    BY <2>1, Facts, ListedIs, EntryFacts
  <2> DEFINE c == dir[i].nFirstCluster
             W == Walk(table.fat, c)
  <2>3. Deleted(n).table = IF c = 0 THEN table ELSE Freed(table, W)
    BY <1>2, <2>2, Zenon DEF Deleted, FATFreeClusterChain, Chain
  <2>4. CASE c = 0
    BY <2>3, <2>4, Zenon
  <2>5. CASE c # 0
    <3>1. \A g \in Handles : ~Writes(m_Files, g, n)
      BY Zenon DEF NotOpen, Users, InUse, Writes, Opens
    <3>2. c \in Clusters /\ Starts(dir, m_Files, n, c)
      BY <2>2, <2>5, <3>1, Zenon DEF Starts
    <3> DEFINE m == m_Files[h].cFileName
    <3>3. m \in Names /\ Writes(m_Files, h, m) /\ m # n
      BY <3>1, Facts, Zenon DEF FilesOK, Writes, Opens
    <3>4. f \in Clusters
      BY WalkNone, Zenon
    <3>5. Starts(dir, m_Files, m, f)
      BY <3>3, Zenon DEF Starts
    <3>6. f # c
      BY <3>2, <3>3, <3>4, <3>5, Facts, Zenon DEF ChainInv, HeadsOK
    <3>7. f \in Roots(dir, m_Files) /\ c \in Roots(dir, m_Files)
      BY <3>2, <3>3, <3>4, <3>5, Zenon DEF Roots
    <3>8. Sound(table.fat, Roots(dir, m_Files))
      BY Facts, Zenon DEF ChainInv
    <3>9. e \notin W
      BY <3>6, <3>7, <3>8, WalksApart, Zenon
    <3>10. e \in Entries
      BY WalkFacts, Zenon DEF Entries
    <3> DEFINE t == Deleted(n).table
    <3>11. t = Freed(table, W) /\ W \subseteq Clusters /\ HintOK(table)
      BY <2>3, <2>5, WalkFacts, Facts, Zenon
    <3> HIDE DEF W, t
    <3>12. t.fat = [x \in Entries |-> IF x \in W THEN 0 ELSE table.fat[x]]
      BY <3>11, FreedKeeps DEF HintOK
    <3>13. t.fat[e] = table.fat[e]
      BY <3>9, <3>10, <3>12, Zenon
    <3> QED
      BY <3>13, Zenon DEF t
  <2> QED
    BY <2>4, <2>5, Zenon
<1> QED
  BY <1>1, <1>2, Zenon

\* FATFileSystemFileDelete.
LEMMA DeleteCaches ==
    ASSUME CacheInv, FatInv', NEW n \in Names, NotOpen(n),
           table' = Deleted(n).table, m_Files' = m_Files, cache' = cache
    PROVE  CacheInv'
<1>1. ASSUME NEW x \in DirtyOnes(cache) PROVE Owned(table'.fat, m_Files', x)
  <2> DEFINE F == table.fat
             G == Deleted(n).table.fat
  <2>1. Owned(F, m_Files, x)
    BY Zenon DEF CacheInv
  <2>2. \A y \in Handles : m_Files[y].nUseCount # 0 /\ m_Files[y].bWrite =>
             /\ m_Files[y].nUseCount # 0 /\ m_Files[y].bWrite
             /\ m_Files[y].nFirstCluster \in Clusters =>
                  m_Files[y].nFirstCluster = m_Files[y].nFirstCluster
             /\ \A e \in Walk(F, m_Files[y].nFirstCluster) : F[e] \in Clusters => G[e] = F[e]
    BY DeletedApart, Zenon DEF CacheInv
  <2> HIDE DEF F, G
  <2>3. Owned(G, m_Files, x)
    BY <2>1, <2>2, OwnedKept
  <2>4. table'.fat = G
    BY Zenon DEF G
  <2> QED
    BY <2>3, <2>4, Zenon
<1>2. CacheOK(cache', PinOf(m_Files')) /\ PinsCurrent(m_Files')
  BY Zenon DEF CacheInv
<1>3. \A x \in DirtyOnes(cache') : Owned(table'.fat, m_Files', x)
  BY <1>1, Zenon
<1> QED
  BY <1>2, <1>3, Zenon DEF CacheInv

\* FATFileSystemFileCreate.
LEMMA FileCreateCaches ==
    ASSUME CacheInv, FatInv', NEW h \in Handles, NEW n \in Names, FileCreate(h, n)
    PROVE  CacheInv'
<1> DEFINE made == FATDirectoryCreateEntry(Deleted(n).table, Deleted(n).dir, n)
           new == [NoFile EXCEPT !.nUseCount = 1, !.cFileName = n, !.bWrite = TRUE]
           r == FATCacheClusterFlush(CacheState)
<1>1. /\ NotOpen(n) /\ m_Files[h].nUseCount = 0
      /\ \/ made.ok /\ m_Files' = [m_Files EXCEPT ![h] = new] /\ cache' = r.list
         \/ ~made.ok /\ m_Files' = m_Files /\ cache' = cache /\ table' = made.table
  BY Zenon DEF FileCreate, InUse, Synchronize
<1>2. CASE ~made.ok /\ m_Files' = m_Files /\ cache' = cache /\ table' = made.table
  <2>1. made.ok \/ made.table = Deleted(n).table
    BY DEF FATDirectoryCreateEntry
  <2>2. table' = Deleted(n).table
    BY <1>2, <2>1, Zenon
  <2> QED
    BY <1>1, <1>2, <2>2, DeleteCaches, Zenon
<1>3. CASE made.ok /\ m_Files' = [m_Files EXCEPT ![h] = new] /\ cache' = r.list
  <2> DEFINE P == PinOf(m_Files)
  <2>1. new.nUseCount = 1 /\ new.pBuffer = NULL
    BY NoFileFacts, Zenon DEF File, NoFile
  <2> HIDE DEF new
  <2>2. m_Files'[h] = new /\ \A g \in Handles \ {h} : m_Files'[g] = m_Files[g]
    BY <1>3, Facts, Zenon DEF CacheInv
  <2>3. CacheState.list = cache /\ P[h] = NULL /\ P = [g \in Handles |-> P[g]]
    BY <1>1, PinFacts, Zenon DEF CacheState
  <2>4. CacheOK(CacheState.list, P) /\ r = FATCacheClusterFlush(CacheState)
    BY <2>3, Zenon DEF CacheInv
  <2> HIDE DEF r, P
  <2>5. CacheOK(r.list, P) /\ DirtyOnes(r.list) = {}
    BY <2>4, FlushOK
  <2>6. [P EXCEPT ![h] = NULL] = P
    BY <2>3, Zenon
  <2>7. CacheOK(cache', [PinOf(m_Files) EXCEPT ![h] = NULL])
    BY <1>3, <2>5, <2>6, Zenon DEF P
  <2>8. PinOf(m_Files')[h] = NULL
    BY <2>1, <2>2, Zenon DEF PinOf
  <2>9. CacheOK(cache', PinOf(m_Files'))
    BY <2>2, <2>7, <2>8, PinsMove, Zenon
  <2>10. \A x \in DirtyOnes(cache') : Owned(table'.fat, m_Files', x)
    BY <1>3, <2>5, Zenon
  <2> QED
    BY <2>1, <2>2, <2>9, <2>10, CallKeeps, Zenon
<1> QED
  BY <1>1, <1>2, <1>3, Zenon

\* FATFileSystemFileClose.
LEMMA FileCloseCaches ==
    ASSUME CacheInv, FatInv', NEW h \in Handles, FileClose(h)
    PROVE  CacheInv'
<1> DEFINE f == m_Files[h]
           s == IF f.pBuffer = NULL THEN CacheState ELSE FATCacheFreeCluster(CacheState, f.pBuffer)
           r == FATCacheClusterFlush(s)
           Q == [PinOf(m_Files) EXCEPT ![h] = NULL]
<1>1. /\ m_Files' = [m_Files EXCEPT ![h] = NoFile] /\ f.nUseCount # 0
      /\ cache' = IF f.bWrite THEN r.list ELSE s.list
      /\ table' = table
  BY Zenon DEF FileClose, Synchronize, InUse, SetCache
<1>2. CacheOK(s.list, Q) /\ DirtyOnes(s.list) \subseteq DirtyOnes(cache)
  BY <1>1, FreeStep
<1>3. r = FATCacheClusterFlush(s)
  BY Zenon
<1>4. m_Files'[h] = NoFile /\ \A x \in Handles \ {h} : m_Files'[x] = m_Files[x]
  BY <1>1, Facts, Zenon DEF CacheInv
<1>5. m_Files'[h].nUseCount = 0 /\ PinOf(m_Files')[h] = NULL
  BY <1>4, NoFileFacts, Zenon DEF PinOf
<1> HIDE DEF s, r, Q
<1>6. CacheOK(r.list, Q) /\ DirtyOnes(r.list) = {}
  BY <1>2, <1>3, FlushOK
<1>7. CacheOK(cache', [PinOf(m_Files) EXCEPT ![h] = NULL])
  BY <1>1, <1>2, <1>6, Zenon DEF Q
<1>8. CacheOK(cache', PinOf(m_Files'))
  BY <1>4, <1>5, <1>7, PinsMove, Zenon
<1>9. \A x \in DirtyOnes(cache') : Owned(table'.fat, m_Files', x)
  <2>1. CASE f.bWrite
    BY <1>1, <1>6, <2>1, Zenon
  <2>2. CASE ~f.bWrite
    BY <1>1, <1>2, <1>4, <2>2, OthersOwn, Zenon
  <2> QED
    BY <2>1, <2>2, Zenon
<1> QED
  BY <1>4, <1>5, <1>8, <1>9, CallKeeps, Zenon

\* The empty cache.
LEMMA InitCaches == Init => CacheInv
<1> SUFFICES ASSUME Init PROVE CacheInv
  BY Zenon
<1> DEFINE P == PinOf(m_Files)
           b == [nCluster |-> BUFFER_NOCLUSTER, nUseCount |-> 0, bDirty |-> FALSE,
                 pBuf |-> JunkCluster]
<1>1. m_Files = [h \in Handles |-> NoFile] /\ cache = [i \in Slots |-> b]
  BY Zenon DEF Init, Slots
<1>2. \A h \in Handles : m_Files[h].nUseCount = 0 /\ P[h] = NULL
  BY <1>1, NoFileFacts, Zenon DEF PinOf
<1>3. BUFFER_NOCLUSTER # NULL
  BY NullAssumption, Zenon
<1>4. Holders(P, BUFFER_NOCLUSTER) = {}
  BY <1>2, <1>3, Zenon DEF Holders
<1>5. Cardinality(Holders(P, BUFFER_NOCLUSTER)) = 0
  BY <1>4, FS_EmptySet, Zenon
<1>6. /\ b = [nCluster |-> b.nCluster, nUseCount |-> b.nUseCount, bDirty |-> b.bDirty,
              pBuf |-> b.pBuf]
      /\ b.nCluster = BUFFER_NOCLUSTER /\ b.nUseCount = 0 /\ b.bDirty = FALSE
  BY Zenon
<1> HIDE DEF b, P
<1>7. \A i \in Slots : cache[i] = b
  BY <1>1, Zenon
<1>8. IsBuffer(b)
  <2>1. b.nUseCount \in Nat
    BY <1>6
  <2> QED
    BY <1>3, <1>6, <2>1, Zenon DEF IsBuffer
<1>9. cache = [i \in Slots |-> cache[i]]
  BY <1>1, Zenon
<1>10. CacheOK(cache, P)
  BY <1>2, <1>5, <1>6, <1>7, <1>8, <1>9, Zenon DEF CacheOK
<1>11. PinsCurrent(m_Files)
  BY <1>2, Zenon DEF PinsCurrent
<1>12. \A c : c \notin DirtyOnes(cache)
  BY <1>6, <1>7, Zenon DEF DirtyOnes
<1> QED
  BY <1>10, <1>11, <1>12, InitKeeps, Zenon DEF CacheInv, P

\* Every call keeps the invariant.
LEMMA CacheStepKeeps == CacheInv /\ [Next]_vars => CacheInv'
<1> SUFFICES ASSUME CacheInv, [Next]_vars PROVE CacheInv'
  BY Zenon
<1>0. FatInv'
  BY StepKeeps, Zenon DEF CacheInv
<1>1. ASSUME NEW h \in Handles, NEW n \in Names, OpenRead(h, n) PROVE CacheInv'
  BY <1>0, <1>1, OpenReadCaches, Zenon
<1>2. ASSUME NEW h \in Handles, NEW n \in Names, OpenAppend(h, n) PROVE CacheInv'
  BY <1>0, <1>2, OpenAppendCaches, Zenon
<1>3. ASSUME NEW h \in Handles, NEW n \in Names, FileCreate(h, n) PROVE CacheInv'
  BY <1>0, <1>3, FileCreateCaches, Zenon
<1>4. ASSUME NEW h \in Handles, NEW k \in 1 .. CLUSTER, FileRead(h, k) PROVE CacheInv'
  BY <1>0, <1>4, FileReadCaches, Zenon
<1>5. ASSUME NEW h \in Handles, NEW k \in 1 .. CLUSTER, FileWrite(h, k) PROVE CacheInv'
  BY <1>0, <1>5, FileWriteCaches, Zenon
<1>6. ASSUME NEW h \in Handles, NEW o \in 0 .. FAT_MAX_FILESIZE, FileSeek(h, o) PROVE CacheInv'
  BY <1>0, <1>6, FileSeekCaches, Zenon
<1>7. ASSUME NEW h \in Handles, FileClose(h) PROVE CacheInv'
  BY <1>0, <1>7, FileCloseCaches, Zenon
<1>8. ASSUME NEW n \in Names, FileDelete(n) PROVE CacheInv'
  <2>1. NotOpen(n) /\ table' = Deleted(n).table /\ m_Files' = m_Files /\ cache' = cache
    BY <1>8, Zenon DEF FileDelete
  <2> QED
    BY <1>0, <2>1, DeleteCaches, Zenon
<1>9. ASSUME NEW h \in Handles, FileReadFails(h) PROVE CacheInv'
  BY <1>0, <1>9, FileReadFailsCaches, Zenon
<1>10. CASE UNCHANGED vars
  <2>1. table' = table /\ m_Files' = m_Files /\ cache' = cache
    BY <1>10, Zenon DEF vars
  <2>2. CacheOK(cache', PinOf(m_Files')) /\ PinsCurrent(m_Files')
    BY <2>1, Zenon DEF CacheInv
  <2>3. \A x \in DirtyOnes(cache') : Owned(table'.fat, m_Files', x)
    BY <2>1, Zenon DEF CacheInv
  <2> QED
    BY <1>0, <2>2, <2>3, Zenon DEF CacheInv
<1> QED
  BY <1>1, <1>2, <1>3, <1>4, <1>5, <1>6, <1>7, <1>8, <1>9, <1>10, Zenon DEF Next

\* However many files, handles and buffers there are (more buffers than handles):
\* the use count of a buffer is the number of open files that hold it, and no
\* cluster is in two buffers.
THEOREM UseCountsRight == Spec => []Pins
<1>1. CacheInv => Pins
  <2> SUFFICES ASSUME CacheInv, NEW i \in DOMAIN cache
               PROVE  /\ cache[i].nUseCount = Cardinality({h \in Handles :
                            InUse(h) /\ m_Files[h].pBuffer = cache[i].nCluster})
                      /\ cache[i].nCluster # BUFFER_NOCLUSTER =>
                            Holding(cache, cache[i].nCluster) = {i}
    BY Zenon DEF Pins
  <2> DEFINE c == cache[i].nCluster
             P == PinOf(m_Files)
  <2>1. CacheOK(cache, P)
    BY Zenon DEF CacheInv
  <2>2. DOMAIN cache = Slots
    <3>1. cache = [j \in Slots |-> cache[j]]
      BY <2>1, Zenon DEF CacheOK
    <3> QED
      BY <3>1, Zenon
  <2>3. c # NULL /\ cache[i].nUseCount = Cardinality(Holders(P, c))
    BY <2>1, <2>2, Zenon DEF CacheOK, IsBuffer
  <2>4. \A h \in Handles : P[h] = c <=> InUse(h) /\ m_Files[h].pBuffer = c
    BY <2>3, Zenon DEF PinOf, InUse
  <2>5. Holders(P, c) = {h \in Handles : InUse(h) /\ m_Files[h].pBuffer = c}
    BY <2>4, Zenon DEF Holders
  <2>6. c # BUFFER_NOCLUSTER => Holding(cache, c) = {i}
    BY <2>1, <2>2, Zenon DEF CacheOK, Holding
  <2> QED
    BY <2>3, <2>5, <2>6, Zenon
<1> QED
  BY <1>1, InitCaches, CacheStepKeeps, PTL DEF Spec

\* A dirty buffer belongs to a cluster of a file that is being written, whatever
\* files have been deleted and whatever clusters have been used again.
THEOREM DirtyStaysOwned == Spec => []DirtyIsOwned
<1>1. CacheInv => DirtyIsOwned
  <2> SUFFICES ASSUME CacheInv, NEW i \in DOMAIN cache, cache[i].bDirty
               PROVE  \E n \in Existing :
                        Writers(n) # {} /\ cache[i].nCluster \in Chain(table, Extent(n)[1])
    BY Zenon DEF DirtyIsOwned
  <2> DEFINE c == cache[i].nCluster
  <2>1. cache = [j \in Slots |-> cache[j]]
    BY Zenon DEF CacheInv, CacheOK
  <2>2. c \in DirtyOnes(cache)
    BY <2>1, Zenon DEF DirtyOnes
  <2>3. FatInv /\ Owned(table.fat, m_Files, c)
    BY <2>2, Zenon DEF CacheInv
  <2>4. PICK h \in Handles : /\ m_Files[h].nUseCount # 0 /\ m_Files[h].bWrite
                             /\ c \in Walk(table.fat, m_Files[h].nFirstCluster)
    BY <2>3, Zenon DEF Owned
  <2> DEFINE n == m_Files[h].cFileName
  <2>5. n \in Names /\ (\E j \in DOMAIN dir : dir[j].Name = n) /\ Writes(m_Files, h, n)
    BY <2>3, <2>4, Facts, Zenon DEF FilesOK, Writes, Opens
  <2>6. Listed(dir, n) # {}
    BY <2>3, <2>5, Facts, ListedIs
  <2>7. n \in Existing /\ Writers(n) # {}
    BY <2>5, <2>6, Zenon DEF Existing, Writers, Users, InUse, Writes, Opens
  <2>8. Starts(dir, m_Files, n, m_Files[h].nFirstCluster)
    BY <2>5, Zenon DEF Starts
  <2>9. m_Files[h].nFirstCluster = Extent(n)[1]
    BY <2>3, <2>7, <2>8, ExtentStarts, Zenon
  <2> QED
    BY <2>4, <2>7, <2>9, Zenon DEF Chain
<1> QED
  BY <1>1, InitCaches, CacheStepKeeps, PTL DEF Spec
=============================================================================
