----------------------------- MODULE FatProofs ------------------------------
(***************************************************************************)
(* Volumes of any size, with any number of files, handles and buffers: the *)
(* hint of the allocation table never skips a free cluster, and the chains *)
(* of the directory and the files stay apart and use up all the clusters   *)
(* that are taken.                                                         *)
(*                                                                         *)
(* The invariant, FatInv, is about three things: the hint (HintOK), the    *)
(* entries as links between clusters, seen from the clusters at which      *)
(* chains begin (Sound), and what the directory and the open files say of  *)
(* these clusters (DirOK, FilesOK, HeadsOK, TailsOK).  Each operation of   *)
(* the file system begins a chain, grows one at its end, drops one, or     *)
(* passes the knowledge where a file starts from a writer to the directory *)
(* and back.                                                               *)
(***************************************************************************)
EXTENDS FatChains

USE TableAssumption

FatInv == HintOK(table) /\ ChainInv(table.fat, dir, m_Files)

\* The entries that FATDirectoryGetEntry finds are those with the name.
LEMMA ListedIs ==
    ASSUME NEW d, DirOK(d), NEW n \in Names
    PROVE  /\ Listed(d, n) = {i \in DOMAIN d : d[i].Name = n}
           /\ \A i \in Listed(d, n) : Listed(d, n) = {i} /\ Min(Listed(d, n)) = i
<1>1. DOMAIN d = 1 .. Len(d) /\ Len(d) \in Nat /\ n # FAT_DIR_NAME0_LAST
  BY FilesAssumption DEF DirOK
<1>2. Listed(d, n) = {i \in DOMAIN d : d[i].Name = n}
  BY <1>1 DEF Listed, DirOK
<1>3. ASSUME NEW i \in Listed(d, n) PROVE Listed(d, n) = {i} /\ Min(Listed(d, n)) = i
  <2>1. Listed(d, n) = {i}
    BY <1>2, <1>3, Zenon DEF DirOK
  <2>2. Listed(d, n) \subseteq Nat /\ Listed(d, n) # {}
    BY <1>1, <1>2, <1>3
  <2> QED
    BY <2>1, <2>2, Lowest, Zenon
<1> QED
  BY <1>2, <1>3, Zenon

LEMMA FunctionIsSeq ==
    ASSUME NEW S, NEW n \in Nat, NEW f \in [1 .. n -> S]
    PROVE  f \in Seq(S) /\ Len(f) = n
<1>1. f \in Seq(S)
  OBVIOUS
<1>2. DOMAIN f = 1 .. n
  BY Zenon
<1>3. DOMAIN f = 1 .. Len(f) /\ Len(f) \in Nat
  BY <1>1
<1>4. 1 .. Len(f) = 1 .. n
  BY <1>2, <1>3
<1> QED
  BY <1>1, <1>3, <1>4

LEMMA Joined ==
    ASSUME NEW S, NEW a \in Seq(S), NEW b \in Seq(S)
    PROVE  /\ a \o b \in Seq(S) /\ Len(a \o b) = Len(a) + Len(b)
           /\ \A i \in 1 .. (Len(a) + Len(b)) :
                (a \o b)[i] = IF i <= Len(a) THEN a[i] ELSE b[i - Len(a)]
  OBVIOUS

LEMMA UpdateFile ==
    ASSUME NEW fs \in [Handles -> File], NEW h \in Handles, NEW r \in File,
           NEW gs, gs = [fs EXCEPT ![h] = r]
    PROVE  /\ gs \in [Handles -> File] /\ gs[h] = r
           /\ \A g \in Handles \ {h} : gs[g] = fs[g]
  BY Zenon

LEMMA NoFileFacts == NoFile \in File /\ NoFile.nUseCount = 0 /\ NoFile.bWrite = FALSE
  BY DEF NoFile, File

\* The last cluster of a chain is found.
LEMMA LastFound ==
    ASSUME NEW t, NEW H, Sound(t.fat, H), NEW c \in H
    PROVE  /\ FATGetFileLastCluster(t, c) \in Walk(t.fat, c)
           /\ t.fat[FATGetFileLastCluster(t, c)] = EOC
<1>1. c \in Walk(t.fat, c)
  BY WalkFacts, Zenon DEF Sound, Rooted
<1>2. \E x \in Walk(t.fat, c) \cup {c} : t.fat[x] = EOC
  BY Zenon DEF Sound, Ended
<1> DEFINE l == FATGetFileLastCluster(t, c)
<1>3. l \in Walk(t.fat, c) \cup {c} /\ t.fat[l] = EOC
  BY <1>2 DEF FATGetFileLastCluster, Chain
<1> QED
  BY <1>1, <1>3, Zenon

\* FATAllocateCluster and the linking of the new cluster c to l.
LEMMA AllocatedFat ==
    ASSUME NEW t, HintOK(t), NEW c, c = FATAllocateCluster(t), c # 0
    PROVE  /\ HintOK(Allocated(t, c)) /\ c \in Clusters /\ t.fat[c] = 0
           /\ FatType(Allocated(t, c).fat)
           /\ Allocated(t, c).fat[c] = EOC
           /\ \A x \in Clusters : x # c => Allocated(t, c).fat[x] = t.fat[x]
<1>1. c \in Clusters /\ t.fat[c] = 0
  BY AllocateFree, Zenon DEF HintOK
<1>2. /\ HintOK(Allocated(t, c))
      /\ Allocated(t, c).fat = [t.fat EXCEPT ![c] = EOC]
  BY AllocatedKeeps, Zenon DEF HintOK
<1>3. FatType(t.fat)
  BY DEF HintOK, TableType
<1> QED
  BY <1>1, <1>2, <1>3, Kinds, Zenon DEF HintOK, TableType, FatType

LEMMA LinkedFat ==
    ASSUME NEW t, HintOK(t), NEW c, c = FATAllocateCluster(t), c # 0,
           NEW l \in Clusters, l # c,
           NEW u, u = FATSetClusterEntry(Allocated(t, c), l, c)
    PROVE  /\ HintOK(u) /\ c \in Clusters /\ t.fat[c] = 0
           /\ FatType(u.fat) /\ u.fat[c] = EOC /\ u.fat[l] = c
           /\ \A x \in Clusters : x # c /\ x # l => u.fat[x] = t.fat[x]
<1> DEFINE a == Allocated(t, c)
<1>1. /\ HintOK(a) /\ c \in Clusters /\ t.fat[c] = 0
      /\ FatType(a.fat) /\ a.fat[c] = EOC
      /\ \A x \in Clusters : x # c => a.fat[x] = t.fat[x]
  BY AllocatedFat
<1>2. u = FATSetClusterEntry(a, l, c) /\ c \in {EOC} \cup Clusters
  BY <1>1, Zenon
<1> HIDE DEF a
<1>3. TableType(a) /\ NoneBelowHint(a)
  BY <1>1, Zenon DEF HintOK
<1>4. \A e \in {EOC} \cup Clusters :
        /\ TableType(FATSetClusterEntry(a, l, e)) /\ NoneBelowHint(FATSetClusterEntry(a, l, e))
        /\ FATSetClusterEntry(a, l, e).fat = [a.fat EXCEPT ![l] = e]
  <2> SUFFICES ASSUME NEW e \in {EOC} \cup Clusters
               PROVE  /\ TableType(FATSetClusterEntry(a, l, e))
                      /\ NoneBelowHint(FATSetClusterEntry(a, l, e))
                      /\ FATSetClusterEntry(a, l, e).fat = [a.fat EXCEPT ![l] = e]
    BY Zenon
  <2>1. /\ TableType(FATSetClusterEntry(a, l, e))
        /\ NoneBelowHint(FATSetClusterEntry(a, l, e))
    BY <1>3, SetKeeps, Zenon
  <2>2. FATSetClusterEntry(a, l, e)
          = [fat |-> [a.fat EXCEPT ![l] = e], m_nFreeCount |-> a.m_nFreeCount,
             m_nNextFreeCluster |-> a.m_nNextFreeCluster]
    BY <1>3 DEF FATSetClusterEntry, TableType
  <2>3. FATSetClusterEntry(a, l, e).fat = [a.fat EXCEPT ![l] = e]
    BY <2>2
  <2> QED
    BY <2>1, <2>3, Zenon
<1>5. HintOK(u) /\ u.fat = [a.fat EXCEPT ![l] = c]
  BY <1>2, <1>4 DEF HintOK
<1> QED
  BY <1>1, <1>5, Kinds DEF HintOK, TableType, FatType

\* Deleting a file that nobody has open.
LEMMA DeletedKeeps ==
    ASSUME FatInv, NEW n \in Names, NotOpen(n)
    PROVE  /\ HintOK(Deleted(n).table)
           /\ ChainInv(Deleted(n).table.fat, Deleted(n).dir, m_Files)
           /\ \A j \in DOMAIN Deleted(n).dir : Deleted(n).dir[j].Name # n
<1>1. DirOK(dir) /\ ChainInv(table.fat, dir, m_Files) /\ HintOK(table)
  BY Zenon DEF FatInv, ChainInv
<1>2. CASE Listed(dir, n) = {}
  <2>1. Deleted(n).table = table /\ Deleted(n).dir = dir
    BY <1>2, Zenon DEF Deleted
  <2>2. \A j \in DOMAIN dir : dir[j].Name # n
    BY <1>1, <1>2, ListedIs
  <2> QED
    BY <1>1, <2>1, <2>2, Zenon
<1>3. CASE Listed(dir, n) # {}
  <2>1. PICK i : i \in Listed(dir, n)
    BY <1>3, Zenon
  <2>2. i \in DOMAIN dir /\ dir[i].Name = n /\ Min(Listed(dir, n)) = i
    BY <1>1, <2>1, ListedIs
  <2> DEFINE first == dir[i].nFirstCluster
             t == Deleted(n).table
             e == Deleted(n).dir
  <2>3. /\ t = IF first = 0 THEN table ELSE Freed(table, Walk(table.fat, first))
        /\ e = [dir EXCEPT ![i] = Entry(FAT_DIR_NAME0_FREE, 0, 0)]
    BY <1>3, <2>2, Zenon DEF Deleted, FATFreeClusterChain, Chain
  <2>4. HintOK(t) /\ FatType(t.fat) /\ (first = 0 => t.fat = table.fat)
        /\ (first # 0 => \A c \in Clusters :
                t.fat[c] = IF c \in Walk(table.fat, first) THEN 0 ELSE table.fat[c])
    <3>1. CASE first = 0
      BY <1>1, <2>3, <3>1, Zenon DEF HintOK, TableType
    <3>2. CASE first # 0
      <4> DEFINE W == Walk(table.fat, first)
      <4>1. W \subseteq Clusters /\ t = Freed(table, W)
        BY <2>3, <3>2, WalkFacts, Zenon
      <4> HIDE DEF W, t, first
      <4>2. HintOK(t) /\ t.fat = [c \in Entries |-> IF c \in W THEN 0 ELSE table.fat[c]]
        BY <1>1, <4>1, FreedKeeps DEF HintOK
      <4> QED
        BY <3>2, <4>2, Kinds, Zenon DEF HintOK, TableType, W
    <3> QED
      BY <3>1, <3>2, Zenon
  <2>5. \A h \in Handles : ~Opens(m_Files, h, n)
    BY Zenon DEF NotOpen, Users, InUse, Opens
  <2>6. /\ e \in Seq(DirEntry) /\ DOMAIN e = DOMAIN dir
        /\ e[i] = Entry(FAT_DIR_NAME0_FREE, 0, 0)
        /\ \A j \in DOMAIN dir : j # i => e[j] = dir[j]
    <3>1. Entry(FAT_DIR_NAME0_FREE, 0, 0) \in DirEntry
      BY DEF Entry, DirEntry
    <3>2. dir \in Seq(DirEntry) /\ i \in 1 .. Len(dir)
      BY <1>1, <2>2 DEF DirOK
    <3> HIDE DEF e
    <3> QED
      BY <2>3, <3>1, <3>2
  <2> HIDE DEF t, e
  <2>7. ChainInv(t.fat, e, m_Files) /\ \A j \in DOMAIN e : e[j].Name # n
    BY <1>1, <2>2, <2>4, <2>5, <2>6, DeleteKeeps
  <2> QED
    BY <2>4, <2>7, Zenon DEF t, e
<1> QED
  BY <1>2, <1>3, Zenon

\* Making a directory entry, in a new cluster if need be, for the handle h.
LEMMA CreatedKeeps ==
    ASSUME NEW t, HintOK(t), NEW d, NEW fs, ChainInv(t.fat, d, fs),
           NEW n \in Names, \A j \in DOMAIN d : d[j].Name # n,
           NEW h \in Handles, fs[h].nUseCount = 0,
           NEW gs, gs \in [Handles -> File], \A g \in Handles \ {h} : gs[g] = fs[g],
           gs[h].nUseCount # 0, gs[h].cFileName = n, gs[h].bWrite,
           gs[h].nFirstCluster = 0, gs[h].nSize = 0, gs[h].nOffset = 0, gs[h].pBuffer = NULL,
           NEW r, r = FATDirectoryCreateEntry(t, d, n)
    PROVE  /\ HintOK(r.table)
           /\ r.ok => ChainInv(r.table.fat, r.dir, gs)
           /\ ~r.ok => ChainInv(r.table.fat, r.dir, fs)
<1> DEFINE new == Entry(n, 0, 0)
<1>1. /\ d \in Seq(DirEntry) /\ DOMAIN d = 1 .. Len(d) /\ Len(d) \in Nat
      /\ n \notin {FAT_DIR_NAME0_LAST, FAT_DIR_NAME0_FREE, VOLUME_ID}
  BY FilesAssumption DEF ChainInv, DirOK
<1>2. new \in DirEntry /\ new.Name = n /\ new.nFileSize = 0
  BY DEF Entry, DirEntry
<1> HIDE DEF new
<1>3. CASE Unused(d) # {}
  <2> DEFINE j == Min(Unused(d))
  <2>1. r.ok /\ r.table = t /\ r.dir = [d EXCEPT ![j] = new]
    BY <1>3, Zenon DEF FATDirectoryCreateEntry, new
  <2>2. j \in Unused(d) /\ \A i \in Unused(d) : j <= i
    <3>1. Unused(d) \subseteq Nat
      BY <1>1 DEF Unused
    <3> QED
      BY <1>3, <3>1, Lowest, Zenon
  <2>3. j \in DOMAIN d /\ d[j].Name \notin Names
    BY <2>2, FilesAssumption, Zenon DEF Unused
  <2> HIDE DEF j
  <2> DEFINE e == r.dir
  <2>4. /\ e \in Seq(DirEntry) /\ DOMAIN e = DOMAIN d /\ e[j] = new
        /\ \A i \in DOMAIN d : i # j => e[i] = d[i]
    BY <1>1, <1>2, <2>1, <2>3
  <2> HIDE DEF e
  <2>5. DirOK(e)
    <3>1. ASSUME NEW a \in DOMAIN e, NEW b \in DOMAIN e, a <= b, e[a].Name = FAT_DIR_NAME0_LAST
          PROVE  e[b].Name = FAT_DIR_NAME0_LAST
      <4>1. a # j /\ d[a].Name = FAT_DIR_NAME0_LAST
        BY <1>1, <1>2, <2>4, <3>1, Zenon
      <4>2. d[b].Name = FAT_DIR_NAME0_LAST
        BY <2>4, <3>1, <4>1, Zenon DEF ChainInv, DirOK
      <4>3. j <= a
        BY <2>2, <2>4, <4>1, Zenon DEF Unused
      <4>4. b # j
        BY <1>1, <2>3, <2>4, <3>1, <4>1, <4>3
      <4> QED
        BY <2>4, <4>2, <4>4, Zenon
    <3>2. ASSUME NEW a \in DOMAIN e, NEW b \in DOMAIN e, e[a].Name \in Names, e[a].Name = e[b].Name
          PROVE  a = b
      BY <1>2, <2>4, <3>2 DEF ChainInv, DirOK
    <3>3. \A a \in DOMAIN e : e[a].Name \in Names /\ e[a].nFileSize # 0 => e[a].nFirstCluster # 0
      BY <1>2, <2>4 DEF ChainInv, DirOK
    <3> QED
      BY <2>4, <3>1, <3>2, <3>3, Zenon DEF DirOK
  <2>6. ChainInv(t.fat, e, gs)
    BY <2>3, <2>4, <2>5, CreateKeeps DEF new
  <2> QED
    BY <2>1, <2>6, Zenon DEF e
<1>4. CASE Unused(d) = {} /\ FATAllocateCluster(t) # 0
  <2> DEFINE c == FATAllocateCluster(t)
             l == FATGetFileLastCluster(t, nRootCluster)
             tail == [LastEntries EXCEPT ![1] = new]
             u == r.table
             e == r.dir
  <2>1. r.ok /\ u = FATSetClusterEntry(Allocated(t, c), l, c) /\ e = d \o tail
    BY <1>4, Zenon DEF FATDirectoryCreateEntry, new
  <2>2. l \in Walk(t.fat, nRootCluster) /\ t.fat[l] = EOC
    <3>1. Sound(t.fat, Roots(d, fs)) /\ nRootCluster \in Roots(d, fs)
      BY Zenon DEF ChainInv, Roots
    <3> QED
      BY <3>1, LastFound
  <2>3. c \in Clusters /\ t.fat[c] = 0 /\ l \in Clusters /\ l # c
    BY <1>4, <2>2, AllocateFree, WalkFacts, Kinds DEF HintOK
  <2> HIDE DEF l, u, e
  <2>4. /\ HintOK(u) /\ FatType(u.fat) /\ u.fat[c] = EOC /\ u.fat[l] = c
        /\ \A x \in Clusters : x # c /\ x # l => u.fat[x] = t.fat[x]
    BY <1>4, <2>1, <2>3, LinkedFat
  <2>5. ChainInv(u.fat, d, fs)
    BY <2>2, <2>3, <2>4, GrowRootKeeps
  <2>6. /\ tail \in Seq(DirEntry) /\ Len(tail) = ENTRIES /\ tail[1] = new
        /\ \A i \in 2 .. ENTRIES : tail[i].Name = FAT_DIR_NAME0_LAST
    <3>1. ENTRIES \in Nat \ {0}
      BY FilesAssumption, Zenon
    <3>2. Entry(FAT_DIR_NAME0_LAST, 0, 0) \in DirEntry
          /\ Entry(FAT_DIR_NAME0_LAST, 0, 0).Name = FAT_DIR_NAME0_LAST
      BY DEF Entry, DirEntry
    <3>3. /\ tail = [i \in 1 .. ENTRIES |->
                        IF i = 1 THEN new ELSE Entry(FAT_DIR_NAME0_LAST, 0, 0)]
      BY <3>1, Zenon DEF LastEntries
    <3> HIDE DEF tail
    <3>4. tail \in [1 .. ENTRIES -> DirEntry]
      BY <1>2, <3>2, <3>3, Zenon
    <3>5. tail \in Seq(DirEntry) /\ Len(tail) = ENTRIES
      BY <3>1, <3>4, FunctionIsSeq
    <3>6. tail[1] = new
      BY <3>1, <3>3
    <3>7. \A i \in 2 .. ENTRIES : tail[i].Name = FAT_DIR_NAME0_LAST
      BY <3>1, <3>2, <3>3
    <3> QED
      BY <3>5, <3>6, <3>7, Zenon
  <2> HIDE DEF tail
  <2>7. /\ e \in Seq(DirEntry) /\ DOMAIN e = 1 .. (Len(d) + ENTRIES)
        /\ ENTRIES \in Nat \ {0}
        /\ \A i \in DOMAIN d : e[i] = d[i]
        /\ e[Len(d) + 1] = new
        /\ \A i \in (Len(d) + 2) .. (Len(d) + ENTRIES) : e[i].Name = FAT_DIR_NAME0_LAST
    <3>1. ENTRIES \in Nat \ {0}
      BY FilesAssumption
    <3>2. /\ e \in Seq(DirEntry) /\ Len(e) = Len(d) + ENTRIES
          /\ \A i \in 1 .. (Len(d) + ENTRIES) :
               e[i] = IF i <= Len(d) THEN d[i] ELSE tail[i - Len(d)]
      <4>1. /\ d \o tail \in Seq(DirEntry) /\ Len(d \o tail) = Len(d) + Len(tail)
            /\ \A i \in 1 .. (Len(d) + Len(tail)) :
                 (d \o tail)[i] = IF i <= Len(d) THEN d[i] ELSE tail[i - Len(d)]
        <5>1. d \in Seq(DirEntry) /\ tail \in Seq(DirEntry)
          BY <1>1, <2>6, Zenon
        <5> QED
          BY ONLY <5>1, Joined, Zenon
      <4>2. e = d \o tail /\ Len(tail) = ENTRIES
        BY <2>1, <2>6, Zenon
      <4> QED
        BY ONLY <4>1, <4>2, Zenon
    <3>3. DOMAIN e = 1 .. (Len(d) + ENTRIES)
      BY <3>2
    <3>4. \A i \in DOMAIN d : e[i] = d[i]
      BY <1>1, <3>1, <3>2
    <3>5. e[Len(d) + 1] = new
      BY <1>1, <2>6, <3>1, <3>2
    <3>6. ASSUME NEW i \in (Len(d) + 2) .. (Len(d) + ENTRIES)
          PROVE  e[i].Name = FAT_DIR_NAME0_LAST
      <4>1. i \in 1 .. (Len(d) + ENTRIES) /\ ~(i <= Len(d)) /\ i - Len(d) \in 2 .. ENTRIES
        BY <1>1, <3>1
      <4> QED
        BY <2>6, <3>2, <4>1, Zenon
    <3> QED
      BY <3>1, <3>2, <3>3, <3>4, <3>5, <3>6
  <2>8. \A i \in DOMAIN e : i \in DOMAIN d \/ i = Len(d) + 1
                            \/ i \in (Len(d) + 2) .. (Len(d) + ENTRIES)
    BY <1>1, <2>7
  <2>9. \A i \in DOMAIN d : d[i].Name # FAT_DIR_NAME0_LAST
    BY <1>4 DEF Unused
  <2>10. DirOK(e)
    <3>1. ASSUME NEW a \in DOMAIN e, NEW b \in DOMAIN e, a <= b, e[a].Name = FAT_DIR_NAME0_LAST
          PROVE  e[b].Name = FAT_DIR_NAME0_LAST
      <4>1. a \in (Len(d) + 2) .. (Len(d) + ENTRIES)
        BY <1>1, <1>2, <2>7, <2>8, <2>9, <3>1
      <4>2. b \in (Len(d) + 2) .. (Len(d) + ENTRIES)
        BY <1>1, <2>7, <3>1, <4>1
      <4> QED
        BY <2>7, <4>2, Zenon
    <3>2. ASSUME NEW a \in DOMAIN e, NEW b \in DOMAIN e, e[a].Name \in Names, e[a].Name = e[b].Name
          PROVE  a = b
      <4>1. /\ a \in DOMAIN d \/ a = Len(d) + 1
            /\ b \in DOMAIN d \/ b = Len(d) + 1
        BY <2>7, <2>8, <3>2, FilesAssumption
      <4> QED
        BY <1>2, <2>7, <3>2, <4>1 DEF ChainInv, DirOK
    <3>3. ASSUME NEW a \in DOMAIN e, e[a].Name \in Names, e[a].nFileSize # 0
          PROVE  e[a].nFirstCluster # 0
      <4>1. a \in DOMAIN d
        BY <1>2, <2>7, <2>8, <3>3, FilesAssumption
      <4> QED
        BY <2>7, <3>3, <4>1 DEF ChainInv, DirOK
    <3> QED
      BY <2>7, <3>1, <3>2, <3>3, Zenon DEF DirOK
  <2>11. /\ \A i \in DOMAIN d : i \in DOMAIN e /\ e[i] = d[i]
         /\ \A i \in DOMAIN e : e[i].Name \in Names =>
                e[i] = new \/ (i \in DOMAIN d /\ e[i] = d[i])
         /\ \E i \in DOMAIN e : e[i] = new
    <3>1. \A i \in DOMAIN d : i \in DOMAIN e /\ e[i] = d[i]
      BY <1>1, <2>7
    <3>2. \A i \in DOMAIN e : e[i].Name \in Names =>
                e[i] = new \/ (i \in DOMAIN d /\ e[i] = d[i])
      BY <2>7, <2>8, FilesAssumption
    <3>3. Len(d) + 1 \in DOMAIN e
      BY <1>1, <2>7
    <3> QED
      BY <2>7, <3>1, <3>2, <3>3
  <2>12. ChainInv(u.fat, e, gs)
    BY <2>5, <2>10, <2>11, CreateKeeps DEF new
  <2> QED
    BY <2>1, <2>4, <2>12, Zenon DEF u, e
<1>5. CASE Unused(d) = {} /\ FATAllocateCluster(t) = 0
  <2>1. ~r.ok /\ r.table = t /\ r.dir = d
    BY <1>5 DEF FATDirectoryCreateEntry
  <2> QED
    BY <2>1, Zenon
<1> QED
  BY <1>3, <1>4, <1>5, Zenon

-----------------------------------------------------------------------------
\* The types of what the calls compute.
LEMMA MinOfThree ==
    ASSUME NEW a \in Int, NEW b \in Int, NEW c \in Int
    PROVE  Min({a, b, c}) \in Int
<1>1. \E x \in {a, b, c} : \A y \in {a, b, c} : x <= y
  <2>1. CASE a <= b /\ a <= c
    BY <2>1
  <2>2. CASE b <= a /\ b <= c
    BY <2>2
  <2>3. CASE c <= a /\ c <= b
    BY <2>3
  <2> QED
    BY <2>1, <2>2, <2>3
<1> QED
  BY <1>1, Zenon DEF Min

LEMMA Remainder == CLUSTER \in Nat \ {0} /\ 0 % CLUSTER = 0 /\ \A x \in Int : x % CLUSTER \in Int
<1>1. CLUSTER \in Nat \ {0}
  BY FilesAssumption
<1> QED
  BY <1>1

LEMMA ReleaseFile ==
    ASSUME NEW s, NEW f \in File, NEW r, r = ReleaseAtEnd(s, f).f
    PROVE  /\ r \in File
           /\ r.nUseCount = f.nUseCount /\ r.cFileName = f.cFileName /\ r.bWrite = f.bWrite
           /\ r.nFirstCluster = f.nFirstCluster /\ r.nCluster = f.nCluster
<1>1. r = f \/ r = [f EXCEPT !.pBuffer = NULL]
  BY DEF ReleaseAtEnd
<1> QED
  BY <1>1, Zenon DEF File

LEMMA Facts ==
    ASSUME FatInv
    PROVE  /\ HintOK(table) /\ FatType(table.fat) /\ ChainInv(table.fat, dir, m_Files)
           /\ DirOK(dir) /\ dir \in Seq(DirEntry) /\ FilesOK(dir, m_Files)
           /\ m_Files \in [Handles -> File]
  BY Zenon DEF FatInv, HintOK, TableType, ChainInv, DirOK, FilesOK

\* An entry of the directory.
LEMMA EntryFacts ==
    ASSUME FatInv, NEW n \in Names, NEW i \in Listed(dir, n)
    PROVE  /\ i \in DOMAIN dir /\ dir[i].Name = n /\ dir[i] \in DirEntry
           /\ dir[i].nFirstCluster \in {0} \cup Clusters /\ dir[i].nFileSize \in Int
<1>1. i \in DOMAIN dir /\ dir[i].Name = n
  BY Facts, ListedIs
<1>2. dir[i] \in DirEntry
  BY <1>1, Facts
<1> QED
  BY <1>1, <1>2, Zenon DEF DirEntry

LEMMA OpenReadKeeps ==
    ASSUME FatInv, NEW h \in Handles, NEW n \in Names, OpenRead(h, n)
    PROVE  FatInv'
<1>1. PICK i \in Listed(dir, n) :
        m_Files' = [m_Files EXCEPT ![h] =
            [NoFile EXCEPT !.nUseCount = 1, !.cFileName = n, !.nSize = dir[i].nFileSize,
                           !.nFirstCluster = dir[i].nFirstCluster,
                           !.nCluster = dir[i].nFirstCluster, !.pBuffer = dir[i].nFirstCluster]]
  BY Zenon DEF OpenRead
<1>2. table' = table /\ dir' = dir /\ m_Files[h].nUseCount = 0
  BY Zenon DEF OpenRead, OpenHandle, InUse
<1> DEFINE r == [NoFile EXCEPT !.nUseCount = 1, !.cFileName = n, !.nSize = dir[i].nFileSize,
                           !.nFirstCluster = dir[i].nFirstCluster,
                           !.nCluster = dir[i].nFirstCluster, !.pBuffer = dir[i].nFirstCluster]
<1>3. r \in File /\ r.nUseCount = 1 /\ r.cFileName = n /\ r.bWrite = FALSE
  BY EntryFacts, NoFileFacts, Zenon DEF File
<1>4. m_Files' = [m_Files EXCEPT ![h] = r]
  BY <1>1, Zenon
<1> HIDE DEF r
<1>5. /\ m_Files' \in [Handles -> File] /\ m_Files'[h] = r
      /\ \A g \in Handles \ {h} : m_Files'[g] = m_Files[g]
  BY <1>3, <1>4, Facts, UpdateFile, Zenon
<1>6. \E j \in DOMAIN dir : dir[j].Name = n
  BY EntryFacts, Zenon
<1>7. ChainInv(table.fat, dir, m_Files')
  BY <1>2, <1>3, <1>5, <1>6, Facts, ReaderKeeps
<1> QED
  BY <1>2, <1>7, Facts DEF FatInv

LEMMA OpenAppendKeeps ==
    ASSUME FatInv, NEW h \in Handles, NEW n \in Names, OpenAppend(h, n)
    PROVE  FatInv'
<1>1. PICK i \in Listed(dir, n) :
        /\ Appendable(n, dir[i])
        /\ m_Files' = [m_Files EXCEPT ![h] =
            [nUseCount |-> 1, cFileName |-> n, nSize |-> dir[i].nFileSize,
             nOffset |-> dir[i].nFileSize,
             nCluster |-> FATGetFileLastCluster(table, dir[i].nFirstCluster),
             nFirstCluster |-> dir[i].nFirstCluster,
             pBuffer |-> FATGetFileLastCluster(table, dir[i].nFirstCluster), bWrite |-> TRUE]]
  BY Zenon DEF OpenAppend
<1>2. table' = table /\ dir' = dir /\ m_Files[h].nUseCount = 0
  BY Zenon DEF OpenAppend, OpenHandle, InUse
<1> DEFINE first == dir[i].nFirstCluster
           size == dir[i].nFileSize
           l == FATGetFileLastCluster(table, first)
           r == [nUseCount |-> 1, cFileName |-> n, nSize |-> size, nOffset |-> size,
                 nCluster |-> l, nFirstCluster |-> first, pBuffer |-> l, bWrite |-> TRUE]
<1>3. i \in DOMAIN dir /\ dir[i].Name = n /\ first \in {0} \cup Clusters /\ size \in Int
  BY EntryFacts, Zenon
<1>4. \A g \in Handles : ~Writes(m_Files, g, n)
  BY <1>1, Zenon DEF Appendable, Writers, Users, InUse, Writes, Opens
<1>5. first # 0 /\ first \in Clusters
  BY <1>1, <1>3, Zenon DEF Appendable
<1>6. first \in Roots(dir, m_Files)
  BY <1>3, <1>4, <1>5, Zenon DEF Roots, Starts
<1>7. l \in Walk(table.fat, first) /\ table.fat[l] = EOC
  <2>1. Sound(table.fat, Roots(dir, m_Files))
    BY Facts, Zenon DEF ChainInv
  <2> QED
    BY <1>6, <2>1, LastFound, Zenon
<1>8. l \in Clusters
  BY <1>7, WalkFacts, Zenon
<1> HIDE DEF l, first, size
<1>9. r \in File /\ r.nUseCount = 1 /\ r.cFileName = n /\ r.bWrite = TRUE
      /\ r.nFirstCluster = first /\ r.nCluster = l
  BY <1>3, <1>5, <1>8, Zenon DEF File
<1>10. m_Files' = [m_Files EXCEPT ![h] = r]
  BY <1>1, Zenon DEF l, first, size
<1> HIDE DEF r
<1>11. /\ m_Files' \in [Handles -> File] /\ m_Files'[h] = r
       /\ \A g \in Handles \ {h} : m_Files'[g] = m_Files[g]
  BY <1>9, <1>10, Facts, UpdateFile, Zenon
<1>12. ChainInv(table.fat, dir, m_Files')
  BY <1>2, <1>3, <1>4, <1>5, <1>7, <1>9, <1>11, Facts, AppendKeeps DEF first
<1> QED
  BY <1>2, <1>12, Facts, Zenon DEF FatInv

LEMMA FileReadKeeps ==
    ASSUME FatInv, NEW h \in Handles, NEW b \in 1 .. CLUSTER, FileRead(h, b)
    PROVE  FatInv'
<1> DEFINE f == m_Files[h]
           c == ReadCluster(f)
           k == Min({f.nSize - f.nOffset, b, CLUSTER - (f.nOffset % CLUSTER)})
           s == IF f.pBuffer = NULL THEN FATCacheGetCluster(CacheState, c, FALSE) ELSE CacheState
           g == [f EXCEPT !.nCluster = c, !.pBuffer = c, !.nOffset = @ + k]
           r == ReleaseAtEnd(s, g).f
<1>1. /\ table' = table /\ dir' = dir /\ m_Files' = [m_Files EXCEPT ![h] = r]
      /\ f.nUseCount # 0 /\ ~f.bWrite /\ f.nCluster # EOC /\ c # EOC
  BY Zenon DEF FileRead, InUse
<1>2. f \in File
  BY Facts, Zenon
<1>3. c \in {0} \cup Clusters
  <2>1. f.nCluster \in {0} \cup Clusters
    BY <1>1, <1>2, Zenon DEF File
  <2>2. c \in {f.nCluster, table.fat[f.nCluster]}
    BY Zenon DEF ReadCluster, FATGetClusterEntry
  <2>3. table.fat[f.nCluster] \in {0, EOC} \cup Clusters
    BY <2>1, Facts, Zenon DEF FatType, Entries
  <2> QED
    BY <1>1, <2>1, <2>2, <2>3, Zenon
<1>4. k \in Int
  <2>1. f.nSize \in Int /\ f.nOffset \in Int
    BY <1>2, Zenon DEF File
  <2>2. f.nSize - f.nOffset \in Int /\ b \in Int /\ CLUSTER - (f.nOffset % CLUSTER) \in Int
    BY <2>1, Remainder
  <2> HIDE DEF f
  <2> QED
    BY <2>2, MinOfThree, Zenon
<1> HIDE DEF c, k, f, s
<1>5. g \in File /\ g.nUseCount = f.nUseCount /\ g.cFileName = f.cFileName /\ g.bWrite = f.bWrite
  <2>1. f.nOffset + k \in Int /\ c \in {NULL, 0} \cup Clusters
    BY <1>2, <1>3, <1>4 DEF File
  <2>2. g = [f EXCEPT !.nCluster = c, !.pBuffer = c, !.nOffset = f.nOffset + k]
    BY <1>2, Zenon DEF File
  <2> HIDE DEF g
  <2> QED
    BY ONLY <1>2, <1>3, <2>1, <2>2, Zenon DEF File
<1> HIDE DEF g
<1>6. r \in File /\ r.nUseCount = f.nUseCount /\ r.cFileName = f.cFileName /\ r.bWrite = f.bWrite
  BY <1>5, ReleaseFile
<1> HIDE DEF r
<1>7. /\ m_Files' \in [Handles -> File] /\ m_Files'[h] = r
      /\ \A x \in Handles \ {h} : m_Files'[x] = m_Files[x]
  BY <1>1, <1>6, Facts, UpdateFile, Zenon
<1>8. f.cFileName \in Names /\ \E i \in DOMAIN dir : dir[i].Name = f.cFileName
  BY <1>1, Facts, Zenon DEF FilesOK, f
<1>9. ChainInv(table.fat, dir, m_Files')
  <2>1. ~m_Files[h].bWrite /\ ~m_Files'[h].bWrite
    BY <1>1, <1>6, <1>7, Zenon DEF f
  <2>2. m_Files'[h].cFileName = f.cFileName
    BY <1>6, <1>7
  <2> QED
    BY <1>7, <1>8, <2>1, <2>2, Facts, ReaderKeeps, Zenon
<1> QED
  BY <1>1, <1>9, Facts, Zenon DEF FatInv

LEMMA FileReadFailsKeeps ==
    ASSUME FatInv, NEW h \in Handles, FileReadFails(h)
    PROVE  FatInv'
<1> DEFINE f == m_Files[h]
           q == [f EXCEPT !.nCluster = EOC]
<1>1. table' = table /\ dir' = dir /\ m_Files' = [m_Files EXCEPT ![h] = q]
      /\ f.nUseCount # 0 /\ ~f.bWrite
  BY Zenon DEF FileReadFails, InUse
<1>2. f \in File
  BY Facts, Zenon
<1>3. q \in File /\ q.cFileName = f.cFileName /\ q.bWrite = f.bWrite
  BY <1>2, Zenon DEF File
<1> HIDE DEF q
<1>4. /\ m_Files' \in [Handles -> File] /\ m_Files'[h] = q
      /\ \A g \in Handles \ {h} : m_Files'[g] = m_Files[g]
  BY <1>1, <1>3, Facts, UpdateFile, Zenon
<1>5. f.cFileName \in Names /\ \E i \in DOMAIN dir : dir[i].Name = f.cFileName
  BY <1>1, Facts, Zenon DEF FilesOK
<1>6. ChainInv(table.fat, dir, m_Files')
  <2>1. ~m_Files[h].bWrite /\ ~m_Files'[h].bWrite
    BY <1>1, <1>3, <1>4
  <2> QED
    BY <1>3, <1>4, <1>5, <2>1, Facts, ReaderKeeps, Zenon
<1> QED
  BY <1>1, <1>6, Facts, Zenon DEF FatInv

LEMMA FileSeekKeeps ==
    ASSUME FatInv, NEW h \in Handles, NEW o \in 0 .. FAT_MAX_FILESIZE, FileSeek(h, o)
    PROVE  FatInv'
<1> DEFINE f == m_Files[h]
           c == FATGetFileCluster(table, f.nFirstCluster, o \div CLUSTER)
           r == m_Files'[h]
<1>1. /\ table' = table /\ dir' = dir /\ f.nUseCount # 0 /\ ~f.bWrite
      /\ \/ m_Files' = [m_Files EXCEPT ![h].nOffset = o]
         \/ m_Files' = [m_Files EXCEPT ![h] = [f EXCEPT !.nOffset = o, !.nCluster = c, !.pBuffer = c]]
  BY Zenon DEF FileSeek, InUse, SeeksElsewhere
<1>2. f \in File /\ m_Files \in [Handles -> File]
  BY Facts, Zenon
<1>3. c \in {0} \cup Clusters /\ o \in Int
  <2>1. f.nFirstCluster \in {0} \cup Clusters
    BY <1>2, Zenon DEF File
  <2>2. o \in Int
    BY FilesAssumption
  <2> QED
    BY <2>1, <2>2, Zenon DEF FATGetFileCluster
<1> HIDE DEF c
<1>4. /\ m_Files' \in [Handles -> File]
      /\ \A x \in Handles \ {h} : m_Files'[x] = m_Files[x]
      /\ r.cFileName = f.cFileName /\ r.bWrite = f.bWrite
  <2>1. CASE m_Files' = [m_Files EXCEPT ![h].nOffset = o]
    <3> DEFINE q == [f EXCEPT !.nOffset = o]
    <3>1. q \in File /\ q.cFileName = f.cFileName /\ q.bWrite = f.bWrite
      BY <1>2, <1>3, Zenon DEF File
    <3>2. m_Files' = [m_Files EXCEPT ![h] = q]
      BY <2>1, Zenon
    <3> HIDE DEF q, f
    <3> QED
      BY <1>2, <3>1, <3>2, Zenon
  <2>2. CASE m_Files' = [m_Files EXCEPT ![h] = [f EXCEPT !.nOffset = o, !.nCluster = c, !.pBuffer = c]]
    <3> DEFINE q == [f EXCEPT !.nOffset = o, !.nCluster = c, !.pBuffer = c]
    <3>1. q \in File /\ q.cFileName = f.cFileName /\ q.bWrite = f.bWrite
      BY <1>2, <1>3, Zenon DEF File
    <3>2. m_Files' = [m_Files EXCEPT ![h] = q]
      BY <2>2, Zenon
    <3> HIDE DEF q, f
    <3> QED
      BY <1>2, <3>1, <3>2
  <2> QED
    BY <1>1, <2>1, <2>2, Zenon
<1>5. f.cFileName \in Names /\ \E i \in DOMAIN dir : dir[i].Name = f.cFileName
  BY <1>1, Facts, Zenon DEF FilesOK
<1>6. ChainInv(table.fat, dir, m_Files')
  <2>1. ~m_Files[h].bWrite /\ ~m_Files'[h].bWrite
    BY <1>1, <1>4
  <2> QED
    BY <1>4, <1>5, <2>1, Facts, ReaderKeeps, Zenon
<1> QED
  BY <1>1, <1>6, Facts, Zenon DEF FatInv

\* A writer that needs no cluster is at one of its file's.
LEMMA WritesOn ==
    ASSUME FatInv, NEW h \in Handles, m_Files[h].nUseCount # 0, m_Files[h].bWrite,
           ~(m_Files[h].pBuffer = NULL /\ m_Files[h].nOffset % CLUSTER = 0)
    PROVE  m_Files[h].nFirstCluster # 0 /\ m_Files[h].nCluster \in Clusters
<1> DEFINE n == m_Files[h].cFileName
<1>1. n \in Names /\ Writes(m_Files, h, n)
  BY Facts, Zenon DEF FilesOK, Writes, Opens
<1>2. m_Files[h].nFirstCluster # 0
  BY <1>1, Facts, Remainder, Zenon DEF FilesOK
<1>3. m_Files[h].nCluster \in Walk(table.fat, m_Files[h].nFirstCluster)
  BY <1>1, <1>2, Facts, Zenon DEF ChainInv, TailsOK
<1> QED
  BY <1>2, <1>3, WalkFacts, Zenon

LEMMA FileWriteKeeps ==
    ASSUME FatInv, NEW h \in Handles, NEW b \in 1 .. CLUSTER, FileWrite(h, b)
    PROVE  FatInv'
<1> DEFINE f == m_Files[h]
           n == f.cFileName
           needs == f.pBuffer = NULL /\ f.nOffset % CLUSTER = 0
           c == IF needs THEN FATAllocateCluster(table) ELSE f.nCluster
           k == Min({FAT_MAX_FILESIZE - f.nSize, b, CLUSTER - (f.nOffset % CLUSTER)})
           s == IF f.pBuffer = NULL THEN FATCacheGetCluster(CacheState, c, TRUE) ELSE CacheState
           g == [f EXCEPT !.nFirstCluster = IF @ = 0 THEN c ELSE @, !.nCluster = c,
                          !.pBuffer = c, !.nOffset = @ + k, !.nSize = @ + k]
           r == ReleaseAtEnd(CopyIn(s, c, f.cFileName, f.nOffset, k), g).f
<1>1. /\ table' = IF needs THEN Extended(table, f, c) ELSE table
      /\ dir' = dir /\ m_Files' = [m_Files EXCEPT ![h] = r]
      /\ f.nUseCount # 0 /\ f.bWrite /\ c # 0
  BY Zenon DEF FileWrite, InUse
<1>2. f \in File /\ n \in Names /\ Writes(m_Files, h, n)
  BY <1>1, Facts, Zenon DEF FilesOK, Writes, Opens
<1>3. c \in Clusters
  <2>1. CASE needs
    BY <1>1, <2>1, Facts, AllocateFree, Zenon DEF HintOK
  <2>2. CASE ~needs
    BY <1>1, <2>2, WritesOn, Zenon
  <2> QED
    BY <2>1, <2>2, Zenon
<1>4. k \in Int
  <2>1. f.nSize \in Int /\ f.nOffset \in Int
    BY <1>2, Zenon DEF File
  <2>2. /\ FAT_MAX_FILESIZE - f.nSize \in Int /\ b \in Int
        /\ CLUSTER - (f.nOffset % CLUSTER) \in Int
    BY <2>1, Remainder, FilesAssumption
  <2> HIDE DEF f
  <2> QED
    BY <2>2, MinOfThree, Zenon
<1>5. needs \/ f.nFirstCluster # 0
  BY <1>2, Facts, Remainder, Zenon DEF FilesOK
<1>6. needs => c = FATAllocateCluster(table)
  BY Zenon
<1>7. ~needs => c = f.nCluster
  BY Zenon
<1> HIDE DEF c, k, s, f
<1>8. /\ g \in File /\ g.nUseCount = f.nUseCount /\ g.cFileName = n /\ g.bWrite = f.bWrite
      /\ g.nCluster = c /\ g.nFirstCluster = IF f.nFirstCluster = 0 THEN c ELSE f.nFirstCluster
  <2> DEFINE first == IF f.nFirstCluster = 0 THEN c ELSE f.nFirstCluster
  <2>1. /\ f.nOffset + k \in Int /\ f.nSize + k \in Int
        /\ c \in {NULL, 0} \cup Clusters /\ c \in {0} \cup Clusters /\ first \in {0} \cup Clusters
    BY <1>2, <1>3, <1>4 DEF File
  <2>2. g = [f EXCEPT !.nFirstCluster = first, !.nCluster = c, !.pBuffer = c,
                      !.nOffset = f.nOffset + k, !.nSize = f.nSize + k]
    BY <1>2, Zenon DEF File
  <2> HIDE DEF g, first
  <2>3. /\ g \in File /\ g.nUseCount = f.nUseCount /\ g.cFileName = n /\ g.bWrite = f.bWrite
        /\ g.nCluster = c /\ g.nFirstCluster = first
    BY ONLY <1>2, <2>1, <2>2, Zenon DEF File
  <2> QED
    BY <2>3, Zenon DEF first
<1> HIDE DEF g
<1>9. /\ r \in File /\ r.nUseCount = f.nUseCount /\ r.cFileName = n /\ r.bWrite = f.bWrite
      /\ r.nCluster = c /\ r.nFirstCluster = IF f.nFirstCluster = 0 THEN c ELSE f.nFirstCluster
  <2>1. /\ r \in File
        /\ r.nUseCount = g.nUseCount /\ r.cFileName = g.cFileName /\ r.bWrite = g.bWrite
        /\ r.nFirstCluster = g.nFirstCluster /\ r.nCluster = g.nCluster
    BY <1>8, ReleaseFile
  <2> HIDE DEF r
  <2> QED
    BY <1>8, <2>1, Zenon
<1> HIDE DEF r
<1>10. /\ m_Files' \in [Handles -> File] /\ m_Files'[h] = r
       /\ \A x \in Handles \ {h} : m_Files'[x] = m_Files[x]
  BY <1>1, <1>9, Facts, UpdateFile, Zenon
<1>11. f = m_Files[h] /\ r.bWrite
  BY <1>1, <1>9, Zenon DEF f
<1>12. CASE ~needs
  <2>1. c = m_Files[h].nCluster /\ m_Files[h].nFirstCluster # 0
    BY <1>5, <1>7, <1>11, <1>12, Zenon
  <2>2. ChainInv(table.fat, dir, m_Files')
    BY <1>2, <1>9, <1>10, <1>11, <2>1, Facts, WriteStays
  <2> QED
    BY <1>1, <1>12, <2>2, Facts, Zenon DEF FatInv
<1>13. CASE needs /\ f.nFirstCluster = 0
  <2> DEFINE u == Allocated(table, c)
  <2>1. table' = u
    BY <1>1, <1>13, Zenon DEF Extended
  <2>2. /\ HintOK(u) /\ table.fat[c] = 0 /\ FatType(u.fat) /\ u.fat[c] = EOC
        /\ \A x \in Clusters : x # c => u.fat[x] = table.fat[x]
    BY <1>1, <1>6, <1>13, Facts, AllocatedFat, Zenon
  <2> HIDE DEF u
  <2>3. ChainInv(u.fat, dir, m_Files')
    BY <1>2, <1>3, <1>9, <1>10, <1>11, <1>13, <2>2, Facts, WriteBegins
  <2> QED
    BY <1>1, <2>1, <2>2, <2>3, Zenon DEF FatInv
<1>14. CASE needs /\ f.nFirstCluster # 0
  <2> DEFINE l == f.nCluster
             u == FATSetClusterEntry(Allocated(table, c), l, c)
  <2>1. table' = u
    BY <1>1, <1>14, Zenon DEF Extended
  <2>2. table.fat[l] = EOC /\ l \in Walk(table.fat, f.nFirstCluster)
    BY <1>2, <1>11, <1>14, Facts, Zenon DEF ChainInv, TailsOK
  <2>3. l \in Clusters /\ table.fat[c] = 0 /\ l # c
    BY <1>1, <1>6, <1>14, <2>2, Facts, AllocateFree, WalkFacts, Kinds DEF HintOK
  <2> HIDE DEF l
  <2>4. u = FATSetClusterEntry(Allocated(table, c), l, c) /\ c = FATAllocateCluster(table)
    BY <1>6, <1>14, Zenon
  <2> HIDE DEF u
  <2>5. /\ HintOK(u) /\ FatType(u.fat) /\ u.fat[c] = EOC /\ u.fat[l] = c
        /\ \A x \in Clusters : x # c /\ x # l => u.fat[x] = table.fat[x]
    BY <1>1, <2>3, <2>4, Facts, LinkedFat
  <2>6. l = m_Files[h].nCluster
    BY <1>11, Zenon DEF l
  <2>7. ChainInv(u.fat, dir, m_Files')
    BY <1>2, <1>3, <1>9, <1>10, <1>11, <1>14, <2>3, <2>5, <2>6, Facts, WriteGrows
  <2> QED
    BY <1>1, <2>1, <2>5, <2>7, Zenon DEF FatInv
<1> QED
  BY <1>12, <1>13, <1>14

LEMMA FileCreateKeeps ==
    ASSUME FatInv, NEW h \in Handles, NEW n \in Names, FileCreate(h, n)
    PROVE  FatInv'
<1> DEFINE t == Deleted(n).table
           d == Deleted(n).dir
           made == FATDirectoryCreateEntry(t, d, n)
           new == [NoFile EXCEPT !.nUseCount = 1, !.cFileName = n, !.bWrite = TRUE]
           gs == [m_Files EXCEPT ![h] = new]
<1>1. /\ NotOpen(n) /\ m_Files[h].nUseCount = 0
      /\ table' = made.table /\ dir' = made.dir
      /\ (made.ok /\ m_Files' = gs) \/ (~made.ok /\ m_Files' = m_Files)
  BY Zenon DEF FileCreate, InUse, Synchronize
<1>2. HintOK(t) /\ ChainInv(t.fat, d, m_Files) /\ \A j \in DOMAIN d : d[j].Name # n
  BY <1>1, DeletedKeeps, Zenon
<1>3. /\ new \in File /\ new.nUseCount # 0 /\ new.cFileName = n /\ new.bWrite
      /\ new.nFirstCluster = 0 /\ new.nSize = 0 /\ new.nOffset = 0 /\ new.pBuffer = NULL
  <2> DEFINE z == NoFile
  <2>1. /\ z \in File /\ z.nFirstCluster = 0 /\ z.nSize = 0 /\ z.nOffset = 0
        /\ z.pBuffer = NULL
    BY NoFileFacts, Zenon DEF NoFile
  <2>2. new = [z EXCEPT !.nUseCount = 1, !.cFileName = n, !.bWrite = TRUE]
    BY Zenon
  <2> HIDE DEF new, z
  <2>3. new \in File
    BY ONLY <2>1, <2>2, n \in Names, Zenon DEF File
  <2>4. /\ new.nUseCount = 1 /\ new.cFileName = n /\ new.bWrite = TRUE
        /\ new.nFirstCluster = z.nFirstCluster /\ new.nSize = z.nSize
        /\ new.nOffset = z.nOffset /\ new.pBuffer = z.pBuffer
    BY ONLY <2>1, <2>2, Zenon DEF File
  <2> QED
    BY <2>1, <2>3, <2>4
<1> HIDE DEF t, d, new
<1>4. /\ gs \in [Handles -> File] /\ gs[h] = new
      /\ \A g \in Handles \ {h} : gs[g] = m_Files[g]
  BY <1>3, Facts, UpdateFile, Zenon
<1> HIDE DEF gs
<1>5. /\ HintOK(made.table)
      /\ made.ok => ChainInv(made.table.fat, made.dir, gs)
      /\ ~made.ok => ChainInv(made.table.fat, made.dir, m_Files)
  BY <1>1, <1>2, <1>3, <1>4, CreatedKeeps
<1> HIDE DEF made
<1> QED
  BY <1>1, <1>5, Zenon DEF FatInv

LEMMA FileDeleteKeeps ==
    ASSUME FatInv, NEW n \in Names, FileDelete(n)
    PROVE  FatInv'
<1> DEFINE t == Deleted(n).table
           d == Deleted(n).dir
<1>1. NotOpen(n) /\ table' = t /\ dir' = d /\ m_Files' = m_Files
  BY Zenon DEF FileDelete
<1>2. HintOK(t) /\ ChainInv(t.fat, d, m_Files)
  BY <1>1, DeletedKeeps
<1> HIDE DEF t, d
<1> QED
  BY <1>1, <1>2, Zenon DEF FatInv

LEMMA FileCloseKeeps ==
    ASSUME FatInv, NEW h \in Handles, FileClose(h)
    PROVE  FatInv'
<1> DEFINE f == m_Files[h]
           n == f.cFileName
           updated == [i \in DOMAIN dir |->
                        IF i \in Listed(dir, n)
                        THEN Entry(n, f.nFirstCluster, f.nSize) ELSE dir[i]]
<1>1. /\ table' = table /\ m_Files' = [m_Files EXCEPT ![h] = NoFile]
      /\ dir' = IF f.bWrite THEN updated ELSE dir
      /\ f.nUseCount # 0
  BY Zenon DEF FileClose, Synchronize, InUse
<1>2. f \in File /\ n \in Names /\ \E i \in DOMAIN dir : dir[i].Name = n
  BY <1>1, Facts, Zenon DEF FilesOK
<1>3. /\ m_Files' \in [Handles -> File] /\ m_Files'[h] = NoFile
      /\ \A x \in Handles \ {h} : m_Files'[x] = m_Files[x]
  BY <1>1, Facts, NoFileFacts, UpdateFile, Zenon
<1>4. m_Files'[h].nUseCount = 0
  BY <1>3, NoFileFacts, Zenon
<1>5. CASE ~f.bWrite
  <2>1. ChainInv(table.fat, dir, m_Files')
    BY <1>3, <1>4, <1>5, Facts, ReaderKeeps, Zenon
  <2> QED
    BY <1>1, <1>5, <2>1, Facts, Zenon DEF FatInv
<1>6. CASE f.bWrite
  <2> DEFINE e == updated
  <2>1. Writes(m_Files, h, n)
    BY <1>1, <1>6, Zenon DEF Writes, Opens
  <2>2. Listed(dir, n) = {i \in DOMAIN dir : dir[i].Name = n}
    BY <1>2, Facts, ListedIs
  <2> DEFINE new == Entry(n, f.nFirstCluster, f.nSize)
  <2>3. /\ new \in DirEntry /\ new.Name = n /\ new.nFirstCluster = f.nFirstCluster
        /\ new.nFileSize = f.nSize
    BY <1>2, Zenon DEF Entry, DirEntry, File
  <2>4. f.nSize # 0 => f.nFirstCluster # 0
    BY <1>2, <2>1, Facts, Zenon DEF FilesOK
  <2>5. DOMAIN e = DOMAIN dir /\ \A i \in DOMAIN dir : e[i] = IF dir[i].Name = n THEN new ELSE dir[i]
    BY <2>2, Zenon
  <2>6. e \in Seq(DirEntry)
    <3>1. DOMAIN dir = 1 .. Len(dir) /\ Len(dir) \in Nat /\ \A i \in DOMAIN dir : dir[i] \in DirEntry
      BY Facts
    <3>2. e \in [1 .. Len(dir) -> DirEntry]
      <4>1. \A i \in 1 .. Len(dir) : e[i] \in DirEntry
        BY <2>3, <2>5, <3>1, Zenon
      <4>2. e = [i \in 1 .. Len(dir) |-> e[i]]
        BY <3>1, Zenon
      <4> HIDE DEF e
      <4> QED
        BY <4>1, <4>2, Zenon
    <3> HIDE DEF e
    <3> QED
      BY <3>1, <3>2, FunctionIsSeq, Zenon
  <2> HIDE DEF e, new
  <2>7. DirOK(e)
    <3>1. \A i \in DOMAIN dir : e[i].Name = dir[i].Name
      BY <2>3, <2>5, Zenon
    <3>2. \A i \in DOMAIN dir : e[i].Name \in Names /\ e[i].nFileSize # 0 => e[i].nFirstCluster # 0
      BY <2>3, <2>4, <2>5, Facts, Zenon DEF DirOK
    <3> QED
      BY <2>5, <2>6, <3>1, <3>2, Facts, Zenon DEF DirOK
  <2>8. /\ \A i \in DOMAIN dir : e[i].Name = dir[i].Name
        /\ \A i \in DOMAIN dir : e[i].nFirstCluster =
             IF dir[i].Name = n THEN m_Files[h].nFirstCluster ELSE dir[i].nFirstCluster
    BY <2>3, <2>5, Zenon
  <2>9. ChainInv(table.fat, e, m_Files')
    BY <1>2, <1>3, <1>4, <2>1, <2>5, <2>7, <2>8, Facts, CloseKeeps
  <2>10. dir' = e
    BY <1>1, <1>6 DEF e
  <2> QED
    BY <1>1, <2>9, <2>10, Facts, Zenon DEF FatInv
<1> QED
  BY <1>5, <1>6, Zenon

LEMMA InitKeeps == Init => FatInv
<1> SUFFICES ASSUME Init PROVE FatInv
  BY Zenon
<1>1. HintOK(table)
  <2>1. /\ table.fat = [c \in Entries |-> IF c \in {0, 1, nRootCluster} THEN EOC ELSE 0]
        /\ table.m_nNextFreeCluster = 3
        /\ table = [fat |-> table.fat, m_nFreeCount |-> table.m_nFreeCount,
                    m_nNextFreeCluster |-> table.m_nNextFreeCluster]
    BY Zenon DEF Init, FormatFat32Disk
  <2>2. TableType(table)
    BY <2>1, ClustersAreNumbers, Zenon DEF TableType, FatType, EOC
  <2>3. NoneBelowHint(table)
    BY <2>1, TableAssumption DEF NoneBelowHint, Clusters, Entries, EOC
  <2> QED
    BY <2>2, <2>3, Zenon DEF HintOK
<1>2. /\ dir \in [1 .. ENTRIES -> DirEntry]
      /\ dir[1].Name = VOLUME_ID
      /\ \A i \in 1 .. ENTRIES : i # 1 => dir[i].Name = FAT_DIR_NAME0_LAST
  <2> DEFINE v == Entry(VOLUME_ID, 0, 0)
             l == Entry(FAT_DIR_NAME0_LAST, 0, 0)
  <2>1. v \in DirEntry /\ v.Name = VOLUME_ID /\ l \in DirEntry /\ l.Name = FAT_DIR_NAME0_LAST
    BY DEF Entry, DirEntry
  <2>2. dir = [[i \in 1 .. ENTRIES |-> l] EXCEPT ![1] = v] /\ 1 \in 1 .. ENTRIES
    BY FilesAssumption DEF Init, LastEntries
  <2> HIDE DEF v, l
  <2> QED
    BY <2>1, <2>2, Zenon
<1>3. dir \in Seq(DirEntry) /\ DOMAIN dir = 1 .. ENTRIES
  BY <1>2, FilesAssumption, FunctionIsSeq, Zenon
<1>4. \A i \in DOMAIN dir : dir[i].Name \notin Names
  BY <1>2, <1>3, FilesAssumption, Zenon
<1>5. DirOK(dir)
  BY <1>2, <1>3, <1>4, FilesAssumption DEF DirOK, VOLUME_ID, FAT_DIR_NAME0_LAST
<1>6. m_Files \in [Handles -> File] /\ \A h \in Handles : m_Files[h].nUseCount = 0
  BY NoFileFacts, Zenon DEF Init
<1>7. /\ \A n \in Names : \A h \in Handles : ~Writes(m_Files, h, n)
      /\ \A n \in Names : \A c : ~Starts(dir, m_Files, n, c)
  BY <1>4, <1>6, Zenon DEF Writes, Opens, Starts
<1>8. FilesOK(dir, m_Files) /\ HeadsOK(dir, m_Files) /\ TailsOK(table.fat, m_Files)
  BY <1>6, <1>7, Zenon DEF FilesOK, HeadsOK, TailsOK
<1>9. Roots(dir, m_Files) = {nRootCluster}
  BY <1>7, Zenon DEF Roots
<1>10. Sound(table.fat, {nRootCluster})
  BY FormatSound DEF Init
<1> QED
  BY <1>1, <1>5, <1>8, <1>9, <1>10, Zenon DEF FatInv, ChainInv

\* Every call keeps the invariant.
LEMMA StepKeeps == FatInv /\ [Next]_vars => FatInv'
<1> SUFFICES ASSUME FatInv, [Next]_vars PROVE FatInv'
  BY Zenon
<1>1. ASSUME NEW h \in Handles, NEW n \in Names, OpenRead(h, n) PROVE FatInv'
  BY <1>1, OpenReadKeeps, Zenon
<1>2. ASSUME NEW h \in Handles, NEW n \in Names, OpenAppend(h, n) PROVE FatInv'
  BY <1>2, OpenAppendKeeps, Zenon
<1>3. ASSUME NEW h \in Handles, NEW n \in Names, FileCreate(h, n) PROVE FatInv'
  BY <1>3, FileCreateKeeps
<1>4. ASSUME NEW h \in Handles, NEW k \in 1 .. CLUSTER, FileRead(h, k) PROVE FatInv'
  BY <1>4, FileReadKeeps, Zenon
<1>5. ASSUME NEW h \in Handles, NEW k \in 1 .. CLUSTER, FileWrite(h, k) PROVE FatInv'
  BY <1>5, FileWriteKeeps, Zenon
<1>6. ASSUME NEW h \in Handles, NEW o \in 0 .. FAT_MAX_FILESIZE, FileSeek(h, o) PROVE FatInv'
  BY <1>6, FileSeekKeeps, Zenon
<1>7. ASSUME NEW h \in Handles, FileClose(h) PROVE FatInv'
  BY <1>7, FileCloseKeeps, Zenon
<1>8. ASSUME NEW n \in Names, FileDelete(n) PROVE FatInv'
  BY <1>8, FileDeleteKeeps, Zenon
<1>9. ASSUME NEW h \in Handles, FileReadFails(h) PROVE FatInv'
  BY <1>9, FileReadFailsKeeps, Zenon
<1>10. CASE UNCHANGED vars
  BY <1>10 DEF FatInv, vars
<1> QED
  BY <1>1, <1>2, <1>3, <1>4, <1>5, <1>6, <1>7, <1>8, <1>9, <1>10, Zenon DEF Next

\* FATAllocateCluster never wraps around, and still finds a cluster whenever
\* one is free: no cluster below the hint ever is.
THEOREM FindsFreeCluster == Spec => []FullOnlyWhenFull
<1>1. FatInv => FullOnlyWhenFull
  <2> SUFFICES ASSUME HintOK(table), NEW c \in Clusters, table.fat[c] = 0,
                      FATAllocateCluster(table) = 0
               PROVE  FALSE
    BY Zenon DEF FullOnlyWhenFull, FatInv
  <2>1. c >= table.m_nNextFreeCluster
    BY ClustersAreNumbers DEF HintOK, NoneBelowHint, TableType
  <2>2. c \in FreeFromHint(table)
    BY <2>1 DEF FreeFromHint
  <2> QED
    BY <2>2, AllocateFails, Zenon DEF HintOK
<1> QED
  BY <1>1, InitKeeps, StepKeeps, PTL DEF Spec

\* What ChainsApart calls the first cluster of a file is where it starts.
LEMMA ExtentStarts ==
    ASSUME FatInv, NEW n \in Existing
    PROVE  /\ Extent(n)[1] \in {0} \cup Clusters
           /\ \A c : Starts(dir, m_Files, n, c) <=> c = Extent(n)[1]
<1>1. n \in Names /\ Listed(dir, n) # {} /\ DirOK(dir) /\ FilesOK(dir, m_Files)
  BY Facts, Zenon DEF Existing
<1>2. Writers(n) = {h \in Handles : Writes(m_Files, h, n)}
  BY Zenon DEF Writers, Users, InUse, Writes, Opens
<1>3. CASE Writers(n) # {}
  <2>1. PICK h \in Handles : Writes(m_Files, h, n)
    BY <1>2, <1>3, Zenon
  <2>2. Writers(n) = {h} /\ Writers(n) \subseteq Nat
    BY <1>1, <1>2, <2>1 DEF FilesOK, Handles
  <2>3. Min(Writers(n)) = h
    BY <2>2, <1>3, Lowest, Zenon
  <2>4. Extent(n)[1] = m_Files[h].nFirstCluster
    BY <1>3, <2>3, Zenon DEF Extent
  <2>5. m_Files[h] \in File
    BY <1>1, Zenon DEF FilesOK
  <2>6. \A g \in Handles : Writes(m_Files, g, n) => g = h
    BY <1>1, <2>1, Zenon DEF FilesOK
  <2> QED
    BY <2>1, <2>4, <2>5, <2>6, Zenon DEF File, Starts
<1>4. CASE Writers(n) = {}
  <2>1. PICK i \in Listed(dir, n) : Listed(dir, n) = {i} /\ Min(Listed(dir, n)) = i
    BY <1>1, ListedIs
  <2>2. Listed(dir, n) = {j \in DOMAIN dir : dir[j].Name = n}
    BY <1>1, ListedIs
  <2>3. Extent(n)[1] = dir[i].nFirstCluster
    BY <1>4, <2>1, Zenon DEF Extent
  <2>4. dir[i] \in DirEntry
    BY <1>1, <2>1, <2>2 DEF DirOK
  <2>5. \A j \in DOMAIN dir : dir[j].Name = n <=> j = i
    BY <2>1, <2>2, Zenon
  <2>6. \A h \in Handles : ~Writes(m_Files, h, n)
    BY <1>2, <1>4, Zenon
  <2>7. i \in DOMAIN dir
    BY <2>1, <2>2
  <2> QED
    BY <2>3, <2>4, <2>5, <2>6, <2>7, Zenon DEF DirEntry, Starts
<1> QED
  BY <1>3, <1>4, Zenon

LEMMA HeadsAreRoots ==
    ASSUME FatInv
    PROVE  Heads = Roots(dir, m_Files)
<1>1. \A n \in Names : \A c : Starts(dir, m_Files, n, c) => n \in Existing
  <2> SUFFICES ASSUME NEW n \in Names, NEW c, Starts(dir, m_Files, n, c) PROVE n \in Existing
    BY Zenon
  <2>1. \E i \in DOMAIN dir : dir[i].Name = n
    BY Facts, Zenon DEF Starts, Writes, Opens, FilesOK
  <2>2. Listed(dir, n) # {}
    BY <2>1, Facts, ListedIs
  <2> QED
    BY <2>2, Zenon DEF Existing
<1>2. ASSUME NEW c PROVE c \in Heads => c \in Roots(dir, m_Files)
  <2> SUFFICES ASSUME NEW n \in Existing, c = Extent(n)[1], c # 0 PROVE c \in Roots(dir, m_Files)
    BY Zenon DEF Heads, Roots
  <2> QED
    BY ExtentStarts, Zenon DEF Roots, Existing
<1>3. ASSUME NEW c PROVE c \in Roots(dir, m_Files) => c \in Heads
  <2> SUFFICES ASSUME NEW n \in Names, c \in Clusters, Starts(dir, m_Files, n, c)
               PROVE  c \in Heads
    BY Zenon DEF Heads, Roots
  <2>1. n \in Existing /\ c # 0
    BY <1>1, Kinds
  <2> QED
    BY <2>1, ExtentStarts, Zenon DEF Heads
<1> QED
  BY <1>2, <1>3, Zenon

\* Whatever files are created, written, appended to and deleted, on a volume of
\* any size: the chains of the files and of the directory end, they have no
\* cluster in common, every taken cluster is in one of them, and no two files
\* start at the same cluster.
THEOREM ChainsStayApart == Spec => []ChainsApart
<1>1. FatInv => ChainsApart
  <2> SUFFICES ASSUME FatInv PROVE ChainsApart
    BY Zenon
  <2> DEFINE H == Heads
             F == table.fat
             chains == {<<c, Chain(table, c)>> : c \in H}
  <2>1. Sound(F, H) /\ HeadsOK(dir, m_Files)
    BY HeadsAreRoots, Facts, Zenon DEF ChainInv
  <2>2. \A c : Chain(table, c) = Walk(F, c)
    BY Zenon DEF Chain
  <2> HIDE DEF H, F
  <2>3. ASSUME NEW x \in chains PROVE Ends(table, x[2])
    <3>1. PICK c \in H : x = <<c, Walk(F, c)>>
      BY <2>2, Zenon
    <3> QED
      BY <2>1, <3>1, Zenon DEF Ends, Sound, Ended, F
  <2>4. ASSUME NEW x \in chains, NEW y \in chains, x # y PROVE x[2] \cap y[2] = {}
    <3>1. PICK c \in H : x = <<c, Walk(F, c)>>
      BY <2>2, Zenon
    <3>2. PICK d \in H : y = <<d, Walk(F, d)>>
      BY <2>2, Zenon
    <3>3. c # d
      BY <2>4, <3>1, <3>2, Zenon
    <3> QED
      BY <2>1, <3>1, <3>2, <3>3, WalksApart, Zenon
  <2>5. UNION {x[2] : x \in chains} = {c \in Clusters : F[c] # 0}
    <3>1. ASSUME NEW c, NEW x \in chains, c \in x[2] PROVE c \in Clusters /\ F[c] # 0
      <4>1. PICK h \in H : x = <<h, Walk(F, h)>>
        BY <2>2
      <4>2. c \in Walk(F, h)
        BY <3>1, <4>1, Zenon
      <4>3. c \in Clusters
        BY <4>2, WalkFacts, Zenon
      <4> QED
        BY <2>1, <4>2, <4>3, Zenon DEF Sound, Covered
    <3>2. ASSUME NEW c \in Clusters, F[c] # 0 PROVE \E x \in chains : c \in x[2]
      <4>1. PICK h \in H : c \in Walk(F, h)
        BY <2>1, <3>2, Zenon DEF Sound, Covered
      <4>2. <<h, Walk(F, h)>> \in chains
        BY <2>2
      <4> QED
        BY <4>1, <4>2, Zenon
    <3> QED
      BY <3>1, <3>2, Zenon
  <2>6. ASSUME NEW n \in Existing, NEW m \in Existing, n # m, Extent(n)[1] = Extent(m)[1]
        PROVE  Extent(n)[1] = 0
    <3>1. n \in Names /\ m \in Names
      BY Zenon DEF Existing
    <3> QED
      BY <2>1, <2>6, <3>1, ExtentStarts, Zenon DEF HeadsOK
  <2>7. chains = {<<c, Chain(table, c)>> : c \in Heads} /\ F = table.fat
    BY DEF H, F
  <2> HIDE DEF chains
  <2> QED
    BY <2>3, <2>4, <2>5, <2>6, <2>7, Zenon DEF ChainsApart
<1> QED
  BY <1>1, InitKeeps, StepKeeps, PTL DEF Spec
=============================================================================
