------------------------------ MODULE FatFiles ------------------------------
(***************************************************************************)
(* Files of a FAT volume: env/lib/fs/fatfs.c over the directory            *)
(* (fatdir.c), the allocation table (FatTable) and the cluster cache       *)
(* (fatcache.c), as file.c and the commands of the shell use them.         *)
(*                                                                         *)
(* An action is one call, except that FileRead and FileWrite are one       *)
(* iteration of their copying loops: a call of any length is a sequence of *)
(* them.  The directory and the table are modelled as the sector cache     *)
(* shows them; disk holds what has been written of them.  The data of      *)
(* files goes through the cluster cache, modelled buffer by buffer.        *)
(*                                                                         *)
(* A byte is known by the file, its generation (how often the file had     *)
(* been created when it was written) and the position for which it was     *)
(* written, so every byte that turns up in a wrong place is seen.          *)
(***************************************************************************)
EXTENDS FatTable, Sequences

CONSTANTS
    Names,              \* titles of files, all of one directory
    FAT_FILES,          \* entries of m_Files
    FAT_CLUSER_BUFFERS, \* buffers of the cluster cache (the source's spelling)
    FAT_MAX_FILESIZE,
    CLUSTER,            \* bytes per cluster
    ENTRIES,            \* directory entries per cluster
    MAX_CREATES,        \* bound on the creations of files
    NULL

VARIABLES
    table,      \* m_FATInfo and the table in the sector cache
    dir,        \* the root directory in the sector cache
    disk,       \* what the partition holds: [fat, info, dir, data]
    cache,      \* m_ClusterBufList, first to last
    m_Files,
    gen         \* how often each file has been created

vars == <<table, dir, disk, cache, m_Files, gen>>

BUFFER_NOCLUSTER == -1
FAT_DIR_NAME0_LAST == "last"
FAT_DIR_NAME0_FREE == "free"
VOLUME_ID == "volume"

ASSUME FilesAssumption ==
    /\ Names \cap {FAT_DIR_NAME0_LAST, FAT_DIR_NAME0_FREE, VOLUME_ID} = {}
    /\ FAT_FILES \in Nat \ {0}
    /\ FAT_CLUSER_BUFFERS \in Nat /\ FAT_FILES < FAT_CLUSER_BUFFERS
    /\ CLUSTER \in Nat \ {0} /\ ENTRIES \in Nat \ {0}
    /\ FAT_MAX_FILESIZE \in Nat /\ MAX_CREATES \in Nat

\* a file without a buffer holds no cluster
ASSUME NullAssumption == NULL \notin {BUFFER_NOCLUSTER, 0} \cup Clusters

Handles == 1 .. FAT_FILES

\* bytes: of no file, or written for position p of file n
Junk == <<>>
Byte(n, p) == <<n, gen[n], p>>

NoFile == [nUseCount |-> 0, cFileName |-> NULL, nSize |-> 0, nOffset |-> 0,
           nCluster |-> 0, nFirstCluster |-> 0, pBuffer |-> NULL, bWrite |-> FALSE]

Entry(n, first, size) == [Name |-> n, nFirstCluster |-> first, nFileSize |-> size]
LastEntries == [i \in 1 .. ENTRIES |-> Entry(FAT_DIR_NAME0_LAST, 0, 0)]

JunkCluster == [i \in 1 .. CLUSTER |-> Junk]

-----------------------------------------------------------------------------
(* Cluster cache.  A cache state is [list, data]: the buffers in list order*)
(* and the clusters of the partition.                                      *)

\* FATCacheMoveClusterBufferFirst and -Last for buffer b, which was the i-th
Unlinked(list, i) == SubSeq(list, 1, i - 1) \o SubSeq(list, i + 1, Len(list))
MoveFirst(list, i, b) == <<b>> \o Unlinked(list, i)
MoveLast(list, i, b) == Append(Unlinked(list, i), b)

Holding(list, c) == {i \in DOMAIN list : list[i].nCluster = c}
Idle(list) == {i \in DOMAIN list : list[i].nUseCount = 0}

WriteBack(data, b) == IF b.bDirty THEN [data EXCEPT ![b.nCluster] = b.pBuf] ELSE data

\* mutant: the victim is not written back
ForgetVictim(data, b) == data

\* the cluster a buffer is taken from is written if it is dirty
WriteVictim(data, b) == WriteBack(data, b)

(* FATCacheGetCluster: the buffer that holds c; otherwise the last empty   *)
(* one, otherwise the last one out of use, which gives up its cluster.  A  *)
(* write-only buffer keeps the bytes it has.                               *)
FATCacheGetCluster(s, c, bWriteOnly) ==
    LET hit == Holding(s.list, c)
        empty == Holding(s.list, BUFFER_NOCLUSTER)
        i == IF hit # {} THEN Max(hit)
             ELSE IF empty # {} THEN Max(empty) ELSE Max(Idle(s.list))
        old == s.list[i]
        data == IF hit # {} THEN s.data ELSE WriteVictim(s.data, old)
        new == IF hit # {} THEN [old EXCEPT !.nUseCount = @ + 1]
               ELSE [nCluster |-> c, nUseCount |-> 1, bDirty |-> FALSE,
                     pBuf |-> IF bWriteOnly THEN old.pBuf ELSE data[c]]
    IN  [list |-> MoveFirst(s.list, i, new), data |-> data]

\* FATCacheFreeCluster; bCritical is 0 in every call
FATCacheFreeCluster(s, c) ==
    LET i == CHOOSE j \in Holding(s.list, c) : TRUE
        b == [s.list[i] EXCEPT !.nUseCount = @ - 1]
    IN  [s EXCEPT !.list = IF b.nUseCount > 0 THEN [@ EXCEPT ![i] = b]
                           ELSE MoveLast(@, i, b)]

\* memcpy of n's bytes from position p on, k of them, into buffer b, and
\* FATCacheMarkClusterDirty
Filled(b, n, p, k) ==
    LET at == p % CLUSTER
    IN  [b EXCEPT !.bDirty = TRUE,
                  !.pBuf = [j \in 1 .. CLUSTER |->
                    IF j \in (at + 1) .. (at + k) THEN Byte(n, p + j - at - 1) ELSE @[j]]]

CopyIn(s, c, n, p, k) ==
    LET i == CHOOSE j \in Holding(s.list, c) : TRUE
    IN  [s EXCEPT !.list[i] = Filled(@, n, p, k)]

\* mutant: the buffers stay dirty
FlushedStaysDirty(s) ==
    [s EXCEPT !.data = [c \in Entries |->
        LET dirty == {i \in Holding(s.list, c) : s.list[i].bDirty}
        IN  IF dirty = {} THEN @[c] ELSE s.list[Max(dirty)].pBuf]]

\* FATCacheClusterFlush
FATCacheClusterFlush(s) ==
    [list |-> [i \in DOMAIN s.list |-> [s.list[i] EXCEPT !.bDirty = FALSE]],
     data |-> [c \in Entries |->
                LET dirty == {i \in Holding(s.list, c) : s.list[i].bDirty}
                IN  IF dirty = {} THEN s.data[c] ELSE s.list[Max(dirty)].pBuf]]

CacheState == [list |-> cache, data |-> disk.data]

\* buffers change, what is on the disk changes only by their write-backs
SetCache(s) == cache' = s.list /\ disk' = [disk EXCEPT !.data = s.data]

\* FATInfoUpdateFSInfo
FSInfo(t) == [nFreeCount |-> t.m_nFreeCount, nNextFreeCluster |-> t.m_nNextFreeCluster]

\* FATCacheFlush, of the sectors of the table t, the directory d and FSInfo
FATCacheFlush(t, d, data) == [fat |-> t.fat, dir |-> d, info |-> FSInfo(t), data |-> data]

\* mutant: FATFileSystemSynchronize without FATCacheClusterFlush
SectorsOnly(t, d, s) ==
    /\ table' = t /\ dir' = d
    /\ disk' = FATCacheFlush(t, d, s.data)
    /\ cache' = s.list

(* FATFileSystemSynchronize with table t, directory d and cache state s:   *)
(* every dirty sector and then every dirty cluster is written, in one step *)
(* here: Saved says what a crash between two of the writes leaves.         *)
Synchronize(t, d, s) ==
    /\ table' = t /\ dir' = d
    /\ disk' = FATCacheFlush(t, d, FATCacheClusterFlush(s).data)
    /\ cache' = FATCacheClusterFlush(s).list

-----------------------------------------------------------------------------
(* Directory *)

\* FATDirectoryGetEntry: the search ends at the first LAST entry
Listed(d, n) == {i \in DOMAIN d : /\ d[i].Name = n
                                  /\ \A j \in 1 .. i : d[j].Name # FAT_DIR_NAME0_LAST}

Unused(d) == {i \in DOMAIN d : d[i].Name \in {FAT_DIR_NAME0_LAST, FAT_DIR_NAME0_FREE}}

\* FATDirectoryCreateEntry for n: in the first unused entry, otherwise in a
\* cluster that is added to the directory; ok is FALSE when there is none
FATDirectoryCreateEntry(t, d, n) ==
    LET c == FATAllocateCluster(t)
        grown == FATSetClusterEntry(Allocated(t, c),
                                    FATGetFileLastCluster(t, nRootCluster), c)
    IN  CASE Unused(d) # {} ->
                [ok |-> TRUE, table |-> t, dir |-> [d EXCEPT ![Min(Unused(d))] = Entry(n, 0, 0)]]
          [] Unused(d) = {} /\ c # 0 ->
                [ok |-> TRUE, table |-> grown,
                 dir |-> d \o [LastEntries EXCEPT ![1] = Entry(n, 0, 0)]]
          [] OTHER -> [ok |-> FALSE, table |-> t, dir |-> d]

\* FATFileSystemFileDelete: the table and the directory without n.  The
\* entry's other fields stay, but nothing reads them again.
Deleted(n) ==
    IF Listed(dir, n) = {} THEN [table |-> table, dir |-> dir]
    ELSE LET i == Min(Listed(dir, n))
             first == dir[i].nFirstCluster
         IN  [table |-> IF first = 0 THEN table ELSE FATFreeClusterChain(table, first),
              dir |-> [dir EXCEPT ![i] = Entry(FAT_DIR_NAME0_FREE, 0, 0)]]

-----------------------------------------------------------------------------
(* What the callers do.  The file layer does not protect itself against   *)
(* the calls that these three rules exclude; README.md says what becomes   *)
(* of a file when they are broken.                                         *)
InUse(h) == m_Files[h].nUseCount # 0
Users(n) == {h \in Handles : InUse(h) /\ m_Files[h].cFileName = n}
Writers(n) == {h \in Users(n) : m_Files[h].bWrite}

\* a file is created anew or deleted only while nobody has it open
NotOpen(n) == Users(n) = {}

\* a file is appended to by one caller at a time, and only when it has a
\* cluster: FATGetSector asserts so
Appendable(n, e) == Writers(n) = {} /\ e.nFirstCluster # 0

\* only readers seek, and not back into a cluster just read to its end
SeeksElsewhere(f, c, o) ==
    /\ ~f.bWrite
    /\ ~(f.pBuffer = NULL /\ f.nCluster = c /\ o > 0)

-----------------------------------------------------------------------------
(* Calls *)

Init ==
    /\ table = FormatFat32Disk
    /\ dir = [LastEntries EXCEPT ![1] = Entry(VOLUME_ID, 0, 0)]
    /\ cache = [i \in 1 .. FAT_CLUSER_BUFFERS |->
                    [nCluster |-> BUFFER_NOCLUSTER, nUseCount |-> 0,
                     bDirty |-> FALSE, pBuf |-> JunkCluster]]
    /\ disk = FATCacheFlush(table, dir, [c \in Entries |-> JunkCluster])
    /\ m_Files = [h \in Handles |-> NoFile]
    /\ gen = [n \in Names |-> 0]

\* FATFileSystemFileOpen takes the first unused handle, unless it meets n before
OpenHandle(h, n) ==
    /\ ~InUse(h)
    /\ \A g \in 1 .. (h - 1) : InUse(g) /\ m_Files[g].cFileName # n

OpenRead(h, n) ==
    /\ OpenHandle(h, n)
    /\ \E i \in Listed(dir, n) :
        LET c == dir[i].nFirstCluster
        IN  /\ SetCache(FATCacheGetCluster(CacheState, c, FALSE))
            /\ m_Files' = [m_Files EXCEPT ![h] =
                [NoFile EXCEPT !.nUseCount = 1, !.cFileName = n, !.nSize = dir[i].nFileSize,
                               !.nFirstCluster = c, !.nCluster = c, !.pBuffer = c]]
    /\ UNCHANGED <<table, dir, gen>>

(* The last cluster is fetched write-only and filled from nFileSize %       *)
(* CLUSTER on, also when it has left the cache and when it is full.        *)
OpenAppend(h, n) ==
    /\ OpenHandle(h, n)
    /\ \E i \in Listed(dir, n) :
        LET c == FATGetFileLastCluster(table, dir[i].nFirstCluster)
        IN  /\ Appendable(n, dir[i])
            /\ SetCache(FATCacheGetCluster(CacheState, c, TRUE))
            /\ m_Files' = [m_Files EXCEPT ![h] =
                [nUseCount |-> 1, cFileName |-> n, nSize |-> dir[i].nFileSize,
                 nOffset |-> dir[i].nFileSize, nCluster |-> c,
                 nFirstCluster |-> dir[i].nFirstCluster, pBuffer |-> c, bWrite |-> TRUE]]
    /\ UNCHANGED <<table, dir, gen>>

\* FATFileSystemFileCreate; when no entry can be made the old file is gone
FileCreate(h, n) ==
    LET deleted == Deleted(n)
        created == FATDirectoryCreateEntry(deleted.table, deleted.dir, n)
    IN  /\ NotOpen(n)
        /\ MapThenSumSet(LAMBDA m : gen[m], Names) < MAX_CREATES
        /\ ~InUse(h) /\ \A g \in 1 .. (h - 1) : InUse(g)
        /\ \/ /\ created.ok
              /\ Synchronize(created.table, created.dir, CacheState)
              /\ m_Files' = [m_Files EXCEPT ![h] =
                    [NoFile EXCEPT !.nUseCount = 1, !.cFileName = n, !.bWrite = TRUE]]
              /\ gen' = [gen EXCEPT ![n] = @ + 1]
           \/ /\ ~created.ok
              /\ table' = created.table /\ dir' = created.dir
              /\ UNCHANGED <<disk, cache, m_Files, gen>>

\* Nothing in the repository makes an entry read-only: the refusal to delete
\* such a file is left out.
FileDelete(n) ==
    /\ NotOpen(n)
    /\ Listed(dir, n) # {}
    /\ table' = Deleted(n).table /\ dir' = Deleted(n).dir
    /\ UNCHANGED <<disk, cache, m_Files, gen>>

\* a copying loop has come to the end of a cluster
AtEnd(f) == f.nOffset % CLUSTER = 0

\* mutant: the buffer stays in use when the end of its cluster is reached
KeepsBuffer(s, f) == [s |-> s, f |-> [f EXCEPT !.pBuffer = IF AtEnd(f) THEN NULL ELSE @]]

\* the end of a copying loop: a buffer that is read or written to its end
\* is given back
ReleaseAtEnd(s, f) ==
    IF AtEnd(f) THEN [s |-> FATCacheFreeCluster(s, f.nCluster), f |-> [f EXCEPT !.pBuffer = NULL]]
    ELSE [s |-> s, f |-> f]

\* the cluster from which the next iteration of FileRead copies
ReadCluster(f) ==
    IF f.pBuffer = NULL /\ f.nOffset > 0 THEN FATGetClusterEntry(table, f.nCluster)
    ELSE f.nCluster

\* an iteration of FATFileSystemFileRead with ulBytes left to read
FileRead(h, ulBytes) ==
    LET f == m_Files[h]
        c == ReadCluster(f)
        k == Min({f.nSize - f.nOffset, ulBytes, CLUSTER - (f.nOffset % CLUSTER)})
        s == IF f.pBuffer = NULL THEN FATCacheGetCluster(CacheState, c, FALSE) ELSE CacheState
        done == ReleaseAtEnd(s, [f EXCEPT !.nCluster = c, !.pBuffer = c, !.nOffset = @ + k])
    IN  /\ InUse(h) /\ ~f.bWrite
        /\ f.nSize > f.nOffset
        /\ f.nCluster # EOC /\ c # EOC
        /\ SetCache(done.s)
        /\ m_Files' = [m_Files EXCEPT ![h] = done.f]
        /\ UNCHANGED <<table, dir, gen>>

\* the chain is shorter than the size: FileRead returns FS_ERROR, and the
\* caller does not read on
FileReadFails(h) ==
    LET f == m_Files[h]
    IN  /\ InUse(h) /\ ~f.bWrite
        /\ f.nSize > f.nOffset
        /\ f.nCluster # EOC /\ ReadCluster(f) = EOC
        /\ m_Files' = [m_Files EXCEPT ![h].nCluster = EOC]
        /\ UNCHANGED <<table, dir, disk, cache, gen>>

\* mutant: a further cluster is not linked to the chain
ForgetsLink(t, f, c) == Allocated(t, c)

\* the table with cluster c added to file f, whose last cluster is nCluster
Extended(t, f, c) ==
    IF f.nFirstCluster = 0 THEN Allocated(t, c)
    ELSE FATSetClusterEntry(Allocated(t, c), f.nCluster, c)

\* an iteration of FATFileSystemFileWrite with ulBytes left to write; when
\* the volume is full it returns with nothing changed
FileWrite(h, ulBytes) ==
    LET f == m_Files[h]
        needs == f.pBuffer = NULL /\ f.nOffset % CLUSTER = 0
        c == IF needs THEN FATAllocateCluster(table) ELSE f.nCluster
        k == Min({FAT_MAX_FILESIZE - f.nSize, ulBytes, CLUSTER - (f.nOffset % CLUSTER)})
        s == IF f.pBuffer = NULL THEN FATCacheGetCluster(CacheState, c, TRUE) ELSE CacheState
        done == ReleaseAtEnd(CopyIn(s, c, f.cFileName, f.nOffset, k),
                    [f EXCEPT !.nFirstCluster = IF @ = 0 THEN c ELSE @, !.nCluster = c,
                              !.pBuffer = c, !.nOffset = @ + k, !.nSize = @ + k])
    IN  /\ InUse(h) /\ f.bWrite
        /\ f.nSize < FAT_MAX_FILESIZE
        /\ c # 0
        /\ table' = IF needs THEN Extended(table, f, c) ELSE table
        /\ SetCache(done.s)
        /\ m_Files' = [m_Files EXCEPT ![h] = done.f]
        /\ UNCHANGED <<dir, gen>>

(* FATFileSystemFileSeek to offset o.  SEEK_SET and SEEK_CUR reach the      *)
(* offsets below the size, SEEK_END the size itself as well.               *)
FileSeek(h, o) ==
    LET f == m_Files[h]
        c == FATGetFileCluster(table, f.nFirstCluster, o \div CLUSTER)
        freed == IF f.pBuffer = NULL THEN CacheState ELSE FATCacheFreeCluster(CacheState, f.pBuffer)
    IN  /\ InUse(h)
        /\ o <= f.nSize
        /\ c # 0
        /\ SeeksElsewhere(f, c, o)
        /\ IF f.nCluster = c
           THEN /\ m_Files' = [m_Files EXCEPT ![h].nOffset = o]
                /\ UNCHANGED <<cache, disk>>
           ELSE /\ m_Files' = [m_Files EXCEPT ![h] =
                        [f EXCEPT !.nOffset = o, !.nCluster = c, !.pBuffer = c]]
                /\ SetCache(FATCacheGetCluster(freed, c, f.bWrite))
        /\ UNCHANGED <<table, dir, gen>>

\* FATFileSystemFileClose; the entry of a file written to is brought up to date
FileClose(h) ==
    LET f == m_Files[h]
        s == IF f.pBuffer = NULL THEN CacheState ELSE FATCacheFreeCluster(CacheState, f.pBuffer)
        updated == [i \in DOMAIN dir |->
                        IF i \in Listed(dir, f.cFileName)
                        THEN Entry(f.cFileName, f.nFirstCluster, f.nSize) ELSE dir[i]]
    IN  /\ InUse(h)
        /\ IF f.bWrite THEN Synchronize(table, updated, s)
           ELSE SetCache(s) /\ UNCHANGED <<table, dir>>
        /\ m_Files' = [m_Files EXCEPT ![h] = NoFile]
        /\ UNCHANGED gen

Next ==
    \/ \E h \in Handles, n \in Names : OpenRead(h, n) \/ OpenAppend(h, n) \/ FileCreate(h, n)
    \/ \E h \in Handles, k \in 1 .. CLUSTER : FileRead(h, k) \/ FileWrite(h, k)
    \/ \E h \in Handles, o \in 0 .. FAT_MAX_FILESIZE : FileSeek(h, o)
    \/ \E h \in Handles : FileReadFails(h) \/ FileClose(h)
    \/ \E n \in Names : FileDelete(n)

Spec == Init /\ [][Next]_vars

-----------------------------------------------------------------------------
(* Properties *)

\* The fields of the file system have their types.
TypeOK ==
    /\ table \in Tables
    /\ \A i \in DOMAIN dir : /\ dir[i].nFirstCluster \in {0} \cup Clusters
                             /\ dir[i].nFileSize \in 0 .. FAT_MAX_FILESIZE
    /\ Len(cache) = FAT_CLUSER_BUFFERS
    /\ \A h \in Handles : /\ m_Files[h].nOffset \in 0 .. m_Files[h].nSize
                          /\ m_Files[h].nCluster \in {0, EOC} \cup Clusters

\* where file n lies: [nFirstCluster, nSize] as its writer knows it, otherwise
\* as the directory says
Extent(n) ==
    IF Writers(n) # {} THEN LET f == m_Files[Min(Writers(n))] IN <<f.nFirstCluster, f.nSize>>
    ELSE LET e == dir[Min(Listed(dir, n))] IN <<e.nFirstCluster, e.nFileSize>>

Existing == {n \in Names : Listed(dir, n) # {}}

Heads == {nRootCluster} \cup ({Extent(n)[1] : n \in Existing} \ {0})

(* The chains of the directory and of the files, of those still being      *)
(* written as well, end, share no cluster, and use up every cluster that   *)
(* is marked as taken: fat.c and fatfs.c neither cross-link two files nor  *)
(* lose a cluster, also when the volume runs full.                         *)
ChainsApart ==
    LET chains == {<<c, Chain(table, c)>> : c \in Heads}
    IN  /\ \A x \in chains : Ends(table, x[2])
        /\ \A x, y \in chains : x # y => x[2] \cap y[2] = {}
        /\ UNION {x[2] : x \in chains} = {c \in Clusters : table.fat[c] # 0}
        /\ \A n, m \in Existing : n # m /\ Extent(n)[1] = Extent(m)[1] => Extent(n)[1] = 0

(* FATAllocateCluster searches from the hint upwards and does not start    *)
(* again at the beginning.  It still finds a cluster whenever one is free. *)
FullOnlyWhenFull ==
    (\E c \in Clusters : table.fat[c] = 0) => FATAllocateCluster(table) # 0

\* what a reader of cluster c would see
View(c) == IF Holding(cache, c) # {} THEN cache[Max(Holding(cache, c))].pBuf ELSE disk.data[c]

\* cluster contents v hold file n's bytes from position p on, below size
Holds(v, n, p, size) ==
    \A j \in 1 .. CLUSTER : p + j - 1 < size => v[j] = Byte(n, p + j - 1)

\* file n has just the clusters that its size needs, and a reader would see
\* in them the bytes written last for their places
Intact(n) ==
    LET first == Extent(n)[1]
        size == Extent(n)[2]
    IN  /\ ChainLength(table, first) = (size + CLUSTER - 1) \div CLUSTER
        /\ \A k \in 0 .. (m_nClusters - 1) :
            k * CLUSTER < size =>
                Holds(View(ChainAt(table, first, k)), n, k * CLUSTER, size)

\* file n is listed on the disk with the right extent, and its chain and its
\* bytes are there, whether or not what is dirty in the cache is written
OnDisk(n) ==
    LET first == Extent(n)[1]
        size == Extent(n)[2]
    IN  /\ \A i \in Listed(dir, n) : i \in DOMAIN disk.dir /\ disk.dir[i] = dir[i]
        /\ \A k \in 0 .. (m_nClusters - 1) :
            LET c == ChainAt(table, first, k)
            IN  k * CLUSTER < size =>
                    /\ disk.fat[c] = table.fat[c]
                    /\ Holds(disk.data[c], n, k * CLUSTER, size)
                    /\ \A i \in Holding(cache, c) :
                        cache[i].bDirty => Holds(cache[i].pBuf, n, k * CLUSTER, size)

(* The use count of a buffer is the number of open files that hold it, and *)
(* no cluster is in two buffers.  So a file that needs a buffer finds one  *)
(* (FAULT_NO_BUFFER never happens), however long the system runs.          *)
Pins ==
    \A i \in DOMAIN cache :
        /\ cache[i].nUseCount = Cardinality({h \in Handles :
                                    InUse(h) /\ m_Files[h].pBuffer = cache[i].nCluster})
        /\ cache[i].nCluster # BUFFER_NOCLUSTER => Holding(cache, cache[i].nCluster) = {i}

(* A dirty buffer belongs to a cluster of a file that is being written: no *)
(* later flush can write old data over a directory or another file.        *)
DirtyIsOwned ==
    \A i \in DOMAIN cache : cache[i].bDirty =>
        \E n \in Existing : Writers(n) # {} /\ cache[i].nCluster \in Chain(table, Extent(n)[1])
=============================================================================
