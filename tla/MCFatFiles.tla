----------------------------- MODULE MCFatFiles -----------------------------
(***************************************************************************)
(* Instance of FatFiles for TLC, with a history of the appends that lose   *)
(* bytes.  fopen for appending fetches the last cluster of the file write- *)
(* only (fatfs.c:239-249): when the cluster has left the cache its bytes   *)
(* are lost, and when it is full it is filled again from its start.        *)
(***************************************************************************)
EXTENDS FatFiles, TLC

CONSTANTS name1, name2

VARIABLE torn   \* the files that were appended to in that way

MCNames == {name1, name2}
NameSymmetry == Permutations(MCNames)

\* an append to n would find its last cluster in the cache and not full
EndsInCache(n) ==
    /\ Extent(n)[2] % CLUSTER # 0
    /\ Holding(cache, FATGetFileLastCluster(table, Extent(n)[1])) # {}

Opened(n) == Writers(n) = {} /\ Writers(n)' # {}

\* a file that is created again is whole again
Tear == torn' = {n \in Names : /\ gen'[n] = gen[n]
                               /\ n \in torn \/ (Opened(n) /\ ~EndsInCache(n))}

MCInit == Init /\ torn = {}
MCNext == Next /\ Tear
MCSpec == MCInit /\ [][MCNext]_<<vars, torn>>

(* Every byte of every file is the one written last for its place, through *)
(* the cache with its evictions and write-only buffers, whatever clusters  *)
(* have been freed and used again, and a file has just the clusters that   *)
(* its size needs.  This is not so for a file that was appended to when    *)
(* its last cluster was full or out of the cache; such an append harms no  *)
(* other file.                                                             *)
Contents == \A n \in Existing \ torn : Intact(n)

(* What a power cut leaves of files that nobody is writing.  Any of the    *)
(* sectors and clusters that are only changed in the caches may have been  *)
(* written already or not: the file is listed with the right extent, its   *)
(* chain and its bytes are on the disk in every case.  A call writes a     *)
(* sector or a cluster of such a file only from one such state to another, *)
(* so a cut between two writes of FATFileSystemSynchronize is covered for  *)
(* it; nothing is said of the file that is being closed.                   *)
Saved == \A n \in Existing \ torn : Writers(n) = {} => OnDisk(n)
=============================================================================
