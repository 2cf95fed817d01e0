----------------------------- MODULE HeapCalls -----------------------------
(***************************************************************************)
(* The calls of env/lib/alloc.c statement by statement, made by the tasks  *)
(* of one or several CPUs. EnterCritical keeps the other tasks of its CPU  *)
(* out of the section (Masked of Critical) and nobody else: the CPUs share *)
(* the heap and its lists.                                                 *)
(***************************************************************************)
EXTENDS HeapLayout

CONSTANTS
    Tasks,       \* the tasks that call the allocators
    CpuOf,       \* the CPU of each
    Requests,    \* the sizes they ask for
    MAX_CALLS    \* bound on the number of allocations

ASSUME CallsAssumption == Requests \subseteq Nat /\ MAX_CALLS \in Nat

NULL == 0

VARIABLES
    next,         \* s_pNextBlock, s_pNextDMABlock, s_pNextPage
    pFreeList,    \* the head of the list of each bucket
    pNext, nSize, \* fields of the headers
    live,         \* the blocks in the hands of callers
    pc,           \* where each task is
    arg,          \* its call: the arena, and the bucket or size
    p,            \* its pBlockHeader
    wrapped,      \* history: the arenas whose `next' went past 2^32
    calls         \* number of allocations, up to MAX_CALLS

heap == <<next, pFreeList, pNext, nSize>>
vars == <<heap, live, pc, arg, p, wrapped, calls>>

(***************************************************************************)
(* "run"              outside the allocator                                *)
(* "head", "pop", "carve", "bump"    in the section of malloc              *)
(* "clear"            behind it                                            *)
(* "enter"            in free, before its section                          *)
(* "push"             in the section of free                               *)
(***************************************************************************)
Inside(t) == pc[t] \in {"head", "pop", "carve", "bump", "push"}
MayEnter(t) == \A u \in Tasks : CpuOf[u] = CpuOf[t] => ~Inside(u)

At(t, q) == pc[t] = q
Goto(t, q) == pc' = [pc EXCEPT ![t] = q]

NoCall == [arena |-> "block", size |-> 0]

\* the locals of a call end with it
Return(t) ==
    /\ Goto(t, "run")
    /\ arg' = [arg EXCEPT ![t] = NoCall] /\ p' = [p EXCEPT ![t] = NULL]

Init ==
    /\ next = [a \in Arenas |-> First(a)]
    /\ pFreeList = [a \in Arenas |-> [b \in Buckets(a) |-> NULL]]
    /\ pNext = <<>> /\ nSize = <<>>
    /\ live = {} /\ wrapped = {} /\ calls = 0
    /\ pc = [t \in Tasks |-> "run"]
    /\ arg = [t \in Tasks |-> NoCall]
    /\ p = [t \in Tasks |-> NULL]

----------------------------------------------------------------------------
(* malloc, dma_malloc, palloc *)

Enter(t, arena, size) ==
    /\ At(t, "run") /\ MayEnter(t) /\ calls < MAX_CALLS
    /\ Goto(t, "head") /\ calls' = calls + 1
    /\ arg' = [arg EXCEPT ![t] = [arena |-> arena, size |-> size]]
    /\ UNCHANGED <<heap, live, p, wrapped>>

\* a request too big for every bucket returns NULL and changes nothing
malloc(t, arena, n) ==
    /\ next[arena] # NULL
    /\ \E s \in Fitting(arena, n) :
          (\A r \in Fitting(arena, n) : s <= r) /\ Enter(t, arena, s)

palloc(t) == Enter(t, "page", PAGE_SIZE)

\* mutant: the list is not looked at
ReadNoHead(t) ==
    /\ At(t, "head") /\ Goto(t, "carve")
    /\ UNCHANGED <<heap, live, arg, p, wrapped, calls>>

ReadHead(t) ==
    /\ At(t, "head")
    /\ p' = [p EXCEPT ![t] = pFreeList[arg[t].arena][arg[t].size]]
    /\ Goto(t, IF p'[t] # NULL THEN "pop" ELSE "carve")
    /\ UNCHANGED <<heap, live, arg, wrapped, calls>>

\* mutant: the block stays on the list
PopKeepsHead(t) ==
    /\ At(t, "pop") /\ Goto(t, "clear")
    /\ UNCHANGED <<heap, live, arg, p, wrapped, calls>>

Pop(t) ==
    /\ At(t, "pop") /\ Goto(t, "clear")
    /\ pFreeList' = [pFreeList EXCEPT ![arg[t].arena][arg[t].size] = pNext[p[t]]]
    /\ UNCHANGED <<next, pNext, nSize, live, arg, p, wrapped, calls>>

ReadNext(t) ==
    /\ At(t, "carve") /\ Goto(t, "bump")
    /\ p' = [p EXCEPT ![t] = next[arg[t].arena]]
    /\ UNCHANGED <<heap, live, arg, wrapped, calls>>

\* a field of the header at h is written
Written(field, h, v) == [x \in DOMAIN field \cup {h} |-> IF x = h THEN v ELSE field[x]]

\* mutant: the limit is not tested
BumpPastLimit(t) ==
    LET a == arg[t].arena
        new == Carve(a, p[t], arg[t].size)
    IN  /\ At(t, "bump")
        /\ next' = [next EXCEPT ![a] = new.behind]
        /\ wrapped' = IF new.wraps THEN wrapped \cup {a} ELSE wrapped
        /\ Goto(t, "clear")
        /\ p' = [p EXCEPT ![t] = new.addr]
        /\ nSize' = IF a = "page" THEN nSize ELSE Written(nSize, new.addr, arg[t].size)
        /\ pNext' = Written(pNext, new.addr, NULL)
        /\ UNCHANGED <<pFreeList, live, arg, calls>>

\* The pointer is written, then compared with the limit. The pNext of a new
\* header is not read before ClearNext or Link writes it.
Bump(t) ==
    LET a == arg[t].arena
        new == Carve(a, p[t], arg[t].size)
    IN  /\ At(t, "bump")
        /\ next' = [next EXCEPT ![a] = new.behind]
        /\ wrapped' = IF new.wraps THEN wrapped \cup {a} ELSE wrapped
        /\ \/ /\ new.behind > Limit(a) /\ Return(t)
              /\ UNCHANGED <<pNext, nSize>>
           \/ /\ new.behind <= Limit(a) /\ Goto(t, "clear")
              /\ p' = [p EXCEPT ![t] = new.addr] /\ arg' = arg
              /\ nSize' = IF a = "page" THEN nSize ELSE Written(nSize, new.addr, arg[t].size)
              /\ pNext' = Written(pNext, new.addr, NULL)
        /\ UNCHANGED <<pFreeList, live, calls>>

Returned(t) == [arena |-> arg[t].arena, addr |-> p[t], size |-> arg[t].size]

\* outside the section
ClearNext(t) ==
    /\ At(t, "clear") /\ Return(t)
    /\ pNext' = IF arg[t].arena = "page" THEN pNext ELSE [pNext EXCEPT ![p[t]] = NULL]
    /\ live' = live \cup {Returned(t)}
    /\ UNCHANGED <<next, pFreeList, nSize, wrapped, calls>>

----------------------------------------------------------------------------
(* free, dma_free, pfree *)

\* the bucket is found before the section
FreeCall(t, b) ==
    /\ At(t, "run") /\ Goto(t, "enter")
    /\ live' = live \ {b}
    /\ p' = [p EXCEPT ![t] = b.addr]
    /\ arg' = [arg EXCEPT ![t] =
                 [arena |-> b.arena, size |-> IF b.arena = "page" THEN PAGE_SIZE ELSE nSize[b.addr]]]
    /\ UNCHANGED <<heap, wrapped, calls>>

Link(t) ==
    /\ At(t, "enter") /\ MayEnter(t) /\ Goto(t, "push")
    /\ pNext' = [pNext EXCEPT ![p[t]] = pFreeList[arg[t].arena][arg[t].size]]
    /\ UNCHANGED <<next, pFreeList, nSize, live, arg, p, wrapped, calls>>

Push(t) ==
    /\ At(t, "push") /\ Return(t)
    /\ pFreeList' = [pFreeList EXCEPT ![arg[t].arena][arg[t].size] = p[t]]
    /\ UNCHANGED <<next, pNext, nSize, live, wrapped, calls>>

----------------------------------------------------------------------------
Next ==
    \/ \E t \in Tasks, a \in {"block", "dma"}, n \in Requests : malloc(t, a, n)
    \/ \E t \in Tasks : palloc(t)
    \/ \E t \in Tasks, b \in live : FreeCall(t, b)
    \/ \E t \in Tasks :
        \/ ReadHead(t) \/ Pop(t) \/ ReadNext(t) \/ Bump(t) \/ ClearNext(t)
        \/ Link(t) \/ Push(t)

Spec == Init /\ [][Next]_vars

----------------------------------------------------------------------------
\* the headers that are reached from one of them, along the links
Reach(link, head) ==
    {h \in DOMAIN link :
        \A S \in SUBSET DOMAIN link :
            /\ head # NULL => head \in S
            /\ \A g \in S : link[g] # NULL => link[g] \in S
            => h \in S}

\* the headers on the list of a bucket
Listed(arena, size) == Reach(pNext, pFreeList[arena][size])

\* the tasks whose call has taken a block off a list or will put one on it
Holders == {t \in Tasks : pc[t] \in {"clear", "enter", "push"}}

\* the blocks that are not free
Owned == live \cup {Returned(t) : t \in Holders}

FreeBlocks ==
    UNION {UNION {{[arena |-> a, addr |-> h, size |-> b] : h \in Listed(a, b)} :
                    b \in Buckets(a)} : a \in Arenas}

Abstract == INSTANCE Heap WITH live <- Owned, free <- FreeBlocks

(* The calls of the tasks of one CPU implement Heap: malloc and free take  *)
(* effect in one step, the write of a list or of the pointer.              *)
CallsAreAtomic == Abstract!Spec

(* No two callers own the same memory: malloc returns a block that nobody  *)
(* owns and that overlaps no other, until the pointer passes 2^32.         *)
LiveDisjoint ==
    wrapped = {} =>
        /\ Disjoint(Owned)
        /\ \A t \in Holders :
            /\ Returned(t) \notin live
            /\ \A u \in Holders \ {t} : Returned(u) # Returned(t)

(* malloc keeps the framebuffer out of the blocks it returns.              *)
LiveOffScreen == wrapped = {} => OffScreen(Owned)

(* A block that malloc returns is inside its arena.                        *)
LiveInArena == wrapped = {} => InArena(Owned)

(* No block is lost or doubled: what was carved off is owned by a caller,  *)
(* is on the list of its bucket or is in a call, and only one of these.    *)
Accounted ==
    wrapped = {} =>
        /\ {b.addr : b \in Owned \cup FreeBlocks} = DOMAIN pNext
        /\ \A b, c \in Owned \cup FreeBlocks : b.addr = c.addr => b = c
        /\ Owned \cap FreeBlocks = {}
        /\ \A t \in Holders :
            /\ Returned(t) \notin live
            /\ \A u \in Holders \ {t} : Returned(u) # Returned(t)

============================================================================
