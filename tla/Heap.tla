-------------------------------- MODULE Heap --------------------------------
(***************************************************************************)
(* What the allocators of env/lib/alloc.c promise: a call takes one step.  *)
(* A block that was carved off is either live, that is handed out, or      *)
(* free, and a request takes a free block of its bucket before it carves a *)
(* new one. HeapCalls is the code, statement by statement.                 *)
(***************************************************************************)
EXTENDS HeapLayout

VARIABLES
    next,      \* s_pNextBlock, s_pNextDMABlock, s_pNextPage
    live,
    free,
    wrapped    \* history: the arenas whose `next' went past 2^32

vars == <<next, live, free, wrapped>>

Init ==
    /\ next = [a \in Arenas |-> First(a)]
    /\ live = {} /\ free = {} /\ wrapped = {}

Reuse(arena, size) ==
    \E b \in free :
        /\ b.arena = arena /\ b.size = size
        /\ live' = live \cup {b} /\ free' = free \ {b}
        /\ UNCHANGED <<next, wrapped>>

\* `next' moves even when the limit is passed and the request fails
CarveNew(arena, size) ==
    LET new == Carve(arena, next[arena], size)
        block == [arena |-> arena, addr |-> new.addr, size |-> size]
    IN  /\ \A b \in free : b.arena = arena => b.size # size
        /\ next' = [next EXCEPT ![arena] = new.behind]
        /\ wrapped' = IF new.wraps THEN wrapped \cup {arena} ELSE wrapped
        /\ live' = IF new.behind > Limit(arena) THEN live ELSE live \cup {block}
        /\ free' = free

Allocate(arena, size) == Reuse(arena, size) \/ CarveNew(arena, size)

Release(b) ==
    /\ b \in live
    /\ live' = live \ {b} /\ free' = free \cup {b}
    /\ UNCHANGED <<next, wrapped>>

Next ==
    \/ \E a \in Arenas : \E size \in Buckets(a) : Allocate(a, size)
    \/ \E b \in live : Release(b)

Spec == Init /\ [][Next]_vars

----------------------------------------------------------------------------
Blocks == live \cup free

TypeOK ==
    /\ next \in [Arenas -> Nat]
    /\ Blocks \subseteq [arena : Arenas, addr : Nat, size : Nat]
    /\ wrapped \subseteq Arenas

(* A block is live or free, and no two blocks overlap, in whatever arenas  *)
(* they are.                                                               *)
HeapDisjoint == live \cap free = {} /\ (wrapped = {} => Disjoint(Blocks))

(* A block lies in its arena.                                              *)
HeapInArena == wrapped = {} => InArena(Blocks)

(* malloc moves a block whose end would be on the framebuffer behind it    *)
(* (alloc.c:237). No block begins or ends there, so one that touches the   *)
(* framebuffer at all holds all of it, and is of a bucket that is larger.  *)
HeapScreenWhole ==
    wrapped = {} =>
        \A b \in Blocks :
            b.arena = "block" /\ b.addr < CONFIG_FB_ADDR + FB_SIZE /\ CONFIG_FB_ADDR < End(b) =>
                /\ b.addr <= CONFIG_FB_ADDR /\ CONFIG_FB_ADDR + FB_SIZE < End(b)
                /\ b.size + Header(b.arena) > FB_SIZE

============================================================================
