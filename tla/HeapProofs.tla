----------------------------- MODULE HeapProofs -----------------------------
(* What Heap proves for every layout of the memory and every set of buckets. *)
EXTENDS Heap, TLAPS

(* The three arenas follow each other.                                     *)
LEMMA Arithmetic ==
    /\ heap_start \in Nat /\ heap_size \in Nat /\ ulQuarterSize \in Nat
    /\ heap_start = ulBase /\ heap_size = ulSize
    /\ ulQuarterSize <= heap_size
<1>1. heap_start = ulBase /\ heap_start \in Nat
  BY LayoutAssumption DEF heap_start
<1>2. (heap_start + ulSize) % WORD = heap_start + ulSize
  BY <1>1, LayoutAssumption
<1>3. heap_size = ulSize /\ heap_size \in Nat
  BY <1>1, <1>2, LayoutAssumption DEF heap_size
<1>4. DEFINE m == (heap_size * 3) % WORD
<1>5. m \in Nat /\ m <= heap_size * 3
  BY <1>3, LayoutAssumption
<1>6. m \div 4 \in Nat /\ m \div 4 <= heap_size
  <2> HIDE DEF m
  <2> QED BY <1>5, <1>3
<1> QED BY <1>1, <1>3, <1>6 DEF ulQuarterSize

LEMMA PageBehind ==
    ASSUME NEW x \in Nat, NEW d \in Nat \ {0}
    PROVE  ((x + d) \div d) * d \in Nat /\ x < ((x + d) \div d) * d
OBVIOUS

(* The arenas of blocks, pages and DMA blocks follow each other.           *)
LEMMA ArenasFollow ==
    /\ \A a \in Arenas : First(a) \in Nat /\ Limit(a) \in Nat
    /\ Limit("block") <= First("page") /\ Limit("page") <= First("dma")
    /\ First("block") = ulBase /\ Limit("block") <= Limit("page")
    /\ \A a \in Arenas : First(a) > 0
<1>1. DEFINE page == ((heap_start + ulQuarterSize + PAGE_SIZE) \div PAGE_SIZE) * PAGE_SIZE
<1>2. page \in Nat /\ heap_start + ulQuarterSize < page
  <2>1. heap_start + ulQuarterSize \in Nat
    BY Arithmetic
  <2> QED BY <2>1, PageBehind, LayoutAssumption
<1>3. First("page") = page /\ First("block") = heap_start /\ First("dma") = ulDMABase
  BY DEF First
<1>4. /\ Limit("page") = heap_start + heap_size /\ Limit("block") = heap_start + ulQuarterSize
      /\ Limit("dma") = ulDMABase + ulDMASize
  BY DEF Limit
<1> HIDE DEF page
<1> QED BY <1>2, <1>3, <1>4, Arithmetic, LayoutAssumption DEF Arenas

LEMMA ArenasApart ==
    ASSUME NEW d \in Arenas, NEW e \in Arenas, d # e
    PROVE  Limit(d) <= First(e) \/ Limit(e) <= First(d)
<1>1. Limit("block") <= First("dma")
  BY ArenasFollow DEF Arenas
<1> QED BY <1>1, ArenasFollow DEF Arenas

(* What Carve returns, when no address passes 2^32.                        *)
LEMMA CarveFacts ==
    ASSUME NEW a \in Arenas, NEW n \in Nat, NEW size \in Nat
    PROVE  LET c == Carve(a, n, size) IN
           /\ c.addr \in Nat /\ c.behind \in Nat
           /\ ~c.wraps =>
                /\ n <= c.addr
                /\ c.behind = c.addr + Header(a) + size
                /\ a = "block" =>
                     \/ c.addr = n /\ (c.behind <= CONFIG_FB_ADDR \/ c.behind > CONFIG_FB_ADDR + FB_SIZE)
                     \/ c.addr > CONFIG_FB_ADDR + FB_SIZE
<1>1. DEFINE step == Header(a) + size
             behind == (n + step) % WORD
             onScreen == /\ a = "block"
                         /\ behind > CONFIG_FB_ADDR
                         /\ behind <= CONFIG_FB_ADDR + FB_SIZE
             start == IF onScreen THEN CONFIG_FB_ADDR + FB_SIZE + 1 ELSE n
             past == (start + step) % WORD
             wraps == n + step >= WORD \/ start + step >= WORD
<1>2. Carve(a, n, size) = [addr |-> start, behind |-> past, wraps |-> wraps]
  BY DEF Carve
<1>3. step \in Nat /\ step = Header(a) + size /\ Header(a) \in Nat
  BY DEF Header
<1>4. WORD \in Nat \ {0} /\ CONFIG_FB_ADDR \in Nat /\ FB_SIZE \in Nat
  BY LayoutAssumption
<1> HIDE DEF step
<1>5. behind \in Nat /\ (n + step < WORD => behind = n + step)
  BY <1>3, <1>4
<1>6. start \in Nat
  BY <1>4
<1> HIDE DEF start
<1>7. past \in Nat /\ (start + step < WORD => past = start + step)
  BY <1>3, <1>4, <1>6
<1> HIDE DEF behind, past
<1>8. ASSUME ~wraps
      PROVE  /\ n <= start /\ past = start + step
             /\ a = "block" =>
                  \/ start = n /\ (past <= CONFIG_FB_ADDR \/ past > CONFIG_FB_ADDR + FB_SIZE)
                  \/ start > CONFIG_FB_ADDR + FB_SIZE
  <2>1. n + step < WORD /\ start + step < WORD
    BY <1>8, <1>3, <1>4, <1>6
  <2>2. behind = n + step /\ past = start + step
    BY <2>1, <1>5, <1>7
  <2>3. CASE onScreen
    <3>1. start = CONFIG_FB_ADDR + FB_SIZE + 1
      BY <2>3 DEF start
    <3> QED BY <2>2, <2>3, <3>1, <1>3, <1>4
  <2>4. CASE ~onScreen
    <3>1. start = n
      BY <2>4 DEF start
    <3> QED BY <2>2, <2>4, <3>1, <1>3, <1>4
  <2> QED BY <2>3, <2>4
<1> HIDE DEF wraps
<1>9. /\ Carve(a, n, size).addr = start /\ Carve(a, n, size).behind = past
      /\ Carve(a, n, size).wraps = wraps
  BY <1>2
<1>10. start + step = start + Header(a) + size
  BY <1>3, <1>6
<1> QED BY <1>6, <1>7, <1>8, <1>9, <1>10

----------------------------------------------------------------------------
(* The inductive invariant, for the arenas that have not wrapped: the      *)
(* blocks lie between the start of the arena and the pointer, which is     *)
(* where the next block comes, and the pointer is not on the screen.       *)

Typed == TypeOK /\ live \cap free = {}

Ahead == \A a \in Arenas : a \notin wrapped => First(a) <= next[a]

Placed ==
    \A b \in Blocks :
        b.arena \notin wrapped =>
            /\ First(b.arena) <= b.addr
            /\ End(b) <= next[b.arena] /\ End(b) <= Limit(b.arena)

Separate ==
    \A b, c \in Blocks :
        b # c /\ b.arena = c.arena /\ b.arena \notin wrapped => Apart(b, c)

\* an end of a block, or the pointer, that is not on the screen
Clear(x) == x <= CONFIG_FB_ADDR \/ x > CONFIG_FB_ADDR + FB_SIZE

Screen ==
    "block" \notin wrapped =>
        /\ Clear(next["block"])
        /\ \A b \in Blocks : b.arena = "block" => Clear(b.addr) /\ Clear(End(b))

Inv == Typed /\ Ahead /\ Placed /\ Separate /\ Screen

LEMMA BucketType == \A a \in Arenas : Buckets(a) \subseteq Nat
BY LayoutAssumption DEF Arenas, Buckets

LEMMA InvInit == Init => Inv
<1> SUFFICES ASSUME Init PROVE Inv
  OBVIOUS
<1> USE DEF Init
<1>1. Blocks = {}
  BY DEF Blocks
<1>2. Typed
  BY <1>1, ArenasFollow DEF Typed, TypeOK
<1>3. Ahead
  BY ArenasFollow DEF Ahead
<1>4. Placed /\ Separate
  BY <1>1 DEF Placed, Separate
<1>5. Screen
  BY <1>1, ArenasFollow, LayoutAssumption DEF Screen, Clear, Arenas
<1> QED BY <1>2, <1>3, <1>4, <1>5 DEF Inv

(* A step that moves blocks between live and free keeps the invariant.     *)
LEMMA SameBlocks ==
    ASSUME Inv, Blocks' = Blocks, live' \cap free' = {}, UNCHANGED <<next, wrapped>>
    PROVE  Inv'
<1>1. Typed'
  BY DEF Inv, Typed, TypeOK
<1>2. Ahead' /\ Placed' /\ Separate' /\ Screen'
  BY DEF Inv, Ahead, Placed, Separate, Screen
<1> QED BY <1>1, <1>2 DEF Inv

LEMMA CarveNewKeeps ==
    ASSUME Inv, NEW arena \in Arenas, NEW size \in Buckets(arena), CarveNew(arena, size)
    PROVE  Inv'
<1>1. DEFINE new == Carve(arena, next[arena], size)
             block == [arena |-> arena, addr |-> new.addr, size |-> size]
<1>2. size \in Nat /\ next \in [Arenas -> Nat] /\ wrapped \subseteq Arenas
  BY BucketType DEF Inv, Typed, TypeOK
<1>3. /\ new.addr \in Nat /\ new.behind \in Nat
      /\ ~new.wraps =>
           /\ next[arena] <= new.addr
           /\ new.behind = new.addr + Header(arena) + size
           /\ arena = "block" =>
                \/ new.addr = next[arena]
                   /\ (new.behind <= CONFIG_FB_ADDR \/ new.behind > CONFIG_FB_ADDR + FB_SIZE)
                \/ new.addr > CONFIG_FB_ADDR + FB_SIZE
  BY <1>2, CarveFacts
<1>4. /\ \A b \in free : b.arena = arena => b.size # size
      /\ next' = [next EXCEPT ![arena] = new.behind]
      /\ wrapped' = IF new.wraps THEN wrapped \cup {arena} ELSE wrapped
      /\ live' = IF new.behind > Limit(arena) THEN live ELSE live \cup {block}
      /\ free' = free
  BY DEF CarveNew
<1> HIDE DEF new
<1>5. block.arena = arena /\ block.addr = new.addr /\ block.size = size
  OBVIOUS
<1>6. block \in [arena : Arenas, addr : Nat, size : Nat]
  BY <1>2, <1>3
<1>7. End(block) = new.addr + Header(arena) + size
  BY <1>5 DEF End
<1>8. block \notin free
  BY <1>4, <1>5
<1> HIDE DEF block
<1>9. Blocks' \subseteq Blocks \cup {block} /\ wrapped \subseteq wrapped'
  BY <1>4 DEF Blocks
<1>10. block \in Blocks' => block \in Blocks \/ new.behind <= Limit(arena)
  BY <1>4, <1>3, ArenasFollow DEF Blocks
<1>11. /\ next'[arena] = new.behind
       /\ \A a \in Arenas : a # arena => next'[a] = next[a]
  BY <1>2, <1>4
<1>12. arena \notin wrapped' => ~new.wraps /\ arena \notin wrapped
  BY <1>4
<1>13. Header(arena) \in Nat /\ \A a \in Arenas : First(a) \in Nat /\ Limit(a) \in Nat
  BY ArenasFollow DEF Header
<1>14. \A b \in Blocks : b.arena \in Arenas /\ b.addr \in Nat /\ b.size \in Nat /\ End(b) \in Nat
  BY DEF Inv, Typed, TypeOK, End, Header
<1>t. Typed'
  <2>1. live' \cap free' = {}
    BY <1>4, <1>8 DEF Inv, Typed
  <2>2. next' \in [Arenas -> Nat]
    BY <1>2, <1>3, <1>4
  <2>3. wrapped' \subseteq Arenas
    BY <1>2, <1>4
  <2>4. Blocks' \subseteq [arena : Arenas, addr : Nat, size : Nat]
    BY <1>6, <1>9 DEF Inv, Typed, TypeOK
  <2> QED BY <2>1, <2>2, <2>3, <2>4 DEF Typed, TypeOK
<1>a. Ahead'
  <2> SUFFICES ASSUME NEW a \in Arenas, a \notin wrapped'
               PROVE  First(a) <= next'[a]
    BY DEF Ahead
  <2>1. First(a) <= next[a]
    BY <1>9 DEF Inv, Ahead
  <2>2. CASE a = arena
    BY <2>1, <2>2, <1>2, <1>3, <1>11, <1>12, <1>13
  <2> QED BY <2>1, <2>2, <1>11
<1>p. Placed'
  <2> SUFFICES ASSUME NEW b \in Blocks', b.arena \notin wrapped'
               PROVE  /\ First(b.arena) <= b.addr
                      /\ End(b) <= next'[b.arena] /\ End(b) <= Limit(b.arena)
    BY DEF Placed
  <2>1. CASE b \in Blocks
    <3>1. /\ First(b.arena) <= b.addr
          /\ End(b) <= next[b.arena] /\ End(b) <= Limit(b.arena)
      BY <2>1, <1>9 DEF Inv, Placed
    <3>2. CASE b.arena = arena
      BY <3>1, <3>2, <1>2, <1>3, <1>11, <1>12, <1>13, <1>14, <2>1
    <3>3. CASE b.arena # arena
      BY <3>1, <3>3, <1>11, <1>14, <2>1
    <3> QED BY <3>2, <3>3
  <2>2. CASE b \notin Blocks
    <3>1. b = block /\ new.behind <= Limit(arena)
      BY <2>2, <1>9, <1>10
    <3>2. First(arena) <= next[arena] /\ ~new.wraps
      BY <3>1, <1>5, <1>12 DEF Inv, Ahead
    <3> QED BY <3>1, <3>2, <1>2, <1>3, <1>5, <1>7, <1>11, <1>13
  <2> QED BY <2>1, <2>2
<1>s. Separate'
  <2>1. ASSUME NEW b \in Blocks, b.arena = arena, arena \notin wrapped'
        PROVE  End(b) <= new.addr
    <3>1. End(b) <= next[arena] /\ next[arena] <= new.addr
      BY <2>1, <1>3, <1>12 DEF Inv, Placed
    <3> QED BY <3>1, <1>2, <1>3, <1>14
  <2> SUFFICES ASSUME NEW b \in Blocks', NEW c \in Blocks',
                      b # c, b.arena = c.arena, b.arena \notin wrapped'
               PROVE  Apart(b, c)
    BY DEF Separate, Apart, End
  <2>2. CASE b \in Blocks /\ c \in Blocks
    BY <2>2, <1>9 DEF Inv, Separate
  <2>3. CASE b \notin Blocks
    BY <2>1, <2>3, <1>5, <1>9 DEF Apart
  <2>4. CASE c \notin Blocks
    BY <2>1, <2>4, <1>5, <1>9 DEF Apart
  <2> QED BY <2>2, <2>3, <2>4
<1>c. Screen'
  <2> SUFFICES ASSUME "block" \notin wrapped'
               PROVE  /\ Clear(next'["block"])
                      /\ \A b \in Blocks' : b.arena = "block" => Clear(b.addr) /\ Clear(End(b))
    BY DEF Screen, Clear, End
  <2>1. /\ Clear(next["block"])
        /\ \A b \in Blocks : b.arena = "block" => Clear(b.addr) /\ Clear(End(b))
    BY <1>9 DEF Inv, Screen
  <2>2. CASE arena # "block"
    <3>1. next'["block"] = next["block"]
      BY <2>2, <1>11 DEF Arenas
    <3> QED BY <3>1, <2>1, <2>2, <1>5, <1>9
  <2>3. CASE arena = "block"
    <3>1. ~new.wraps
      BY <2>3, <1>12
    <3>2. Clear(new.addr) /\ Clear(new.behind)
      BY <3>1, <2>1, <2>3, <1>2, <1>3, <1>13, LayoutAssumption DEF Clear
    <3>3. End(block) = new.behind /\ block.addr = new.addr /\ next'["block"] = new.behind
      BY <3>1, <2>3, <1>3, <1>5, <1>7, <1>11
    <3> QED BY <3>2, <3>3, <2>1, <1>9
  <2> QED BY <2>2, <2>3
<1> QED BY <1>t, <1>a, <1>p, <1>s, <1>c DEF Inv

(* A new block starts where no block starts.                               *)
LEMMA FreshBlock ==
    ASSUME Inv, wrapped = {}, NEW arena \in Arenas, NEW size \in Buckets(arena),
           ~Carve(arena, next[arena], size).wraps,
           Carve(arena, next[arena], size).behind <= Limit(arena)
    PROVE  /\ Carve(arena, next[arena], size).addr \in Nat \ {0}
           /\ \A b \in Blocks :
                 b.size > 0 => b.addr # Carve(arena, next[arena], size).addr
<1>1. DEFINE new == Carve(arena, next[arena], size)
<1>2. size \in Nat /\ next[arena] \in Nat /\ Header(arena) \in Nat
  BY BucketType DEF Inv, Typed, TypeOK, Header
<1>3. /\ new.addr \in Nat /\ new.behind \in Nat /\ next[arena] <= new.addr
      /\ new.behind = new.addr + Header(arena) + size
  BY <1>2, CarveFacts
<1>4. new.behind <= Limit(arena)
  OBVIOUS
<1> HIDE DEF new
<1>5. First(arena) <= next[arena] /\ First(arena) \in Nat /\ Limit(arena) \in Nat
  BY ArenasFollow DEF Inv, Ahead
<1>6. First(arena) > 0
  BY ArenasFollow
<1>7. ASSUME NEW b \in Blocks, b.size > 0 PROVE b.addr # new.addr
  <2>1. /\ b.arena \in Arenas /\ b.addr \in Nat /\ b.size \in Nat
        /\ End(b) = b.addr + Header(b.arena) + b.size /\ Header(b.arena) \in Nat
    BY DEF Inv, Typed, TypeOK, End, Header
  <2>2. First(b.arena) <= b.addr /\ End(b) <= next[b.arena] /\ End(b) <= Limit(b.arena)
    BY DEF Inv, Placed
  <2>3. CASE b.arena = arena
    BY <1>2, <1>3, <1>7, <2>1, <2>2, <2>3
  <2>4. CASE b.arena # arena
    <3>1. Limit(arena) <= First(b.arena) \/ Limit(b.arena) <= First(arena)
      BY <2>1, <2>4, ArenasApart
    <3>2. First(b.arena) \in Nat /\ Limit(b.arena) \in Nat
      BY <2>1, ArenasFollow
    <3>3. CASE Limit(arena) <= First(b.arena)
      <4>1. new.addr <= Limit(arena) /\ (new.addr = Limit(arena) => size = 0)
        BY <1>2, <1>3, <1>4, <1>5
      <4>2. size > 0
        BY LayoutAssumption DEF Arenas, Buckets
      <4> QED BY <1>2, <1>3, <1>5, <2>1, <2>2, <3>2, <3>3, <4>1, <4>2
    <3>4. CASE Limit(b.arena) <= First(arena)
      BY <1>2, <1>3, <1>5, <1>7, <2>1, <2>2, <3>2, <3>4
    <3> QED BY <3>1, <3>3, <3>4
  <2> QED BY <2>3, <2>4
<1>8. new.addr \in Nat \ {0}
  BY <1>2, <1>3, <1>5, <1>6
<1>9. \A b \in Blocks : b.size > 0 => b.addr # new.addr
  BY <1>7
<1> QED BY <1>8, <1>9 DEF new

LEMMA InvNext == Inv /\ [Next]_vars => Inv'
<1> SUFFICES ASSUME Inv, [Next]_vars PROVE Inv'
  OBVIOUS
<1>1. ASSUME NEW a \in Arenas, NEW size \in Buckets(a), Reuse(a, size)
      PROVE  Inv'
  BY <1>1, SameBlocks DEF Reuse, Blocks, Inv, Typed
<1>2. ASSUME NEW a \in Arenas, NEW size \in Buckets(a), CarveNew(a, size)
      PROVE  Inv'
  BY <1>2, CarveNewKeeps
<1>3. ASSUME NEW b \in live, Release(b)
      PROVE  Inv'
  BY <1>3, SameBlocks DEF Release, Blocks, Inv, Typed
<1>4. CASE UNCHANGED vars
  BY <1>4, SameBlocks DEF vars, Blocks, Inv, Typed
<1> QED BY <1>1, <1>2, <1>3, <1>4 DEF Next, Allocate

LEMMA InvAlways == Spec => []Inv
BY InvInit, InvNext, PTL DEF Spec

LEMMA InvApart == Inv => HeapDisjoint
<1>1. ASSUME Inv, wrapped = {}, NEW b \in Blocks, NEW c \in Blocks, b # c
      PROVE  Apart(b, c)
  <2>1. /\ First(b.arena) <= b.addr /\ End(b) <= Limit(b.arena)
        /\ First(c.arena) <= c.addr /\ End(c) <= Limit(c.arena)
    BY <1>1 DEF Inv, Placed
  <2>2. /\ b.arena \in Arenas /\ b.addr \in Nat /\ End(b) \in Nat
        /\ c.arena \in Arenas /\ c.addr \in Nat /\ End(c) \in Nat
    BY <1>1 DEF Inv, Typed, TypeOK, End, Header
  <2>3. CASE b.arena = c.arena
    BY <1>1, <2>3 DEF Inv, Separate
  <2>5. CASE b.arena # c.arena
    <3>1. Limit(b.arena) <= First(c.arena) \/ Limit(c.arena) <= First(b.arena)
      BY <2>2, <2>5, ArenasApart
    <3> QED BY <3>1, <2>1, <2>2, ArenasFollow DEF Apart
  <2> QED BY <2>3, <2>5
<1> QED BY <1>1 DEF HeapDisjoint, Disjoint, Inv, Typed

(* Whatever is allocated and freed, in whatever order, no two blocks       *)
(* overlap and no block is both in use and on a list.                      *)
THEOREM BlocksApart == Spec => []HeapDisjoint
BY InvApart, InvAlways, PTL

(* Every block is inside its arena.                                        *)
THEOREM BlocksInArena == Spec => []HeapInArena
<1>1. Inv => HeapInArena
  BY DEF HeapInArena, InArena, Inv, Placed
<1> QED BY <1>1, InvAlways, PTL

(* Whatever the buckets are, a block of malloc that touches the            *)
(* framebuffer is larger than it and holds all of it: those of the buckets *)
(* up to 2 MB never do.                                                    *)
THEOREM ScreenWhole == Spec => []HeapScreenWhole
<1>1. Inv => HeapScreenWhole
  <2> SUFFICES ASSUME Inv, wrapped = {}, NEW b \in Blocks, b.arena = "block",
                      b.addr < CONFIG_FB_ADDR + FB_SIZE, CONFIG_FB_ADDR < End(b)
               PROVE  /\ b.addr <= CONFIG_FB_ADDR /\ CONFIG_FB_ADDR + FB_SIZE < End(b)
                      /\ b.size + Header(b.arena) > FB_SIZE
    BY DEF HeapScreenWhole
  <2>1. Clear(b.addr) /\ Clear(End(b))
    BY DEF Inv, Screen
  <2>2. b.addr \in Nat /\ b.size \in Nat /\ Header(b.arena) \in Nat
    BY DEF Inv, Typed, TypeOK, Header
  <2> QED BY <2>1, <2>2, LayoutAssumption DEF Clear, End
<1> QED BY <1>1, InvAlways, PTL

============================================================================
