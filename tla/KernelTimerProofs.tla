------------------------- MODULE KernelTimerProofs -------------------------
(***************************************************************************)
(* For any number of CPUs, slots and callers: a CPU that slices keeps      *)
(* exactly one slice timer, the one g_nSchedulerTimer names, provided every*)
(* CPU calls Timer() before the first slice timer is started; and a handler*)
(* is never called before its delay has passed, although jiffies wraps     *)
(* around, when every delay is below half its range.                       *)
(***************************************************************************)
EXTENDS KernelTimer, TLAPS, WellFoundedInduction

(* A CPU that does not slice yet has no timers, of either kind. *)
NoSliceYet ==
    \A c \in CPUs : stage[c] # "slice" => \A i \in Slots : m_pHandler[c][i] = "none"

Inv == TypeOK /\ SliceArmed /\ NoSliceYet

(* A remainder is in range. *)
LEMMA ModType ==
  \A a \in Int : /\ a % WORD \in 0 .. WORD - 1
                 /\ a % TIME_WORD \in 0 .. TIME_WORD - 1
  BY KernelTimerAssumption

(* A set of numbers has a least one. *)
LEMMA LeastNatural ==
  ASSUME NEW S, S \subseteq Nat, S # {}
  PROVE  \E i \in S : \A j \in S : i <= j
<1> DEFINE R == OpToRel(<, Nat)
<1>1. \E i \in S : \A j \in S : ~(<<j, i>> \in R)
  BY NatLessThanWellFounded, WFMin
<1>2. \A i, j \in Nat : j < i => <<j, i>> \in R
  BY DEF OpToRel
<1> HIDE DEF R
<1>3. PICK i \in S : \A j \in S : ~(<<j, i>> \in R)
  BY <1>1
<1>4. \A j \in S : ~(j < i)
  BY <1>2, <1>3
<1>5. \A j \in S : i <= j
  BY <1>4
<1> QED BY <1>5

(* TimerStartKernelTimer enters the timer at the slot its handle names, in a slot that
   was free, and changes no other slot of any CPU. It fails only when no slot is free. *)
LEMMA StartEffect ==
  ASSUME TypeOK, NEW c \in CPUs, NEW f \in Slots \cup {-1}, NEW n \in Nat,
         NEW handler \in Handlers, NEW h \in 0 .. KERNEL_TIMERS, Start(c, f, n, handler, h)
  PROVE  /\ m_pHandler' \in [CPUs -> [Slots -> Handlers]]
         /\ m_nElapsesAt' \in [CPUs -> [Slots -> 0 .. WORD - 1]]
         /\ left' \in [CPUs -> [Slots -> Nat]]
         /\ \A d \in CPUs : d # c => m_pHandler'[d] = m_pHandler[d]
         /\ \/ /\ h = 0 /\ UNCHANGED m_pHandler
               /\ \A i \in Slots : m_pHandler[c][i] # "none" /\ i # f
            \/ /\ h # 0 /\ h - 1 \in Slots
               /\ m_pHandler[c][h - 1] = "none" \/ h - 1 = f
               /\ \A i \in Slots : m_pHandler'[c][i] =
                     IF i = h - 1 THEN handler ELSE IF i = f THEN "none" ELSE m_pHandler[c][i]
<1> USE KernelTimerAssumption
<1>0. /\ m_pHandler \in [CPUs -> [Slots -> Handlers]]
      /\ m_nElapsesAt \in [CPUs -> [Slots -> 0 .. WORD - 1]]
      /\ left \in [CPUs -> [Slots -> Nat]] /\ jiffies \in Nat
  BY DEF TypeOK
<1>1. CASE FirstFree(c, f) = {}
  <2>1. h = 0 /\ UNCHANGED <<m_pHandler, m_nElapsesAt, left>>
    BY <1>1 DEF Start, timers
  <2>2. Free(c, f) = {}
    <3>1. Free(c, f) \subseteq Nat
      BY DEF Free, Slots
    <3> QED BY <3>1, <1>1, LeastNatural DEF FirstFree
  <2>3. \A i \in Slots : m_pHandler[c][i] # "none" /\ i # f
    BY <2>2 DEF Free
  <2> QED BY <2>1, <2>3, <1>0
<1>2. CASE FirstFree(c, f) # {}
  <2> DEFINE cleared == [i \in Slots |-> IF i = f THEN "none" ELSE m_pHandler[c][i]]
  <2>1. PICK i \in FirstFree(c, f) :
           /\ h = i + 1
           /\ m_pHandler' = [m_pHandler EXCEPT ![c] = [cleared EXCEPT ![i] = handler]]
           /\ m_nElapsesAt' = [m_nElapsesAt EXCEPT ![c] = [@ EXCEPT ![i] = (jiffies + n) % WORD]]
           /\ left' = [left EXCEPT ![c] = [@ EXCEPT ![i] = n]]
    BY <1>2 DEF Start
  <2>2. i \in Slots /\ (m_pHandler[c][i] = "none" \/ i = f) /\ i \in Nat
    BY DEF FirstFree, Free, Slots
  <2>3. cleared \in [Slots -> Handlers]
    BY <1>0 DEF Handlers
  <2>4. (jiffies + n) % WORD \in 0 .. WORD - 1
    <3>1. jiffies + n \in Int
      BY <1>0
    <3> HIDE DEF cleared
    <3> QED BY <3>1, ModType
  <2>5. m_pHandler' \in [CPUs -> [Slots -> Handlers]]
    BY <2>1, <2>2, <2>3, <1>0
  <2>6. m_nElapsesAt' \in [CPUs -> [Slots -> 0 .. WORD - 1]] /\ left' \in [CPUs -> [Slots -> Nat]]
    BY <2>1, <2>2, <2>4, <1>0
  <2>7. h # 0 /\ h - 1 = i
    BY <2>1, <2>2
  <2>8. \A k \in Slots : m_pHandler'[c][k] =
           IF k = i THEN handler ELSE IF k = f THEN "none" ELSE m_pHandler[c][k]
    BY <2>1, <2>2, <2>3, <1>0
  <2>9. \A d \in CPUs : d # c => m_pHandler'[d] = m_pHandler[d]
    BY <2>1, <1>0
  <2> QED BY <2>2, <2>5, <2>6, <2>7, <2>8, <2>9
<1> QED BY <1>1, <1>2

(* The handle of the slice timer that is started, or restarted, names it. *)
LEMMA StartSliceArms ==
  ASSUME Inv, NEW c \in CPUs, NEW f \in Slots \cup {-1}, NEW n \in Nat,
         NEW h \in 0 .. KERNEL_TIMERS, Start(c, f, n, "slice", h),
         \/ f = -1 /\ stage[c] = "timer"
         \/ f \in Slots /\ stage[c] = "slice" /\ m_pHandler[c][f] = "slice",
         g_nSchedulerTimer' = [g_nSchedulerTimer EXCEPT ![c] = h],
         stage' = [stage EXCEPT ![c] = "slice"]
  PROVE  SliceArmed' /\ NoSliceYet'
<1> USE KernelTimerAssumption
<1>0. /\ g_nSchedulerTimer \in [CPUs -> 0 .. KERNEL_TIMERS]
      /\ stage \in [CPUs -> {"off", "timer", "slice"}]
      /\ m_pHandler \in [CPUs -> [Slots -> Handlers]]
  BY DEF Inv, TypeOK
<1>1. /\ \A d \in CPUs : d # c => m_pHandler'[d] = m_pHandler[d]
      /\ \/ /\ h = 0 /\ \A i \in Slots : m_pHandler[c][i] # "none" /\ i # f
         \/ /\ h # 0 /\ h - 1 \in Slots
            /\ \A i \in Slots : m_pHandler'[c][i] =
                  IF i = h - 1 THEN "slice" ELSE IF i = f THEN "none" ELSE m_pHandler[c][i]
  BY StartEffect DEF Inv, Handlers
<1>2. h # 0
  <2>1. 0 \in Slots
    BY DEF Slots
  <2> QED BY <2>1, <1>1 DEF Inv, NoSliceYet
<1>3. \A i \in Slots : m_pHandler[c][i] = "slice" => i = f
  BY DEF Inv, SliceArmed, NoSliceYet
<1>4. \A i \in Slots : m_pHandler'[c][i] = "slice" <=> i = h - 1
  BY <1>1, <1>2, <1>3
<1> QED BY <1>0, <1>1, <1>2, <1>4 DEF Inv, SliceArmed, NoSliceYet

----------------------------------------------------------------------------
(* The clock's types are preserved by an interrupt. *)
LEMMA TickType ==
  ASSUME TypeOK, Tick
  PROVE  /\ jiffies' \in 0 .. WORD - 1 /\ m_nTime' \in [CPUs -> 0 .. TIME_WORD - 1]
         /\ left' \in [CPUs -> [Slots -> Nat]] /\ lag' \in [CPUs -> 0 .. MAX_LAG]
<1> USE KernelTimerAssumption
<1>0. jiffies + 1 \in Int
  BY DEF TypeOK
<1>1. jiffies' \in 0 .. WORD - 1
  <2>1. (jiffies + 1) % WORD \in 0 .. WORD - 1
    BY <1>0, ModType
  <2> QED BY <2>1 DEF Tick
<1>2. m_nTime' \in [CPUs -> 0 .. TIME_WORD - 1]
  <2>1. m_nTime \in [CPUs -> 0 .. TIME_WORD - 1] /\ m_nTime[DO_TICK_CPU] + 1 \in Int
    BY DEF TypeOK
  <2>2. (m_nTime[DO_TICK_CPU] + 1) % TIME_WORD \in 0 .. TIME_WORD - 1
    BY <2>1, ModType
  <2> QED BY <2>1, <2>2 DEF Tick
<1>3. left' \in [CPUs -> [Slots -> Nat]]
  BY DEF TypeOK, Tick
<1>4. lag' \in [CPUs -> 0 .. MAX_LAG]
  BY DEF TypeOK, Tick
<1> QED BY <1>1, <1>2, <1>3, <1>4

(* The index of the poll stays in the table. *)
LEMMA NextSlotType ==
  ASSUME TypeOK, NEW c \in CPUs, NextSlot(c), hTimer[c] # -1
  PROVE  hTimer' \in [CPUs -> Slots \cup {-1}]
<1>1. hTimer \in [CPUs -> Slots \cup {-1}] /\ hTimer[c] \in 0 .. KERNEL_TIMERS - 1
  BY DEF TypeOK, Slots
<1> DEFINE next == IF hTimer[c] + 1 = KERNEL_TIMERS THEN -1 ELSE hTimer[c] + 1
<1>2. next \in Slots \cup {-1}
  BY <1>1, KernelTimerAssumption DEF Slots
<1>3. hTimer' = [hTimer EXCEPT ![c] = next]
  BY DEF NextSlot
<1> HIDE DEF next
<1> QED BY <1>1, <1>2, <1>3

(* The invariant holds initially. *)
LEMMA InvInit == Init => Inv
<1> USE KernelTimerAssumption
<1> SUFFICES ASSUME Init PROVE Inv
  OBVIOUS
<1>1. TypeOK
  BY DEF Init, TypeOK, Handlers
<1>2. SliceArmed /\ NoSliceYet
  BY DEF Init, SliceArmed, NoSliceYet
<1> QED BY <1>1, <1>2 DEF Inv

(* Every step preserves the invariant when no Timer() comes after a slice timer. *)
LEMMA InvNext == ~LATE_TIMER /\ Inv /\ [Next]_vars => Inv'
<1> USE KernelTimerAssumption
<1> SUFFICES ASSUME ~LATE_TIMER, Inv, [Next]_vars PROVE Inv'
  OBVIOUS
<1>0. TypeOK /\ SliceArmed /\ NoSliceYet
  BY DEF Inv
<1>1. ASSUME NEW c \in CPUs, Timer(c) PROVE Inv'
  <2>1. TypeOK'
    BY <1>0, <1>1 DEF TypeOK, Timer, Handlers
  <2>2. \A d \in CPUs : stage'[d] # "slice"
    BY <1>0, <1>1 DEF TypeOK, Timer
  <2> QED BY <1>1, <2>1, <2>2 DEF Timer, Inv, SliceArmed, NoSliceYet
<1>2. ASSUME NEW c \in CPUs, StartSlice(c) PROVE Inv'
  <2>1. PICK n \in SliceDelays, h \in 0 .. KERNEL_TIMERS :
           Start(c, -1, n, "slice", h) /\ g_nSchedulerTimer' = [g_nSchedulerTimer EXCEPT ![c] = h]
    BY <1>2 DEF StartSlice
  <2>2. stage[c] = "timer" /\ stage' = [stage EXCEPT ![c] = "slice"] /\ UNCHANGED <<clock, hTimer>>
    BY <1>2 DEF StartSlice
  <2>3. SliceArmed' /\ NoSliceYet'
    BY <2>1, <2>2, StartSliceArms
  <2>4. /\ m_pHandler' \in [CPUs -> [Slots -> Handlers]]
        /\ m_nElapsesAt' \in [CPUs -> [Slots -> 0 .. WORD - 1]] /\ left' \in [CPUs -> [Slots -> Nat]]
    BY <1>0, <2>1, StartEffect DEF Handlers
  <2>5. TypeOK'
    BY <1>0, <2>1, <2>2, <2>4 DEF TypeOK, clock
  <2> QED BY <2>3, <2>5 DEF Inv
<1>3. ASSUME NEW c \in CPUs, PollSlice(c) PROVE Inv'
  <2>1. PICK n \in SliceDelays, h \in 0 .. KERNEL_TIMERS :
           /\ Start(c, hTimer[c], n, "slice", h)
           /\ g_nSchedulerTimer' = [g_nSchedulerTimer EXCEPT ![c] = h]
    BY <1>3 DEF PollSlice
  <2>2. /\ hTimer[c] \in Slots /\ m_pHandler[c][hTimer[c]] = "slice" /\ stage[c] = "slice"
        /\ stage' = [stage EXCEPT ![c] = "slice"] /\ UNCHANGED clock
    BY <1>0, <1>3 DEF PollSlice, TypeOK, NoSliceYet
  <2>3. SliceArmed' /\ NoSliceYet'
    BY <2>1, <2>2, StartSliceArms
  <2>4. /\ m_pHandler' \in [CPUs -> [Slots -> Handlers]]
        /\ m_nElapsesAt' \in [CPUs -> [Slots -> 0 .. WORD - 1]] /\ left' \in [CPUs -> [Slots -> Nat]]
    BY <1>0, <2>1, <2>2, StartEffect DEF Handlers
  <2>5. hTimer' \in [CPUs -> Slots \cup {-1}]
    BY <1>0, <1>3, NextSlotType DEF PollSlice
  <2>6. TypeOK'
    BY <1>0, <2>1, <2>2, <2>4, <2>5 DEF TypeOK, clock
  <2> QED BY <2>3, <2>6 DEF Inv
<1>4. ASSUME NEW c \in CPUs, StartKernelTimer(c) PROVE Inv'
  <2>1. PICK n \in Delays, h \in 0 .. KERNEL_TIMERS : Start(c, -1, n, "other", h)
    BY <1>4 DEF StartKernelTimer
  <2>2. stage[c] = "slice" /\ UNCHANGED <<clock, g_nSchedulerTimer, stage, hTimer>>
    BY <1>4 DEF StartKernelTimer
  <2>3. /\ m_pHandler' \in [CPUs -> [Slots -> Handlers]]
        /\ m_nElapsesAt' \in [CPUs -> [Slots -> 0 .. WORD - 1]] /\ left' \in [CPUs -> [Slots -> Nat]]
        /\ \A d \in CPUs : d # c => m_pHandler'[d] = m_pHandler[d]
        /\ \A i \in Slots : m_pHandler'[c][i] = "slice" <=> m_pHandler[c][i] = "slice"
    <3>1. -1 \notin Slots /\ "other" \in Handlers
      BY DEF Slots, Handlers
    <3>2. /\ m_pHandler' \in [CPUs -> [Slots -> Handlers]]
          /\ m_nElapsesAt' \in [CPUs -> [Slots -> 0 .. WORD - 1]] /\ left' \in [CPUs -> [Slots -> Nat]]
          /\ \A d \in CPUs : d # c => m_pHandler'[d] = m_pHandler[d]
      BY <1>0, <2>1, <3>1, StartEffect
    <3>3. \/ UNCHANGED m_pHandler
          \/ /\ h - 1 \in Slots /\ (m_pHandler[c][h - 1] = "none" \/ h - 1 = -1)
             /\ \A i \in Slots : m_pHandler'[c][i] =
                   IF i = h - 1 THEN "other" ELSE IF i = -1 THEN "none" ELSE m_pHandler[c][i]
      BY <1>0, <2>1, <3>1, StartEffect
    <3>4. \A i \in Slots : m_pHandler'[c][i] = "slice" <=> m_pHandler[c][i] = "slice"
      BY <3>1, <3>3
    <3> QED BY <3>2, <3>4
  <2>4. TypeOK'
    BY <1>0, <2>2, <2>3 DEF TypeOK, clock
  <2>5. SliceArmed'
    <3> SUFFICES ASSUME NEW d \in CPUs, stage'[d] = "slice"
                 PROVE  /\ g_nSchedulerTimer'[d] # 0
                        /\ \A i \in Slots : m_pHandler'[d][i] = "slice" <=> i = g_nSchedulerTimer'[d] - 1
      BY DEF SliceArmed
    <3>1. /\ g_nSchedulerTimer[d] # 0
          /\ \A i \in Slots : m_pHandler[d][i] = "slice" <=> i = g_nSchedulerTimer[d] - 1
      BY <1>0, <2>2 DEF SliceArmed
    <3>2. CASE d = c
      BY <2>2, <2>3, <3>1, <3>2
    <3>3. CASE d # c
      BY <2>2, <2>3, <3>1, <3>3
    <3> QED BY <3>2, <3>3
  <2>6. NoSliceYet'
    <3> SUFFICES ASSUME NEW d \in CPUs, stage'[d] # "slice"
                 PROVE  \A i \in Slots : m_pHandler'[d][i] = "none"
      BY DEF NoSliceYet
    <3>1. stage[d] # "slice" /\ d # c
      BY <2>2
    <3>2. m_pHandler'[d] = m_pHandler[d]
      BY <2>3, <3>1
    <3> QED BY <1>0, <3>1, <3>2 DEF NoSliceYet
  <2> QED BY <2>4, <2>5, <2>6 DEF Inv
<1>5. ASSUME NEW c \in CPUs, NEW i \in Slots, m_pHandler[c][i] = "other",
             m_pHandler' = [m_pHandler EXCEPT ![c] = [@ EXCEPT ![i] = "none"]],
             hTimer' \in [CPUs -> Slots \cup {-1}],
             UNCHANGED <<m_nElapsesAt, left, clock, g_nSchedulerTimer, stage>>
      PROVE  Inv'
  <2>1. m_pHandler' \in [CPUs -> [Slots -> Handlers]]
    BY <1>0, <1>5 DEF TypeOK, Handlers
  <2>2. \A d \in CPUs, k \in Slots :
           m_pHandler'[d][k] = IF d = c /\ k = i THEN "none" ELSE m_pHandler[d][k]
    BY <1>0, <1>5 DEF TypeOK
  <2>3. TypeOK'
    BY <1>0, <1>5, <2>1 DEF TypeOK, clock
  <2>4. SliceArmed' /\ NoSliceYet'
    BY <1>0, <1>5, <2>2 DEF SliceArmed, NoSliceYet
  <2> QED BY <2>3, <2>4 DEF Inv
<1>6. ASSUME NEW c \in CPUs, NEW h \in 1 .. KERNEL_TIMERS, CancelKernelTimer(c, h) PROVE Inv'
  <2>1. h - 1 \in Slots
    BY DEF Slots
  <2> QED BY <1>0, <1>5, <1>6, <2>1 DEF CancelKernelTimer, TypeOK
<1>7. ASSUME NEW c \in CPUs, PollOther(c) PROVE Inv'
  <2>1. hTimer[c] \in Slots /\ hTimer' \in [CPUs -> Slots \cup {-1}]
    BY <1>0, <1>7, NextSlotType DEF PollOther, TypeOK
  <2> QED BY <1>5, <1>7, <2>1 DEF PollOther
<1>8. ASSUME NEW c \in CPUs, NEW n \in SliceDelays, UpdateKernelTimer(c, n) PROVE Inv'
  <2> DEFINE i == g_nSchedulerTimer[c] - 1
  <2>1. /\ i \in Slots
        /\ m_nElapsesAt' = [m_nElapsesAt EXCEPT ![c] = [@ EXCEPT ![i] = (jiffies + n + 1) % WORD]]
        /\ left' = [left EXCEPT ![c] = [@ EXCEPT ![i] = n + 1]]
        /\ UNCHANGED <<m_pHandler, clock, g_nSchedulerTimer, stage, hTimer>>
    BY <1>8 DEF UpdateKernelTimer
  <2> HIDE DEF i
  <2>2. (jiffies + n + 1) % WORD \in 0 .. WORD - 1 /\ n + 1 \in Nat
    <3>1. jiffies + n + 1 \in Int /\ n + 1 \in Nat
      BY <1>0 DEF TypeOK
    <3>2. \A a \in Int : a % WORD \in 0 .. WORD - 1
      BY ModType
    <3> QED BY <3>1, <3>2
  <2>3. TypeOK'
    BY <1>0, <2>1, <2>2 DEF TypeOK, clock
  <2>4. SliceArmed' /\ NoSliceYet'
    BY <1>0, <2>1 DEF SliceArmed, NoSliceYet
  <2> QED BY <2>3, <2>4 DEF Inv
<1>9. ASSUME NEW c \in CPUs, TimerInterruptHandler(c) PROVE Inv'
  <2>1. /\ jiffies' \in 0 .. WORD - 1 /\ m_nTime' \in [CPUs -> 0 .. TIME_WORD - 1]
        /\ left' \in [CPUs -> [Slots -> Nat]] /\ lag' \in [CPUs -> 0 .. MAX_LAG]
    <3>1. CASE c = DO_TICK_CPU
      BY <1>0, <1>9, <3>1, TickType DEF TimerInterruptHandler
    <3>2. CASE c # DO_TICK_CPU
      <4>1. /\ lag \in [CPUs -> 0 .. MAX_LAG] /\ 0 \in 0 .. MAX_LAG
            /\ lag' = [lag EXCEPT ![c] = 0] /\ UNCHANGED <<jiffies, m_nTime, left>>
        BY <1>0, <1>9, <3>2 DEF TimerInterruptHandler, TypeOK
      <4>2. lag' \in [CPUs -> 0 .. MAX_LAG]
        BY <4>1
      <4> QED BY <1>0, <4>1, <4>2 DEF TypeOK
    <3> QED BY <3>1, <3>2
  <2>2. hTimer' \in [CPUs -> Slots \cup {-1}]
    BY <1>0, <1>9 DEF TimerInterruptHandler, TypeOK, Slots
  <2>3. UNCHANGED <<m_pHandler, m_nElapsesAt, g_nSchedulerTimer, stage>>
    BY <1>9 DEF TimerInterruptHandler
  <2>4. TypeOK'
    BY <1>0, <2>1, <2>2, <2>3 DEF TypeOK
  <2> QED BY <1>0, <2>3, <2>4 DEF Inv, SliceArmed, NoSliceYet
<1>10. ASSUME NEW c \in CPUs, PollSkips(c) PROVE Inv'
  <2>1. hTimer' \in [CPUs -> Slots \cup {-1}] /\ UNCHANGED <<timers, clock, g_nSchedulerTimer, stage>>
    BY <1>0, <1>10, NextSlotType DEF PollSkips
  <2> QED BY <1>0, <2>1 DEF Inv, TypeOK, SliceArmed, NoSliceYet, timers, clock
<1>11. CASE UNCHANGED vars
  BY <1>0, <1>11 DEF Inv, TypeOK, SliceArmed, NoSliceYet, vars, timers, clock
<1> QED BY <1>1, <1>2, <1>3, <1>4, <1>6, <1>7, <1>8, <1>9, <1>10, <1>11 DEF Next, Poll

(* Every variable has its type in every state. *)
THEOREM TimerTypes == ~LATE_TIMER /\ Spec => []TypeOK
<1>1. Inv => TypeOK
  BY DEF Inv
<1>2. CASE ~LATE_TIMER
  <2>1. Inv /\ [Next]_vars => Inv'
    BY <1>2, InvNext
  <2> QED BY <1>1, <2>1, InvInit, PTL DEF Spec
<1>3. CASE LATE_TIMER
  BY <1>3
<1> QED BY <1>2, <1>3

(* A CPU that slices keeps exactly one slice timer and its handle: SchedulerYieldInterrupt
   always finds a slot, and SchedulerYield postpones that timer and no other. *)
THEOREM SliceTimerKept == ~LATE_TIMER /\ Spec => []SliceArmed
<1>1. Inv => SliceArmed
  BY DEF Inv
<1>2. CASE ~LATE_TIMER
  <2>1. Inv /\ [Next]_vars => Inv'
    BY <1>2, InvNext
  <2> QED BY <1>1, <2>1, InvInit, PTL DEF Spec
<1>3. CASE LATE_TIMER
  BY <1>3
<1> QED BY <1>2, <1>3

----------------------------------------------------------------------------
(* Differences modulo WORD. *)

LEMMA ModSmall ==
  /\ \A x \in 0 .. WORD - 1 : x % WORD = x
  /\ \A x \in WORD .. 2 * WORD - 1 : x % WORD = x - WORD
  /\ \A x \in -WORD .. -1 : x % WORD = x + WORD
  BY KernelTimerAssumption

(* A timer started with delay n is n ticks away, for a delay in range. *)
LEMMA Distance ==
  ASSUME NEW j \in 0 .. WORD - 1, NEW n \in 0 .. WORD - 1
  PROVE  (((j + n) % WORD) - j) % WORD = n
<1> USE KernelTimerAssumption
<1>1. CASE j + n < WORD
  <2>1. (j + n) % WORD = j + n
    BY <1>1, ModSmall
  <2>2. j + n - j = n /\ n % WORD = n
    BY ModSmall
  <2> QED BY <2>1, <2>2
<1>2. CASE j + n >= WORD
  <2>1. (j + n) % WORD = j + n - WORD
    BY <1>2, ModSmall
  <2>2. j + n - WORD - j = n - WORD /\ n - WORD \in -WORD .. -1
    OBVIOUS
  <2>3. (n - WORD) % WORD = n - WORD + WORD
    BY <2>2, ModSmall
  <2> QED BY <2>1, <2>2, <2>3
<1> QED BY <1>1, <1>2

(* A tick brings a timer that is not due one tick nearer. *)
LEMMA Nearer ==
  ASSUME NEW e \in 0 .. WORD - 1, NEW j \in 0 .. WORD - 1, (e - j) % WORD > 0,
         NEW k \in 0 .. WORD - 1, k = (j + 1) % WORD
  PROVE  (e - k) % WORD = ((e - j) % WORD) - 1
<1> USE KernelTimerAssumption
<1>1. e # j
  BY ModSmall
<1>2. CASE e > j
  <2>1. (e - j) % WORD = e - j /\ k = j + 1 /\ e - k \in 0 .. WORD - 1
    BY <1>2, ModSmall
  <2>2. (e - k) % WORD = e - k
    BY <2>1, ModSmall
  <2> QED BY <2>1, <2>2
<1>3. CASE e < j
  <2>1. (e - j) % WORD = e - j + WORD
    BY <1>3, ModSmall
  <2>2. CASE j + 1 < WORD
    <3>1. k = j + 1 /\ e - k \in -WORD .. -1
      BY <1>3, <2>2, ModSmall
    <3>2. (e - k) % WORD = e - k + WORD
      BY <3>1, ModSmall
    <3> QED BY <2>1, <3>1, <3>2
  <2>3. CASE j + 1 = WORD
    <3>1. k = 0 /\ e - k = e
      BY <2>3, ModSmall
    <3>2. e % WORD = e
      BY ModSmall
    <3> QED BY <2>1, <2>3, <3>1, <3>2
  <2> QED BY <2>2, <2>3
<1> QED BY <1>1, <1>2, <1>3

----------------------------------------------------------------------------
(* The delays asked for are shorter than half the range of jiffies. *)
DelaysFit == \A n \in Delays \cup SliceDelays : n + 1 < WORD \div 2

(* While the delay of a timer has not passed, m_nElapsesAt is as far ahead of jiffies,
   modulo 2^32, as ticks are left. *)
Ahead(c, i) ==
    left[c][i] > 0 /\ m_pHandler[c][i] # "none" =>
       /\ left[c][i] < WORD \div 2
       /\ (m_nElapsesAt[c][i] - jiffies) % WORD = left[c][i]

OnTime == \A c \in CPUs, i \in Slots : Ahead(c, i)

(* A slot that is not touched stays on time. *)
LEMMA Untouched ==
  ASSUME NEW c \in CPUs, NEW i \in Slots, Ahead(c, i), jiffies' = jiffies,
         left'[c][i] = left[c][i], m_nElapsesAt'[c][i] = m_nElapsesAt[c][i],
         m_pHandler'[c][i] # "none" => m_pHandler[c][i] # "none"
  PROVE  Ahead(c, i)'
  BY DEF Ahead

(* A slot that is armed with delay n is on time. *)
LEMMA Armed ==
  ASSUME TypeOK, NEW c \in CPUs, NEW i \in Slots, NEW n \in Nat, n < WORD \div 2,
         jiffies' = jiffies, left'[c][i] = n, m_nElapsesAt'[c][i] = (jiffies + n) % WORD
  PROVE  Ahead(c, i)'
<1> USE KernelTimerAssumption
<1>1. jiffies \in 0 .. WORD - 1 /\ n \in 0 .. WORD - 1
  BY DEF TypeOK
<1>2. (((jiffies + n) % WORD) - jiffies) % WORD = n
  BY <1>1, Distance
<1> QED BY <1>2 DEF Ahead

(* TimerStartKernelTimer sets the deadline of the slot it takes and of no other. *)
LEMMA StartOnTime ==
  ASSUME TypeOK, OnTime, NEW c \in CPUs, NEW f \in Slots \cup {-1}, NEW n \in Nat,
         n < WORD \div 2, NEW handler \in Handlers, NEW h \in 0 .. KERNEL_TIMERS,
         Start(c, f, n, handler, h), jiffies' = jiffies
  PROVE  OnTime'
<1> USE KernelTimerAssumption
<1>0. /\ m_pHandler \in [CPUs -> [Slots -> Handlers]]
      /\ m_nElapsesAt \in [CPUs -> [Slots -> 0 .. WORD - 1]]
      /\ left \in [CPUs -> [Slots -> Nat]]
  BY DEF TypeOK
<1>1. CASE FirstFree(c, f) = {}
  BY <1>1, Untouched DEF Start, timers, OnTime
<1>2. CASE FirstFree(c, f) # {}
  <2> DEFINE cleared == [k \in Slots |-> IF k = f THEN "none" ELSE m_pHandler[c][k]]
  <2>1. PICK i \in FirstFree(c, f) :
           /\ m_pHandler' = [m_pHandler EXCEPT ![c] = [cleared EXCEPT ![i] = handler]]
           /\ m_nElapsesAt' = [m_nElapsesAt EXCEPT ![c] = [@ EXCEPT ![i] = (jiffies + n) % WORD]]
           /\ left' = [left EXCEPT ![c] = [@ EXCEPT ![i] = n]]
    BY <1>2 DEF Start
  <2>2. i \in Slots
    BY DEF FirstFree, Free
  <2>3. left'[c][i] = n /\ m_nElapsesAt'[c][i] = (jiffies + n) % WORD
    BY <1>0, <2>1, <2>2
  <2>4. \A d \in CPUs, k \in Slots : ~(d = c /\ k = i) =>
           /\ left'[d][k] = left[d][k] /\ m_nElapsesAt'[d][k] = m_nElapsesAt[d][k]
           /\ m_pHandler'[d][k] # "none" => m_pHandler[d][k] # "none"
    BY <1>0, <2>1, <2>2
  <2>5. ASSUME NEW d \in CPUs, NEW k \in Slots PROVE Ahead(d, k)'
    <3>1. CASE d = c /\ k = i
      BY <2>2, <2>3, <3>1, Armed
    <3>2. CASE ~(d = c /\ k = i)
      BY <2>4, <3>2, Untouched DEF OnTime
    <3> QED BY <3>1, <3>2
  <2> QED BY <2>5 DEF OnTime
<1> QED BY <1>1, <1>2

(* A tick of jiffies brings every timer nearer. *)
LEMMA TickOnTime ==
  ASSUME TypeOK, OnTime, Tick, UNCHANGED <<m_pHandler, m_nElapsesAt>>
  PROVE  OnTime'
<1> USE KernelTimerAssumption
<1>1. SUFFICES ASSUME NEW c \in CPUs, NEW i \in Slots, left'[c][i] > 0, m_pHandler[c][i] # "none"
               PROVE  /\ left'[c][i] < WORD \div 2
                      /\ (m_nElapsesAt[c][i] - jiffies') % WORD = left'[c][i]
  BY DEF OnTime, Ahead
<1>2. left[c][i] \in Nat /\ left'[c][i] = IF left[c][i] > 0 THEN left[c][i] - 1 ELSE 0
  BY DEF TypeOK, Tick
<1>3. left[c][i] > 0 /\ left'[c][i] = left[c][i] - 1
  BY <1>1, <1>2
<1>4. left[c][i] < WORD \div 2 /\ (m_nElapsesAt[c][i] - jiffies) % WORD = left[c][i]
  BY <1>1, <1>3 DEF OnTime, Ahead
<1>5. jiffies \in 0 .. WORD - 1 /\ m_nElapsesAt[c][i] \in 0 .. WORD - 1
  BY DEF TypeOK
<1>6. jiffies' \in 0 .. WORD - 1 /\ jiffies' = (jiffies + 1) % WORD
  BY TickType DEF Tick
<1>7. (m_nElapsesAt[c][i] - jiffies') % WORD = ((m_nElapsesAt[c][i] - jiffies) % WORD) - 1
  BY <1>3, <1>4, <1>5, <1>6, Nearer
<1>8. left[c][i] - 1 < WORD \div 2
  BY <1>2, <1>4
<1> QED BY <1>3, <1>4, <1>7, <1>8

(* Every step keeps the timers on time. *)
LEMMA OnTimeNext == DelaysFit /\ Inv /\ OnTime /\ [Next]_vars => OnTime'
<1> USE KernelTimerAssumption
<1> SUFFICES ASSUME DelaysFit, Inv, OnTime, [Next]_vars PROVE OnTime'
  OBVIOUS
<1>0. TypeOK
  BY DEF Inv
<1>d. \A n \in Delays \cup SliceDelays : n \in Nat /\ n + 1 \in Nat /\ n + 1 < WORD \div 2 /\ n < WORD \div 2
  BY DEF DelaysFit
<1>1. ASSUME NEW c \in CPUs, Timer(c) PROVE OnTime'
  BY <1>1 DEF Timer, OnTime, Ahead
<1>2. ASSUME NEW c \in CPUs, NEW f \in Slots \cup {-1}, NEW n \in Delays \cup SliceDelays,
             NEW handler \in {"slice", "other"}, NEW h \in 0 .. KERNEL_TIMERS,
             Start(c, f, n, handler, h), jiffies' = jiffies
      PROVE  OnTime'
  <2>1. handler \in Handlers
    BY DEF Handlers
  <2> QED BY <1>0, <1>2, <1>d, <2>1, StartOnTime
<1>3. ASSUME NEW c \in CPUs, StartSlice(c) PROVE OnTime'
  BY <1>2, <1>3 DEF StartSlice, clock
<1>4. ASSUME NEW c \in CPUs, StartKernelTimer(c) PROVE OnTime'
  BY <1>2, <1>4 DEF StartKernelTimer, clock
<1>5. ASSUME NEW c \in CPUs, PollSlice(c) PROVE OnTime'
  <2>1. hTimer[c] \in Slots
    BY <1>0, <1>5 DEF PollSlice, TypeOK
  <2> QED BY <1>2, <1>5, <2>1 DEF PollSlice, clock
<1>6. ASSUME NEW c \in CPUs, NEW i \in Slots,
             m_pHandler' = [m_pHandler EXCEPT ![c] = [@ EXCEPT ![i] = "none"]],
             UNCHANGED <<m_nElapsesAt, left, jiffies>>
      PROVE  OnTime'
  <2>1. \A d \in CPUs, k \in Slots :
           m_pHandler'[d][k] = IF d = c /\ k = i THEN "none" ELSE m_pHandler[d][k]
    BY <1>0, <1>6 DEF TypeOK
  <2>2. ASSUME NEW d \in CPUs, NEW k \in Slots PROVE Ahead(d, k)'
    BY <1>6, <2>1, Untouched DEF OnTime
  <2> QED BY <2>2 DEF OnTime
<1>7. ASSUME NEW c \in CPUs, NEW h \in 1 .. KERNEL_TIMERS, CancelKernelTimer(c, h) PROVE OnTime'
  <2>1. h - 1 \in Slots
    BY DEF Slots
  <2> QED BY <1>6, <1>7, <2>1 DEF CancelKernelTimer, clock
<1>8. ASSUME NEW c \in CPUs, PollOther(c) PROVE OnTime'
  <2>1. hTimer[c] \in Slots
    BY <1>0, <1>8 DEF PollOther, TypeOK
  <2> QED BY <1>6, <1>8, <2>1 DEF PollOther, clock
<1>9. ASSUME NEW c \in CPUs, NEW n \in SliceDelays, UpdateKernelTimer(c, n) PROVE OnTime'
  <2> DEFINE i == g_nSchedulerTimer[c] - 1
  <2>1. /\ i \in Slots
        /\ m_nElapsesAt' = [m_nElapsesAt EXCEPT ![c] = [@ EXCEPT ![i] = (jiffies + n + 1) % WORD]]
        /\ left' = [left EXCEPT ![c] = [@ EXCEPT ![i] = n + 1]]
        /\ m_pHandler' = m_pHandler /\ jiffies' = jiffies
    BY <1>9 DEF UpdateKernelTimer, clock
  <2> HIDE DEF i
  <2>2. jiffies + n + 1 = jiffies + (n + 1)
    BY <1>0 DEF TypeOK
  <2>3. left'[c][i] = n + 1 /\ m_nElapsesAt'[c][i] = (jiffies + (n + 1)) % WORD
    BY <1>0, <2>1, <2>2 DEF TypeOK
  <2>4. \A d \in CPUs, k \in Slots : ~(d = c /\ k = i) =>
           left'[d][k] = left[d][k] /\ m_nElapsesAt'[d][k] = m_nElapsesAt[d][k]
    BY <1>0, <2>1 DEF TypeOK
  <2>5. ASSUME NEW d \in CPUs, NEW k \in Slots PROVE Ahead(d, k)'
    <3>1. CASE d = c /\ k = i
      BY <1>0, <1>d, <2>1, <2>3, <3>1, Armed
    <3>2. CASE ~(d = c /\ k = i)
      BY <2>1, <2>4, <3>2, Untouched DEF OnTime
    <3> QED BY <3>1, <3>2
  <2> QED BY <2>5 DEF OnTime
<1>10. ASSUME NEW c \in CPUs, TimerInterruptHandler(c) PROVE OnTime'
  <2>1. CASE c = DO_TICK_CPU
    BY <1>0, <1>10, <2>1, TickOnTime DEF TimerInterruptHandler
  <2>2. CASE c # DO_TICK_CPU
    BY <1>10, <2>2 DEF TimerInterruptHandler, OnTime, Ahead
  <2> QED BY <2>1, <2>2
<1>11. ASSUME NEW c \in CPUs, PollSkips(c) PROVE OnTime'
  BY <1>11 DEF PollSkips, timers, clock, OnTime, Ahead
<1>12. CASE UNCHANGED vars
  BY <1>12 DEF vars, timers, clock, OnTime, Ahead
<1> QED BY <1>1, <1>3, <1>4, <1>5, <1>7, <1>8, <1>9, <1>10, <1>11, <1>12 DEF Next, Poll

(* A handler is called only when its delay has passed. *)
LEMMA ElapsedIsDue ==
  ASSUME TypeOK, OnTime, NEW c \in CPUs, NEW i \in Slots, Elapsed(c, i)
  PROVE  left[c][i] = 0
<1> USE KernelTimerAssumption
<1>1. SUFFICES ASSUME left[c][i] # 0 PROVE FALSE
  OBVIOUS
<1>2. left[c][i] \in Nat /\ left[c][i] > 0 /\ m_pHandler[c][i] # "none"
  BY <1>1 DEF TypeOK, Elapsed
<1>3. left[c][i] < WORD \div 2 /\ (m_nElapsesAt[c][i] - jiffies) % WORD = left[c][i]
  BY <1>2 DEF OnTime, Ahead
<1> QED BY <1>2, <1>3 DEF Elapsed, Signed

(* TimerPollKernelTimers calls no handler before the delay that was asked for has passed,
   wherever jiffies wraps around, when every delay is below half of its range. *)
THEOREM CalledOnTime == ~LATE_TIMER /\ DelaysFit /\ Spec => NeverEarly
<1> DEFINE Step == \A c \in CPUs : PollSlice(c) \/ PollOther(c) => left[c][hTimer[c]] = 0
<1>1. Init => OnTime
  BY DEF Init, OnTime, Ahead
<1>2. ASSUME Inv, OnTime, NEW c \in CPUs, PollSlice(c) \/ PollOther(c)
      PROVE  left[c][hTimer[c]] = 0
  <2>1. hTimer[c] \in Slots /\ Elapsed(c, hTimer[c])
    BY <1>2 DEF PollSlice, PollOther, Inv, TypeOK
  <2> QED BY <1>2, <2>1, ElapsedIsDue DEF Inv
<1>3. Inv /\ OnTime => Step
  BY <1>2
<1>4. CASE ~LATE_TIMER /\ DelaysFit
  <2>1. Inv /\ [Next]_vars => Inv'
    BY <1>4, InvNext
  <2>2. Inv /\ OnTime /\ [Next]_vars => OnTime'
    BY <1>4, OnTimeNext
  <2> QED BY <1>1, <1>3, <2>1, <2>2, InvInit, PTL DEF Spec, NeverEarly
<1>5. CASE LATE_TIMER \/ ~DelaysFit
  BY <1>5
<1> QED BY <1>4, <1>5

============================================================================
