---------------------------- MODULE KernelTimer ----------------------------
(***************************************************************************)
(* The kernel timers of env/lib/timer.c: one table of KERNEL_TIMERS slots  *)
(* per CPU, polled by that CPU's private timer interrupt, and the slice    *)
(* timer each scheduling CPU keeps in its table. jiffies is advanced by    *)
(* one CPU only and read by all.                                           *)
(*                                                                         *)
(* A CPU's own interrupt cannot come between the steps of its poll, nor    *)
(* into TimerStartKernelTimer (both are critical sections); the steps of   *)
(* different CPUs interleave, so each slot of a poll is a step.            *)
(***************************************************************************)
EXTENDS Integers

CONSTANTS
    CPUs,            \* the CPUs that schedule: 0 and 3
    DO_TICK_CPU,     \* the one that advances jiffies
    KERNEL_TIMERS,   \* 20
    WORD,            \* 2^32
    TIME_WORD,       \* 2^32 too, the range of m_nTime
    HZ,              \* 1000
    SliceDelays,     \* mPriority of tasks, and TASK_SWTICH_TIME * HZ
    Delays,          \* delays other callers of StartKernelTimer ask for
    MAX_LAG,         \* how many ticks a CPU's poll may lag behind: the private timers
                     \* of all CPUs run at the same rate
    LATE_TIMER       \* TRUE: a CPU may call Timer() when another has slices already

Slots == 0 .. KERNEL_TIMERS - 1
Handlers == {"none", "slice", "other"}

ASSUME KernelTimerAssumption ==
    /\ DO_TICK_CPU \in CPUs
    /\ KERNEL_TIMERS \in Nat \ {0} /\ WORD \in Nat \ {0} /\ TIME_WORD \in Nat \ {0}
    /\ HZ \in Nat \ {0}
    /\ SliceDelays \subseteq Nat /\ Delays \subseteq Nat
    /\ MAX_LAG \in Nat /\ LATE_TIMER \in BOOLEAN

VARIABLES
    jiffies,
    m_nTime,            \* TTimer of each CPU: seconds
    m_pHandler,         \* its slots: what is to be called
    m_nElapsesAt,       \* and when
    g_nSchedulerTimer,  \* handle of each CPU's slice timer, 0 before it is started
    stage,              \* how far each CPU has come: "off", "timer" or "slice"
    hTimer,             \* slot the CPU's poll is at, -1 outside the interrupt
    left,               \* history: ticks until a slot's delay has passed
    lag                 \* history: ticks since the CPU's last timer interrupt

timers == <<m_pHandler, m_nElapsesAt, left>>
clock  == <<jiffies, m_nTime, lag>>
vars   == <<timers, clock, g_nSchedulerTimer, stage, hTimer>>

Signed(x) == IF x < WORD \div 2 THEN x ELSE x - WORD

(* CPU DO_TICK_CPU has called Timer() (USPiEnvInitialize), the others are off. *)
Init ==
    /\ jiffies = 0
    /\ m_nTime = [c \in CPUs |-> 0]
    /\ m_pHandler = [c \in CPUs |-> [i \in Slots |-> "none"]]
    /\ m_nElapsesAt = [c \in CPUs |-> [i \in Slots |-> 0]]
    /\ g_nSchedulerTimer = [c \in CPUs |-> 0]
    /\ stage = [c \in CPUs |-> IF c = DO_TICK_CPU THEN "timer" ELSE "off"]
    /\ hTimer = [c \in CPUs |-> -1]
    /\ left = [c \in CPUs |-> [i \in Slots |-> 0]]
    /\ lag = [c \in CPUs |-> 0]

----------------------------------------------------------------------------
(* Timer(cpu) clears the tables of all CPUs (timer.c:50). *)
Timer(c) ==
    /\ stage[c] = "off"
    /\ LATE_TIMER \/ \A d \in CPUs : stage[d] # "slice"
    /\ m_nTime' = [d \in CPUs |-> 0]
    /\ m_pHandler' = [d \in CPUs |-> [i \in Slots |-> "none"]]
    /\ m_nElapsesAt' = [d \in CPUs |-> [i \in Slots |-> 0]]
    /\ stage' = [stage EXCEPT ![c] = "timer"]
    /\ lag' = [lag EXCEPT ![c] = 0]
    /\ UNCHANGED <<jiffies, g_nSchedulerTimer, hTimer, left>>

(* The free slots of CPU c, when slot except has just been freed. *)
Free(c, except) == {i \in Slots : m_pHandler[c][i] = "none" \/ i = except}

\* mutant: the first slot is taken without looking whether it is free
AnyFirst(c, except) == {0}

(* TimerStartKernelTimer: the first free slot, none if there is none. *)
FirstFree(c, except) == {i \in Free(c, except) : \A j \in Free(c, except) : i <= j}

(* Slot i of CPU c becomes free (i = -1: no slot does), then a timer is started. The
   handle is i + 1, and 0 when all slots are taken. *)
Start(c, freed, n, handler, h) ==
    LET cleared == [i \in Slots |-> IF i = freed THEN "none" ELSE m_pHandler[c][i]]
    IN IF FirstFree(c, freed) = {}
       THEN h = 0 /\ UNCHANGED timers
       ELSE \E i \in FirstFree(c, freed) :
               /\ h = i + 1
               /\ m_pHandler' = [m_pHandler EXCEPT ![c] = [cleared EXCEPT ![i] = handler]]
               /\ m_nElapsesAt' = [m_nElapsesAt EXCEPT ![c][i] = (jiffies + n) % WORD]
               /\ left' = [left EXCEPT ![c][i] = n]

(* main on CPU 0 and secondary_startup on CPU 3 start their slice timer. *)
StartSlice(c) ==
    /\ stage[c] = "timer" /\ hTimer[c] = -1
    /\ \E n \in SliceDelays, h \in 0 .. KERNEL_TIMERS :
          /\ Start(c, -1, n, "slice", h)
          /\ g_nSchedulerTimer' = [g_nSchedulerTimer EXCEPT ![c] = h]
    /\ stage' = [stage EXCEPT ![c] = "slice"]
    /\ UNCHANGED <<clock, hTimer>>

(* Other callers; they start none before the slice timer. *)
StartKernelTimer(c) ==
    /\ stage[c] = "slice" /\ hTimer[c] = -1
    /\ \E n \in Delays, h \in 0 .. KERNEL_TIMERS : Start(c, -1, n, "other", h)
    /\ UNCHANGED <<clock, g_nSchedulerTimer, stage, hTimer>>

(* A caller cancels a timer of its own that has not elapsed. *)
CancelKernelTimer(c, h) ==
    /\ hTimer[c] = -1 /\ m_pHandler[c][h - 1] = "other"
    /\ m_pHandler' = [m_pHandler EXCEPT ![c][h - 1] = "none"]
    /\ UNCHANGED <<m_nElapsesAt, left, clock, g_nSchedulerTimer, stage, hTimer>>

(* SchedulerYield switches tasks: the new task gets a whole slice (scheduler.c:132). *)
UpdateKernelTimer(c, n) ==
    /\ stage[c] = "slice" /\ hTimer[c] = -1
    /\ LET i == g_nSchedulerTimer[c] - 1
       IN /\ i \in Slots
          /\ m_nElapsesAt' = [m_nElapsesAt EXCEPT ![c][i] = (jiffies + n + 1) % WORD]
          /\ left' = [left EXCEPT ![c][i] = n + 1]
    /\ UNCHANGED <<m_pHandler, clock, g_nSchedulerTimer, stage, hTimer>>

----------------------------------------------------------------------------
Tick ==
    /\ \A d \in CPUs \ {DO_TICK_CPU} : stage[d] = "off" \/ lag[d] < MAX_LAG
    /\ jiffies' = (jiffies + 1) % WORD
    /\ m_nTime' = IF jiffies' % HZ = 0 THEN [m_nTime EXCEPT ![DO_TICK_CPU] = (@ + 1) % TIME_WORD]
                  ELSE m_nTime
    /\ left' = [d \in CPUs |-> [i \in Slots |-> IF left[d][i] > 0 THEN left[d][i] - 1 ELSE 0]]
    /\ lag' = [d \in CPUs |-> IF d = DO_TICK_CPU \/ stage[d] = "off" THEN 0 ELSE lag[d] + 1]

(* TimerInterruptHandler up to the loop of TimerPollKernelTimers. *)
TimerInterruptHandler(c) ==
    /\ stage[c] # "off" /\ hTimer[c] = -1
    /\ IF c = DO_TICK_CPU THEN Tick
       ELSE lag' = [lag EXCEPT ![c] = 0] /\ UNCHANGED <<jiffies, m_nTime, left>>
    /\ hTimer' = [hTimer EXCEPT ![c] = 0]
    /\ UNCHANGED <<m_pHandler, m_nElapsesAt, g_nSchedulerTimer, stage>>

\* mutant: compares the two unsigned values
ElapsedUnsigned(c, i) == m_pHandler[c][i] # "none" /\ m_nElapsesAt[c][i] <= jiffies

Elapsed(c, i) ==
    m_pHandler[c][i] # "none" /\ Signed((m_nElapsesAt[c][i] - jiffies) % WORD) <= 0

\* mutants: one slot too many; only the first slot; the index is not advanced
NextSlotPastEnd(c) == hTimer' = [hTimer EXCEPT ![c] = IF @ = KERNEL_TIMERS THEN -1 ELSE @ + 1]
NextSlotStops(c) == hTimer' = [hTimer EXCEPT ![c] = -1]
NextSlotStays(c) == UNCHANGED hTimer

NextSlot(c) == hTimer' = [hTimer EXCEPT ![c] = IF @ + 1 = KERNEL_TIMERS THEN -1 ELSE @ + 1]

PollSkips(c) ==
    /\ hTimer[c] # -1 /\ ~Elapsed(c, hTimer[c])
    /\ NextSlot(c)
    /\ UNCHANGED <<timers, clock, g_nSchedulerTimer, stage>>

(* TimeSliceTimerHandler: SchedulerYieldInterrupt starts the next slice. *)
PollSlice(c) ==
    /\ hTimer[c] # -1 /\ Elapsed(c, hTimer[c])
    /\ m_pHandler[c][hTimer[c]] = "slice"
    /\ \E n \in SliceDelays, h \in 0 .. KERNEL_TIMERS :
          /\ Start(c, hTimer[c], n, "slice", h)
          /\ g_nSchedulerTimer' = [g_nSchedulerTimer EXCEPT ![c] = h]
    /\ NextSlot(c)
    /\ UNCHANGED <<clock, stage>>

PollOther(c) ==
    /\ hTimer[c] # -1 /\ Elapsed(c, hTimer[c])
    /\ m_pHandler[c][hTimer[c]] = "other"
    /\ m_pHandler' = [m_pHandler EXCEPT ![c][hTimer[c]] = "none"]
    /\ NextSlot(c)
    /\ UNCHANGED <<m_nElapsesAt, left, clock, g_nSchedulerTimer, stage>>

Poll(c) == PollSkips(c) \/ PollSlice(c) \/ PollOther(c)

Next ==
    \E c \in CPUs :
       \/ Timer(c) \/ StartSlice(c) \/ StartKernelTimer(c)
       \/ \E h \in 1 .. KERNEL_TIMERS : CancelKernelTimer(c, h)
       \/ \E n \in SliceDelays : UpdateKernelTimer(c, n)
       \/ TimerInterruptHandler(c) \/ Poll(c)

Spec == Init /\ [][Next]_vars

(* The private timers keep interrupting and the interrupt returns. *)
LiveSpec == Spec /\ \A c \in CPUs : WF_vars(TimerInterruptHandler(c)) /\ WF_vars(Poll(c))

----------------------------------------------------------------------------
(* Every variable has its type. *)
TypeOK ==
    /\ jiffies \in 0 .. WORD - 1
    /\ m_nTime \in [CPUs -> 0 .. TIME_WORD - 1]
    /\ m_pHandler \in [CPUs -> [Slots -> Handlers]]
    /\ m_nElapsesAt \in [CPUs -> [Slots -> 0 .. WORD - 1]]
    /\ g_nSchedulerTimer \in [CPUs -> 0 .. KERNEL_TIMERS]
    /\ stage \in [CPUs -> {"off", "timer", "slice"}]
    /\ hTimer \in [CPUs -> Slots \cup {-1}]
    /\ left \in [CPUs -> [Slots -> Nat]]
    /\ lag \in [CPUs -> 0 .. MAX_LAG]

(* A CPU that slices has exactly one slice timer armed, and g_nSchedulerTimer is its
   handle: the restart in SchedulerYieldInterrupt never fails for want of a slot, and
   the UpdateKernelTimer of SchedulerYield never moves another timer. *)
SliceArmed ==
    \A c \in CPUs : stage[c] = "slice" =>
       /\ g_nSchedulerTimer[c] # 0
       /\ \A i \in Slots : m_pHandler[c][i] = "slice" <=> i = g_nSchedulerTimer[c] - 1

(* TimerPollKernelTimers calls no handler before the delay asked for has passed, across
   the wrap-around of jiffies. *)
NeverEarly ==
    [][\A c \in CPUs : PollSlice(c) \/ PollOther(c) => left[c][hTimer[c]] = 0]_vars

(* Every timer is called or cancelled in the end, however slots are reused. *)
TimersElapse ==
    \A c \in CPUs, i \in Slots : m_pHandler[c][i] = "other" ~> m_pHandler[c][i] # "other"

(* A poll ends although handlers start timers during it. *)
PollReturns == \A c \in CPUs : hTimer[c] # -1 ~> hTimer[c] = -1

============================================================================
