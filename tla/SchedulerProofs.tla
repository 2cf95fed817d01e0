--------------------------- MODULE SchedulerProofs --------------------------
(***************************************************************************)
(* Proofs about Scheduler for any number of tasks, levels and slots and    *)
(* any clock. The invariants need all tasks to be created before the slice *)
(* timer is started (~CREATE_AFTER_START): two tasks that run              *)
(* SchedulerAddTask at once can count one slot twice, so that TableOK and  *)
(* the bounds of the table fail otherwise.                                 *)
(*                                                                         *)
(* Inv /\ TrimInv is the inductive invariant of the table, the running     *)
(* task and the round robin. SleepInv, inductive relative to Inv, is the   *)
(* one of sleeps (last part): it needs every piece of a sleep to be        *)
(* shorter than half the range of the clock.                               *)
(***************************************************************************)
EXTENDS Scheduler, TLAPS

(* A task between NewTask and SetRun is the running one and is not preempted:
   slices are not running yet. Its slot is still free, or written and not counted. *)
CreationInv ==
    /\ \A u \in Tasks : pc[u] \in {"add", "count", "init"} =>
          u = m_pCurrent /\ mode = "task" /\ ~started
    /\ pc[m_pCurrent] \in {"add", "count"} =>
          /\ new[m_pCurrent] \in Tasks \ detached
          /\ new[m_pCurrent] # Idle
          /\ m_State[new[m_pCurrent]] # "Unknown"
    /\ pc[m_pCurrent] = "add" =>
          /\ \A l \in Levels, i \in Slots : m_pTask[l][i] # new[m_pCurrent]
          /\ slot[m_pCurrent] # -1 =>
                /\ slot[m_pCurrent] \in InUse(mLevel[new[m_pCurrent]])
                /\ m_pTask[mLevel[new[m_pCurrent]]][slot[m_pCurrent]] = NULL
    /\ pc[m_pCurrent] = "count" =>
          /\ m_nTasks[mLevel[new[m_pCurrent]]] < MAX_TASKS
          /\ m_pTask[mLevel[new[m_pCurrent]]][m_nTasks[mLevel[new[m_pCurrent]]]]
                = new[m_pCurrent]

(* Slots hold existing tasks at their own level (the idle task changes its level after
   it was added); beyond the slots in use there is at most the task whose slot is still
   to be counted. *)
SlotInv ==
    \A l \in Levels, i \in Slots : m_pTask[l][i] # NULL =>
       /\ m_State[m_pTask[l][i]] # "Unknown"
       /\ m_pTask[l][i] \notin detached
       /\ m_pTask[l][i] # Idle => mLevel[m_pTask[l][i]] = l
       /\ i >= m_nTasks[l] =>
             /\ pc[m_pCurrent] = "count" /\ m_pTask[l][i] = new[m_pCurrent]
             /\ i = m_nTasks[l]

(* No task is in two slots. *)
OneSlotInv ==
    \A l, k \in Levels : \A i, j \in Slots :
       m_pTask[l][i] # NULL /\ m_pTask[l][i] = m_pTask[k][j] => l = k /\ i = j

InTable(t) == \E l \in Levels, i \in Slots : m_pTask[l][i] = t

(* Every existing task that was not taken out is in the table once it is written. *)
InTableInv ==
    /\ \A t \in Tasks \ detached :
          m_State[t] # "Unknown" =>
             InTable(t) \/ (pc[m_pCurrent] = "add" /\ new[m_pCurrent] = t)
    /\ \A t \in detached : m_State[t] # "Unknown"

IdleInv ==
    Idle # NULL => /\ m_State[Idle] = "Ready" /\ Run[Idle] = "derived"
                   /\ pc[Idle] \in {"entry", "run"}

RunningInv == mode = "task" => m_State[m_pCurrent] # "Unknown"

(* How often the search can have passed by slot i since it was last there. *)
Passed(l, i) ==
    IF m_nLevelCurrent[l] >= i THEN m_nLevelCurrent[l] - i
    ELSE MAX_TASKS - i + m_nLevelCurrent[l]

(* Each pass moved the search on; and only ready tasks in the table are counted. *)
PassedInv ==
    \A l \in Levels, i \in Slots :
       m_pTask[l][i] # NULL => passes[m_pTask[l][i]] <= Passed(l, i)

CountedInv == \A t \in Tasks : passes[t] > 0 => m_State[t] = "Ready" /\ InTable(t)

(* While a task is inside SchedulerRemoveTask, the slot it freed stays free: it is not
   preempted before slices run, and no task is added after that. *)
TrimInv ==
    \A u \in Tasks : pc[u] = "trim" =>
       /\ started \/ (u = m_pCurrent /\ mode = "task")
       /\ new[u] \in Tasks /\ slot[u] # -1
       /\ m_pTask[mLevel[new[u]]][slot[u]] = NULL

Inv == /\ TypeOK /\ CreationInv /\ SlotInv /\ OneSlotInv /\ InTableInv
       /\ IdleInv /\ RunningInv /\ CurrentInTable /\ PassedInv /\ CountedInv

----------------------------------------------------------------------------
(* What is said of the slots alone holds as long as the slots do not change. *)
LEMMA OneSlotKept ==
  ASSUME OneSlotInv, UNCHANGED m_pTask
  PROVE  OneSlotInv'
BY DEF OneSlotInv

LEMMA InTableKept ==
  ASSUME UNCHANGED m_pTask
  PROVE  \A u : InTable(u)' <=> InTable(u)
BY DEF InTable

LEMMA SlotKept ==
  ASSUME SlotInv, UNCHANGED <<m_pTask, m_nTasks, m_State, mLevel, detached, m_pCurrent, new, pc>>
  PROVE  SlotInv'
BY DEF SlotInv

LEMMA SlotTypes ==
  ASSUME Inv
  PROVE  \A k \in Levels, j \in Slots : m_pTask[k][j] # NULL => m_pTask[k][j] \in Tasks
<1>1. \A k \in Levels : m_pTask[k] \in [Slots -> Tasks \cup {NULL}]
  BY Zenon DEF Inv, TypeOK
<1>2. \A k \in Levels, j \in Slots : m_pTask[k][j] \in Tasks \cup {NULL}
  BY <1>1, Zenon
<1> QED BY <1>2, Zenon

(* The slots, and which tasks are in them, as long as the table stands, no task comes or
   goes, and a task that is being added stays where it is. *)
LEMMA TableKept ==
  ASSUME Inv, UNCHANGED <<m_pTask, m_nTasks, mLevel, detached, m_pCurrent>>,
         \A u \in Tasks : m_State'[u] = "Unknown" <=> m_State[u] = "Unknown",
         pc[m_pCurrent] \in {"add", "count"} =>
            pc'[m_pCurrent] = pc[m_pCurrent] /\ new'[m_pCurrent] = new[m_pCurrent]
  PROVE  SlotInv' /\ OneSlotInv' /\ InTableInv'
<1>1. SlotInv'
  BY SlotTypes, Zenon DEF Inv, SlotInv
<1>2. OneSlotInv'
  BY OneSlotKept, Zenon DEF Inv
<1>3. InTableInv'
  <2>1. \A u : InTable(u)' <=> InTable(u)
    BY InTableKept, Zenon
  <2>2. detached \subseteq Tasks
    BY Zenon DEF Inv, TypeOK
  <2> QED BY <2>1, <2>2, Zenon DEF Inv, InTableInv
<1> QED BY <1>1, <1>2, <1>3, Zenon

(* What is counted, as long as a ready task stays ready. *)
LEMMA CountedKept ==
  ASSUME Inv, UNCHANGED <<m_pTask, passes>>,
         \A u \in Tasks : m_State[u] = "Ready" => m_State'[u] = "Ready"
  PROVE  CountedInv'
<1>1. \A u : InTable(u)' <=> InTable(u)
  BY InTableKept, Zenon
<1> QED BY <1>1, Zenon DEF Inv, CountedInv

(* A slot is in use when it is below the count of its level. *)
LEMMA InUseBelow ==
  ASSUME NEW n \in 0 .. MAX_TASKS, NEW i \in Slots
  PROVE  i \in 0 .. n - 1 <=> ~(i >= n)
BY SchedulerAssumption DEF Slots

(* An unsigned is in range. *)
LEMMA ModType == \A a \in Int : a % WORD \in 0 .. WORD - 1
  BY SchedulerAssumption

(* The slots in use are slots. *)
LEMMA InUseSlots ==
  ASSUME TypeOK, NEW l \in Levels
  PROVE  m_nTasks[l] \in 0 .. MAX_TASKS /\ InUse(l) \subseteq Slots
<1>1. m_nTasks[l] \in 0 .. MAX_TASKS
  BY Zenon DEF TypeOK
<1> QED BY <1>1, SchedulerAssumption DEF InUse, Slots

(* The bound on passes is never negative. *)
LEMMA PassedNat ==
  ASSUME TypeOK, NEW l \in Levels, NEW i \in Slots
  PROVE  Passed(l, i) \in Nat
<1>1. m_nLevelCurrent[l] \in -1 .. MAX_TASKS - 1
  BY Zenon DEF TypeOK
<1> QED BY <1>1, SchedulerAssumption DEF Passed, Slots

(* The heart of the round robin: the search visits the slots in cyclic order from
   the one chosen last, so choosing slot j before a ready task in slot i moves the
   last choice strictly closer to i. *)
LEMMA VisitMovesOn ==
  ASSUME TypeOK, NEW l \in Levels, NEW i \in InUse(l), NEW j \in InUse(l), i # j,
         Visit(l, j) <= Visit(l, i)
  PROVE  Passed(l, i) + 1 <= IF j >= i THEN j - i ELSE MAX_TASKS - i + j
<1> DEFINE n == m_nLevelCurrent[l]
           m == m_nTasks[l]
           f == FirstVisited(l)
<1>1. n \in -1 .. MAX_TASKS - 1 /\ m \in 0 .. MAX_TASKS
  BY Zenon DEF TypeOK
<1>2. f = IF n + 1 >= m THEN 0 ELSE n + 1
  <2>1. n < MAX_TASKS
    BY ONLY <1>1, SchedulerAssumption
  <2> QED BY ONLY <2>1, Zenon DEF FirstVisited
<1>3. i \in 0 .. m - 1 /\ j \in 0 .. m - 1
  BY Zenon DEF InUse
<1>4. (IF j >= f THEN j - f ELSE j - f + m) <= (IF i >= f THEN i - f ELSE i - f + m)
  BY Zenon DEF Visit
<1>5. Passed(l, i) = IF n >= i THEN n - i ELSE MAX_TASKS - i + n
  BY Zenon DEF Passed
<1> HIDE DEF n, m, f
<1>6. CASE f = 0
  BY ONLY <1>1, <1>2, <1>3, <1>4, <1>5, <1>6, i # j, SchedulerAssumption
<1>7. CASE f # 0
  BY ONLY <1>1, <1>2, <1>3, <1>4, <1>5, <1>7, i # j, SchedulerAssumption
<1> QED BY <1>6, <1>7, Zenon

(* The remainder of what is at most one range away. *)
LEMMA ModSmall ==
  /\ \A x \in 0 .. WORD - 1 : x % WORD = x
  /\ \A x \in WORD .. 2 * WORD - 1 : x % WORD = x - WORD
  /\ \A x \in -WORD .. -1 : x % WORD = x + WORD
  BY SchedulerAssumption

(* The wake time of a sleep of n is n ahead of the clock. *)
LEMMA Distance ==
  ASSUME NEW c \in 0 .. WORD - 1, NEW n \in 0 .. WORD - 1
  PROVE  (((c + n) % WORD) - c) % WORD = n
<1> USE SchedulerAssumption
<1>1. CASE c + n < WORD
  <2>1. (c + n) % WORD = c + n
    BY <1>1, ModSmall
  <2>2. c + n - c = n /\ n % WORD = n
    BY ModSmall
  <2> QED BY <2>1, <2>2
<1>2. CASE c + n >= WORD
  <2>1. (c + n) % WORD = c + n - WORD
    BY <1>2, ModSmall
  <2>2. c + n - WORD - c = n - WORD /\ n - WORD \in -WORD .. -1
    OBVIOUS
  <2>3. (n - WORD) % WORD = n - WORD + WORD
    BY <2>2, ModSmall, Zenon
  <2> QED BY <2>1, <2>2, <2>3
<1> QED BY <1>1, <1>2

(* The clock goes on by TICK: a wake time further ahead comes nearer by TICK. *)
LEMMA Nearer ==
  ASSUME NEW w \in 0 .. WORD - 1, NEW c \in 0 .. WORD - 1, (w - c) % WORD > TICK,
         NEW d \in 0 .. WORD - 1, d = (c + TICK) % WORD
  PROVE  (w - d) % WORD = ((w - c) % WORD) - TICK
<1> USE SchedulerAssumption
<1>1. w # c
  BY ModSmall
<1>2. CASE w > c
  <2>1. (w - c) % WORD = w - c
    BY <1>2, ModSmall
  <2>2. d = c + TICK /\ w - d \in 0 .. WORD - 1
    BY <1>2, <2>1, ModSmall
  <2>3. (w - d) % WORD = w - d
    BY <2>2, ModSmall, Zenon
  <2> QED BY <2>1, <2>2, <2>3
<1>3. CASE w < c
  <2>1. (w - c) % WORD = w - c + WORD
    BY <1>3, ModSmall
  <2>2. CASE c + TICK < WORD
    <3>1. d = c + TICK /\ w - d \in -WORD .. -1
      BY <1>3, <2>2, ModSmall
    <3>2. (w - d) % WORD = w - d + WORD
      BY <3>1, ModSmall, Zenon
    <3> QED BY <2>1, <3>1, <3>2
  <2>3. CASE c + TICK >= WORD
    <3>1. d = c + TICK - WORD /\ w - d \in 0 .. WORD - 1
      BY <1>3, <2>1, <2>3, ModSmall
    <3>2. (w - d) % WORD = w - d
      BY <3>1, ModSmall, Zenon
    <3> QED BY <2>1, <3>1, <3>2
  <2> QED BY <2>2, <2>3
<1> QED BY <1>1, <1>2, <1>3

(* The state that Scheduler() and new_IdleTask() leave satisfies the invariant. *)
LEMMA InvInit == Init => Inv
<1> SUFFICES ASSUME Init PROVE Inv
  BY Zenon
<1> USE SchedulerAssumption DEF Levels, Slots, IDLE_TASK_LEVEL, EmptyLevel, InUse
<1>0. \A l \in Levels, i \in Slots :
         m_pTask[l][i] = IF l = MAIN_TASK_LEVEL /\ i = 0 THEN Main
                         ELSE IF l = IDLE_TASK_LEVEL /\ i = 0 THEN Idle ELSE NULL
  BY Zenon DEF Init
<1>1. TypeOK
  <2>1. m_pTask \in [Levels -> [Slots -> Tasks \cup {NULL}]]
    BY Zenon DEF Init
  <2>2. m_nTasks \in [Levels -> 0 .. MAX_TASKS] /\ m_nLevelCurrent \in [Levels -> -1 .. MAX_TASKS - 1]
    BY DEF Init
  <2>3. mLevel \in [Tasks -> Levels] /\ slot \in [Tasks -> Slots \cup {-1}]
    BY DEF Init
  <2>4. m_State \in [Tasks -> TaskStates] /\ pc \in [Tasks -> Places] /\ Run \in [Tasks -> {"TaskRun", "derived"}]
    BY Zenon DEF Init, TaskStates, Places
  <2>5. m_nWakeTicks \in [Tasks -> 0 .. WORD - 1] /\ ticks \in 0 .. WORD - 1
    BY DEF Init
  <2>6. m_pCurrent \in Tasks /\ m_nCurrentLevel \in Levels /\ m_nCurrent \in 0 .. MAX_TASKS
    BY DEF Init
  <2>8. started \in BOOLEAN /\ mode \in {"task", "yield", "irq"} /\ detached \subseteq Tasks
    BY Zenon DEF Init
  <2>7. new \in [Tasks -> Tasks \cup {NULL}] /\ rest \in [Tasks -> Nat] /\ left \in [Tasks -> Nat]
        /\ passes \in [Tasks -> Nat]
    BY Zenon DEF Init
  <2> QED BY <2>1, <2>2, <2>3, <2>4, <2>5, <2>6, <2>7, <2>8, Zenon DEF TypeOK
<1>2. CreationInv
  BY Zenon DEF Init, CreationInv
<1>3. SlotInv
  <2>1. \A l \in Levels, i \in Slots : m_pTask[l][i] # NULL => i < m_nTasks[l]
    BY <1>0 DEF Init
  <2> QED BY <1>0, <2>1 DEF Init, SlotInv
<1>4. OneSlotInv
  BY <1>0 DEF OneSlotInv
<1>5. InTableInv
  <2>1. \A t \in Tasks : m_State[t] # "Unknown" => t = Main \/ t = Idle
    BY Zenon DEF Init
  <2>2. InTable(Main)
    BY <1>0 DEF InTable
  <2>3. Idle # NULL => InTable(Idle)
    BY <1>0 DEF InTable
  <2> QED BY <2>1, <2>2, <2>3, Zenon DEF InTableInv, Init
<1>6. IdleInv /\ RunningInv /\ CurrentInTable
  BY DEF Init, IdleInv, RunningInv, CurrentInTable
<1>7. PassedInv /\ CountedInv
  <2> HIDE DEF Levels, Slots, IDLE_TASK_LEVEL, EmptyLevel, InUse
  <2>1. \A t \in Tasks : passes[t] = 0
    BY Zenon DEF Init
  <2>2. \A l \in Levels, i \in Slots : m_pTask[l][i] \in Tasks \cup {NULL}
    <3>1. \A l \in Levels : m_pTask[l] \in [Slots -> Tasks \cup {NULL}]
      BY <1>1, Zenon DEF TypeOK
    <3> QED BY ONLY <3>1, Zenon
  <2>3. \A l \in Levels, i \in Slots : 0 <= Passed(l, i)
    BY <1>1, PassedNat
  <2>4. ~(0 > 0)
    OBVIOUS
  <2> QED BY ONLY <2>1, <2>2, <2>3, <2>4, Zenon DEF PassedInv, CountedInv
<1> QED BY <1>1, <1>2, <1>3, <1>4, <1>5, <1>6, <1>7, Zenon DEF Inv

(* The clock advances: only the times change. *)
LEMMA TickInv ==
  ASSUME Inv, Tick
  PROVE  Inv'
<1> USE SchedulerAssumption DEF InUse
<1>1. TypeOK'
  <2>1. ticks' \in 0 .. WORD - 1
    <3>1. ticks + TICK \in Int
      BY DEF Inv, TypeOK
    <3> QED BY <3>1, ModType, Zenon DEF Tick
  <2>2. left' \in [Tasks -> Nat]
    <3>1. left \in [Tasks -> Nat]
      BY Zenon DEF Inv, TypeOK
    <3> QED BY <3>1 DEF Tick
  <2> QED BY <2>1, <2>2, Zenon DEF Inv, TypeOK, Tick, table, task
<1>2. CreationInv'
  BY Zenon DEF Inv, CreationInv, Tick, table, task
<1>3. SlotInv' /\ OneSlotInv' /\ InTableInv'
  BY TableKept, Zenon DEF Tick, table, task
<1>4. CountedInv'
  BY CountedKept, Zenon DEF Tick, table, task
<1>5. IdleInv' /\ RunningInv' /\ CurrentInTable' /\ PassedInv'
  BY Zenon DEF Inv, IdleInv, RunningInv, CurrentInTable, PassedInv, Passed, Tick, table, task
<1> QED BY <1>1, <1>2, <1>3, <1>4, <1>5, Zenon DEF Inv

(* A task sets its wake time. *)
LEMMA UsSleepInv ==
  ASSUME NEW n \in Nat, NEW r \in Nat, Inv, AtRun \/ At("again"),
         left' \in [Tasks -> Nat], UsSleep(n, r)
  PROVE  Inv'
<1> USE SchedulerAssumption DEF InUse
<1>0. /\ m_pCurrent \in Tasks /\ pc \in [Tasks -> Places] /\ m_pCurrent # Idle
      /\ pc' = [pc EXCEPT ![m_pCurrent] = "sleep"] /\ pc[m_pCurrent] \in {"run", "again"}
  BY Zenon DEF Inv, TypeOK, UsSleep, Goto, AtRun, At, IdleInv
<1>1. TypeOK'
  <2>1. m_nWakeTicks' \in [Tasks -> 0 .. WORD - 1]
    <3>1. ticks + n \in Int
      BY DEF Inv, TypeOK
    <3>2. (ticks + n) % WORD \in 0 .. WORD - 1
      BY <3>1, ModType, Zenon
    <3> QED BY <3>2, Zenon DEF Inv, TypeOK, UsSleep
  <2>2. rest' \in [Tasks -> Nat] /\ pc' \in [Tasks -> Places]
    BY <1>0, Zenon DEF Inv, TypeOK, UsSleep, Places
  <2> QED BY <2>1, <2>2, Zenon DEF Inv, TypeOK, UsSleep, table
<1>2. CreationInv'
  BY <1>0, Zenon DEF Inv, CreationInv, UsSleep, table
<1>3. SlotInv' /\ OneSlotInv' /\ InTableInv'
  BY <1>0, TableKept, Zenon DEF UsSleep, table
<1>4. CountedInv'
  BY <1>0, CountedKept, Zenon DEF UsSleep, table
<1>5. IdleInv' /\ RunningInv' /\ CurrentInTable' /\ PassedInv'
  BY <1>0, Zenon DEF Inv, IdleInv, RunningInv, CurrentInTable, PassedInv, Passed, UsSleep, table
<1> QED BY <1>1, <1>2, <1>3, <1>4, <1>5, Zenon DEF Inv

(* The running task stops being ready and calls SchedulerYield next. *)
LEMMA StopInv ==
  ASSUME NEW s \in {"Blocked", "Sleeping", "Terminated"}, Inv,
         mode = "task", m_pCurrent # Idle, pc[m_pCurrent] \notin {"add", "count", "init"},
         m_State' = [m_State EXCEPT ![m_pCurrent] = s],
         passes' = [passes EXCEPT ![m_pCurrent] = 0],
         pc' = [pc EXCEPT ![m_pCurrent] = "yield"],
         UNCHANGED <<table, m_nWakeTicks, mLevel, Run, new, slot, rest, left,
                     ticks, started, mode, detached>>
  PROVE  Inv'
<1> USE SchedulerAssumption DEF InUse
<1>0. m_pCurrent \in Tasks /\ pc \in [Tasks -> Places] /\ m_State[m_pCurrent] # "Unknown"
  BY Zenon DEF Inv, TypeOK, RunningInv
<1>1. TypeOK'
  <2>1. m_State' \in [Tasks -> TaskStates] /\ pc' \in [Tasks -> Places]
    BY <1>0, Zenon DEF Inv, TypeOK, TaskStates, Places
  <2>2. passes' \in [Tasks -> Nat]
    BY Zenon DEF Inv, TypeOK
  <2> QED BY <2>1, <2>2, Zenon DEF Inv, TypeOK, table
<1>2. \A t \in Tasks : m_State'[t] # "Unknown" <=> m_State[t] # "Unknown"
  BY <1>0, Zenon DEF Inv, TypeOK
<1>3. CreationInv'
  BY <1>0, <1>2, Zenon DEF Inv, TypeOK, CreationInv, table
<1>4. SlotInv' /\ OneSlotInv' /\ InTableInv'
  BY <1>2, TableKept, Zenon DEF table
<1>5. RunningInv' /\ CurrentInTable'
  BY <1>0, <1>2, Zenon DEF Inv, RunningInv, CurrentInTable, table
<1>7. IdleInv'
  BY <1>0, Zenon DEF Inv, TypeOK, IdleInv
<1>8. PassedInv'
  <2> SUFFICES ASSUME NEW l \in Levels, NEW i \in Slots, m_pTask[l][i] # NULL
               PROVE  passes'[m_pTask[l][i]] <= Passed(l, i)
    BY Zenon DEF PassedInv, Passed, table
  <2>1. m_pTask[l][i] \in Tasks /\ passes \in [Tasks -> Nat]
    BY SlotTypes, Zenon DEF Inv, TypeOK
  <2>2. Passed(l, i) \in Nat
    BY PassedNat, Zenon DEF Inv
  <2> QED BY <2>1, <2>2 DEF Inv, PassedInv
<1>9. CountedInv'
  <2>1. \A u : InTable(u)' <=> InTable(u)
    BY InTableKept, Zenon DEF table
  <2>2. ~(0 > 0) /\ \A u \in Tasks : passes'[u] = IF u = m_pCurrent THEN 0 ELSE passes[u]
    <3>1. ~(0 > 0)
      OBVIOUS
    <3> QED BY <3>1, Zenon DEF Inv, TypeOK
  <2>3. \A u \in Tasks : u # m_pCurrent => m_State'[u] = m_State[u]
    BY Zenon DEF Inv, TypeOK
  <2> QED BY <2>1, <2>2, <2>3, Zenon DEF Inv, CountedInv
<1> QED BY <1>1, <1>3, <1>4, <1>5, <1>7, <1>8, <1>9, Zenon DEF Inv

(* The constructor of the derived class sets Run. *)
LEMMA SetRunInv ==
  ASSUME Inv, SetRun
  PROVE  Inv'
<1> USE SchedulerAssumption DEF InUse
<1>0. /\ m_pCurrent \in Tasks /\ m_pCurrent # Idle /\ pc[m_pCurrent] = "init"
      /\ pc' = [pc EXCEPT ![m_pCurrent] = "run"]
  BY Zenon DEF Inv, TypeOK, RunningInv, IdleInv, SetRun, At, Goto
<1>1. TypeOK'
  BY <1>0, Zenon DEF Inv, TypeOK, Places, SetRun, table
<1>2. CreationInv'
  BY <1>0, Zenon DEF Inv, TypeOK, CreationInv, SetRun, table
<1>3. SlotInv' /\ OneSlotInv' /\ InTableInv'
  BY <1>0, TableKept, Zenon DEF SetRun, table
<1>4. CountedInv'
  BY <1>0, CountedKept, Zenon DEF SetRun, table
<1>5. IdleInv' /\ RunningInv' /\ CurrentInTable' /\ PassedInv'
  BY <1>0, Zenon DEF Inv, TypeOK, IdleInv, RunningInv, CurrentInTable, PassedInv, Passed, SetRun, table
<1> QED BY <1>1, <1>2, <1>3, <1>4, <1>5, Zenon DEF Inv

(* The slice timer is started. *)
LEMMA StartSliceInv ==
  ASSUME Inv, StartSlice
  PROVE  Inv'
<1> USE SchedulerAssumption DEF InUse
<1>0. m_pCurrent \in Tasks /\ pc[m_pCurrent] = "run"
  BY Zenon DEF Inv, TypeOK, RunningInv, IdleInv, StartSlice, At, AtRun
<1>1. TypeOK'
  BY <1>0, Zenon DEF Inv, TypeOK, StartSlice, table, task, local
<1>2. CreationInv'
  BY <1>0, Zenon DEF Inv, TypeOK, CreationInv, StartSlice, table, task, local
<1>3. SlotInv' /\ OneSlotInv' /\ InTableInv'
  BY <1>0, TableKept, Zenon DEF StartSlice, table, task, local
<1>4. CountedInv'
  BY <1>0, CountedKept, Zenon DEF StartSlice, table, task, local
<1>5. IdleInv' /\ RunningInv' /\ CurrentInTable' /\ PassedInv'
  BY <1>0, Zenon DEF Inv, TypeOK, IdleInv, RunningInv, CurrentInTable, PassedInv, Passed, StartSlice, table, task, local
<1> QED BY <1>1, <1>2, <1>3, <1>4, <1>5, Zenon DEF Inv

(* A task runs for the first time. *)
LEMMA TaskTaskEntryInv ==
  ASSUME Inv, TaskTaskEntry
  PROVE  Inv'
<1> USE SchedulerAssumption DEF InUse
<1>0. /\ m_pCurrent \in Tasks /\ pc[m_pCurrent] = "entry"
      /\ pc' = [pc EXCEPT ![m_pCurrent] = "run"]
  BY Zenon DEF Inv, TypeOK, RunningInv, IdleInv, TaskTaskEntry, At, Goto
<1>1. TypeOK'
  BY <1>0, Zenon DEF Inv, TypeOK, Places, TaskTaskEntry, table, task
<1>2. CreationInv'
  BY <1>0, Zenon DEF Inv, TypeOK, CreationInv, TaskTaskEntry, table, task
<1>3. SlotInv' /\ OneSlotInv' /\ InTableInv'
  BY <1>0, TableKept, Zenon DEF TaskTaskEntry, table, task
<1>4. CountedInv'
  BY <1>0, CountedKept, Zenon DEF TaskTaskEntry, table, task
<1>5. IdleInv' /\ RunningInv' /\ CurrentInTable' /\ PassedInv'
  BY <1>0, Zenon DEF Inv, TypeOK, IdleInv, RunningInv, CurrentInTable, PassedInv, Passed, TaskTaskEntry, table, task
<1> QED BY <1>1, <1>2, <1>3, <1>4, <1>5, Zenon DEF Inv

(* A blocked task is woken. *)
LEMMA WakeInv ==
  ASSUME NEW t \in Tasks, Inv, SchedulerWakeTask(t)
  PROVE  Inv'
<1> USE SchedulerAssumption DEF InUse
<1>0. /\ m_State[t] = "Blocked"
      /\ m_State' = [m_State EXCEPT ![t] = "Ready"]
      /\ \A u \in Tasks : m_State'[u] # "Unknown" <=> m_State[u] # "Unknown"
  BY Zenon DEF Inv, TypeOK, RunningInv, IdleInv, SchedulerWakeTask
<1>1. TypeOK'
  BY <1>0, Zenon DEF Inv, TypeOK, TaskStates, SchedulerWakeTask, table, local
<1>2. CreationInv'
  BY <1>0, Zenon DEF Inv, CreationInv, SchedulerWakeTask, table, local
<1>3. SlotInv' /\ OneSlotInv' /\ InTableInv'
  BY <1>0, TableKept, Zenon DEF SchedulerWakeTask, table, local
<1>4. CountedInv'
  <2>1. \A u \in Tasks : m_State[u] = "Ready" => m_State'[u] = "Ready"
    BY <1>0, Zenon DEF Inv, TypeOK
  <2> QED BY <2>1, CountedKept, Zenon DEF SchedulerWakeTask, table
<1>5. IdleInv' /\ RunningInv' /\ CurrentInTable' /\ PassedInv'
  <2>1. IdleInv' /\ RunningInv'
    BY <1>0, Zenon DEF Inv, TypeOK, IdleInv, RunningInv, SchedulerWakeTask, table, local
  <2>2. CurrentInTable' /\ PassedInv'
    BY Zenon DEF Inv, CurrentInTable, PassedInv, Passed, SchedulerWakeTask, table, local
  <2> QED BY <2>1, <2>2, Zenon
<1> QED BY <1>1, <1>2, <1>3, <1>4, <1>5, Zenon DEF Inv

(* The running task gives up the CPU. *)
LEMMA YieldInv ==
  ASSUME Inv, SchedulerYield
  PROVE  Inv'
<1> USE SchedulerAssumption DEF InUse
<1>0. /\ m_pCurrent \in Tasks /\ m_pCurrent # Idle
      /\ pc[m_pCurrent] \in {"yield", "run"}
      /\ \E p \in {"again", "run"} : pc' = [pc EXCEPT ![m_pCurrent] = p]
  BY Zenon DEF Inv, TypeOK, RunningInv, IdleInv, SchedulerYield, At, AtRun, Goto
<1>1. TypeOK'
  <2>1. pc' \in [Tasks -> Places]
    <3>1. PICK p \in {"again", "run"} : pc' = [pc EXCEPT ![m_pCurrent] = p]
      BY <1>0, Zenon
    <3>2. p \in Places /\ pc \in [Tasks -> Places]
      BY Zenon DEF Inv, TypeOK, Places
    <3> QED BY <3>1, <3>2, Zenon
  <2>2. mode' = "yield" /\ UNCHANGED <<table, task, new, slot, rest, left, ticks, started, passes, detached>>
    BY Zenon DEF SchedulerYield
  <2> QED BY <2>1, <2>2, Zenon DEF Inv, TypeOK, table, task
<1>2. CreationInv'
  <2>1. \A u \in Tasks : pc'[u] \in {"add", "count", "init"} =>
           u # m_pCurrent /\ pc[u] \in {"add", "count", "init"}
    BY <1>0, Zenon DEF Inv, TypeOK
  <2> QED BY <1>0, <2>1, Zenon DEF Inv, CreationInv, SchedulerYield, table, task
<1>3. SlotInv' /\ OneSlotInv' /\ InTableInv'
  BY <1>0, TableKept, Zenon DEF SchedulerYield, table, task
<1>4. CountedInv'
  BY <1>0, CountedKept, Zenon DEF SchedulerYield, table, task
<1>5. IdleInv' /\ RunningInv' /\ CurrentInTable' /\ PassedInv'
  <2>1. IdleInv' /\ RunningInv'
    BY <1>0, Zenon DEF Inv, TypeOK, IdleInv, RunningInv, SchedulerYield, table, task
  <2>2. CurrentInTable' /\ PassedInv'
    BY Zenon DEF Inv, CurrentInTable, PassedInv, Passed, SchedulerYield, table, task
  <2> QED BY <2>1, <2>2, Zenon
<1> QED BY <1>1, <1>2, <1>3, <1>4, <1>5, Zenon DEF Inv

(* The slice ends. *)
LEMMA YieldInterruptInv ==
  ASSUME Inv, SchedulerYieldInterrupt
  PROVE  Inv'
<1> USE SchedulerAssumption DEF InUse
<1>0. mode = "task" /\ started /\ mode' = "irq"
  BY Zenon DEF Inv, TypeOK, RunningInv, IdleInv, SchedulerYieldInterrupt
<1>1. TypeOK'
  BY <1>0, Zenon DEF Inv, TypeOK, SchedulerYieldInterrupt, table, task, local
<1>2. CreationInv'
  BY <1>0, Zenon DEF Inv, TypeOK, CreationInv, SchedulerYieldInterrupt, table, task, local
<1>3. SlotInv' /\ OneSlotInv' /\ InTableInv'
  BY <1>0, TableKept, Zenon DEF SchedulerYieldInterrupt, table, task, local
<1>4. CountedInv'
  BY <1>0, CountedKept, Zenon DEF SchedulerYieldInterrupt, table, task, local
<1>5. IdleInv' /\ RunningInv' /\ CurrentInTable' /\ PassedInv'
  BY <1>0, Zenon DEF Inv, TypeOK, IdleInv, RunningInv, CurrentInTable, PassedInv, Passed, SchedulerYieldInterrupt, table, task, local
<1> QED BY <1>1, <1>2, <1>3, <1>4, <1>5, Zenon DEF Inv

(* SchedulerGetNextTask finds no task. *)
LEMMA ScanFindsNoneInv ==
  ASSUME Inv, ScanFindsNone
  PROVE  Inv'
<1> USE SchedulerAssumption DEF InUse
<1>0. mode # "task" /\ m_nCurrentLevel' \in Levels /\ m_nCurrent' = MAX_TASKS
  BY Zenon DEF Inv, TypeOK, RunningInv, IdleInv, ScanFindsNone
<1>1. TypeOK'
  BY <1>0 DEF Inv, TypeOK, ScanFindsNone, task, local
<1>2. CreationInv'
  BY <1>0, Zenon DEF Inv, TypeOK, CreationInv, ScanFindsNone, task, local
<1>3. SlotInv' /\ OneSlotInv' /\ InTableInv'
  BY <1>0, TableKept, Zenon DEF ScanFindsNone, task, local
<1>4. CountedInv'
  BY <1>0, CountedKept, Zenon DEF ScanFindsNone, task, local
<1>5. IdleInv' /\ RunningInv' /\ CurrentInTable' /\ PassedInv'
  BY <1>0, Zenon DEF Inv, TypeOK, IdleInv, RunningInv, CurrentInTable, PassedInv, Passed, ScanFindsNone, task, local
<1> QED BY <1>1, <1>2, <1>3, <1>4, <1>5, Zenon DEF Inv

----------------------------------------------------------------------------
(* The steps of new_Task and SchedulerAddTask preserve the invariant. *)

(* The new task gets no slot yet; the running task exists, so it is another one. *)
LEMMA NewTaskInv ==
  ASSUME NEW t \in Tasks, NEW l \in NewLevels, Inv, ~CREATE_AFTER_START, NewTask(t, l)
  PROVE  Inv'
<1> USE SchedulerAssumption
<1>0. /\ m_pCurrent \in Tasks /\ m_pCurrent # Idle /\ m_pCurrent # t /\ t # Idle
      /\ mode = "task" /\ ~started /\ m_State[t] = "Unknown" /\ l \in Levels
      /\ pc[m_pCurrent] = "run" /\ pc \in [Tasks -> Places]
      /\ pc' = [pc EXCEPT ![m_pCurrent] = "add", ![t] = "entry"]
      /\ m_State' = [m_State EXCEPT ![t] = "Ready"] /\ m_State \in [Tasks -> TaskStates]
  BY Zenon DEF Inv, TypeOK, RunningInv, IdleInv, NewTask, AtRun, At
<1>1. PICK i \in Holes(l) \cup {-1} : slot' = [slot EXCEPT ![m_pCurrent] = i]
  BY Zenon DEF NewTask
<1>2. i # -1 => i \in InUse(l) /\ i \in Slots /\ m_pTask[l][i] = NULL
  <2>1. m_nTasks[l] \in 0 .. MAX_TASKS
    BY <1>0, Zenon DEF Inv, TypeOK
  <2> QED BY <2>1, <1>1 DEF Holes, InUse, Slots
<1>3. t \notin detached /\ ~InTable(t) /\ passes[t] = 0
  <2>1. t \notin detached
    BY <1>0, Zenon DEF Inv, InTableInv
  <2>2. ~InTable(t)
    BY <1>0 DEF Inv, SlotInv, InTable
  <2>3. passes[t] \in Nat
    BY Zenon DEF Inv, TypeOK
  <2> QED BY <2>1, <2>2, <2>3, <1>0 DEF Inv, CountedInv
<1>4. TypeOK'
  <2>1. m_State' \in [Tasks -> TaskStates] /\ pc' \in [Tasks -> Places]
    BY <1>0, Zenon DEF TaskStates, Places
  <2>2. slot' \in [Tasks -> Slots \cup {-1}]
    BY <1>0, <1>1, <1>2, Zenon DEF Inv, TypeOK
  <2>3. mLevel' \in [Tasks -> Levels] /\ Run' \in [Tasks -> {"TaskRun", "derived"}]
        /\ new' \in [Tasks -> Tasks \cup {NULL}]
    BY <1>0, Zenon DEF Inv, TypeOK, NewTask
  <2>4. rest' \in [Tasks -> Nat] /\ left' \in [Tasks -> Nat]
    BY Zenon DEF Inv, TypeOK, NewTask
  <2> QED BY <2>1, <2>2, <2>3, <2>4, Zenon DEF Inv, TypeOK, NewTask, table
<1>5. new'[m_pCurrent] = t /\ mLevel'[t] = l /\ slot'[m_pCurrent] = i
      /\ \A u \in Tasks : u # t => mLevel'[u] = mLevel[u]
  <2>1. new'[m_pCurrent] = t /\ slot'[m_pCurrent] = i
    <3>1. new \in [Tasks -> Tasks \cup {NULL}] /\ slot \in [Tasks -> Slots \cup {-1}]
      BY Zenon DEF Inv, TypeOK
    <3>2. new' = [new EXCEPT ![m_pCurrent] = t]
      BY Zenon DEF NewTask
    <3> QED BY <1>0, <1>1, <3>1, <3>2, Zenon
  <2>2. mLevel'[t] = l /\ \A u \in Tasks : u # t => mLevel'[u] = mLevel[u]
    BY Zenon DEF Inv, TypeOK, NewTask
  <2> QED BY <2>1, <2>2, Zenon
<1>6. /\ UNCHANGED <<m_pTask, m_nTasks, m_nLevelCurrent, m_pCurrent, m_nCurrentLevel, m_nCurrent>>
      /\ UNCHANGED <<started, mode, passes, detached>>
  BY Zenon DEF NewTask, table
<1>7. CreationInv'
  <2>1. CreationInv
    BY Zenon DEF Inv
  <2> QED BY ONLY <1>0, <1>2, <1>3, <1>5, <1>6, <2>1, t \in Tasks DEF CreationInv, InTable, InUse
<1>8. SlotInv' /\ OneSlotInv'
  <2>1. SlotInv /\ \A k \in Levels, j \in Slots : m_pTask[k][j] # NULL => m_pTask[k][j] \in Tasks
    BY SlotTypes, Zenon DEF Inv
  <2>2. pc'[m_pCurrent] = "add" /\ \A u \in Tasks : u # t => m_State'[u] = m_State[u]
    BY <1>0, Zenon
  <2>3. \A k \in Levels, j \in Slots : m_pTask[k][j] # t
    BY ONLY <1>3, Zenon DEF InTable
  <2>4. SlotInv'
    <3>1. pc[m_pCurrent] # "count"
      BY <1>0, Zenon
    <3> SUFFICES ASSUME NEW k \in Levels, NEW j \in Slots, m_pTask[k][j] # NULL
                 PROVE  /\ m_State'[m_pTask[k][j]] # "Unknown" /\ m_pTask[k][j] \notin detached
                        /\ m_pTask[k][j] # Idle => mLevel'[m_pTask[k][j]] = k
                        /\ ~(j >= m_nTasks[k])
      BY <1>6, Zenon DEF SlotInv
    <3>2. m_pTask[k][j] \in Tasks \ {t}
      BY <2>1, <2>3, Zenon
    <3>3. /\ m_State[m_pTask[k][j]] # "Unknown" /\ m_pTask[k][j] \notin detached
          /\ m_pTask[k][j] # Idle => mLevel[m_pTask[k][j]] = k
          /\ ~(j >= m_nTasks[k])
      BY <2>1, <3>1, Zenon DEF SlotInv
    <3> QED BY ONLY <1>5, <2>2, <3>2, <3>3, Zenon
  <2> QED BY <2>4, <1>6, OneSlotKept, Zenon DEF Inv
<1>9. InTableInv' /\ CountedInv'
  <2>1. InTableInv /\ CountedInv /\ detached \subseteq Tasks
    BY Zenon DEF Inv, TypeOK
  <2>2. \A u : InTable(u)' <=> InTable(u)
    BY <1>6, InTableKept, Zenon
  <2>3. pc'[m_pCurrent] = "add" /\ new'[m_pCurrent] = t /\ pc[m_pCurrent] # "add"
    BY <1>0, <1>5, Zenon
  <2>4. m_State'[t] = "Ready" /\ \A u \in Tasks : u # t => m_State'[u] = m_State[u]
    BY <1>0, Zenon
  <2>5. InTableInv'
    BY ONLY <1>3, <1>6, <2>1, <2>2, <2>3, <2>4, t \in Tasks, Zenon DEF InTableInv
  <2>6. ~(passes[t] > 0)
    BY ONLY <1>3
  <2>7. CountedInv'
    BY ONLY <1>6, <2>1, <2>2, <2>4, <2>6, t \in Tasks, Zenon DEF CountedInv
  <2> QED BY <2>5, <2>7, Zenon
<1>10. IdleInv' /\ RunningInv' /\ CurrentInTable' /\ PassedInv'
  <2>1. IdleInv /\ RunningInv /\ CurrentInTable /\ PassedInv
    BY Zenon DEF Inv
  <2>2. Run' = [Run EXCEPT ![t] = "TaskRun"] /\ Run \in [Tasks -> {"TaskRun", "derived"}]
    BY Zenon DEF Inv, TypeOK, NewTask
  <2>3. PassedInv' /\ CurrentInTable'
    BY <1>6, <2>1, Zenon DEF PassedInv, CurrentInTable, Passed, InUse
  <2> QED BY <1>0, <1>6, <2>1, <2>2, <2>3, Zenon DEF IdleInv, RunningInv
<1> QED BY <1>4, <1>7, <1>8, <1>9, <1>10, Zenon DEF Inv

(* The slot that is written is free: the hole that was found, or the one behind the
   slots in use, which stays to be counted. *)
LEMMA AddTaskWriteInv ==
  ASSUME Inv, AddTaskWrite
  PROVE  Inv'
<1> USE SchedulerAssumption
<1> DEFINE c == m_pCurrent
           t == new[c]
           l == mLevel[t]
           i == IF slot[c] = -1 THEN m_nTasks[l] ELSE slot[c]
           q == IF slot[c] = -1 THEN "count" ELSE "init"
<1>0. /\ c \in Tasks /\ c # Idle /\ mode = "task" /\ ~started /\ pc[c] = "add"
      /\ t \in Tasks \ detached /\ t # Idle /\ m_State[t] # "Unknown" /\ l \in Levels /\ i \in Slots
      /\ pc' = [pc EXCEPT ![c] = q] /\ pc \in [Tasks -> Places] /\ m_nTasks[l] \in 0 .. MAX_TASKS
  BY Zenon DEF Inv, TypeOK, CreationInv, IdleInv, AddTaskWrite, At, Goto
<1>1. \A k \in Levels, j \in Slots :
         m_pTask'[k][j] = IF k = l /\ j = i THEN t ELSE m_pTask[k][j]
  BY <1>0, Zenon DEF Inv, TypeOK, AddTaskWrite
<1>2. m_pTask[l][i] = NULL /\ ~InTable(t) /\ (slot[c] # -1 => i \in InUse(l))
  <2>1. ~InTable(t)
    BY <1>0, Zenon DEF Inv, CreationInv, InTable
  <2>2. CASE slot[c] = -1
    <3>1. i >= m_nTasks[l]
      BY <2>2, <1>0
    <3> QED BY <2>1, <2>2, <3>1, <1>0, Zenon DEF Inv, SlotInv
  <2>3. CASE slot[c] # -1
    BY <2>1, <2>3, <1>0, Zenon DEF Inv, CreationInv
  <2> QED BY <2>2, <2>3, Zenon
<1>3. UNCHANGED <<m_nTasks, m_nLevelCurrent, m_pCurrent, m_nCurrentLevel, m_nCurrent,
                  m_State, m_nWakeTicks, mLevel, Run, new, rest, left, ticks, started, mode,
                  passes, detached>>
  BY Zenon DEF AddTaskWrite, task
<1>4. slot' = [slot EXCEPT ![c] = -1]
  BY Zenon DEF AddTaskWrite
<1>5. TypeOK'
  <2>1. m_pTask' \in [Levels -> [Slots -> Tasks \cup {NULL}]]
    <3>1. m_pTask' = [m_pTask EXCEPT ![l] = [@ EXCEPT ![i] = t]]
      BY Zenon DEF AddTaskWrite
    <3> QED BY <3>1, <1>0, Zenon DEF Inv, TypeOK
  <2>2. pc' \in [Tasks -> Places] /\ slot' \in [Tasks -> Slots \cup {-1}]
    BY <1>0, <1>4, Zenon DEF Inv, TypeOK, Places
  <2> HIDE DEF c, t, l, i, q
  <2> QED BY <2>1, <2>2, <1>3, Zenon DEF Inv, TypeOK
<1> HIDE DEF t, l, i
<1>6. pc'[c] = q /\ \A u \in Tasks : u # c => pc'[u] = pc[u]
  BY <1>0, Zenon
<1>7. CreationInv'
  <2>1. \A u \in Tasks : pc'[u] \in {"add", "count", "init"} => u = c /\ mode = "task" /\ ~started
    BY <1>0, <1>6, Zenon DEF Inv, CreationInv
  <2>2. q = "count" => i = m_nTasks[l] /\ m_nTasks[l] < MAX_TASKS
    BY <1>0 DEF i, Slots
  <2>3. \/ pc'[c] = "init"
        \/ pc'[c] = "count" /\ i = m_nTasks[l] /\ m_nTasks[l] < MAX_TASKS /\ m_pTask'[l][i] = t
    BY <1>0, <1>1, <1>6, <2>2, Zenon
  <2>4. UNCHANGED <<m_nTasks, m_pCurrent, m_State, mLevel, new, started, mode, detached>>
    BY <1>3, Zenon
  <2> QED BY ONLY <1>0, <2>1, <2>3, <2>4, Zenon DEF CreationInv, t, l
<1>8. SlotInv'
  <2> SUFFICES ASSUME NEW k \in Levels, NEW j \in Slots, m_pTask'[k][j] # NULL
               PROVE  /\ m_State[m_pTask'[k][j]] # "Unknown"
                      /\ m_pTask'[k][j] \notin detached
                      /\ m_pTask'[k][j] # Idle => mLevel[m_pTask'[k][j]] = k
                      /\ j >= m_nTasks[k] =>
                            /\ pc'[c] = "count" /\ m_pTask'[k][j] = new[c]
                            /\ j = m_nTasks[k]
    <3>1. UNCHANGED <<m_nTasks, m_pCurrent, m_State, mLevel, new, detached>>
      BY <1>3, Zenon
    <3> QED BY <3>1 DEF SlotInv
  <2>1. CASE k = l /\ j = i
    <3>1. m_pTask'[k][j] = t
      BY <2>1, <1>1, Zenon
    <3>2. j >= m_nTasks[k] => slot[c] = -1
      BY <2>1, <1>0, <1>2, InUseBelow, Zenon DEF InUse
    <3>3. slot[c] = -1 => j = m_nTasks[k]
      BY <2>1, Zenon DEF i
    <3> QED BY <2>1, <3>1, <3>2, <3>3, <1>0, <1>6, Zenon DEF t, l
  <2>2. CASE ~(k = l /\ j = i)
    BY <2>2, <1>0, <1>1 DEF Inv, SlotInv
  <2> QED BY <2>1, <2>2, Zenon
<1>9. OneSlotInv'
  BY <1>1, <1>2 DEF Inv, OneSlotInv, InTable
<1>10. InTableInv' /\ CountedInv'
  <2>1. \A u : InTable(u) => InTable(u)' \/ u = NULL
    BY <1>1, <1>2 DEF InTable
  <2>2. \E k \in Levels, j \in Slots : m_pTask'[k][j] = t
    BY <1>0, <1>1, Zenon
  <2>3. InTableInv'
    <3>1. \A u \in Tasks \ detached : m_State[u] # "Unknown" => InTable(u) \/ u = t
      BY Zenon DEF Inv, InTableInv, t
    <3>2. \A u \in Tasks : InTable(u) \/ u = t => InTable(u)'
      BY <2>1, <2>2, Zenon DEF InTable
    <3>3. \A u \in Tasks \ detached : m_State[u] # "Unknown" => InTable(u)'
      BY <3>1, <3>2, Zenon
    <3> QED BY <3>3, <1>3, Zenon DEF Inv, InTableInv
  <2>4. CountedInv'
    BY <2>1, <1>0, <1>3, Zenon DEF Inv, CountedInv
  <2> QED BY <2>3, <2>4, Zenon
<1>11. IdleInv' /\ RunningInv'
  BY <1>0, <1>3, <1>6, Zenon DEF Inv, IdleInv, RunningInv
<1>12. CurrentInTable'
  <2>1. /\ m_nCurrentLevel \in Levels /\ m_nCurrent \in InUse(m_nCurrentLevel)
        /\ m_pTask[m_nCurrentLevel][m_nCurrent] = c
        /\ m_nTasks[m_nCurrentLevel] \in 0 .. MAX_TASKS
    BY <1>0, Zenon DEF Inv, TypeOK, CurrentInTable
  <2>2. m_nCurrent \in Slots /\ c # NULL
    BY <2>1, <1>0 DEF InUse, Slots
  <2> QED BY <2>1, <2>2, <1>1, <1>2, <1>3, Zenon DEF CurrentInTable, InUse
<1>13. PassedInv'
  <2>1. passes[t] = 0 /\ \A k \in Levels, j \in Slots : Passed(k, j) \in Nat
    BY <1>0, <1>2, PassedNat DEF Inv, CountedInv, TypeOK
  <2>2. PassedInv /\ UNCHANGED <<passes, m_nLevelCurrent>>
    BY <1>3, Zenon DEF Inv
  <2> QED BY ONLY <2>1, <2>2, <1>1 DEF PassedInv, Passed
<1> QED BY <1>5, <1>7, <1>8, <1>9, <1>10, <1>11, <1>12, <1>13, Zenon DEF Inv

(* SchedulerAddTask counts a slot it added at the end. *)
LEMMA AddTaskCountInv ==
  ASSUME Inv, AddTaskCount
  PROVE  Inv'
<1> USE SchedulerAssumption
<1> DEFINE c == m_pCurrent
           l == mLevel[new[c]]
<1>0. /\ c \in Tasks /\ c # Idle /\ mode = "task" /\ ~started /\ pc[c] = "count"
      /\ new[c] \in Tasks /\ l \in Levels /\ m_nTasks[l] \in 0 .. MAX_TASKS - 1
      /\ pc' = [pc EXCEPT ![c] = "init"] /\ pc \in [Tasks -> Places]
      /\ m_nTasks \in [Levels -> 0 .. MAX_TASKS]
  BY DEF Inv, TypeOK, CreationInv, IdleInv, AddTaskCount, At, Goto
<1>1. m_nTasks' = [m_nTasks EXCEPT ![l] = @ + 1]
  BY Zenon DEF AddTaskCount
<1>2. UNCHANGED <<m_pTask, m_nLevelCurrent, m_pCurrent, m_nCurrentLevel, m_nCurrent,
                  m_State, m_nWakeTicks, mLevel, Run, new, slot, rest, left, ticks, started,
                  mode, passes, detached>>
  BY Zenon DEF AddTaskCount, task
<1> HIDE DEF l
<1>3. TypeOK'
  <2>1. m_nTasks' \in [Levels -> 0 .. MAX_TASKS] /\ pc' \in [Tasks -> Places]
    BY <1>0, <1>1 DEF Places
  <2> QED BY <2>1, <1>2, Zenon DEF Inv, TypeOK
<1>4. CreationInv'
  BY <1>0, <1>2, Zenon DEF Inv, CreationInv
<1>5. SlotInv'
  <2> SUFFICES ASSUME NEW k \in Levels, NEW j \in Slots, m_pTask[k][j] # NULL
               PROVE  j < m_nTasks'[k]
    <3>1. /\ \A k \in Levels : m_nTasks'[k] \in Int
          /\ \A j \in Slots : j \in Int
      BY <1>3 DEF TypeOK, Slots
    <3>2. UNCHANGED <<m_pTask, m_pCurrent, m_State, mLevel, detached>>
      BY <1>2, Zenon
    <3> QED BY <3>1, <3>2 DEF Inv, SlotInv
  <2>1. j >= m_nTasks[k] => k = l /\ j = m_nTasks[k]
    BY <1>0, Zenon DEF Inv, SlotInv, CreationInv, l
  <2>2. m_nTasks[k] \in Nat /\ j \in Int
    BY <1>0 DEF Slots
  <2> QED BY <2>1, <2>2, <1>0, <1>1
<1>6. OneSlotInv' /\ InTableInv' /\ CountedInv'
  <2>1. OneSlotInv' /\ \A u : InTable(u)' <=> InTable(u)
    BY <1>2, OneSlotKept, InTableKept, Zenon DEF Inv
  <2>2. pc[c] # "add" /\ detached \subseteq Tasks
    BY <1>0, Zenon DEF Inv, TypeOK
  <2> QED BY <1>2, <2>1, <2>2, Zenon DEF Inv, InTableInv, CountedInv
<1>7. IdleInv' /\ RunningInv' /\ PassedInv'
  BY <1>0, <1>2, Zenon DEF Inv, IdleInv, RunningInv, PassedInv, Passed
<1>8. CurrentInTable'
  BY <1>0, <1>1, <1>2 DEF Inv, TypeOK, CurrentInTable, InUse
<1> QED BY <1>3, <1>4, <1>5, <1>6, <1>7, <1>8, Zenon DEF Inv

----------------------------------------------------------------------------
(* Taking a task out of the table, by SchedulerRemoveTask or when SchedulerGetNextTask
   reaps a terminated one, preserves the invariant. *)

(* RemoveFromTable clears the one slot of its task. *)
LEMMA RemoveEffect ==
  ASSUME Inv, NEW l \in Levels, NEW i \in InUse(l), m_pTask[l][i] \in Tasks \ {Idle},
         RemoveFromTable(m_pTask[l][i])
  PROVE  /\ \A k \in Levels, j \in Slots :
               m_pTask'[k][j] = IF k = l /\ j = i THEN NULL ELSE m_pTask[k][j]
         /\ m_nTasks' = [m_nTasks EXCEPT ![l] = IF i = @ - 1 THEN @ - 1 ELSE @]
         /\ m_pTask' \in [Levels -> [Slots -> Tasks \cup {NULL}]]
         /\ m_nTasks' \in [Levels -> 0 .. MAX_TASKS]
<1> USE SchedulerAssumption
<1> DEFINE t == m_pTask[l][i]
<1>0. \A k \in Levels : m_nTasks[k] \in 0 .. MAX_TASKS /\ InUse(k) \subseteq Slots
  BY InUseSlots, Zenon DEF Inv
<1>1. mLevel[t] = l
  <2>1. i \in Slots /\ t # NULL /\ t # Idle
    BY <1>0, Zenon
  <2>2. SlotInv
    BY Zenon DEF Inv
  <2> QED BY ONLY <2>1, <2>2, l \in Levels, Zenon DEF SlotInv
<1>2. SlotsOf(t) = {i}
  <2>1. i \in SlotsOf(t)
    BY <1>1, Zenon DEF SlotsOf
  <2>2. \A j \in SlotsOf(t) : j = i
    <3>1. t # NULL /\ i \in Slots /\ \A j \in SlotsOf(t) : j \in Slots /\ m_pTask[l][j] = t
      BY <1>0, <1>1, Zenon DEF SlotsOf
    <3>2. OneSlotInv
      BY Zenon DEF Inv
    <3> QED BY ONLY <3>1, <3>2, l \in Levels DEF OneSlotInv
  <2> QED BY <2>1, <2>2, Zenon
<1>3. /\ m_pTask' = [m_pTask EXCEPT ![l] = [@ EXCEPT ![i] = NULL]]
      /\ m_nTasks' = [m_nTasks EXCEPT ![l] = IF i = @ - 1 THEN @ - 1 ELSE @]
  BY <1>1, <1>2, Zenon DEF RemoveFromTable
<1>4. i \in Slots /\ m_pTask \in [Levels -> [Slots -> Tasks \cup {NULL}]]
      /\ m_nTasks \in [Levels -> 0 .. MAX_TASKS] /\ m_nTasks[l] > 0
  <2>1. i \in Slots
    BY <1>0, Zenon
  <2>2. m_nTasks[l] > 0
    BY <1>0 DEF InUse
  <2> QED BY <2>1, <2>2, Zenon DEF Inv, TypeOK
<1>5. m_pTask' \in [Levels -> [Slots -> Tasks \cup {NULL}]]
  BY <1>3, <1>4, Zenon
<1>6. m_nTasks' \in [Levels -> 0 .. MAX_TASKS]
  BY <1>3, <1>4
<1>7. \A k \in Levels, j \in Slots :
         m_pTask'[k][j] = IF k = l /\ j = i THEN NULL ELSE m_pTask[k][j]
  BY <1>3, <1>4, Zenon
<1> QED BY <1>3, <1>5, <1>6, <1>7, Zenon

(* Once a task that is not running has left its slot, and either is marked as taken out
   or no longer exists, the table is in order again. *)
LEMMA RemoveInv ==
  ASSUME Inv, NEW l \in Levels, NEW i \in InUse(l), m_pTask[l][i] \in Tasks \ {Idle},
         mode = "task" => m_pTask[l][i] # m_pCurrent,
         \A k \in Levels, j \in Slots :
            m_pTask'[k][j] = IF k = l /\ j = i THEN NULL ELSE m_pTask[k][j],
         \/ UNCHANGED m_nTasks
         \/ m_nTasks' = [m_nTasks EXCEPT ![l] = IF i = @ - 1 THEN @ - 1 ELSE @],
         m_nTasks' \in [Levels -> 0 .. MAX_TASKS],
         pc[m_pCurrent] \notin {"add", "count"},
         UNCHANGED <<m_nLevelCurrent, m_pCurrent, mLevel, mode>>,
         \/ UNCHANGED m_State /\ detached' = detached \cup {m_pTask[l][i]}
         \/ /\ m_State' = [m_State EXCEPT ![m_pTask[l][i]] = "Unknown"]
            /\ UNCHANGED detached,
         mode = "task" => UNCHANGED <<m_nCurrentLevel, m_nCurrent>>,
         passes' = [passes EXCEPT ![m_pTask[l][i]] = 0]
  PROVE  SlotInv' /\ OneSlotInv' /\ InTableInv' /\ CurrentInTable' /\ PassedInv' /\ CountedInv'
<1> USE SchedulerAssumption
<1> DEFINE t == m_pTask[l][i]
<1>1. /\ \A k \in Levels, j \in Slots :
            m_pTask'[k][j] = IF k = l /\ j = i THEN NULL ELSE m_pTask[k][j]
      /\ \/ UNCHANGED m_nTasks
         \/ m_nTasks' = [m_nTasks EXCEPT ![l] = IF i = @ - 1 THEN @ - 1 ELSE @]
      /\ m_nTasks' \in [Levels -> 0 .. MAX_TASKS]
  BY Zenon
<1>2. /\ i \in Slots /\ m_nTasks \in [Levels -> 0 .. MAX_TASKS]
      /\ \A k \in Levels, j \in Slots : m_pTask[k][j] \in Tasks \cup {NULL}
      /\ m_State \in [Tasks -> TaskStates] /\ passes \in [Tasks -> Nat]
  <2>1. i \in Slots
    BY InUseSlots, Zenon DEF Inv
  <2>2. \A k \in Levels, j \in Slots : m_pTask[k][j] \in Tasks \cup {NULL}
    BY SlotTypes, Zenon
  <2> QED BY <2>1, <2>2, Zenon DEF Inv, TypeOK
<1>3. \A k \in Levels, j \in Slots : m_pTask'[k][j] # NULL =>
         m_pTask'[k][j] = m_pTask[k][j] /\ m_pTask[k][j] # t
  <2>1. OneSlotInv /\ t # NULL
    BY Zenon DEF Inv
  <2> QED BY ONLY <1>1, <1>2, <2>1, l \in Levels DEF OneSlotInv
<1>4. \A k \in Levels, j \in Slots : m_pTask'[k][j] # NULL => j < m_nTasks'[k]
  <2> SUFFICES ASSUME NEW k \in Levels, NEW j \in Slots, m_pTask'[k][j] # NULL
               PROVE  j < m_nTasks'[k]
    BY Zenon
  <2>1. m_pTask[k][j] # NULL /\ ~(k = l /\ j = i)
    <3>1. m_pTask'[k][j] = m_pTask[k][j]
      BY <1>3, Zenon
    <3>2. m_pTask'[k][j] = IF k = l /\ j = i THEN NULL ELSE m_pTask[k][j]
      BY <1>1, Zenon
    <3> QED BY <3>1, <3>2, Zenon
  <2>2. j < m_nTasks[k] /\ j \in Int /\ m_nTasks[k] \in Int
    <3>1. ~(j >= m_nTasks[k])
      BY <2>1, Zenon DEF Inv, SlotInv
    <3>2. m_nTasks[k] \in 0 .. MAX_TASKS
      BY <1>2, Zenon
    <3> QED BY ONLY <3>1, <3>2, j \in Slots, SchedulerAssumption DEF Slots
  <2>3. CASE UNCHANGED m_nTasks
    BY ONLY <2>2, <2>3
  <2>4. CASE m_nTasks' = [m_nTasks EXCEPT ![l] = IF i = @ - 1 THEN @ - 1 ELSE @]
    BY ONLY <2>1, <2>2, <2>4, <1>2, l \in Levels, k \in Levels
  <2> QED BY <2>3, <2>4, <1>1, Zenon
<1>5. SlotInv'
  <2> SUFFICES ASSUME NEW k \in Levels, NEW j \in Slots, m_pTask'[k][j] # NULL
               PROVE  /\ m_State'[m_pTask'[k][j]] # "Unknown"
                      /\ m_pTask'[k][j] \notin detached'
                      /\ m_pTask'[k][j] # Idle => mLevel[m_pTask'[k][j]] = k
                      /\ ~(j >= m_nTasks'[k])
    BY Zenon DEF SlotInv
  <2>1. m_pTask'[k][j] = m_pTask[k][j] /\ m_pTask[k][j] # t /\ m_pTask[k][j] \in Tasks
    BY <1>3, SlotTypes, Zenon
  <2>2. ~(j >= m_nTasks'[k])
    <3>1. j < m_nTasks'[k] /\ m_nTasks'[k] \in 0 .. MAX_TASKS
      BY <1>1, <1>4, Zenon
    <3> QED BY ONLY <3>1, j \in Slots, SchedulerAssumption DEF Slots
  <2>3. m_State'[m_pTask[k][j]] = m_State[m_pTask[k][j]] /\ (m_pTask[k][j] \in detached' => m_pTask[k][j] \in detached)
    BY <2>1, <1>2, Zenon
  <2>4. SlotInv /\ m_pTask[k][j] # NULL
    BY <2>1, Zenon DEF Inv
  <2>5. /\ m_State[m_pTask[k][j]] # "Unknown" /\ m_pTask[k][j] \notin detached
        /\ m_pTask[k][j] # Idle => mLevel[m_pTask[k][j]] = k
    BY ONLY <2>4, k \in Levels, j \in Slots, Zenon DEF SlotInv
  <2>6. /\ m_State'[m_pTask[k][j]] # "Unknown" /\ m_pTask[k][j] \notin detached'
    BY ONLY <2>3, <2>5, Zenon
  <2>7. m_pTask'[k][j] = m_pTask[k][j]
    BY <2>1, Zenon
  <2> QED BY ONLY <2>2, <2>5, <2>6, <2>7
<1>6. OneSlotInv'
  <2>1. OneSlotInv
    BY Zenon DEF Inv
  <2> QED BY ONLY <1>3, <2>1 DEF OneSlotInv
<1>7. \A u \in Tasks : u # t => (InTable(u) <=> InTable(u)')
  BY <1>1, <1>2 DEF InTable
<1>8. InTableInv'
  <2>1. CASE UNCHANGED m_State /\ detached' = detached \cup {t}
    <3>1. m_State[t] # "Unknown"
      BY <1>2, Zenon DEF Inv, SlotInv
    <3>2. InTableInv /\ pc[m_pCurrent] # "add"
      BY Zenon DEF Inv
    <3> HIDE DEF t
    <3> QED BY ONLY <2>1, <3>1, <3>2, <1>7, Zenon DEF InTableInv
  <2>2. CASE m_State' = [m_State EXCEPT ![t] = "Unknown"] /\ UNCHANGED detached
    <3>1. t \notin detached /\ m_State'[t] = "Unknown"
      BY <2>2, <1>2, Zenon DEF Inv, SlotInv
    <3>2. \A u \in Tasks : u # t => m_State'[u] = m_State[u]
      BY <2>2, <1>2, Zenon
    <3>3. detached \subseteq Tasks
      BY Zenon DEF Inv, TypeOK
    <3> HIDE DEF t
    <3> QED BY <2>2, <3>1, <3>2, <3>3, <1>7, Zenon DEF Inv, InTableInv
  <2> QED BY <2>1, <2>2, Zenon
<1>9. CurrentInTable'
  <2> SUFFICES ASSUME mode = "task" PROVE CurrentInTable'
    BY Zenon DEF CurrentInTable
  <2>1. /\ m_nCurrentLevel \in Levels /\ m_nCurrent \in InUse(m_nCurrentLevel)
        /\ m_pTask[m_nCurrentLevel][m_nCurrent] = m_pCurrent
        /\ m_nTasks[m_nCurrentLevel] \in 0 .. MAX_TASKS
    BY Zenon DEF Inv, TypeOK, CurrentInTable
  <2>2. m_nCurrent \in Slots /\ ~(m_nCurrentLevel = l /\ m_nCurrent = i)
    BY <2>1 DEF InUse, Slots
  <2>3. m_pTask'[m_nCurrentLevel][m_nCurrent] = m_pCurrent
    BY <2>1, <2>2, <1>1, Zenon
  <2>4. m_nCurrent < m_nTasks'[m_nCurrentLevel]
    <3>1. m_pCurrent # NULL
      BY Zenon DEF Inv, TypeOK
    <3> QED BY <3>1, <2>1, <2>2, <2>3, <1>4, Zenon
  <2>5. m_nTasks'[m_nCurrentLevel] \in 0 .. MAX_TASKS
    BY <2>1, <1>1, Zenon
  <2>6. m_nCurrent \in InUse(m_nCurrentLevel)'
    BY ONLY <2>2, <2>4, <2>5, mode = "task", mode = "task" => UNCHANGED <<m_nCurrentLevel, m_nCurrent>>,
            SchedulerAssumption DEF InUse, Slots
  <2> QED BY <2>1, <2>3, <2>6, Zenon DEF CurrentInTable
<1>10. PassedInv'
  <2>1. \A u \in Tasks : u # t => passes'[u] = passes[u]
    BY <1>2, Zenon
  <2>2. \A k, j : Passed(k, j)' = Passed(k, j)
    BY Zenon DEF Passed
  <2>3. PassedInv /\ \A k \in Levels, j \in Slots : m_pTask[k][j] # NULL => m_pTask[k][j] \in Tasks
    BY SlotTypes, Zenon DEF Inv
  <2> HIDE DEF t
  <2> QED BY ONLY <2>1, <2>2, <2>3, <1>3 DEF PassedInv
<1>11. CountedInv'
  <2>1. \A u \in Tasks : passes'[u] = IF u = t THEN 0 ELSE passes[u]
    BY <1>2, Zenon
  <2>2. \A u \in Tasks : u # t => m_State'[u] = m_State[u]
    BY <1>2, Zenon
  <2>3. CountedInv
    BY Zenon DEF Inv
  <2> HIDE DEF t
  <2> QED BY ONLY <2>1, <2>2, <2>3, <1>7 DEF CountedInv
<1> QED BY <1>5, <1>6, <1>8, <1>9, <1>10, <1>11, Zenon

(* Another task is taken out of the table: its slot is freed. *)
LEMMA SchedulerRemoveTaskInv ==
  ASSUME NEW t \in Tasks, Inv, SchedulerRemoveTask(t)
  PROVE  Inv'
<1> USE SchedulerAssumption
<1> DEFINE l == mLevel[t]
<1>1. l \in Levels /\ t # Idle /\ t # m_pCurrent /\ m_pCurrent \in Tasks /\ m_pCurrent # Idle
      /\ mode = "task" /\ pc[m_pCurrent] = "run" /\ pc \in [Tasks -> Places]
      /\ pc' = [pc EXCEPT ![m_pCurrent] = "trim"]
  BY Zenon DEF Inv, TypeOK, SchedulerRemoveTask, AtRun, At, Goto
<1>2. PICK i \in InUse(l) : /\ m_pTask[l][i] = t
                            /\ m_pTask' = [m_pTask EXCEPT ![l] = [@ EXCEPT ![i] = NULL]]
                            /\ slot' = [slot EXCEPT ![m_pCurrent] = i]
  BY Zenon DEF SchedulerRemoveTask, SlotsOf
<1>3. i \in Slots /\ m_pTask \in [Levels -> [Slots -> Tasks \cup {NULL}]]
      /\ m_nTasks \in [Levels -> 0 .. MAX_TASKS]
  BY <1>1, InUseSlots, Zenon DEF Inv, TypeOK
<1>4. /\ UNCHANGED <<m_nTasks, m_nLevelCurrent, m_pCurrent, m_nCurrentLevel, m_nCurrent,
                     m_State, m_nWakeTicks, mLevel, Run, rest, left, ticks, started, mode>>
      /\ passes' = [passes EXCEPT ![t] = 0] /\ detached' = detached \cup {t}
      /\ new' = [new EXCEPT ![m_pCurrent] = t]
  BY Zenon DEF SchedulerRemoveTask, task
<1> HIDE DEF l
<1>5. \A k \in Levels, j \in Slots :
         m_pTask'[k][j] = IF k = l /\ j = i THEN NULL ELSE m_pTask[k][j]
  BY <1>1, <1>2, <1>3, Zenon
<1>6. SlotInv' /\ OneSlotInv' /\ InTableInv' /\ CurrentInTable' /\ PassedInv' /\ CountedInv'
  <2>1. /\ m_pTask[l][i] \in Tasks \ {Idle} /\ (mode = "task" => m_pTask[l][i] # m_pCurrent)
        /\ UNCHANGED m_nTasks \/ m_nTasks' = [m_nTasks EXCEPT ![l] = IF i = @ - 1 THEN @ - 1 ELSE @]
        /\ m_nTasks' \in [Levels -> 0 .. MAX_TASKS]
        /\ pc[m_pCurrent] \notin {"add", "count"}
    BY <1>1, <1>2, <1>3, <1>4, Zenon
  <2>2. /\ UNCHANGED <<m_nLevelCurrent, m_pCurrent, mLevel, mode>>
        /\ \/ UNCHANGED m_State /\ detached' = detached \cup {m_pTask[l][i]}
           \/ /\ m_State' = [m_State EXCEPT ![m_pTask[l][i]] = "Unknown"]
              /\ UNCHANGED detached
        /\ mode = "task" => UNCHANGED <<m_nCurrentLevel, m_nCurrent>>
        /\ passes' = [passes EXCEPT ![m_pTask[l][i]] = 0]
    BY <1>2, <1>4, Zenon
  <2>3. Inv /\ l \in Levels /\ i \in InUse(l)
    BY <1>1, Zenon
  <2> QED BY ONLY <2>1, <2>2, <2>3, <1>5, RemoveInv, Zenon
<1>7. TypeOK'
  <2>1. m_pTask' \in [Levels -> [Slots -> Tasks \cup {NULL}]]
    BY <1>1, <1>2, <1>3, Zenon
  <2>2. passes' \in [Tasks -> Nat] /\ detached' \subseteq Tasks
        /\ new' \in [Tasks -> Tasks \cup {NULL}] /\ slot' \in [Tasks -> Slots \cup {-1}]
    BY <1>1, <1>2, <1>3, <1>4, Zenon DEF Inv, TypeOK
  <2>3. pc' \in [Tasks -> Places]
    BY <1>1, Zenon DEF Places
  <2> QED BY <2>1, <2>2, <2>3, <1>4, Zenon DEF Inv, TypeOK
<1>8. CreationInv'
  <2>1. pc'[m_pCurrent] = "trim" /\ \A u \in Tasks : u # m_pCurrent => pc'[u] = pc[u]
    BY <1>1, Zenon
  <2> QED BY <1>4, <2>1, Zenon DEF Inv, CreationInv
<1>9. IdleInv' /\ RunningInv'
  BY <1>1, <1>4, Zenon DEF Inv, IdleInv, RunningInv
<1> QED BY <1>6, <1>7, <1>8, <1>9, Zenon DEF Inv

(* The freed slot is given back: it is still free, so no task is cut off. *)
LEMMA RemoveTaskTrimsInv ==
  ASSUME Inv, TrimInv, RemoveTaskTrims
  PROVE  Inv'
<1> USE SchedulerAssumption
<1> DEFINE c == m_pCurrent
           l == mLevel[new[c]]
           i == slot[c]
<1>1. /\ c \in Tasks /\ mode = "task" /\ pc[c] = "trim" /\ pc \in [Tasks -> Places]
      /\ pc' = [pc EXCEPT ![c] = "run"]
      /\ new \in [Tasks -> Tasks \cup {NULL}] /\ slot \in [Tasks -> Slots \cup {-1}]
      /\ m_nTasks \in [Levels -> 0 .. MAX_TASKS] /\ mLevel \in [Tasks -> Levels]
  BY Zenon DEF Inv, TypeOK, RemoveTaskTrims, At, Goto
<1>2. new[c] \in Tasks /\ l \in Levels /\ i \in Slots /\ m_pTask[l][i] = NULL
  BY <1>1, Zenon DEF TrimInv
<1>3. /\ UNCHANGED <<m_pTask, m_nLevelCurrent, m_pCurrent, m_nCurrentLevel, m_nCurrent,
                     m_State, m_nWakeTicks, mLevel, Run, rest, left, ticks, started, mode,
                     passes, detached>>
      /\ new' = [new EXCEPT ![c] = NULL] /\ slot' = [slot EXCEPT ![c] = -1]
      /\ m_nTasks' = [m_nTasks EXCEPT ![l] = IF i = @ - 1 THEN @ - 1 ELSE @]
  BY Zenon DEF RemoveTaskTrims, task
<1> HIDE DEF l, i
<1>4. /\ m_nTasks' \in [Levels -> 0 .. MAX_TASKS]
      /\ \A k \in Levels, j \in Slots : m_pTask[k][j] # NULL =>
            (j >= m_nTasks'[k] => j >= m_nTasks[k])
  BY <1>1, <1>2, <1>3 DEF Slots
<1>5. pc'[c] = "run" /\ \A u \in Tasks : u # c => pc'[u] = pc[u]
  BY <1>1, Zenon
<1>6. TypeOK'
  <2>1. pc' \in [Tasks -> Places] /\ new' \in [Tasks -> Tasks \cup {NULL}]
        /\ slot' \in [Tasks -> Slots \cup {-1}]
    BY <1>1, <1>3, Zenon DEF Places
  <2> QED BY <2>1, <1>3, <1>4, Zenon DEF Inv, TypeOK
<1>7. CreationInv'
  BY <1>1, <1>3, <1>5, Zenon DEF Inv, CreationInv
<1>8. SlotInv'
  BY <1>1, <1>3, <1>4, Zenon DEF Inv, SlotInv
<1>9. OneSlotInv' /\ InTableInv' /\ CountedInv'
  <2>1. OneSlotInv' /\ \A u : InTable(u)' <=> InTable(u)
    BY <1>3, OneSlotKept, InTableKept, Zenon DEF Inv
  <2>2. pc[c] # "add" /\ detached \subseteq Tasks
    BY <1>1, Zenon DEF Inv, TypeOK
  <2> QED BY <1>3, <2>1, <2>2, Zenon DEF Inv, InTableInv, CountedInv
<1>10. IdleInv' /\ RunningInv' /\ PassedInv'
  BY <1>1, <1>3, <1>5, Zenon DEF Inv, IdleInv, RunningInv, PassedInv, Passed
<1>11. CurrentInTable'
  <2>1. /\ m_nCurrentLevel \in Levels /\ m_nCurrent \in InUse(m_nCurrentLevel)
        /\ m_pTask[m_nCurrentLevel][m_nCurrent] = c /\ c # NULL
    BY <1>1, Zenon DEF Inv, TypeOK, CurrentInTable
  <2>2. m_nCurrent \in Slots
    BY <2>1, InUseSlots, Zenon DEF Inv
  <2>3. ~(m_nCurrent >= m_nTasks[m_nCurrentLevel])
    BY <2>1, <2>2, <1>1, InUseBelow, Zenon DEF InUse
  <2>4. m_nCurrent \in 0 .. m_nTasks'[m_nCurrentLevel] - 1
    BY <2>1, <2>2, <2>3, <1>4, InUseBelow, Zenon
  <2> QED BY <2>1, <2>4, <1>3, Zenon DEF CurrentInTable, InUse
<1> QED BY <1>6, <1>7, <1>8, <1>9, <1>10, <1>11, Zenon DEF Inv

(* SchedulerGetNextTask frees a terminated task. *)
LEMMA ScanReapsInv ==
  ASSUME NEW l \in Levels, NEW i \in InUse(l), Inv, ScanReaps(l, i)
  PROVE  Inv'
<1> USE SchedulerAssumption
<1> DEFINE t == m_pTask[l][i]
<1>1. /\ t \in Tasks \ {Idle} /\ m_State[t] = "Terminated" /\ mode # "task" /\ m_pCurrent \in Tasks
      /\ passes[t] = 0 /\ passes \in [Tasks -> Nat] /\ pc[m_pCurrent] \notin {"add", "count", "init"}
  <2>1. t \in Tasks /\ m_State[t] = "Terminated" /\ mode # "task"
    <3>1. t \in Tasks \cup {NULL}
      BY InUseSlots DEF Inv, TypeOK
    <3> QED BY <3>1, Zenon DEF ScanReaps, IsNext, Stops
  <2>2. m_pCurrent \in Tasks /\ passes \in [Tasks -> Nat]
    BY Zenon DEF Inv, TypeOK
  <2>3. t # Idle
    BY <2>1, Zenon DEF Inv, IdleInv
  <2>4. passes[t] = 0
    BY <2>1, <2>2 DEF Inv, CountedInv
  <2> QED BY <2>1, <2>2, <2>3, <2>4, Zenon DEF Inv, CreationInv
<1>2. passes' = [passes EXCEPT ![t] = 0]
  BY <1>1, Zenon DEF ScanReaps
<1>3. SlotInv' /\ OneSlotInv' /\ InTableInv' /\ CurrentInTable' /\ PassedInv' /\ CountedInv'
  <2>1. /\ \A k \in Levels, j \in Slots :
              m_pTask'[k][j] = IF k = l /\ j = i THEN NULL ELSE m_pTask[k][j]
        /\ m_nTasks' = [m_nTasks EXCEPT ![l] = IF i = @ - 1 THEN @ - 1 ELSE @]
        /\ m_nTasks' \in [Levels -> 0 .. MAX_TASKS]
    <3>1. Inv /\ l \in Levels /\ i \in InUse(l) /\ m_pTask[l][i] \in Tasks \ {Idle}
          /\ RemoveFromTable(m_pTask[l][i])
      BY <1>1, Zenon DEF ScanReaps
    <3> QED BY ONLY <3>1, RemoveEffect, Zenon
  <2>2. /\ Inv /\ l \in Levels /\ i \in InUse(l) /\ m_pTask[l][i] \in Tasks \ {Idle}
        /\ mode = "task" => m_pTask[l][i] # m_pCurrent
        /\ pc[m_pCurrent] \notin {"add", "count"}
    BY <1>1, Zenon
  <2>3. /\ UNCHANGED <<m_nLevelCurrent, m_pCurrent, mLevel, mode>>
        /\ \/ UNCHANGED m_State /\ detached' = detached \cup {m_pTask[l][i]}
           \/ /\ m_State' = [m_State EXCEPT ![m_pTask[l][i]] = "Unknown"]
              /\ UNCHANGED detached
        /\ mode = "task" => UNCHANGED <<m_nCurrentLevel, m_nCurrent>>
        /\ passes' = [passes EXCEPT ![m_pTask[l][i]] = 0]
    BY <1>1, <1>2, Zenon DEF ScanReaps
  <2> QED BY ONLY <2>1, <2>2, <2>3, RemoveInv, Zenon
<1>4. TypeOK'
  <2>1. m_pTask' \in [Levels -> [Slots -> Tasks \cup {NULL}]] /\ m_nTasks' \in [Levels -> 0 .. MAX_TASKS]
    BY <1>1, RemoveEffect, Zenon DEF ScanReaps
  <2>2. m_State' \in [Tasks -> TaskStates]
    BY <1>1, Zenon DEF Inv, TypeOK, ScanReaps, TaskStates
  <2>3. m_nCurrentLevel' \in Levels /\ m_nCurrent' \in 0 .. MAX_TASKS
    BY DEF ScanReaps
  <2> QED BY <2>1, <2>2, <2>3, Zenon DEF Inv, TypeOK, ScanReaps, local
<1>5. CreationInv' /\ RunningInv'
  BY <1>1, Zenon DEF Inv, CreationInv, RunningInv, ScanReaps, local
<1>6. IdleInv'
  BY <1>1, Zenon DEF Inv, TypeOK, IdleInv, ScanReaps, local
<1> QED BY <1>3, <1>4, <1>5, <1>6, Zenon DEF Inv

----------------------------------------------------------------------------
(* What the invariant establishes about the scheduler. *)

(* The CPU switches to the task that was found. *)
LEMMA ScanSwitchesInv ==
  ASSUME NEW l \in Levels, NEW j \in InUse(l), Inv, ScanSwitches(l, j)
  PROVE  Inv'
<1> USE SchedulerAssumption
<1> DEFINE t == m_pTask[l][j]
<1>1. /\ t \in Tasks /\ mode # "task" /\ m_pCurrent \in Tasks /\ j \in Slots
      /\ m_State[t] \in {"Ready", "Sleeping"}
      /\ \A u \in Tasks : pc[u] \notin {"add", "count", "init"}
  <2>1. j \in Slots /\ t \in Tasks \cup {NULL}
    BY InUseSlots DEF Inv, TypeOK
  <2>2. m_pCurrent \in Tasks /\ mode # "task"
    BY Zenon DEF Inv, TypeOK, ScanSwitches
  <2>3. t # NULL /\ m_State[t] \in {"Ready", "Sleeping"}
    BY Zenon DEF ScanSwitches, IsNext, Stops
  <2> QED BY <2>1, <2>2, <2>3, Zenon DEF Inv, CreationInv
<1>2. /\ m_State' = [m_State EXCEPT ![t] = "Ready"] /\ m_State \in [Tasks -> TaskStates]
      /\ m_nCurrentLevel' = l /\ m_nCurrent' = j /\ m_pCurrent' = t /\ mode' = "task"
      /\ m_nLevelCurrent' = [m_nLevelCurrent EXCEPT ![l] = j]
      /\ m_nLevelCurrent \in [Levels -> -1 .. MAX_TASKS - 1]
      /\ UNCHANGED <<m_pTask, m_nTasks, m_nWakeTicks, mLevel, Run, pc, new, slot, rest, left,
                     ticks, started, detached>>
  BY Zenon DEF Inv, TypeOK, ScanSwitches, local
<1>3. passes' = [u \in Tasks |->
                   IF u = t THEN 0
                   ELSE IF /\ m_State[u] = "Ready" /\ passes[u] < MAX_TASKS
                           /\ \E k \in InUse(l) : m_pTask[l][k] = u
                   THEN passes[u] + 1
                   ELSE passes[u]]
      /\ passes \in [Tasks -> Nat]
  BY Zenon DEF Inv, TypeOK, ScanSwitches
<1>4. \A u \in Tasks : m_State'[u] # "Unknown" <=> m_State[u] # "Unknown"
  BY <1>1, <1>2, Zenon
<1>5. TypeOK'
  <2>1. m_State' \in [Tasks -> TaskStates] /\ m_nCurrent' \in 0 .. MAX_TASKS
        /\ m_nLevelCurrent' \in [Levels -> -1 .. MAX_TASKS - 1]
    BY <1>1, <1>2 DEF TaskStates, Slots
  <2>2. passes' \in [Tasks -> Nat]
    <3>1. \A u \in Tasks : passes[u] \in Nat /\ passes[u] + 1 \in Nat
      BY ONLY <1>3
    <3> QED BY ONLY <1>3, <3>1, Zenon
  <2> QED BY <2>1, <2>2, <1>1, <1>2, Zenon DEF Inv, TypeOK
<1>6. \A k \in Levels, i \in Slots : m_pTask[k][i] # NULL => i \in InUse(k)
  <2>1. \A k \in Levels, i \in Slots : m_pTask[k][i] # NULL => ~(i >= m_nTasks[k])
    BY <1>1, Zenon DEF Inv, SlotInv
  <2>2. \A k \in Levels : m_nTasks[k] \in 0 .. MAX_TASKS
    BY Zenon DEF Inv, TypeOK
  <2> QED BY <2>1, <2>2 DEF InUse, Slots
<1>7. CreationInv'
  BY <1>1, <1>2, Zenon DEF CreationInv
<1>8. SlotInv' /\ OneSlotInv'
  <2>1. OneSlotInv'
    BY <1>2, OneSlotKept, Zenon DEF Inv
  <2>2. SlotInv /\ \A k \in Levels, i \in Slots : m_pTask[k][i] # NULL => m_pTask[k][i] \in Tasks
    BY SlotTypes, Zenon DEF Inv
  <2>3. pc[m_pCurrent] # "count" /\ UNCHANGED <<m_pTask, m_nTasks, mLevel, detached>>
    BY <1>1, <1>2, Zenon
  <2>4. SlotInv'
    BY ONLY <1>4, <2>2, <2>3 DEF SlotInv
  <2> QED BY <2>1, <2>4, Zenon
<1>9. InTableInv'
  <2>1. (\A u : InTable(u)' <=> InTable(u)) /\ UNCHANGED detached /\ detached \subseteq Tasks
    BY <1>2, InTableKept, Zenon DEF Inv, TypeOK
  <2>2. \A u \in Tasks \ detached : m_State[u] # "Unknown" => InTable(u)
    BY <1>1, Zenon DEF Inv, InTableInv
  <2> QED BY <2>1, <2>2, <1>4, Zenon DEF Inv, InTableInv
<1>10. IdleInv' /\ RunningInv'
  BY <1>1, <1>2, Zenon DEF Inv, IdleInv, RunningInv
<1>11. CurrentInTable'
  BY <1>2, Zenon DEF CurrentInTable, InUse
<1>12. PassedInv'
  <2> SUFFICES ASSUME NEW k \in Levels, NEW i \in Slots, m_pTask[k][i] # NULL
               PROVE  passes'[m_pTask[k][i]] <= Passed(k, i)'
    BY <1>2, Zenon DEF PassedInv
  <2> DEFINE u == m_pTask[k][i]
  <2>1. u \in Tasks /\ passes[u] \in Nat /\ passes[u] <= Passed(k, i) /\ i \in InUse(k)
        /\ Passed(k, i) \in Nat
    <3>1. u \in Tasks /\ passes[u] \in Nat
      BY SlotTypes, <1>3, Zenon
    <3>2. Passed(k, i) \in Nat
      BY PassedNat, Zenon DEF Inv
    <3> QED BY <3>1, <3>2, <1>6, Zenon DEF Inv, PassedInv
  <2>2. Passed(k, i)' \in Nat
    <3>1. m_nLevelCurrent'[k] \in -1 .. MAX_TASKS - 1
      BY <1>5, Zenon DEF TypeOK
    <3> QED BY ONLY <3>1, i \in Slots, SchedulerAssumption DEF Passed, Slots
  <2>3. CASE u = t
    <3>1. passes'[u] = 0
      BY <2>1, <2>3, <1>3, Zenon
    <3> QED BY ONLY <3>1, <2>2
  <2>4. CASE u # t /\ k # l
    <3>1. passes'[u] = passes[u]
      <4>1. \A j2 \in InUse(l) : m_pTask[l][j2] # u
        <5>1. InUse(l) \subseteq Slots
          BY InUseSlots, Zenon DEF Inv
        <5>2. OneSlotInv
          BY Zenon DEF Inv
        <5> QED BY <5>1, <5>2, <2>4 DEF OneSlotInv
      <4> QED BY <4>1, <2>1, <2>4, <1>3, Zenon
    <3>2. Passed(k, i)' = Passed(k, i)
      BY <2>4, <1>2, Zenon DEF Passed
    <3> QED BY <2>1, <3>1, <3>2, Zenon
  <2>5. CASE u # t /\ k = l
    <3>1. i # j
      BY <2>5, Zenon
    <3>2. Passed(k, i)' = IF j >= i THEN j - i ELSE MAX_TASKS - i + j
      BY <2>5, <1>2, Zenon DEF Passed
    <3>3. CASE m_State[u] = "Ready"
      <4>1. Visit(l, j) <= Visit(l, i)
        BY <2>1, <2>5, <3>3, Zenon DEF ScanSwitches, IsNext, Stops
      <4>2. Passed(l, i) + 1 <= Passed(k, i)'
        BY <2>1, <2>5, <3>1, <3>2, <4>1, VisitMovesOn DEF Inv
      <4>3. passes'[u] \in {passes[u], passes[u] + 1}
        BY <2>1, <2>5, <3>3, <1>3, Zenon
      <4>4. passes[u] \in Nat /\ passes[u] <= Passed(l, i) /\ Passed(l, i) \in Nat
        BY <2>1, <2>5, Zenon
      <4> QED BY ONLY <2>2, <4>2, <4>3, <4>4
    <3>4. CASE m_State[u] # "Ready"
      <4>1. passes[u] = 0 /\ passes'[u] = passes[u]
        BY <2>1, <2>5, <3>4, <1>3 DEF Inv, CountedInv
      <4>2. passes'[u] = 0
        BY <4>1, Zenon
      <4> QED BY ONLY <4>2, <2>2
    <3> QED BY <3>3, <3>4, Zenon
  <2> QED BY <2>3, <2>4, <2>5, Zenon
<1>13. CountedInv'
  <2> SUFFICES ASSUME NEW u \in Tasks, passes'[u] > 0 PROVE m_State'[u] = "Ready" /\ InTable(u)
    BY <1>2, Zenon DEF CountedInv, InTable
  <2>1. u # t
    BY <1>3
  <2>2. CASE m_State[u] = "Ready" /\ \E k \in InUse(l) : m_pTask[l][k] = u
    BY <2>2, <1>1, <1>2, InUseSlots, Zenon DEF Inv, InTable
  <2>3. CASE ~(m_State[u] = "Ready" /\ \E k \in InUse(l) : m_pTask[l][k] = u)
    <3>1. passes[u] > 0
      BY <2>1, <2>3, <1>3, Zenon
    <3> QED BY <3>1, <2>1, <1>1, <1>2, Zenon DEF Inv, CountedInv
  <2> QED BY <2>2, <2>3, Zenon
<1> QED BY <1>5, <1>7, <1>8, <1>9, <1>10, <1>11, <1>12, <1>13, Zenon DEF Inv

----------------------------------------------------------------------------
(* Every step preserves the invariant, when no task is created once slices run. *)
LEMMA InvNext == ~CREATE_AFTER_START /\ Inv /\ TrimInv /\ [Next]_vars => Inv'
<1> SUFFICES ASSUME ~CREATE_AFTER_START, Inv, TrimInv, [Next]_vars PROVE Inv'
  BY Zenon
<1> USE SchedulerAssumption
<1>0. /\ m_pCurrent \in Tasks /\ rest \in [Tasks -> Nat] /\ left \in [Tasks -> Nat]
      /\ m_pCurrent = Idle => pc[m_pCurrent] # "sleep" /\ Run[m_pCurrent] = "derived"
  BY Zenon DEF Inv, TypeOK, IdleInv
<1>1. CASE Create
  BY <1>1, NewTaskInv, AddTaskWriteInv, AddTaskCountInv, SetRunInv, StartSliceInv, Zenon DEF Create
<1>2. CASE Sleep
  <2>1. ASSUME NEW n \in Nat, SleepChunk(n), AtRun \/ At("again"), left' \in [Tasks -> Nat]
        PROVE  Inv'
    <3>1. CASE n > SLEEP_MAX
      <4>1. n - SLEEP_MAX \in Nat /\ SLEEP_MAX \in Nat /\ UsSleep(SLEEP_MAX, n - SLEEP_MAX)
        BY <2>1, <3>1 DEF SleepChunk
      <4> QED BY <4>1, <2>1, UsSleepInv, Zenon
    <3>2. CASE ~(n > SLEEP_MAX)
      BY <2>1, <3>2, UsSleepInv, Zenon DEF SleepChunk
    <3> QED BY <3>1, <3>2, Zenon
  <2>2. ASSUME NEW n \in Sleeps, SchedulerSleep(n) PROVE Inv'
    BY <2>1, <2>2, <1>0, Zenon DEF SchedulerSleep, Asks
  <2>3. ASSUME NEW n \in UsSleeps, SchedulerUsSleep(n) PROVE Inv'
    BY <2>3, <1>0, UsSleepInv, Zenon DEF SchedulerUsSleep, Asks
  <2>4. ASSUME NEW n \in MsSleeps, SchedulerMsSleep(n) PROVE Inv'
    <3> DEFINE us == n * TICK
    <3>1. us \in Nat /\ us % WORD \in Nat
      <4>1. us \in Nat
        OBVIOUS
      <4> HIDE DEF us
      <4> QED BY <4>1, ModType
    <3>2. AtRun /\ UsSleep(us % WORD, 0) /\ left' = [left EXCEPT ![m_pCurrent] = us]
      BY <2>4, Zenon DEF SchedulerMsSleep, Asks
    <3> HIDE DEF us
    <3> QED BY <3>1, <3>2, <1>0, UsSleepInv, Zenon
  <2>5. CASE SchedulerSleepAgain
    BY <2>1, <2>5, <1>0, Zenon DEF SchedulerSleepAgain
  <2>6. CASE SetSleeping
    BY <2>6, <1>0, StopInv, Zenon DEF SetSleeping, At, Goto, table
  <2> QED BY <1>2, <2>2, <2>3, <2>4, <2>5, <2>6, Zenon DEF Sleep
<1>3. CASE Scan
  BY <1>3, ScanFindsNoneInv, ScanReapsInv, ScanSwitchesInv, Zenon DEF Scan
<1>4. CASE TaskRun
  <2>1. m_pCurrent # Idle
    BY <1>4, <1>0, Zenon DEF TaskRun
  <2> QED BY <1>4, <2>1, StopInv, Zenon DEF TaskRun, Terminate, At, Goto, table
<1>5. CASE SchedulerKillSelfTask \/ SchedulerBlockTask
  BY <1>5, StopInv, Zenon DEF SchedulerKillSelfTask, SchedulerBlockTask, Terminate, AtRun, At, Goto, table
<1>6. CASE \E t \in Tasks : SchedulerWakeTask(t) \/ SchedulerRemoveTask(t)
  BY <1>6, WakeInv, SchedulerRemoveTaskInv, Zenon
<1>7. CASE UNCHANGED vars
  <2> USE <1>7, Zenon DEF vars, table, task, local
  <2>1. TypeOK'
    BY DEF Inv, TypeOK
  <2>2. CreationInv'
    BY DEF Inv, CreationInv, InUse
  <2>3. SlotInv' /\ OneSlotInv'
    BY SlotKept, OneSlotKept DEF Inv
  <2>4. \A u : InTable(u)' <=> InTable(u)
    BY InTableKept
  <2>5. InTableInv' /\ CountedInv'
    BY <2>4 DEF Inv, InTableInv, CountedInv
  <2>6. IdleInv' /\ RunningInv' /\ CurrentInTable' /\ PassedInv'
    BY DEF Inv, IdleInv, RunningInv, CurrentInTable, InUse, PassedInv, Passed
  <2> QED BY <2>1, <2>2, <2>3, <2>5, <2>6 DEF Inv
<1> QED BY <1>1, <1>2, <1>3, <1>4, <1>5, <1>6, <1>7, TickInv, TaskTaskEntryInv, YieldInv,
           YieldInterruptInv, RemoveTaskTrimsInv, Zenon DEF Next

(* A step that moves no other task into SchedulerRemoveTask and writes no free slot. *)
LEMMA TrimKept ==
  ASSUME TrimInv, UNCHANGED mLevel, started => started',
         \A u \in Tasks : pc'[u] = "trim" =>
            /\ pc[u] = "trim" /\ new'[u] = new[u] /\ slot'[u] = slot[u]
            /\ started \/ UNCHANGED <<m_pCurrent, mode>>
            /\ m_pTask[mLevel[new[u]]][slot[u]] = NULL =>
                  m_pTask'[mLevel[new[u]]][slot[u]] = NULL
  PROVE  TrimInv'
BY Zenon DEF TrimInv

(* Every step keeps the slots free that are being given back. *)
LEMMA TrimNext == ~CREATE_AFTER_START /\ Inv /\ TrimInv /\ [Next]_vars => TrimInv'
<1> SUFFICES ASSUME ~CREATE_AFTER_START, Inv, TrimInv, [Next]_vars PROVE TrimInv'
  BY Zenon
<1> USE SchedulerAssumption
<1>0. /\ m_pCurrent \in Tasks /\ pc \in [Tasks -> Places]
      /\ new \in [Tasks -> Tasks \cup {NULL}] /\ slot \in [Tasks -> Slots \cup {-1}]
      /\ mLevel \in [Tasks -> Levels] /\ m_pTask \in [Levels -> [Slots -> Tasks \cup {NULL}]]
  BY Zenon DEF Inv, TypeOK
<1>1. ASSUME NEW p \in Places \ {"trim"}, pc' = [pc EXCEPT ![m_pCurrent] = p],
             UNCHANGED <<m_pTask, new, slot, mLevel, started, m_pCurrent>>,
             mode' = mode \/ (mode = "task" /\ pc[m_pCurrent] # "trim")
      PROVE  TrimInv'
  <2>1. \A u \in Tasks : pc'[u] = "trim" => u # m_pCurrent /\ pc[u] = "trim"
    BY <1>0, <1>1, Zenon
  <2>2. \A u \in Tasks : pc'[u] = "trim" => started
    BY <2>1, Zenon DEF TrimInv
  <2> QED BY <1>1, <2>1, <2>2, TrimKept, Zenon
<1>2. ASSUME UNCHANGED <<m_pTask, new, slot, mLevel, pc>>, started => started',
             mode # "task" \/ started \/ UNCHANGED <<m_pCurrent, mode>>
      PROVE  TrimInv'
  <2>1. \A u \in Tasks : pc[u] = "trim" /\ mode # "task" => started
    BY Zenon DEF TrimInv
  <2> QED BY <1>2, <2>1, TrimKept, Zenon
<1>3. ASSUME ~started, pc[m_pCurrent] # "trim" PROVE \A u \in Tasks : pc[u] # "trim"
  BY <1>3, Zenon DEF TrimInv
<1>4. CASE Create
  <2>1. ASSUME NEW t \in Tasks, NEW l \in NewLevels, NewTask(t, l) PROVE TrimInv'
    <3>1. ~started /\ pc[m_pCurrent] = "run" /\ pc' = [pc EXCEPT ![m_pCurrent] = "add", ![t] = "entry"]
      BY <2>1, Zenon DEF NewTask, AtRun, At
    <3>2. \A u \in Tasks : pc'[u] # "trim"
      BY <1>0, <1>3, <3>1, Zenon
    <3> QED BY <3>2, Zenon DEF TrimInv
  <2>2. CASE AddTaskWrite \/ AddTaskCount \/ SetRun
    <3>1. ~started /\ pc[m_pCurrent] \in {"add", "count", "init"}
          /\ \E p \in {"count", "init", "run"} : pc' = [pc EXCEPT ![m_pCurrent] = p]
      <4>1. pc[m_pCurrent] \in {"add", "count", "init"}
            /\ \E p \in {"count", "init", "run"} : pc' = [pc EXCEPT ![m_pCurrent] = p]
        BY <2>2, Zenon DEF AddTaskWrite, AddTaskCount, SetRun, At, Goto
      <4> QED BY <1>0, <4>1, Zenon DEF Inv, CreationInv
    <3>2. \A u \in Tasks : pc'[u] # "trim"
      BY <1>0, <1>3, <3>1, Zenon
    <3> QED BY <3>2, Zenon DEF TrimInv
  <2>3. CASE StartSlice
    BY <2>3, <1>2, Zenon DEF StartSlice, table, task, local
  <2> QED BY <1>4, <2>1, <2>2, <2>3, Zenon DEF Create
<1>5. CASE Sleep
  <2>1. ASSUME NEW n, NEW r, UsSleep(n, r) PROVE TrimInv'
    BY <2>1, <1>1, Zenon DEF UsSleep, Goto, Places, table
  <2>2. ASSUME NEW n, SleepChunk(n) PROVE TrimInv'
    BY <2>1, <2>2, Zenon DEF SleepChunk
  <2>3. CASE SetSleeping
    BY <2>3, <1>1, Zenon DEF SetSleeping, Goto, Places, table
  <2> QED BY <1>5, <2>1, <2>2, <2>3, Zenon DEF Sleep, SchedulerSleep, SchedulerUsSleep,
             SchedulerMsSleep, SchedulerSleepAgain
<1>6. CASE Scan
  <2>1. CASE ScanFindsNone
    BY <2>1, <1>2, Zenon DEF ScanFindsNone, task, local
  <2>2. ASSUME NEW l \in Levels, NEW i \in InUse(l), ScanSwitches(l, i) PROVE TrimInv'
    BY <2>2, <1>2, Zenon DEF ScanSwitches, local
  <2>3. ASSUME NEW l \in Levels, NEW i \in InUse(l), ScanReaps(l, i) PROVE TrimInv'
    <3>1. /\ m_pTask[l][i] \in Tasks \ {Idle} /\ RemoveFromTable(m_pTask[l][i])
          /\ UNCHANGED <<m_pCurrent, mode, mLevel, started, pc, new, slot>>
      <4>1. m_pTask[l][i] \in Tasks
        BY <2>3, SlotTypes, InUseSlots, Zenon DEF Inv, ScanReaps, IsNext, Stops
      <4>2. m_pTask[l][i] # Idle
        BY <2>3, <4>1, Zenon DEF Inv, IdleInv, ScanReaps
      <4> QED BY <2>3, <4>1, <4>2, Zenon DEF ScanReaps, local
    <3>2. \A k \in Levels, j \in Slots : m_pTask[k][j] = NULL => m_pTask'[k][j] = NULL
      BY <3>1, RemoveEffect, Zenon
    <3>3. \A u \in Tasks : pc[u] = "trim" => mLevel[new[u]] \in Levels /\ slot[u] \in Slots
      BY <1>0, Zenon DEF TrimInv
    <3> QED BY <3>1, <3>2, <3>3, TrimKept, Zenon
  <2> QED BY <1>6, <2>1, <2>2, <2>3, Zenon DEF Scan
<1>7. CASE Tick
  BY <1>7, <1>2, Zenon DEF Tick, table, task
<1>8. CASE TaskTaskEntry \/ TaskRun \/ SchedulerKillSelfTask \/ SchedulerBlockTask
  BY <1>8, <1>1, Zenon DEF TaskTaskEntry, TaskRun, SchedulerKillSelfTask, SchedulerBlockTask,
     Terminate, Goto, Places, table, task
<1>9. ASSUME NEW t \in Tasks, SchedulerWakeTask(t) PROVE TrimInv'
  BY <1>9, <1>2, Zenon DEF SchedulerWakeTask, table, local
<1>10. ASSUME NEW t \in Tasks, SchedulerRemoveTask(t) PROVE TrimInv'
  <2>1. PICK i \in SlotsOf(t) :
           /\ m_pTask' = [m_pTask EXCEPT ![mLevel[t]] = [@ EXCEPT ![i] = NULL]]
           /\ slot' = [slot EXCEPT ![m_pCurrent] = i]
    BY <1>10, Zenon DEF SchedulerRemoveTask
  <2>2. mLevel[t] \in Levels /\ i \in Slots /\ i # -1
    <3>1. mLevel[t] \in Levels
      BY <1>0, Zenon
    <3>2. i \in Slots
      BY <3>1, InUseSlots, Zenon DEF Inv, SlotsOf
    <3> QED BY <3>1, <3>2 DEF Slots
  <2>3. /\ new' = [new EXCEPT ![m_pCurrent] = t] /\ pc' = [pc EXCEPT ![m_pCurrent] = "trim"]
        /\ mode = "task" /\ UNCHANGED <<m_pCurrent, mode, mLevel, started>>
    BY <1>10, Zenon DEF SchedulerRemoveTask, AtRun, At, Goto, task
  <2>4. \A k \in Levels, j \in Slots : m_pTask[k][j] = NULL => m_pTask'[k][j] = NULL
    BY <1>0, <2>1, <2>2, Zenon
  <2>5. m_pTask'[mLevel[t]][i] = NULL
    BY <1>0, <2>1, <2>2, Zenon
  <2>6. new'[m_pCurrent] = t /\ slot'[m_pCurrent] = i
        /\ \A u \in Tasks : u # m_pCurrent => new'[u] = new[u] /\ slot'[u] = slot[u] /\ pc'[u] = pc[u]
    BY <1>0, <2>1, <2>3, Zenon
  <2>7. ASSUME NEW u \in Tasks, pc'[u] = "trim"
        PROVE  /\ started \/ (u = m_pCurrent /\ mode = "task")
               /\ new'[u] \in Tasks /\ slot'[u] # -1
               /\ m_pTask'[mLevel[new'[u]]][slot'[u]] = NULL
    <3>1. CASE u = m_pCurrent
      <4>1. new'[u] = t /\ slot'[u] = i
        BY ONLY <3>1, <2>6, Zenon
      <4>2. m_pTask'[mLevel[new'[u]]][slot'[u]] = NULL
        BY ONLY <4>1, <2>5, Zenon
      <4> QED BY ONLY <3>1, <4>1, <4>2, <2>2, <2>3, t \in Tasks, Zenon
    <3>2. CASE u # m_pCurrent
      <4>1. started /\ new[u] \in Tasks /\ slot[u] # -1 /\ m_pTask[mLevel[new[u]]][slot[u]] = NULL
        BY <3>2, <2>6, <2>7, Zenon DEF TrimInv
      <4>2. mLevel[new[u]] \in Levels /\ slot[u] \in Slots
        BY <1>0, <4>1, Zenon
      <4>3. new'[u] = new[u] /\ slot'[u] = slot[u]
        BY ONLY <3>2, <2>6, u \in Tasks, Zenon
      <4>4. m_pTask'[mLevel[new[u]]][slot[u]] = NULL
        BY ONLY <2>4, <4>1, <4>2, Zenon
      <4>5. m_pTask'[mLevel[new'[u]]][slot'[u]] = NULL
        BY ONLY <4>3, <4>4, Zenon
      <4> QED BY ONLY <4>1, <4>3, <4>5, Zenon
    <3> QED BY <3>1, <3>2, Zenon
  <2> QED BY <2>3, <2>7, Zenon DEF TrimInv
<1>11. CASE RemoveTaskTrims
  <2>1. /\ pc' = [pc EXCEPT ![m_pCurrent] = "run"] /\ new' = [new EXCEPT ![m_pCurrent] = NULL]
        /\ slot' = [slot EXCEPT ![m_pCurrent] = -1]
        /\ UNCHANGED <<m_pTask, m_pCurrent, mode, mLevel, started>>
    BY <1>11, Zenon DEF RemoveTaskTrims, Goto, task
  <2>2. \A u \in Tasks : pc'[u] = "trim" => pc[u] = "trim" /\ new'[u] = new[u] /\ slot'[u] = slot[u]
    BY <1>0, <2>1, Zenon
  <2> QED BY <2>1, <2>2, TrimKept, Zenon
<1>12. CASE SchedulerYield
  <2>1. /\ mode = "task" /\ pc[m_pCurrent] # "trim"
        /\ UNCHANGED <<m_pTask, new, slot, mLevel, started, m_pCurrent>>
        /\ \E p \in {"again", "run"} : pc' = [pc EXCEPT ![m_pCurrent] = p]
    BY <1>12, Zenon DEF SchedulerYield, AtRun, At, Goto, table, task
  <2> QED BY <2>1, <1>1, Zenon DEF Places
<1>13. CASE SchedulerYieldInterrupt
  BY <1>13, <1>2, Zenon DEF SchedulerYieldInterrupt, table, task, local
<1>14. CASE UNCHANGED vars
  BY <1>14, <1>2, Zenon DEF vars, table, task, local
<1> QED BY <1>4, <1>5, <1>6, <1>7, <1>8, <1>9, <1>10, <1>11, <1>12, <1>13, <1>14, Zenon DEF Next

(* The inductive invariant holds. *)
LEMMA Invariance == ~CREATE_AFTER_START /\ Spec => []Inv
<1>1. ~CREATE_AFTER_START /\ Init => Inv
  BY InvInit, Zenon
<1>2. CASE ~CREATE_AFTER_START
  <2>1. Inv /\ TrimInv /\ [Next]_vars => Inv' /\ TrimInv'
    BY <1>2, InvNext, TrimNext, Zenon
  <2>2. Init => TrimInv
    BY Zenon DEF Init, TrimInv
  <2> QED BY <2>1, <2>2, InvInit, PTL DEF Spec
<1>3. CASE CREATE_AFTER_START
  BY <1>3, Zenon
<1> QED BY <1>2, <1>3, Zenon

(* Every variable keeps its type: the array indices m_nCurrentLevel, m_nCurrent and
   m_nLevelCurrent that SchedulerGetNextTask computes stay in range. *)
THEOREM TypeCorrect == ~CREATE_AFTER_START /\ Spec => []TypeOK
<1>1. Inv => TypeOK
  BY Zenon DEF Inv
<1> QED BY <1>1, Invariance, PTL

(* SchedulerAddTask and SchedulerRemoveTask lose no task and enter none twice. *)
THEOREM TableCorrect == ~CREATE_AFTER_START /\ Spec => []TableOK
<1>1. Inv => TableOK
  <2> SUFFICES ASSUME Inv, NEW t \in Tasks
               PROVE  /\ (m_State[t] # "Unknown" /\ t \notin detached /\ ~UnderWay(t))
                            <=> \E l \in Levels : \E i \in InUse(l) : m_pTask[l][i] = t
                      /\ \A l, k \in Levels : \A i \in InUse(l), j \in InUse(k) :
                            m_pTask[l][i] = t /\ m_pTask[k][j] = t => l = k /\ i = j
    BY Zenon DEF TableOK
  <2>0. t # NULL /\ \A l \in Levels : InUse(l) \subseteq Slots
    BY SchedulerAssumption, InUseSlots, Zenon DEF Inv
  <2>1. UnderWay(t) <=> pc[m_pCurrent] \in {"add", "count"} /\ new[m_pCurrent] = t
    BY Zenon DEF UnderWay, Inv, TypeOK, CreationInv
  <2>2. ASSUME NEW l \in Levels, NEW i \in Slots, m_pTask[l][i] = t
        PROVE  i \in InUse(l) <=> ~UnderWay(t)
    <3>1. i < m_nTasks[l] <=> i \in InUse(l)
      BY InUseSlots DEF Inv, InUse, Slots
    <3>2. m_nTasks[l] \in Nat /\ i \in Nat
      BY InUseSlots DEF Inv, Slots
    <3>3. CASE i >= m_nTasks[l]
      BY <3>1, <3>2, <3>3, <2>0, <2>1, <2>2 DEF Inv, SlotInv
    <3>4. CASE i < m_nTasks[l]
      <4> SUFFICES ASSUME UnderWay(t) PROVE FALSE
        BY <3>1, <3>4, Zenon
      <4>1. pc[m_pCurrent] = "count" /\ new[m_pCurrent] = t
        BY <2>1, <2>2, Zenon DEF Inv, CreationInv
      <4>2. t # Idle /\ mLevel[t] = l
        <5>1. t # Idle
          BY <4>1, Zenon DEF Inv, CreationInv
        <5>2. SlotInv /\ m_pTask[l][i] # NULL
          BY <2>0, <2>2, Zenon DEF Inv
        <5> QED BY ONLY <2>2, <5>1, <5>2, l \in Levels, i \in Slots, Zenon DEF SlotInv
      <4>3. m_nTasks[l] \in Slots /\ m_pTask[l][m_nTasks[l]] = t
        BY <4>1, <4>2, InUseSlots, SchedulerAssumption DEF Inv, CreationInv, Slots
      <4>4. i = m_nTasks[l]
        BY <4>3, <2>0, <2>2 DEF Inv, OneSlotInv
      <4> QED BY <4>4, <3>2, <3>4
    <3> QED BY <3>2, <3>3, <3>4
  <2>3. m_State[t] # "Unknown" /\ t \notin detached /\ ~UnderWay(t)
        => \E l \in Levels : \E i \in InUse(l) : m_pTask[l][i] = t
    BY <2>1, <2>2, Zenon DEF Inv, InTableInv, InTable
  <2>4. ASSUME NEW l \in Levels, NEW i \in InUse(l), m_pTask[l][i] = t
        PROVE  m_State[t] # "Unknown" /\ t \notin detached /\ ~UnderWay(t)
    BY <2>0, <2>2, <2>4 DEF Inv, SlotInv
  <2> QED BY <2>0, <2>3, <2>4 DEF Inv, OneSlotInv
<1> QED BY <1>1, Invariance, PTL

(* The table entry the scheduler considers current is the running task. *)
THEOREM CurrentCorrect == ~CREATE_AFTER_START /\ Spec => []CurrentInTable
<1>1. Inv => CurrentInTable
  BY Zenon DEF Inv
<1> QED BY <1>1, Invariance, PTL

(* Round robin: a ready task is overtaken at most MAX_TASKS - 1 times by tasks of its
   level, whatever tasks are created, removed, woken or reaped meanwhile. *)
THEOREM RoundRobin == ~CREATE_AFTER_START /\ Spec => []BoundedOvertaking
<1>1. Inv => BoundedOvertaking
  <2> SUFFICES ASSUME Inv, NEW t \in Tasks PROVE passes[t] <= MAX_TASKS - 1
    BY Zenon DEF BoundedOvertaking
  <2>0. passes[t] \in Nat /\ MAX_TASKS \in Nat \ {0}
    BY SchedulerAssumption, Zenon DEF Inv, TypeOK
  <2>1. CASE passes[t] > 0
    <3>1. PICK l \in Levels, i \in Slots : m_pTask[l][i] = t
      BY <2>1, Zenon DEF Inv, CountedInv, InTable
    <3>2. passes[t] <= Passed(l, i)
      BY <3>1, SchedulerAssumption, Zenon DEF Inv, PassedInv
    <3>3. m_nLevelCurrent[l] \in -1 .. MAX_TASKS - 1
      BY Zenon DEF Inv, TypeOK
    <3> QED BY <3>2, <3>3, <2>0 DEF Passed, Slots
  <2> QED BY <2>0, <2>1
<1> QED BY <1>1, Invariance, PTL

-----------------------------------------------------------------------------

(* The pieces of a sleep are shorter than half the range of the clock. *)
SleepsFit ==
    /\ SLEEP_MAX < WORD \div 2
    /\ \A n \in UsSleeps : n < WORD \div 2
    /\ \A n \in MsSleeps : n * TICK < WORD \div 2

(* While a task has more time to sleep than SchedulerSleep will still ask for, its wake
   time is at least that far ahead of the clock. *)
WakeAhead(t) ==
    left[t] > rest[t] =>
       /\ left[t] - rest[t] <= (m_nWakeTicks[t] - ticks) % WORD
       /\ (m_nWakeTicks[t] - ticks) % WORD < WORD \div 2

(* A task that does not sleep has slept as long as it was to sleep so far. *)
Rested(t) ==
    /\ pc[t] \in {"yield", "run", "again"} => m_State[t] = "Sleeping" \/ left[t] <= rest[t]
    /\ pc[t] \notin {"sleep", "yield", "again"} => rest[t] = 0
    /\ pc[t] \in {"entry", "add", "count", "init", "trim"} => left[t] = 0

(* The running task does not sleep, unless it is about to yield. *)
RunnerAwake == mode = "task" /\ pc[m_pCurrent] # "yield" => m_State[m_pCurrent] # "Sleeping"

SleepInv == (\A t \in Tasks : WakeAhead(t) /\ Rested(t)) /\ RunnerAwake

(* A tick keeps the wake times ahead. *)
LEMMA TickSleep ==
  ASSUME TypeOK, SleepInv, Tick
  PROVE  SleepInv'
<1> USE SchedulerAssumption
<1>0. /\ left \in [Tasks -> Nat] /\ rest \in [Tasks -> Nat] /\ m_pCurrent \in Tasks
      /\ ticks \in 0 .. WORD - 1 /\ m_nWakeTicks \in [Tasks -> 0 .. WORD - 1]
  BY Zenon DEF TypeOK
<1>1. /\ ticks' = (ticks + TICK) % WORD
      /\ left' = [t \in Tasks |-> IF left[t] > TICK THEN left[t] - TICK ELSE 0]
      /\ UNCHANGED <<m_State, m_nWakeTicks, pc, rest, mode, m_pCurrent>>
  BY Zenon DEF Tick, table, task
<1>2. ticks' \in 0 .. WORD - 1
  <2>1. ticks + TICK \in Int
    BY <1>0
  <2> QED BY <2>1, <1>1, ModType, Zenon
<1>3. ASSUME NEW t \in Tasks PROVE WakeAhead(t)'
  <2>1. SUFFICES ASSUME left'[t] > rest[t]
                 PROVE  /\ left'[t] - rest[t] <= (m_nWakeTicks[t] - ticks') % WORD
                        /\ (m_nWakeTicks[t] - ticks') % WORD < WORD \div 2
    BY <1>1, Zenon DEF WakeAhead
  <2>2. left[t] - rest[t] > TICK /\ left'[t] = left[t] - TICK
    BY <1>0, <1>1, <2>1
  <2>3. /\ left[t] - rest[t] <= (m_nWakeTicks[t] - ticks) % WORD
        /\ (m_nWakeTicks[t] - ticks) % WORD < WORD \div 2
    BY <1>0, <2>2 DEF SleepInv, WakeAhead
  <2>4. (m_nWakeTicks[t] - ticks) % WORD \in Int /\ m_nWakeTicks[t] \in 0 .. WORD - 1
    <3>1. m_nWakeTicks[t] - ticks \in Int /\ m_nWakeTicks[t] \in 0 .. WORD - 1
      BY <1>0
    <3> QED BY <3>1, ModType
  <2>5. (m_nWakeTicks[t] - ticks) % WORD > TICK
    BY <1>0, <2>2, <2>3, <2>4
  <2>6. (m_nWakeTicks[t] - ticks') % WORD = ((m_nWakeTicks[t] - ticks) % WORD) - TICK
    BY <1>0, <1>1, <1>2, <2>4, <2>5, Nearer, Zenon
  <2>7. left[t] \in Nat /\ rest[t] \in Nat /\ TICK \in Nat
    BY <1>0, Zenon
  <2> QED BY ONLY <2>2, <2>3, <2>4, <2>6, <2>7, WORD \in Nat
<1>4. ASSUME NEW t \in Tasks PROVE Rested(t)'
  <2>1. left'[t] <= left[t] /\ (left[t] = 0 => left'[t] = 0)
    BY <1>0, <1>1
  <2>2. left'[t] \in Nat /\ left[t] \in Nat /\ rest[t] \in Nat
    BY <1>0, <1>1
  <2>3. left[t] <= rest[t] => left'[t] <= rest[t]
    BY ONLY <2>1, <2>2
  <2>4. Rested(t)
    BY Zenon DEF SleepInv
  <2> QED BY <1>1, <2>1, <2>3, <2>4, Zenon DEF Rested
<1> QED BY <1>1, <1>3, <1>4, Zenon DEF SleepInv, RunnerAwake

(* SchedulerUsSleep sets a wake time for what it is asked, less than half the range. *)
LEMMA UsSleepSleep ==
  ASSUME TypeOK, SleepInv, NEW n \in Nat, NEW r \in Nat, n < WORD \div 2, UsSleep(n, r),
         AtRun \/ At("again"), NEW m \in Nat, left' = [left EXCEPT ![m_pCurrent] = m],
         m <= n + r
  PROVE  SleepInv'
<1> USE SchedulerAssumption
<1>0. /\ left \in [Tasks -> Nat] /\ rest \in [Tasks -> Nat] /\ m_pCurrent \in Tasks
      /\ ticks \in 0 .. WORD - 1 /\ m_nWakeTicks \in [Tasks -> 0 .. WORD - 1]
      /\ pc \in [Tasks -> Places]
  BY Zenon DEF TypeOK
<1>1. /\ m_nWakeTicks' = [m_nWakeTicks EXCEPT ![m_pCurrent] = (ticks + n) % WORD]
      /\ rest' = [rest EXCEPT ![m_pCurrent] = r]
      /\ pc' = [pc EXCEPT ![m_pCurrent] = "sleep"]
      /\ UNCHANGED <<m_State, ticks, mode, m_pCurrent>>
  BY Zenon DEF UsSleep, Goto, table
<1>2. (((ticks + n) % WORD) - ticks) % WORD = n
  <2>1. n \in 0 .. WORD - 1
    OBVIOUS
  <2> QED BY <1>0, <2>1, Distance, Zenon
<1>3. WakeAhead(m_pCurrent)'
  <2>1. m_nWakeTicks'[m_pCurrent] = (ticks + n) % WORD /\ left'[m_pCurrent] = m /\ rest'[m_pCurrent] = r
    BY <1>0, <1>1, Zenon
  <2>2. m - r <= n
    OBVIOUS
  <2>3. (m_nWakeTicks'[m_pCurrent] - ticks') % WORD = n
    BY <1>1, <1>2, <2>1, Zenon
  <2> QED BY <1>1, <2>1, <2>2, <2>3, Zenon DEF WakeAhead
<1>4. ASSUME NEW t \in Tasks, t # m_pCurrent PROVE WakeAhead(t)' /\ Rested(t)'
  <2>1. /\ m_nWakeTicks'[t] = m_nWakeTicks[t] /\ left'[t] = left[t] /\ rest'[t] = rest[t]
        /\ pc'[t] = pc[t]
    BY <1>0, <1>1, <1>4, Zenon
  <2>2. WakeAhead(t) /\ Rested(t)
    BY Zenon DEF SleepInv
  <2>3. WakeAhead(t)'
    BY <1>1, <2>1, <2>2, Zenon DEF WakeAhead
  <2> QED BY <1>1, <2>1, <2>2, <2>3, Zenon DEF Rested
<1>5. Rested(m_pCurrent)'
  BY <1>0, <1>1, Zenon DEF Rested
<1>6. RunnerAwake'
  <2>1. mode = "task" /\ pc[m_pCurrent] # "yield"
    BY Zenon DEF AtRun, At
  <2> QED BY <1>1, <2>1, Zenon DEF SleepInv, RunnerAwake
<1> QED BY <1>1, <1>3, <1>4, <1>5, <1>6, Zenon DEF SleepInv

(* The pieces of SchedulerSleep. *)
LEMMA SleepChunkSleep ==
  ASSUME SleepsFit, TypeOK, SleepInv, NEW n \in Nat, SleepChunk(n),
         AtRun \/ At("again"), NEW m \in Nat, left' = [left EXCEPT ![m_pCurrent] = m], m <= n
  PROVE  SleepInv'
<1> USE SchedulerAssumption
<1>0. SLEEP_MAX \in Nat /\ SLEEP_MAX < WORD \div 2
  BY Zenon DEF SleepsFit
<1>1. CASE n > SLEEP_MAX
  <2>1. n - SLEEP_MAX \in Nat /\ SLEEP_MAX + (n - SLEEP_MAX) = n /\ UsSleep(SLEEP_MAX, n - SLEEP_MAX)
    BY <1>0, <1>1 DEF SleepChunk
  <2> QED BY <1>0, <2>1, UsSleepSleep, Zenon
<1>2. CASE ~(n > SLEEP_MAX)
  <2>1. n < WORD \div 2 /\ 0 \in Nat /\ n + 0 = n /\ UsSleep(n, 0)
    BY <1>0, <1>2 DEF SleepChunk
  <2> QED BY <2>1, UsSleepSleep, Zenon
<1> QED BY <1>1, <1>2, Zenon

(* A step that leaves the clock and the sleeps of the tasks alone. *)
LEMMA CalmSleep ==
  ASSUME SleepInv, UNCHANGED <<m_nWakeTicks, ticks, rest, left>>,
         \A t \in Tasks : Rested(t)', RunnerAwake'
  PROVE  SleepInv'
<1>1. \A t \in Tasks : WakeAhead(t)'
  BY Zenon DEF SleepInv, WakeAhead
<1> QED BY <1>1, Zenon DEF SleepInv

(* The running task moves on without sleeping, and perhaps stops. *)
LEMMA GotoSleep ==
  ASSUME TypeOK, SleepInv, mode = "task", NEW p \in Places \ {"sleep"},
         pc' = [pc EXCEPT ![m_pCurrent] = p],
         \E s \in TaskStates : m_State' = [m_State EXCEPT ![m_pCurrent] = s] /\ (s = "Sleeping" => p = "yield"),
         UNCHANGED <<m_nWakeTicks, ticks, rest, left, m_pCurrent, mode>>,
         \/ pc[m_pCurrent] \in {"entry", "add", "count", "init", "trim", "run"}
            /\ p \in {"entry", "add", "count", "init", "trim", "run", "yield"}
         \/ p = "yield" /\ m_State'[m_pCurrent] = "Sleeping"
  PROVE  SleepInv'
<1> USE SchedulerAssumption
<1>0. /\ left \in [Tasks -> Nat] /\ rest \in [Tasks -> Nat] /\ m_pCurrent \in Tasks
      /\ pc \in [Tasks -> Places] /\ m_State \in [Tasks -> TaskStates]
  BY Zenon DEF TypeOK
<1>1. ASSUME NEW t \in Tasks, t # m_pCurrent PROVE Rested(t)'
  <2>1. pc'[t] = pc[t] /\ m_State'[t] = m_State[t] /\ Rested(t)
    BY <1>0, <1>1, Zenon DEF SleepInv
  <2> QED BY <2>1, Zenon DEF Rested
<1>2. Rested(m_pCurrent)'
  <2>1. pc'[m_pCurrent] = p
    BY <1>0, Zenon
  <2>2. CASE /\ pc[m_pCurrent] \in {"entry", "add", "count", "init", "trim", "run"}
             /\ p \in {"entry", "add", "count", "init", "trim", "run", "yield"}
    <3>1. Rested(m_pCurrent) /\ m_State[m_pCurrent] # "Sleeping"
      BY <1>0, <2>2, Zenon DEF SleepInv, RunnerAwake
    <3>2. left[m_pCurrent] = 0 /\ rest[m_pCurrent] = 0
      BY <1>0, <2>2, <3>1 DEF Rested
    <3> QED BY <2>1, <3>2 DEF Rested
  <2>3. CASE p = "yield" /\ m_State'[m_pCurrent] = "Sleeping"
    BY <2>1, <2>3, Zenon DEF Rested
  <2> QED BY <2>2, <2>3, Zenon
<1>3. RunnerAwake'
  BY <1>0, Zenon DEF RunnerAwake
<1> QED BY <1>1, <1>2, <1>3, CalmSleep, Zenon

(* new_Task initialises a task that does not sleep. *)
LEMMA NewTaskSleep ==
  ASSUME Inv, SleepInv, NEW t \in Tasks, NEW l \in NewLevels, NewTask(t, l)
  PROVE  SleepInv'
<1>0. /\ left \in [Tasks -> Nat] /\ rest \in [Tasks -> Nat] /\ m_pCurrent \in Tasks
      /\ pc \in [Tasks -> Places] /\ m_State \in [Tasks -> TaskStates]
  BY Zenon DEF Inv, TypeOK
<1>1. t # m_pCurrent /\ mode = "task" /\ pc[m_pCurrent] = "run"
  BY Zenon DEF NewTask, AtRun, At, Inv, RunningInv
<1>2. /\ m_State' = [m_State EXCEPT ![t] = "Ready"]
      /\ pc' = [pc EXCEPT ![m_pCurrent] = "add", ![t] = "entry"]
      /\ rest' = [rest EXCEPT ![t] = 0] /\ left' = [left EXCEPT ![t] = 0]
      /\ UNCHANGED <<m_nWakeTicks, ticks, mode, m_pCurrent>>
  BY Zenon DEF NewTask, table
<1>3. ASSUME NEW u \in Tasks PROVE WakeAhead(u)' /\ Rested(u)'
  <2>0. WakeAhead(u) /\ Rested(u)
    BY Zenon DEF SleepInv
  <2>1. CASE u = t
    <3>1. left'[u] = 0 /\ rest'[u] = 0 /\ pc'[u] = "entry"
      BY <1>0, <1>2, <2>1, Zenon
    <3> QED BY <3>1 DEF WakeAhead, Rested
  <2>2. CASE u # t
    <3>1. left'[u] = left[u] /\ rest'[u] = rest[u] /\ m_State'[u] = m_State[u]
          /\ pc'[u] = IF u = m_pCurrent THEN "add" ELSE pc[u]
      BY <1>0, <1>1, <1>2, <2>2, Zenon
    <3>2. WakeAhead(u)'
      BY <1>2, <2>0, <3>1, Zenon DEF WakeAhead
    <3>3. CASE u = m_pCurrent
      <4>1. m_State[u] # "Sleeping"
        BY <1>1, <3>3, Zenon DEF SleepInv, RunnerAwake
      <4>2. left[u] = 0 /\ rest[u] = 0
        BY <1>0, <1>1, <2>0, <3>3, <4>1 DEF Rested
      <4> QED BY <3>1, <3>2, <3>3, <4>2, Zenon DEF Rested
    <3>4. CASE u # m_pCurrent
      BY <2>0, <3>1, <3>2, <3>4, Zenon DEF Rested
    <3> QED BY <3>3, <3>4, Zenon
  <2> QED BY <2>1, <2>2, Zenon
<1>4. RunnerAwake'
  <2>1. m_State[m_pCurrent] # "Sleeping" /\ m_State'[m_pCurrent] = m_State[m_pCurrent]
    BY <1>0, <1>1, <1>2, Zenon DEF SleepInv, RunnerAwake
  <2> QED BY <1>2, <2>1, Zenon DEF RunnerAwake
<1> QED BY <1>3, <1>4, Zenon DEF SleepInv

(* A task whose state changes had not slept, or its sleep is over. *)
LEMMA StateSleep ==
  ASSUME TypeOK, SleepInv, NEW t \in Tasks, NEW s \in TaskStates \ {"Sleeping"},
         m_State' = [m_State EXCEPT ![t] = s],
         m_State[t] # "Sleeping" \/ left[t] <= rest[t],
         UNCHANGED <<pc, m_nWakeTicks, ticks, rest, left>>,
         \/ UNCHANGED <<m_pCurrent, mode>>
         \/ m_pCurrent' = t
  PROVE  SleepInv'
<1>0. m_State \in [Tasks -> TaskStates] /\ m_pCurrent \in Tasks
  BY Zenon DEF TypeOK
<1>1. ASSUME NEW u \in Tasks PROVE Rested(u)'
  BY <1>0, Zenon DEF SleepInv, Rested
<1>2. RunnerAwake'
  BY <1>0, Zenon DEF SleepInv, RunnerAwake
<1> QED BY <1>1, <1>2, CalmSleep, Zenon

(* SchedulerGetNextTask takes a sleeping task only once its sleep is over: the signed
   difference of an unsigned clock. *)
LEMMA ElapsedIsOver ==
  ASSUME TypeOK, SleepInv, NEW t \in Tasks, Elapsed(t)
  PROVE  left[t] <= rest[t]
<1> USE SchedulerAssumption
<1>0. /\ left[t] \in Nat /\ rest[t] \in Nat /\ m_nWakeTicks[t] - ticks \in Int
  BY DEF TypeOK
<1> DEFINE d == (m_nWakeTicks[t] - ticks) % WORD
<1>1. d \in 0 .. WORD - 1
  BY <1>0, ModType, Zenon
<1>2. Signed(d) <= 0
  BY Zenon DEF Elapsed
<1>3. left[t] > rest[t] => left[t] - rest[t] <= d /\ d < WORD \div 2
  BY Zenon DEF SleepInv, WakeAhead
<1> HIDE DEF d
<1> QED BY <1>0, <1>1, <1>2, <1>3 DEF Signed

(* Every step keeps the sleep invariant. *)
LEMMA SleepNext ==
  ASSUME SleepsFit, Inv, SleepInv, [Next]_vars
  PROVE  SleepInv'
<1> USE SchedulerAssumption
<1>0. /\ TypeOK /\ m_pCurrent \in Tasks /\ rest \in [Tasks -> Nat] /\ left \in [Tasks -> Nat]
      /\ m_pTask \in [Levels -> [Slots -> Tasks \cup {NULL}]]
      /\ pc \in [Tasks -> Places] /\ m_State \in [Tasks -> TaskStates]
      /\ m_State = [m_State EXCEPT ![m_pCurrent] = m_State[m_pCurrent]]
      /\ m_State[m_pCurrent] \in TaskStates
  BY Zenon DEF Inv, TypeOK
<1>1. CASE Create
  <2>1. CASE AddTaskWrite
    <3>1. /\ mode = "task" /\ pc[m_pCurrent] = "add"
          /\ UNCHANGED <<m_nWakeTicks, ticks, rest, left, m_pCurrent, mode, m_State>>
          /\ pc' = [pc EXCEPT ![m_pCurrent] = IF slot[m_pCurrent] = -1 THEN "count" ELSE "init"]
      BY <2>1, Zenon DEF AddTaskWrite, At, Goto, task
    <3>2. m_State[m_pCurrent] # "Sleeping"
      BY <3>1, Zenon DEF SleepInv, RunnerAwake
    <3> QED BY <1>0, <3>1, <3>2, GotoSleep, Zenon DEF Places
  <2>2. CASE AddTaskCount
    <3>1. /\ mode = "task" /\ pc[m_pCurrent] = "count"
          /\ UNCHANGED <<m_nWakeTicks, ticks, rest, left, m_pCurrent, mode, m_State>>
          /\ pc' = [pc EXCEPT ![m_pCurrent] = "init"]
      BY <2>2, Zenon DEF AddTaskCount, At, Goto, task
    <3>2. m_State[m_pCurrent] # "Sleeping"
      BY <3>1, Zenon DEF SleepInv, RunnerAwake
    <3> QED BY <1>0, <3>1, <3>2, GotoSleep, Zenon DEF Places
  <2>3. CASE SetRun
    <3>1. /\ mode = "task" /\ pc[m_pCurrent] = "init"
          /\ UNCHANGED <<m_nWakeTicks, ticks, rest, left, m_pCurrent, mode, m_State>>
          /\ pc' = [pc EXCEPT ![m_pCurrent] = "run"]
      BY <2>3, Zenon DEF SetRun, At, Goto, table
    <3>2. m_State[m_pCurrent] # "Sleeping"
      BY <3>1, Zenon DEF SleepInv, RunnerAwake
    <3> QED BY <1>0, <3>1, <3>2, GotoSleep, Zenon DEF Places
  <2>4. CASE StartSlice
    BY <2>4, Zenon DEF StartSlice, table, task, local, SleepInv, WakeAhead, Rested, RunnerAwake
  <2> QED BY <1>1, <2>1, <2>2, <2>3, <2>4, NewTaskSleep, Zenon DEF Create
<1>2. CASE Sleep
  <2>1. ASSUME NEW n \in Sleeps, SchedulerSleep(n) PROVE SleepInv'
    <3>1. /\ n \in Nat /\ n <= n /\ AtRun /\ SleepChunk(n)
          /\ left' = [left EXCEPT ![m_pCurrent] = n]
      BY <2>1 DEF SchedulerSleep, Asks
    <3> QED BY <1>0, <3>1, SleepChunkSleep, Zenon
  <2>2. ASSUME NEW n \in UsSleeps, SchedulerUsSleep(n) PROVE SleepInv'
    <3>1. /\ n \in Nat /\ n < WORD \div 2 /\ AtRun /\ UsSleep(n, 0) /\ 0 \in Nat /\ n <= n + 0
          /\ left' = [left EXCEPT ![m_pCurrent] = n]
      BY <2>2 DEF SchedulerUsSleep, Asks, SleepsFit
    <3> QED BY <1>0, <3>1, UsSleepSleep, Zenon
  <2>3. ASSUME NEW n \in MsSleeps, SchedulerMsSleep(n) PROVE SleepInv'
    <3> DEFINE us == n * TICK
    <3>1. us \in Nat /\ us < WORD \div 2
      BY DEF SleepsFit
    <3>2. AtRun /\ UsSleep(us % WORD, 0) /\ left' = [left EXCEPT ![m_pCurrent] = us]
      BY <2>3, Zenon DEF SchedulerMsSleep, Asks
    <3> HIDE DEF us
    <3>3. us % WORD = us
      BY <3>1, ModSmall
    <3>4. us <= us + 0 /\ 0 \in Nat
      BY <3>1
    <3> QED BY <1>0, <3>1, <3>2, <3>3, <3>4, UsSleepSleep, Zenon
  <2>4. CASE SchedulerSleepAgain
    <3>1. /\ At("again") /\ SleepChunk(rest[m_pCurrent])
          /\ left' = [left EXCEPT ![m_pCurrent] = left[m_pCurrent]]
          /\ left[m_pCurrent] \in Nat /\ rest[m_pCurrent] \in Nat
      BY <1>0, <2>4, Zenon DEF SchedulerSleepAgain
    <3>2. m_State[m_pCurrent] # "Sleeping"
      BY <3>1, Zenon DEF At, SleepInv, RunnerAwake
    <3>3. left[m_pCurrent] <= rest[m_pCurrent]
      BY <1>0, <3>1, <3>2, Zenon DEF At, SleepInv, Rested
    <3> QED BY <1>0, <3>1, <3>3, SleepChunkSleep, Zenon
  <2>5. CASE SetSleeping
    <3>1. /\ mode = "task" /\ m_State' = [m_State EXCEPT ![m_pCurrent] = "Sleeping"]
          /\ pc' = [pc EXCEPT ![m_pCurrent] = "yield"]
          /\ UNCHANGED <<m_nWakeTicks, ticks, rest, left, m_pCurrent, mode>>
      BY <2>5, Zenon DEF SetSleeping, At, Goto, table
    <3>2. m_State'[m_pCurrent] = "Sleeping" /\ "Sleeping" \in TaskStates
      BY <1>0, <3>1, Zenon DEF TaskStates
    <3> QED BY <1>0, <3>1, <3>2, GotoSleep, Zenon DEF Places
  <2> QED BY <1>2, <2>1, <2>2, <2>3, <2>4, <2>5, Zenon DEF Sleep
<1>3. CASE Scan
  <2>1. CASE ScanFindsNone
    BY <2>1, Zenon DEF ScanFindsNone, task, local, SleepInv, WakeAhead, Rested, RunnerAwake
  <2>2. ASSUME NEW l \in Levels, NEW i \in InUse(l), ScanReaps(l, i) \/ ScanSwitches(l, i)
        PROVE  SleepInv'
    <3> DEFINE t == m_pTask[l][i]
    <3>1. i \in Slots
      BY InUseSlots DEF Inv
    <3>2. t \in Tasks /\ (m_State[t] = "Sleeping" => Elapsed(t))
      <4>1. Stops(l, i)
        BY <2>2, Zenon DEF ScanReaps, ScanSwitches, IsNext
      <4>2. t # NULL /\ (m_State[t] = "Sleeping" => Elapsed(t))
        BY <4>1 DEF Stops
      <4>3. m_pTask \in [Levels -> [Slots -> Tasks \cup {NULL}]]
        BY <1>0, Zenon
      <4>4. t \in Tasks \cup {NULL}
        BY ONLY <3>1, <4>3, l \in Levels
      <4> QED BY <4>2, <4>4, Zenon
    <3>3. m_State[t] # "Sleeping" \/ left[t] <= rest[t]
      BY <1>0, <3>2, ElapsedIsOver, Zenon
    <3>4. /\ \E s \in TaskStates \ {"Sleeping"} : m_State' = [m_State EXCEPT ![t] = s]
          /\ UNCHANGED <<pc, m_nWakeTicks, ticks, rest, left>>
          /\ UNCHANGED <<m_pCurrent, mode>> \/ m_pCurrent' = t
      BY <2>2, Zenon DEF ScanReaps, ScanSwitches, local, TaskStates
    <3> HIDE DEF t
    <3> QED BY <1>0, <3>2, <3>3, <3>4, StateSleep, Zenon
  <2> QED BY <1>3, <2>1, <2>2, Zenon DEF Scan
<1>4. CASE Tick
  BY <1>0, <1>4, TickSleep, Zenon
<1>5. CASE TaskTaskEntry
  <2>1. /\ mode = "task" /\ pc[m_pCurrent] = "entry"
        /\ UNCHANGED <<m_nWakeTicks, ticks, rest, left, m_pCurrent, mode, m_State>>
        /\ pc' = [pc EXCEPT ![m_pCurrent] = "run"]
    BY <1>5, Zenon DEF TaskTaskEntry, At, Goto, table, task
  <2>2. m_State[m_pCurrent] # "Sleeping"
    BY <2>1, Zenon DEF SleepInv, RunnerAwake
  <2> QED BY <1>0, <2>1, <2>2, GotoSleep, Zenon DEF Places
<1>6. CASE TaskRun \/ SchedulerKillSelfTask \/ SchedulerBlockTask
  <2>1. /\ mode = "task" /\ pc[m_pCurrent] \in {"entry", "run"}
        /\ UNCHANGED <<m_nWakeTicks, ticks, rest, left, m_pCurrent, mode>>
        /\ pc' = [pc EXCEPT ![m_pCurrent] = "yield"]
        /\ \E s \in {"Terminated", "Blocked"} : m_State' = [m_State EXCEPT ![m_pCurrent] = s]
    BY <1>6, Zenon DEF TaskRun, SchedulerKillSelfTask, SchedulerBlockTask, Terminate, AtRun, At, Goto, table
  <2> QED BY <1>0, <2>1, GotoSleep, Zenon DEF Places, TaskStates
<1>7. ASSUME NEW t \in Tasks, SchedulerWakeTask(t) PROVE SleepInv'
  <2>1. /\ m_State[t] = "Blocked" /\ m_State' = [m_State EXCEPT ![t] = "Ready"]
        /\ UNCHANGED <<pc, m_nWakeTicks, ticks, rest, left, m_pCurrent, mode>>
    BY <1>7, Zenon DEF SchedulerWakeTask, table, local
  <2>2. "Ready" \in TaskStates \ {"Sleeping"}
    BY Zenon DEF TaskStates
  <2> QED BY <1>0, <2>1, <2>2, StateSleep, Zenon
<1>8. ASSUME (\E t \in Tasks : SchedulerRemoveTask(t)) \/ RemoveTaskTrims PROVE SleepInv'
  <2>1. /\ mode = "task" /\ pc[m_pCurrent] \in {"run", "trim"}
        /\ UNCHANGED <<m_nWakeTicks, ticks, rest, left, m_pCurrent, mode, m_State>>
        /\ \E p \in {"run", "trim"} : pc' = [pc EXCEPT ![m_pCurrent] = p]
    BY <1>8, Zenon DEF SchedulerRemoveTask, RemoveTaskTrims, AtRun, At, Goto, task
  <2>2. m_State[m_pCurrent] # "Sleeping"
    BY <2>1, Zenon DEF SleepInv, RunnerAwake
  <2> QED BY <1>0, <2>1, <2>2, GotoSleep, Zenon DEF Places
<1>9. CASE SchedulerYield
  <2>1. /\ mode = "task" /\ mode' = "yield" /\ pc[m_pCurrent] \in {"yield", "run"}
        /\ UNCHANGED <<m_nWakeTicks, ticks, rest, left, m_pCurrent, m_State>>
        /\ pc' = [pc EXCEPT ![m_pCurrent] = IF rest[m_pCurrent] > 0 THEN "again" ELSE "run"]
    BY <1>9, Zenon DEF SchedulerYield, AtRun, At, Goto, table, task
  <2>2. ASSUME NEW u \in Tasks PROVE Rested(u)'
    <3>1. Rested(u) /\ rest[u] \in Nat
      BY <1>0, Zenon DEF SleepInv
    <3>2. CASE u = m_pCurrent
      <4>1. pc'[u] = IF rest[u] > 0 THEN "again" ELSE "run"
        BY <1>0, <2>1, <3>2, Zenon
      <4>2. ~(rest[u] > 0) => rest[u] = 0
        BY ONLY <3>1
      <4>3. pc[u] \in {"yield", "run"} /\ UNCHANGED <<rest, left, m_State>>
        BY <2>1, <3>2, Zenon
      <4> QED BY ONLY <3>1, <4>1, <4>2, <4>3, Zenon DEF Rested
    <3>3. CASE u # m_pCurrent
      <4>1. pc'[u] = pc[u]
        BY <1>0, <2>1, <3>3, Zenon
      <4> QED BY <2>1, <3>1, <4>1, Zenon DEF Rested
    <3> QED BY <3>2, <3>3, Zenon
  <2>3. RunnerAwake'
    BY <2>1, Zenon DEF RunnerAwake
  <2> QED BY <2>1, <2>2, <2>3, CalmSleep, Zenon
<1>10. CASE SchedulerYieldInterrupt
  BY <1>10, Zenon DEF SchedulerYieldInterrupt, table, task, local, SleepInv, WakeAhead, Rested, RunnerAwake
<1>11. CASE UNCHANGED vars
  BY <1>11, Zenon DEF vars, table, task, local, SleepInv, WakeAhead, Rested, RunnerAwake
<1> QED BY <1>1, <1>2, <1>3, <1>4, <1>5, <1>6, <1>7, <1>8, <1>9, <1>10, <1>11, Zenon DEF Next

(* A task that calls SchedulerSleep, SchedulerUsSleep or SchedulerMsSleep is not ready
   again before the time it asked for has passed, over any number of wrap-arounds of the
   clock and whatever the other tasks do, when no piece of a sleep reaches half the range
   of the clock (scheduler.c:217 does not check it). *)
THEOREM SleepersRest == ~CREATE_AFTER_START /\ SleepsFit /\ Spec => []SleepsFully
<1>1. Init => SleepInv
  <2> SUFFICES ASSUME Init PROVE SleepInv
    BY Zenon
  <2>1. ~(0 > 0) /\ 0 <= 0
    OBVIOUS
  <2>2. \A t \in Tasks : left[t] = 0 /\ rest[t] = 0
    BY Zenon DEF Init
  <2>3. m_State[m_pCurrent] = "Ready"
    BY SchedulerAssumption, Zenon DEF Init
  <2>4. \A t \in Tasks : WakeAhead(t) /\ Rested(t)
    BY <2>1, <2>2, Zenon DEF WakeAhead, Rested
  <2> QED BY <2>3, <2>4, Zenon DEF SleepInv, RunnerAwake
<1>2. TypeOK /\ SleepInv => SleepsFully
  <2> SUFFICES ASSUME TypeOK, SleepInv, At("run") PROVE left[m_pCurrent] = 0
    BY Zenon DEF SleepsFully
  <2>1. left[m_pCurrent] \in Nat /\ rest[m_pCurrent] \in Nat /\ m_pCurrent \in Tasks
    BY Zenon DEF TypeOK
  <2>2. m_State[m_pCurrent] # "Sleeping"
    BY Zenon DEF At, SleepInv, RunnerAwake
  <2>3. left[m_pCurrent] <= rest[m_pCurrent] /\ rest[m_pCurrent] = 0
    BY <2>1, <2>2, Zenon DEF At, SleepInv, Rested
  <2> QED BY <2>1, <2>3
<1>3. CASE ~CREATE_AFTER_START /\ SleepsFit
  <2>1. Inv /\ SleepInv /\ [Next]_vars => SleepInv'
    BY <1>3, SleepNext, Zenon
  <2>2. Inv => TypeOK
    BY Zenon DEF Inv
  <2>3. Spec => []Inv
    BY <1>3, Invariance, Zenon
  <2> QED BY <1>1, <1>2, <2>1, <2>2, <2>3, PTL DEF Spec
<1> QED BY <1>3, Zenon

============================================================================
