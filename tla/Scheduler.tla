----------------------------- MODULE Scheduler -----------------------------
(***************************************************************************)
(* The scheduler of one CPU: the task table of env/lib/scheduler.c, the    *)
(* task objects of env/lib/task.c, and the two ways a CPU changes tasks,   *)
(* SchedulerYield (called by the running task) and SchedulerYieldInterrupt *)
(* (called by the time-slice handler in the private timer's interrupt).    *)
(*                                                                         *)
(* Between two steps of a task interrupts are enabled, so the slice may    *)
(* expire there; SchedulerYield and SchedulerYieldInterrupt run with       *)
(* interrupts disabled, and each call of SchedulerGetNextTask they make is *)
(* one step (Scan), taken while mode # "task".                             *)
(***************************************************************************)
EXTENDS Integers, FiniteSets

CONSTANTS
    Tasks,              \* the TTask objects
    Main,               \* the task Scheduler() makes of the calling context
    Idle,               \* the task of new_IdleTask(), NULL on a CPU that makes none
    NULL,
    MAX_TASK_LEVELS,    \* 10
    MAX_TASKS,          \* 20, slots of one level
    MAIN_TASK_LEVEL,    \* 8
    NewLevels,          \* levels at which tasks are created
    WORD,               \* 2^32, the range of an unsigned
    TICK,               \* 1000, microseconds of a jiffy and of a millisecond
    SLEEP_MAX,          \* 1800 s, the longest UsSleep that SchedulerSleep asks for
    Sleeps,             \* arguments of SchedulerSleep
    UsSleeps,           \* arguments of SchedulerUsSleep
    MsSleeps,           \* arguments of SchedulerMsSleep
    CREATE_AFTER_START, \* FALSE: all tasks are created before the slice timer is
                        \* started (hello_world.c); TRUE: also later (smp.c, CPU 3)
    TICK_ELSEWHERE      \* TRUE: jiffies is advanced by another CPU

Levels == 0 .. MAX_TASK_LEVELS - 1
Slots  == 0 .. MAX_TASKS - 1
IDLE_TASK_LEVEL == 1

ASSUME SchedulerAssumption ==
    /\ Main \in Tasks /\ Idle \in (Tasks \ {Main}) \cup {NULL} /\ NULL \notin Tasks
    /\ MAX_TASK_LEVELS \in Nat /\ MAX_TASKS \in Nat \ {0}
    /\ MAIN_TASK_LEVEL \in Levels /\ MAIN_TASK_LEVEL # IDLE_TASK_LEVEL
    /\ IDLE_TASK_LEVEL \in Levels /\ NewLevels \subseteq Levels
    /\ WORD \in Nat \ {0} /\ TICK \in Nat \ {0}
    /\ SLEEP_MAX \in Nat \ {0}
    /\ Sleeps \subseteq Nat /\ UsSleeps \subseteq Nat /\ MsSleeps \subseteq Nat
    /\ CREATE_AFTER_START \in BOOLEAN /\ TICK_ELSEWHERE \in BOOLEAN

VARIABLES
    m_pTask,          \* TScheduler: the table of tasks, by level and slot
    m_nTasks,         \* slots in use of each level
    m_nLevelCurrent,  \* slot of each level chosen last, -1 if none
    m_pCurrent,       \* the running task
    m_nCurrentLevel,
    m_nCurrent,
    m_State,          \* TTask: state; "Unknown" when the object is not allocated
    m_nWakeTicks,
    mLevel,
    Run,              \* the Run method: "TaskRun" until the derived class sets it
    ticks,            \* TimerGetTicks() * 1000, an unsigned
    started,          \* the slice timer has been started
    mode,             \* what the CPU executes: "task", "yield" or "irq"
    pc,               \* where each task is when it is not at a call of its own
    new,              \* the object a task in "add" to "init" constructs, or the one
                      \* that a task in "trim" removes
    slot,             \* the loop index SchedulerAddTask or SchedulerRemoveTask stopped at
    rest,             \* time a SchedulerSleep has not asked UsSleep for yet
    left,             \* history: time still to pass of the sleep that was asked for
    passes,           \* history: tasks of its level chosen while a task stays ready,
                      \* counted up to MAX_TASKS
    detached          \* history: tasks taken out of the table by SchedulerRemoveTask

table == <<m_pTask, m_nTasks, m_nLevelCurrent, m_pCurrent, m_nCurrentLevel, m_nCurrent>>
task  == <<m_State, m_nWakeTicks, mLevel, Run>>
local == <<pc, new, slot, rest, left>>
vars  == <<table, task, local, ticks, started, mode, passes, detached>>

TaskStates == {"Ready", "Blocked", "Sleeping", "Terminated", "Unknown"}
(***************************************************************************)
(* "entry"  not yet run: TaskTaskEntry calls Run next                      *)
(* "run"    inside Run (or main)                                           *)
(* "add", "count", "init"   inside new_Task: the slot was searched; the    *)
(*          slot was written past the end; Run is still to be set          *)
(* "trim"   inside SchedulerRemoveTask: the slot was freed                 *)
(* "sleep"  inside SchedulerUsSleep, the wake time is set                  *)
(* "yield"  its state is set, it calls SchedulerYield next                 *)
(* "again"  SchedulerSleep has more time to sleep                          *)
(***************************************************************************)
Places == {"entry", "run", "add", "count", "init", "trim", "sleep", "yield", "again"}

InUse(l) == 0 .. m_nTasks[l] - 1

Signed(x) == IF x < WORD \div 2 THEN x ELSE x - WORD

----------------------------------------------------------------------------
(* Scheduler() and new_IdleTask(), which every CPU that schedules calls first. *)

EmptyLevel == [i \in Slots |-> NULL]

Init ==
    /\ m_pTask = [l \in Levels |->
                    IF l = MAIN_TASK_LEVEL THEN [EmptyLevel EXCEPT ![0] = Main]
                    ELSE IF l = IDLE_TASK_LEVEL THEN [EmptyLevel EXCEPT ![0] = Idle]
                    ELSE EmptyLevel]
    /\ m_nTasks = [l \in Levels |-> IF \E i \in Slots : m_pTask[l][i] # NULL THEN 1 ELSE 0]
    /\ m_nLevelCurrent = [l \in Levels |-> -1]
    /\ m_pCurrent = Main /\ m_nCurrentLevel = MAIN_TASK_LEVEL /\ m_nCurrent = 0
    /\ m_State = [t \in Tasks |-> IF t \in {Main, Idle} THEN "Ready" ELSE "Unknown"]
    /\ m_nWakeTicks = [t \in Tasks |-> 0]
    /\ mLevel = [t \in Tasks |-> IF t = Main THEN MAIN_TASK_LEVEL ELSE 0]
    /\ Run = [t \in Tasks |-> IF t = Idle THEN "derived" ELSE "TaskRun"]
    /\ ticks = 0
    /\ started = FALSE
    /\ mode = "task"
    /\ pc = [t \in Tasks |-> IF t = Main THEN "run" ELSE "entry"]
    /\ new = [t \in Tasks |-> NULL]
    /\ slot = [t \in Tasks |-> -1]
    /\ rest = [t \in Tasks |-> 0]
    /\ left = [t \in Tasks |-> 0]
    /\ passes = [t \in Tasks |-> 0]
    /\ detached = {}

(* The running task is at place p. *)
At(p) == mode = "task" /\ pc[m_pCurrent] = p
AtRun == At("run") /\ m_pCurrent # Idle
Goto(p) == pc' = [pc EXCEPT ![m_pCurrent] = p]

----------------------------------------------------------------------------
\* mutant: takes the first slot, free or not
AnySlot(l) == InUse(l)

(* new_Task and SchedulerAddTask, and the constructor of the derived class. *)

Holes(l) == {i \in InUse(l) : m_pTask[l][i] = NULL}

(* The callers never have more than MAX_TASKS tasks at a level: beyond that
   SchedulerAddTask has no check (scheduler.c:262). *)
HasRoom(l) == m_nTasks[l] < MAX_TASKS \/ Holes(l) # {}

(* new_Task up to the end of the loop of SchedulerAddTask: slot is the first
   free slot in use, or -1 when the loop found none. *)
NewTask(t, l) ==
    /\ AtRun
    /\ CREATE_AFTER_START \/ ~started
    /\ m_State[t] = "Unknown" /\ HasRoom(l)
    /\ m_State' = [m_State EXCEPT ![t] = "Ready"]
    /\ Run' = [Run EXCEPT ![t] = "TaskRun"]
    /\ mLevel' = [mLevel EXCEPT ![t] = l]
    /\ \E i \in Holes(l) \cup {-1} :
          /\ i = -1 => Holes(l) = {}
          /\ \A j \in Holes(l) : i <= j
          /\ slot' = [slot EXCEPT ![m_pCurrent] = i]
    /\ new' = [new EXCEPT ![m_pCurrent] = t]
    /\ pc' = [pc EXCEPT ![m_pCurrent] = "add", ![t] = "entry"]
    /\ rest' = [rest EXCEPT ![t] = 0]
    /\ left' = [left EXCEPT ![t] = 0]
    /\ UNCHANGED <<table, m_nWakeTicks, ticks, started, mode, passes, detached>>

(* The task is written into the slot found. If there was none the code indexes
   with m_nTasks, as it is by then, and still has to count the slot. *)
AddTaskWrite ==
    /\ At("add")
    /\ LET t == new[m_pCurrent]
           l == mLevel[t]
           i == IF slot[m_pCurrent] = -1 THEN m_nTasks[l] ELSE slot[m_pCurrent]
       IN /\ i \in Slots
          /\ m_pTask' = [m_pTask EXCEPT ![l] = [@ EXCEPT ![i] = t]]
    /\ Goto(IF slot[m_pCurrent] = -1 THEN "count" ELSE "init")
    /\ slot' = [slot EXCEPT ![m_pCurrent] = -1]
    /\ UNCHANGED <<m_nTasks, m_nLevelCurrent, m_pCurrent, m_nCurrentLevel, m_nCurrent,
                   task, new, rest, left, ticks, started, mode, passes, detached>>

AddTaskCount ==
    /\ At("count")
    /\ LET l == mLevel[new[m_pCurrent]]
       IN m_nTasks' = [m_nTasks EXCEPT ![l] = @ + 1]
    /\ Goto("init")
    /\ UNCHANGED <<m_pTask, m_nLevelCurrent, m_pCurrent, m_nCurrentLevel, m_nCurrent,
                   task, new, slot, rest, left, ticks, started, mode, passes, detached>>

(* The constructor of the derived class overwrites Run once new_Task returned. *)
SetRun ==
    /\ At("init")
    /\ Run' = [Run EXCEPT ![new[m_pCurrent]] = "derived"]
    /\ new' = [new EXCEPT ![m_pCurrent] = NULL]
    /\ Goto("run")
    /\ UNCHANGED <<table, m_State, m_nWakeTicks, mLevel, slot, rest, left,
                   ticks, started, mode, passes, detached>>

\* mutant: the slice timer may start while a task is being created
SliceStartsEarly ==
    /\ mode = "task" /\ m_pCurrent = Main /\ ~started
    /\ started' = TRUE
    /\ UNCHANGED <<table, task, local, ticks, mode, passes, detached>>

(* The slice timer is started (hello_world.c:243, smp.c:407). *)
StartSlice ==
    /\ AtRun /\ m_pCurrent = Main /\ ~started
    /\ started' = TRUE
    /\ UNCHANGED <<table, task, local, ticks, mode, passes, detached>>

----------------------------------------------------------------------------
(* What the running task does. *)

(* TaskTaskEntry calls Run. TaskRun, the method of the base class, only fails
   its assertion and returns. *)
TaskTaskEntry ==
    /\ At("entry") /\ Run[m_pCurrent] = "derived"
    /\ Goto("run")
    /\ UNCHANGED <<table, task, new, slot, rest, left, ticks, started, mode, passes, detached>>

Terminate ==
    /\ m_State' = [m_State EXCEPT ![m_pCurrent] = "Terminated"]
    /\ passes' = [passes EXCEPT ![m_pCurrent] = 0]
    /\ Goto("yield")
    /\ UNCHANGED <<table, m_nWakeTicks, mLevel, Run, new, slot, rest, left,
                   ticks, started, mode, detached>>

TaskRun == At("entry") /\ Run[m_pCurrent] = "TaskRun" /\ Terminate

(* Run returns, or the task calls SchedulerKillSelfTask. Main and the idle task
   never end. *)
SchedulerKillSelfTask == AtRun /\ m_pCurrent # Main /\ Terminate

\* mutant: the wake time does not wrap around
UsSleepNoWrap(n, r) ==
    /\ m_nWakeTicks' = [m_nWakeTicks EXCEPT ![m_pCurrent] = ticks + n]
    /\ rest' = [rest EXCEPT ![m_pCurrent] = r]
    /\ Goto("sleep")
    /\ UNCHANGED <<table, m_State, mLevel, Run, new, slot, ticks, started, mode, passes, detached>>

(* SchedulerUsSleep up to TaskSetWakeTicks, the rest of the sleep r still to come. *)
UsSleep(n, r) ==
    /\ m_nWakeTicks' = [m_nWakeTicks EXCEPT ![m_pCurrent] = (ticks + n) % WORD]
    /\ rest' = [rest EXCEPT ![m_pCurrent] = r]
    /\ Goto("sleep")
    /\ UNCHANGED <<table, m_State, mLevel, Run, new, slot, ticks, started, mode, passes, detached>>

(* SchedulerSleep splits a long sleep; SchedulerUsSleep and SchedulerMsSleep do not. *)
SleepChunk(n) == IF n > SLEEP_MAX THEN UsSleep(SLEEP_MAX, n - SLEEP_MAX) ELSE UsSleep(n, 0)

Asks(n) == left' = [left EXCEPT ![m_pCurrent] = n]

SchedulerSleep(n) ==
    /\ AtRun /\ n > 0
    /\ SleepChunk(n) /\ Asks(n)

SchedulerSleepAgain ==
    /\ At("again")
    /\ SleepChunk(rest[m_pCurrent]) /\ UNCHANGED left

SchedulerUsSleep(n) ==
    /\ AtRun /\ n > 0
    /\ UsSleep(n, 0) /\ Asks(n)

SchedulerMsSleep(n) ==
    /\ AtRun /\ (n * TICK) % WORD > 0
    /\ UsSleep((n * TICK) % WORD, 0) /\ Asks(n * TICK)

SetSleeping ==
    /\ At("sleep")
    /\ m_State' = [m_State EXCEPT ![m_pCurrent] = "Sleeping"]
    /\ passes' = [passes EXCEPT ![m_pCurrent] = 0]
    /\ Goto("yield")
    /\ UNCHANGED <<table, m_nWakeTicks, mLevel, Run, new, slot, rest, left,
                   ticks, started, mode, detached>>

SchedulerBlockTask ==
    /\ AtRun
    /\ m_State' = [m_State EXCEPT ![m_pCurrent] = "Blocked"]
    /\ passes' = [passes EXCEPT ![m_pCurrent] = 0]
    /\ Goto("yield")
    /\ UNCHANGED <<table, m_nWakeTicks, mLevel, Run, new, slot, rest, left,
                   ticks, started, mode, detached>>

(* SchedulerWakeTask, or enqueueMessage on behalf of a blocked consumer. *)
SchedulerWakeTask(t) ==
    /\ AtRun /\ m_State[t] = "Blocked"
    /\ m_State' = [m_State EXCEPT ![t] = "Ready"]
    /\ UNCHANGED <<table, m_nWakeTicks, mLevel, Run, local, ticks, started, mode, passes, detached>>

SlotsOf(t) == {i \in InUse(mLevel[t]) : m_pTask[mLevel[t]][i] = t}

(* SchedulerRemoveTask as SchedulerGetNextTask calls it, with interrupts disabled: the
   slot is freed, and given back if it is the last one. *)
RemoveFromTable(t) ==
    IF SlotsOf(t) = {} THEN UNCHANGED <<m_pTask, m_nTasks>>
    ELSE \E i \in SlotsOf(t) :
            /\ \A j \in SlotsOf(t) : i <= j
            /\ m_pTask' = [m_pTask EXCEPT ![mLevel[t]] = [@ EXCEPT ![i] = NULL]]
            /\ m_nTasks' = [m_nTasks EXCEPT ![mLevel[t]] = IF i = @ - 1 THEN @ - 1 ELSE @]

(* A task takes another one out of the table (gesturetask.c:75), with interrupts
   enabled: the slot is freed, and only then given back if it is the last one by that
   time. A task that is not in this table, as one of another CPU is not, fails the
   assertion at the end, which prints and returns: nothing changes. *)
SchedulerRemoveTask(t) ==
    /\ AtRun /\ t \notin {m_pCurrent, Main, Idle}
    /\ \E i \in SlotsOf(t) :
          /\ \A j \in SlotsOf(t) : i <= j
          /\ m_pTask' = [m_pTask EXCEPT ![mLevel[t]] = [@ EXCEPT ![i] = NULL]]
          /\ slot' = [slot EXCEPT ![m_pCurrent] = i]
    /\ new' = [new EXCEPT ![m_pCurrent] = t]
    /\ Goto("trim")
    /\ passes' = [passes EXCEPT ![t] = 0]
    /\ detached' = detached \cup {t}
    /\ UNCHANGED <<m_nTasks, m_nLevelCurrent, m_pCurrent, m_nCurrentLevel, m_nCurrent,
                   task, rest, left, ticks, started, mode>>

\* mutant: the comparison with the last slot is dropped
TrimsAlways ==
    /\ At("trim")
    /\ LET l == mLevel[new[m_pCurrent]]
       IN m_nTasks' = [m_nTasks EXCEPT ![l] = @ - 1]
    /\ new' = [new EXCEPT ![m_pCurrent] = NULL]
    /\ slot' = [slot EXCEPT ![m_pCurrent] = -1]
    /\ Goto("run")
    /\ UNCHANGED <<m_pTask, m_nLevelCurrent, m_pCurrent, m_nCurrentLevel, m_nCurrent,
                   task, rest, left, ticks, started, mode, passes, detached>>

RemoveTaskTrims ==
    /\ At("trim")
    /\ LET l == mLevel[new[m_pCurrent]]
       IN m_nTasks' = [m_nTasks EXCEPT ![l] = IF slot[m_pCurrent] = @ - 1 THEN @ - 1 ELSE @]
    /\ new' = [new EXCEPT ![m_pCurrent] = NULL]
    /\ slot' = [slot EXCEPT ![m_pCurrent] = -1]
    /\ Goto("run")
    /\ UNCHANGED <<m_pTask, m_nLevelCurrent, m_pCurrent, m_nCurrentLevel, m_nCurrent,
                   task, rest, left, ticks, started, mode, passes, detached>>

----------------------------------------------------------------------------
(* SchedulerYield and SchedulerYieldInterrupt: interrupts are disabled, and the
   loop calls SchedulerGetNextTask until it returns a slot. *)

SchedulerYield ==
    /\ At("yield") \/ AtRun
    /\ Goto(IF rest[m_pCurrent] > 0 THEN "again" ELSE "run")
    /\ mode' = "yield"
    /\ UNCHANGED <<table, task, new, slot, rest, left, ticks, started, passes, detached>>

\* mutant: the slice does not end while the task is ready
NoSliceWhileReady ==
    /\ mode = "task" /\ started /\ m_State[m_pCurrent] # "Ready"
    /\ mode' = "irq"
    /\ UNCHANGED <<table, task, local, ticks, started, passes, detached>>

SchedulerYieldInterrupt ==
    /\ mode = "task" /\ started
    /\ mode' = "irq"
    /\ UNCHANGED <<table, task, local, ticks, started, passes, detached>>

\* mutant: every search starts at slot 0
SearchFromZero(l) == 0

(* The first slot of a level that the search visits, and the number of slots it
   visits before slot i. *)
FirstVisited(l) ==
    LET nTask == IF m_nLevelCurrent[l] < MAX_TASKS THEN m_nLevelCurrent[l] ELSE 0
    IN IF nTask + 1 >= m_nTasks[l] THEN 0 ELSE nTask + 1

Visit(l, i) == IF i >= FirstVisited(l) THEN i - FirstVisited(l)
               ELSE i - FirstVisited(l) + m_nTasks[l]

\* mutant: compares the two unsigned values
ElapsedUnsigned(t) == m_nWakeTicks[t] <= ticks

(* The search stops at a slot with a task that is ready, whose sleep is over, or
   that has terminated. *)
Elapsed(t) == Signed((m_nWakeTicks[t] - ticks) % WORD) <= 0

Stops(l, i) ==
    LET t == m_pTask[l][i]
    IN /\ t # NULL
       /\ \/ m_State[t] \in {"Ready", "Terminated"}
          \/ m_State[t] = "Sleeping" /\ Elapsed(t)

\* mutant: the last slot in use is not visited
IsNextButLast(l, i) ==
    /\ i \in InUse(l) \ {m_nTasks[l] - 1} /\ Stops(l, i)
    /\ \A j \in InUse(l) : Stops(l, j) => Visit(l, i) <= Visit(l, j)
    /\ \A h \in Levels : h > l => \A j \in InUse(h) : ~Stops(h, j)

IsNext(l, i) ==
    /\ i \in InUse(l) /\ Stops(l, i)
    /\ \A j \in InUse(l) : Stops(l, j) => Visit(l, i) <= Visit(l, j)
    /\ \A h \in Levels : h > l => \A j \in InUse(h) : ~Stops(h, j)

(* SchedulerGetNextTask found no task: it leaves the lowest level it searched. *)
ScanFindsNone ==
    /\ mode # "task"
    /\ \A l \in Levels : \A i \in InUse(l) : ~IsNext(l, i)
    /\ \E l \in Levels :
          /\ m_nTasks[l] > 0 /\ \A k \in Levels : k < l => m_nTasks[k] = 0
          /\ m_nCurrentLevel' = l
    /\ m_nCurrent' = MAX_TASKS
    /\ UNCHANGED <<m_pTask, m_nTasks, m_nLevelCurrent, m_pCurrent,
                   task, local, ticks, started, mode, passes, detached>>

(* It found a terminated task: it frees the object and returns MAX_TASKS. *)
ScanReaps(l, i) ==
    /\ mode # "task" /\ IsNext(l, i)
    /\ m_State[m_pTask[l][i]] = "Terminated"
    /\ RemoveFromTable(m_pTask[l][i])
    /\ m_State' = [m_State EXCEPT ![m_pTask[l][i]] = "Unknown"]
    /\ m_nCurrentLevel' = l
    /\ m_nCurrent' = MAX_TASKS
    /\ UNCHANGED <<m_nLevelCurrent, m_pCurrent, m_nWakeTicks, mLevel, Run,
                   local, ticks, started, mode, passes, detached>>

(* It found a task to run, and the CPU switches to it and enables interrupts. *)
ScanSwitches(l, i) ==
    /\ mode # "task" /\ IsNext(l, i)
    /\ m_State[m_pTask[l][i]] # "Terminated"
    /\ m_State' = [m_State EXCEPT ![m_pTask[l][i]] = "Ready"]
    /\ m_nCurrentLevel' = l
    /\ m_nCurrent' = i
    /\ m_nLevelCurrent' = [m_nLevelCurrent EXCEPT ![l] = i]
    /\ m_pCurrent' = m_pTask[l][i]
    /\ mode' = "task"
    /\ passes' = [t \in Tasks |->
                     IF t = m_pTask[l][i] THEN 0
                     ELSE IF /\ m_State[t] = "Ready" /\ passes[t] < MAX_TASKS
                             /\ \E j \in InUse(l) : m_pTask[l][j] = t
                     THEN passes[t] + 1
                     ELSE passes[t]]
    /\ UNCHANGED <<m_pTask, m_nTasks, m_nWakeTicks, mLevel, Run,
                   local, ticks, started, detached>>

(* The private timer's interrupt on the CPU that counts jiffies. *)
Tick ==
    /\ TICK_ELSEWHERE \/ mode = "task"
    /\ ticks' = (ticks + TICK) % WORD
    /\ left' = [t \in Tasks |-> IF left[t] > TICK THEN left[t] - TICK ELSE 0]
    /\ UNCHANGED <<table, task, pc, new, slot, rest, started, mode, passes, detached>>

----------------------------------------------------------------------------
Create ==
    \/ \E t \in Tasks, l \in NewLevels : NewTask(t, l)
    \/ AddTaskWrite \/ AddTaskCount \/ SetRun \/ StartSlice

Sleep ==
    \/ \E n \in Sleeps : SchedulerSleep(n)
    \/ \E n \in UsSleeps : SchedulerUsSleep(n)
    \/ \E n \in MsSleeps : SchedulerMsSleep(n)
    \/ SchedulerSleepAgain \/ SetSleeping

Scan ==
    \/ ScanFindsNone
    \/ \E l \in Levels : \E i \in InUse(l) : ScanReaps(l, i) \/ ScanSwitches(l, i)

Next ==
    \/ Create \/ Sleep \/ Scan \/ Tick
    \/ TaskTaskEntry \/ TaskRun \/ SchedulerKillSelfTask
    \/ SchedulerBlockTask
    \/ \E t \in Tasks : SchedulerWakeTask(t) \/ SchedulerRemoveTask(t)
    \/ RemoveTaskTrims
    \/ SchedulerYield \/ SchedulerYieldInterrupt

Spec == Init /\ [][Next]_vars

(* The private timer keeps interrupting and its slice timer keeps expiring, and
   SchedulerGetNextTask returns. *)
LiveSpec == Spec /\ WF_vars(Scan) /\ WF_vars(SchedulerYieldInterrupt)

----------------------------------------------------------------------------
(* Every variable has its type. *)
TypeOK ==
    /\ m_pTask \in [Levels -> [Slots -> Tasks \cup {NULL}]]
    /\ m_nTasks \in [Levels -> 0 .. MAX_TASKS]
    /\ m_nLevelCurrent \in [Levels -> -1 .. MAX_TASKS - 1]
    /\ m_pCurrent \in Tasks
    /\ m_nCurrentLevel \in Levels
    /\ m_nCurrent \in 0 .. MAX_TASKS
    /\ m_State \in [Tasks -> TaskStates]
    /\ m_nWakeTicks \in [Tasks -> 0 .. WORD - 1]
    /\ mLevel \in [Tasks -> Levels]
    /\ Run \in [Tasks -> {"TaskRun", "derived"}]
    /\ ticks \in 0 .. WORD - 1
    /\ started \in BOOLEAN
    /\ mode \in {"task", "yield", "irq"}
    /\ pc \in [Tasks -> Places]
    /\ new \in [Tasks -> Tasks \cup {NULL}]
    /\ slot \in [Tasks -> Slots \cup {-1}]
    /\ rest \in [Tasks -> Nat]
    /\ left \in [Tasks -> Nat]
    /\ passes \in [Tasks -> Nat]
    /\ detached \subseteq Tasks

(* The task is between its allocation by new_Task and its slot being counted. *)
UnderWay(t) == \E u \in Tasks : new[u] = t /\ pc[u] \in {"add", "count"}

(* SchedulerAddTask and SchedulerRemoveTask never lose a task or schedule it twice:
   a task that exists, is not under way and was not taken out is in exactly one of
   the slots SchedulerGetNextTask visits; no freed task is in any of them. *)
TableOK ==
    \A t \in Tasks :
       /\ (m_State[t] # "Unknown" /\ t \notin detached /\ ~UnderWay(t))
             <=> \E l \in Levels : \E i \in InUse(l) : m_pTask[l][i] = t
       /\ \A l, k \in Levels : \A i \in InUse(l), j \in InUse(k) :
             m_pTask[l][i] = t /\ m_pTask[k][j] = t => l = k /\ i = j

(* Round robin: while a task stays ready, SchedulerGetNextTask chooses other tasks of
   its level at most MAX_TASKS - 1 times before it chooses this one, whatever is
   created, removed or woken meanwhile. *)
BoundedOvertaking == \A t \in Tasks : passes[t] <= MAX_TASKS - 1

(* Whenever a task executes, the table entry that m_nCurrentLevel and m_nCurrent name
   is that task (scheduler.h:17-19), so the search continues behind it. *)
CurrentInTable ==
    mode = "task" => /\ m_nCurrent \in InUse(m_nCurrentLevel)
                     /\ m_pTask[m_nCurrentLevel][m_nCurrent] = m_pCurrent

(* A sleep, in one piece or in the pieces of SchedulerSleep, never returns before the
   time asked for has passed, although wake time and clock wrap around. *)
SleepsFully == At("run") => left[m_pCurrent] = 0

AboveCanRun(l) == \E h \in Levels : h > l /\ \E i \in InUse(h) : Stops(h, i)

LevelOf(t) == {l \in Levels : \E i \in InUse(l) : m_pTask[l][i] = t}

(* With slices running, a ready task runs, unless it is stopped or taken out or a task
   of a higher level can run: no task of the same level keeps the CPU. *)
ReadyRuns ==
    \A t \in Tasks :
       (started /\ m_State[t] = "Ready" /\ LevelOf(t) # {})
          ~> \/ m_pCurrent = t \/ m_State[t] # "Ready" \/ t \in detached
             \/ \E l \in LevelOf(t) : AboveCanRun(l)

(* A CPU that disables interrupts to search for a task enables them again. *)
YieldReturns == mode # "task" ~> mode = "task"

(* task.c:75, assert(0) in TaskRun: no task runs the method of the base class.
   new_Task publishes a task before its constructor has set Run, so this needs
   the order of hello_world.c: every task is created before slices start. *)
RunIsSet == At("entry") => Run[m_pCurrent] = "derived"

============================================================================
