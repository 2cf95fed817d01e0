------------------------------ MODULE Critical ------------------------------
(***************************************************************************)
(* EnterCritical and LeaveCritical of env/lib/synchronize.c on one CPU:    *)
(* its tasks and the handler of its interrupts, which call them too        *)
(* (TimerPollKernelTimers, malloc). s_nCriticalLevel and s_bWereEnabled    *)
(* are shared by all of them, and an interrupt may come between any two    *)
(* instructions of EnterCritical that precede DisableInterrupts.           *)
(*                                                                         *)
(* s_nCriticalLevel++ and -- are one step each: Masked says that           *)
(* interrupts are disabled there.                                          *)
(***************************************************************************)
EXTENDS Integers

CONSTANTS
    Tasks,       \* the tasks of this CPU
    ISR,         \* the interrupt handler
    MAX_NEST     \* how deep a caller nests its sections

Contexts == Tasks \cup {ISR}

ASSUME CriticalAssumption == ISR \notin Tasks /\ MAX_NEST \in Nat

VARIABLES
    s_nCriticalLevel,
    s_bWereEnabled,
    enabled,     \* the I bit of cpsr is clear
    current,     \* the task that runs, or that was interrupted
    inIsr,       \* the handler runs
    pc,          \* where each context is
    nFlags,      \* local of EnterCritical: interrupts were enabled
    depth        \* history: how many sections each context is in

cpu   == <<current, inIsr>>
local == <<pc, nFlags>>
vars  == <<s_nCriticalLevel, s_bWereEnabled, enabled, cpu, local, depth>>

(***************************************************************************)
(* "run"                          outside the two functions                *)
(* "read", "store", "disable", "inc"   next statement of EnterCritical     *)
(* "zero", "restore"              next statement of LeaveCritical          *)
(***************************************************************************)
Places == {"run", "read", "store", "disable", "inc", "zero", "restore"}

Active == IF inIsr THEN ISR ELSE current

At(p) == pc[Active] = p
Goto(p) == pc' = [pc EXCEPT ![Active] = p]

Init ==
    /\ s_nCriticalLevel = 0 /\ s_bWereEnabled = FALSE
    /\ enabled = TRUE
    /\ current \in Tasks /\ inIsr = FALSE
    /\ pc = [c \in Contexts |-> "run"]
    /\ nFlags = [c \in Contexts |-> FALSE]
    /\ depth = [c \in Contexts |-> 0]

----------------------------------------------------------------------------
EnterCritical ==
    /\ At("run") /\ depth[Active] < MAX_NEST
    /\ Goto(IF s_nCriticalLevel = 0 THEN "read" ELSE "inc")
    /\ UNCHANGED <<s_nCriticalLevel, s_bWereEnabled, enabled, cpu, nFlags, depth>>

EnterReads ==
    /\ At("read") /\ Goto("store")
    /\ nFlags' = [nFlags EXCEPT ![Active] = enabled]
    /\ UNCHANGED <<s_nCriticalLevel, s_bWereEnabled, enabled, cpu, depth>>

EnterStores ==
    /\ At("store") /\ Goto("disable")
    /\ s_bWereEnabled' = nFlags[Active]
    /\ UNCHANGED <<s_nCriticalLevel, enabled, cpu, nFlags, depth>>

\* mutant: interrupts stay enabled
EnterLeavesEnabled ==
    /\ At("disable") /\ Goto("inc")
    /\ UNCHANGED <<s_nCriticalLevel, s_bWereEnabled, enabled, cpu, nFlags, depth>>

EnterDisables ==
    /\ At("disable") /\ Goto("inc")
    /\ enabled' = FALSE
    /\ UNCHANGED <<s_nCriticalLevel, s_bWereEnabled, cpu, nFlags, depth>>

\* mutant: counts down
EnterCountsDown ==
    /\ At("inc") /\ Goto("run")
    /\ s_nCriticalLevel' = s_nCriticalLevel - 1
    /\ depth' = [depth EXCEPT ![Active] = @ + 1]
    /\ UNCHANGED <<s_bWereEnabled, enabled, cpu, nFlags>>

EnterCounts ==
    /\ At("inc") /\ Goto("run")
    /\ s_nCriticalLevel' = s_nCriticalLevel + 1
    /\ depth' = [depth EXCEPT ![Active] = @ + 1]
    /\ UNCHANGED <<s_bWereEnabled, enabled, cpu, nFlags>>

\* mutant: the outermost level is never left
LeaveAboveOne ==
    /\ At("run") /\ depth[Active] > 0
    /\ s_nCriticalLevel' = IF s_nCriticalLevel > 1 THEN s_nCriticalLevel - 1 ELSE s_nCriticalLevel
    /\ depth' = [depth EXCEPT ![Active] = @ - 1]
    /\ Goto("zero")
    /\ UNCHANGED <<s_bWereEnabled, enabled, cpu, nFlags>>

LeaveCritical ==
    /\ At("run") /\ depth[Active] > 0
    /\ s_nCriticalLevel' = IF s_nCriticalLevel > 0 THEN s_nCriticalLevel - 1 ELSE 0
    /\ depth' = [depth EXCEPT ![Active] = @ - 1]
    /\ Goto("zero")
    /\ UNCHANGED <<s_bWereEnabled, enabled, cpu, nFlags>>

LeaveTests ==
    /\ At("zero")
    /\ Goto(IF s_nCriticalLevel = 0 THEN "restore" ELSE "run")
    /\ UNCHANGED <<s_nCriticalLevel, s_bWereEnabled, enabled, cpu, nFlags, depth>>

LeaveRestores ==
    /\ At("restore") /\ Goto("run")
    /\ enabled' = (enabled \/ s_bWereEnabled)
    /\ UNCHANGED <<s_nCriticalLevel, s_bWereEnabled, cpu, nFlags, depth>>

----------------------------------------------------------------------------
(* An interrupt, and the return from it, to the task that was interrupted or to the
   one TaskSwitchInterrupt put in its place (start.S, irq). Interrupts are enabled in
   the task it returns to: in one that was interrupted they were, and one that called
   SchedulerYield enables them next (scheduler.c:137). *)
Interrupt ==
    /\ enabled /\ ~inIsr
    /\ inIsr' = TRUE /\ enabled' = FALSE
    /\ UNCHANGED <<s_nCriticalLevel, s_bWereEnabled, current, local, depth>>

InterruptReturns(t) ==
    /\ inIsr /\ At("run") /\ depth[ISR] = 0
    /\ inIsr' = FALSE /\ enabled' = TRUE
    /\ current' = t
    /\ UNCHANGED <<s_nCriticalLevel, s_bWereEnabled, local, depth>>

(* SchedulerYield, which no caller calls inside a section, switches to task t. *)
SchedulerYield(t) ==
    /\ ~inIsr /\ At("run") /\ depth[current] = 0
    /\ current' = t /\ enabled' = TRUE
    /\ UNCHANGED <<s_nCriticalLevel, s_bWereEnabled, inIsr, local, depth>>

Step ==
    \/ EnterReads \/ EnterStores \/ EnterDisables \/ EnterCounts
    \/ LeaveCritical \/ LeaveTests \/ LeaveRestores

Return == \E t \in Tasks : InterruptReturns(t)

Next ==
    \/ EnterCritical \/ Step \/ Interrupt \/ Return
    \/ \E t \in Tasks : SchedulerYield(t)

Spec == Init /\ [][Next]_vars

(* Code in a section ends, handlers return, and an interrupt that is pending is taken
   once interrupts are enabled. *)
LiveSpec == Spec /\ WF_vars(Step) /\ WF_vars(Return) /\ SF_vars(Interrupt)

----------------------------------------------------------------------------
TypeOK ==
    /\ s_nCriticalLevel \in Nat /\ s_bWereEnabled \in BOOLEAN /\ enabled \in BOOLEAN
    /\ current \in Tasks /\ inIsr \in BOOLEAN
    /\ pc \in [Contexts -> Places] /\ nFlags \in [Contexts -> BOOLEAN]
    /\ depth \in [Contexts -> 0 .. MAX_NEST]

(* Inside a section interrupts are disabled and nobody else runs, however tasks and
   handlers interleave in EnterCritical: a section excludes the other tasks and the
   handlers of its CPU. *)
Masked == \A c \in Contexts : depth[c] > 0 => c = Active /\ ~enabled

(* s_nCriticalLevel counts the sections of the context that runs: it is 0 exactly
   outside all sections, so a handler that interrupts a caller half way through
   EnterCritical leaves the counter as it found it. *)
LevelIsDepth == s_nCriticalLevel = depth[Active]

(* timer.h:59, TimerGetTicks returns "ms seconds since system boot": the timer's
   interrupt keeps being taken. *)
ClockAdvances == []<>inIsr

============================================================================
