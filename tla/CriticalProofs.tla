--------------------------- MODULE CriticalProofs ---------------------------
(***************************************************************************)
(* Proof that critical sections exclude the other tasks and the handlers   *)
(* of their CPU, for any set of tasks and any depth of nesting.            *)
(*                                                                         *)
(* Masked alone is not inductive: a caller whose depth is still 0 but that *)
(* has passed DisableInterrupts, or that is in LeaveCritical, must be the  *)
(* one that runs, and the counter it tests must be its own. A handler      *)
(* finds interrupts disabled, so that its own LeaveCritical does not       *)
(* enable them: the last two conjuncts before LevelIsDepth.                *)
(***************************************************************************)
EXTENDS Critical, TLAPS

(* The places at which only the running context can be, with interrupts disabled. *)
Closed(c) == depth[c] > 0 \/ pc[c] \in {"inc", "zero", "restore"}

IInv ==
    /\ TypeOK
    /\ inIsr => ~enabled
    /\ ~inIsr => pc[ISR] = "run"
    /\ \A c \in Contexts : Closed(c) => c = Active /\ ~enabled
    /\ \A c \in Contexts : pc[c] \in {"read", "store", "disable", "restore"} => depth[c] = 0
    /\ \A c \in Contexts : pc[c] \in {"read", "store", "disable", "inc"} => depth[c] < MAX_NEST
    /\ pc[ISR] = "store" => ~nFlags[ISR]
    /\ pc[ISR] = "disable" \/ Closed(ISR) => ~s_bWereEnabled
    /\ LevelIsDepth

(* The context that runs is one of the CPU's contexts. *)
LEMMA ActiveType == TypeOK => Active \in Contexts
  BY DEF TypeOK, Active, Contexts

(* Nobody is in a section when the CPU starts. *)
LEMMA InvInit == Init => IInv
  <1> SUFFICES ASSUME Init PROVE IInv
    OBVIOUS
  <1> USE CriticalAssumption DEF Init
  <1>0. "run" \in Places /\ 0 \in 0 .. MAX_NEST
    BY DEF Places
  <1>1. TypeOK
    BY <1>0, Zenon DEF TypeOK, Contexts
  <1>2. \A c \in Contexts : depth[c] = 0 /\ pc[c] = "run"
    BY DEF Contexts
  <1>3. Active \in Contexts /\ ISR \in Contexts
    BY DEF Contexts, Active
  <1> QED
    BY <1>1, <1>2, <1>3 DEF IInv, Closed, LevelIsDepth

(* Every step of EnterCritical, of LeaveCritical, of an interrupt and of the scheduler
   keeps the invariant. *)
LEMMA InvNext == IInv /\ [Next]_vars => IInv'
  <1> SUFFICES ASSUME IInv, [Next]_vars PROVE IInv'
    OBVIOUS
  <1> USE CriticalAssumption DEF IInv, TypeOK, LevelIsDepth, At, Goto, cpu, local
  <1>0. Active \in Contexts
    BY ActiveType
  <1>s. ISR \in Contexts /\ \A t \in Tasks : t \in Contexts /\ t # ISR
    BY DEF Contexts
  <1>1. CASE EnterCritical
    BY <1>0, <1>1 DEF EnterCritical, Closed, Active, Places
  <1>2. CASE EnterReads
    BY <1>0, <1>2 DEF EnterReads, Closed, Active, Places
  <1>3. CASE EnterStores
    <2>1. TypeOK'
      BY <1>0, <1>s, <1>3 DEF EnterStores, Places
    <2>2. inIsr' => ~enabled'
      BY <1>0, <1>s, <1>3 DEF EnterStores, Active, Closed
    <2>3. \A c \in Contexts : Closed(c)' => c = Active' /\ ~enabled'
      BY <1>0, <1>s, <1>3 DEF EnterStores, Closed, Active
    <2>4. LevelIsDepth'
      BY <1>0, <1>s, <1>3 DEF EnterStores, Active, Closed
    <2>5. \A c \in Contexts : pc'[c] \in {"read", "store", "disable", "inc"} => depth'[c] < MAX_NEST
      BY <1>0, <1>s, <1>3 DEF EnterStores
    <2>6. \A c \in Contexts : pc'[c] \in {"read", "store", "disable", "restore"} => depth'[c] = 0
      BY <1>0, <1>s, <1>3 DEF EnterStores
    <2>7. /\ ~inIsr' => pc'[ISR] = "run"
          /\ pc'[ISR] = "store" => ~nFlags'[ISR]
      BY <1>0, <1>s, <1>3 DEF EnterStores, Active
    <2>8. pc'[ISR] = "disable" \/ Closed(ISR)' => ~s_bWereEnabled'
      BY <1>0, <1>s, <1>3 DEF EnterStores, Closed, Active
    <2> QED
      BY <2>1, <2>2, <2>3, <2>4, <2>5, <2>6, <2>7, <2>8
  <1>4. CASE EnterDisables
    <2>1. TypeOK'
      BY <1>0, <1>s, <1>4 DEF EnterDisables, Places
    <2>2. inIsr' => ~enabled'
      BY <1>0, <1>s, <1>4 DEF EnterDisables, Active, Closed
    <2>3. \A c \in Contexts : Closed(c)' => c = Active' /\ ~enabled'
      BY <1>0, <1>s, <1>4 DEF EnterDisables, Closed, Active
    <2>4. LevelIsDepth'
      BY <1>0, <1>s, <1>4 DEF EnterDisables, Active, Closed
    <2>5. \A c \in Contexts : pc'[c] \in {"read", "store", "disable", "inc"} => depth'[c] < MAX_NEST
      BY <1>0, <1>s, <1>4 DEF EnterDisables
    <2>6. \A c \in Contexts : pc'[c] \in {"read", "store", "disable", "restore"} => depth'[c] = 0
      BY <1>0, <1>s, <1>4 DEF EnterDisables
    <2>7. /\ ~inIsr' => pc'[ISR] = "run"
          /\ pc'[ISR] = "store" => ~nFlags'[ISR]
      BY <1>0, <1>s, <1>4 DEF EnterDisables, Active
    <2>8. pc'[ISR] = "disable" \/ Closed(ISR)' => ~s_bWereEnabled'
      BY <1>0, <1>s, <1>4 DEF EnterDisables, Closed, Active
    <2> QED
      BY <2>1, <2>2, <2>3, <2>4, <2>5, <2>6, <2>7, <2>8
  <1>5. CASE EnterCounts
    BY <1>0, <1>5 DEF EnterCounts, Closed, Active, Places
  <1>6. CASE LeaveCritical
    BY <1>0, <1>6 DEF LeaveCritical, Closed, Active, Places
  <1>7. CASE LeaveTests
    BY <1>0, <1>7 DEF LeaveTests, Closed, Active, Places
  <1>8. CASE LeaveRestores
    <2>1. TypeOK'
      BY <1>0, <1>s, <1>8 DEF LeaveRestores, Places
    <2>2. inIsr' => ~enabled'
      BY <1>0, <1>s, <1>8 DEF LeaveRestores, Active, Closed
    <2>3. \A c \in Contexts : Closed(c)' => c = Active' /\ ~enabled'
      BY <1>0, <1>s, <1>8 DEF LeaveRestores, Closed, Active
    <2>4. LevelIsDepth'
      BY <1>0, <1>s, <1>8 DEF LeaveRestores, Active, Closed
    <2>5. \A c \in Contexts : pc'[c] \in {"read", "store", "disable", "inc"} => depth'[c] < MAX_NEST
      BY <1>0, <1>s, <1>8 DEF LeaveRestores
    <2>6. \A c \in Contexts : pc'[c] \in {"read", "store", "disable", "restore"} => depth'[c] = 0
      BY <1>0, <1>s, <1>8 DEF LeaveRestores
    <2>7. /\ ~inIsr' => pc'[ISR] = "run"
          /\ pc'[ISR] = "store" => ~nFlags'[ISR]
      BY <1>0, <1>s, <1>8 DEF LeaveRestores, Active
    <2>8. pc'[ISR] = "disable" \/ Closed(ISR)' => ~s_bWereEnabled'
      BY <1>0, <1>s, <1>8 DEF LeaveRestores, Closed, Active
    <2> QED
      BY <2>1, <2>2, <2>3, <2>4, <2>5, <2>6, <2>7, <2>8
  <1>9. CASE Interrupt
    <2>1. TypeOK'
      BY <1>0, <1>s, <1>9 DEF Interrupt, Places
    <2>2. inIsr' => ~enabled'
      BY <1>0, <1>s, <1>9 DEF Interrupt, Active, Closed
    <2>3. \A c \in Contexts : Closed(c)' => c = Active' /\ ~enabled'
      BY <1>0, <1>s, <1>9 DEF Interrupt, Closed, Active
    <2>4. LevelIsDepth'
      BY <1>0, <1>s, <1>9 DEF Interrupt, Active, Closed
    <2>5. \A c \in Contexts : pc'[c] \in {"read", "store", "disable", "inc"} => depth'[c] < MAX_NEST
      BY <1>0, <1>s, <1>9 DEF Interrupt
    <2>6. \A c \in Contexts : pc'[c] \in {"read", "store", "disable", "restore"} => depth'[c] = 0
      BY <1>0, <1>s, <1>9 DEF Interrupt
    <2>7. /\ ~inIsr' => pc'[ISR] = "run"
          /\ pc'[ISR] = "store" => ~nFlags'[ISR]
      BY <1>0, <1>s, <1>9 DEF Interrupt, Active
    <2>8. pc'[ISR] = "disable" \/ Closed(ISR)' => ~s_bWereEnabled'
      BY <1>0, <1>s, <1>9 DEF Interrupt, Closed, Active
    <2> QED
      BY <2>1, <2>2, <2>3, <2>4, <2>5, <2>6, <2>7, <2>8
  <1>10. CASE Return
    <2> PICK t \in Tasks : InterruptReturns(t)
      BY <1>10 DEF Return
    <2> USE DEF InterruptReturns
    <2>1. TypeOK'
      BY DEF Places
    <2>2. Active = ISR /\ Active' = t /\ \A c \in Contexts : ~Closed(c)
      BY <1>0, <1>s DEF Active, Closed
    <2>3. \A c \in Contexts : ~Closed(c)'
      BY <2>2 DEF Closed
    <2>4. LevelIsDepth'
      BY <1>0, <1>s, <2>2 DEF Closed
    <2> QED
      BY <1>0, <1>s, <2>1, <2>2, <2>3, <2>4 DEF Active
  <1>11. CASE \E t \in Tasks : SchedulerYield(t)
    <2> PICK t \in Tasks : SchedulerYield(t)
      BY <1>11
    <2> QED
      BY <1>0, <1>s DEF SchedulerYield, Closed, Active, Places
  <1>12. CASE UNCHANGED vars
    BY <1>12 DEF vars, Closed, Active
  <1> QED
    BY <1>1, <1>2, <1>3, <1>4, <1>5, <1>6, <1>7, <1>8, <1>9, <1>10, <1>11, <1>12
       DEF Next, Step

(* A context inside a critical section runs with interrupts disabled and nobody else
   is in one: EnterCritical excludes tasks and handlers of its CPU even when it is
   interrupted before DisableInterrupts. *)
THEOREM SectionsExclude == Spec => []Masked
  <1>1. IInv => Masked
    BY DEF IInv, Masked, Closed
  <1> QED
    BY InvInit, InvNext, <1>1, PTL DEF Spec

(* s_nCriticalLevel is the nesting depth of the context that runs. *)
THEOREM LevelCounts == Spec => []LevelIsDepth
  <1>1. IInv => LevelIsDepth
    BY DEF IInv
  <1> QED
    BY InvInit, InvNext, <1>1, PTL DEF Spec

============================================================================
