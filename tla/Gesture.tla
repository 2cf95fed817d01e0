------------------------------ MODULE Gesture -------------------------------
(***************************************************************************)
(* Touch input on CPU 3: the interrupt that turns reports of the touch     *)
(* screen into motion events in a FIFO (touchscreen.c), the main task that *)
(* takes them out and recognises gestures (gesturedetector.c), and the     *)
(* task that handles the timed messages of the detector (gesturetask.c).   *)
(* Slices interleave the tasks; each takes its steps in critical sections. *)
(*                                                                         *)
(* Positions are left out: what the code computes from them (a distance    *)
(* over a slop, a span) is a choice. Velocities and the listeners, which   *)
(* draw, are left out too.                                                 *)
(***************************************************************************)
EXTENDS MessageQueue, TLC

CONSTANTS
    Fingers,               \* touch IDs, 0 .. TOUCH_SCREEN_MAX_POINTS - 1
    FIFO_SIZE,             \* MAX_TFT5406BUFFER_FIFO_SIZE
    TAP_TIMEOUT, DOUBLE_TAP_TIMEOUT, DOUBLE_TAP_MIN_TIME, LONGPRESS_TIMEOUT,
    MAX_TIME,              \* bound on the global timer
    MAX_REPORTS,           \* bound on the reports of the touch screen
    LATE_TASK              \* GestureTask may miss a TAP until the long press is due

SHOW_PRESS == "SHOW_PRESS"
LONG_PRESS == "LONG_PRESS"
TAP == "TAP"

VARIABLES
    m_nKnownIDs,   \* fingers of the last report
    fifo,          \* motion events: what became of each finger
    overrun,       \* FLAGS_OVERRUN
    s,             \* the gesture detector, its queue and the state of GestureTask
    pc,            \* where GestureTask is
    now,           \* global_timer_get_counter()
    reports        \* reports so far

vars == <<m_nKnownIDs, fifo, overrun, s, pc, now, reports>>

Init ==
    /\ m_nKnownIDs = {} /\ fifo = <<>> /\ overrun = FALSE
    /\ pc = "check"
    /\ now = 1 /\ reports = 0
    /\ s = [mFingerStatus |-> {}, mInProgress |-> FALSE,
            mIsDoubleTapping |-> FALSE, mAlwaysInTapRegion |-> FALSE,
            mAlwaysInBiggerTapRegion |-> FALSE, mStillDown |-> FALSE,
            mInLongPress |-> FALSE, mDeferConfirmSingleTap |-> FALSE,
            mPreviousUpEvent |-> 0, queue |-> <<>>, state |-> "ready", doubleFree |-> FALSE]

----------------------------------------------------------------------------
(* Messages *)

Send(d, what, when) ==
    [d EXCEPT !.queue = enqueueMessage(@, what, when), !.state = "ready"]

RemoveMessage(d, what) == [d EXCEPT !.queue = removeMessages(@, what)]

cancelTaps(d) ==
    [RemoveMessage(RemoveMessage(RemoveMessage(d, SHOW_PRESS), LONG_PRESS), TAP) EXCEPT
        !.mIsDoubleTapping = FALSE, !.mAlwaysInTapRegion = FALSE,
        !.mAlwaysInBiggerTapRegion = FALSE, !.mDeferConfirmSingleTap = FALSE,
        !.mInLongPress = FALSE]

----------------------------------------------------------------------------
(* The detectors. Each operator yields the set of states an event may lead to. *)

(* ScaleGestureDetectorOnTouchEvent: wide and changed stand for the comparisons of the
   span with mMinSpan and mInitialSpan. The span of one finger is 0. *)
ScaleGestureDetectorOnTouchEvent(d, event, motion) ==
    LET touching == {i \in Fingers : motion[i] \notin {"unknown", "up"}}
        was == d.mInProgress /\ event # "DOWN"
        configChanged == event \in {"DOWN", "POINTER_UP", "POINTER_DOWN"}
    IN  IF event = "UP"
        THEN {[d EXCEPT !.mInProgress = FALSE]}
        ELSE {[d EXCEPT !.mInProgress = wide /\ (was \/ (changed /\ ~configChanged))] :
                 wide \in (IF \E i, j \in touching : i # j THEN BOOLEAN ELSE {FALSE}),
                 changed \in BOOLEAN}

isConsideredDoubleTap(d) ==
    /\ d.mAlwaysInBiggerTapRegion
    /\ now - d.mPreviousUpEvent <= DOUBLE_TAP_TIMEOUT
    /\ now - d.mPreviousUpEvent >= DOUBLE_TAP_MIN_TIME

(* The double tap is recognised, if near, or a new tap begins. *)
DownTap(d) ==
    LET e == RemoveMessage(d, TAP)
        tapped == {Send(e, TAP, now + DOUBLE_TAP_TIMEOUT)}
    IN  IF /\ d.mPreviousUpEvent > 0
           /\ hasSpecificMessage(d.queue, TAP)
           /\ isConsideredDoubleTap(d)
        THEN tapped \cup {[e EXCEPT !.mIsDoubleTapping = TRUE]}
        ELSE tapped

Down(d) ==
    {LET f == [e EXCEPT
                 !.mAlwaysInTapRegion = TRUE, !.mAlwaysInBiggerTapRegion = TRUE,
                 !.mStillDown = TRUE, !.mInLongPress = FALSE, !.mDeferConfirmSingleTap = FALSE]
         g == Send(RemoveMessage(f, LONG_PRESS), LONG_PRESS, now + TAP_TIMEOUT + LONGPRESS_TIMEOUT)
     IN  Send(g, SHOW_PRESS, now + TAP_TIMEOUT) : e \in DownTap(d)}

NoPress(d) == RemoveMessage(RemoveMessage(d, SHOW_PRESS), LONG_PRESS)

PointerMove(d) == [NoPress(d) EXCEPT !.mAlwaysInTapRegion = FALSE, !.mInLongPress = FALSE]

(* Both slops are TOUCH_SLOP * TOUCH_SLOP. *)
Move(d) ==
    {d} \cup IF ~d.mInLongPress /\ ~d.mIsDoubleTapping /\ d.mAlwaysInTapRegion
             THEN {[NoPress(d) EXCEPT !.mAlwaysInTapRegion = FALSE, !.mInLongPress = FALSE,
                                      !.mAlwaysInBiggerTapRegion = FALSE]}
             ELSE {}

\* mutant: a pending long press is kept
UpKeepsPress(d) ==
    [RemoveMessage(d, SHOW_PRESS) EXCEPT
        !.mStillDown = FALSE, !.mInLongPress = FALSE, !.mPreviousUpEvent = now,
        !.mIsDoubleTapping = FALSE, !.mDeferConfirmSingleTap = FALSE]

Up(d) ==
    LET e == IF ~d.mIsDoubleTapping /\ d.mInLongPress
             THEN [RemoveMessage(d, TAP) EXCEPT !.mInLongPress = FALSE]
             ELSE d
    IN  [NoPress(e) EXCEPT !.mStillDown = FALSE, !.mPreviousUpEvent = now,
                           !.mIsDoubleTapping = FALSE, !.mDeferConfirmSingleTap = FALSE]

TouchScreenEventHandler(d, event, motion) ==
    UNION {IF e.mInProgress THEN {e}
           ELSE CASE event = "POINTER_DOWN" -> {cancelTaps(e)}
                  [] event = "POINTER_UP"   -> {e}
                  [] event = "DOWN"         -> Down(e)
                  [] event = "POINTER_MOVE" -> {PointerMove(e)}
                  [] event = "MOVE"         -> Move(e)
                  [] event = "UP"           -> {Up(e)} :
           e \in ScaleGestureDetectorOnTouchEvent(d, event, motion)}

----------------------------------------------------------------------------
\* mutant: every finger that is lifted ends the touch
FingerLiftsAll(d, i, motion) ==
    CASE motion[i] = "down" ->
           {[e EXCEPT !.mFingerStatus = @ \cup {i}] : e \in
              TouchScreenEventHandler(d, IF d.mFingerStatus = {} THEN "DOWN" ELSE "POINTER_DOWN", motion)}
      [] motion[i] = "up" ->
           {[e EXCEPT !.mFingerStatus = @ \ {i}] : e \in TouchScreenEventHandler(d, "UP", motion)}
      [] OTHER -> {d}

(* TouchScreenActionHandler: one finger of a motion event, then all in their order *)
Finger(d, i, motion) ==
    LET only == d.mFingerStatus = {i}
    IN  CASE motion[i] = "down" ->
               {[e EXCEPT !.mFingerStatus = @ \cup {i}] : e \in
                  TouchScreenEventHandler(d, IF d.mFingerStatus = {} THEN "DOWN" ELSE "POINTER_DOWN", motion)}
          [] motion[i] = "up" ->
               {[e EXCEPT !.mFingerStatus = @ \ {i}] : e \in
                  TouchScreenEventHandler(d, IF only THEN "UP" ELSE "POINTER_UP", motion)}
          [] motion[i] = "move" ->
               TouchScreenEventHandler(d, IF only THEN "MOVE" ELSE "POINTER_MOVE", motion)
          [] OTHER -> {d}

TouchScreenActionHandler(d, motion) ==
    FoldLeft(LAMBDA ds, i : UNION {Finger(e, i, motion) : e \in ds}, {d}, SetToSortSeq(Fingers, <))

----------------------------------------------------------------------------
(* gpiob29_interrupt_func and TouchUpdateMotionEvent: a report that the fingers of P
   touch, those of M at a new place. *)
Motion(P, M) ==
    [i \in Fingers |->
        CASE i \in P /\ i \notin m_nKnownIDs -> "down"
          [] i \in P /\ i \in m_nKnownIDs    -> IF i \in M THEN "move" ELSE "nomove"
          [] i \notin P /\ i \in m_nKnownIDs -> "up"
          [] OTHER                           -> "unknown"]

\* mutant: lifted fingers are not forgotten
ReportForgets(P, M) ==
    LET motion == Motion(P, M)
    IN  /\ P # {} \/ m_nKnownIDs # {}
        /\ Range(motion) \cap {"down", "move", "up"} # {}
        /\ m_nKnownIDs' = m_nKnownIDs \cup P
        /\ IF Len(fifo) = FIFO_SIZE
           THEN overrun' = TRUE /\ UNCHANGED fifo
           ELSE fifo' = Append(fifo, motion) /\ UNCHANGED overrun
        /\ reports < MAX_REPORTS /\ reports' = reports + 1
        /\ UNCHANGED <<s, pc, now>>

TouchUpdateMotionEvent(P, M) ==
    LET motion == Motion(P, M)
    IN  /\ P # {} \/ m_nKnownIDs # {}
        /\ m_nKnownIDs' = P
        /\ IF Range(motion) \cap {"down", "move", "up"} = {}
           THEN UNCHANGED <<fifo, overrun>>
           ELSE IF Len(fifo) = FIFO_SIZE
                THEN overrun' = TRUE /\ UNCHANGED fifo
                ELSE fifo' = Append(fifo, motion) /\ UNCHANGED overrun
        /\ reports < MAX_REPORTS /\ reports' = reports + 1
        /\ UNCHANGED <<s, pc, now>>

(* The main task *)
TouchScreenUpdate ==
    /\ fifo # <<>>
    /\ fifo' = Tail(fifo)
    /\ s' \in TouchScreenActionHandler(s, Head(fifo))
    /\ UNCHANGED <<m_nKnownIDs, overrun, pc, now, reports>>

----------------------------------------------------------------------------
\* mutant: a long press leaves the deferred confirmation
LongKeepsConfirm(d, what) ==
    CASE what = SHOW_PRESS -> d
      [] what = LONG_PRESS -> [RemoveMessage(d, TAP) EXCEPT !.mInLongPress = TRUE]
      [] what = TAP -> [d EXCEPT !.mDeferConfirmSingleTap = @ \/ d.mStillDown]

GestureHandleMessage(d, what) ==
    CASE what = SHOW_PRESS -> d
      [] what = LONG_PRESS -> [RemoveMessage(d, TAP) EXCEPT
                                 !.mDeferConfirmSingleTap = FALSE, !.mInLongPress = TRUE]
      [] what = TAP -> [d EXCEPT !.mDeferConfirmSingleTap = @ \/ d.mStillDown]

(* handleTimeoutMessage of the gesture queue. The nodes it handles stay linked behind
   the head until it ends, although they are freed: a TAP that a LONG_PRESS removes
   (dispatchLongPress) is freed twice if it was handled before, or is next. *)
HandleGestures(d) ==
    LET q == d.queue
        n == Due(q, now)
        done == FoldLeft(LAMBDA e, m : GestureHandleMessage(e, m.what), d, SubSeq(q, 1, n))
        long == hasSpecificMessage(SubSeq(q, 1, n), LONG_PRESS)
        rest == SubSeq(q, n + 1, Len(q))
    IN  [done EXCEPT
           !.queue = IF long THEN removeMessages(rest, TAP) ELSE rest,
           !.doubleFree = @ \/ (long /\ \E i \in 1 .. Len(q) : i <= n + 1 /\ q[i].what = TAP)]

Runs(place) == s.state = "ready" /\ pc = place

(* GestureTaskRun *)
CheckMessages ==
    /\ Runs("check")
    /\ pc' = IF hasMessage(s.queue) THEN "handle" ELSE "block"
    /\ UNCHANGED <<m_nKnownIDs, fifo, overrun, s, now, reports>>

HandleMessages ==
    /\ Runs("handle")
    /\ pc' = "check"
    /\ s' = HandleGestures(s)
    /\ UNCHANGED <<m_nKnownIDs, fifo, overrun, now, reports>>

SchedulerBlockTask ==
    /\ Runs("block")
    /\ pc' = "check"
    /\ s' = [s EXCEPT !.state = "blocked"]
    /\ UNCHANGED <<m_nKnownIDs, fifo, overrun, now, reports>>

(* The global timer. Unless LATE_TASK, GestureTask, when it is ready, runs before the
   LONG_PRESS behind a TAP is due: within the LONGPRESS_TIMEOUT + TAP_TIMEOUT -
   DOUBLE_TAP_TIMEOUT between them. The code does not guarantee it; the slices of the
   two tasks of CPU 3 are much shorter. *)
Tick ==
    /\ now < MAX_TIME
    /\ LATE_TASK \/ s.state = "blocked" \/ ~\E i, j \in 1 .. Len(s.queue) :
                      s.queue[i].what = TAP /\ s.queue[j] = Message(LONG_PRESS, now + 1)
    /\ now' = now + 1
    /\ UNCHANGED <<m_nKnownIDs, fifo, overrun, s, pc, reports>>

Next ==
    \/ \E P \in SUBSET Fingers : \E M \in SUBSET P : TouchUpdateMotionEvent(P, M)
    \/ TouchScreenUpdate
    \/ CheckMessages \/ HandleMessages \/ SchedulerBlockTask
    \/ Tick

Spec == Init /\ [][Next]_vars

----------------------------------------------------------------------------
(* The fingers after the events of a motion event *)
Replay(fingers, motion) ==
    (fingers \cup {i \in Fingers : motion[i] = "down"}) \ {i \in Fingers : motion[i] = "up"}

(* The events in the FIFO lead the detector from the fingers it knows to the fingers of
   the last report: between the interrupt and the main task no finger is lost or stays
   down, as long as the FIFO does not overrun. *)
FingersTracked ==
    ~overrun => FoldLeft(Replay, s.mFingerStatus, fifo) = m_nKnownIDs

(* The detector takes the touch as over exactly when no finger is down, whichever of
   several fingers are put down and lifted in one report or scale in between. *)
StillDownTracks == s.mStillDown <=> s.mFingerStatus # {}

(* A press is pending only while a finger is down, and once: lifting the last finger
   withdraws the messages of its touch, so no press is reported for a touch that ended. *)
PressWhileDown ==
    \A what \in {SHOW_PRESS, LONG_PRESS} :
        LET pending == {i \in 1 .. Len(s.queue) : s.queue[i].what = what}
        IN  pending # {} => s.mStillDown /\ Cardinality(pending) = 1

(* A touch that was reported as a double tap or as a long press is not confirmed as a
   single tap later: neither a TAP nor a deferred confirmation is left. *)
OneVerdict ==
    s.mIsDoubleTapping \/ s.mInLongPress =>
        ~hasSpecificMessage(s.queue, TAP) /\ ~s.mDeferConfirmSingleTap

(* Messages are queued in the order in which they are due, so that the first one that
   is not due ends a round of handleTimeoutMessage. *)
QueueSorted ==
    \A i, j \in 1 .. Len(s.queue) : i < j => s.queue[i].when <= s.queue[j].when

(* gesturetask.c:367, the task is blocked when there is no input, until input is written:
   a blocked task has no message to handle. *)
BlockedWithoutMessage == s.state = "blocked" => ~hasMessage(s.queue)

(* alloc.h:47, free releases memory obtained from malloc: no message is freed twice. *)
FreedOnce == ~s.doubleFree

============================================================================
