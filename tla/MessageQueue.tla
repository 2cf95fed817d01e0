---------------------------- MODULE MessageQueue ----------------------------
(***************************************************************************)
(* The timed message queues of env/lib/input/messagequeue.c. A queue is    *)
(* the sequence of the messages behind its head node; every operation runs *)
(* in a critical section of the one CPU that uses it.                      *)
(***************************************************************************)
EXTENDS Integers, Sequences, FiniteSetsExt, SequencesExt

Message(what, when) == [what |-> what, when |-> when]

\* mutant: always behind the last node
EnqueuesLast(q, what, when) == Append(q, Message(what, when))

(* enqueueMessage: before the first node that is due later *)
enqueueMessage(q, what, when) ==
    LET later == {i \in 1 .. Len(q) : when < q[i].when}
    IN  InsertAt(q, IF later = {} THEN Len(q) + 1 ELSE Min(later), Message(what, when))

removeMessages(q, what) == SelectSeq(q, LAMBDA m : m.what # what)

hasSpecificMessage(q, what) == \E i \in 1 .. Len(q) : q[i].what = what

hasMessage(q) == q # <<>>

(* How many messages the loop of handleTimeoutMessage takes: it stops at the first
   that is not due. *)
Due(q, now) ==
    LET early == {i \in 1 .. Len(q) : ~(now >= q[i].when)}
    IN  IF early = {} THEN Len(q) ELSE Min(early) - 1

============================================================================
