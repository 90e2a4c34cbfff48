----------------------------- MODULE BoundedQueue -----------------------------
(***************************************************************************)
(* What one IPC channel between host and modem promises its two users: a   *)
(* bounded first-in first-out queue of messages.  The sender puts messages *)
(* into slots; the receiver is handed the oldest one it has not finished,  *)
(* keeps it while it works on it, and finishes it; slots come back to the  *)
(* sender in order, and only after the receiver has finished with them.    *)
(***************************************************************************)
EXTENDS Naturals, Sequences

CONSTANTS
    Msg,        \* messages
    NoMsg,      \* stands for "no message in the receiver's hands"
    Capacity    \* number of messages the sender may have outstanding

VARIABLES
    slots,      \* outstanding messages, oldest first
    done,       \* how many of them, from the front, the receiver has finished
    held        \* the message the receiver is working on

vars == <<slots, done, held>>

Init ==
    /\ slots = <<>>
    /\ done = 0
    /\ held = NoMsg

\* The sender hands over a message.
Put(m) ==
    /\ Len(slots) < Capacity
    /\ slots' = Append(slots, m)
    /\ UNCHANGED <<done, held>>

\* The receiver is handed the oldest unfinished message.
Deliver ==
    /\ held = NoMsg
    /\ done < Len(slots)
    /\ held' = slots[done + 1]
    /\ UNCHANGED <<slots, done>>

\* The receiver has finished with the message it holds.
Finish ==
    /\ held # NoMsg
    /\ done' = done + 1
    /\ held' = NoMsg
    /\ UNCHANGED slots

\* The oldest slot is returned to the sender.
Free ==
    /\ done > 0
    /\ slots' = Tail(slots)
    /\ done' = done - 1
    /\ UNCHANGED held

Next ==
    \/ \E m \in Msg : Put(m)
    \/ Deliver
    \/ Finish
    \/ Free

Spec ==
    /\ Init
    /\ [][Next]_vars
    /\ WF_vars(Deliver)
    /\ WF_vars(Finish)
    /\ WF_vars(Free)
===============================================================================
