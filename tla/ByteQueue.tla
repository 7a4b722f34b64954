----------------------------- MODULE ByteQueue -----------------------------
(***************************************************************************)
(* What pqnet::Buffer promises its users: a first-in first-out queue of    *)
(* bytes that always has room for Guaranteed bytes.                        *)
(*                                                                         *)
(* The promise has a precondition.  An append that takes the queue above   *)
(* Guaranteed bytes may find no room, and Buffer::append has no way to     *)
(* refuse: after such a call nothing more is promised (broken).            *)
(***************************************************************************)
EXTENDS Integers, Sequences

CONSTANTS Byte,        \* the byte values
          Guaranteed   \* bytes the queue always has room for

VARIABLES queue,       \* the bytes queued, oldest first
          out,         \* the bytes handed out by the last call
          broken       \* an append exceeded the room: nothing is promised

vars == <<queue, out, broken>>

Init ==
    /\ queue = <<>>
    /\ out = <<>>
    /\ broken = FALSE

(* t is s with bytes added at its end. *)
Extends(t, s) ==
    /\ Len(t) >= Len(s)
    /\ \A i \in 1..Len(s) : t[i] = s[i]

(* Bytes arrive at the back of the queue. *)
Put ==
    /\ Extends(queue', queue)
    /\ UNCHANGED <<out, broken>>

(* Bytes leave from the front of the queue, in order, and are handed out.  *)
(* A call may hand out none of the bytes it was asked for.                 *)
Take ==
    /\ Len(queue) = Len(out') + Len(queue')
    /\ \A i \in 1..Len(out') : out'[i] = queue[i]
    /\ \A i \in 1..Len(queue') : queue'[i] = queue[Len(out') + i]
    /\ UNCHANGED broken

(* A call asked for more than is queued: it hands out any value at all and *)
(* the queue keeps its bytes.                                              *)
Underflow ==
    /\ Len(out') > Len(queue)
    /\ UNCHANGED <<queue, broken>>

(* An append above the guaranteed room may end the promise. *)
Break ==
    /\ Extends(queue', queue)
    /\ Len(queue') > Guaranteed
    /\ broken' = TRUE
    /\ UNCHANGED out

Next == ~broken /\ (Put \/ Take \/ Underflow \/ Break)

Spec == Init /\ [][Next]_vars
=============================================================================
