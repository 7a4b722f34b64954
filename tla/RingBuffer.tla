----------------------------- MODULE RingBuffer -----------------------------
(***************************************************************************)
(* RingBuffer (raw-examples/cpp11/ringbuffer): SIZE characters, a reader   *)
(* and a writer index that run from 0 to SIZE (an index is set to its      *)
(* place modulo SIZE only by an access that wraps), and the flag full that *)
(* tells the two meanings of rIdx = wIdx apart.  buf[i] is the C++ buf[i]. *)
(*                                                                         *)
(* A ring has one user, so a call is one step.  The length of a call may   *)
(* be zero.  A call of getIntN whose integer wraps writes outside of its   *)
(* result: nothing is known of the program behind it, and no step follows. *)
(***************************************************************************)
EXTENDS Integers, Sequences

CONSTANTS SIZE,      \* 1024 in the code
          Byte,      \* the values of a char
          NUL,       \* the char that ends a C string
          IntSizes,  \* {1, 2, 4, 8}: the sizes of the integers
          MaxLen     \* bound: the longest text of a caller

VARIABLES buf, full, rIdx, wIdx,
          last       \* the last call: its name (what became of it), the bytes
                     \* it got or was given

vars == <<buf, full, rIdx, wIdx, last>>

Init ==
    /\ buf = [i \in 0..(SIZE - 1) |-> NUL]
    /\ full = FALSE /\ rIdx = 0 /\ wIdx = 0
    /\ last = [call |-> "none", data |-> <<>>]

readableBytes ==
    IF rIdx < wIdx THEN wIdx - rIdx
    ELSE IF rIdx > wIdx THEN (SIZE - rIdx) + wIdx
    ELSE IF full THEN SIZE ELSE 0

writableBytes ==
    IF wIdx < rIdx THEN rIdx - wIdx
    ELSE IF wIdx > rIdx THEN (SIZE - wIdx) + rIdx
    ELSE IF full THEN 0 ELSE SIZE

Texts == UNION {[1..n -> Byte] : n \in 0..MaxLen}
Ints == UNION {[1..n -> Byte] : n \in IntSizes}

(* The index after an access of len bytes at idx. *)
Advanced(idx, len) == IF len <= SIZE - idx THEN idx + len ELSE len - (SIZE - idx)

(* The bytes an access of len bytes at idx covers, in order. *)
Span(idx, len) == [i \in 1..len |-> buf[(idx + i - 1) % SIZE]]

(* The copy of data to idx, in one piece or in two. *)
Copied(idx, data) ==
    [i \in 0..(SIZE - 1) |->
        LET k == ((i - idx) % SIZE) + 1
        IN  IF k <= Len(data) THEN data[k] ELSE buf[i]]

(* strncpy: from the first NUL on the rest of the piece is NUL. *)
Strncpy(piece) ==
    [i \in 1..Len(piece) |->
        IF \E j \in 1..i : piece[j] = NUL THEN NUL ELSE piece[i]]

(* What append stores of data: strncpy works on each piece by itself. *)
Stored(data) ==
    LET len1 == SIZE - wIdx
    IN  IF wIdx < rIdx \/ Len(data) <= len1
        THEN Strncpy(data)
        ELSE Strncpy(SubSeq(data, 1, len1)) \o Strncpy(SubSeq(data, len1 + 1, Len(data)))

(* Mutant: a read leaves the flag alone. *)
MutStillFull == full

(* A ring that was full no longer is after a read. *)
StillFull == IF rIdx = wIdx THEN FALSE ELSE full

Consume(len) ==
    /\ rIdx' = Advanced(rIdx, len)
    /\ full' = StillFull
    /\ UNCHANGED <<buf, wIdx>>

Refuse == UNCHANGED <<buf, full, rIdx, wIdx>>

get(len) ==
    IF readableBytes < len
    THEN Refuse /\ last' = [call |-> "short", data |-> <<>>]
    ELSE Consume(len) /\ last' = [call |-> "get", data |-> Span(rIdx, len)]

(* An integer of which len1 >= 1 bytes are left before the end: getIntN    *)
(* copies its other bytes to &result + len1, which is len1 whole integers  *)
(* behind the variable and not len1 bytes into it.                         *)
Overruns(len) == rIdx >= wIdx /\ rIdx < SIZE /\ len > SIZE - rIdx

getInt(len) ==
    IF readableBytes < len
    THEN Refuse /\ last' = [call |-> "short", data |-> [i \in 1..len |-> NUL]]
    ELSE IF Overruns(len)
    THEN Refuse /\ last' = [call |-> "undefined", data |-> <<>>]
    ELSE Consume(len) /\ last' = [call |-> "get", data |-> Span(rIdx, len)]

(* Writing moves wIdx, and meeting rIdx means that the ring is full. *)
Store(data, stored, call) ==
    IF writableBytes < Len(data)
    THEN Refuse /\ last' = [call |-> "short", data |-> <<>>]
    ELSE /\ buf' = Copied(wIdx, stored)
         /\ wIdx' = Advanced(wIdx, Len(data))
         /\ full' = IF rIdx = wIdx' THEN TRUE ELSE full
         /\ last' = [call |-> call, data |-> data]
         /\ UNCHANGED rIdx

append(data) == Store(data, Stored(data), "append")
appendInt(data) == Store(data, data, "appendInt")

Next ==
    /\ last.call # "undefined"
    /\ \/ \E len \in 0..MaxLen : get(len)
       \/ \E len \in IntSizes : getInt(len)
       \/ \E data \in Texts : append(data)
       \/ \E data \in Ints : appendInt(data)

(* The bytes in the ring, oldest first. *)
Contents == Span(rIdx, readableBytes)

(* No byte follows a NUL. *)
Text(data) == Strncpy(data) = data

(***************************************************************************)
(* Through every wrap, a call that moves at least one byte is a step of a  *)
(* bounded first-in first-out queue: a get hands out the oldest bytes and  *)
(* leaves the others, an append adds its bytes behind them (strncpy keeps  *)
(* a text as it is), and a call that is refused changes nothing.           *)
(*                                                                         *)
(* Two calls without a byte do what a queue would not: get(0) on a full    *)
(* ring empties it, and append of nothing where the indices meet fills the *)
(* empty ring with what was in the buffer.  Nothing is said of an integer  *)
(* read across the end of the buffer (Overruns).                           *)
(***************************************************************************)
FifoStep ==
    LET call == last'.call
        data == last'.data
    IN  /\ call = "get" =>
             IF data = <<>> /\ full
             THEN Contents' = <<>>
             ELSE Contents = data \o Contents'
        /\ call = "appendInt" => Contents' = Contents \o data
        /\ call = "append" =>
             IF data = <<>> /\ rIdx = wIdx /\ ~full
             THEN Contents' = Span(rIdx, SIZE)
             ELSE /\ Text(data) => Contents' = Contents \o data
                  /\ Len(Contents') = Len(Contents) + Len(data)
        /\ call = "short" => Contents' = Contents
=============================================================================
