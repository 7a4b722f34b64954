------------------------------ MODULE Buffer -------------------------------
(***************************************************************************)
(* pqnet::Buffer (pqnet/core/buffer.h, buffer.cpp): a vector of characters *)
(* with a reader and a writer index,                                       *)
(*                                                                         *)
(*     0 <= readerIndex <= writerIndex <= buf.size()                       *)
(*     [ front | readable bytes | writable bytes )                         *)
(*                                                                         *)
(* buf is 1-based here: the C++ buf[i] is buf[i + 1].  buf.capacity() is   *)
(* buf.size() throughout: the vector is built with its size and only ever  *)
(* resized to twice its capacity.                                          *)
(*                                                                         *)
(* A Buffer has one user at a time, so every call is one step, except      *)
(* readFrom: it calls itself after a read that filled the buffer, and the  *)
(* descriptor can change between the two reads.  One step is one level of  *)
(* that recursion, outer the sum of the reads of the levels that wait for  *)
(* the next one (each of them read something, so outer > 0 exactly while a *)
(* call is under way).                                                     *)
(***************************************************************************)
EXTENDS Integers, Sequences

CONSTANTS Byte,       \* the values of a char
          Zero,       \* the char that vector::resize fills with
          InitSize,   \* the constructor's size (default 1024)
          MAXSIZE,    \* 8192 in the code
          IntSizes,   \* {1, 2, 4, 8} in the code: the sizes of the integers
          MaxLen      \* bound: the longest piece of data a caller passes

ASSUME BufferAssumption ==
    /\ Zero \in Byte
    /\ InitSize \in Nat \ {0}
    /\ MAXSIZE \in Nat
    /\ IntSizes \subseteq Nat
    /\ MaxLen \in Nat

VARIABLES buf, readerIndex, writerIndex,
          outer,      \* bytes read by the waiting levels of readFrom
          got,        \* bytes the current or last readFrom call put in buf
          out,        \* the bytes the last get, getInt or writeTo handed out
          ret,        \* what the last readFrom or writeTo returned
          overrun     \* an append has copied past the end of buf

vars == <<buf, readerIndex, writerIndex, outer, got, out, ret, overrun>>

BUFFER_SIZE_MAXIMUM == -2

(* What read and write return for an error. *)
IO_ERROR == -1

frontBytes == readerIndex
readableBytes == writerIndex - readerIndex
writableBytes == Len(buf) - writerIndex

(* The byte strings of length n. *)
Bytes(n) == [1..n -> Byte]

Init ==
    /\ buf = [i \in 1..InitSize |-> Zero]
    /\ readerIndex = 0
    /\ writerIndex = 0
    /\ outer = 0
    /\ got = 0
    /\ out = <<>>
    /\ ret = 0
    /\ overrun = FALSE

-----------------------------------------------------------------------------
(* Space management.                                                       *)

(* resize(2 * capacity), which keeps the old bytes and adds zeroes. *)
Doubled(b) ==
    [i \in 1..(2 * Len(b)) |-> IF i <= Len(b) THEN b[i] ELSE Zero]

(* doubleSize leaves a vector that has reached MAXSIZE as it is. *)
Grown(b) == IF Len(b) < MAXSIZE THEN Doubled(b) ELSE b

(* Mutant: the copy is one character short. *)
MutVacatedShort ==
    [i \in 1..Len(buf) |->
        IF i < readableBytes THEN buf[readerIndex + i] ELSE buf[i]]

(* vacate: std::copy moves the readable bytes to the front and leaves the  *)
(* characters behind them as they were.                                    *)
Vacated ==
    [i \in 1..Len(buf) |->
        IF i <= readableBytes THEN buf[readerIndex + i] ELSE buf[i]]

(* Mutant: the front space is not counted. *)
MutCrampedNoFront(len) == len > writableBytes

(* makeSpace doubles once, without moving the bytes to the front, when the *)
(* space before and behind them is too small together, and vacates         *)
(* otherwise.                                                              *)
Cramped(len) == len > writableBytes + frontBytes

(* The copy of data to position at + 1; what lies past the end is lost to  *)
(* the model.                                                              *)
Written(b, at, data) ==
    [i \in 1..Len(b) |->
        IF i > at /\ i <= at + Len(data) THEN data[i - at] ELSE b[i]]

(* A caller may use the space operations itself. *)
vacate ==
    /\ buf' = Vacated
    /\ readerIndex' = 0
    /\ writerIndex' = readableBytes
    /\ UNCHANGED <<outer, got, out, ret, overrun>>

doubleSize ==
    /\ buf' = Grown(buf)
    /\ UNCHANGED <<readerIndex, writerIndex, outer, got, out, ret, overrun>>

makeSpace(len) == IF Cramped(len) THEN doubleSize ELSE vacate

-----------------------------------------------------------------------------
(* Buffer -> Host/Net                                                      *)

(* num bytes leave from the front and are handed out. *)
Consume(num) ==
    /\ out' = [i \in 1..num |-> buf[readerIndex + i]]
    /\ readerIndex' = readerIndex + num
    /\ UNCHANGED <<buf, writerIndex, outer, got, overrun>>

(* The number of bytes a call that asks for len may touch. *)
Asked(len) == IF len <= readableBytes THEN len ELSE readableBytes

(* write takes num of the bytes, or fails; the reader index moves only     *)
(* past bytes that were taken.                                             *)
writeTo(len, num) ==
    /\ num \in {IO_ERROR} \cup 0..Asked(len)
    /\ Consume(IF num > 0 THEN num ELSE 0)
    /\ ret' = num

get(len) ==
    /\ Consume(Asked(len))
    /\ UNCHANGED ret

(* getInt8, getInt16, getInt32, getInt64: with too few bytes the result is *)
(* an uninitialised variable, that is, any value, and nothing is consumed. *)
getInt(len) ==
    \/ /\ readableBytes >= len
       /\ Consume(len)
       /\ UNCHANGED ret
    \/ /\ readableBytes < len
       /\ out' \in Bytes(len)
       /\ UNCHANGED <<buf, readerIndex, writerIndex, outer, got, ret, overrun>>

-----------------------------------------------------------------------------
(* Host/Net -> Buffer                                                      *)

(* Mutant: the inner result is added whatever it is. *)
MutReturnSum(r) ==
    /\ outer' = 0
    /\ ret' = outer + r

(* One level of readFrom returns r.  A waiting level adds what the inner   *)
(* call returned only when that is positive.                               *)
Return(r) ==
    /\ outer' = 0
    /\ ret' = IF outer = 0 THEN r ELSE outer + (IF r > 0 THEN r ELSE 0)

(* The vector that the read of this level finds: vacated, and doubled when *)
(* that left no space.                                                     *)
ReadArea == IF readableBytes < Len(buf) THEN Vacated ELSE Grown(Vacated)

(* Bytes this call has put in before this level's read. *)
Before == IF outer = 0 THEN 0 ELSE got

(* The buffer is full and at its maximum: nothing is read. *)
ReadFromFull ==
    /\ readableBytes = Len(ReadArea)
    /\ buf' = ReadArea
    /\ readerIndex' = 0
    /\ writerIndex' = readableBytes
    /\ got' = Before
    /\ Return(BUFFER_SIZE_MAXIMUM)
    /\ UNCHANGED <<out, overrun>>

(* read reports the end of the stream (0) or an error. *)
ReadFromNothing(num) ==
    /\ readableBytes < Len(ReadArea)
    /\ num \in {IO_ERROR, 0}
    /\ buf' = ReadArea
    /\ readerIndex' = 0
    /\ writerIndex' = readableBytes
    /\ got' = Before
    /\ Return(num)
    /\ UNCHANGED <<out, overrun>>

(* Mutant: readFrom calls itself after every read, full or not. *)
MutReadFromDataEager(data) ==
    /\ readableBytes < Len(ReadArea)
    /\ Len(data) \in 1..(Len(ReadArea) - readableBytes)
    /\ readerIndex' = 0
    /\ writerIndex' = readableBytes + Len(data)
    /\ got' = Before + Len(data)
    /\ buf' = Written(ReadArea, readableBytes, data)
    /\ outer' = outer + Len(data)
    /\ UNCHANGED <<out, ret, overrun>>

(* read delivers data.  When that fills the buffer, readFrom doubles it    *)
(* and calls itself, or reports the maximum.                               *)
ReadFromData(data) ==
    /\ readableBytes < Len(ReadArea)
    /\ Len(data) \in 1..(Len(ReadArea) - readableBytes)
    /\ readerIndex' = 0
    /\ writerIndex' = readableBytes + Len(data)
    /\ got' = Before + Len(data)
    /\ LET b == Written(ReadArea, readableBytes, data)
           full == readableBytes + Len(data) = Len(b)
       IN \/ /\ ~full
             /\ buf' = b
             /\ Return(Len(data))
          \/ /\ full
             /\ Len(b) < MAXSIZE
             /\ buf' = Grown(b)
             /\ outer' = outer + Len(data)
             /\ UNCHANGED ret
          \/ /\ full
             /\ Len(b) >= MAXSIZE
             /\ buf' = b
             /\ Return(BUFFER_SIZE_MAXIMUM)
    /\ UNCHANGED <<out, overrun>>

(* append, appendInt8 ... appendInt64: make space if there is none, copy,  *)
(* advance.  Nothing checks that makeSpace made enough.                    *)
append(data) ==
    LET len == Len(data)
        move == writableBytes < len /\ ~Cramped(len)
        b == IF writableBytes >= len THEN buf
             ELSE IF Cramped(len) THEN Grown(buf) ELSE Vacated
        at == IF move THEN readableBytes ELSE writerIndex
    IN /\ buf' = Written(b, at, data)
       /\ readerIndex' = IF move THEN 0 ELSE readerIndex
       /\ writerIndex' = at + len
       /\ overrun' = (at + len > Len(b))
       /\ UNCHANGED <<outer, got, out, ret>>

appendInt(data) == Len(data) \in IntSizes /\ append(data)

-----------------------------------------------------------------------------

Data == UNION {Bytes(n) : n \in 0..MaxLen}

Call ==
    \/ vacate
    \/ doubleSize
    \/ \E len \in 0..MaxLen : makeSpace(len)
    \/ \E len \in 0..MaxLen : get(len)
    \/ \E len \in IntSizes : getInt(len)
    \/ \E len \in 0..MaxLen, num \in {IO_ERROR} \cup 0..MaxLen : writeTo(len, num)
    \/ \E data \in Data : append(data)
    \/ \E len \in IntSizes : \E data \in Bytes(len) : appendInt(data)

readFrom ==
    \/ ReadFromFull
    \/ \E num \in {IO_ERROR, 0} : ReadFromNothing(num)
    \/ \E n \in 1..(Len(ReadArea) - readableBytes) :
          \E data \in Bytes(n) : ReadFromData(data)

(* Nothing is said of a buffer that was overrun. *)
Next ==
    /\ ~overrun
    /\ \/ outer = 0 /\ Call
       \/ readFrom

Spec == Init /\ [][Next]_vars

-----------------------------------------------------------------------------
(* Properties.                                                             *)

(* Every variable has its C++ type: the indices and counts are unsigned    *)
(* (std::size_t), ret is an ssize_t that is a count or an error code.      *)
TypeOK ==
    /\ buf \in Seq(Byte)
    /\ readerIndex \in Nat
    /\ writerIndex \in Nat
    /\ outer \in Nat
    /\ got \in Nat
    /\ out \in Seq(Byte)
    /\ ret \in Int /\ ret >= BUFFER_SIZE_MAXIMUM
    /\ overrun \in BOOLEAN

(* The two indices stay in order and inside the vector, so readableBytes   *)
(* and writableBytes never wrap around, and the vector never shrinks below *)
(* the constructor's size nor doubles past MAXSIZE.                        *)
IndexOrder ==
    /\ readerIndex <= writerIndex
    /\ ~overrun => writerIndex <= Len(buf)
    /\ Len(buf) >= InitSize
    /\ Len(buf) > InitSize => Len(buf) < 2 * MAXSIZE

(* While a level of readFrom waits for the next one the vector has been    *)
(* doubled, so the inner level always finds room and the recursion ends;   *)
(* no more is counted than was read.                                       *)
Recursion ==
    outer > 0 =>
        /\ ~overrun
        /\ writableBytes > 0
        /\ readerIndex = 0
        /\ got = outer
        /\ outer <= readableBytes

(* The inductive invariant of every sequence of calls: types, indices in   *)
(* order and inside the vector, and room for the next level of readFrom.   *)
BufferInv == TypeOK /\ IndexOrder /\ Recursion

(* The buffer is full and may not grow any more. *)
AtMaximum == writerIndex = Len(buf) /\ Len(buf) >= MAXSIZE

(* What the result of readFrom tells its caller: a positive count means    *)
(* that many bytes were read, and more only if the buffer is now full at   *)
(* its maximum (the inner level's BUFFER_SIZE_MAXIMUM is not passed on); 0 *)
(* and -1 mean that this call read nothing; BUFFER_SIZE_MAXIMUM means that *)
(* the buffer is full and cannot grow.                                     *)
ReadOutcomeStep ==
    readFrom /\ outer' = 0 =>
        /\ ret' > 0 => got' = ret' \/ (got' > ret' /\ AtMaximum')
        /\ ret' \in {0, IO_ERROR} => got' = 0
        /\ ret' = BUFFER_SIZE_MAXIMUM => AtMaximum'

ReadOutcome == [][ReadOutcomeStep]_vars

(* When append is safe: it runs past the end of the vector only for data   *)
(* longer than the free space, front included, and also longer than the    *)
(* vector itself or met by a vector that may not grow any more.            *)
AppendContractStep ==
    overrun' /\ ~overrun =>
        LET len == (writerIndex' - readerIndex') - readableBytes
        IN /\ len > writableBytes + frontBytes
           /\ len > Len(buf) \/ Len(buf) >= MAXSIZE

AppendContract == [][AppendContractStep]_vars

(* The bytes of a vector b between a reader and a writer index. *)
Between(b, r, w) == [i \in 1..(w - r) |-> IF r + i <= Len(b) THEN b[r + i] ELSE Zero]

Contents == Between(buf, readerIndex, writerIndex)

Queue == INSTANCE ByteQueue WITH
            queue <- Contents, broken <- overrun, Guaranteed <- InitSize

(* The buffer is a first-in first-out byte queue: whatever vacate,         *)
(* makeSpace, doubleSize and the recursion of readFrom move around, bytes  *)
(* come out once, in the order they went in, and there is always room for  *)
(* InitSize of them.                                                       *)
RefinesByteQueue == Queue!Spec
=============================================================================
