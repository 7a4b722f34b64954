--------------------------- MODULE Buffer_proofs ---------------------------
(***************************************************************************)
(* Proofs about pqnet::Buffer for every byte set, initial size, maximum    *)
(* and data length.                                                        *)
(***************************************************************************)
EXTENDS Buffer, SequenceTheorems, TLAPS

(* A function on 1..n is a sequence of length n (how the operators below   *)
(* build vectors).                                                         *)
LEMMA VectorSeq ==
    ASSUME NEW n \in Nat, NEW f \in [1..n -> Byte]
    PROVE  f \in Seq(Byte) /\ Len(f) = n
OBVIOUS

(* doubleSize yields a vector that is as long or twice as long and keeps   *)
(* every character.                                                        *)
LEMMA GrownProperties ==
    ASSUME NEW b \in Seq(Byte)
    PROVE  /\ Grown(b) \in Seq(Byte)
           /\ Len(Grown(b)) = IF Len(b) < MAXSIZE THEN 2 * Len(b) ELSE Len(b)
           /\ Len(Grown(b)) \in Nat /\ Len(Grown(b)) >= Len(b)
           /\ \A i \in 1..Len(b) : Grown(b)[i] = b[i]
<1>1. Len(b) \in Nat /\ \A i \in 1..Len(b) : b[i] \in Byte
  OBVIOUS
<1>2. CASE Len(b) < MAXSIZE
  <2> DEFINE d == [i \in 1..(2 * Len(b)) |-> IF i <= Len(b) THEN b[i] ELSE Zero]
  <2>1. Grown(b) = d
    BY <1>2 DEF Grown, Doubled
  <2>2. d \in [1..(2 * Len(b)) -> Byte]
    BY <1>1, BufferAssumption
  <2>3. d \in Seq(Byte) /\ Len(d) = 2 * Len(b)
    BY <1>1, <2>2, VectorSeq
  <2>4. \A i \in 1..Len(b) : d[i] = b[i]
    BY <1>1
  <2> HIDE DEF d
  <2> QED
    BY <1>1, <1>2, <2>1, <2>3, <2>4
<1>3. CASE ~(Len(b) < MAXSIZE)
  BY <1>3 DEF Grown
<1> QED
  BY <1>2, <1>3

(* vacate keeps the length and puts the readable characters first. *)
LEMMA VacatedProperties ==
    ASSUME TypeOK, readerIndex <= writerIndex, writerIndex <= Len(buf)
    PROVE  /\ Vacated \in Seq(Byte)
           /\ Len(Vacated) = Len(buf)
           /\ \A i \in 1..readableBytes : Vacated[i] = buf[readerIndex + i]
<1>1. Len(buf) \in Nat /\ \A i \in 1..Len(buf) : buf[i] \in Byte
  BY DEF TypeOK
<1>2. readableBytes \in Nat /\ readableBytes <= Len(buf)
  BY <1>1 DEF TypeOK, readableBytes
<1>3. \A i \in 1..readableBytes : readerIndex + i \in 1..Len(buf)
  BY <1>1 DEF TypeOK, readableBytes
<1>4. Vacated \in [1..Len(buf) -> Byte]
  BY <1>1, <1>2, <1>3 DEF Vacated
<1>5. \A i \in 1..readableBytes : Vacated[i] = buf[readerIndex + i]
  BY <1>1, <1>2 DEF Vacated
<1> QED
  BY <1>1, <1>4, <1>5, VectorSeq

(* The copy keeps the length, puts data behind position at as far as there *)
(* is room, and leaves the other characters alone.                         *)
LEMMA WrittenProperties ==
    ASSUME NEW b \in Seq(Byte), NEW at \in Nat, NEW data \in Seq(Byte)
    PROVE  /\ Written(b, at, data) \in Seq(Byte)
           /\ Len(Written(b, at, data)) = Len(b)
           /\ \A i \in 1..Len(b) :
                 Written(b, at, data)[i] =
                    IF i > at /\ i <= at + Len(data) THEN data[i - at] ELSE b[i]
<1>1. Len(b) \in Nat /\ \A i \in 1..Len(b) : b[i] \in Byte
  OBVIOUS
<1>2. Len(data) \in Nat /\ \A i \in 1..Len(data) : data[i] \in Byte
  OBVIOUS
<1>3. \A i \in 1..Len(b) : i > at /\ i <= at + Len(data) => i - at \in 1..Len(data)
  BY <1>1, <1>2
<1>4. Written(b, at, data) \in [1..Len(b) -> Byte]
  BY <1>1, <1>2, <1>3 DEF Written
<1>5. \A i \in 1..Len(b) :
        Written(b, at, data)[i] =
           IF i > at /\ i <= at + Len(data) THEN data[i - at] ELSE b[i]
  BY DEF Written
<1> QED
  BY <1>1, <1>4, <1>5, VectorSeq

-----------------------------------------------------------------------------
(* BufferInv is inductive.  None of its parts is alone: readFrom keeps the *)
(* indices in order only if a waiting level left room, and a waiting level *)
(* leaves room only if the indices were in order.                          *)

(* Bytes leave only from between the indices. *)
LEMMA ConsumeInv ==
    ASSUME BufferInv, ~overrun, outer = 0,
           NEW num \in Nat, num <= readableBytes, Consume(num),
           ret' \in Int, ret' >= BUFFER_SIZE_MAXIMUM
    PROVE  BufferInv'
<1>1. Len(buf) \in Nat /\ \A i \in 1..Len(buf) : buf[i] \in Byte
  BY DEF BufferInv, TypeOK
<1>2. \A i \in 1..num : readerIndex + i \in 1..Len(buf)
  BY <1>1 DEF BufferInv, TypeOK, IndexOrder, readableBytes
<1>3. out' \in [1..num -> Byte]
  BY <1>1, <1>2 DEF Consume
<1>4. out' \in Seq(Byte)
  BY <1>3, VectorSeq
<1>5. TypeOK'
  BY <1>4 DEF Consume, BufferInv, TypeOK, BUFFER_SIZE_MAXIMUM
<1>6. IndexOrder'
  BY <1>1 DEF Consume, BufferInv, TypeOK, IndexOrder, readableBytes
<1>7. Recursion'
  BY DEF Consume, Recursion
<1> QED
  BY <1>5, <1>6, <1>7 DEF BufferInv

(* The number of bytes a call touches is at most the readable ones. *)
LEMMA AskedProperties ==
    ASSUME BufferInv, NEW len \in Nat
    PROVE  Asked(len) \in Nat /\ Asked(len) <= readableBytes
BY DEF Asked, BufferInv, TypeOK, IndexOrder, readableBytes

(* Moving the readable bytes to the front keeps the invariant. *)
LEMMA VacateInv ==
    ASSUME BufferInv, ~overrun, outer = 0, vacate
    PROVE  BufferInv'
<1>1. /\ Vacated \in Seq(Byte) /\ Len(Vacated) = Len(buf)
  BY VacatedProperties DEF BufferInv, IndexOrder
<1> QED
  BY <1>1 DEF vacate, BufferInv, TypeOK, IndexOrder, Recursion, readableBytes,
              BUFFER_SIZE_MAXIMUM

(* Growing the vector keeps the invariant. *)
LEMMA DoubleSizeInv ==
    ASSUME BufferInv, ~overrun, outer = 0, doubleSize
    PROVE  BufferInv'
<1>1. buf \in Seq(Byte) /\ Len(buf) \in Nat /\ Len(buf) >= InitSize
  BY DEF BufferInv, TypeOK, IndexOrder
<1>2. /\ Grown(buf) \in Seq(Byte)
      /\ Len(Grown(buf)) = IF Len(buf) < MAXSIZE THEN 2 * Len(buf) ELSE Len(buf)
  BY <1>1, GrownProperties
<1>3. TypeOK'
  BY <1>2 DEF doubleSize, BufferInv, TypeOK, BUFFER_SIZE_MAXIMUM
<1>4. IndexOrder'
  BY <1>1, <1>2, BufferAssumption DEF doubleSize, BufferInv, TypeOK, IndexOrder
<1>5. Recursion'
  BY DEF doubleSize, Recursion
<1> QED
  BY <1>3, <1>4, <1>5 DEF BufferInv

(* append keeps the invariant: it moves the indices as far as the vector   *)
(* reaches, or sets overrun.                                               *)
LEMMA AppendInv ==
    ASSUME BufferInv, ~overrun, outer = 0, NEW data \in Seq(Byte), append(data)
    PROVE  BufferInv'
<1> DEFINE len == Len(data)
           move == writableBytes < len /\ ~Cramped(len)
           b == IF writableBytes >= len THEN buf
                ELSE IF Cramped(len) THEN Grown(buf) ELSE Vacated
           at == IF move THEN readableBytes ELSE writerIndex
<1>1. buf \in Seq(Byte) /\ Len(buf) \in Nat /\ Len(buf) >= InitSize /\ len \in Nat
  BY DEF BufferInv, TypeOK, IndexOrder
<1>2. /\ Grown(buf) \in Seq(Byte)
      /\ Len(Grown(buf)) = IF Len(buf) < MAXSIZE THEN 2 * Len(buf) ELSE Len(buf)
  BY <1>1, GrownProperties
<1>3. Vacated \in Seq(Byte) /\ Len(Vacated) = Len(buf)
  BY VacatedProperties DEF BufferInv, IndexOrder
<1>4. b \in Seq(Byte)
  BY <1>1, <1>2, <1>3
<1>5. Len(b) \in Nat /\ Len(b) >= InitSize /\ (Len(b) > InitSize => Len(b) < 2 * MAXSIZE)
  BY <1>1, <1>2, <1>3, BufferAssumption DEF BufferInv, IndexOrder
<1>6. at \in Nat
  BY DEF BufferInv, TypeOK, IndexOrder, readableBytes
<1>7. Written(b, at, data) \in Seq(Byte) /\ Len(Written(b, at, data)) = Len(b)
  BY <1>4, <1>6, WrittenProperties
<1>8. /\ buf' = Written(b, at, data)
      /\ readerIndex' = IF move THEN 0 ELSE readerIndex
      /\ writerIndex' = at + len
      /\ overrun' = (at + len > Len(b))
      /\ UNCHANGED <<outer, got, out, ret>>
  BY DEF append
<1> HIDE DEF b, at, move, len
<1>9. TypeOK'
  BY <1>1, <1>5, <1>6, <1>7, <1>8 DEF BufferInv, TypeOK, BUFFER_SIZE_MAXIMUM
<1>10. readerIndex' <= writerIndex'
  BY <1>1, <1>6, <1>8 DEF at, BufferInv, TypeOK, IndexOrder
<1>11. IndexOrder'
  <2>1. ~overrun' => ~(at + len > Len(b))
    BY <1>8, Zenon
  <2>2. ~overrun' => writerIndex' <= Len(buf')
    BY <1>1, <1>5, <1>6, <1>7, <1>8, <2>1
  <2> QED
    BY <1>5, <1>7, <1>8, <1>10, <2>2 DEF IndexOrder
<1>12. Recursion'
  BY <1>8 DEF Recursion
<1> QED
  BY <1>9, <1>11, <1>12 DEF BufferInv

(* What a level of readFrom finds: a vector at least as long, whose        *)
(* readable characters now come first.                                     *)
LEMMA ReadAreaProperties ==
    ASSUME BufferInv, ~overrun
    PROVE  /\ ReadArea \in Seq(Byte)
           /\ Len(ReadArea) = IF readableBytes = Len(buf) /\ Len(buf) < MAXSIZE
                              THEN 2 * Len(buf) ELSE Len(buf)
           /\ Len(ReadArea) >= InitSize
           /\ Len(ReadArea) > InitSize => Len(ReadArea) < 2 * MAXSIZE
           /\ readableBytes \in Nat /\ readableBytes <= Len(ReadArea)
           /\ \A i \in 1..readableBytes : ReadArea[i] = buf[readerIndex + i]
<1>1. /\ buf \in Seq(Byte) /\ Len(buf) \in Nat /\ Len(buf) >= InitSize
      /\ Len(buf) > InitSize => Len(buf) < 2 * MAXSIZE
      /\ readableBytes \in Nat /\ readableBytes <= Len(buf)
  BY DEF BufferInv, TypeOK, IndexOrder, readableBytes
<1>2. /\ Vacated \in Seq(Byte) /\ Len(Vacated) = Len(buf)
      /\ \A i \in 1..readableBytes : Vacated[i] = buf[readerIndex + i]
  BY VacatedProperties DEF BufferInv, IndexOrder
<1>3. /\ Grown(Vacated) \in Seq(Byte)
      /\ Len(Grown(Vacated)) = IF Len(buf) < MAXSIZE THEN 2 * Len(buf) ELSE Len(buf)
      /\ \A i \in 1..Len(buf) : Grown(Vacated)[i] = Vacated[i]
  BY <1>2, GrownProperties
<1>4. CASE readableBytes < Len(buf)
  BY <1>1, <1>2, <1>4 DEF ReadArea
<1>5. CASE readableBytes = Len(buf)
  <2>1. ReadArea = Grown(Vacated)
    BY <1>1, <1>5 DEF ReadArea
  <2>2. \A i \in 1..readableBytes : Grown(Vacated)[i] = buf[readerIndex + i]
    BY <1>1, <1>2, <1>3, <1>5
  <2> QED
    BY <1>1, <1>3, <1>5, <2>1, <2>2, BufferAssumption
<1> QED
  BY <1>1, <1>4, <1>5

(* One level of readFrom keeps the invariant, whatever read returns. *)
LEMMA ReadFromInv ==
    ASSUME BufferInv, ~overrun, readFrom
    PROVE  BufferInv'
<1>1. /\ ReadArea \in Seq(Byte) /\ Len(ReadArea) \in Nat
      /\ Len(ReadArea) >= InitSize
      /\ Len(ReadArea) > InitSize => Len(ReadArea) < 2 * MAXSIZE
      /\ readableBytes \in Nat /\ readableBytes <= Len(ReadArea)
  BY ReadAreaProperties
<1>2. outer \in Nat /\ got \in Nat /\ Before \in Nat /\ Before = outer
      /\ outer <= readableBytes
  BY <1>1 DEF Before, BufferInv, TypeOK, Recursion
<1>3. CASE \/ ReadFromFull
          \/ \E num \in {IO_ERROR, 0} : ReadFromNothing(num)
  <2>1. /\ buf' = ReadArea /\ readerIndex' = 0 /\ writerIndex' = readableBytes
        /\ got' = Before /\ outer' = 0 /\ UNCHANGED <<out, overrun>>
    BY <1>3 DEF ReadFromFull, ReadFromNothing, Return
  <2>2. ret' \in Int /\ ret' >= BUFFER_SIZE_MAXIMUM
    BY <1>2, <1>3 DEF ReadFromFull, ReadFromNothing, Return, IO_ERROR,
                      BUFFER_SIZE_MAXIMUM
  <2>3. TypeOK'
    BY <1>1, <1>2, <2>1, <2>2 DEF BufferInv, TypeOK, BUFFER_SIZE_MAXIMUM
  <2>4. IndexOrder'
    BY <1>1, <2>1 DEF IndexOrder
  <2>5. Recursion'
    BY <2>1 DEF Recursion
  <2> QED
    BY <2>3, <2>4, <2>5 DEF BufferInv
<1>4. ASSUME NEW n \in 1..(Len(ReadArea) - readableBytes),
             NEW data \in Bytes(n), ReadFromData(data)
      PROVE  BufferInv'
  <2> DEFINE b == Written(ReadArea, readableBytes, data)
  <2>1. data \in Seq(Byte) /\ Len(data) = n /\ n \in Nat \ {0}
        /\ readableBytes + n <= Len(ReadArea)
    BY <1>1, VectorSeq DEF Bytes
  <2>2. b \in Seq(Byte) /\ Len(b) = Len(ReadArea)
    BY <1>1, <2>1, WrittenProperties
  <2>3. /\ Grown(b) \in Seq(Byte)
        /\ Len(Grown(b)) = IF Len(b) < MAXSIZE THEN 2 * Len(b) ELSE Len(b)
    BY <2>2, GrownProperties
  <2>4. /\ readerIndex' = 0 /\ writerIndex' = readableBytes + n
        /\ got' = outer + n /\ UNCHANGED <<out, overrun>>
    BY <1>2, <1>4, <2>1 DEF ReadFromData
  <2>5. \/ /\ buf' = b
           /\ outer' = 0
           /\ ret' \in Int /\ ret' >= BUFFER_SIZE_MAXIMUM
        \/ /\ readableBytes + n = Len(b)
           /\ Len(b) < MAXSIZE
           /\ buf' = Grown(b)
           /\ outer' = outer + n
           /\ UNCHANGED ret
    <3>1. \/ buf' = b /\ Return(n)
          \/ buf' = b /\ Return(BUFFER_SIZE_MAXIMUM)
          \/ /\ readableBytes + n = Len(b)
             /\ Len(b) < MAXSIZE
             /\ buf' = Grown(b)
             /\ outer' = outer + n
             /\ UNCHANGED ret
      BY <1>4, <2>1 DEF ReadFromData
    <3> HIDE DEF b
    <3> QED
      BY <1>2, <2>1, <3>1 DEF Return, BUFFER_SIZE_MAXIMUM
  <2> HIDE DEF b
  <2>6. TypeOK'
    BY <1>1, <1>2, <2>1, <2>2, <2>3, <2>4, <2>5
       DEF BufferInv, TypeOK, BUFFER_SIZE_MAXIMUM
  <2>7. IndexOrder'
    BY <1>1, <2>1, <2>2, <2>3, <2>4, <2>5, BufferAssumption DEF IndexOrder
  <2>8. Recursion'
    BY <1>1, <1>2, <2>1, <2>2, <2>3, <2>4, <2>5, BufferAssumption
       DEF Recursion, writableBytes, readableBytes
  <2> QED
    BY <2>6, <2>7, <2>8 DEF BufferInv
<1> QED
  BY <1>3, <1>4 DEF readFrom

(* Every call of a buffer that is not in readFrom keeps the invariant. *)
LEMMA CallInv ==
    ASSUME BufferInv, ~overrun, outer = 0, Call
    PROVE  BufferInv'
<1>1. CASE vacate
  BY <1>1, VacateInv
<1>2. CASE doubleSize
  BY <1>2, DoubleSizeInv
<1>3. CASE \E len \in 0..MaxLen : makeSpace(len)
  BY <1>3, VacateInv, DoubleSizeInv DEF makeSpace
<1>4. ASSUME NEW len \in 0..MaxLen, get(len)
      PROVE  BufferInv'
  <2>1. ret' \in Int /\ ret' >= BUFFER_SIZE_MAXIMUM
    BY <1>4 DEF get, BufferInv, TypeOK
  <2>2. len \in Nat
    BY BufferAssumption
  <2> QED
    BY <1>4, <2>1, <2>2, AskedProperties, ConsumeInv DEF get
<1>5. ASSUME NEW len \in IntSizes, getInt(len)
      PROVE  BufferInv'
  <2>1. len \in Nat
    BY BufferAssumption
  <2>2. CASE readableBytes >= len
    <3>1. Consume(len) /\ UNCHANGED ret
      BY <1>5, <2>1, <2>2 DEF getInt, BufferInv, TypeOK, IndexOrder, readableBytes
    <3>2. ret' \in Int /\ ret' >= BUFFER_SIZE_MAXIMUM
      BY <3>1 DEF BufferInv, TypeOK
    <3> QED
      BY <2>1, <2>2, <3>1, <3>2, ConsumeInv
         DEF BufferInv, TypeOK, IndexOrder, readableBytes
  <2>3. CASE ~(readableBytes >= len)
    <3>1. /\ out' \in Bytes(len)
          /\ UNCHANGED <<buf, readerIndex, writerIndex, outer, got, ret, overrun>>
      BY <1>5, <2>3 DEF getInt
    <3>2. out' \in Seq(Byte)
      BY <2>1, <3>1, VectorSeq DEF Bytes
    <3> QED
      BY <3>1, <3>2 DEF BufferInv, TypeOK, IndexOrder, Recursion, readableBytes,
                        writableBytes, BUFFER_SIZE_MAXIMUM
  <2> QED
    BY <2>2, <2>3
<1>6. ASSUME NEW len \in 0..MaxLen, NEW num \in {IO_ERROR} \cup 0..MaxLen,
             writeTo(len, num)
      PROVE  BufferInv'
  <2> DEFINE taken == IF num > 0 THEN num ELSE 0
  <2>1. len \in Nat /\ num \in Int /\ num >= -1
    BY BufferAssumption DEF IO_ERROR
  <2>2. Asked(len) \in Nat /\ Asked(len) <= readableBytes
    BY <2>1, AskedProperties
  <2>3. taken \in Nat /\ taken <= readableBytes
    BY <1>6, <2>1, <2>2 DEF writeTo, IO_ERROR, BufferInv, TypeOK, IndexOrder,
                            readableBytes
  <2>4. Consume(taken) /\ ret' = num
    BY <1>6 DEF writeTo
  <2>5. ret' \in Int /\ ret' >= BUFFER_SIZE_MAXIMUM
    BY <2>1, <2>4 DEF BUFFER_SIZE_MAXIMUM
  <2> QED
    BY <2>3, <2>4, <2>5, ConsumeInv
<1>7. ASSUME NEW data \in Data, append(data)
      PROVE  BufferInv'
  <2>1. data \in Seq(Byte)
    BY BufferAssumption, VectorSeq DEF Data, Bytes
  <2> QED
    BY <1>7, <2>1, AppendInv
<1>8. ASSUME NEW len \in IntSizes, NEW data \in Bytes(len), appendInt(data)
      PROVE  BufferInv'
  <2>1. data \in Seq(Byte)
    BY BufferAssumption, VectorSeq DEF Bytes
  <2> QED
    BY <1>8, <2>1, AppendInv DEF appendInt
<1> QED
  BY <1>1, <1>2, <1>3, <1>4, <1>5, <1>6, <1>7, <1>8 DEF Call

(* For every byte set and every size: the indices of a Buffer stay in      *)
(* order and inside the vector until an append overruns it, the vector     *)
(* never doubles past MAXSIZE, and each inner level of readFrom finds      *)
(* room, whatever sequence of calls is made and whatever read returns.     *)
THEOREM BufferInvariant == Spec => []BufferInv
<1>1. Init => BufferInv
  <2> SUFFICES ASSUME Init PROVE BufferInv
    OBVIOUS
  <2>1. buf \in [1..InitSize -> Byte] /\ InitSize \in Nat
    BY BufferAssumption DEF Init
  <2>2. buf \in Seq(Byte) /\ Len(buf) = InitSize
    BY <2>1, VectorSeq
  <2>3. TypeOK
    <3>1. out \in Seq(Byte)
      BY EmptySeq DEF Init
    <3>2. overrun \in BOOLEAN
      BY Zenon DEF Init
    <3>3. readerIndex = 0 /\ writerIndex = 0 /\ outer = 0 /\ got = 0 /\ ret = 0
      BY Zenon DEF Init
    <3> QED
      BY <2>2, <3>1, <3>2, <3>3 DEF TypeOK, BUFFER_SIZE_MAXIMUM
  <2>4. IndexOrder
    BY <2>1, <2>2 DEF Init, IndexOrder
  <2>5. Recursion
    BY DEF Init, Recursion
  <2> QED
    BY <2>3, <2>4, <2>5 DEF BufferInv
<1>2. BufferInv /\ [Next]_vars => BufferInv'
  <2> SUFFICES ASSUME BufferInv, [Next]_vars PROVE BufferInv'
    OBVIOUS
  <2>1. CASE Next
    BY <2>1, CallInv, ReadFromInv DEF Next
  <2>2. CASE UNCHANGED vars
    BY <2>2 DEF vars, BufferInv, TypeOK, IndexOrder, Recursion, readableBytes,
                writableBytes
  <2> QED
    BY <2>1, <2>2
<1> QED
  BY <1>1, <1>2, PTL DEF Spec
-----------------------------------------------------------------------------
(* Every level of readFrom that returns to the caller tells the truth. *)
LEMMA ReadFromOutcome ==
    ASSUME BufferInv, ~overrun, readFrom, outer' = 0
    PROVE  /\ ret' > 0 => got' = ret' \/ (got' > ret' /\ AtMaximum')
           /\ ret' \in {0, IO_ERROR} => got' = 0
           /\ ret' = BUFFER_SIZE_MAXIMUM => AtMaximum'
<1>1. /\ ReadArea \in Seq(Byte) /\ Len(ReadArea) \in Nat
      /\ readableBytes \in Nat /\ readableBytes <= Len(ReadArea)
      /\ readableBytes = Len(ReadArea) => Len(ReadArea) >= MAXSIZE
  <2>1. /\ Len(buf) \in Nat \ {0} /\ MAXSIZE \in Nat /\ buf \in Seq(Byte)
        /\ readableBytes \in Nat
    BY BufferAssumption DEF BufferInv, TypeOK, IndexOrder, readableBytes
  <2> QED
    BY <2>1, ReadAreaProperties
<1>2. outer \in Nat /\ got \in Nat /\ Before = outer
  BY DEF Before, BufferInv, TypeOK, Recursion
<1>3. CASE ReadFromFull
  <2>1. AtMaximum'
    BY <1>1, <1>3 DEF ReadFromFull, AtMaximum
  <2>2. got' = outer /\ Return(BUFFER_SIZE_MAXIMUM)
    BY <1>2, <1>3 DEF ReadFromFull
  <2> QED
    BY <1>2, <2>1, <2>2 DEF Return, BUFFER_SIZE_MAXIMUM, IO_ERROR
<1>4. ASSUME NEW num \in {IO_ERROR, 0}, ReadFromNothing(num)
      PROVE  /\ ret' > 0 => got' = ret'
             /\ ret' \in {0, IO_ERROR} => got' = 0
             /\ ret' # BUFFER_SIZE_MAXIMUM
  <2>1. got' = outer /\ Return(num)
    BY <1>2, <1>4 DEF ReadFromNothing
  <2> QED
    BY <1>2, <2>1 DEF Return, BUFFER_SIZE_MAXIMUM, IO_ERROR
<1>5. ASSUME NEW n \in 1..(Len(ReadArea) - readableBytes),
             NEW data \in Bytes(n), ReadFromData(data)
      PROVE  /\ ret' > 0 => got' = ret' \/ (got' > ret' /\ AtMaximum')
             /\ ret' \in {0, IO_ERROR} => got' = 0
             /\ ret' = BUFFER_SIZE_MAXIMUM => AtMaximum'
  <2> DEFINE b == Written(ReadArea, readableBytes, data)
  <2>1. data \in Seq(Byte) /\ Len(data) = n /\ n \in Nat \ {0}
    BY <1>1, VectorSeq DEF Bytes
  <2>2. b \in Seq(Byte) /\ Len(b) = Len(ReadArea)
    BY <1>1, <2>1, WrittenProperties
  <2>3. got' = outer + n /\ writerIndex' = readableBytes + n
    BY <1>2, <1>5, <2>1 DEF ReadFromData
  <2>4. \/ Return(n)
        \/ /\ Return(BUFFER_SIZE_MAXIMUM)
           /\ buf' = b /\ readableBytes + n = Len(b) /\ Len(b) >= MAXSIZE
        \/ outer' = outer + n
    BY <1>5, <2>1 DEF ReadFromData
  <2> HIDE DEF b
  <2>5. CASE Return(n)
    BY <1>2, <2>1, <2>3, <2>5 DEF Return, BUFFER_SIZE_MAXIMUM, IO_ERROR
  <2>6. CASE /\ Return(BUFFER_SIZE_MAXIMUM)
             /\ buf' = b /\ readableBytes + n = Len(b) /\ Len(b) >= MAXSIZE
    <3>1. AtMaximum'
      BY <2>3, <2>6 DEF AtMaximum
    <3> QED
      BY <1>2, <2>1, <2>3, <2>6, <3>1 DEF Return, BUFFER_SIZE_MAXIMUM, IO_ERROR
  <2>7. CASE outer' = outer + n
    BY <1>2, <2>1, <2>7
  <2> QED
    BY <2>4, <2>5, <2>6, <2>7
<1> QED
  BY <1>3, <1>4, <1>5 DEF readFrom

(* Whatever read returns at each level of the recursion, the result of     *)
(* readFrom means what TcpConnection::handleRead takes it to mean.         *)
THEOREM ReadOutcomeHolds == Spec => ReadOutcome
<1>1. BufferInv /\ [Next]_vars => [ReadOutcomeStep]_vars
  BY ReadFromOutcome DEF Next, ReadOutcomeStep
<1>2. Spec => []BufferInv
  BY BufferInvariant
<1> QED
  BY <1>1, <1>2, PTL DEF Spec, ReadOutcome

(* An append runs past the vector only outside the contract. *)
LEMMA AppendWithinContract ==
    ASSUME BufferInv, ~overrun, outer = 0, NEW data \in Seq(Byte), append(data),
           overrun'
    PROVE  /\ Len(data) > writableBytes + frontBytes
           /\ Len(data) > Len(buf) \/ Len(buf) >= MAXSIZE
           /\ (writerIndex' - readerIndex') - readableBytes = Len(data)
<1> DEFINE len == Len(data)
           move == writableBytes < len /\ ~Cramped(len)
           b == IF writableBytes >= len THEN buf
                ELSE IF Cramped(len) THEN Grown(buf) ELSE Vacated
           at == IF move THEN readableBytes ELSE writerIndex
<1>1. /\ buf \in Seq(Byte) /\ Len(buf) \in Nat /\ len \in Nat
      /\ readerIndex \in Nat /\ writerIndex \in Nat
      /\ readerIndex <= writerIndex /\ writerIndex <= Len(buf)
      /\ MAXSIZE \in Nat
  BY BufferAssumption DEF BufferInv, TypeOK, IndexOrder
<1>2. Len(Grown(buf)) = IF Len(buf) < MAXSIZE THEN 2 * Len(buf) ELSE Len(buf)
  BY <1>1, GrownProperties
<1>3. Len(Vacated) = Len(buf)
  BY VacatedProperties DEF BufferInv, IndexOrder
<1>4. /\ readerIndex' = IF move THEN 0 ELSE readerIndex
      /\ writerIndex' = at + len
      /\ overrun' = (at + len > Len(b))
  BY DEF append
<1>5. at + len > Len(b)
  BY <1>4, Zenon
<1>6. Cramped(len)
  <2>1. CASE writableBytes >= len
    BY <1>1, <1>5, <2>1 DEF writableBytes
  <2>2. CASE move
    BY <1>1, <1>3, <1>5, <2>2 DEF writableBytes, readableBytes, Cramped, frontBytes
  <2> QED
    BY <1>1, <2>1, <2>2 DEF writableBytes
<1>7. len > writableBytes + frontBytes /\ writableBytes < len
  BY <1>1, <1>6 DEF Cramped, writableBytes, frontBytes
<1>8. len > Len(buf) \/ Len(buf) >= MAXSIZE
  BY <1>1, <1>2, <1>5, <1>6, <1>7 DEF writableBytes
<1>9. (writerIndex' - readerIndex') - readableBytes = len
  BY <1>1, <1>4 DEF readableBytes
<1> QED
  BY <1>7, <1>8, <1>9

(* append and appendInt8 ... appendInt64 stay inside the vector whenever   *)
(* the data fits in the free space, or is no longer than a vector that may *)
(* still double: the precondition every caller has to meet.                *)
THEOREM AppendContractHolds == Spec => AppendContract
<1>1. BufferInv /\ [Next]_vars => [AppendContractStep]_vars
  <2> SUFFICES ASSUME BufferInv, Next, overrun', ~overrun
               PROVE  AppendContractStep
    BY DEF AppendContractStep, vars
  <2>1. \/ outer = 0 /\ \E data \in Data : append(data)
        \/ outer = 0 /\ \E len \in IntSizes : \E data \in Bytes(len) : append(data)
    BY DEF Next, Call, vacate, doubleSize, makeSpace, get, getInt, writeTo, appendInt,
           Consume, readFrom, ReadFromFull, ReadFromNothing, ReadFromData
  <2>2. PICK data \in Seq(Byte) : outer = 0 /\ append(data)
    BY <2>1, BufferAssumption, VectorSeq DEF Data, Bytes
  <2> QED
    BY <2>2, AppendWithinContract DEF AppendContractStep
<1>2. Spec => []BufferInv
  BY BufferInvariant
<1> QED
  BY <1>1, <1>2, PTL DEF Spec, AppendContract
-----------------------------------------------------------------------------
(* Refinement of ByteQueue.                                                *)

(* The bytes between two indices form a sequence of the right length. *)
LEMMA BetweenProperties ==
    ASSUME NEW b \in Seq(Byte), NEW r \in Nat, NEW w \in Nat, r <= w
    PROVE  /\ Len(Between(b, r, w)) = w - r
           /\ \A i \in 1..(w - r) :
                 r + i <= Len(b) => Between(b, r, w)[i] = b[r + i]
           /\ Between(b, r, w) \in Seq(Byte)
<1>1. Len(b) \in Nat /\ \A i \in 1..Len(b) : b[i] \in Byte
  OBVIOUS
<1>2. w - r \in Nat
  OBVIOUS
<1>3. Between(b, r, w) \in [1..(w - r) -> Byte]
  BY <1>1, <1>2, BufferAssumption DEF Between
<1>4. \A i \in 1..(w - r) : r + i <= Len(b) => Between(b, r, w)[i] = b[r + i]
  BY DEF Between
<1> QED
  BY <1>2, <1>3, <1>4, VectorSeq

(* Between indices that lie inside the vector are its own characters. *)
LEMMA BetweenInside ==
    ASSUME NEW b \in Seq(Byte), NEW r \in Nat, NEW w \in Nat, r <= w, w <= Len(b)
    PROVE  /\ Len(Between(b, r, w)) = w - r
           /\ \A i \in 1..(w - r) : Between(b, r, w)[i] = b[r + i]
<1>1. \A i \in 1..(w - r) : r + i <= Len(b)
  OBVIOUS
<1> QED
  BY <1>1, BetweenProperties

(* Two vectors hold the same queue when the readable characters agree. *)
LEMMA SameContents ==
    ASSUME NEW b \in Seq(Byte), NEW r \in Nat, NEW w \in Nat, r <= w, w <= Len(b),
           NEW c \in Seq(Byte), NEW q \in Nat, q + (w - r) <= Len(c),
           \A i \in 1..(w - r) : c[q + i] = b[r + i]
    PROVE  Between(c, q, q + (w - r)) = Between(b, r, w)
<1>1. (q + (w - r)) - q = w - r
  OBVIOUS
<1>2. \A i \in 1..(w - r) : q + i <= Len(c) /\ r + i <= Len(b)
  OBVIOUS
<1> QED
  BY <1>1, <1>2 DEF Between

(* Bytes taken from the front leave the queue in order. *)
LEMMA ConsumeRefines ==
    ASSUME BufferInv, ~overrun, NEW num \in Nat, num <= readableBytes, Consume(num)
    PROVE  Queue!Take
<1>1. /\ buf \in Seq(Byte) /\ Len(buf) \in Nat
      /\ readerIndex \in Nat /\ writerIndex \in Nat
      /\ readerIndex <= writerIndex /\ writerIndex <= Len(buf)
  BY DEF BufferInv, TypeOK, IndexOrder
<1>2. /\ buf' = buf /\ writerIndex' = writerIndex /\ overrun' = overrun
      /\ readerIndex' = readerIndex + num
      /\ out' = [i \in 1..num |-> buf[readerIndex + i]]
  BY DEF Consume
<1>3. readerIndex + num \in Nat /\ readerIndex + num <= writerIndex
  BY <1>1 DEF readableBytes
<1>4. /\ Len(Contents) = writerIndex - readerIndex
      /\ \A i \in 1..(writerIndex - readerIndex) : Contents[i] = buf[readerIndex + i]
  BY <1>1, BetweenInside DEF Contents
<1>5. /\ Len(Contents') = writerIndex - (readerIndex + num)
      /\ \A i \in 1..(writerIndex - (readerIndex + num)) :
            Contents'[i] = buf[readerIndex + num + i]
  <2>1. Contents' = Between(buf, readerIndex + num, writerIndex)
    BY <1>2 DEF Contents
  <2> QED
    BY <1>1, <1>3, <2>1, BetweenInside
<1>6. out' \in [1..num -> Byte]
  BY <1>1, <1>2, <1>3
<1>7. Len(out') = num
  BY <1>6, VectorSeq
<1>8. Len(Contents) = Len(out') + Len(Contents')
  BY <1>1, <1>4, <1>5, <1>7
<1>9. \A i \in 1..Len(out') : out'[i] = Contents[i]
  BY <1>1, <1>2, <1>3, <1>4, <1>7
<1>10. \A i \in 1..Len(Contents') : Contents'[i] = Contents[Len(out') + i]
  <2> SUFFICES ASSUME NEW i \in 1..Len(Contents')
               PROVE  Contents'[i] = Contents[num + i]
    BY <1>7
  <2>1. i \in 1..(writerIndex - (readerIndex + num))
    BY <1>5
  <2>2. /\ num + i \in 1..(writerIndex - readerIndex)
        /\ readerIndex + (num + i) = readerIndex + num + i
    BY <1>1, <2>1
  <2> QED
    BY <1>4, <1>5, <2>1, <2>2
<1> QED
  BY <1>2, <1>8, <1>9, <1>10 DEF Queue!Take

(* Moving the bytes around is invisible. *)
LEMMA SpaceRefines ==
    ASSUME BufferInv, ~overrun, vacate \/ doubleSize
    PROVE  UNCHANGED Queue!vars
<1>1. /\ buf \in Seq(Byte) /\ Len(buf) \in Nat
      /\ readerIndex \in Nat /\ writerIndex \in Nat
      /\ readerIndex <= writerIndex /\ writerIndex <= Len(buf)
  BY DEF BufferInv, TypeOK, IndexOrder
<1>2. CASE vacate
  <2>1. /\ Vacated \in Seq(Byte) /\ Len(Vacated) = Len(buf)
        /\ \A i \in 1..readableBytes : Vacated[i] = buf[readerIndex + i]
    BY VacatedProperties DEF BufferInv, IndexOrder
  <2>2. Between(Vacated, 0, 0 + (writerIndex - readerIndex))
           = Between(buf, readerIndex, writerIndex)
    BY <1>1, <2>1, SameContents DEF readableBytes
  <2>3. Contents' = Contents
    BY <1>1, <1>2, <2>2 DEF vacate, Contents, readableBytes
  <2> QED
    BY <1>2, <2>3 DEF vacate, Queue!vars
<1>3. CASE doubleSize
  <2>1. /\ Grown(buf) \in Seq(Byte) /\ Len(Grown(buf)) >= Len(buf)
        /\ Len(Grown(buf)) \in Nat
        /\ \A i \in 1..Len(buf) : Grown(buf)[i] = buf[i]
    BY <1>1, GrownProperties
  <2>2. Between(Grown(buf), readerIndex, readerIndex + (writerIndex - readerIndex))
           = Between(buf, readerIndex, writerIndex)
    BY <1>1, <2>1, SameContents
  <2>3. Contents' = Contents
    BY <1>1, <1>3, <2>2 DEF doubleSize, Contents
  <2> QED
    BY <1>3, <2>3 DEF doubleSize, Queue!vars
<1> QED
  BY <1>2, <1>3
(* A vector d that holds the readable bytes of b from position q on, up to *)
(* a writer index e behind them, holds an extension of the queue.          *)
LEMMA WrittenRefines ==
    ASSUME NEW b \in Seq(Byte), NEW r \in Nat, NEW w \in Nat, r <= w, w <= Len(b),
           NEW d \in Seq(Byte), NEW q \in Nat, NEW e \in Nat,
           q + (w - r) <= e, q + (w - r) <= Len(d),
           \A i \in 1..(w - r) : d[q + i] = b[r + i]
    PROVE  Queue!Extends(Between(d, q, e), Between(b, r, w))
<1>1. q <= e /\ w - r \in Nat /\ w - r <= e - q /\ Len(d) \in Nat
  OBVIOUS
<1>2. /\ Len(Between(d, q, e)) = e - q
      /\ \A i \in 1..(e - q) : q + i <= Len(d) => Between(d, q, e)[i] = d[q + i]
  BY <1>1, BetweenProperties
<1>3. /\ Len(Between(b, r, w)) = w - r
      /\ \A i \in 1..(w - r) : Between(b, r, w)[i] = b[r + i]
  BY BetweenInside
<1>4. \A i \in 1..(w - r) : Between(d, q, e)[i] = Between(b, r, w)[i]
  <2> SUFFICES ASSUME NEW i \in 1..(w - r)
               PROVE  Between(d, q, e)[i] = Between(b, r, w)[i]
    OBVIOUS
  <2>1. i \in 1..(e - q) /\ q + i <= Len(d)
    BY <1>1
  <2> QED
    BY <1>2, <1>3, <2>1
<1>5. Len(Between(d, q, e)) >= Len(Between(b, r, w))
  BY <1>1, <1>2, <1>3
<1> QED
  BY <1>3, <1>4, <1>5 DEF Queue!Extends

(* append adds at the back of the queue or ends the promise. *)
LEMMA AppendRefines ==
    ASSUME BufferInv, ~overrun, outer = 0, NEW data \in Seq(Byte), append(data)
    PROVE  Queue!Put \/ Queue!Break
<1> DEFINE len == Len(data)
           move == writableBytes < len /\ ~Cramped(len)
           b == IF writableBytes >= len THEN buf
                ELSE IF Cramped(len) THEN Grown(buf) ELSE Vacated
           at == IF move THEN readableBytes ELSE writerIndex
           q == IF move THEN 0 ELSE readerIndex
           n == writerIndex - readerIndex
<1>1. /\ buf \in Seq(Byte) /\ Len(buf) \in Nat /\ len \in Nat
      /\ readerIndex \in Nat /\ writerIndex \in Nat
      /\ readerIndex <= writerIndex /\ writerIndex <= Len(buf)
      /\ n \in Nat /\ n = readableBytes
  BY DEF BufferInv, TypeOK, IndexOrder, readableBytes
<1>2. /\ Grown(buf) \in Seq(Byte) /\ Len(Grown(buf)) >= Len(buf)
      /\ Len(Grown(buf)) \in Nat
      /\ \A i \in 1..Len(buf) : Grown(buf)[i] = buf[i]
  BY <1>1, GrownProperties
<1>3. /\ Vacated \in Seq(Byte) /\ Len(Vacated) = Len(buf)
      /\ \A i \in 1..n : Vacated[i] = buf[readerIndex + i]
  BY <1>1, VacatedProperties DEF BufferInv, IndexOrder
<1>4. /\ b \in Seq(Byte) /\ q \in Nat /\ at \in Nat /\ Len(b) \in Nat
      /\ at = q + n /\ at <= Len(b)
      /\ \A i \in 1..n : b[q + i] = buf[readerIndex + i]
  <2>1. CASE move
    <3>1. b = Vacated /\ q = 0 /\ at = n
      BY <1>1, <2>1 DEF writableBytes
    <3> HIDE DEF b, q, at, move
    <3> QED
      BY <1>1, <1>3, <3>1
  <2>2. CASE ~move
    <3>1. q = readerIndex /\ at = writerIndex /\ (b = buf \/ b = Grown(buf))
      BY <1>1, <2>2 DEF writableBytes
    <3>2. \A i \in 1..n : readerIndex + i \in 1..Len(buf)
      BY <1>1
    <3> HIDE DEF b, q, at, move
    <3>3. \A i \in 1..n : b[q + i] = buf[readerIndex + i]
      BY <1>2, <3>1, <3>2
    <3>4. b \in Seq(Byte) /\ Len(b) \in Nat /\ Len(b) >= Len(buf)
      BY <1>1, <1>2, <3>1
    <3> QED
      BY <1>1, <3>1, <3>3, <3>4
  <2> QED
    BY <2>1, <2>2
<1>7. /\ buf' = Written(b, at, data)
      /\ readerIndex' = q
      /\ writerIndex' = at + len
      /\ UNCHANGED <<outer, got, out, ret>>
  BY DEF append
<1> HIDE DEF b, at, move, len, q, n
<1>8. /\ buf' \in Seq(Byte) /\ Len(buf') = Len(b)
      /\ \A i \in 1..n : buf'[q + i] = buf[readerIndex + i]
  <2>1. /\ buf' \in Seq(Byte) /\ Len(buf') = Len(b)
        /\ \A i \in 1..Len(b) :
              buf'[i] = IF i > at /\ i <= at + Len(data) THEN data[i - at] ELSE b[i]
    <3>1. b \in Seq(Byte) /\ at \in Nat
      BY <1>4
    <3>2. buf' = Written(b, at, data)
      BY <1>7
    <3> QED
      BY <3>1, <3>2, WrittenProperties
  <2>2. \A i \in 1..n : q + i \in 1..Len(b) /\ ~(q + i > at)
    BY <1>1, <1>4
  <2>3. \A i \in 1..n : buf'[q + i] = b[q + i]
    BY <2>1, <2>2
  <2> QED
    BY <1>4, <2>1, <2>3
<1>9. /\ Queue!Extends(Between(buf', q, at + len), Contents)
      /\ Len(Between(buf', q, at + len)) = (at + len) - q
  <2>1. n = writerIndex - readerIndex
    BY DEF n
  <2>2. /\ at + len \in Nat
        /\ q + (writerIndex - readerIndex) <= at + len
        /\ q + (writerIndex - readerIndex) <= Len(buf')
    BY <1>1, <1>4, <1>8, <2>1
  <2>3. \A i \in 1..(writerIndex - readerIndex) : buf'[q + i] = buf[readerIndex + i]
    BY <1>8, <2>1
  <2>4. buf \in Seq(Byte) /\ buf' \in Seq(Byte)
    BY <1>1, <1>8
  <2>5. /\ readerIndex \in Nat /\ writerIndex \in Nat /\ q \in Nat
        /\ readerIndex <= writerIndex /\ writerIndex <= Len(buf)
    BY <1>1, <1>4
  <2>6. Queue!Extends(Between(buf', q, at + len), Between(buf, readerIndex, writerIndex))
    BY <2>2, <2>3, <2>4, <2>5, WrittenRefines
  <2>7. Len(Between(buf', q, at + len)) = (at + len) - q
    <3>1. q <= at + len /\ at + len \in Nat
      BY <1>1, <1>4
    <3> QED
      BY <2>4, <2>5, <3>1, BetweenProperties
  <2> QED
    BY <2>6, <2>7 DEF Contents
<1>10. Contents' = Between(buf', q, at + len)
  BY <1>7 DEF Contents
<1>11. CASE ~overrun'
  <2>1. overrun' \in BOOLEAN
    BY AppendInv DEF BufferInv, TypeOK
  <2>2. overrun' = overrun
    BY <1>11, <2>1, Zenon DEF BufferInv, TypeOK
  <2> QED
    BY <1>7, <1>9, <1>10, <2>2 DEF Queue!Put
<1>12. CASE overrun'
  <2>1. overrun' = TRUE
    BY <1>12, AppendInv, Zenon DEF BufferInv, TypeOK
  <2>2. len > writableBytes + frontBytes
    BY <1>12, AppendWithinContract DEF len
  <2>3. (at + len) - q > InitSize
    BY <1>1, <1>4, <2>2, BufferAssumption
       DEF n, BufferInv, IndexOrder, writableBytes, frontBytes
  <2> QED
    BY <1>7, <1>9, <1>10, <2>1, <2>3 DEF Queue!Break
<1> QED
  BY <1>11, <1>12

(* A level of readFrom adds at the back of the queue or changes nothing. *)
LEMMA ReadFromRefines ==
    ASSUME BufferInv, ~overrun, readFrom
    PROVE  Queue!Put \/ UNCHANGED Queue!vars
<1>1. /\ buf \in Seq(Byte) /\ Len(buf) \in Nat
      /\ readerIndex \in Nat /\ writerIndex \in Nat
      /\ readerIndex <= writerIndex /\ writerIndex <= Len(buf)
      /\ readableBytes = writerIndex - readerIndex
  BY DEF BufferInv, TypeOK, IndexOrder, readableBytes
<1>2. /\ ReadArea \in Seq(Byte) /\ Len(ReadArea) \in Nat
      /\ readableBytes \in Nat /\ readableBytes <= Len(ReadArea)
      /\ \A i \in 1..readableBytes : ReadArea[i] = buf[readerIndex + i]
  BY ReadAreaProperties
<1>3. CASE \/ ReadFromFull
          \/ \E num \in {IO_ERROR, 0} : ReadFromNothing(num)
  <2>1. /\ buf' = ReadArea /\ readerIndex' = 0
        /\ writerIndex' = writerIndex - readerIndex /\ UNCHANGED <<out, overrun>>
    BY <1>1, <1>3 DEF ReadFromFull, ReadFromNothing
  <2>2. Between(ReadArea, 0, 0 + (writerIndex - readerIndex)) = Contents
    BY <1>1, <1>2, SameContents DEF Contents
  <2>3. Contents' = Contents
    BY <1>1, <2>1, <2>2 DEF Contents
  <2> QED
    BY <2>1, <2>3 DEF Queue!vars
<1>4. ASSUME NEW n \in 1..(Len(ReadArea) - readableBytes),
             NEW data \in Bytes(n), ReadFromData(data)
      PROVE  Queue!Put
  <2> DEFINE b == Written(ReadArea, readableBytes, data)
  <2>1. data \in Seq(Byte) /\ Len(data) = n /\ n \in Nat
    BY <1>2, VectorSeq DEF Bytes
  <2>2. /\ b \in Seq(Byte) /\ Len(b) = Len(ReadArea)
        /\ \A i \in 1..readableBytes : b[i] = ReadArea[i]
    <3>1. /\ b \in Seq(Byte) /\ Len(b) = Len(ReadArea)
          /\ \A i \in 1..Len(ReadArea) :
                b[i] = IF i > readableBytes /\ i <= readableBytes + Len(data)
                       THEN data[i - readableBytes] ELSE ReadArea[i]
      BY <1>2, <2>1, WrittenProperties
    <3>2. \A i \in 1..readableBytes : i \in 1..Len(ReadArea) /\ ~(i > readableBytes)
      BY <1>2
    <3> HIDE DEF b
    <3> QED
      BY <3>1, <3>2
  <2>3. /\ Grown(b) \in Seq(Byte) /\ Len(Grown(b)) >= Len(b)
        /\ \A i \in 1..Len(b) : Grown(b)[i] = b[i]
    BY <2>2, GrownProperties
  <2>4. /\ readerIndex' = 0 /\ writerIndex' = readableBytes + n
        /\ UNCHANGED <<out, overrun>>
        /\ buf' = b \/ buf' = Grown(b)
    BY <1>1, <1>4, <2>1 DEF ReadFromData
  <2> HIDE DEF b
  <2>5. buf' \in Seq(Byte) /\ Len(buf') \in Nat /\ Len(buf') >= Len(ReadArea)
    BY <1>2, <2>2, <2>3, <2>4
  <2>6. \A i \in 1..readableBytes : buf'[0 + i] = buf[readerIndex + i]
    <3> SUFFICES ASSUME NEW i \in 1..readableBytes
                 PROVE  buf'[i] = buf[readerIndex + i]
      OBVIOUS
    <3>1. i \in 1..Len(b)
      BY <1>2, <2>2
    <3> QED
      BY <1>2, <2>2, <2>3, <2>4, <3>1
  <2>7. Queue!Extends(Between(buf', 0, readableBytes + n), Contents)
    <3>1. readableBytes + n \in Nat /\ 0 + readableBytes <= readableBytes + n
          /\ 0 + readableBytes <= Len(buf')
      BY <1>2, <2>1, <2>5
    <3> QED
      BY <1>1, <2>5, <2>6, <3>1, WrittenRefines DEF Contents
  <2>8. Contents' = Between(buf', 0, readableBytes + n)
    BY <2>4 DEF Contents
  <2> QED
    BY <2>4, <2>7, <2>8 DEF Queue!Put
<1> QED
  BY <1>3, <1>4 DEF readFrom

(* Every call is a step of the queue or invisible. *)
LEMMA CallRefines ==
    ASSUME BufferInv, ~overrun, outer = 0, Call
    PROVE  \/ Queue!Put \/ Queue!Take \/ Queue!Underflow \/ Queue!Break
           \/ UNCHANGED Queue!vars
<1>1. CASE vacate \/ doubleSize \/ \E len \in 0..MaxLen : makeSpace(len)
  BY <1>1, SpaceRefines DEF makeSpace
<1>2. ASSUME NEW len \in 0..MaxLen, get(len)
      PROVE  Queue!Take
  <2>1. len \in Nat
    BY BufferAssumption
  <2> QED
    BY <1>2, <2>1, AskedProperties, ConsumeRefines DEF get
<1>3. ASSUME NEW len \in IntSizes, getInt(len)
      PROVE  Queue!Take \/ Queue!Underflow
  <2>1. len \in Nat
    BY BufferAssumption
  <2>2. CASE readableBytes >= len /\ Consume(len)
    BY <2>1, <2>2, ConsumeRefines
       DEF BufferInv, TypeOK, IndexOrder, readableBytes
  <2>3. CASE /\ readableBytes < len
             /\ out' \in Bytes(len)
             /\ UNCHANGED <<buf, readerIndex, writerIndex, outer, got, ret, overrun>>
    <3>1. Len(out') = len
      BY <2>1, <2>3, VectorSeq DEF Bytes
    <3>2. Len(Contents) = readableBytes
      BY BetweenProperties DEF BufferInv, TypeOK, IndexOrder, Contents, readableBytes
    <3>3. UNCHANGED <<Contents, overrun>>
      BY <2>3 DEF Contents
    <3> QED
      BY <2>1, <2>3, <3>1, <3>2, <3>3
         DEF Queue!Underflow, BufferInv, TypeOK, readableBytes
  <2> QED
    BY <1>3, <2>2, <2>3 DEF getInt
<1>4. ASSUME NEW len \in 0..MaxLen, NEW num \in {IO_ERROR} \cup 0..MaxLen,
             writeTo(len, num)
      PROVE  Queue!Take
  <2> DEFINE taken == IF num > 0 THEN num ELSE 0
  <2>1. len \in Nat /\ num \in Int /\ num >= -1
    BY BufferAssumption DEF IO_ERROR
  <2>2. Asked(len) \in Nat /\ Asked(len) <= readableBytes
    BY <2>1, AskedProperties
  <2>3. taken \in Nat /\ taken <= readableBytes
    BY <1>4, <2>1, <2>2 DEF writeTo, IO_ERROR, BufferInv, TypeOK, IndexOrder,
                            readableBytes
  <2>4. Consume(taken)
    BY <1>4 DEF writeTo
  <2> QED
    BY <2>3, <2>4, ConsumeRefines
<1>5. ASSUME NEW data \in Data, append(data)
      PROVE  Queue!Put \/ Queue!Break
  <2>1. data \in Seq(Byte)
    BY BufferAssumption, VectorSeq DEF Data, Bytes
  <2> QED
    BY <1>5, <2>1, AppendRefines
<1>6. ASSUME NEW len \in IntSizes, NEW data \in Bytes(len), appendInt(data)
      PROVE  Queue!Put \/ Queue!Break
  <2>1. data \in Seq(Byte)
    BY BufferAssumption, VectorSeq DEF Bytes
  <2> QED
    BY <1>6, <2>1, AppendRefines DEF appendInt
<1> QED
  BY <1>1, <1>2, <1>3, <1>4, <1>5, <1>6 DEF Call

(* A Buffer of any size is a first-in first-out byte queue with room for   *)
(* InitSize bytes: no byte is lost, repeated or reordered by growing,      *)
(* vacating or by the recursion of readFrom.                               *)
THEOREM BufferRefinesByteQueue == Spec => RefinesByteQueue
<1>1. Init => Queue!Init
  <2> SUFFICES ASSUME Init PROVE Queue!Init
    OBVIOUS
  <2>1. readerIndex = 0 /\ writerIndex = 0 /\ out = <<>> /\ overrun = FALSE
    BY Zenon DEF Init
  <2>2. Contents = <<>>
    BY <2>1 DEF Contents, Between
  <2> QED
    BY <2>1, <2>2, Zenon DEF Queue!Init
<1>2. BufferInv /\ [Next]_vars => [Queue!Next]_(Queue!vars)
  <2> SUFFICES ASSUME BufferInv, [Next]_vars
               PROVE  Queue!Next \/ UNCHANGED Queue!vars
    OBVIOUS
  <2>1. CASE Next
    BY <2>1, CallRefines, ReadFromRefines DEF Next, Queue!Next
  <2>2. CASE UNCHANGED vars
    BY <2>2 DEF vars, Queue!vars, Contents
  <2> QED
    BY <2>1, <2>2
<1>3. Spec => []BufferInv
  BY BufferInvariant
<1> QED
  BY <1>1, <1>2, <1>3, PTL DEF Spec, RefinesByteQueue, Queue!Spec
=============================================================================
