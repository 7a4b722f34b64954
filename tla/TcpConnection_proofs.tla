------------------------ MODULE TcpConnection_proofs ------------------------
(***************************************************************************)
(* Proofs about TcpConnection, for every size of the buffers and every     *)
(* bound: ConnectionInv is inductive; with it the stream that send accepts *)
(* stays intact, and unread bytes are left behind only at a full input     *)
(* buffer.                                                                 *)
(***************************************************************************)
EXTENDS TcpConnection, SequenceTheorems, TLAPS

-----------------------------------------------------------------------------
(* Sequences, as the buffers and the kernel cut and join them.             *)

(* A sequence cut after its first n elements. *)
LEMMA Cut ==
    ASSUME NEW S, NEW s \in Seq(S), NEW n \in 0..Len(s)
    PROVE  /\ SubSeq(s, 1, n) \in Seq(S) /\ Len(SubSeq(s, 1, n)) = n
           /\ SubSeq(s, n + 1, Len(s)) \in Seq(S)
           /\ Len(SubSeq(s, n + 1, Len(s))) = Len(s) - n
           /\ SubSeq(s, 1, n) \o SubSeq(s, n + 1, Len(s)) = s
  <1>1. Len(s) \in Nat /\ \A i \in 1..Len(s) : s[i] \in S
    OBVIOUS
  <1>2. SubSeq(s, 1, n) \in Seq(S) /\ Len(SubSeq(s, 1, n)) = n
    BY <1>1, SubSeqProperties
  <1>3. /\ SubSeq(s, n + 1, Len(s)) \in Seq(S)
        /\ Len(SubSeq(s, n + 1, Len(s))) = Len(s) - n
    BY <1>1, SubSeqProperties
  <1>4. SubSeq(s, 1, n) \o SubSeq(s, n + 1, Len(s)) = SubSeq(s, 1, Len(s))
    <2>1. 1 \in 1..(Len(s) + 1) /\ n \in (1 - 1)..Len(s) /\ Len(s) \in n..Len(s)
      BY <1>1
    <2>. QED
      BY <2>1, ConcatAdjacentSubSeq, Zenon
  <1>. QED
    BY <1>2, <1>3, <1>4, SubSeqFull, Zenon

(* A stream in three parts. *)
Stream(a, b, c) == a \o b \o c

(* The kernel takes p off the front of what is queued and puts it behind b. *)
LEMMA Shift ==
    ASSUME NEW S
    PROVE  \A a, b, p, q \in Seq(S) : Stream(a, b \o p, q) = Stream(a, b, p \o q)
  <1>1. \A s, t, u \in Seq(S) : (s \o t) \o u = s \o (t \o u)
    BY ConcatAssociative
  <1>. TAKE a, b, p, q \in Seq(S)
  <1>. DEFINE ab == a \o b
  <1>2. ab \in Seq(S)
    BY ConcatProperties, Zenon
  <1>3. ab \o p = a \o (b \o p)
    BY <1>1, Zenon
  <1>. HIDE DEF ab
  <1>4. (ab \o p) \o q = ab \o (p \o q)
    BY <1>1, <1>2, Zenon
  <1>. QED
    BY <1>3, <1>4, Zenon DEF ab, Stream

(* Bytes are added at the end of a stream. *)
Joined(s, t) == s \o t

LEMMA StreamGrows ==
    ASSUME NEW S
    PROVE  \A a, b, c, d \in Seq(S) :
              Stream(a, b, Joined(c, d)) = Joined(Stream(a, b, c), d)
  <1>1. \A s, t, u \in Seq(S) : (s \o t) \o u = s \o (t \o u)
    BY ConcatAssociative
  <1>. TAKE a, b, c, d \in Seq(S)
  <1>. DEFINE ab == a \o b
  <1>2. ab \in Seq(S)
    BY ConcatProperties, Zenon
  <1>. HIDE DEF ab
  <1>3. (ab \o c) \o d = ab \o (c \o d)
    BY <1>1, <1>2, Zenon
  <1>. QED
    BY <1>3, Zenon DEF ab, Stream, Joined

(* The peer reads the head of b. *)
LEMMA HeadMoves ==
    ASSUME NEW S, NEW a \in Seq(S), NEW b \in Seq(S), b # <<>>
    PROVE  /\ Append(a, Head(b)) \in Seq(S) /\ Tail(b) \in Seq(S)
           /\ Append(a, Head(b)) \o Tail(b) = a \o b
  <1>1. /\ Head(b) \in S /\ Tail(b) \in Seq(S) /\ Len(Tail(b)) = Len(b) - 1
        /\ Len(a) \in Nat /\ Len(b) \in Nat /\ Head(b) = b[1]
        /\ \A i \in 1..Len(Tail(b)) : Tail(b)[i] = b[i + 1]
    BY HeadTailProperties
  <1>2. /\ Append(a, Head(b)) \in Seq(S) /\ Len(Append(a, Head(b))) = Len(a) + 1
        /\ \A i \in 1..Len(a) : Append(a, Head(b))[i] = a[i]
        /\ Append(a, Head(b))[Len(a) + 1] = b[1]
    BY <1>1, AppendProperties
  <1>. DEFINE x == Append(a, Head(b)) \o Tail(b)
              y == a \o b
  <1>3. x \in Seq(S) /\ y \in Seq(S) /\ Len(x) = Len(y) /\ Len(y) = Len(a) + Len(b)
    BY <1>1, <1>2, ConcatProperties
  <1>4. ASSUME NEW i \in 1..Len(x) PROVE x[i] = y[i]
    <2>1. y[i] = IF i <= Len(a) THEN a[i] ELSE b[i - Len(a)]
      BY <1>1, <1>3, ConcatProperties
    <2>2. x[i] = IF i <= Len(a) + 1 THEN Append(a, Head(b))[i] ELSE Tail(b)[i - (Len(a) + 1)]
      BY <1>1, <1>2, <1>3, ConcatProperties
    <2>. QED
      BY <1>1, <1>2, <1>3, <2>1, <2>2
  <1>5. x = y
    <2>. HIDE DEF x, y
    <2>. QED
      BY <1>3, <1>4, SeqEqual
  <1>. QED
    BY <1>1, <1>2, <1>5

(* What is left of a stream when its middle is dropped: a front and an end. *)
Ends(x, a, c) ==
    /\ Len(a) + Len(c) <= Len(x)
    /\ a = SubSeq(x, 1, Len(a))
    /\ c = SubSeq(x, Len(x) - Len(c) + 1, Len(x))

LEMMA FrontAndEnd ==
    ASSUME NEW S, NEW a \in Seq(S), NEW b \in Seq(S), NEW c \in Seq(S)
    PROVE  Ends(Stream(a, b, c), a, c)
  <1>. DEFINE x == (a \o b) \o c
  <1>1. /\ Len(a) \in Nat /\ Len(b) \in Nat /\ Len(c) \in Nat
        /\ a \o b \in Seq(S) /\ Len(a \o b) = Len(a) + Len(b)
        /\ x \in Seq(S) /\ Len(x) = Len(a) + Len(b) + Len(c)
    BY ConcatProperties
  <1>2. \A i \in 1..Len(x) : x[i] \in S
    BY <1>1
  <1>3. \A i \in 1..Len(a) : x[i] = a[i]
    <2>1. ASSUME NEW i \in 1..Len(a) PROVE x[i] = (a \o b)[i]
      BY <1>1, ConcatProperties
    <2>2. ASSUME NEW i \in 1..Len(a) PROVE (a \o b)[i] = a[i]
      BY <1>1, ConcatProperties
    <2>. QED
      BY <2>1, <2>2
  <1>4. \A i \in 1..Len(c) : x[Len(a) + Len(b) + i] = c[i]
    <2>1. ASSUME NEW i \in 1..Len(c) PROVE x[Len(a) + Len(b) + i] = c[i]
      <3>. DEFINE j == Len(a) + Len(b) + i
      <3>1. j \in 1..(Len(a \o b) + Len(c)) /\ ~(j <= Len(a \o b)) /\ j - Len(a \o b) = i
        BY <1>1
      <3>. QED
        BY <3>1, <1>1, ConcatProperties
    <2>. QED
      BY <2>1
  <1>. HIDE DEF x
  <1>5. a = SubSeq(x, 1, Len(a))
    <2>1. /\ SubSeq(x, 1, Len(a)) \in Seq(S) /\ Len(SubSeq(x, 1, Len(a))) = Len(a)
          /\ \A i \in 1..Len(a) : SubSeq(x, 1, Len(a))[i] = x[i]
      BY <1>1, <1>2, SubSeqProperties
    <2>. QED
      BY <1>3, <2>1, SeqEqual
  <1>6. c = SubSeq(x, Len(x) - Len(c) + 1, Len(x))
    <2>. DEFINE e == SubSeq(x, Len(x) - Len(c) + 1, Len(x))
    <2>1. /\ e \in Seq(S) /\ Len(e) = Len(c)
          /\ \A i \in 1..Len(c) : e[i] = x[Len(a) + Len(b) + i]
      BY <1>1, <1>2, SubSeqProperties
    <2>. HIDE DEF e
    <2>2. \A i \in 1..Len(e) : e[i] = c[i]
      BY <1>4, <2>1
    <2>3. e = c
      BY <2>1, <2>2, SeqEqual
    <2>. QED
      BY <2>3 DEF e
  <1>. QED
    BY <1>1, <1>5, <1>6 DEF x, Ends, Stream

(* A front and an end of x, when d is appended to x and to the end. *)
LEMMA EndGrows ==
    ASSUME NEW S, NEW a \in Seq(S), NEW c \in Seq(S), NEW x \in Seq(S), NEW d \in Seq(S),
           Ends(x, a, c)
    PROVE  Ends(x \o d, a, c \o d)
  <1>. DEFINE y == x \o d
              z == c \o d
  <1>1. /\ Len(a) \in Nat /\ Len(c) \in Nat /\ Len(x) \in Nat /\ Len(d) \in Nat
        /\ y \in Seq(S) /\ Len(y) = Len(x) + Len(d)
        /\ z \in Seq(S) /\ Len(z) = Len(c) + Len(d)
    BY ConcatProperties
  <1>a. Len(a) + Len(c) <= Len(x)
    BY DEF Ends
  <1>2. \A i \in 1..Len(a) : a[i] = x[i]
    <2>1. a = SubSeq(x, 1, Len(a))
      BY DEF Ends
    <2>. QED
      BY <1>1, <1>a, <2>1, SubSeqProperties
  <1>3. \A i \in 1..Len(c) : c[i] = x[Len(x) - Len(c) + i]
    <2>1. c = SubSeq(x, Len(x) - Len(c) + 1, Len(x))
      BY DEF Ends
    <2>. QED
      BY <1>1, <1>a, <2>1, SubSeqProperties
  <1>4. \A i \in 1..Len(x) : y[i] = x[i]
    BY <1>1, ConcatProperties
  <1>5. \A i \in 1..Len(z) : z[i] = y[Len(x) - Len(c) + i]
    <2>1. ASSUME NEW i \in 1..Len(z) PROVE z[i] = y[Len(x) - Len(c) + i]
      <3>1. z[i] = IF i <= Len(c) THEN c[i] ELSE d[i - Len(c)]
        BY <1>1, ConcatProperties
      <3>2. CASE i <= Len(c)
        BY <1>1, <1>a, <1>3, <1>4, <3>1, <3>2
      <3>3. CASE ~(i <= Len(c))
        <4>. DEFINE j == Len(x) - Len(c) + i
        <4>1. j \in 1..(Len(x) + Len(d)) /\ ~(j <= Len(x)) /\ j - Len(x) = i - Len(c)
          BY <1>1, <1>a, <3>3
        <4>2. y[j] = d[i - Len(c)]
          BY <4>1, ConcatProperties
        <4>. QED
          BY <3>1, <3>3, <4>2
      <3>. QED
        BY <3>2, <3>3
    <2>. QED
      BY <2>1
  <1>6. \A i \in 1..Len(y) : y[i] \in S
    BY <1>1
  <1>. HIDE DEF y, z
  <1>7. a = SubSeq(y, 1, Len(a))
    <2>1. /\ SubSeq(y, 1, Len(a)) \in Seq(S) /\ Len(SubSeq(y, 1, Len(a))) = Len(a)
          /\ \A i \in 1..Len(a) : SubSeq(y, 1, Len(a))[i] = y[i]
      BY <1>1, <1>a, <1>6, SubSeqProperties
    <2>2. \A i \in 1..Len(a) : a[i] = SubSeq(y, 1, Len(a))[i]
      <3>1. ASSUME NEW i \in 1..Len(a) PROVE a[i] = SubSeq(y, 1, Len(a))[i]
        <4>1. i \in 1..Len(x)
          BY <1>1, <1>a
        <4>. QED
          BY <4>1, <1>2, <1>4, <2>1, Zenon
      <3>. QED
        BY <3>1
    <2>. QED
      BY <2>1, <2>2, SeqEqual
  <1>8. z = SubSeq(y, Len(y) - Len(z) + 1, Len(y))
    <2>. DEFINE e == SubSeq(y, Len(y) - Len(z) + 1, Len(y))
    <2>1. /\ e \in Seq(S) /\ Len(e) = Len(z)
          /\ \A i \in 1..Len(z) : e[i] = y[Len(x) - Len(c) + i]
      <3>. DEFINE m == Len(x) - Len(c) + 1
      <3>1. /\ m = Len(y) - Len(z) + 1 /\ m \in 1..(Len(y) + 1)
            /\ Len(z) = Len(y) - m + 1 /\ Len(y) \in Nat
            /\ \A i \in 1..Len(z) : m + i - 1 = Len(x) - Len(c) + i
        BY <1>1, <1>a
      <3>. HIDE DEF m
      <3>2. /\ SubSeq(y, m, Len(y)) \in Seq(S) /\ Len(SubSeq(y, m, Len(y))) = Len(y) - m + 1
            /\ \A i \in 1..(Len(y) - m + 1) : SubSeq(y, m, Len(y))[i] = y[m + i - 1]
        BY <1>6, <3>1, SubSeqProperties
      <3>. QED
        BY <3>1, <3>2
    <2>. HIDE DEF e
    <2>2. \A i \in 1..Len(e) : e[i] = z[i]
      BY <1>5, <2>1
    <2>3. e = z
      BY <1>1, <2>1, <2>2, SeqEqual
    <2>. QED
      BY <2>3 DEF e
  <1>9. Len(a) + Len(z) <= Len(y)
    BY <1>1, <1>a
  <1>. QED
    BY <1>1, <1>7, <1>8, <1>9, Zenon DEF y, z, Ends

-----------------------------------------------------------------------------
(* The sending side.                                                       *)

SendTypes ==
    /\ output \in Seq(Nat) /\ snd \in Seq(Nat) /\ Len(snd) <= SNDCAP
    /\ outCap \in INITSIZE..(2 * MAXSIZE) /\ outRead \in Nat /\ overrun \in BOOLEAN
    /\ delivered \in Seq(Nat) /\ accepted \in Seq(Nat) /\ offered \in Nat
    /\ likeWriting \in BOOLEAN /\ sfin \in BOOLEAN /\ reset \in BOOLEAN

(* The stream is whole, or its front and its end are after a reset. *)
Whole ==
    IF reset THEN Ends(accepted, delivered, output)
             ELSE Stream(delivered, snd, output) = accepted

(* The part of ConnectionInv that speaks of the bytes sent, and the stream. *)
SendInv ==
    /\ SendTypes /\ OutputRoom /\ WritingIffPending /\ FinAfterData /\ ResetEmpties
    /\ Whole

LEMMA SendInit == Init => SendInv
  <1>. SUFFICES ASSUME Init PROVE SendInv
    OBVIOUS
  <1>0. <<>> \in Seq(Nat) /\ Len(<<>>) = 0
    BY EmptySeq
  <1>1. SendTypes
    <2>1. /\ likeWriting \in BOOLEAN /\ sfin \in BOOLEAN /\ reset \in BOOLEAN
          /\ overrun \in BOOLEAN
      BY Zenon DEF Init
    <2>. QED
      BY <1>0, <2>1, ConnectionAssumption DEF Init, SendTypes
  <1>2. WritingIffPending /\ FinAfterData /\ ResetEmpties
    BY DEF Init, WritingIffPending, FinAfterData, ResetEmpties
  <1>3. OutputRoom
    <2>1. Len(output) = 0 /\ outRead = 0 /\ outCap = INITSIZE /\ overrun = FALSE
      BY <1>0 DEF Init
    <2>. QED
      BY <2>1, ConnectionAssumption DEF OutputRoom
  <1>4. Whole
    <2>1. <<>> \o <<>> \o <<>> = <<>>
      OBVIOUS
    <2>. QED
      BY <2>1 DEF Init, Whole, Stream
  <1>. QED
    BY <1>1, <1>2, <1>3, <1>4 DEF SendInv

(* The steps that touch the sending side. *)
LEMMA SendSteps ==
    [Next]_vars => \/ ~overrun /\ handleWrite
                   \/ shutdownInLoop \/ PeerReads \/ PeerResets
                   \/ ~overrun /\ \E len \in 1..MaxSent : send(len)
                   \/ UNCHANGED <<sendVars, reset>>
  <1>. SUFFICES ASSUME [Next]_vars
                PROVE  \/ ~overrun /\ handleWrite
                       \/ shutdownInLoop \/ PeerReads \/ PeerResets
                       \/ ~overrun /\ \E len \in 1..MaxSent : send(len)
                       \/ UNCHANGED <<sendVars, reset>>
    OBVIOUS
  <1>1. CASE EpollWait \/ CallbackReturns \/ TakeFunctors \/ FunctorsDone
    BY <1>1, Zenon DEF EpollWait, CallbackReturns, TakeFunctors, FunctorsDone
  <1>2. CASE \/ connectEstablished \/ connectDestroyed \/ DestroyGoesOn
             \/ handleError \/ handleRead \/ CloseGoesOn
    BY <1>2, Zenon DEF connectEstablished, connectDestroyed, DestroyGoesOn, handleError,
                       handleRead, CloseGoesOn
  <1>3. CASE shutdown \/ LeaderRemoves \/ ServerDestroys \/ PeerSends \/ PeerFinishes
    BY <1>3, Zenon DEF shutdown, LeaderRemoves, ServerDestroys, PeerSends, PeerFinishes
  <1>4. CASE \E len \in 1..MAXSIZE : Consume(len)
    BY <1>4, Zenon DEF Consume
  <1>5. CASE UNCHANGED vars
    BY <1>5, Zenon DEF vars
  <1>. QED
    BY <1>1, <1>2, <1>3, <1>4, <1>5, Zenon DEF Next, Loop, Running

(* handleWrite moves a front of outputBuffer into the kernel. *)
LEMMA SendByHandler == SendInv /\ ~overrun /\ handleWrite => SendInv'
  <1>. SUFFICES ASSUME SendInv, ~overrun, handleWrite PROVE SendInv'
    OBVIOUS
  <1>t. SendTypes /\ WritingIffPending /\ FinAfterData /\ ResetEmpties /\ Whole
    BY DEF SendInv
  <1>. DEFINE n == IF reset \/ sfin THEN 0 ELSE Least(Len(output), SNDCAP - Len(snd))
  <1>1. /\ snd' = snd \o SubSeq(output, 1, n)
        /\ output' = SubSeq(output, n + 1, Len(output))
        /\ likeWriting' = (likeWriting /\ ~Omit(n))
        /\ outRead' = outRead + n
        /\ UNCHANGED <<outCap, overrun, sfin, delivered, offered, accepted, reset>>
    BY DEF handleWrite
  <1>2. /\ n \in 0..Len(output) /\ Len(snd) + n <= SNDCAP
        /\ reset \/ sfin => n = 0
        /\ Len(output) \in Nat /\ Len(snd) \in Nat
    <2>1. /\ Len(output) \in Nat /\ Len(snd) \in Nat /\ Len(snd) <= SNDCAP
          /\ SNDCAP \in Nat
      BY <1>t, ConnectionAssumption DEF SendTypes
    <2>. QED
      BY <2>1 DEF Least
  <1>. HIDE DEF n
  <1>. DEFINE p == SubSeq(output, 1, n)
              q == SubSeq(output, n + 1, Len(output))
  <1>3. /\ p \in Seq(Nat) /\ Len(p) = n /\ q \in Seq(Nat) /\ Len(q) = Len(output) - n
        /\ p \o q = output
    <2>1. output \in Seq(Nat) /\ n \in 0..Len(output)
      BY <1>t, <1>2 DEF SendTypes
    <2>. QED
      BY <2>1, Cut
  <1>4. n = 0 => p = <<>> /\ q = output
    <2>1. ASSUME n = 0 PROVE p = <<>> /\ q = output
      BY <1>t, <1>2, <2>1, SubSeqFull, SubSeqEmpty DEF SendTypes
    <2>. QED
      BY <2>1
  <1>5. snd' = snd \o p /\ output' = q
    BY <1>1
  <1>. HIDE DEF p, q
  <1>6. SendTypes'
    <2>1. snd \o p \in Seq(Nat) /\ Len(snd \o p) = Len(snd) + n
      BY <1>t, <1>3, ConcatProperties DEF SendTypes
    <2>2. likeWriting' \in BOOLEAN
      BY <1>1, Zenon
    <2>3. overrun' \in BOOLEAN
      BY <1>t, <1>1, Zenon DEF SendTypes
    <2>4. outRead' \in Nat
      BY <1>t, <1>1, <1>2 DEF SendTypes
    <2>. QED
      BY <1>t, <1>1, <1>2, <1>3, <1>5, <2>1, <2>2, <2>3, <2>4 DEF SendTypes
  <1>o. OutputRoom'
    <2>1. outRead + Len(output) <= outCap /\ outRead \in Nat /\ outCap \in Nat
      BY <1>t, <1>2, ConnectionAssumption DEF SendInv, OutputRoom, SendTypes
    <2>2. /\ Len(output') = Len(output) - n /\ outRead' = outRead + n /\ outCap' = outCap
          /\ ~overrun'
      BY <1>1, <1>3, <1>5
    <2>. QED
      BY <1>2, <2>1, <2>2 DEF OutputRoom
  <1>7. WritingIffPending'
    <2>1. output' # <<>> <=> n # Len(output)
      BY <1>2, <1>3, <1>5, EmptySeq
    <2>2. output # <<>> <=> Len(output) # 0
      BY <1>t, EmptySeq DEF SendTypes
    <2>3. Omit(n) <=> n > 0 /\ n = Len(output)
      BY DEF Omit
    <2>4. likeWriting <=> output # <<>>
      BY <1>t DEF WritingIffPending
    <2>5. likeWriting' <=> likeWriting /\ ~Omit(n)
      BY <1>1
    <2>. QED
      BY <1>2, <2>1, <2>2, <2>3, <2>4, <2>5 DEF WritingIffPending
  <1>8. FinAfterData' /\ ResetEmpties'
    <2>1. n = 0 => snd' = snd /\ output' = output
      BY <1>t, <1>4, <1>5, ConcatEmptySeq DEF SendTypes
    <2>. QED
      BY <1>t, <1>1, <1>2, <2>1 DEF FinAfterData, ResetEmpties
  <1>9. Whole'
    <2>1. CASE reset
      <3>1. snd' = snd /\ output' = output
        BY <1>t, <1>2, <1>4, <1>5, <2>1, ConcatEmptySeq DEF SendTypes
      <3>. QED
        BY <1>t, <1>1, <3>1 DEF Whole
    <2>2. CASE ~reset
      <3>1. Stream(delivered, snd \o p, q) = Stream(delivered, snd, p \o q)
        <4>1. /\ delivered \in Seq(Nat) /\ snd \in Seq(Nat)
              /\ p \in Seq(Nat) /\ q \in Seq(Nat)
          BY <1>t, <1>3 DEF SendTypes
        <4>. QED
          BY <4>1, Shift
      <3>2. Stream(delivered, snd, output) = accepted
        BY <1>t, <2>2 DEF Whole
      <3>3. Stream(delivered, snd, output)' = accepted'
        BY <1>1, <1>3, <1>5, <3>1, <3>2
      <3>. QED
        BY <1>1, <2>2, <3>3 DEF Whole
    <2>. QED
      BY <2>1, <2>2
  <1>. QED
    BY <1>6, <1>o, <1>7, <1>8, <1>9 DEF SendInv

(* An append keeps its bytes within the vector, or it is taken past the end *)
(* by more pending bytes than the buffer's initial size.                   *)
LEMMA AppendRoom ==
    ASSUME SendInv, ~overrun, NEW d \in Seq(Nat), append(d)
    PROVE  /\ OutputRoom' /\ outCap' \in INITSIZE..(2 * MAXSIZE) /\ outRead' \in Nat
           /\ overrun' \in BOOLEAN
  <1>1. /\ outCap \in Nat /\ outCap >= INITSIZE /\ outCap <= 2 * MAXSIZE /\ outRead \in Nat
        /\ Len(output) \in Nat /\ outRead + Len(output) <= outCap
        /\ INITSIZE \in Nat \ {0} /\ MAXSIZE \in Nat /\ Len(d) \in Nat
    BY ConnectionAssumption DEF SendInv, SendTypes, OutputRoom
  <1>2. Len(output') = Len(output) + Len(d)
    <2>1. output' = output \o d
      BY Zenon DEF append
    <2>. QED
      BY <2>1, ConcatProperties DEF SendInv, SendTypes
  <1>. DEFINE writable == outCap - outRead - Len(output)
              cramped == Len(d) > writable + outRead
              vacated == Len(d) > writable /\ ~cramped
  <1>3. /\ outCap' = IF cramped /\ outCap < MAXSIZE THEN 2 * outCap ELSE outCap
        /\ outRead' = IF vacated THEN 0 ELSE outRead
    BY DEF append
  <1>b. overrun' = (outRead' + Len(output') > outCap')
    BY DEF append
  <1>4. overrun' \in BOOLEAN
    BY <1>b
  <1>5. overrun' <=> outRead' + Len(output') > outCap'
    BY <1>b, Zenon
  <1>6. outCap' \in INITSIZE..(2 * MAXSIZE) /\ outRead' \in Nat
    BY <1>1, <1>3
  <1>7. outRead' + Len(output') > outCap' => Len(output') > INITSIZE
    BY <1>1, <1>2, <1>3
  <1>. QED
    BY <1>4, <1>5, <1>6, <1>7 DEF OutputRoom

(* send appends its data behind everything that is still on its way. *)
LEMMA SendByUser ==
    ASSUME SendInv, ~overrun, NEW len \in 1..MaxSent, send(len)
    PROVE  SendInv'
  <1>t. SendTypes /\ WritingIffPending /\ FinAfterData /\ ResetEmpties /\ Whole
    BY DEF SendInv
  <1>. DEFINE data == [i \in 1..len |-> offered + i]
              dead == Direct /\ (reset \/ sfin)
              n == IF dead \/ ~Direct THEN 0 ELSE Least(len, SNDCAP - Len(snd))
              drop == Direct /\ n = 0
              p == SubSeq(data, 1, n)
              q == SubSeq(data, n + 1, len)
  <1>1. /\ accepted' = IF drop THEN accepted ELSE accepted \o data
        /\ snd' = snd \o p
        /\ append(IF drop THEN <<>> ELSE q)
        /\ likeWriting' = (likeWriting \/ (~drop /\ Like(q)))
        /\ offered' = offered + len
        /\ UNCHANGED <<sfin, delivered, reset>>
    BY DEF send
  <1>2. len \in Nat /\ data \in Seq(Nat) /\ Len(data) = len
    BY <1>t, ConnectionAssumption DEF SendTypes
  <1>3. /\ n \in 0..len /\ Len(snd) + n <= SNDCAP /\ Len(snd) \in Nat
        /\ ~Direct => n = 0
        /\ Direct /\ (reset \/ sfin) => n = 0
    BY <1>t, <1>2, ConnectionAssumption DEF SendTypes, Least
  <1>. HIDE DEF data, n
  <1>4. /\ p \in Seq(Nat) /\ Len(p) = n /\ q \in Seq(Nat) /\ Len(q) = len - n
        /\ p \o q = data
    BY <1>2, <1>3, Cut
  <1>5. n = 0 => p = <<>> /\ q = data
    <2>1. ASSUME n = 0 PROVE p = <<>> /\ q = data
      BY <1>2, <2>1, SubSeqFull, SubSeqEmpty
    <2>. QED
      BY <2>1
  <1>. HIDE DEF p, q
  <1>a. output' = IF drop THEN output ELSE output \o q
    <2>1. output' = output \o (IF drop THEN <<>> ELSE q)
      BY <1>1, Zenon DEF append
    <2>2. output \o <<>> = output
      BY <1>t, ConcatEmptySeq DEF SendTypes
    <2>. QED
      BY <2>1, <2>2, Zenon
  <1>o. OutputRoom' /\ outCap' \in INITSIZE..(2 * MAXSIZE) /\ outRead' \in Nat
        /\ overrun' \in BOOLEAN
    <2>1. (IF drop THEN <<>> ELSE q) \in Seq(Nat)
      BY <1>4
    <2>. QED
      BY <1>1, <2>1, AppendRoom
  <1>6. n = 0 => snd' = snd
    BY <1>t, <1>1, <1>5, ConcatEmptySeq DEF SendTypes
  <1>7. SendTypes'
    <2>1. snd \o p \in Seq(Nat) /\ Len(snd \o p) = Len(snd) + n
      BY <1>t, <1>4, ConcatProperties DEF SendTypes
    <2>2. accepted \o data \in Seq(Nat) /\ output \o q \in Seq(Nat)
      BY <1>t, <1>2, <1>4, ConcatProperties DEF SendTypes
    <2>3. likeWriting' \in BOOLEAN
      BY <1>1, Zenon
    <2>4. /\ accepted' = accepted \/ accepted' = accepted \o data
          /\ output' = output \/ output' = output \o q
      BY <1>1, <1>a, Zenon
    <2>5. UNCHANGED <<sfin, delivered, reset>> /\ offered' \in Nat /\ Len(snd') <= SNDCAP
          /\ snd' \in Seq(Nat)
      BY <1>t, <1>1, <1>2, <1>3, <2>1 DEF SendTypes
    <2>6. output' \in Seq(Nat) /\ accepted' \in Seq(Nat)
      BY <1>t, <2>2, <2>4, Zenon DEF SendTypes
    <2>. QED
      BY <1>t, <1>o, <2>3, <2>5, <2>6, Zenon DEF SendTypes
  <1>8. WritingIffPending'
    <2>1. likeWriting' <=> likeWriting \/ (~drop /\ q # <<>>)
      BY <1>1, Zenon DEF Like
    <2>2. likeWriting <=> output # <<>>
      BY <1>t DEF WritingIffPending
    <2>3. output \o q # <<>> <=> output # <<>> \/ q # <<>>
      BY <1>t, <1>4, ConcatEqualIffEmpty DEF SendTypes
    <2>4. CASE drop
      <3>1. output' = output /\ likeWriting' = likeWriting
        BY <1>t, <1>1, <1>a, <2>4, Zenon DEF SendTypes
      <3>. QED
        BY <2>2, <3>1, Zenon DEF WritingIffPending
    <2>5. CASE ~drop
      BY <1>a, <2>1, <2>2, <2>3, <2>5, Zenon DEF WritingIffPending
    <2>. QED
      BY <2>4, <2>5
  <1>9. FinAfterData'
    <2>1. SUFFICES ASSUME sfin, ~reset PROVE output' = <<>>
      BY <1>1 DEF FinAfterData
    <2>2. output = <<>>
      BY <1>t, <2>1 DEF FinAfterData
    <2>3. Direct
      BY <1>t, <2>2 DEF Direct, WritingIffPending
    <2>. QED
      BY <1>a, <1>3, <2>1, <2>2, <2>3
  <1>10. ResetEmpties'
    <2>1. SUFFICES ASSUME reset PROVE snd' = <<>>
      BY <1>1 DEF ResetEmpties
    <2>2. n = 0
      BY <1>3, <2>1
    <2>. QED
      BY <1>t, <1>6, <2>1, <2>2 DEF ResetEmpties
  <1>11. Whole'
    <2>1. CASE drop
      <3>1. snd' = snd /\ output' = output /\ accepted' = accepted
        BY <1>1, <1>a, <1>6, <2>1
      <3>. QED
        BY <1>t, <1>1, <3>1 DEF Whole
    <2>2. CASE ~drop /\ reset
      <3>1. n = 0 /\ q = data
        BY <1>3, <1>5, <2>2
      <3>2. output' = output \o data /\ accepted' = accepted \o data
        BY <1>1, <1>a, <2>2, <3>1
      <3>3. Ends(accepted, delivered, output)
        BY <1>t, <2>2 DEF Whole
      <3>4. /\ delivered \in Seq(Nat) /\ output \in Seq(Nat)
            /\ accepted \in Seq(Nat) /\ data \in Seq(Nat)
        BY <1>t, <1>2 DEF SendTypes
      <3>5. Ends(accepted \o data, delivered, output \o data)
        BY <3>3, <3>4, EndGrows
      <3>. QED
        BY <1>1, <2>2, <3>2, <3>5 DEF Whole
    <2>3. CASE ~drop /\ ~reset
      <3>1. Stream(delivered, snd, output) = accepted
        BY <1>t, <2>3 DEF Whole
      <3>2. output' = output \o q /\ accepted' = accepted \o data
        BY <1>1, <1>a, <2>3
      <3>3. Stream(delivered, snd \o p, output \o q) = accepted \o data
        <4>1. CASE Direct
          <5>1. output = <<>> /\ output \o q = q
            BY <1>4, <4>1, ConcatEmptySeq DEF Direct
          <5>2. delivered \o snd = accepted
            <6>1. delivered \o snd \in Seq(Nat)
              BY <1>t, ConcatProperties DEF SendTypes
            <6>. QED
              BY <3>1, <5>1, <6>1, ConcatEmptySeq DEF Stream
          <5>3. /\ delivered \in Seq(Nat) /\ snd \in Seq(Nat)
                /\ p \in Seq(Nat) /\ q \in Seq(Nat)
            BY <1>t, <1>4 DEF SendTypes
          <5>4. Stream(delivered, snd \o p, q) = Stream(delivered, snd, p \o q)
            BY <5>3, Shift
          <5>5. Stream(delivered, snd, data) = accepted \o data
            BY <5>2, Zenon DEF Stream
          <5>. QED
            BY <1>4, <5>1, <5>4, <5>5, Zenon
        <4>2. CASE ~Direct
          <5>1. q = data /\ snd \o p = snd
            BY <1>t, <1>3, <1>5, <4>2, ConcatEmptySeq DEF SendTypes
          <5>2. Stream(delivered, snd, Joined(output, data))
                  = Joined(Stream(delivered, snd, output), data)
            <6>1. /\ delivered \in Seq(Nat) /\ snd \in Seq(Nat)
                  /\ output \in Seq(Nat) /\ data \in Seq(Nat)
              BY <1>t, <1>2 DEF SendTypes
            <6>. QED
              BY <6>1, StreamGrows
          <5>. QED
            BY <3>1, <5>1, <5>2, Zenon DEF Joined
        <4>. QED
          BY <4>1, <4>2
      <3>. QED
        BY <1>1, <2>3, <3>2, <3>3 DEF Whole
    <2>. QED
      BY <2>1, <2>2, <2>3
  <1>. QED
    BY <1>7, <1>o, <1>8, <1>9, <1>10, <1>11 DEF SendInv

(* The end of the stream is sent only when nothing is pending. *)
LEMMA SendEnds == SendInv /\ shutdownInLoop => SendInv'
  <1>. SUFFICES ASSUME SendInv, shutdownInLoop PROVE SendInv'
    OBVIOUS
  <1>1. /\ sfin' = (sfin \/ (MayFinish /\ ~reset))
        /\ UNCHANGED <<likeWriting, outVars, snd, delivered, offered, accepted, reset>>
    BY DEF shutdownInLoop
  <1>2. sfin' \in BOOLEAN
    BY <1>1, Zenon
  <1>3. sfin' <=> sfin \/ (MayFinish /\ ~reset)
    BY <1>1, Zenon
  <1>4. FinAfterData'
    BY <1>1, <1>3 DEF SendInv, FinAfterData, WritingIffPending, MayFinish, outVars
  <1>5. SendTypes'
    BY <1>1, <1>2 DEF SendInv, SendTypes, outVars
  <1>6. WritingIffPending' /\ OutputRoom' /\ ResetEmpties' /\ Whole'
    BY <1>1 DEF SendInv, WritingIffPending, OutputRoom, ResetEmpties, Whole, outVars
  <1>. QED
    BY <1>4, <1>5, <1>6 DEF SendInv

(* The peer takes the first byte of what the kernel holds. *)
LEMMA SendDelivered == SendInv /\ PeerReads => SendInv'
  <1>. SUFFICES ASSUME SendInv, PeerReads PROVE SendInv'
    OBVIOUS
  <1>1. /\ snd # <<>> /\ ~reset
        /\ delivered' = Append(delivered, Head(snd)) /\ snd' = Tail(snd)
        /\ UNCHANGED <<likeWriting, output, outCap, outRead, overrun, sfin, offered,
                       accepted, reset>>
    BY DEF PeerReads, Open, outVars
  <1>2. delivered \in Seq(Nat) /\ snd \in Seq(Nat)
    BY DEF SendInv, SendTypes
  <1>3. /\ delivered' \in Seq(Nat) /\ snd' \in Seq(Nat)
        /\ delivered' \o snd' = delivered \o snd
    <2>1. /\ Append(delivered, Head(snd)) \in Seq(Nat) /\ Tail(snd) \in Seq(Nat)
          /\ Append(delivered, Head(snd)) \o Tail(snd) = delivered \o snd
      <3>1. snd # <<>>
        BY <1>1
      <3>. QED
        BY <1>2, <3>1, HeadMoves
    <2>. QED
      BY <1>1, <2>1, Zenon
  <1>4. Len(snd') = Len(snd) - 1 /\ Len(snd) \in Nat
    BY <1>1, <1>2, HeadTailProperties
  <1>5. SendTypes'
    BY <1>1, <1>3, <1>4, ConnectionAssumption DEF SendInv, SendTypes
  <1>6. WritingIffPending' /\ FinAfterData' /\ ResetEmpties' /\ OutputRoom'
    BY <1>1 DEF SendInv, WritingIffPending, FinAfterData, ResetEmpties, OutputRoom
  <1>7. Whole'
    <2>1. (delivered \o snd) \o output = accepted
      BY <1>1 DEF SendInv, Whole, Stream
    <2>2. (delivered' \o snd') \o output' = accepted'
      BY <1>1, <1>3, <2>1
    <2>. QED
      BY <1>1, <2>2 DEF Whole, Stream
  <1>. QED
    BY <1>5, <1>6, <1>7 DEF SendInv

(* A reset drops the bytes between those delivered and those not written. *)
LEMMA SendReset == SendInv /\ PeerResets => SendInv'
  <1>. SUFFICES ASSUME SendInv, PeerResets PROVE SendInv'
    OBVIOUS
  <1>1. /\ ~reset /\ reset' = TRUE /\ snd' = <<>>
        /\ UNCHANGED <<likeWriting, output, outCap, outRead, overrun, sfin, delivered,
                       offered, accepted>>
    BY DEF PeerResets, Open, outVars
  <1>2. SendTypes'
    <2>1. reset' \in BOOLEAN
      BY <1>1, Zenon
    <2>2. <<>> \in Seq(Nat) /\ Len(<<>>) = 0
      BY EmptySeq
    <2>. QED
      BY <1>1, <2>1, <2>2, ConnectionAssumption DEF SendInv, SendTypes
  <1>3. WritingIffPending' /\ FinAfterData' /\ ResetEmpties' /\ OutputRoom'
    BY <1>1 DEF SendInv, WritingIffPending, FinAfterData, ResetEmpties, OutputRoom
  <1>4. Whole'
    <2>1. Stream(delivered, snd, output) = accepted
      BY <1>1 DEF SendInv, Whole
    <2>2. delivered \in Seq(Nat) /\ snd \in Seq(Nat) /\ output \in Seq(Nat)
      BY DEF SendInv, SendTypes
    <2>3. Ends(Stream(delivered, snd, output), delivered, output)
      BY <2>2, FrontAndEnd
    <2>4. Ends(accepted, delivered, output)
      BY <2>1, <2>3
    <2>. QED
      BY <1>1, <2>4 DEF Whole
  <1>. QED
    BY <1>2, <1>3, <1>4 DEF SendInv

(* Every step keeps the sending side in order. *)
LEMMA SendNext == SendInv /\ [Next]_vars => SendInv'
  <1>. SUFFICES ASSUME SendInv, [Next]_vars PROVE SendInv'
    OBVIOUS
  <1>1. CASE UNCHANGED <<sendVars, reset>>
    <2>1. UNCHANGED <<likeWriting, output, outCap, outRead, overrun, snd, sfin, delivered,
                      offered, accepted, reset>>
      BY <1>1 DEF sendVars, outVars
    <2>. QED
      BY <2>1 DEF SendInv, SendTypes, OutputRoom, WritingIffPending, FinAfterData,
                  ResetEmpties, Whole
  <1>. QED
    BY <1>1, SendSteps, SendByHandler, SendByUser, SendEnds, SendDelivered, SendReset

-----------------------------------------------------------------------------
(* The loop and the receiving side.                                        *)

LoopTypes ==
    /\ status \in {"CONNECTING", "CONNECTED", "DISCONNECTING", "DISCONNECTED"}
    /\ pc \in {"wait", "user", "events", "close", "functors", "destroy"}
    /\ back \in {"events", "close", "functors", "destroy"}
    /\ revents \subseteq {"ERR", "IN", "OUT"}

ReadTypes ==
    /\ input \in 0..inCap /\ inCap \in 1..(2 * MAXSIZE) /\ outer \in 0..input
    /\ rcv \in Nat /\ received \in Nat

(* The end of a read event: on to the next event, to the user's callback,  *)
(* or through closecb or at once to the removal.                           *)
EventEnds ==
    /\ outer' = 0 /\ revents' = revents \ {"IN"}
    /\ \/ /\ UNCHANGED <<status, removals>>
          /\ \/ pc' = "user" /\ back' = "events"
             \/ pc' = "user" /\ back' = "close" /\ status = "CONNECTED"
             \/ pc' = "events" /\ UNCHANGED back
       \/ /\ status # "CONNECTED" /\ status' = "DISCONNECTING" /\ removals' = removals + 1
          /\ pc' = "events" /\ UNCHANGED back

(* What a level of readFrom does: it leaves another level waiting, or it   *)
(* ends the event, and then bytes are left only at a full buffer.          *)
LEMMA ReadStep ==
    ASSUME ReadTypes, handleRead
    PROVE  /\ ReadTypes' /\ inCap' >= inCap
           /\ \/ UNCHANGED <<pc, back, revents, status, removals, lastRead>>
              \/ /\ EventEnds
                 /\ rcv' > 0 => lastRead' = "full" /\ inCap' >= MAXSIZE
  <1>. DEFINE n == Least(rcv, Room - input)
              Ends1 == EventEnds
  <1>0. /\ input \in Nat /\ inCap \in Nat \ {0} /\ input <= inCap /\ inCap <= 2 * MAXSIZE
        /\ outer \in Nat /\ outer <= input /\ rcv \in Nat /\ received \in Nat
        /\ MAXSIZE \in Nat
    BY ConnectionAssumption DEF ReadTypes
  <1>1. /\ Room \in Nat \ {0} /\ Room >= inCap /\ Room <= 2 * MAXSIZE
        /\ input <= Room
        /\ input = Room => Room >= MAXSIZE
    BY <1>0 DEF Room
  <1>. HIDE DEF Room
  <1>2. n \in Nat /\ n <= rcv /\ input + n <= Room /\ (input + n < Room => n = rcv)
    BY <1>0, <1>1 DEF Least
  <1>. HIDE DEF n
  <1>3. pc = "events" /\ received' = received
    BY DEF handleRead
  <1>4. ASSUME NEW r, NEW how, ReadReturns(r, how)
        PROVE  Ends1 /\ lastRead' = how
    BY <1>3, <1>4 DEF ReadReturns, ReadResult, handleClose, Removed, EventEnds
  <1>5. ASSUME input = Room, inCap' = Room, ReadReturns(-2, "full"), UNCHANGED <<input, rcv>>
        PROVE  ReadTypes' /\ inCap' >= inCap /\ Ends1
               /\ (rcv' > 0 => lastRead' = "full" /\ inCap' >= MAXSIZE)
    <2>1. Ends1 /\ lastRead' = "full"
      BY <1>4, <1>5
    <2>2. outer' = 0
      BY <2>1 DEF EventEnds
    <2>3. ReadTypes' /\ inCap' >= inCap /\ inCap' >= MAXSIZE
      BY <1>0, <1>1, <1>3, <1>5, <2>2 DEF ReadTypes
    <2>. QED
      BY <2>1, <2>3
  <1>6. ASSUME input < Room, rcv = 0, inCap' = Room, UNCHANGED <<input, rcv>>,
               ReadReturns(0, "end") \/ ReadReturns(-1, "empty")
        PROVE  ReadTypes' /\ inCap' >= inCap /\ Ends1 /\ rcv' = 0
    <2>1. Ends1
      BY <1>4, <1>6
    <2>2. outer' = 0
      BY <2>1 DEF EventEnds
    <2>3. ReadTypes' /\ inCap' >= inCap /\ rcv' = 0
      BY <1>0, <1>1, <1>3, <1>6, <2>2 DEF ReadTypes
    <2>. QED
      BY <2>1, <2>3
  <1>7. ASSUME input' = input + n, rcv' = rcv - n, input + n # Room, inCap' = Room,
               ReadReturns(n, "short")
        PROVE  ReadTypes' /\ inCap' >= inCap /\ Ends1 /\ rcv' = 0
    <2>1. Ends1
      BY <1>4, <1>7
    <2>2. outer' = 0
      BY <2>1 DEF EventEnds
    <2>3. ReadTypes' /\ inCap' >= inCap /\ rcv' = 0
      BY <1>0, <1>1, <1>2, <1>3, <1>7, <2>2 DEF ReadTypes
    <2>. QED
      BY <2>1, <2>3
  <1>8. ASSUME input' = input + n, rcv' = rcv - n, input + n = Room, Room < MAXSIZE,
               ReadAgain(n)
        PROVE  /\ ReadTypes' /\ inCap' >= inCap
               /\ UNCHANGED <<pc, back, revents, status, removals, lastRead>>
    <2>1. /\ inCap' = 2 * Room /\ outer' = outer + n
          /\ UNCHANGED <<pc, back, revents, status, removals, lastRead>>
      BY <1>8 DEF ReadAgain
    <2>. QED
      BY <1>0, <1>1, <1>2, <1>3, <1>8, <2>1 DEF ReadTypes
  <1>9. ASSUME input' = input + n, rcv' = rcv - n, input + n = Room, Room >= MAXSIZE,
               inCap' = Room, ReadReturns(-2, "full")
        PROVE  ReadTypes' /\ inCap' >= inCap /\ Ends1
               /\ lastRead' = "full" /\ inCap' >= MAXSIZE
    <2>1. Ends1 /\ lastRead' = "full"
      BY <1>4, <1>9
    <2>2. outer' = 0
      BY <2>1 DEF EventEnds
    <2>3. ReadTypes' /\ inCap' >= inCap /\ inCap' >= MAXSIZE
      BY <1>0, <1>1, <1>2, <1>3, <1>9, <2>2 DEF ReadTypes
    <2>. QED
      BY <2>1, <2>3
  <1>10. \/ /\ input = Room /\ inCap' = Room /\ ReadReturns(-2, "full")
            /\ UNCHANGED <<input, rcv>>
         \/ /\ input < Room /\ rcv = 0 /\ inCap' = Room /\ UNCHANGED <<input, rcv>>
            /\ ReadReturns(0, "end") \/ ReadReturns(-1, "empty")
         \/ /\ input' = input + n /\ rcv' = rcv - n
            /\ \/ input + n # Room /\ inCap' = Room /\ ReadReturns(n, "short")
               \/ input + n = Room /\ Room < MAXSIZE /\ ReadAgain(n)
               \/ input + n = Room /\ Room >= MAXSIZE /\ inCap' = Room /\ ReadReturns(-2, "full")
    BY Zenon DEF handleRead, n
  <1>11. rcv' = 0 => ~(rcv' > 0)
    OBVIOUS
  <1>. QED
    BY <1>5, <1>6, <1>7, <1>8, <1>9, <1>10, <1>11

(* The part of ConnectionInv that speaks of the loop. *)
LoopInv ==
    /\ LoopTypes /\ ReadTypes /\ RoundInOrder
    /\ functors \in Seq(Functor) /\ batch \in Seq(Functor)
    /\ removals \in Nat /\ pool \in {"pooled", "erased", "destroying"}

(* Every step keeps the order of a round and the sizes of the input buffer.  *)
LEMMA LoopRounds ==
    LoopInv /\ [Next]_vars => LoopTypes' /\ ReadTypes' /\ RoundInOrder'
  <1>. SUFFICES ASSUME LoopTypes, ReadTypes, RoundInOrder, [Next]_vars
                PROVE  LoopTypes' /\ ReadTypes' /\ RoundInOrder'
    BY DEF LoopInv
  <1>1. CASE EpollWait
    <2>1. Ready \subseteq {"ERR", "IN", "OUT"}
      BY DEF Ready
    <2>2. revents' \subseteq {"ERR", "IN", "OUT"}
      BY <1>1, <2>1, Zenon DEF EpollWait
    <2>3. /\ pc = "wait" /\ pc' = "user" /\ back' = "events"
          /\ UNCHANGED <<status, batch, input, inCap, outer, rcv, received>>
      BY <1>1 DEF EpollWait, readVars
    <2>. QED
      BY <2>2, <2>3 DEF LoopTypes, ReadTypes, RoundInOrder, At
  <1>2. CASE CallbackReturns
    BY <1>2 DEF LoopTypes, ReadTypes, RoundInOrder, At, CallbackReturns, loopVars, readVars
  <1>3. CASE TakeFunctors
    BY <1>3 DEF LoopTypes, ReadTypes, RoundInOrder, At, TakeFunctors, loopVars, readVars
  <1>4. CASE FunctorsDone
    BY <1>4 DEF LoopTypes, ReadTypes, RoundInOrder, At, FunctorsDone, loopVars, readVars
  <1>5. CASE connectEstablished
    BY <1>5 DEF LoopTypes, ReadTypes, RoundInOrder, At, connectEstablished, loopVars, readVars
  <1>a. CASE DestroyGoesOn
    BY <1>a DEF LoopTypes, ReadTypes, RoundInOrder, At, DestroyGoesOn, Destroyed, loopVars,
                readVars
  <1>b. CASE CloseGoesOn
    BY <1>b DEF LoopTypes, ReadTypes, RoundInOrder, At, CloseGoesOn, Removed, loopVars,
                readVars
  <1>6. CASE connectDestroyed
    BY <1>6 DEF LoopTypes, ReadTypes, RoundInOrder, At, connectDestroyed, Destroyed, loopVars,
                readVars
  <1>7. CASE shutdownInLoop
    BY <1>7 DEF LoopTypes, ReadTypes, RoundInOrder, At, shutdownInLoop, loopVars, readVars
  <1>8. CASE handleError
    BY <1>8 DEF LoopTypes, ReadTypes, RoundInOrder, At, handleError, loopVars, readVars
  <1>9. CASE handleRead
    <2>1. pc = "events" /\ "IN" \in revents /\ UNCHANGED batch
      BY <1>9 DEF handleRead
    <2>2. ReadTypes'
      BY <1>9, ReadStep
    <2>3. \/ UNCHANGED <<pc, back, revents, status>>
          \/ /\ outer' = 0 /\ revents' = revents \ {"IN"}
             /\ \/ pc' = "user" /\ back' \in {"events", "close"}
                \/ pc' = "events" /\ UNCHANGED back
             /\ status' \in {status, "DISCONNECTING"}
      BY <1>9, ReadStep DEF EventEnds
    <2>4. LoopTypes'
      BY <2>3 DEF LoopTypes
    <2>5. RoundInOrder'
      <3>1. batch' = <<>>
        BY <2>1 DEF RoundInOrder, At
      <3>2. CASE UNCHANGED <<pc, back, revents, status>>
        BY <2>1, <3>1, <3>2 DEF RoundInOrder, At
      <3>3. CASE outer' = 0 /\ At' \in {"events", "close"}
        BY <3>1, <3>3 DEF RoundInOrder
      <3>. QED
        BY <2>1, <2>3, <3>2, <3>3 DEF At
    <2>. QED
      BY <2>2, <2>4, <2>5
  <1>10. CASE handleWrite
    BY <1>10 DEF LoopTypes, ReadTypes, RoundInOrder, At, handleWrite, loopVars, readVars
  <1>11. ASSUME NEW len \in 1..MaxSent, send(len) PROVE LoopTypes' /\ ReadTypes' /\ RoundInOrder'
    BY <1>11 DEF LoopTypes, ReadTypes, RoundInOrder, At, send, User, loopVars, readVars
  <1>12. ASSUME NEW len \in 1..MAXSIZE, Consume(len) PROVE LoopTypes' /\ ReadTypes' /\ RoundInOrder'
    BY <1>12 DEF LoopTypes, ReadTypes, RoundInOrder, At, Consume, User, loopVars, readVars
  <1>13. CASE shutdown
    BY <1>13 DEF LoopTypes, ReadTypes, RoundInOrder, At, shutdown, loopVars, readVars
  <1>14. CASE LeaderRemoves
    BY <1>14 DEF LoopTypes, ReadTypes, RoundInOrder, At, LeaderRemoves, loopVars, readVars
  <1>c. CASE ServerDestroys
    BY <1>c DEF LoopTypes, ReadTypes, RoundInOrder, At, ServerDestroys, loopVars, readVars
  <1>15. CASE PeerSends
    BY <1>15 DEF LoopTypes, ReadTypes, RoundInOrder, At, PeerSends, loopVars, readVars
  <1>16. CASE PeerFinishes
    BY <1>16 DEF LoopTypes, ReadTypes, RoundInOrder, At, PeerFinishes, loopVars, readVars
  <1>17. CASE PeerReads
    BY <1>17 DEF LoopTypes, ReadTypes, RoundInOrder, At, PeerReads, loopVars, readVars
  <1>18. CASE PeerResets
    BY <1>18 DEF LoopTypes, ReadTypes, RoundInOrder, At, PeerResets, loopVars, readVars
  <1>19. CASE UNCHANGED vars
    BY <1>19 DEF LoopTypes, ReadTypes, RoundInOrder, At, vars, loopVars, readVars
  <1>. QED
    BY <1>1, <1>2, <1>3, <1>4, <1>5, <1>a, <1>b, <1>c, <1>6, <1>7, <1>8, <1>9, <1>10,
       <1>11, <1>12, <1>13, <1>14, <1>15, <1>16, <1>17, <1>18, <1>19
    DEF Next, Loop

-----------------------------------------------------------------------------
(* The functors and the life of the connection.                            *)

(* The loop runs the first functor of its batch. *)
LEMMA QueuePop ==
    ASSUME NEW S, NEW b \in Seq(S), NEW f \in Seq(S), b # <<>>
    PROVE  /\ Tail(b) \in Seq(S)
           /\ Len(b \o f) \in Nat \ {0} /\ (b \o f)[1] = Head(b)
           /\ Len(Tail(b) \o f) = Len(b \o f) - 1
           /\ \A i \in 1..Len(Tail(b) \o f) : (Tail(b) \o f)[i] = (b \o f)[i + 1]
  <1>1. /\ Len(b) \in Nat \ {0} /\ Len(f) \in Nat /\ Head(b) = b[1]
        /\ Tail(b) \in Seq(S) /\ Len(Tail(b)) = Len(b) - 1
        /\ \A i \in 1..(Len(b) - 1) : Tail(b)[i] = b[i + 1]
    BY HeadTailProperties, EmptySeq
  <1>2. /\ Len(b \o f) = Len(b) + Len(f)
        /\ \A i \in 1..(Len(b) + Len(f)) : (b \o f)[i] = IF i <= Len(b) THEN b[i] ELSE f[i - Len(b)]
    BY ConcatProperties
  <1>. DEFINE t == Tail(b)
  <1>3. /\ t \in Seq(S) /\ Len(t) = Len(b) - 1
        /\ \A i \in 1..(Len(b) - 1) : t[i] = b[i + 1]
    BY <1>1
  <1>. HIDE DEF t
  <1>4. /\ Len(t \o f) = Len(t) + Len(f)
        /\ \A i \in 1..(Len(t) + Len(f)) : (t \o f)[i] = IF i <= Len(t) THEN t[i] ELSE f[i - Len(t)]
    BY <1>3, ConcatProperties
  <1>5. Len(b \o f) \in Nat \ {0} /\ (b \o f)[1] = b[1] /\ Len(t \o f) = Len(b \o f) - 1
    BY <1>1, <1>2, <1>3, <1>4
  <1>6. ASSUME NEW i \in 1..Len(t \o f) PROVE (t \o f)[i] = (b \o f)[i + 1]
    <2>1. i \in Nat /\ 1 <= i /\ i <= Len(b) + Len(f) - 1
      BY <1>1, <1>2, <1>3, <1>4
    <2>2. (t \o f)[i] = IF i <= Len(b) - 1 THEN b[i + 1] ELSE f[i - (Len(b) - 1)]
      BY <1>1, <1>3, <1>4, <2>1
    <2>3. (b \o f)[i + 1] = IF i + 1 <= Len(b) THEN b[i + 1] ELSE f[i + 1 - Len(b)]
      BY <1>1, <1>2, <2>1
    <2>. QED
      BY <1>1, <2>1, <2>2, <2>3
  <1>. QED
    BY <1>1, <1>5, <1>6, Zenon DEF t

(* A functor is queued behind the others. *)
LEMMA QueuePush ==
    ASSUME NEW S, NEW b \in Seq(S), NEW f \in Seq(S), NEW x \in S
    PROVE  /\ Append(f, x) \in Seq(S)
           /\ Len(b \o f) \in Nat
           /\ Len(b \o Append(f, x)) = Len(b \o f) + 1
           /\ (b \o Append(f, x))[Len(b \o f) + 1] = x
           /\ \A i \in 1..Len(b \o f) : (b \o Append(f, x))[i] = (b \o f)[i]
  <1>1. Len(b) \in Nat /\ Len(f) \in Nat
    OBVIOUS
  <1>2. /\ Len(b \o f) = Len(b) + Len(f)
        /\ \A i \in 1..(Len(b) + Len(f)) : (b \o f)[i] = IF i <= Len(b) THEN b[i] ELSE f[i - Len(b)]
    BY ConcatProperties
  <1>. DEFINE g == Append(f, x)
  <1>3. /\ g \in Seq(S) /\ Len(g) = Len(f) + 1 /\ g[Len(f) + 1] = x
        /\ \A i \in 1..Len(f) : g[i] = f[i]
    BY AppendProperties
  <1>. HIDE DEF g
  <1>4. /\ Len(b \o g) = Len(b) + Len(g)
        /\ \A i \in 1..(Len(b) + Len(g)) : (b \o g)[i] = IF i <= Len(b) THEN b[i] ELSE g[i - Len(b)]
    BY <1>3, ConcatProperties
  <1>5. Len(b \o g) = Len(b \o f) + 1 /\ Len(b \o f) \in Nat
    BY <1>1, <1>2, <1>3, <1>4
  <1>6. (b \o g)[Len(b \o f) + 1] = x
    <2>1. Len(b) + Len(f) + 1 \in 1..(Len(b) + Len(g)) /\ ~(Len(b) + Len(f) + 1 <= Len(b))
          /\ Len(b) + Len(f) + 1 - Len(b) = Len(f) + 1
      BY <1>1, <1>3
    <2>. QED
      BY <1>2, <1>3, <1>4, <2>1
  <1>7. ASSUME NEW i \in 1..Len(b \o f) PROVE (b \o g)[i] = (b \o f)[i]
    <2>1. i \in Nat /\ 1 <= i /\ i <= Len(b) + Len(f)
      BY <1>1, <1>2
    <2>2. (b \o g)[i] = IF i <= Len(b) THEN b[i] ELSE f[i - Len(b)]
      <3>1. (b \o g)[i] = IF i <= Len(b) THEN b[i] ELSE g[i - Len(b)]
        BY <1>1, <1>3, <1>4, <2>1
      <3>2. ~(i <= Len(b)) => i - Len(b) \in 1..Len(f)
        BY <1>1, <2>1
      <3>. QED
        BY <1>3, <3>1, <3>2
    <2>. QED
      BY <1>1, <1>2, <2>1, <2>2
  <1>. QED
    BY <1>3, <1>5, <1>6, <1>7, Zenon DEF g

(* The part of ConnectionInv that speaks of the life of the connection. *)
LifeInv == LifeCycle /\ ShutdownBeforeDestroy

(* A step that touches neither the queue nor the status. *)
LEMMA LifeGoesOn ==
    ASSUME LifeInv, Queue' = Queue, UNCHANGED <<removals, pool, status>>,
           status = "CONNECTING" => ~likeWriting',
           At' \in {"close", "destroy"} => At' = At,
           ~Registered => ~armed' /\ revents' = {}
    PROVE  LifeInv'
  <1>0. \A i : DestroyBehind(i)' <=> DestroyBehind(i)
    BY DEF DestroyBehind
  <1>1. LifeCycle'
    BY <1>0 DEF LifeInv, LifeCycle, Registered
  <1>2. ShutdownBeforeDestroy'
    BY <1>0 DEF LifeInv, ShutdownBeforeDestroy
  <1>. QED
    BY <1>1, <1>2 DEF LifeInv

(* A functor of the batch runs: the rest of the queue moves up. *)
LEMMA FunctorRuns ==
    ASSUME LoopInv, batch # <<>>, batch' = Tail(batch), UNCHANGED functors
    PROVE  /\ batch' \in Seq(Functor) /\ functors' \in Seq(Functor)
           /\ Len(Queue) \in Nat \ {0} /\ Queue[1] = Head(batch)
           /\ Len(Queue') = Len(Queue) - 1
           /\ \A i \in 1..Len(Queue') : Queue'[i] = Queue[i + 1]
  <1>1. batch \in Seq(Functor) /\ functors \in Seq(Functor)
    BY DEF LoopInv
  <1>2. /\ Tail(batch) \in Seq(Functor)
        /\ Len(batch \o functors) \in Nat \ {0} /\ (batch \o functors)[1] = Head(batch)
        /\ Len(Tail(batch) \o functors) = Len(batch \o functors) - 1
        /\ \A i \in 1..Len(Tail(batch) \o functors) :
              (Tail(batch) \o functors)[i] = (batch \o functors)[i + 1]
    BY <1>1, QueuePop
  <1>. QED
    BY <1>1, <1>2, Zenon DEF Queue

(* A functor is pushed. *)
LEMMA FunctorPushed ==
    ASSUME LoopInv, NEW x \in Functor, functors' = Append(functors, x), UNCHANGED batch
    PROVE  /\ batch' \in Seq(Functor) /\ functors' \in Seq(Functor)
           /\ Len(Queue) \in Nat /\ Len(Queue') = Len(Queue) + 1
           /\ Queue'[Len(Queue) + 1] = x
           /\ \A i \in 1..Len(Queue) : Queue'[i] = Queue[i]
  <1>1. batch \in Seq(Functor) /\ functors \in Seq(Functor)
    BY DEF LoopInv
  <1>2. /\ Append(functors, x) \in Seq(Functor)
        /\ Len(batch \o functors) \in Nat
        /\ Len(batch \o Append(functors, x)) = Len(batch \o functors) + 1
        /\ (batch \o Append(functors, x))[Len(batch \o functors) + 1] = x
        /\ \A i \in 1..Len(batch \o functors) :
              (batch \o Append(functors, x))[i] = (batch \o functors)[i]
    BY <1>1, QueuePush
  <1>. QED
    BY <1>1, <1>2, Zenon DEF Queue

QueueTypes ==
    /\ functors \in Seq(Functor) /\ batch \in Seq(Functor)
    /\ removals \in Nat /\ pool \in {"pooled", "erased", "destroying"}

(* What is behind a functor when the first one has run. *)
LEMMA BehindPop ==
    ASSUME Len(Queue) \in Nat \ {0}, Len(Queue') = Len(Queue) - 1,
           \A i \in 1..Len(Queue') : Queue'[i] = Queue[i + 1]
    PROVE  \A i \in Nat : DestroyBehind(i)' <=> DestroyBehind(i + 1)
  <1>. SUFFICES ASSUME NEW i \in Nat PROVE DestroyBehind(i)' <=> DestroyBehind(i + 1)
    OBVIOUS
  <1>1. ASSUME NEW j \in 1..Len(Queue'), j > i, Queue'[j] = "connectDestroyed"
        PROVE  DestroyBehind(i + 1)
    <2>1. j + 1 \in 1..Len(Queue) /\ j + 1 > i + 1 /\ Queue[j + 1] = "connectDestroyed"
      BY <1>1
    <2>. QED
      BY <2>1 DEF DestroyBehind
  <1>2. ASSUME NEW j \in 1..Len(Queue), j > i + 1, Queue[j] = "connectDestroyed"
        PROVE  DestroyBehind(i)'
    <2>1. j - 1 \in 1..Len(Queue') /\ j - 1 > i /\ (j - 1) + 1 = j
      BY <1>2
    <2>2. Queue'[j - 1] = Queue[(j - 1) + 1]
      BY <2>1
    <2>3. Queue'[j - 1] = "connectDestroyed"
      BY <1>2, <2>1, <2>2
    <2>. QED
      BY <2>1, <2>3 DEF DestroyBehind
  <1>3. ASSUME DestroyBehind(i)' PROVE DestroyBehind(i + 1)
    BY <1>1, <1>3 DEF DestroyBehind
  <1>4. ASSUME DestroyBehind(i + 1) PROVE DestroyBehind(i)'
    BY <1>2, <1>4 DEF DestroyBehind
  <1>. QED
    BY <1>3, <1>4

(* What is behind a functor when another is pushed. *)
LEMMA BehindPush ==
    ASSUME NEW x, Len(Queue) \in Nat, Len(Queue') = Len(Queue) + 1,
           Queue'[Len(Queue) + 1] = x, \A i \in 1..Len(Queue) : Queue'[i] = Queue[i]
    PROVE  /\ x # "connectDestroyed" => (DestroyBehind(0)' => DestroyBehind(0))
           /\ x = "connectDestroyed" => \A i \in 1..Len(Queue) : DestroyBehind(i)'
  <1>1. ASSUME x # "connectDestroyed", DestroyBehind(0)' PROVE DestroyBehind(0)
    <2>1. PICK j \in 1..Len(Queue') : j > 0 /\ Queue'[j] = "connectDestroyed"
      BY <1>1 DEF DestroyBehind
    <2>2. j \in 1..Len(Queue)
      BY <1>1, <2>1
    <2>. QED
      BY <2>1, <2>2 DEF DestroyBehind
  <1>2. ASSUME x = "connectDestroyed", NEW i \in 1..Len(Queue) PROVE DestroyBehind(i)'
    <2>1. Len(Queue) + 1 \in 1..Len(Queue') /\ Len(Queue) + 1 > i
      OBVIOUS
    <2>. QED
      BY <1>2, <2>1 DEF DestroyBehind
  <1>. QED
    BY <1>1, <1>2

(* Every step keeps the queue and the life of the connection in order. *)
LEMMA LifeNext ==
    LoopInv /\ LifeInv /\ [Next]_vars => QueueTypes' /\ LifeInv'
  <1>. SUFFICES ASSUME LoopInv, LifeInv, [Next]_vars PROVE QueueTypes' /\ LifeInv'
    OBVIOUS
  <1>t. /\ functors \in Seq(Functor) /\ batch \in Seq(Functor) /\ removals \in Nat
        /\ pool \in {"pooled", "erased", "destroying"}
        /\ status \in {"CONNECTING", "CONNECTED", "DISCONNECTING", "DISCONNECTED"}
    BY DEF LoopInv, LoopTypes
  <1>r. ~Registered => ~armed /\ revents = {}
    BY DEF LifeInv, LifeCycle
  <1>w. status = "CONNECTING" => ~likeWriting
    BY DEF LifeInv, LifeCycle
  <1>c. At \in {"close", "destroy"} => status = "CONNECTED"
    BY DEF LifeInv, LifeCycle
  <1>u. ASSUME UNCHANGED <<functors, batch, serverVars>>
        PROVE  Queue' = Queue /\ QueueTypes' /\ UNCHANGED <<removals, pool>>
    BY <1>t, <1>u DEF Queue, QueueTypes, serverVars
  <1>1. CASE EpollWait
    <2>1. /\ UNCHANGED <<functors, batch, serverVars, status, likeWriting>>
          /\ ~armed' /\ (~armed => revents' = {}) /\ At' = "events"
      BY <1>1 DEF EpollWait, sendVars, At
    <2>. QED
      BY <1>r, <1>u, <1>w, <2>1, LifeGoesOn
  <1>2. CASE CallbackReturns \/ FunctorsDone \/ handleError
    <2>1. /\ UNCHANGED <<functors, batch, serverVars, status, likeWriting, armed>>
          /\ revents' \subseteq revents
          /\ At' \in {At, "wait", "events"}
      BY <1>2 DEF CallbackReturns, FunctorsDone, handleError, sendVars, At, LoopInv, LoopTypes
    <2>2. revents = {} => revents' = {}
      BY <2>1
    <2>. QED
      BY <1>r, <1>u, <1>w, <2>1, <2>2, LifeGoesOn
  <1>3. CASE TakeFunctors
    <2>1. /\ batch = <<>> /\ batch' = functors /\ functors' = <<>>
          /\ UNCHANGED <<serverVars, status, likeWriting, armed, revents>> /\ At' = "functors"
      BY <1>3 DEF TakeFunctors, LoopInv, RoundInOrder, sendVars, At
    <2>2. functors \o <<>> = functors /\ <<>> \o functors = functors
      BY <1>t, ConcatEmptySeq
    <2>3. Queue' = Queue
      BY <2>1, <2>2 DEF Queue
    <2>4. QueueTypes' /\ UNCHANGED <<removals, pool>>
      BY <1>t, <2>1 DEF QueueTypes, serverVars
    <2>. QED
      BY <1>r, <1>w, <2>1, <2>3, <2>4, LifeGoesOn
  <1>4. CASE connectEstablished
    <2>1. /\ batch # <<>> /\ batch' = Tail(batch) /\ Head(batch) = "connectEstablished"
          /\ UNCHANGED <<functors, removals, pool>> /\ status' = "CONNECTED"
          /\ At' = "functors"
      BY <1>4 DEF connectEstablished, serverVars, At
    <2>2. /\ batch' \in Seq(Functor) /\ functors' \in Seq(Functor)
          /\ Len(Queue) \in Nat \ {0} /\ Queue[1] = "connectEstablished"
          /\ Len(Queue') = Len(Queue) - 1
          /\ \A i \in 1..Len(Queue') : Queue'[i] = Queue[i + 1]
      BY <2>1, FunctorRuns
    <2>3. 1 \in 1..Len(Queue) /\ \A i \in 1..Len(Queue') : i + 1 \in 2..Len(Queue)
      BY <2>2
    <2>4. /\ status = "CONNECTING" /\ removals = 0 /\ pool # "erased"
          /\ \A i \in 2..Len(Queue) : Queue[i] = "connectDestroyed"
          /\ pool = "pooled" => ~DestroyBehind(0)
      BY <2>2, <2>3 DEF LifeInv, LifeCycle
    <2>5. \A i \in 1..Len(Queue') : Queue'[i] = "connectDestroyed"
      BY <2>2, <2>3, <2>4
    <2>6. DestroyBehind(0)' => DestroyBehind(0)
      <3>1. DestroyBehind(0)' => DestroyBehind(0 + 1)
        BY <2>2, BehindPop
      <3>2. DestroyBehind(0 + 1) => DestroyBehind(0)
        BY DEF DestroyBehind
      <3>. QED
        BY <3>1, <3>2
    <2>7. LifeCycle' /\ ShutdownBeforeDestroy'
      BY <2>1, <2>4, <2>5, <2>6 DEF LifeCycle, ShutdownBeforeDestroy, Registered
    <2>. QED
      BY <1>t, <2>1, <2>2, <2>7 DEF QueueTypes, LifeInv
  <1>5. CASE connectDestroyed
    <2>1. /\ batch # <<>> /\ batch' = Tail(batch) /\ Head(batch) = "connectDestroyed"
          /\ UNCHANGED <<functors, removals, pool, revents>> /\ revents = {}
          /\ \/ status = "CONNECTED" /\ At' = "destroy" /\ UNCHANGED status
             \/ status # "CONNECTED" /\ At' = "functors" /\ status' = "DISCONNECTED"
                /\ ~armed'
      BY <1>5 DEF connectDestroyed, Destroyed, serverVars, LoopInv, RoundInOrder, At
    <2>2. /\ batch' \in Seq(Functor) /\ functors' \in Seq(Functor)
          /\ Len(Queue) \in Nat \ {0} /\ Queue[1] = "connectDestroyed"
          /\ Len(Queue') = Len(Queue) - 1
          /\ \A i \in 1..Len(Queue') : Queue'[i] = Queue[i + 1]
      BY <2>1, FunctorRuns
    <2>3. 1 \in 1..Len(Queue) /\ \A i \in 1..Len(Queue') : i + 1 \in 1..Len(Queue) /\ i + 1 > 1
      BY <2>2
    <2>4. status # "CONNECTING"
      BY <2>2, <2>3 DEF LifeInv, LifeCycle
    <2>5. DestroyBehind(0)
      BY <2>2, <2>3 DEF DestroyBehind
    <2>6. \A i \in 1..Len(Queue') : Queue'[i] # "connectEstablished"
      BY <2>2, <2>3, <2>4 DEF LifeInv, LifeCycle
    <2>7. \A i \in 1..Len(Queue') : Queue'[i] = "shutdownInLoop" =>
             pool = "destroying"
      <3>1. ASSUME NEW i \in 1..Len(Queue'), Queue'[i] = "shutdownInLoop", pool # "destroying"
            PROVE  FALSE
        <4>1. i + 1 \in 1..Len(Queue) /\ Queue[i + 1] = "shutdownInLoop" /\ ~(i + 1 < 1)
          BY <2>2, <2>3, <3>1
        <4>. QED
          BY <2>2, <2>3, <3>1, <4>1 DEF LifeInv, ShutdownBeforeDestroy
      <3>. QED
        BY <3>1
    <2>8. ShutdownBeforeDestroy'
      BY <2>1, <2>7 DEF ShutdownBeforeDestroy
    <2>9. LifeCycle'
      <3>1. CASE status = "CONNECTED" /\ At' = "destroy" /\ UNCHANGED status
        <4>1. removals = 0 /\ pool = "destroying"
          BY <1>t, <2>5, <3>1 DEF LifeInv, LifeCycle
        <4>. QED
          BY <2>1, <2>6, <3>1, <4>1 DEF LifeCycle, Registered
      <3>2. CASE /\ status # "CONNECTED" /\ At' = "functors" /\ status' = "DISCONNECTED"
                 /\ ~armed'
        BY <2>1, <2>6, <3>2 DEF LifeCycle, Registered
      <3>. QED
        BY <2>1, <3>1, <3>2
    <2>. QED
      BY <1>t, <2>1, <2>2, <2>8, <2>9 DEF QueueTypes, LifeInv
  <1>d. CASE DestroyGoesOn
    <2>1. /\ At = "destroy" /\ At' = "functors" /\ status' = "DISCONNECTED" /\ ~armed'
          /\ UNCHANGED <<functors, batch, serverVars, revents>> /\ revents = {}
      BY <1>d DEF DestroyGoesOn, Destroyed, LoopInv, RoundInOrder, At
    <2>2. pool = "destroying" /\ status = "CONNECTED"
      BY <2>1 DEF LifeInv, LifeCycle
    <2>3. LifeCycle' /\ ShutdownBeforeDestroy'
      BY <1>u, <2>1, <2>2 DEF LifeInv, LifeCycle, ShutdownBeforeDestroy, Registered
    <2>. QED
      BY <1>u, <2>1, <2>3 DEF LifeInv
  <1>6. CASE shutdownInLoop
    <2>1. /\ batch # <<>> /\ batch' = Tail(batch) /\ Head(batch) = "shutdownInLoop"
          /\ UNCHANGED <<functors, removals, pool, revents, status, armed, likeWriting, pc,
                         back>>
      BY <1>6 DEF shutdownInLoop, serverVars
    <2>2. /\ batch' \in Seq(Functor) /\ functors' \in Seq(Functor)
          /\ Len(Queue) \in Nat \ {0} /\ Queue[1] = "shutdownInLoop"
          /\ Len(Queue') = Len(Queue) - 1
          /\ \A i \in 1..Len(Queue') : Queue'[i] = Queue[i + 1]
      BY <2>1, FunctorRuns
    <2>3. \A i \in 1..Len(Queue') : i + 1 \in 1..Len(Queue) /\ i \in Nat
      BY <2>2
    <2>4. status # "CONNECTING"
      BY <2>2 DEF LifeInv, LifeCycle
    <2>5. /\ DestroyBehind(0)' => DestroyBehind(0)
          /\ \A i \in 1..Len(Queue') : DestroyBehind(i)' <=> DestroyBehind(i + 1)
      <3>1. \A i \in Nat : DestroyBehind(i)' <=> DestroyBehind(i + 1)
        BY <2>2, BehindPop
      <3>2. DestroyBehind(0 + 1) => DestroyBehind(0)
        BY DEF DestroyBehind
      <3>. QED
        BY <2>3, <3>1, <3>2
    <2>6. LifeCycle'
      BY <2>1, <2>2, <2>3, <2>4, <2>5 DEF LifeInv, LifeCycle, Registered, At
    <2>7. ShutdownBeforeDestroy'
      <3>1. ASSUME NEW i \in 1..Len(Queue'), Queue'[i] = "shutdownInLoop"
            PROVE  /\ pool = "erased" => DestroyBehind(i)'
                   /\ pool # "destroying" =>
                        /\ \A j \in 1..Len(Queue') : Queue'[j] = "connectDestroyed" => i < j
                        /\ status # "DISCONNECTED"
        <4>1. i + 1 \in 1..Len(Queue) /\ Queue[i + 1] = "shutdownInLoop" /\ i \in Nat
          BY <2>2, <2>3, <3>1
        <4>2. /\ pool = "erased" => DestroyBehind(i + 1)
              /\ pool # "destroying" =>
                   /\ \A j \in 1..Len(Queue) : Queue[j] = "connectDestroyed" => i + 1 < j
                   /\ status # "DISCONNECTED"
          BY <4>1 DEF LifeInv, ShutdownBeforeDestroy
        <4>3. ASSUME pool # "destroying", NEW j \in 1..Len(Queue'),
                     Queue'[j] = "connectDestroyed"
              PROVE  i < j
          <5>1. j \in Nat /\ j + 1 \in 1..Len(Queue) /\ Queue[j + 1] = "connectDestroyed"
            BY <2>2, <2>3, <4>3
          <5>2. i + 1 < j + 1
            BY <4>2, <4>3, <5>1
          <5>. QED
            BY <4>1, <5>1, <5>2
        <4>. QED
          BY <2>5, <3>1, <4>2, <4>3
      <3>. QED
        BY <2>1, <3>1 DEF ShutdownBeforeDestroy
    <2>. QED
      BY <1>t, <2>1, <2>2, <2>6, <2>7 DEF QueueTypes, LifeInv
  <1>7. CASE handleRead
    <2>1. /\ UNCHANGED <<functors, batch, pool, armed, likeWriting>> /\ revents # {}
          /\ ReadTypes /\ pc = "events"
      BY <1>7 DEF handleRead, LoopInv, sendVars
    <2>2. Queue' = Queue
      BY <2>1 DEF Queue
    <2>3. Registered
      BY <1>r, <2>1
    <2>a. \A i : DestroyBehind(i)' <=> DestroyBehind(i)
      BY <2>2 DEF DestroyBehind
    <2>4. \/ UNCHANGED <<removals, status>> /\ At' \in {"events", "close"}
             /\ (At' = "close" => status = "CONNECTED")
          \/ /\ status # "CONNECTED" /\ status' = "DISCONNECTING" /\ At' = "events"
             /\ removals' = removals + 1
      BY <1>7, <2>1, ReadStep DEF EventEnds, At
    <2>5. QueueTypes'
      BY <1>t, <2>1, <2>4 DEF QueueTypes
    <2>6. ShutdownBeforeDestroy'
      BY <2>1, <2>2, <2>4, <2>a DEF LifeInv, ShutdownBeforeDestroy
    <2>7. LifeCycle'
      BY <2>1, <2>2, <2>3, <2>4, <2>a DEF LifeInv, LifeCycle, Registered
    <2>. QED
      BY <2>5, <2>6, <2>7 DEF LifeInv
  <1>e. CASE CloseGoesOn
    <2>1. /\ At = "close" /\ At' = "events" /\ status' = "DISCONNECTING"
          /\ removals' = removals + 1 /\ UNCHANGED <<functors, batch, pool>>
      BY <1>e DEF CloseGoesOn, Removed, At
    <2>2. Queue' = Queue /\ status = "CONNECTED"
      BY <2>1 DEF LifeInv, LifeCycle, Queue
    <2>a. \A i : DestroyBehind(i)' <=> DestroyBehind(i)
      BY <2>2 DEF DestroyBehind
    <2>3. QueueTypes'
      BY <1>t, <2>1 DEF QueueTypes
    <2>4. LifeCycle' /\ ShutdownBeforeDestroy'
      BY <2>1, <2>2, <2>a DEF LifeInv, LifeCycle, ShutdownBeforeDestroy, Registered
    <2>. QED
      BY <2>3, <2>4 DEF LifeInv
  <1>8. CASE handleWrite
    <2>1. /\ UNCHANGED <<functors, batch, serverVars, status>> /\ revents # {}
          /\ At' = "events"
      BY <1>8 DEF handleWrite, At
    <2>2. Registered
      BY <1>r, <2>1
    <2>. QED
      BY <1>u, <2>1, <2>2, LifeGoesOn DEF Registered
  <1>9. ASSUME NEW len \in 1..MaxSent, send(len) PROVE QueueTypes' /\ LifeInv'
    <2>1. UNCHANGED <<functors, batch, serverVars, status>> /\ Registered /\ At' = At
      BY <1>9 DEF send, User, loopVars, At
    <2>. QED
      BY <1>u, <2>1, LifeGoesOn DEF Registered
  <1>10. ASSUME NEW len \in 1..MAXSIZE, Consume(len) PROVE QueueTypes' /\ LifeInv'
    <2>1. UNCHANGED <<functors, batch, serverVars, status>> /\ Registered /\ At' = At
      BY <1>10 DEF Consume, User, loopVars, At
    <2>. QED
      BY <1>u, <2>1, LifeGoesOn DEF Registered
  <1>11. CASE shutdown
    <2>1. /\ status = "CONNECTED" /\ functors' = Append(functors, "shutdownInLoop")
          /\ UNCHANGED <<batch, removals, pool, revents, status, armed, likeWriting, pc, back>>
      BY <1>11 DEF shutdown, MayShutdown, loopVars, sendVars, serverVars
    <2>2. /\ batch' \in Seq(Functor) /\ functors' \in Seq(Functor)
          /\ Len(Queue) \in Nat /\ Len(Queue') = Len(Queue) + 1
          /\ Queue'[Len(Queue) + 1] = "shutdownInLoop"
          /\ \A i \in 1..Len(Queue) : Queue'[i] = Queue[i]
      <3>1. "shutdownInLoop" \in Functor
        BY DEF Functor
      <3>. QED
        BY <2>1, <3>1, FunctorPushed
    <2>3. \A i \in 1..Len(Queue') : i \in 1..Len(Queue) \/ i = Len(Queue) + 1
      BY <2>2
    <2>4. DestroyBehind(0)' => DestroyBehind(0)
      BY <2>2, BehindPush
    <2>5. removals = 0 /\ pool # "erased" /\ (pool = "pooled" => ~DestroyBehind(0))
      BY <2>1 DEF LifeInv, LifeCycle
    <2>6. \A i \in 1..Len(Queue') : Queue'[i] # "connectEstablished"
      BY <2>1, <2>2, <2>3 DEF LifeInv, LifeCycle
    <2>7. LifeCycle'
      BY <2>1, <2>4, <2>5, <2>6 DEF LifeInv, LifeCycle, Registered, At
    <2>8. pool = "pooled" => \A j \in 1..Len(Queue') : Queue'[j] # "connectDestroyed"
      <3>1. ASSUME pool = "pooled", NEW j \in 1..Len(Queue'), Queue'[j] = "connectDestroyed"
            PROVE  FALSE
        <4>1. j > 0
          BY <2>2
        <4>2. DestroyBehind(0)'
          BY <3>1, <4>1 DEF DestroyBehind
        <4>. QED
          BY <2>4, <2>5, <3>1, <4>2
      <3>. QED
        BY <3>1
    <2>9. ShutdownBeforeDestroy'
      BY <1>t, <2>1, <2>5, <2>8 DEF ShutdownBeforeDestroy
    <2>. QED
      BY <1>t, <2>1, <2>2, <2>7, <2>9 DEF QueueTypes, LifeInv
  <1>12. CASE LeaderRemoves
    <2>1. /\ removals > 0 /\ removals' = removals - 1
          /\ pool # "destroying" /\ pool' = "erased"
          /\ functors' = Append(functors, "connectDestroyed")
          /\ UNCHANGED <<batch, revents, status, armed, likeWriting, pc, back>>
      BY <1>12 DEF LeaderRemoves, loopVars, sendVars
    <2>2. /\ batch' \in Seq(Functor) /\ functors' \in Seq(Functor)
          /\ Len(Queue) \in Nat /\ Len(Queue') = Len(Queue) + 1
          /\ Queue'[Len(Queue) + 1] = "connectDestroyed"
          /\ \A i \in 1..Len(Queue) : Queue'[i] = Queue[i]
      <3>1. "connectDestroyed" \in Functor
        BY DEF Functor
      <3>. QED
        BY <2>1, <3>1, FunctorPushed
    <2>3. \A i \in 1..Len(Queue') : i \in 1..Len(Queue) \/ i = Len(Queue) + 1
      BY <2>2
    <2>4. status \notin {"CONNECTING", "CONNECTED"}
      BY <1>t, <2>1 DEF LifeInv, LifeCycle
    <2>5. \A i \in 1..Len(Queue) : DestroyBehind(i)'
      BY <2>2, BehindPush
    <2>6. LifeCycle'
      BY <1>c, <2>1, <2>2, <2>3, <2>4 DEF LifeInv, LifeCycle, Registered, At
    <2>7. ShutdownBeforeDestroy'
      <3>1. ASSUME NEW i \in 1..Len(Queue'), Queue'[i] = "shutdownInLoop"
            PROVE  /\ DestroyBehind(i)'
                   /\ \A j \in 1..Len(Queue') : Queue'[j] = "connectDestroyed" => i < j
                   /\ status # "DISCONNECTED"
        <4>1. i \in 1..Len(Queue) /\ Queue[i] = "shutdownInLoop"
          BY <2>2, <2>3, <3>1
        <4>2. /\ \A j \in 1..Len(Queue) : Queue[j] = "connectDestroyed" => i < j
              /\ status # "DISCONNECTED"
          BY <2>1, <4>1 DEF LifeInv, ShutdownBeforeDestroy
        <4>3. ASSUME NEW j \in 1..Len(Queue'), Queue'[j] = "connectDestroyed" PROVE i < j
          <5>1. CASE j \in 1..Len(Queue)
            BY <2>2, <4>2, <4>3, <5>1
          <5>2. CASE j = Len(Queue) + 1
            BY <2>2, <4>1, <5>2
          <5>. QED
            BY <2>3, <5>1, <5>2
        <4>. QED
          BY <2>5, <4>1, <4>2, <4>3
      <3>. QED
        BY <2>1, <3>1 DEF ShutdownBeforeDestroy
    <2>8. removals' \in Nat
      BY <1>t, <2>1
    <2>. QED
      BY <2>1, <2>2, <2>6, <2>7, <2>8 DEF QueueTypes, LifeInv
  <1>f. CASE ServerDestroys
    <2>1. /\ pool' = "destroying" /\ functors' = Append(functors, "connectDestroyed")
          /\ UNCHANGED <<batch, removals, revents, status, armed, likeWriting, pc, back>>
          /\ pool = "pooled"
      BY <1>f DEF ServerDestroys, loopVars, sendVars
    <2>2. /\ batch' \in Seq(Functor) /\ functors' \in Seq(Functor)
          /\ Len(Queue) \in Nat /\ Len(Queue') = Len(Queue) + 1
          /\ Queue'[Len(Queue) + 1] = "connectDestroyed"
          /\ \A i \in 1..Len(Queue) : Queue'[i] = Queue[i]
      <3>1. "connectDestroyed" \in Functor
        BY DEF Functor
      <3>. QED
        BY <2>1, <3>1, FunctorPushed
    <2>3. \A i \in 1..Len(Queue') : i \in 1..Len(Queue) \/ i = Len(Queue) + 1
      BY <2>2
    <2>4. At' = At /\ (At' = "destroy" => pool' = "destroying")
      BY <2>1 DEF At
    <2>5. status = "CONNECTING" =>
             /\ Len(Queue') >= 1 /\ Queue'[1] = "connectEstablished"
             /\ \A i \in 2..Len(Queue') : Queue'[i] = "connectDestroyed"
      <3>1. ASSUME status = "CONNECTING"
            PROVE  /\ Len(Queue') >= 1 /\ Queue'[1] = "connectEstablished"
                   /\ \A i \in 2..Len(Queue') : Queue'[i] = "connectDestroyed"
        <4>1. /\ Len(Queue) >= 1 /\ Queue[1] = "connectEstablished"
              /\ \A i \in 2..Len(Queue) : Queue[i] = "connectDestroyed"
          BY <3>1 DEF LifeInv, LifeCycle
        <4>2. 1 \in 1..Len(Queue)
          BY <2>2, <4>1
        <4>3. \A i \in 2..Len(Queue') : i \in 2..Len(Queue) \/ i = Len(Queue) + 1
          BY <2>2
        <4>. QED
          BY <2>2, <4>1, <4>2, <4>3
      <3>. QED
        BY <3>1
    <2>6. LifeCycle'
      BY <2>1, <2>2, <2>3, <2>4, <2>5 DEF LifeInv, LifeCycle, Registered
    <2>7. ShutdownBeforeDestroy'
      BY <2>1 DEF ShutdownBeforeDestroy
    <2>. QED
      BY <1>t, <2>1, <2>2, <2>6, <2>7 DEF QueueTypes, LifeInv
  <1>13. CASE PeerSends \/ PeerFinishes \/ PeerResets
    <2>1. /\ UNCHANGED <<functors, batch, serverVars, status, revents, likeWriting, pc, back>>
          /\ armed' = Registered
      BY <1>13 DEF PeerSends, PeerFinishes, PeerResets, loopVars, sendVars
    <2>2. ~Registered => ~armed'
      BY <2>1, Zenon
    <2>3. At' = At
      BY <2>1 DEF At
    <2>. QED
      BY <1>r, <1>u, <1>w, <2>1, <2>2, <2>3, LifeGoesOn
  <1>14. CASE PeerReads
    <2>1. /\ UNCHANGED <<functors, batch, serverVars, status, revents, likeWriting>>
          /\ status # "DISCONNECTED" /\ At' = At
          /\ armed' => armed \/ likeWriting
      BY <1>14 DEF PeerReads, Open, loopVars, At
    <2>2. ~Registered => ~armed'
      BY <1>r, <1>t, <1>w, <2>1 DEF Registered
    <2>. QED
      BY <1>r, <1>u, <1>w, <2>1, <2>2, LifeGoesOn
  <1>15. CASE UNCHANGED vars
    <2>1. /\ UNCHANGED <<functors, batch, serverVars, status, revents, likeWriting, armed>>
          /\ At' = At
      BY <1>15 DEF vars, loopVars, sendVars, At
    <2>. QED
      BY <1>r, <1>u, <1>w, <2>1, LifeGoesOn
  <1>. QED
    BY <1>1, <1>2, <1>3, <1>4, <1>5, <1>d, <1>6, <1>7, <1>e, <1>8, <1>9, <1>10,
       <1>11, <1>12, <1>f, <1>13, <1>14, <1>15
    DEF Next, Loop

-----------------------------------------------------------------------------
(* The kernel's flags.                                                     *)

FlagTypes == rfin \in BOOLEAN /\ soerr \in BOOLEAN /\ armed \in BOOLEAN

(* Every step leaves the flags Boolean. *)
LEMMA FlagsNext ==
    ASSUME FlagTypes, likeWriting \in BOOLEAN, [Next]_vars
    PROVE  FlagTypes'
  <1>r. ASSUME Rearmed \/ UNCHANGED armed PROVE armed' \in BOOLEAN
    BY <1>r, Zenon DEF Rearmed, FlagTypes
  <1>g. Registered \in BOOLEAN
    BY DEF Registered
  <1>1. CASE EpollWait \/ connectDestroyed \/ DestroyGoesOn \/ CloseGoesOn
    BY <1>1, Zenon DEF EpollWait, connectDestroyed, DestroyGoesOn, Destroyed, CloseGoesOn,
                       FlagTypes, readVars
  <1>2. CASE CallbackReturns \/ TakeFunctors \/ FunctorsDone \/ shutdownInLoop
    BY <1>2, Zenon
    DEF CallbackReturns, TakeFunctors, FunctorsDone, shutdownInLoop, FlagTypes, readVars
  <1>3. CASE connectEstablished
    <2>1. UNCHANGED <<rfin, soerr>> /\ Rearmed
      BY <1>3 DEF connectEstablished, readVars
    <2>. QED
      BY <1>r, <2>1, Zenon DEF FlagTypes
  <1>4. CASE handleError
    BY <1>4, Zenon DEF handleError, FlagTypes, readVars
  <1>5. CASE handleRead
    <2>1. UNCHANGED <<rfin, armed>> /\ (soerr' = FALSE \/ soerr' = soerr)
      BY <1>5, Zenon DEF handleRead
    <2>. QED
      BY <2>1, Zenon DEF FlagTypes
  <1>6. CASE handleWrite
    <2>1. UNCHANGED rfin /\ soerr' = FALSE /\ (Rearmed \/ UNCHANGED armed)
      BY <1>6, Zenon DEF handleWrite, readVars
    <2>. QED
      BY <1>r, <2>1, Zenon DEF FlagTypes
  <1>7. ASSUME NEW len \in 1..MaxSent, send(len) PROVE FlagTypes'
    <2>1. UNCHANGED rfin /\ (Rearmed \/ UNCHANGED armed)
      BY <1>7, Zenon DEF send, readVars
    <2>2. \E d : soerr' = (soerr /\ ~d)
      BY <1>7, Zenon DEF send
    <2>. QED
      BY <1>r, <2>1, <2>2, Zenon DEF FlagTypes
  <1>8. ASSUME NEW len \in 1..MAXSIZE, Consume(len) PROVE FlagTypes'
    BY <1>8, Zenon DEF Consume, FlagTypes
  <1>9. CASE shutdown \/ LeaderRemoves \/ ServerDestroys
    BY <1>9, Zenon DEF shutdown, LeaderRemoves, ServerDestroys, FlagTypes, readVars
  <1>10. CASE PeerSends
    BY <1>g, <1>10, Zenon DEF PeerSends, FlagTypes
  <1>11. CASE PeerFinishes
    BY <1>g, <1>11, Zenon DEF PeerFinishes, FlagTypes
  <1>12. CASE PeerReads
    BY <1>12, Zenon DEF PeerReads, FlagTypes, readVars
  <1>13. CASE PeerResets
    BY <1>g, <1>13, Zenon DEF PeerResets, FlagTypes, readVars
  <1>14. CASE UNCHANGED vars
    BY <1>14, Zenon DEF vars, FlagTypes, readVars
  <1>. QED
    BY <1>1, <1>2, <1>3, <1>4, <1>5, <1>6, <1>7, <1>8, <1>9, <1>10, <1>11, <1>12,
       <1>13, <1>14
    DEF Next, Loop

-----------------------------------------------------------------------------
(* The whole invariant.                                                    *)

(* The parts proved above, put together. *)
Inv == SendInv /\ LoopInv /\ LifeInv /\ FlagTypes

(* The parts are ConnectionInv and StreamIntact. *)
LEMMA Parts == Inv => ConnectionInv /\ StreamIntact
  <1>. SUFFICES ASSUME Inv PROVE ConnectionInv /\ StreamIntact
    OBVIOUS
  <1>1. TypeOK
    BY DEF Inv, SendInv, SendTypes, LoopInv, LoopTypes, ReadTypes, FlagTypes, TypeOK
  <1>2. ConnectionInv
    BY <1>1 DEF Inv, SendInv, LoopInv, LifeInv, ConnectionInv
  <1>3. StreamIntact
    BY DEF Inv, SendInv, Whole, Ends, Stream, StreamIntact
  <1>. QED
    BY <1>2, <1>3

(* A connection that is not yet established satisfies the invariant. *)
LEMMA InvInit == Init => Inv
  <1>. SUFFICES ASSUME Init PROVE Inv
    OBVIOUS
  <1>1. SendInv
    BY SendInit
  <1>2. LoopInv
    <2>1. functors \in Seq(Functor) /\ batch \in Seq(Functor)
      BY DEF Init, Functor
    <2>. QED
      BY <2>1, ConnectionAssumption
      DEF Init, LoopInv, LoopTypes, ReadTypes, RoundInOrder, At
  <1>3. Queue = <<"connectEstablished">>
    <2>1. functors \in Seq(Functor) /\ batch = <<>>
      BY DEF Init, Functor
    <2>2. batch \o functors = functors
      BY <2>1, ConcatEmptySeq
    <2>. QED
      BY <2>2 DEF Init, Queue
  <1>4. Len(Queue) = 1 /\ Queue[1] = "connectEstablished"
    BY <1>3
  <1>5. \A i \in 1..Len(Queue) : Queue[i] = "connectEstablished"
    BY <1>4
  <1>6. LifeInv
    <2>1. ~DestroyBehind(0)
      BY <1>5 DEF DestroyBehind
    <2>2. \A i \in 2..Len(Queue) : FALSE
      BY <1>4
    <2>3. At = "wait"
      BY DEF Init, At
    <2>. QED
      BY <1>4, <1>5, <2>1, <2>2, <2>3
      DEF Init, LifeInv, LifeCycle, ShutdownBeforeDestroy, Registered
  <1>7. FlagTypes
    BY DEF Init, FlagTypes
  <1>. QED
    BY <1>1, <1>2, <1>6, <1>7 DEF Inv

(* Every step keeps it. *)
LEMMA InvNext == Inv /\ [Next]_vars => Inv'
  <1>. SUFFICES ASSUME Inv, [Next]_vars PROVE Inv'
    OBVIOUS
  <1>1. SendInv'
    BY SendNext DEF Inv
  <1>2. LoopTypes' /\ ReadTypes' /\ RoundInOrder'
    BY LoopRounds DEF Inv
  <1>3. QueueTypes' /\ LifeInv'
    BY LifeNext DEF Inv
  <1>4. FlagTypes'
    BY FlagsNext DEF Inv, SendInv, SendTypes
  <1>. QED
    BY <1>1, <1>2, <1>3, <1>4 DEF Inv, LoopInv, QueueTypes

(* The connection keeps its bookkeeping in order under every interleaving  *)
(* of the loop, the callbacks, the leader, ~TcpServer and the peer: it     *)
(* likes writing exactly while outputBuffer holds bytes, sends its end of  *)
(* stream only behind the data, is alive for every functor that is bound   *)
(* to it, runs shutdownInLoop behind connectDestroyed only while its       *)
(* server is being destroyed, and handles no event outside its registered  *)
(* life.  An append overruns outputBuffer only with more bytes pending     *)
(* than the buffer's initial size; what follows that is not described.     *)
THEOREM ConnectionCorrect == Spec => []ConnectionInv
  <1>1. Inv => ConnectionInv
    BY Parts
  <1>. QED
    BY <1>1, InvInit, InvNext, PTL DEF Spec

(* No byte that send accepted is lost, repeated or reordered on its way    *)
(* through outputBuffer and the kernel to the peer, for any sizes, as long *)
(* as no append has overrun outputBuffer.                                  *)
THEOREM StreamKept == Spec => []StreamIntact
  <1>1. Inv => StreamIntact
    BY Parts
  <1>. QED
    BY <1>1, InvInit, InvNext, PTL DEF Spec

-----------------------------------------------------------------------------
(* Edge triggering.                                                        *)

(* Unread bytes of a connection that is up are announced by an event that  *)
(* is to come or is being handled, unless the input buffer was full.       *)
Unread ==
    status = "CONNECTED" /\ rcv > 0 =>
        armed \/ "IN" \in revents \/ (lastRead = "full" /\ inCap >= MAXSIZE)

(* A step that leaves the receiving side and the events alone. *)
LEMMA UnreadStays ==
    ASSUME Unread, UNCHANGED <<status, rcv, lastRead, inCap>>,
           armed => armed' \/ "IN" \in revents', "IN" \in revents => "IN" \in revents'
    PROVE  Unread'
  BY DEF Unread

(* Every step keeps unread bytes announced. *)
LEMMA UnreadNext == Inv /\ Unread /\ [Next]_vars => Unread'
  <1>. SUFFICES ASSUME Inv, Unread, [Next]_vars PROVE Unread'
    OBVIOUS
  <1>a. rcv \in Nat /\ inCap \in Nat /\ MAXSIZE \in Nat /\ ReadTypes
    BY ConnectionAssumption DEF Inv, LoopInv, ReadTypes
  <1>r. ASSUME Rearmed PROVE armed => armed'
    BY <1>r DEF Rearmed
  <1>1. CASE EpollWait
    <2>1. /\ UNCHANGED <<status, rcv, lastRead, inCap>> /\ pc = "wait"
          /\ armed => revents' = Ready
      BY <1>1 DEF EpollWait, readVars
    <2>2. revents = {}
      BY <2>1 DEF Inv, LoopInv, RoundInOrder, At
    <2>3. rcv > 0 => "IN" \in Ready
      BY DEF Ready
    <2>. QED
      BY <2>1, <2>2, <2>3 DEF Unread
  <1>2. CASE CallbackReturns \/ TakeFunctors \/ FunctorsDone \/ shutdownInLoop
    <2>1. UNCHANGED <<status, rcv, lastRead, inCap, armed, revents>>
      BY <1>2 DEF CallbackReturns, TakeFunctors, FunctorsDone, shutdownInLoop, readVars
    <2>. QED
      BY <2>1, UnreadStays
  <1>3. CASE connectEstablished
    <2>1. rcv' > 0 => "IN" \in Ready'
      BY DEF Ready
    <2>2. Rearmed
      BY <1>3 DEF connectEstablished
    <2>3. rcv' > 0 => armed'
      <3>1. rcv' > 0 => Ready' # {}
        BY <2>1
      <3>. QED
        BY <2>2, <3>1, Zenon DEF Rearmed
    <2>. QED
      BY <2>3 DEF Unread
  <1>4. CASE connectDestroyed
    <2>1. CASE status' = "DISCONNECTED"
      BY <2>1 DEF Unread
    <2>2. CASE UNCHANGED <<status, rcv, lastRead, inCap, armed, revents>>
      BY <2>2, UnreadStays
    <2>. QED
      BY <1>4, <2>1, <2>2 DEF connectDestroyed, Destroyed, readVars
  <1>d. CASE DestroyGoesOn \/ CloseGoesOn
    BY <1>d DEF DestroyGoesOn, Destroyed, CloseGoesOn, Removed, Unread
  <1>5. CASE handleError
    <2>1. UNCHANGED <<status, rcv, lastRead, inCap, armed>> /\ revents' = revents \ {"ERR"}
      BY <1>5 DEF handleError, readVars
    <2>2. "IN" \in revents => "IN" \in revents'
      BY <2>1
    <2>. QED
      BY <2>1, <2>2, UnreadStays
  <1>6. CASE handleRead
    <2>1. UNCHANGED armed /\ "IN" \in revents
      BY <1>6 DEF handleRead
    <2>2. CASE UNCHANGED revents
      BY <2>1, <2>2 DEF Unread
    <2>3. CASE rcv' > 0 => lastRead' = "full" /\ inCap' >= MAXSIZE
      BY <2>3 DEF Unread
    <2>4. \/ UNCHANGED revents
          \/ rcv' > 0 => lastRead' = "full" /\ inCap' >= MAXSIZE
      BY <1>6, <1>a, ReadStep DEF EventEnds
    <2>. QED
      BY <2>2, <2>3, <2>4
  <1>7. CASE handleWrite
    <2>1. /\ UNCHANGED <<status, rcv, lastRead, inCap>> /\ "IN" \notin revents
          /\ Rearmed \/ UNCHANGED armed
      BY <1>7 DEF handleWrite, readVars
    <2>2. armed => armed'
      BY <1>r, <2>1, Zenon
    <2>. QED
      BY <2>1, <2>2, UnreadStays
  <1>8. ASSUME NEW len \in 1..MaxSent, send(len) PROVE Unread'
    <2>1. /\ UNCHANGED <<status, rcv, lastRead, inCap, revents>>
          /\ Rearmed \/ UNCHANGED armed
      BY <1>8, Zenon DEF send, readVars, loopVars
    <2>2. armed => armed'
      BY <1>r, <2>1, Zenon
    <2>. QED
      BY <2>1, <2>2, UnreadStays
  <1>9. ASSUME NEW len \in 1..MAXSIZE, Consume(len) PROVE Unread'
    <2>1. UNCHANGED <<status, rcv, lastRead, inCap, armed, revents>>
      BY <1>9 DEF Consume, loopVars
    <2>. QED
      BY <2>1, UnreadStays
  <1>10. CASE shutdown \/ LeaderRemoves \/ ServerDestroys
    <2>1. UNCHANGED <<status, rcv, lastRead, inCap, armed, revents>>
      BY <1>10 DEF shutdown, LeaderRemoves, ServerDestroys, loopVars, readVars
    <2>. QED
      BY <2>1, UnreadStays
  <1>11. CASE PeerSends \/ PeerFinishes \/ PeerResets
    <2>1. UNCHANGED status /\ armed' = Registered
      BY <1>11 DEF PeerSends, PeerFinishes, PeerResets
    <2>2. status' = "CONNECTED" => armed'
      BY <2>1 DEF Registered
    <2>. QED
      BY <2>2 DEF Unread
  <1>12. CASE PeerReads
    <2>1. UNCHANGED <<status, rcv, lastRead, inCap, revents>> /\ (armed => armed')
      BY <1>12 DEF PeerReads, loopVars, readVars
    <2>. QED
      BY <2>1, UnreadStays
  <1>13. CASE UNCHANGED vars
    <2>1. UNCHANGED <<status, rcv, lastRead, inCap, armed, revents>>
      BY <1>13 DEF vars, loopVars, readVars
    <2>. QED
      BY <2>1, UnreadStays
  <1>. QED
    BY <1>1, <1>2, <1>3, <1>4, <1>d, <1>5, <1>6, <1>7, <1>8, <1>9, <1>10, <1>11, <1>12,
       <1>13
    DEF Next, Loop

(* No wakeup is lost to edge triggering: when the loop waits and no event  *)
(* for the connection is to come, bytes are left in the kernel only behind *)
(* a read that found the input buffer full at its maximum.                 *)
THEOREM NoLostWakeup == Spec => []UnreadOnlyWhenFull
  <1>1. Init => Unread
    BY DEF Init, Unread
  <1>2. Inv /\ Unread => UnreadOnlyWhenFull
    <2>. SUFFICES ASSUME Inv, Unread, Quiet, rcv > 0
                  PROVE  lastRead = "full" /\ inCap >= MAXSIZE
      BY DEF UnreadOnlyWhenFull
    <2>1. pc = "wait" /\ ~armed /\ status = "CONNECTED"
      BY DEF Quiet
    <2>2. revents = {}
      BY <2>1 DEF Inv, LoopInv, RoundInOrder, At
    <2>. QED
      BY <2>1, <2>2 DEF Unread
  <1>. QED
    BY <1>1, <1>2, InvInit, InvNext, UnreadNext, PTL DEF Spec
=============================================================================
