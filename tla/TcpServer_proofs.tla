-------------------------- MODULE TcpServer_proofs --------------------------
(***************************************************************************)
(* The safety invariants of TcpServer, and that it implements the life of  *)
(* connections in ConnectionLife, proved for any number of followers,      *)
(* descriptors, connections and events.  What they say of connections      *)
(* holds as long as none is removed twice (RemovedOnce); afterwards it     *)
(* does not.                                                               *)
(***************************************************************************)
EXTENDS TcpServer, SequenceTheorems, WellFoundedInduction, TLAPS

Live == {"CONNECTING", "CONNECTED", "DISCONNECTING"}

E(c) == [op |-> "connectEstablished", conn |-> c]
D(c) == [op |-> "connectDestroyed", conn |-> c]

Elements(s) == {s[i] : i \in 1..Len(s)}

(* In a follower's queue nothing but quit is there twice, and what         *)
(* establishes a connection is before what destroys it.                    *)
InLine(s) ==
    /\ \A i, j \in 1..Len(s) : s[i] = s[j] /\ s[i].op # "quit" => i = j
    /\ \A i, j \in 1..Len(s), c \in Conns : s[i] = D(c) /\ s[j] = E(c) => j < i

Once(s) == \A i, j \in 1..Len(s) : s[i] = s[j] => i = j

-----------------------------------------------------------------------------
(* Queues that are run from a batch, which is taken from a list.           *)

(* What is appended is behind all the rest. *)
LEMMA Joins ==
    ASSUME NEW S, NEW s \in Seq(S), NEW e \in S
    PROVE  /\ Append(s, e) \in Seq(S)
           /\ Elements(Append(s, e)) = Elements(s) \cup {e}
           /\ e \notin Elements(s) /\ Once(s) => Once(Append(s, e))
  <1>1. PICK n \in Nat : n = Len(s)
    OBVIOUS
  <1>d. DEFINE t == Append(s, e)
  <1>2. /\ t \in Seq(S) /\ Len(t) = n + 1 /\ t[n + 1] = e
        /\ \A i \in 1..n : t[i] = s[i]
    BY <1>1, AppendProperties
  <1>h. HIDE DEF t
  <1>3. \A i \in 1..(n + 1) : i \in 1..n \/ i = n + 1
    BY <1>1
  <1>4. n + 1 \in 1..(n + 1) /\ \A i \in 1..n : i \in 1..(n + 1)
    BY <1>1
  <1>5. Elements(t) = Elements(s) \cup {e}
    BY <1>1, <1>2, <1>3, <1>4 DEF Elements
  <1>6. ASSUME e \notin Elements(s), Once(s) PROVE Once(t)
    BY <1>1, <1>2, <1>3, <1>6 DEF Elements, Once
  <1>. QED
    BY <1>2, <1>5, <1>6 DEF t

(* The same for functors. *)
LEMMA FunctorJoins ==
    ASSUME NEW s \in Seq(Functor), NEW e \in Functor, InLine(s),
           e.op # "quit" => e \notin Elements(s),
           \A c \in Conns : e = E(c) => D(c) \notin Elements(s)
    PROVE  InLine(Append(s, e))
  <1>1. PICK n \in Nat : n = Len(s)
    OBVIOUS
  <1>d. DEFINE t == Append(s, e)
  <1>2. /\ Len(t) = n + 1 /\ t[n + 1] = e
        /\ \A i \in 1..n : t[i] = s[i]
    BY <1>1, AppendProperties
  <1>h. HIDE DEF t
  <1>3. \A i \in 1..(n + 1) : i \in 1..n \/ i = n + 1
    BY <1>1
  <1>4. ASSUME NEW i \in 1..(n + 1), NEW j \in 1..(n + 1), t[i] = t[j], t[i].op # "quit"
        PROVE  i = j
    <2>1. CASE i \in 1..n /\ j \in 1..n
      BY <1>1, <1>2, <1>4, <2>1 DEF InLine
    <2>2. CASE i \in 1..n /\ j = n + 1
      BY <1>1, <1>2, <1>4, <2>2 DEF Elements
    <2>3. CASE i = n + 1 /\ j \in 1..n
      BY <1>1, <1>2, <1>4, <2>3 DEF Elements
    <2>. QED
      BY <1>3, <2>1, <2>2, <2>3
  <1>5. ASSUME NEW i \in 1..(n + 1), NEW j \in 1..(n + 1), NEW c \in Conns,
               t[i] = D(c), t[j] = E(c)
        PROVE  j < i
    <2>1. CASE i \in 1..n /\ j \in 1..n
      BY <1>1, <1>2, <1>5, <2>1 DEF InLine
    <2>2. CASE i \in 1..n /\ j = n + 1
      BY <1>1, <1>2, <1>5, <2>2 DEF Elements
    <2>3. CASE i = n + 1 /\ j \in 1..n
      BY <2>3
    <2>4. CASE i = n + 1 /\ j = n + 1
      BY <1>5, <2>4 DEF D, E
    <2>. QED
      BY <1>3, <2>1, <2>2, <2>3, <2>4
  <1>. QED
    BY <1>2, <1>4, <1>5 DEF InLine, t

(* The first of a queue and the others. *)
LEMMA Leaves ==
    ASSUME NEW S, NEW s \in Seq(S), s # <<>>
    PROVE  /\ Head(s) \in Elements(s) /\ Tail(s) \in Seq(S)
           /\ Elements(s) = Elements(Tail(s)) \cup {Head(s)}
           /\ Once(s) => Once(Tail(s)) /\ Head(s) \notin Elements(Tail(s))
  <1>1. PICK n \in Nat : n = Len(s) /\ n > 0
    BY EmptySeq
  <1>d. DEFINE t == Tail(s)
  <1>2. /\ t \in Seq(S) /\ Len(t) = n - 1 /\ Head(s) = s[1]
        /\ \A i \in 1..(n - 1) : t[i] = s[i + 1]
    BY <1>1, HeadTailProperties
  <1>h. HIDE DEF t
  <1>3. /\ \A i \in 1..n : i = 1 \/ (i - 1 \in 1..(n - 1) /\ (i - 1) + 1 = i)
        /\ \A i \in 1..(n - 1) : i + 1 \in 1..n /\ i + 1 # 1
        /\ 1 \in 1..n
    BY <1>1
  <1>4. ASSUME NEW x \in Elements(s) PROVE x \in Elements(t) \cup {Head(s)}
    <2>1. PICK i \in 1..n : x = s[i]
      BY <1>1, <1>4 DEF Elements
    <2>2. CASE i = 1
      BY <1>2, <2>1, <2>2
    <2>3. CASE i - 1 \in 1..(n - 1) /\ (i - 1) + 1 = i
      <3>1. t[i - 1] = x
        BY <1>2, <2>1, <2>3
      <3>. QED
        BY <1>2, <2>3, <3>1 DEF Elements
    <2>. QED
      BY <1>3, <2>2, <2>3
  <1>5. ASSUME NEW x \in Elements(t) PROVE x \in Elements(s)
    BY <1>1, <1>2, <1>3 DEF Elements
  <1>6. Head(s) \in Elements(s)
    BY <1>1, <1>2, <1>3 DEF Elements
  <1>7. ASSUME Once(s) PROVE Once(t) /\ Head(s) \notin Elements(t)
    <2>1. \A i, j \in 1..n : s[i] = s[j] => i = j
      BY <1>1, <1>7 DEF Once
    <2>2. ASSUME NEW i \in 1..(n - 1), NEW j \in 1..(n - 1), t[i] = t[j] PROVE i = j
      <3>1. s[i + 1] = s[j + 1]
        BY <1>2, <2>2
      <3>2. i + 1 = j + 1
        BY <1>3, <2>1, <3>1
      <3>. QED
        BY <3>2
    <2>3. ASSUME NEW i \in 1..(n - 1) PROVE t[i] # Head(s)
      BY <1>2, <1>3, <2>1
    <2>. QED
      BY <1>2, <2>2, <2>3 DEF Once, Elements
  <1>. QED
    BY <1>2, <1>4, <1>5, <1>6, <1>7 DEF t

(* The same for functors. *)
LEMMA FunctorLeaves ==
    ASSUME NEW s \in Seq(Functor), s # <<>>, InLine(s)
    PROVE  /\ InLine(Tail(s))
           /\ Head(s).op # "quit" => Head(s) \notin Elements(Tail(s))
           /\ \A c \in Conns : Head(s) = D(c) => E(c) \notin Elements(s)
  <1>1. PICK n \in Nat : n = Len(s) /\ n > 0
    BY EmptySeq
  <1>d. DEFINE t == Tail(s)
  <1>2. /\ Len(t) = n - 1 /\ Head(s) = s[1]
        /\ \A i \in 1..(n - 1) : t[i] = s[i + 1]
    BY <1>1, HeadTailProperties
  <1>h. HIDE DEF t
  <1>3. /\ \A i \in 1..(n - 1) : i + 1 \in 1..n /\ i + 1 # 1
        /\ 1 \in 1..n /\ \A i \in 1..n : ~(i < 1)
    BY <1>1
  <1>4. /\ \A i, j \in 1..n : s[i] = s[j] /\ s[i].op # "quit" => i = j
        /\ \A i, j \in 1..n, c \in Conns : s[i] = D(c) /\ s[j] = E(c) => j < i
    BY <1>1 DEF InLine
  <1>5. ASSUME NEW i \in 1..(n - 1), NEW j \in 1..(n - 1), t[i] = t[j], t[i].op # "quit"
        PROVE  i = j
    <2>1. s[i + 1] = s[j + 1] /\ s[i + 1].op # "quit"
      BY <1>2, <1>5
    <2>2. i + 1 = j + 1
      BY <1>3, <1>4, <2>1
    <2>. QED
      BY <2>2
  <1>6. ASSUME NEW i \in 1..(n - 1), NEW j \in 1..(n - 1), NEW c \in Conns,
               t[i] = D(c), t[j] = E(c)
        PROVE  j < i
    <2>1. s[i + 1] = D(c) /\ s[j + 1] = E(c)
      BY <1>2, <1>6
    <2>2. j + 1 < i + 1
      BY <1>3, <1>4, <2>1
    <2>. QED
      BY <2>2
  <1>7. InLine(t)
    BY <1>2, <1>5, <1>6 DEF InLine
  <1>8. ASSUME Head(s).op # "quit", NEW i \in 1..(n - 1) PROVE t[i] # Head(s)
    BY <1>2, <1>3, <1>4, <1>8
  <1>9. ASSUME NEW c \in Conns, Head(s) = D(c), NEW j \in 1..n PROVE s[j] # E(c)
    BY <1>2, <1>3, <1>4, <1>9
  <1>. QED
    BY <1>1, <1>2, <1>7, <1>8, <1>9 DEF Elements, t

(* A run of what has been taken, with what has come since. *)
Rest(b, p, q) == SubSeq(b, p + 1, Len(b)) \o q

(* What is left of the batch. *)
LEMMA Remainder ==
    ASSUME NEW S, NEW b \in Seq(S), NEW p \in Nat, p <= Len(b)
    PROVE  /\ SubSeq(b, p + 1, Len(b)) \in Seq(S)
           /\ Len(SubSeq(b, p + 1, Len(b))) = Len(b) - p
           /\ \A i \in 1..(Len(b) - p) : SubSeq(b, p + 1, Len(b))[i] = b[p + i]
  <1>1. PICK n \in Nat : n = Len(b)
    OBVIOUS
  <1>2. \A i \in (p + 1)..n : b[i] \in S
    BY <1>1
  <1>3. /\ SubSeq(b, p + 1, n) \in Seq(S)
        /\ Len(SubSeq(b, p + 1, n)) = IF p + 1 <= n THEN n - (p + 1) + 1 ELSE 0
        /\ \A i \in 1..(n - (p + 1) + 1) : SubSeq(b, p + 1, n)[i] = b[p + 1 + i - 1]
    BY <1>1, <1>2, SubSeqProperties
  <1>4. n - (p + 1) + 1 = n - p /\ (~(p + 1 <= n) => n - p = 0)
        /\ \A i \in 1..(n - p) : p + 1 + i - 1 = p + i
    BY <1>1
  <1>. QED
    BY <1>1, <1>3, <1>4

(* The queue is a sequence, and grows at its end. *)
LEMMA RestGrows ==
    ASSUME NEW S, NEW b \in Seq(S), NEW q \in Seq(S), NEW p \in Nat, p <= Len(b)
    PROVE  /\ Rest(b, p, q) \in Seq(S)
           /\ \A e \in S : Rest(b, p, Append(q, e)) = Append(Rest(b, p, q), e)
  <1>1. PICK u \in Seq(S) : u = SubSeq(b, p + 1, Len(b))
    BY Remainder
  <1>2. u \o q \in Seq(S)
    BY ConcatProperties
  <1>3. ASSUME NEW e \in S PROVE u \o Append(q, e) = Append(u \o q, e)
    <2>1. <<e>> \in Seq(S)
      OBVIOUS
    <2>2. Append(u \o q, e) = (u \o q) \o <<e>>
      BY <1>2, AppendIsConcat
    <2>3. Append(q, e) = q \o <<e>>
      BY AppendIsConcat
    <2>4. (u \o q) \o <<e>> = u \o (q \o <<e>>)
      BY <2>1, ConcatAssociative
    <2>. QED
      BY <2>2, <2>3, <2>4
  <1>. QED
    BY <1>1, <1>2, <1>3 DEF Rest

(* A batch that has been run leaves the list. *)
LEMMA RestIsList ==
    ASSUME NEW S, NEW b \in Seq(S), NEW q \in Seq(S)
    PROVE  /\ Rest(b, Len(b), q) = q
           /\ Rest(<<>>, 0, q) = q
           /\ Rest(q, 0, <<>>) = q
  <1>1. SubSeq(b, Len(b) + 1, Len(b)) = <<>>
    BY SubSeqEmpty
  <1>2. SubSeq(<<>>, 0 + 1, Len(<<>>)) = <<>>
    BY SubSeqEmpty
  <1>3. SubSeq(q, 1, Len(q)) = q
    BY SubSeqFull
  <1>4. <<>> \o q = q /\ q \o <<>> = q /\ 0 + 1 = 1
    BY ConcatEmptySeq
  <1>. QED
    BY <1>1, <1>2, <1>3, <1>4 DEF Rest

(* The first of two queues in a row is the first of the first. *)
LEMMA HeadTailConcat ==
    ASSUME NEW S, NEW u \in Seq(S), NEW q \in Seq(S), u # <<>>
    PROVE  u \o q # <<>> /\ Head(u \o q) = Head(u) /\ Tail(u \o q) = Tail(u) \o q
  <1>1. PICK k \in Nat : Len(u) = k + 1
    <2>1. Len(u) \in Nat /\ Len(u) > 0
      BY EmptySeq
    <2>2. Len(u) - 1 \in Nat /\ Len(u) = (Len(u) - 1) + 1
      BY <2>1
    <2>. QED
      BY <2>2
  <1>2. PICK n \in Nat : n = Len(q)
    OBVIOUS
  <1>d. DEFINE t == Tail(u)
               x == u \o q
               y == t \o q
  <1>3. t \in Seq(S) /\ Len(t) = k /\ \A i \in 1..k : t[i] = u[i + 1]
    BY <1>1, HeadTailProperties
  <1>h. HIDE DEF t
  <1>4. /\ x \in Seq(S) /\ Len(x) = k + 1 + n
        /\ \A i \in 1..(k + 1 + n) : x[i] = IF i <= k + 1 THEN u[i] ELSE q[i - (k + 1)]
    <2>1. /\ x \in Seq(S) /\ Len(x) = Len(u) + Len(q)
          /\ \A i \in 1..(Len(u) + Len(q)) :
                x[i] = IF i <= Len(u) THEN u[i] ELSE q[i - Len(u)]
      BY ConcatProperties
    <2>. QED
      BY <1>1, <1>2, <2>1
  <1>5. /\ y \in Seq(S) /\ Len(y) = k + n
        /\ \A i \in 1..(k + n) : y[i] = IF i <= k THEN t[i] ELSE q[i - k]
    <2>1. /\ y \in Seq(S) /\ Len(y) = Len(t) + Len(q)
          /\ \A i \in 1..(Len(t) + Len(q)) :
                y[i] = IF i <= Len(t) THEN t[i] ELSE q[i - Len(t)]
      BY <1>3, ConcatProperties
    <2>. QED
      BY <1>2, <1>3, <2>1
  <1>g. HIDE DEF x, y
  <1>6. x # <<>>
    BY <1>1, <1>2, <1>4
  <1>7. Head(x) = x[1] /\ Head(u) = u[1] /\ x[1] = u[1]
    BY <1>1, <1>2, <1>4, <1>6
  <1>8. /\ Tail(x) \in Seq(S) /\ Len(Tail(x)) = k + n
        /\ \A i \in 1..(k + n) : Tail(x)[i] = x[i + 1]
    <2>1. /\ Tail(x) \in Seq(S) /\ Len(Tail(x)) = Len(x) - 1
          /\ \A i \in 1..Len(Tail(x)) : Tail(x)[i] = x[i + 1]
      BY <1>4, <1>6, HeadTailProperties
    <2>2. Len(x) - 1 = k + n
      BY <1>4
    <2>. QED
      BY <2>1, <2>2
  <1>9. ASSUME NEW i \in 1..(k + n) PROVE Tail(x)[i] = y[i]
    <2>1. i + 1 \in 1..(k + 1 + n) /\ i \in 1..(k + n)
      BY <1>1, <1>2
    <2>2. Tail(x)[i] = IF i + 1 <= k + 1 THEN u[i + 1] ELSE q[i + 1 - (k + 1)]
      BY <1>4, <1>8, <2>1
    <2>3. y[i] = IF i <= k THEN t[i] ELSE q[i - k]
      BY <1>5, <2>1
    <2>4. CASE i + 1 <= k + 1
      <3>1. i \in 1..k /\ i <= k
        BY <2>4
      <3>. QED
        BY <1>3, <2>2, <2>3, <2>4, <3>1
    <2>5. CASE ~(i + 1 <= k + 1)
      <3>1. ~(i <= k) /\ i + 1 - (k + 1) = i - k
        BY <2>5
      <3>. QED
        BY <2>2, <2>3, <2>5, <3>1
    <2>. QED
      BY <2>4, <2>5
  <1>10. Len(y) = k + n
    BY <1>5
  <1>11. Tail(x) = y
    BY <1>5, <1>8, <1>9, <1>10, SeqEqual
  <1>. QED
    BY <1>6, <1>7, <1>11 DEF x, y, t

(* The next of the batch is the first of the queue. *)
LEMMA RestLeaves ==
    ASSUME NEW S, NEW b \in Seq(S), NEW q \in Seq(S), NEW p \in Nat, p < Len(b)
    PROVE  /\ Rest(b, p, q) # <<>>
           /\ Head(Rest(b, p, q)) = b[p + 1]
           /\ Rest(b, p + 1, q) = Tail(Rest(b, p, q))
  <1>1. PICK n \in Nat : n = Len(b) /\ p < n
    OBVIOUS
  <1>10. p + 1 \in Nat /\ p <= Len(b) /\ p + 1 <= Len(b)
    BY <1>1
  <1>2. PICK u \in Seq(S) : u = SubSeq(b, p + 1, Len(b))
    BY <1>10, Remainder
  <1>3. Len(u) = n - p /\ \A i \in 1..(n - p) : u[i] = b[p + i]
    BY <1>10, <1>1, <1>2, Remainder
  <1>4. PICK v \in Seq(S) : v = SubSeq(b, (p + 1) + 1, Len(b))
    BY <1>10, Remainder
  <1>5. Len(v) = n - (p + 1) /\ \A i \in 1..(n - (p + 1)) : v[i] = b[(p + 1) + i]
    BY <1>10, <1>1, <1>4, Remainder
  <1>6. u # <<>> /\ u[1] = b[p + 1]
    BY <1>1, <1>3
  <1>7. v = Tail(u)
    <2>1. /\ Tail(u) \in Seq(S) /\ Len(Tail(u)) = Len(u) - 1
          /\ \A i \in 1..Len(Tail(u)) : Tail(u)[i] = u[i + 1]
      BY <1>6, HeadTailProperties
    <2>4. (n - p) - 1 = n - (p + 1)
      BY <1>1
    <2>2. Len(Tail(u)) = Len(v) /\ Len(v) = n - (p + 1)
      BY <1>3, <1>5, <2>1, <2>4
    <2>3. ASSUME NEW i \in 1..Len(v) PROVE v[i] = Tail(u)[i]
      <3>1. i + 1 \in 1..(n - p) /\ i \in 1..(n - (p + 1)) /\ p + (i + 1) = (p + 1) + i
        BY <1>1, <1>5
      <3>2. Tail(u)[i] = u[i + 1]
        BY <2>1, <2>2
      <3>. QED
        BY <1>3, <1>5, <3>1, <3>2
    <2>. QED
      BY <2>1, <2>2, <2>3, SeqEqual
  <1>8. u \o q # <<>> /\ Head(u \o q) = Head(u) /\ Tail(u \o q) = Tail(u) \o q
    BY <1>6, HeadTailConcat
  <1>9. Head(u) = b[p + 1]
    BY <1>6, HeadTailProperties
  <1>. QED
    BY <1>2, <1>4, <1>7, <1>8, <1>9 DEF Rest

-----------------------------------------------------------------------------
(* The queues of the followers.                                            *)

QueueTypes ==
    /\ functors \in [Loops -> Seq(Functor)] /\ batch \in [Loops -> Seq(Functor)]
    /\ pos \in [Loops -> Nat] /\ \A f \in Loops : pos[f] <= Len(batch[f])
    /\ looper \in [Conns -> Loops \cup {None}]

(* Connections that are to be established, and those to be destroyed.      *)
Est == {c \in Conns : \E f \in Loops : E(c) \in Elements(Queue(f))}
Des == {c \in Conns : \E f \in Loops : D(c) \in Elements(Queue(f))}

(* What is queued for a connection is queued at its follower.              *)
Homed ==
    \A f \in Loops, c \in Conns :
        E(c) \in Elements(Queue(f)) \/ D(c) \in Elements(Queue(f)) => looper[c] = f

QueueInv == QueueTypes /\ Homed /\ \A f \in Loops : InLine(Queue(f))

(* The functors of different connections are different. *)
LEMMA Distinct ==
    /\ \A c, d : E(c) # D(d)
    /\ \A c, d : E(c) = E(d) => c = d
    /\ \A c, d : D(c) = D(d) => c = d
    /\ \A c : E(c).op = "connectEstablished" /\ D(c).op = "connectDestroyed"
    /\ \A c \in Conns : E(c) \in Functor /\ D(c) \in Functor
  <1>1. \A c, d : E(c) # D(d)
    <2>. SUFFICES ASSUME NEW c, NEW d, E(c) = D(d) PROVE FALSE
      OBVIOUS
    <2>1. E(c).op = D(d).op
      OBVIOUS
    <2>. QED
      BY <2>1 DEF E, D
  <1>2. ASSUME NEW c, NEW d, E(c) = E(d) PROVE c = d
    <2>1. E(c).conn = E(d).conn
      BY <1>2
    <2>. QED
      BY <2>1 DEF E
  <1>3. ASSUME NEW c, NEW d, D(c) = D(d) PROVE c = d
    <2>1. D(c).conn = D(d).conn
      BY <1>3
    <2>. QED
      BY <2>1 DEF D
  <1>4. \A c : E(c).op = "connectEstablished" /\ D(c).op = "connectDestroyed"
    BY DEF E, D
  <1>5. \A c \in Conns : E(c) \in Functor /\ D(c) \in Functor
    BY DEF E, D, Functor
  <1>. QED
    BY <1>1, <1>2, <1>3, <1>4, <1>5

(* A queue in terms of its parts. *)
LEMMA QueueIs ==
    ASSUME QueueTypes, NEW f \in Loops
    PROVE  /\ Queue(f) = Rest(batch[f], pos[f], functors[f])
           /\ batch[f] \in Seq(Functor) /\ functors[f] \in Seq(Functor)
           /\ pos[f] \in Nat /\ pos[f] <= Len(batch[f])
           /\ Queue(f) \in Seq(Functor)
  <1>1. /\ batch[f] \in Seq(Functor) /\ functors[f] \in Seq(Functor)
        /\ pos[f] \in Nat /\ pos[f] <= Len(batch[f])
    BY DEF QueueTypes
  <1>2. Queue(f) = Rest(batch[f], pos[f], functors[f])
    BY DEF Queue, Rest
  <1>3. Rest(batch[f], pos[f], functors[f]) \in Seq(Functor)
    BY <1>1, RestGrows
  <1>. QED
    BY <1>1, <1>2, <1>3

(* A functor is pushed. *)
LEMMA Pushed ==
    ASSUME QueueTypes, NEW f \in Loops, NEW op, NEW c, [op |-> op, conn |-> c] \in Functor,
           Push(f, op, c), UNCHANGED <<batch, pos>>, looper' \in [Conns -> Loops \cup {None}]
    PROVE  /\ QueueTypes'
           /\ Queue(f)' = Append(Queue(f), [op |-> op, conn |-> c])
           /\ \A h \in Loops : h # f => Queue(h)' = Queue(h)
  <1>1. PICK g \in Functor : g = [op |-> op, conn |-> c]
    OBVIOUS
  <1>2. functors' = [functors EXCEPT ![f] = Append(@, g)]
    BY <1>1 DEF Push
  <1>3. functors[f] \in Seq(Functor) /\ Append(functors[f], g) \in Seq(Functor)
    BY DEF QueueTypes
  <1>4. functors' \in [Loops -> Seq(Functor)]
    BY <1>2, <1>3 DEF QueueTypes
  <1>5. QueueTypes'
    BY <1>4 DEF QueueTypes
  <1>6. /\ functors'[f] = Append(functors[f], g)
        /\ \A h \in Loops : h # f => functors'[h] = functors[h]
    BY <1>2 DEF QueueTypes
  <1>7. Queue(f)' = Rest(batch[f], pos[f], Append(functors[f], g))
    BY <1>6 DEF Queue, Rest
  <1>8. Rest(batch[f], pos[f], Append(functors[f], g))
          = Append(Rest(batch[f], pos[f], functors[f]), g)
    <2>1. \A e \in Functor : Rest(batch[f], pos[f], Append(functors[f], e))
                               = Append(Rest(batch[f], pos[f], functors[f]), e)
      BY QueueIs, RestGrows
    <2>. QED
      BY <2>1, Zenon
  <1>9. \A h \in Loops : h # f => Queue(h)' = Queue(h)
    BY <1>6 DEF Queue
  <1>10. Queue(f)' = Append(Queue(f), g)
    BY <1>7, <1>8, QueueIs
  <1>. QED
    BY <1>1, <1>5, <1>9, <1>10

(* A functor is called. *)
LEMMA Called ==
    ASSUME QueueTypes, NEW f \in Loops, NEW op, NEW c, Calls(f, op, c),
           UNCHANGED <<batch, functors, looper>>
    PROVE  /\ QueueTypes'
           /\ Queue(f) # <<>> /\ Head(Queue(f)) = [op |-> op, conn |-> c]
           /\ Queue(f)' = Tail(Queue(f))
           /\ \A h \in Loops : h # f => Queue(h)' = Queue(h)
  <1>1. /\ pos[f] < Len(batch[f]) /\ batch[f][pos[f] + 1] = [op |-> op, conn |-> c]
        /\ pos' = [pos EXCEPT ![f] = @ + 1]
    BY DEF Calls
  <1>2. pos'[f] = pos[f] + 1 /\ \A h \in Loops : h # f => pos'[h] = pos[h]
    BY <1>1 DEF QueueTypes
  <1>3. pos[f] + 1 \in Nat /\ pos[f] + 1 <= Len(batch[f])
    BY <1>1, QueueIs
  <1>4. pos' \in [Loops -> Nat]
    BY <1>1, <1>3 DEF QueueTypes
  <1>5. \A h \in Loops : pos'[h] <= Len(batch[h])
    BY <1>2, <1>3 DEF QueueTypes
  <1>6. QueueTypes'
    BY <1>4, <1>5 DEF QueueTypes
  <1>7. Queue(f)' = Rest(batch[f], pos[f] + 1, functors[f])
    BY <1>2 DEF Queue, Rest
  <1>8. /\ Rest(batch[f], pos[f], functors[f]) # <<>>
        /\ Head(Rest(batch[f], pos[f], functors[f])) = batch[f][pos[f] + 1]
        /\ Rest(batch[f], pos[f] + 1, functors[f]) = Tail(Rest(batch[f], pos[f], functors[f]))
    BY <1>1, QueueIs, RestLeaves
  <1>9. \A h \in Loops : h # f => Queue(h)' = Queue(h)
    BY <1>2 DEF Queue
  <1>. QED
    BY <1>1, <1>6, <1>7, <1>8, <1>9, QueueIs

(* The queues do not change when they are swapped or a batch ends. *)
LEMMA QueuesStay ==
    ASSUME QueueInv, QueueTypes', \A f \in Loops : Queue(f)' = Queue(f), UNCHANGED looper
    PROVE  QueueInv' /\ Est' = Est /\ Des' = Des
  <1>1. \A f \in Loops : InLine(Queue(f)')
    BY DEF QueueInv
  <1>2. \A f \in Loops, c \in Conns :
           E(c) \in Elements(Queue(f)') \/ D(c) \in Elements(Queue(f)') => looper[c] = f
    BY DEF QueueInv, Homed
  <1>3. QueueInv'
    BY <1>1, <1>2 DEF QueueInv, Homed
  <1>4. Est' = {c \in Conns : \E f \in Loops : E(c) \in Elements(Queue(f)')}
    BY DEF Est
  <1>5. Des' = {c \in Conns : \E f \in Loops : D(c) \in Elements(Queue(f)')}
    BY DEF Des
  <1>. QED
    BY <1>3, <1>4, <1>5 DEF Est, Des

(* What a push changes. *)
LEMMA PushEffect ==
    ASSUME QueueInv, NEW f \in Loops, NEW g \in Functor, Push(f, g.op, g.conn),
           UNCHANGED <<batch, pos>>, looper' \in [Conns -> Loops \cup {None}],
           g.op # "quit" => g \notin Elements(Queue(f)),
           \A d \in Conns : g = E(d) => D(d) \notin Elements(Queue(f)),
           \A d \in Est \cup Des : looper'[d] = looper[d],
           \A d \in Conns : g = E(d) \/ g = D(d) => looper'[d] = f
    PROVE  /\ QueueInv'
           /\ Est' = Est \cup {d \in Conns : g = E(d)}
           /\ Des' = Des \cup {d \in Conns : g = D(d)}
  <1>1. g = [op |-> g.op, conn |-> g.conn]
    BY DEF Functor
  <1>2. /\ QueueTypes'
        /\ Queue(f)' = Append(Queue(f), g)
        /\ \A h \in Loops : h # f => Queue(h)' = Queue(h)
    BY <1>1, Pushed DEF QueueInv
  <1>3. Queue(f) \in Seq(Functor)
    BY QueueIs DEF QueueInv
  <1>4. InLine(Queue(f)') /\ Elements(Queue(f)') = Elements(Queue(f)) \cup {g}
    <2>1. InLine(Queue(f))
      BY DEF QueueInv
    <2>2. InLine(Append(Queue(f), g))
      BY <1>3, <2>1, FunctorJoins
    <2>3. Elements(Append(Queue(f), g)) = Elements(Queue(f)) \cup {g}
      BY <1>3, Joins
    <2>. QED
      BY <1>2, <2>2, <2>3
  <1>5. \A h \in Loops : InLine(Queue(h)')
    BY <1>2, <1>4 DEF QueueInv
  <1>6. \A h \in Loops : Elements(Queue(h)') = Elements(Queue(h)) \cup (IF h = f THEN {g} ELSE {})
    BY <1>2, <1>4
  <1>7. ASSUME NEW h \in Loops, NEW d \in Conns,
               E(d) \in Elements(Queue(h)') \/ D(d) \in Elements(Queue(h)')
        PROVE  looper'[d] = h
    <2>1. CASE E(d) \in Elements(Queue(h)) \/ D(d) \in Elements(Queue(h))
      <3>1. d \in Est \cup Des /\ looper[d] = h
        BY <2>1 DEF QueueInv, Homed, Est, Des
      <3>. QED
        BY <3>1
    <2>2. CASE h = f /\ (g = E(d) \/ g = D(d))
      BY <2>2
    <2>. QED
      BY <1>6, <1>7, <2>1, <2>2
  <1>8. QueueInv'
    BY <1>2, <1>5, <1>7 DEF QueueInv, Homed
  <1>9. Est' = {d \in Conns : \E h \in Loops : E(d) \in Elements(Queue(h)')}
        /\ Des' = {d \in Conns : \E h \in Loops : D(d) \in Elements(Queue(h)')}
    BY DEF Est, Des
  <1>10. Est' = Est \cup {d \in Conns : g = E(d)}
    <2>1. ASSUME NEW d \in Conns
          PROVE  (\E h \in Loops : E(d) \in Elements(Queue(h)'))
                   <=> (\E h \in Loops : E(d) \in Elements(Queue(h))) \/ g = E(d)
      BY <1>6
    <2>. QED
      BY <1>9, <2>1 DEF Est
  <1>11. Des' = Des \cup {d \in Conns : g = D(d)}
    <2>1. ASSUME NEW d \in Conns
          PROVE  (\E h \in Loops : D(d) \in Elements(Queue(h)'))
                   <=> (\E h \in Loops : D(d) \in Elements(Queue(h))) \/ g = D(d)
      BY <1>6
    <2>. QED
      BY <1>9, <2>1 DEF Des
  <1>. QED
    BY <1>8, <1>10, <1>11

(* What a call changes: a functor is called once, and connectDestroyed     *)
(* only when connectEstablished is not queued any more.                    *)
LEMMA CallEffect ==
    ASSUME QueueInv, NEW f \in Loops, NEW g \in Functor, Calls(f, g.op, g.conn),
           UNCHANGED <<batch, functors, looper>>
    PROVE  /\ QueueInv'
           /\ Est' = Est \ {d \in Conns : g = E(d)}
           /\ Des' = Des \ {d \in Conns : g = D(d)}
           /\ \A d \in Conns : g = E(d) => d \in Est /\ looper[d] = f
           /\ \A d \in Conns : g = D(d) => d \in Des /\ d \notin Est /\ looper[d] = f
  <1>1. g = [op |-> g.op, conn |-> g.conn]
    BY DEF Functor
  <1>2. /\ QueueTypes' /\ Queue(f) # <<>> /\ Head(Queue(f)) = g
        /\ Queue(f)' = Tail(Queue(f))
        /\ \A h \in Loops : h # f => Queue(h)' = Queue(h)
    BY <1>1, Called DEF QueueInv
  <1>3. Queue(f) \in Seq(Functor) /\ InLine(Queue(f))
    BY QueueIs DEF QueueInv
  <1>4. /\ g \in Elements(Queue(f)) /\ Elements(Queue(f)) = Elements(Queue(f)') \cup {g}
    BY <1>2, <1>3, Leaves
  <1>5. /\ InLine(Queue(f)')
        /\ g.op # "quit" => g \notin Elements(Queue(f)')
        /\ \A d \in Conns : g = D(d) => E(d) \notin Elements(Queue(f))
    BY <1>2, <1>3, FunctorLeaves
  <1>6. \A h \in Loops : InLine(Queue(h)') /\ Elements(Queue(h)') \subseteq Elements(Queue(h))
    BY <1>2, <1>4, <1>5 DEF QueueInv
  <1>7. QueueInv'
    BY <1>2, <1>6 DEF QueueInv, Homed
  <1>8. Est' = {d \in Conns : \E h \in Loops : E(d) \in Elements(Queue(h)')}
        /\ Des' = {d \in Conns : \E h \in Loops : D(d) \in Elements(Queue(h)')}
    BY DEF Est, Des
  <1>9. \A h \in Loops, d \in Conns :
           E(d) \in Elements(Queue(h)) \/ D(d) \in Elements(Queue(h)) => looper[d] = h
    BY DEF QueueInv, Homed
  <1>10. ASSUME NEW d \in Conns
         PROVE  (\E h \in Loops : E(d) \in Elements(Queue(h)'))
                   <=> (\E h \in Loops : E(d) \in Elements(Queue(h))) /\ g # E(d)
    <2>1. g = E(d) => g.op # "quit"
      BY Distinct
    <2>2. ASSUME NEW h \in Loops, E(d) \in Elements(Queue(h)') PROVE g # E(d)
      BY <1>2, <1>4, <1>5, <1>9, <2>1, <2>2
    <2>. QED
      BY <1>2, <1>4, <1>6, <2>2
  <1>11. ASSUME NEW d \in Conns
         PROVE  (\E h \in Loops : D(d) \in Elements(Queue(h)'))
                   <=> (\E h \in Loops : D(d) \in Elements(Queue(h))) /\ g # D(d)
    <2>1. g = D(d) => g.op # "quit"
      BY Distinct
    <2>2. ASSUME NEW h \in Loops, D(d) \in Elements(Queue(h)') PROVE g # D(d)
      BY <1>2, <1>4, <1>5, <1>9, <2>1, <2>2
    <2>. QED
      BY <1>2, <1>4, <1>6, <2>2
  <1>12. Est' = Est \ {d \in Conns : g = E(d)}
    BY <1>8, <1>10 DEF Est
  <1>13. Des' = Des \ {d \in Conns : g = D(d)}
    BY <1>8, <1>11 DEF Des
  <1>14. ASSUME NEW d \in Conns, g = E(d) PROVE d \in Est /\ looper[d] = f
    BY <1>4, <1>9, <1>14 DEF Est
  <1>15. ASSUME NEW d \in Conns, g = D(d) PROVE d \in Des /\ d \notin Est /\ looper[d] = f
    <2>1. d \in Des /\ looper[d] = f
      BY <1>4, <1>9, <1>15 DEF Des
    <2>2. \A h \in Loops : E(d) \notin Elements(Queue(h))
      BY <1>5, <1>9, <1>15, <2>1
    <2>. QED
      BY <2>1, <2>2 DEF Est
  <1>. QED
    BY <1>7, <1>12, <1>13, <1>14, <1>15

(* The pushes of the program. *)
LEMMA PushesE ==
    ASSUME QueueInv, NEW f \in Loops, NEW c \in Conns, Push(f, "connectEstablished", c),
           UNCHANGED <<batch, pos>>, looper' = [looper EXCEPT ![c] = f], c \notin Est \cup Des
    PROVE  QueueInv' /\ Est' = Est \cup {c} /\ Des' = Des
  <1>1. PICK g \in Functor : g = E(c)
    BY Distinct
  <1>2. g.op = "connectEstablished" /\ g.conn = c
    BY <1>1 DEF E
  <1>3. looper \in [Conns -> Loops \cup {None}]
    BY DEF QueueInv, QueueTypes
  <1>4. /\ looper' \in [Conns -> Loops \cup {None}] /\ looper'[c] = f
        /\ \A d \in Est \cup Des : looper'[d] = looper[d]
    BY <1>3 DEF Est, Des
  <1>5. \A d \in Conns : (g = E(d) <=> d = c) /\ g # D(d)
    BY <1>1, Distinct
  <1>6. g \notin Elements(Queue(f)) /\ D(c) \notin Elements(Queue(f))
    BY <1>1 DEF Est, Des
  <1>7. Push(f, g.op, g.conn)
    BY <1>2
  <1>8. /\ QueueInv' /\ Est' = Est \cup {d \in Conns : g = E(d)}
        /\ Des' = Des \cup {d \in Conns : g = D(d)}
    BY <1>4, <1>5, <1>6, <1>7, PushEffect
  <1>. QED
    BY <1>5, <1>8

LEMMA PushesD ==
    ASSUME QueueInv, NEW c \in Conns, looper[c] \in Loops,
           Push(looper[c], "connectDestroyed", c), UNCHANGED <<batch, pos, looper>>, c \notin Des
    PROVE  QueueInv' /\ Est' = Est /\ Des' = Des \cup {c}
  <1>1. PICK g \in Functor : g = D(c)
    BY Distinct
  <1>2. g.op = "connectDestroyed" /\ g.conn = c
    BY <1>1 DEF D
  <1>3. PICK f \in Loops : f = looper[c]
    OBVIOUS
  <1>4. looper' \in [Conns -> Loops \cup {None}]
    BY DEF QueueInv, QueueTypes
  <1>5. \A d \in Conns : (g = D(d) <=> d = c) /\ g # E(d)
    BY <1>1, Distinct
  <1>6. g \notin Elements(Queue(f))
    BY <1>1 DEF Des
  <1>7. Push(f, g.op, g.conn)
    BY <1>2, <1>3
  <1>9. \A d \in Conns : g = E(d) \/ g = D(d) => looper'[d] = f
    BY <1>3, <1>5
  <1>8. /\ QueueInv' /\ Est' = Est \cup {d \in Conns : g = E(d)}
        /\ Des' = Des \cup {d \in Conns : g = D(d)}
    BY <1>4, <1>5, <1>6, <1>7, <1>9, PushEffect
  <1>. QED
    BY <1>5, <1>8

LEMMA PushesQuit ==
    ASSUME QueueInv, NEW f \in Loops, Push(f, "quit", None), UNCHANGED <<batch, pos, looper>>
    PROVE  QueueInv' /\ Est' = Est /\ Des' = Des
  <1>1. PICK g \in Functor : g = [op |-> "quit", conn |-> None]
    BY DEF Functor
  <1>2. g.op = "quit" /\ g.conn = None
    BY <1>1
  <1>4. looper' \in [Conns -> Loops \cup {None}]
    BY DEF QueueInv, QueueTypes
  <1>5. \A d \in Conns : g # D(d) /\ g # E(d)
    BY <1>2, Distinct
  <1>7. Push(f, g.op, g.conn)
    BY <1>2
  <1>8. /\ QueueInv' /\ Est' = Est \cup {d \in Conns : g = E(d)}
        /\ Des' = Des \cup {d \in Conns : g = D(d)}
    BY <1>2, <1>4, <1>5, <1>7, PushEffect
  <1>. QED
    BY <1>5, <1>8

(* The calls of the program. *)
LEMMA CallsE ==
    ASSUME QueueInv, NEW f \in Loops, NEW c \in Conns, Calls(f, "connectEstablished", c),
           UNCHANGED <<batch, functors, looper>>
    PROVE  QueueInv' /\ c \in Est /\ looper[c] = f /\ Est' = Est \ {c} /\ Des' = Des
  <1>1. PICK g \in Functor : g = E(c)
    BY Distinct
  <1>2. g.op = "connectEstablished" /\ g.conn = c
    BY <1>1 DEF E
  <1>3. Calls(f, g.op, g.conn)
    BY <1>2
  <1>4. \A d \in Conns : (g = E(d) <=> d = c) /\ g # D(d)
    BY <1>1, Distinct
  <1>5. /\ QueueInv' /\ Est' = Est \ {d \in Conns : g = E(d)}
        /\ Des' = Des \ {d \in Conns : g = D(d)}
        /\ \A d \in Conns : g = E(d) => d \in Est /\ looper[d] = f
    BY <1>3, CallEffect
  <1>. QED
    BY <1>4, <1>5

LEMMA CallsD ==
    ASSUME QueueInv, NEW f \in Loops, NEW c \in Conns, Calls(f, "connectDestroyed", c),
           UNCHANGED <<batch, functors, looper>>
    PROVE  /\ QueueInv' /\ c \in Des /\ c \notin Est /\ looper[c] = f
           /\ Est' = Est /\ Des' = Des \ {c}
  <1>1. PICK g \in Functor : g = D(c)
    BY Distinct
  <1>2. g.op = "connectDestroyed" /\ g.conn = c
    BY <1>1 DEF D
  <1>3. Calls(f, g.op, g.conn)
    BY <1>2
  <1>4. \A d \in Conns : (g = D(d) <=> d = c) /\ g # E(d)
    BY <1>1, Distinct
  <1>5. /\ QueueInv' /\ Est' = Est \ {d \in Conns : g = E(d)}
        /\ Des' = Des \ {d \in Conns : g = D(d)}
        /\ \A d \in Conns : g = D(d) => d \in Des /\ d \notin Est /\ looper[d] = f
    BY <1>3, CallEffect
  <1>. QED
    BY <1>4, <1>5

LEMMA CallsQuit ==
    ASSUME QueueInv, NEW f \in Loops, Calls(f, "quit", None), UNCHANGED <<batch, functors, looper>>
    PROVE  QueueInv' /\ Est' = Est /\ Des' = Des
  <1>1. PICK g \in Functor : g = [op |-> "quit", conn |-> None]
    BY DEF Functor
  <1>2. g.op = "quit" /\ g.conn = None
    BY <1>1
  <1>3. Calls(f, g.op, g.conn)
    BY <1>2
  <1>4. \A d \in Conns : g # D(d) /\ g # E(d)
    BY <1>2, Distinct
  <1>5. /\ QueueInv' /\ Est' = Est \ {d \in Conns : g = E(d)}
        /\ Des' = Des \ {d \in Conns : g = D(d)}
    BY <1>3, CallEffect
  <1>. QED
    BY <1>4, <1>5

-----------------------------------------------------------------------------
(* The queue of removals.                                                  *)

Running == lpc \notin {"destroy", "quit", "gone"}

(* Connections that the leader has still to remove.                        *)
R == Rest(lbatch, lpos, lfunctors)
Rem == Elements(R)

RemovalInv == Running => lpos <= Len(lbatch) /\ Once(R)

RemovalTypes ==
    /\ lbatch \in Seq(Conns) /\ lfunctors \in Seq(Conns) /\ lpos \in Nat
    /\ lpos <= Len(lbatch)

(* handleClose asks for a removal. *)
LEMMA RemovalAsked ==
    ASSUME RemovalTypes, NEW c \in Conns, lfunctors' = Append(lfunctors, c),
           UNCHANGED <<lbatch, lpos>>
    PROVE  Rem' = Rem \cup {c} /\ (c \notin Rem /\ Once(R) => Once(R'))
  <1>1. PICK b \in Seq(Conns), q \in Seq(Conns), p \in Nat :
           b = lbatch /\ q = lfunctors /\ p = lpos /\ p <= Len(b)
    BY DEF RemovalTypes
  <1>2. Rest(b, p, q) \in Seq(Conns) /\ Rest(b, p, Append(q, c)) = Append(Rest(b, p, q), c)
    <2>1. /\ Rest(b, p, q) \in Seq(Conns)
          /\ \A e \in Conns : Rest(b, p, Append(q, e)) = Append(Rest(b, p, q), e)
      BY <1>1, RestGrows
    <2>. QED
      BY <2>1, Zenon
  <1>3. R = Rest(b, p, q) /\ R' = Rest(b, p, Append(q, c))
    BY <1>1 DEF R
  <1>4. R \in Seq(Conns) /\ R' = Append(R, c)
    BY <1>2, <1>3, Zenon
  <1>5. /\ Elements(Append(R, c)) = Elements(R) \cup {c}
        /\ c \notin Elements(R) /\ Once(R) => Once(Append(R, c))
    BY <1>4, Joins
  <1>. QED
    BY <1>4, <1>5, Zenon DEF Rem

(* removeConnectionInLoop takes the next. *)
LEMMA RemovalDone ==
    ASSUME RemovalTypes, lpos < Len(lbatch), lpos' = lpos + 1, Once(R),
           UNCHANGED <<lbatch, lfunctors>>
    PROVE  /\ lbatch[lpos + 1] \in Rem /\ Rem' = Rem \ {lbatch[lpos + 1]} /\ Once(R')
           /\ lpos' \in Nat /\ lpos' <= Len(lbatch')
  <1>1. R \in Seq(Conns)
    BY RestGrows DEF R, RemovalTypes
  <1>2. /\ R # <<>> /\ Head(R) = lbatch[lpos + 1] /\ Rest(lbatch, lpos + 1, lfunctors) = Tail(R)
    BY RestLeaves DEF R, RemovalTypes
  <1>3. R' = Tail(R)
    BY <1>2 DEF R
  <1>4. /\ Head(R) \in Elements(R) /\ Elements(R) = Elements(Tail(R)) \cup {Head(R)}
        /\ Once(Tail(R)) /\ Head(R) \notin Elements(Tail(R))
    BY <1>1, <1>2, Leaves
  <1>5. Rem' = Elements(Tail(R))
    BY <1>3 DEF Rem
  <1>6. lpos' \in Nat /\ lpos' <= Len(lbatch')
    BY DEF RemovalTypes
  <1>. QED
    BY <1>2, <1>3, <1>4, <1>5, <1>6 DEF Rem

-----------------------------------------------------------------------------
(* The inductive invariant.                                                *)

(* What each thread holds in the phases of its loop; the destructor.       *)
Phases ==
    /\ \A f \in Loops :
          /\ pos[f] <= Len(batch[f])
          /\ pc[f] # "functors" => batch[f] = <<>> /\ pos[f] = 0
          /\ pc[f] # "events" => revents[f] = {}
    /\ Running /\ lpc # "functors" => lbatch = <<>> /\ lpos = 0
    /\ lpc = "idle" => \A f \in Loops : pc[f] = "idle"
    /\ lpc \in {"quit", "gone"} => todo = {}
    /\ lpc = "quit" => lpos # 0
    /\ lpc = "gone" => regs = {} /\ \A f \in Loops : pc[f] = "stopped" /\ functors[f] = <<>>

(* Sockets that nobody has accepted.                                       *)
Backlog ==
    /\ \A c \in Elements(backlog) : c <= made /\ status[c] = "none"
    /\ Once(backlog)
    /\ \A c \in Conns : c > made => status[c] = "none"

(* Objects, descriptors and sockets belong together.                       *)
Owners ==
    /\ \A c \in Conns : status[c] # "none" => fd[c] \in Fds /\ looper[c] \in Loops
    /\ \A c \in Conns : status[c] \in Live => sockOf[fd[c]] = c
    /\ \A d \in Fds : sockOf[d] # None => fd[sockOf[d]] = d /\ status[sockOf[d]] \in Live
    /\ \A d \in Fds : connpool[d] # None => fd[connpool[d]] = d /\ status[connpool[d]] # "none"
    /\ lpc = "destroy" => todo \subseteq Range(connpool)

(* Connections that the pool, or the destructor, has.                      *)
Pool == {c \in Conns : c \in Kept}

(* What is queued for a connection at each stage of its life.              *)
Stages ==
    /\ \A c \in Est : status[c] = "CONNECTING"
    /\ \A c \in Des : status[c] \in Live /\ c \notin Pool
    /\ \A c \in Pool : status[c] \in Live
    /\ lpc # "gone" => \A c \in Conns :
          /\ status[c] \in Live => c \in Pool \/ c \in Des
          /\ status[c] = "CONNECTING" => c \in Est

(* Who is to be removed has been closed, and is in the pool; until the     *)
(* destructor starts, nobody else is destroyed.                            *)
Removals ==
    /\ RemovalInv
    /\ Running => /\ \A c \in Rem : status[c] = "DISCONNECTING" /\ c \in Pool
                  /\ \A c \in Des : status[c] = "DISCONNECTING"

(* What epoll and the loops have in hand is established; who is going down *)
(* has been removed, and nobody before.                                    *)
Events ==
    /\ \A g \in regs : /\ g.sock = g.conn /\ g.loop = looper[g.conn]
                       /\ status[g.conn] \in {"CONNECTED", "DISCONNECTING"}
    /\ \A c \in Conns : status[c] = "DISCONNECTING" => reports[c] > 0 /\ removals[c] > 0
    /\ \A c \in Conns : status[c] \in {"none", "CONNECTING", "CONNECTED"} => removals[c] = 0
    /\ \A f \in Loops : \A c \in revents[f] :
          looper[c] = f /\ status[c] \in {"CONNECTED", "DISCONNECTING"}

ServerKept ==
    /\ TypeOK /\ Phases /\ QueueInv /\ Backlog /\ Owners /\ Stages /\ Removals /\ Events
    /\ ClosedOnce

-----------------------------------------------------------------------------
(* Types.                                                                  *)

(* The steps of the program, one by one. *)
LEMMA ServerSteps ==
    ASSUME [Next]_vars
    PROVE  \/ start \/ LeaderWait \/ LeaderInterrupted \/ onAccept \/ AcceptFails \/ LeaderSwap
           \/ removeConnectionInLoop \/ LeaderRound
           \/ Unlisten \/ DestroyConn \/ clearFollowers \/ Join
           \/ \E f \in Loops :
                 \/ loop(f) \/ FollowerWait(f) \/ FollowerInterrupted(f) \/ FollowerSwap(f)
                 \/ quit(f) \/ FollowerRound(f)
                 \/ \E c \in Conns :
                       handleRead(f, c) \/ connectEstablished(f, c) \/ connectDestroyed(f, c)
           \/ shutdown \/ PeerConnects \/ (\E s \in Conns : PeerHangsUp(s) \/ Traffic(s))
           \/ UNCHANGED vars
  BY DEF Next, Leader, Follower, Terminated

LeaderTypes ==
    /\ lpc \in {"idle", "wait", "accept", "swap", "functors", "unlisten", "destroy",
                "quit", "gone"}
    /\ lflag \in BOOLEAN /\ lfunctors \in Seq(Conns) /\ lbatch \in Seq(Conns)
    /\ lpos \in Nat /\ connpool \in [Fds -> Conns \cup {None}]
    /\ currIndex \in Loops /\ todo \subseteq Conns

FollowerTypes ==
    /\ pc \in [Loops -> {"idle", "started", "wait", "events", "functors", "stopped"}]
    /\ flag \in [Loops -> BOOLEAN]
    /\ functors \in [Loops -> Seq(Functor)] /\ batch \in [Loops -> Seq(Functor)]
    /\ pos \in [Loops -> Nat] /\ revents \in [Loops -> SUBSET Conns]

ConnTypes ==
    /\ status \in [Conns -> {"none", "CONNECTING", "CONNECTED", "DISCONNECTING",
                             "DISCONNECTED"}]
    /\ fd \in [Conns -> Fds \cup {None}] /\ looper \in [Conns -> Loops \cup {None}]
    /\ closes \in [Conns -> Nat] /\ removals \in [Conns -> Nat]

KernelTypes ==
    /\ made \in 0..MaxConns /\ backlog \in Seq(Conns) /\ lready \in BOOLEAN
    /\ sockOf \in [Fds -> Conns \cup {None}]
    /\ reports \in [Conns -> 0..MaxReports] /\ behind \subseteq Conns
    /\ regs \subseteq Registration /\ ready \subseteq regs
    /\ asked \in BOOLEAN

LEMMA TypeOKIs == TypeOK <=> LeaderTypes /\ FollowerTypes /\ ConnTypes /\ KernelTypes
  BY DEF TypeOK, LeaderTypes, FollowerTypes, ConnTypes, KernelTypes

(* A set of descriptors has a lowest one. *)
Before == OpToRel(<, Nat)
LEMMA LowestOfNaturals ==
    ASSUME NEW T, T \subseteq Nat, T # {}
    PROVE  \E m \in T : \A e \in T : m <= e
  <1>1. IsWellFoundedOn(Before, Nat)
    BY NatLessThanWellFounded DEF Before
  <1>2. PICK m \in T : \A e \in T : <<e, m>> \notin Before
    BY <1>1, WFMin
  <1>3. ASSUME NEW e \in T
        PROVE  m <= e
    <2>1. <<e, m>> \notin Before /\ e \in Nat /\ m \in Nat
      BY <1>2
    <2>2. e < m => <<e, m>> \in Before
      BY <2>1 DEF Before, OpToRel
    <2>. QED
      BY <2>1, <2>2
  <1>. QED
    BY <1>3

(* What the kernel gives a new connection. *)
LEMMA NewConnection ==
    ASSUME LeaderTypes, KernelTypes, onAccept
    PROVE  /\ Head(backlog) \in Conns /\ Head(backlog) \in Elements(backlog)
           /\ Tail(backlog) \in Seq(Conns)
           /\ LowestFd \in Fds /\ sockOf[LowestFd] = None
           /\ currIndex \in Loops /\ NextIndex(currIndex) \in Loops
  <1>1. backlog \in Seq(Conns) /\ backlog # <<>> /\ FreeFds # {}
    BY DEF onAccept, KernelTypes
  <1>2. Head(backlog) \in Conns /\ Tail(backlog) \in Seq(Conns)
    BY <1>1
  <1>3. Head(backlog) \in Elements(backlog)
    BY <1>1, Leaves
  <1>4. LowestFd \in FreeFds
    <2>1. FreeFds \subseteq Nat
      BY DEF FreeFds, Fds
    <2>2. PICK m \in FreeFds : \A e \in FreeFds : m <= e
      BY <1>1, <2>1, LowestOfNaturals
    <2>. QED
      BY <2>2 DEF LowestFd
  <1>5. currIndex \in Loops /\ NextIndex(currIndex) \in Loops
    BY ServerAssumption DEF LeaderTypes, NextIndex, Loops
  <1>. QED
    BY <1>2, <1>3, <1>4, <1>5 DEF FreeFds


-----------------------------------------------------------------------------
(* What the steps do to the queues and to the pool.                        *)

LEMMA QueuesUntouched ==
    ASSUME QueueInv, UNCHANGED <<functors, batch, pos, looper>>
    PROVE  QueueInv' /\ Est' = Est /\ Des' = Des /\ \A f \in Loops : Queue(f)' = Queue(f)
  <1>1. QueueTypes' /\ \A f \in Loops : Queue(f)' = Queue(f)
    BY DEF QueueInv, QueueTypes, Queue
  <1>. QED
    BY <1>1, QueuesStay

(* A follower takes its functors, and drops those it has run. *)
LEMMA QueueSwap ==
    ASSUME QueueInv, Phases, NEW f \in Loops, FollowerSwap(f)
    PROVE  QueueInv' /\ Est' = Est /\ Des' = Des /\ \A h \in Loops : Queue(h)' = Queue(h)
  <1>1. QueueTypes /\ batch[f] = <<>> /\ pos[f] = 0
    BY DEF QueueInv, Phases, FollowerSwap
  <1>2. /\ batch' = [batch EXCEPT ![f] = functors[f]] /\ functors' = [functors EXCEPT ![f] = <<>>]
        /\ pos' = [pos EXCEPT ![f] = 0] /\ UNCHANGED looper
    BY DEF FollowerSwap, connVars
  <1>3. QueueTypes'
    <2>1. functors[f] \in Seq(Functor) /\ <<>> \in Seq(Functor) /\ 0 <= Len(functors[f])
      BY <1>1 DEF QueueTypes
    <2>. QED
      BY <1>1, <1>2, <2>1 DEF QueueTypes
  <1>4. Queue(f)' = Queue(f)
    <2>1. PICK q \in Seq(Functor) : q = functors[f]
      BY <1>1 DEF QueueTypes
    <2>2. Queue(f) = Rest(<<>>, 0, q)
      BY <1>1, <2>1 DEF Queue, Rest
    <2>3. Queue(f)' = Rest(q, 0, <<>>)
      <3>1. batch'[f] = q /\ functors'[f] = <<>> /\ pos'[f] = 0
        BY <1>1, <1>2, <2>1 DEF QueueTypes
      <3>. QED
        BY <3>1 DEF Queue, Rest
    <2>. QED
      BY <2>2, <2>3, RestIsList
  <1>5. \A h \in Loops : h # f => Queue(h)' = Queue(h)
    BY <1>1, <1>2 DEF QueueTypes, Queue
  <1>. QED
    BY <1>2, <1>3, <1>4, <1>5, QueuesStay

LEMMA QueueRound ==
    ASSUME QueueInv, NEW f \in Loops, FollowerRound(f)
    PROVE  QueueInv' /\ Est' = Est /\ Des' = Des /\ \A h \in Loops : Queue(h)' = Queue(h)
  <1>1. QueueTypes /\ pos[f] = Len(batch[f])
    BY DEF QueueInv, FollowerRound
  <1>2. /\ batch' = [batch EXCEPT ![f] = <<>>] /\ pos' = [pos EXCEPT ![f] = 0]
        /\ UNCHANGED <<functors, looper>>
    BY DEF FollowerRound, connVars
  <1>3. QueueTypes'
    <2>1. <<>> \in Seq(Functor) /\ 0 <= Len(<<>>)
      OBVIOUS
    <2>. QED
      BY <1>1, <1>2, <2>1 DEF QueueTypes
  <1>4. Queue(f)' = Queue(f)
    <2>1. PICK b \in Seq(Functor), q \in Seq(Functor) : b = batch[f] /\ q = functors[f]
      BY <1>1 DEF QueueTypes
    <2>2. Queue(f) = Rest(b, Len(b), q)
      BY <1>1, <2>1 DEF Queue, Rest
    <2>3. Queue(f)' = Rest(<<>>, 0, q)
      <3>1. batch'[f] = <<>> /\ functors'[f] = q /\ pos'[f] = 0
        BY <1>1, <1>2, <2>1 DEF QueueTypes
      <3>. QED
        BY <3>1 DEF Queue, Rest
    <2>. QED
      BY <2>2, <2>3, RestIsList
  <1>5. \A h \in Loops : h # f => Queue(h)' = Queue(h)
    BY <1>1, <1>2 DEF QueueTypes, Queue
  <1>. QED
    BY <1>2, <1>3, <1>4, <1>5, QueuesStay

(* The leader does the same with the removals. *)
LEMMA RemovalSwap ==
    ASSUME LeaderTypes, Phases, RemovalInv, LeaderSwap
    PROVE  RemovalInv' /\ Rem' = Rem
  <1>1. /\ lbatch = <<>> /\ lpos = 0 /\ lbatch' = lfunctors /\ lfunctors' = <<>> /\ lpos' = 0
        /\ Running
    BY DEF LeaderSwap, Phases, Running
  <1>2. PICK q \in Seq(Conns) : q = lfunctors
    BY DEF LeaderTypes
  <1>3. R = Rest(<<>>, 0, q) /\ R' = Rest(q, 0, <<>>)
    BY <1>1, <1>2 DEF R
  <1>4. R' = R
    BY <1>3, RestIsList
  <1>5. 0 <= Len(q)
    OBVIOUS
  <1>. QED
    BY <1>1, <1>2, <1>4, <1>5 DEF Rem, RemovalInv

LEMMA RemovalRound ==
    ASSUME LeaderTypes, RemovalInv, LeaderRound
    PROVE  RemovalInv' /\ Rem' = Rem
  <1>1. /\ lpos = Len(lbatch) /\ lbatch' = <<>> /\ lfunctors' = lfunctors /\ lpos' = 0
        /\ Running
    BY DEF LeaderRound, Running
  <1>2. PICK b \in Seq(Conns), q \in Seq(Conns) : b = lbatch /\ q = lfunctors
    BY DEF LeaderTypes
  <1>3. R = Rest(b, Len(b), q) /\ R' = Rest(<<>>, 0, q)
    BY <1>1, <1>2 DEF R
  <1>4. R' = R
    BY <1>3, RestIsList
  <1>5. 0 <= Len(<<>>)
    OBVIOUS
  <1>. QED
    BY <1>1, <1>2, <1>4, <1>5 DEF Rem, RemovalInv

LEMMA RemovalsUntouched ==
    ASSUME RemovalInv, UNCHANGED <<lbatch, lpos, lfunctors>>, Running' => Running
    PROVE  RemovalInv' /\ Rem' = Rem
  BY DEF RemovalInv, R, Rem

(* The connections in the pool, in each part of the server's life. *)
LEMMA PoolIs ==
    ASSUME TypeOK
    PROVE  /\ Running => Pool = {c \in Conns : \E d \in Fds : connpool[d] = c}
           /\ ~Running => Pool = todo
  BY DEF TypeOK, Pool, Kept, Running, Range, Conns

-----------------------------------------------------------------------------
(* The effect of the steps that push or run a functor.                     *)

LEMMA Accepted ==
    ASSUME ServerKept, onAccept, NEW c, c = Head(backlog), NEW d, d = LowestFd
    PROVE  /\ c \in Conns /\ c \in Elements(backlog) /\ status[c] = "none" /\ c <= made
           /\ d \in Fds /\ sockOf[d] = None
           /\ QueueInv' /\ Est' = Est \cup {c} /\ Des' = Des
           /\ RemovalInv' /\ Rem' = Rem
           /\ Pool' = Pool \cup {c} /\ c \notin Pool
  <1>1. /\ TypeOK /\ QueueInv /\ Backlog /\ Owners /\ Stages /\ RemovalInv
        /\ LeaderTypes /\ KernelTypes /\ FollowerTypes /\ ConnTypes
    BY TypeOKIs DEF ServerKept, Removals
  <1>2. /\ c \in Conns /\ c \in Elements(backlog) /\ d \in Fds /\ sockOf[d] = None
        /\ currIndex \in Loops
    BY <1>1, NewConnection
  <1>3. status[c] = "none" /\ c <= made
    BY <1>1, <1>2 DEF Backlog
  <1>4. c \notin Est /\ c \notin Des /\ c \notin Pool
    BY <1>1, <1>2, <1>3 DEF Stages, Live
  <1>5. /\ Push(currIndex, "connectEstablished", c) /\ UNCHANGED <<batch, pos>>
        /\ looper' = [looper EXCEPT ![c] = currIndex]
    BY DEF onAccept
  <1>6. QueueInv' /\ Est' = Est \cup {c} /\ Des' = Des
    BY <1>1, <1>2, <1>4, <1>5, PushesE
  <1>7. Running /\ Running' /\ UNCHANGED <<lbatch, lpos, lfunctors>>
    BY DEF onAccept, Running, AcceptMore
  <1>8. RemovalInv' /\ Rem' = Rem
    BY <1>1, <1>7, RemovalsUntouched
  <1>9. Pool' = Pool \cup {c}
    <2>1. connpool' = [connpool EXCEPT ![d] = c] /\ connpool \in [Fds -> Conns \cup {None}]
      BY <1>1 DEF onAccept, LeaderTypes
    <2>2. connpool[d] = None
      <3>1. ASSUME connpool[d] \in Conns
            PROVE  FALSE
        <4>1. connpool[d] \in Pool /\ connpool[d] # None
          BY <1>1, <1>2, <1>7, <3>1, PoolIs DEF Conns, None
        <4>2. fd[connpool[d]] = d /\ status[connpool[d]] \in Live
          BY <1>1, <1>2, <4>1 DEF Owners, Stages
        <4>3. sockOf[d] = connpool[d]
          BY <1>1, <3>1, <4>2 DEF Owners
        <4>. QED
          BY <1>2, <4>1, <4>3
      <3>. QED
        BY <1>2, <2>1, <3>1
    <2>3. Pool = {e \in Conns : \E h \in Fds : connpool[h] = e}
      BY <1>1, <1>7, PoolIs
    <2>4. Pool' = {e \in Conns : \E h \in Fds : connpool'[h] = e}
      <3>1. DOMAIN connpool' = Fds
        BY <2>1
      <3>. QED
        BY <1>7, <3>1 DEF Pool, Kept, Running, Range
    <2>5. c # None /\ \A e \in Conns : e # None
      BY <1>2 DEF Conns, None
    <2>. QED
      BY <1>2, <2>1, <2>2, <2>3, <2>4, <2>5
  <1>. QED
    BY <1>2, <1>3, <1>4, <1>6, <1>8, <1>9

LEMMA Removed ==
    ASSUME ServerKept, removeConnectionInLoop, NEW c, c = lbatch[lpos + 1]
    PROVE  /\ c \in Conns /\ status[c] = "DISCONNECTING"
           /\ QueueInv' /\ Est' = Est /\ Des' = Des \cup {c}
           /\ RemovalInv' /\ Rem' = Rem \ {c} /\ Running /\ Running'
           /\ Pool' = Pool \ {c} /\ fd[c] \in Fds
  <1>1. /\ TypeOK /\ QueueInv /\ Owners /\ Stages /\ RemovalInv /\ LeaderTypes /\ ConnTypes
    BY TypeOKIs DEF ServerKept, Removals
  <1>2. /\ Running /\ Running' /\ lpos < Len(lbatch) /\ lpos' = lpos + 1
        /\ UNCHANGED <<lbatch, lfunctors>>
    BY DEF removeConnectionInLoop, Running
  <1>3. RemovalTypes /\ Once(R)
    BY <1>1, <1>2 DEF RemovalTypes, RemovalInv, LeaderTypes
  <1>4. c \in Rem /\ Rem' = Rem \ {c} /\ Once(R') /\ lpos' <= Len(lbatch')
    BY <1>2, <1>3, RemovalDone
  <1>5. c \in Pool /\ c \in Conns /\ status[c] = "DISCONNECTING" /\ c \notin Des
    BY <1>1, <1>2, <1>4 DEF ServerKept, Removals, Stages, Pool
  <1>6. fd[c] \in Fds /\ looper[c] \in Loops
    BY <1>1, <1>5 DEF Owners
  <1>7. /\ Push(looper[c], "connectDestroyed", c) /\ UNCHANGED <<batch, pos, looper>>
        /\ connpool' = [connpool EXCEPT ![fd[c]] = None]
    BY DEF removeConnectionInLoop, Erase, connVars
  <1>8. QueueInv' /\ Est' = Est /\ Des' = Des \cup {c}
    BY <1>1, <1>5, <1>6, <1>7, PushesD
  <1>9. Pool' = Pool \ {c}
    <2>1. connpool \in [Fds -> Conns \cup {None}] /\ DOMAIN connpool' = Fds
      BY <1>1, <1>7 DEF LeaderTypes
    <2>2. Pool = {e \in Conns : \E h \in Fds : connpool[h] = e}
      BY <1>1, <1>2, PoolIs
    <2>3. Pool' = {e \in Conns : \E h \in Fds : connpool'[h] = e}
      BY <1>2, <2>1 DEF Pool, Kept, Running, Range
    <2>4. \A h \in Fds : connpool[h] = c <=> h = fd[c]
      <3>1. \A h \in Fds : connpool[h] = c => h = fd[c]
        BY <1>1, <1>5 DEF Owners, Conns, None
      <3>. QED
        BY <1>5, <2>2, <3>1
    <2>5. \A e \in Conns : e # None
      BY DEF Conns, None
    <2>. QED
      BY <1>5, <1>6, <1>7, <2>1, <2>2, <2>3, <2>4, <2>5
  <1>. QED
    BY <1>1, <1>2, <1>4, <1>5, <1>6, <1>8, <1>9 DEF RemovalInv

(* The destructor and the connection it comes to. *)
Destroys(c) ==
    /\ lpc = "destroy" /\ c \in todo /\ todo' = todo \ {c}
    /\ Push(looper[c], "connectDestroyed", c)
    /\ UNCHANGED <<lpc, lflag, lfunctors, lbatch, lpos, connpool, currIndex, pc,
                   flag, batch, pos, revents, connVars, kernelVars, asked>>

LEMMA DestroyConnIs == ASSUME DestroyConn PROVE \E c \in todo : Destroys(c)
  BY DEF DestroyConn, Destroys

LEMMA Destroyed ==
    ASSUME ServerKept, NEW c, Destroys(c)
    PROVE  /\ c \in Conns /\ c \in Pool /\ status[c] \in Live
           /\ QueueInv' /\ Est' = Est /\ Des' = Des \cup {c}
           /\ ~Running' /\ Pool' = Pool \ {c}
  <1>1. TypeOK /\ QueueInv /\ Owners /\ Stages /\ LeaderTypes
    BY TypeOKIs DEF ServerKept
  <1>2. ~Running /\ ~Running' /\ c \in todo /\ todo' = todo \ {c}
    BY DEF Destroys, Running
  <1>3. c \in Conns /\ c \in Pool
    BY <1>1, <1>2, PoolIs DEF Pool
  <1>4. status[c] \in Live /\ c \notin Des /\ looper[c] \in Loops
    BY <1>1, <1>3 DEF Stages, Owners, Live
  <1>5. Push(looper[c], "connectDestroyed", c) /\ UNCHANGED <<batch, pos, looper>>
    BY DEF Destroys, connVars
  <1>6. QueueInv' /\ Est' = Est /\ Des' = Des \cup {c}
    BY <1>1, <1>3, <1>4, <1>5, PushesD
  <1>7. Pool' = Pool \ {c}
    <2>1. Pool = todo
      BY <1>1, <1>2, PoolIs
    <2>2. Pool' = {e \in Conns : e \in todo'}
      BY <1>2 DEF Pool, Kept, Running
    <2>. QED
      BY <1>1, <1>2, <2>1, <2>2 DEF LeaderTypes
  <1>. QED
    BY <1>2, <1>3, <1>4, <1>6, <1>7

LEMMA Quits ==
    ASSUME ServerKept, clearFollowers
    PROVE  /\ QueueInv' /\ Est' = Est /\ Des' = Des
           /\ ~Running /\ ~Running' /\ Pool' = Pool
  <1>1. TypeOK /\ QueueInv /\ Phases /\ LeaderTypes
    BY TypeOKIs DEF ServerKept
  <1>2. ~Running /\ ~Running' /\ UNCHANGED <<todo, batch, pos, looper>>
    BY DEF clearFollowers, Running, connVars
  <1>3. QueueInv' /\ Est' = Est /\ Des' = Des
    <2>1. CASE UNCHANGED functors
      BY <1>1, <1>2, <2>1, QueuesUntouched
    <2>2. CASE lpc = "quit" /\ lpos <= PoolSize /\ Push(lpos, "quit", None)
      <3>1. lpos \in Loops
        BY <1>1, <2>2, ServerAssumption DEF Phases, LeaderTypes, Loops, PoolSize
      <3>. QED
        BY <1>1, <1>2, <2>2, <3>1, PushesQuit
    <2>. QED
      BY <2>1, <2>2 DEF clearFollowers
  <1>4. Pool' = Pool
    BY <1>2 DEF Pool, Kept, Running
  <1>. QED
    BY <1>2, <1>3, <1>4

LEMMA Unlistened ==
    ASSUME ServerKept, Unlisten
    PROVE  /\ QueueInv' /\ Est' = Est /\ Des' = Des
           /\ Running /\ ~Running' /\ Pool' = Pool
  <1>1. TypeOK /\ QueueInv /\ LeaderTypes
    BY TypeOKIs DEF ServerKept
  <1>2. Running /\ ~Running' /\ UNCHANGED <<functors, batch, pos, looper>>
    BY DEF Unlisten, Running, connVars, followerVars
  <1>3. QueueInv' /\ Est' = Est /\ Des' = Des
    BY <1>1, <1>2, QueuesUntouched
  <1>4. Pool' = Pool
    <2>1. todo' = Range(connpool) \ {None} /\ None \notin Conns
      BY DEF Unlisten, Conns, None
    <2>2. Pool = {c \in Conns : c \in Range(connpool)} /\ Pool' = {c \in Conns : c \in todo'}
      BY <1>2 DEF Pool, Kept, Running
    <2>. QED
      BY <2>1, <2>2
  <1>. QED
    BY <1>2, <1>3, <1>4

LEMMA Joined ==
    ASSUME ServerKept, Join
    PROVE  /\ QueueInv' /\ Est' = {} /\ Des' = {}
           /\ ~Running' /\ Pool' = {}
  <1>1. TypeOK /\ QueueInv /\ Phases /\ QueueTypes
    BY DEF ServerKept, QueueInv
  <1>2. /\ ~Running' /\ lpc = "quit" /\ UNCHANGED <<batch, pos, looper, todo>>
        /\ functors' = [f \in Loops |-> <<>>]
    BY DEF Join, Joinable, Running, connVars
  <1>3. todo = {} /\ \A f \in Loops : batch[f] = <<>> /\ pos[f] = 0
    BY <1>1, <1>2 DEF Phases, Join, Joinable
  <1>4. QueueTypes'
    <2>1. <<>> \in Seq(Functor)
      OBVIOUS
    <2>. QED
      BY <1>1, <1>2, <2>1 DEF QueueTypes
  <1>5. \A f \in Loops : Queue(f)' = <<>>
    <2>1. TAKE f \in Loops
    <2>2. batch'[f] = <<>> /\ functors'[f] = <<>> /\ pos'[f] = 0
      BY <1>2, <1>3
    <2>3. Queue(f)' = Rest(<<>>, 0, <<>>)
      BY <2>2 DEF Queue, Rest
    <2>4. <<>> \in Seq(Functor)
      OBVIOUS
    <2>. QED
      BY <2>3, <2>4, RestIsList
  <1>6. \A f \in Loops : Len(Queue(f)') = 0 /\ Elements(Queue(f)') = {}
    BY <1>5 DEF Elements
  <1>7. \A f \in Loops : InLine(Queue(f)')
    BY <1>6 DEF InLine
  <1>8. QueueInv' /\ Est' = {} /\ Des' = {}
    BY <1>4, <1>6, <1>7 DEF QueueInv, Homed, Est, Des
  <1>9. Pool' = {}
    BY <1>2, <1>3 DEF Pool, Kept, Running
  <1>. QED
    BY <1>2, <1>8, <1>9

(* A read that finds the end of the stream, and one that does not.         *)
Closes(f, c) == handleRead(f, c) /\ AtEnd(sockOf[fd[c]])
ReadsOn(f, c) == handleRead(f, c) /\ ~AtEnd(sockOf[fd[c]])

(* The object whose event is handled is open, and its peer has gone. *)
LEMMA ClosedByPeer ==
    ASSUME ServerKept, RemovedOnce', NEW f \in Loops, NEW c \in Conns, Closes(f, c)
    PROVE  /\ c \in revents[f] /\ looper[c] = f /\ reports[c] > 0 /\ status[c] = "CONNECTED"
           /\ revents' = [revents EXCEPT ![f] = @ \ {c}]
           /\ status' = [status EXCEPT ![c] = "DISCONNECTING"]
           /\ closes' = [closes EXCEPT ![c] = @ + 1]
           /\ removals' = [removals EXCEPT ![c] = @ + 1]
           /\ QueueInv' /\ Est' = Est /\ Des' = Des
           /\ RemovalInv' /\ (Running' => Running /\ Rem' = Rem \cup {c})
           /\ Pool' = Pool
  <1>1. /\ TypeOK /\ QueueInv /\ Owners /\ Stages /\ Removals /\ Events /\ RemovalInv
        /\ LeaderTypes /\ ConnTypes
    BY TypeOKIs DEF ServerKept, Removals
  <1>2. /\ c \in revents[f] /\ revents' = [revents EXCEPT ![f] = @ \ {c}]
        /\ UNCHANGED <<lpc, lbatch, lpos, connpool, todo, functors, batch, pos, looper>>
        /\ AtEnd(sockOf[fd[c]]) /\ handleClose(c)
    BY DEF Closes, handleRead
  <1>3. looper[c] = f /\ status[c] = "CONNECTED"
    <2>1. removals' = [removals EXCEPT ![c] = @ + 1]
      BY <1>2 DEF handleClose
    <2>2. removals[c] = 0
      BY <1>1, <2>1 DEF RemovedOnce, ConnTypes
    <2>. QED
      BY <1>1, <1>2, <2>2 DEF Events
  <1>4. sockOf[fd[c]] = c /\ reports[c] > 0
    BY <1>1, <1>2, <1>3 DEF Owners, Live, AtEnd
  <1>5. /\ status' = [status EXCEPT ![c] = "DISCONNECTING"]
        /\ closes' = [closes EXCEPT ![c] = @ + 1] /\ lfunctors' = Append(lfunctors, c)
        /\ removals' = [removals EXCEPT ![c] = @ + 1]
    BY <1>2, <1>3 DEF handleClose, CallsClose
  <1>6. QueueInv' /\ Est' = Est /\ Des' = Des
    BY <1>1, <1>2, QueuesUntouched
  <1>7. Pool' = Pool /\ Running' = Running
    BY <1>2 DEF Pool, Kept, Running
  <1>8. RemovalInv' /\ (Running => Rem' = Rem \cup {c})
    <2>1. CASE Running
      <3>1. RemovalTypes /\ Once(R) /\ c \notin Rem
        BY <1>1, <1>3, <2>1 DEF RemovalTypes, RemovalInv, LeaderTypes, Removals
      <3>2. Rem' = Rem \cup {c} /\ Once(R')
        BY <1>2, <1>5, <3>1, RemovalAsked
      <3>. QED
        BY <1>2, <2>1, <3>1, <3>2 DEF RemovalInv, RemovalTypes
    <2>2. CASE ~Running
      BY <1>7, <2>2 DEF RemovalInv
    <2>. QED
      BY <2>1, <2>2
  <1>. QED
    BY <1>2, <1>3, <1>4, <1>5, <1>6, <1>7, <1>8

LEMMA Established ==
    ASSUME ServerKept, NEW f \in Loops, NEW c \in Conns, connectEstablished(f, c),
           NEW r, r = [loop |-> f, sock |-> c, conn |-> c]
    PROVE  /\ looper[c] = f /\ status[c] = "CONNECTING" /\ r \in Registration
           /\ status' = [status EXCEPT ![c] = "CONNECTED"]
           /\ regs' = regs \cup {r}
           /\ ready' = IF reports[c] > 0 THEN ready \cup {r} ELSE ready
           /\ QueueInv' /\ Est' = Est \ {c} /\ Des' = Des
           /\ RemovalInv' /\ Rem' = Rem /\ Pool' = Pool /\ Running' = Running
  <1>1. TypeOK /\ QueueInv /\ Owners /\ Stages /\ RemovalInv /\ Events
    BY DEF ServerKept, Removals
  <1>2. /\ Calls(f, "connectEstablished", c) /\ UNCHANGED <<batch, functors, looper>>
        /\ status' = [status EXCEPT ![c] = "CONNECTED"]
        /\ UNCHANGED <<lpc, connpool, todo, lbatch, lpos, lfunctors>>
    BY DEF connectEstablished, leaderVars
  <1>3. QueueInv' /\ c \in Est /\ looper[c] = f /\ Est' = Est \ {c} /\ Des' = Des
    BY <1>1, <1>2, CallsE
  <1>4. status[c] = "CONNECTING"
    BY <1>1, <1>3 DEF Stages
  <1>5. sockOf[fd[c]] = c /\ c # None
    BY <1>1, <1>4 DEF Owners, Live, Conns, None
  <1>6. ~\E q \in regs : q.loop = f /\ q.sock = c
    BY <1>1, <1>4 DEF Events
  <1>7. regs' = regs \cup {r} /\ ready' = IF reports[c] > 0 THEN ready \cup {r} ELSE ready
    BY <1>5, <1>6 DEF connectEstablished
  <1>8. Pool' = Pool /\ Running' = Running
    BY <1>2 DEF Pool, Kept, Running
  <1>9. RemovalInv' /\ Rem' = Rem
    BY <1>1, <1>2, <1>8, RemovalsUntouched
  <1>10. r \in Registration
    BY DEF Registration
  <1>. QED
    BY <1>2, <1>3, <1>4, <1>7, <1>8, <1>9, <1>10

LEMMA Disconnected ==
    ASSUME ServerKept, NEW f \in Loops, NEW c \in Conns, connectDestroyed(f, c)
    PROVE  /\ looper[c] = f /\ status[c] \in {"CONNECTED", "DISCONNECTING"}
           /\ fd[c] \in Fds /\ sockOf[fd[c]] = c /\ revents[f] = {}
           /\ status' = [status EXCEPT ![c] = "DISCONNECTED"]
           /\ closes' = [closes EXCEPT ![c] = @ + (IF status[c] = "CONNECTED" THEN 1 ELSE 0)]
           /\ sockOf' = [sockOf EXCEPT ![fd[c]] = None]
           /\ regs' = {r \in regs : r.sock # c} /\ ready' = {r \in ready : r.sock # c}
           /\ QueueInv' /\ Est' = Est /\ Des' = Des \ {c}
           /\ RemovalInv' /\ Rem' = Rem /\ Pool' = Pool /\ Running' = Running
           /\ c \notin Pool /\ c \notin Est
  <1>1. TypeOK /\ Phases /\ QueueInv /\ Owners /\ Stages /\ RemovalInv
    BY DEF ServerKept, Removals
  <1>2. /\ Calls(f, "connectDestroyed", c) /\ UNCHANGED <<batch, functors, looper>>
        /\ status' = [status EXCEPT ![c] = "DISCONNECTED"]
        /\ UNCHANGED <<lpc, connpool, todo, lbatch, lpos, lfunctors>>
    BY DEF connectDestroyed, leaderVars
  <1>3. /\ QueueInv' /\ c \in Des /\ c \notin Est /\ looper[c] = f
        /\ Est' = Est /\ Des' = Des \ {c}
    BY <1>1, <1>2, CallsD
  <1>4. status[c] \in Live /\ c \notin Pool
    BY <1>1, <1>3 DEF Stages
  <1>5. fd[c] \in Fds /\ sockOf[fd[c]] = c
    BY <1>1, <1>4 DEF Owners, Live
  <1>6. pc[f] = "functors" /\ revents[f] = {} /\ lpc # "gone"
    BY <1>1, <1>2 DEF Calls, Phases
  <1>7. status[c] \in {"CONNECTED", "DISCONNECTING"}
    BY <1>1, <1>3, <1>4, <1>6 DEF Stages, Live
  <1>8. /\ closes' = [closes EXCEPT ![c] = @ + (IF status[c] = "CONNECTED" THEN 1 ELSE 0)]
        /\ sockOf' = [sockOf EXCEPT ![fd[c]] = None]
        /\ regs' = {r \in regs : r.sock # c} /\ ready' = {r \in ready : r.sock # c}
    BY <1>5 DEF connectDestroyed, CallsClose, Close
  <1>9. Pool' = Pool /\ Running' = Running
    BY <1>2 DEF Pool, Kept, Running
  <1>10. RemovalInv' /\ Rem' = Rem
    BY <1>1, <1>2, <1>9, RemovalsUntouched
  <1>. QED
    BY <1>2, <1>3, <1>4, <1>5, <1>6, <1>7, <1>8, <1>9, <1>10

-----------------------------------------------------------------------------
(* The other steps move no connection.                                     *)

Still ==
    /\ QueueInv' /\ Est' = Est /\ Des' = Des
    /\ RemovalInv' /\ Rem' = Rem /\ Running' = Running /\ Pool' = Pool
    /\ (lpc' = "destroy" => lpc = "destroy") /\ (lpc = "gone" => lpc' = "gone")

ConnectionsStay ==
    UNCHANGED <<connVars, made, backlog, sockOf, reports, behind, regs, ready, connpool, todo,
                revents>>

QuietLeader ==
    \/ start \/ LeaderWait \/ LeaderInterrupted \/ AcceptFails \/ LeaderSwap \/ LeaderRound
    \/ shutdown \/ UNCHANGED vars

QuietFollower(f) ==
    loop(f) \/ FollowerInterrupted(f) \/ FollowerSwap(f) \/ quit(f) \/ FollowerRound(f)

(* What the phase of the leader has to do with it. *)
LEMMA PhaseStays ==
    ASSUME UNCHANGED <<connpool, todo>>, Running' = Running, lpc' = lpc \/ Running'
    PROVE  /\ Pool' = Pool /\ (lpc' = "destroy" => lpc = "destroy")
           /\ (lpc = "gone" => lpc' = "gone")
  BY DEF Pool, Kept, Running

LEMMA QuietLeaderSteps ==
    ASSUME ServerKept, QuietLeader
    PROVE  Still /\ ConnectionsStay
  <1>1. TypeOK /\ Phases /\ QueueInv /\ RemovalInv /\ LeaderTypes
    BY TypeOKIs DEF ServerKept, Removals
  <1>2. /\ UNCHANGED <<functors, batch, pos, looper, connpool, todo>>
        /\ Running' = Running /\ (lpc' = lpc \/ Running')
        /\ ConnectionsStay
    <2>. USE DEF Running, ConnectionsStay, followerVars, kernelVars, connVars, leaderVars
    <2>1. CASE start
      BY <2>1 DEF start
    <2>2. CASE LeaderWait
      BY <2>2 DEF LeaderWait
    <2>3. CASE LeaderInterrupted
      BY <2>3 DEF LeaderInterrupted
    <2>4. CASE AcceptFails
      BY <2>4 DEF AcceptFails
    <2>5. CASE LeaderSwap
      BY <2>5 DEF LeaderSwap
    <2>6. CASE LeaderRound
      BY <2>6 DEF LeaderRound
    <2>7. CASE shutdown
      BY <2>7 DEF shutdown
    <2>8. CASE UNCHANGED vars
      BY <2>8 DEF vars
    <2>. QED
      BY <2>1, <2>2, <2>3, <2>4, <2>5, <2>6, <2>7, <2>8, Zenon DEF QuietLeader
  <1>3. QueueInv' /\ Est' = Est /\ Des' = Des
    BY <1>1, <1>2, QueuesUntouched
  <1>4. /\ Pool' = Pool /\ (lpc' = "destroy" => lpc = "destroy")
        /\ (lpc = "gone" => lpc' = "gone")
    BY <1>2, PhaseStays
  <1>5. RemovalInv' /\ Rem' = Rem
    <2>1. CASE LeaderSwap
      BY <1>1, <2>1, RemovalSwap
    <2>2. CASE LeaderRound
      BY <1>1, <2>2, RemovalRound
    <2>3. CASE UNCHANGED <<lbatch, lpos, lfunctors>>
      BY <1>1, <1>2, <2>3, RemovalsUntouched
    <2>4. \/ UNCHANGED <<lbatch, lpos, lfunctors>> \/ LeaderSwap \/ LeaderRound
      BY DEF QuietLeader, start, LeaderWait, LeaderInterrupted, AcceptFails, shutdown, vars,
             leaderVars
    <2>. QED
      BY <2>1, <2>2, <2>3, <2>4
  <1>. QED
    BY <1>2, <1>3, <1>4, <1>5 DEF Still

LEMMA QuietFollowerSteps ==
    ASSUME ServerKept, NEW f \in Loops, QuietFollower(f)
    PROVE  Still /\ ConnectionsStay
  <1>1. Phases /\ QueueInv /\ RemovalInv
    BY DEF ServerKept, Removals
  <1>2. /\ UNCHANGED <<lpc, connpool, todo, lbatch, lpos, lfunctors>> /\ ConnectionsStay
    BY DEF ConnectionsStay, QuietFollower, loop, FollowerInterrupted, FollowerSwap, quit,
           FollowerRound, kernelVars, connVars, leaderVars
  <1>3. Running' = Running
    BY <1>2 DEF Running
  <1>4. RemovalInv' /\ Rem' = Rem
    BY <1>1, <1>2, <1>3, RemovalsUntouched
  <1>5. /\ Pool' = Pool /\ (lpc' = "destroy" => lpc = "destroy")
        /\ (lpc = "gone" => lpc' = "gone")
    BY <1>2, <1>3, PhaseStays
  <1>6. QueueInv' /\ Est' = Est /\ Des' = Des
    <2>1. CASE FollowerSwap(f)
      BY <1>1, <2>1, QueueSwap
    <2>2. CASE FollowerRound(f)
      BY <1>1, <2>2, QueueRound
    <2>3. CASE quit(f)
      <3>1. Calls(f, "quit", None) /\ UNCHANGED <<batch, functors, looper>>
        BY <2>3 DEF quit, connVars
      <3>. QED
        BY <1>1, <3>1, CallsQuit
    <2>4. CASE loop(f) \/ FollowerInterrupted(f)
      <3>1. UNCHANGED <<functors, batch, pos, looper>>
        BY <2>4 DEF loop, FollowerInterrupted, connVars
      <3>. QED
        BY <1>1, <3>1, QueuesUntouched
    <2>. QED
      BY <2>1, <2>2, <2>3, <2>4 DEF QuietFollower
  <1>. QED
    BY <1>2, <1>3, <1>4, <1>5, <1>6 DEF Still

(* An epoll_wait, a read that does not find the end, and the peers. *)
LEMMA OtherSteps ==
    ASSUME ServerKept,
           \/ PeerConnects \/ (\E s \in Conns : PeerHangsUp(s) \/ Traffic(s))
           \/ \E f \in Loops : FollowerWait(f) \/ \E c \in Conns : ReadsOn(f, c)
    PROVE  Still
  <1>1. QueueInv /\ RemovalInv
    BY DEF ServerKept, Removals
  <1>2. UNCHANGED <<lpc, connpool, todo, lbatch, lpos, lfunctors, functors, batch, pos, looper>>
    BY DEF PeerConnects, PeerHangsUp, Traffic, FollowerWait, ReadsOn, handleRead, leaderVars,
           followerVars, connVars
  <1>3. Running' = Running
    BY <1>2 DEF Running
  <1>4. RemovalInv' /\ Rem' = Rem
    BY <1>1, <1>2, <1>3, RemovalsUntouched
  <1>5. /\ Pool' = Pool /\ (lpc' = "destroy" => lpc = "destroy")
        /\ (lpc = "gone" => lpc' = "gone")
    BY <1>2, <1>3, PhaseStays
  <1>6. QueueInv' /\ Est' = Est /\ Des' = Des
    BY <1>1, <1>2, QueuesUntouched
  <1>. QED
    BY <1>3, <1>4, <1>5, <1>6 DEF Still

(* What each part of the invariant looks at. *)
LEMMA Frames ==
    /\ Backlog /\ UNCHANGED <<backlog, made, status>> => Backlog'
    /\ Owners /\ UNCHANGED <<status, fd, looper, sockOf, connpool, todo>>
         /\ (lpc' = "destroy" => lpc = "destroy") => Owners'
    /\ Stages /\ Est' = Est /\ Des' = Des /\ Pool' = Pool /\ UNCHANGED status
         /\ (lpc = "gone" => lpc' = "gone") => Stages'
    /\ Removals /\ RemovalInv' /\ Rem' = Rem /\ Running' = Running /\ Pool' = Pool
         /\ Des' = Des /\ UNCHANGED status => Removals'
    /\ Events /\ UNCHANGED <<regs, revents, looper, status, reports, removals>> => Events'
    /\ ClosedOnce /\ UNCHANGED <<closes, status>> => ClosedOnce'
  <1>1. Backlog /\ UNCHANGED <<backlog, made, status>> => Backlog'
    BY DEF Backlog, Elements, Once
  <1>2. Owners /\ UNCHANGED <<status, fd, looper, sockOf, connpool, todo>>
           /\ (lpc' = "destroy" => lpc = "destroy") => Owners'
    BY DEF Owners
  <1>3. Stages /\ Est' = Est /\ Des' = Des /\ Pool' = Pool /\ UNCHANGED status
           /\ (lpc = "gone" => lpc' = "gone") => Stages'
    BY DEF Stages
  <1>4. Removals /\ RemovalInv' /\ Rem' = Rem /\ Running' = Running /\ Pool' = Pool
           /\ Des' = Des /\ UNCHANGED status => Removals'
    BY DEF Removals
  <1>5. Events /\ UNCHANGED <<regs, revents, looper, status, reports, removals>> => Events'
    BY DEF Events
  <1>6. ClosedOnce /\ UNCHANGED <<closes, status>> => ClosedOnce'
    BY DEF ClosedOnce
  <1>. QED
    BY <1>1, <1>2, <1>3, <1>4, <1>5, <1>6, Zenon

(* Everything but the types and the phases. *)
Connections == Backlog /\ Owners /\ Stages /\ Removals /\ Events /\ ClosedOnce

LEMMA QuietKeeps ==
    ASSUME ServerKept, QuietLeader \/ \E f \in Loops : QuietFollower(f)
    PROVE  Connections'
  <1>1. Still /\ ConnectionsStay
    BY QuietLeaderSteps, QuietFollowerSteps
  <1>2. Backlog /\ Owners /\ Stages /\ Removals /\ Events /\ ClosedOnce
    BY DEF ServerKept
  <1>3. UNCHANGED <<status, fd, looper, closes, removals, made, backlog, sockOf, reports, regs,
                    connpool, todo, revents>>
    BY <1>1 DEF ConnectionsStay, connVars
  <1>. QED
    BY <1>1, <1>2, <1>3, Frames DEF Still, Connections

-----------------------------------------------------------------------------
(* The steps that do move a connection, one by one.                        *)

LEMMA AcceptKeeps ==
    ASSUME ServerKept, onAccept
    PROVE  Connections'
  <1>. DEFINE c == Head(backlog)
              d == LowestFd
  <1>1. /\ TypeOK /\ Backlog /\ Owners /\ Stages /\ Removals /\ Events /\ ClosedOnce
        /\ LeaderTypes /\ ConnTypes /\ KernelTypes
    BY TypeOKIs DEF ServerKept
  <1>2. /\ c \in Conns /\ c \in Elements(backlog) /\ status[c] = "none" /\ c <= made
        /\ d \in Fds /\ sockOf[d] = None
        /\ QueueInv' /\ Est' = Est \cup {c} /\ Des' = Des
        /\ RemovalInv' /\ Rem' = Rem
        /\ Pool' = Pool \cup {c} /\ c \notin Pool
    BY Accepted
  <1>3. /\ backlog # <<>> /\ backlog' = Tail(backlog) /\ sockOf' = [sockOf EXCEPT ![d] = c]
        /\ fd' = [fd EXCEPT ![c] = d] /\ looper' = [looper EXCEPT ![c] = currIndex]
        /\ status' = [status EXCEPT ![c] = "CONNECTING"]
        /\ connpool' = [connpool EXCEPT ![d] = c]
        /\ UNCHANGED <<made, todo, closes, removals, regs, ready, revents, reports>>
    BY DEF onAccept
  <1>4. lpc = "accept" /\ lpc' = "accept" /\ Running /\ Running' /\ currIndex \in Loops
    BY <1>1 DEF onAccept, AcceptMore, Running, LeaderTypes
  <1>5. c # None /\ status' \in [Conns -> {"none", "CONNECTING", "CONNECTED", "DISCONNECTING",
                                           "DISCONNECTED"}]
    BY <1>1, <1>2, <1>3 DEF Conns, None, ConnTypes
  <1>6. /\ status'[c] = "CONNECTING"
        /\ \A e \in Conns : e # c => status'[e] = status[e]
    BY <1>1, <1>2, <1>3 DEF ConnTypes
  <1>. HIDE DEF c, d
  <1>7. Backlog'
    <2>1. /\ Once(Tail(backlog)) /\ c \notin Elements(Tail(backlog))
          /\ Elements(Tail(backlog)) \subseteq Elements(backlog)
      BY <1>1, <1>3, Leaves DEF Backlog, KernelTypes, c
    <2>2. Elements(Tail(backlog)) \subseteq Conns
      <3>1. PICK t \in Seq(Conns) : t = Tail(backlog)
        BY <1>1, <1>3, Leaves DEF KernelTypes
      <3>2. Elements(t) \subseteq Conns
        BY DEF Elements
      <3>. QED
        BY <3>1, <3>2
    <2>3. \A e \in Elements(Tail(backlog)) : e <= made /\ status'[e] = "none"
      BY <1>1, <1>6, <2>1, <2>2 DEF Backlog
    <2>4. \A e \in Conns : e > made => status'[e] = "none"
      BY <1>1, <1>2, <1>6 DEF Backlog, Conns, KernelTypes
    <2>. QED
      BY <1>3, <2>1, <2>3, <2>4 DEF Backlog
  <1>8. Owners'
    <2>1. \A e \in Conns : status'[e] # "none" => fd'[e] \in Fds /\ looper'[e] \in Loops
      BY <1>1, <1>2, <1>3, <1>4, <1>6 DEF Owners, ConnTypes
    <2>2. \A e \in Conns : status'[e] \in Live => sockOf'[fd'[e]] = e
      BY <1>1, <1>2, <1>3, <1>5, <1>6 DEF Owners, ConnTypes, KernelTypes, None, Conns
    <2>3. \A h \in Fds : sockOf'[h] # None =>
            fd'[sockOf'[h]] = h /\ status'[sockOf'[h]] \in Live
      <3>1. TAKE h \in Fds
      <3>2. CASE h = d
        <4>1. sockOf'[h] = c /\ fd'[c] = d
          BY <1>1, <1>2, <1>3, <3>2 DEF ConnTypes, KernelTypes
        <4>. QED
          BY <1>6, <3>2, <4>1 DEF Live
      <3>3. CASE h # d /\ sockOf[h] # None
        <4>1. /\ sockOf'[h] = sockOf[h] /\ sockOf[h] \in Conns
              /\ fd[sockOf[h]] = h /\ status[sockOf[h]] \in Live
          BY <1>1, <1>3, <3>3 DEF Owners, KernelTypes
        <4>2. sockOf[h] # c
          BY <1>2, <4>1 DEF Live
        <4>. QED
          BY <1>1, <1>3, <1>6, <4>1, <4>2 DEF ConnTypes
      <3>4. CASE h # d /\ sockOf[h] = None
        BY <1>1, <1>3, <3>4 DEF KernelTypes
      <3>. QED
        BY <3>2, <3>3, <3>4
    <2>4. \A h \in Fds : connpool'[h] # None =>
            fd'[connpool'[h]] = h /\ status'[connpool'[h]] # "none"
      <3>1. TAKE h \in Fds
      <3>2. CASE h = d
        <4>1. connpool'[h] = c /\ fd'[c] = d
          BY <1>1, <1>2, <1>3, <3>2 DEF ConnTypes, LeaderTypes
        <4>. QED
          BY <1>6, <3>2, <4>1
      <3>3. CASE h # d /\ connpool[h] # None
        <4>1. /\ connpool'[h] = connpool[h] /\ connpool[h] \in Conns
              /\ fd[connpool[h]] = h /\ status[connpool[h]] # "none"
          BY <1>1, <1>3, <3>3 DEF Owners, LeaderTypes
        <4>2. connpool[h] # c
          BY <1>2, <4>1
        <4>. QED
          BY <1>1, <1>3, <1>6, <4>1, <4>2 DEF ConnTypes
      <3>4. CASE h # d /\ connpool[h] = None
        BY <1>1, <1>3, <3>4 DEF LeaderTypes
      <3>. QED
        BY <3>2, <3>3, <3>4
    <2>. QED
      BY <1>4, <2>1, <2>2, <2>3, <2>4 DEF Owners
  <1>9. Stages'
    <2>1. Est \subseteq Conns /\ Des \subseteq Conns /\ Pool \subseteq Conns
      BY DEF Est, Des, Pool
    <2>2. c \notin Est /\ c \notin Des
      BY <1>1, <1>2 DEF Stages, Live
    <2>3. \A e \in Est' : status'[e] = "CONNECTING"
      BY <1>1, <1>2, <1>6, <2>1 DEF Stages
    <2>4. \A e \in Des' : status'[e] \in Live /\ e \notin Pool'
      BY <1>1, <1>2, <1>6, <2>1, <2>2 DEF Stages
    <2>5. \A e \in Pool' : status'[e] \in Live
      BY <1>1, <1>2, <1>6, <2>1 DEF Stages, Live
    <2>6. \A e \in Conns : /\ status'[e] \in Live => e \in Pool' \/ e \in Des'
                           /\ status'[e] = "CONNECTING" => e \in Est'
      BY <1>1, <1>2, <1>4, <1>6 DEF Stages
    <2>. QED
      BY <2>3, <2>4, <2>5, <2>6 DEF Stages
  <1>10. Removals'
    <2>1. Rem \subseteq Pool /\ Pool \subseteq Conns /\ Des \subseteq Conns
      BY <1>1, <1>4 DEF Removals, Pool, Des
    <2>2. c \notin Des
      BY <1>1, <1>2 DEF Stages, Live
    <2>. QED
      BY <1>1, <1>2, <1>4, <1>6, <2>1, <2>2 DEF Removals
  <1>11. Events'
    <2>1. \A g \in regs : /\ g.sock = g.conn /\ g.loop = looper[g.conn] /\ g.conn \in Conns
                          /\ status[g.conn] \in {"CONNECTED", "DISCONNECTING"} /\ g.conn # c
      BY <1>1, <1>2 DEF Events, KernelTypes, Registration
    <2>2. \A g \in regs : looper'[g.conn] = looper[g.conn] /\ status'[g.conn] = status[g.conn]
      BY <1>1, <1>3, <1>6, <2>1 DEF ConnTypes
    <2>3. \A f \in Loops : \A e \in revents[f] : e \in Conns /\ e # c
      BY <1>1, <1>2, TypeOKIs DEF FollowerTypes, Events
    <2>4. \A f \in Loops : \A e \in revents[f] : looper'[e] = looper[e] /\ status'[e] = status[e]
      BY <1>1, <1>3, <1>6, <2>3 DEF ConnTypes
    <2>5. \A e \in Conns : status'[e] = "DISCONNECTING" => reports[e] > 0 /\ removals[e] > 0
      BY <1>1, <1>6 DEF Events
    <2>6. \A e \in Conns :
             status'[e] \in {"none", "CONNECTING", "CONNECTED"} => removals'[e] = 0
      BY <1>1, <1>2, <1>3, <1>6 DEF Events
    <2>. QED
      BY <1>1, <1>3, <2>1, <2>2, <2>4, <2>5, <2>6 DEF Events
  <1>12. ClosedOnce'
    BY <1>1, <1>2, <1>3, <1>6 DEF ClosedOnce
  <1>. QED
    BY <1>7, <1>8, <1>9, <1>10, <1>11, <1>12 DEF Connections

LEMMA RemoveKeeps ==
    ASSUME ServerKept, removeConnectionInLoop
    PROVE  Connections'
  <1>. DEFINE c == lbatch[lpos + 1]
  <1>1. /\ TypeOK /\ Backlog /\ Owners /\ Stages /\ Removals /\ Events /\ ClosedOnce
        /\ LeaderTypes
    BY TypeOKIs DEF ServerKept
  <1>2. /\ c \in Conns /\ status[c] = "DISCONNECTING"
        /\ Est' = Est /\ Des' = Des \cup {c}
        /\ RemovalInv' /\ Rem' = Rem \ {c} /\ Running /\ Running'
        /\ Pool' = Pool \ {c} /\ fd[c] \in Fds
    BY Removed
  <1>3. /\ connpool' = [connpool EXCEPT ![fd[c]] = None]
        /\ UNCHANGED <<lpc, status, fd, looper, closes, removals, made, backlog, sockOf, reports,
                       regs, revents, todo>>
    BY DEF removeConnectionInLoop, Erase, connVars, kernelVars
  <1>. HIDE DEF c
  <1>4. Backlog' /\ Events' /\ ClosedOnce'
    BY <1>1, <1>3, Frames
  <1>5. Owners'
    <2>1. \A h \in Fds : connpool'[h] = connpool[h] \/ connpool'[h] = None
      BY <1>1, <1>2, <1>3 DEF LeaderTypes
    <2>2. lpc' # "destroy"
      BY <1>2 DEF Running
    <2>. QED
      BY <1>1, <1>3, <2>1, <2>2 DEF Owners
  <1>6. Stages'
    BY <1>1, <1>2, <1>3 DEF Stages, Live
  <1>7. Removals'
    BY <1>1, <1>2, <1>3 DEF Removals
  <1>. QED
    BY <1>4, <1>5, <1>6, <1>7 DEF Connections

LEMMA DestroyKeeps ==
    ASSUME ServerKept, DestroyConn
    PROVE  Connections'
  <1>1. /\ TypeOK /\ Backlog /\ Owners /\ Stages /\ Removals /\ Events /\ ClosedOnce
    BY DEF ServerKept
  <1>2. PICK c \in todo : Destroys(c)
    BY DestroyConnIs
  <1>3. /\ c \in Conns /\ c \in Pool /\ status[c] \in Live
        /\ QueueInv' /\ Est' = Est /\ Des' = Des \cup {c}
        /\ ~Running' /\ Pool' = Pool \ {c}
    BY <1>1, <1>2, Destroyed
  <1>4. /\ todo' \subseteq todo
        /\ UNCHANGED <<lpc, status, fd, looper, closes, removals, made, backlog, sockOf, reports,
                       regs, revents, connpool>>
    BY <1>2 DEF Destroys, connVars, kernelVars
  <1>5. Backlog' /\ Events' /\ ClosedOnce'
    BY <1>1, <1>4, Frames
  <1>6. Owners'
    BY <1>1, <1>4 DEF Owners
  <1>7. Stages'
    BY <1>1, <1>3, <1>4 DEF Stages
  <1>8. Removals'
    BY <1>3 DEF Removals, RemovalInv
  <1>. QED
    BY <1>5, <1>6, <1>7, <1>8 DEF Connections

LEMMA DestructorKeeps ==
    ASSUME ServerKept, Unlisten \/ clearFollowers \/ Join
    PROVE  Connections'
  <1>1. /\ TypeOK /\ Phases /\ Backlog /\ Owners /\ Stages /\ Removals /\ Events /\ ClosedOnce
    BY DEF ServerKept
  <1>2. ~Running'
    BY Unlistened, Quits, Joined
  <1>3. Removals'
    BY <1>2 DEF Removals, RemovalInv
  <1>4. CASE Unlisten
    <2>1. /\ UNCHANGED <<status, fd, looper, closes, removals, made, sockOf, reports, regs, revents,
                         connpool>>
          /\ backlog' = <<>> /\ lpc' = "destroy" /\ lpc # "gone" /\ todo' \subseteq Range(connpool)
      BY <1>4 DEF Unlisten, connVars, followerVars
    <2>2. Est' = Est /\ Des' = Des /\ Pool' = Pool
      BY <1>4, Unlistened
    <2>3. Backlog'
      <3>1. Elements(backlog') = {} /\ Once(backlog')
        BY <2>1 DEF Elements, Once
      <3>. QED
        BY <1>1, <2>1, <3>1 DEF Backlog
    <2>4. Owners'
      BY <1>1, <2>1 DEF Owners
    <2>5. Stages' /\ Events' /\ ClosedOnce'
      BY <1>1, <2>1, <2>2, Frames
    <2>. QED
      BY <1>3, <2>3, <2>4, <2>5 DEF Connections
  <1>5. CASE clearFollowers
    <2>1. /\ UNCHANGED <<status, fd, looper, closes, removals, made, sockOf, reports, regs, revents,
                         connpool, backlog, todo>>
          /\ lpc' = "quit" /\ lpc # "gone"
      BY <1>5 DEF clearFollowers, connVars, kernelVars
    <2>2. Est' = Est /\ Des' = Des /\ Pool' = Pool
      BY <1>5, Quits
    <2>. QED
      BY <1>1, <1>3, <2>1, <2>2, Frames DEF Connections
  <1>6. CASE Join
    <2>1. /\ UNCHANGED <<status, fd, looper, closes, removals, made, sockOf, reports, revents,
                         backlog>>
          /\ lpc' = "gone" /\ regs' = {} /\ connpool' = [d \in Fds |-> None]
      BY <1>6 DEF Join, connVars
    <2>2. Est' = {} /\ Des' = {} /\ Pool' = {}
      BY <1>6, Joined
    <2>3. Stages'
      BY <2>1, <2>2 DEF Stages
    <2>4. Owners'
      BY <1>1, <2>1 DEF Owners
    <2>5. Events'
      BY <1>1, <2>1 DEF Events
    <2>6. Backlog' /\ ClosedOnce'
      BY <1>1, <2>1, Frames
    <2>. QED
      BY <1>3, <2>3, <2>4, <2>5, <2>6 DEF Connections
  <1>. QED
    BY <1>4, <1>5, <1>6

LEMMA CloseKeeps ==
    ASSUME ServerKept, RemovedOnce', NEW f \in Loops, NEW c \in Conns, Closes(f, c)
    PROVE  Connections'
  <1>1. /\ TypeOK /\ Backlog /\ Owners /\ Stages /\ Removals /\ Events /\ ClosedOnce
        /\ LeaderTypes /\ FollowerTypes /\ ConnTypes /\ KernelTypes
    BY TypeOKIs DEF ServerKept
  <1>2. /\ c \in revents[f] /\ looper[c] = f /\ reports[c] > 0 /\ status[c] = "CONNECTED"
        /\ revents' = [revents EXCEPT ![f] = @ \ {c}]
        /\ status' = [status EXCEPT ![c] = "DISCONNECTING"]
        /\ closes' = [closes EXCEPT ![c] = @ + 1] /\ removals' = [removals EXCEPT ![c] = @ + 1]
        /\ Est' = Est /\ Des' = Des
        /\ RemovalInv' /\ (Running' => Running /\ Rem' = Rem \cup {c})
        /\ Pool' = Pool
    BY ClosedByPeer
  <1>3. UNCHANGED <<lpc, fd, looper, made, backlog, sockOf, reports, regs, connpool, todo>>
    BY DEF Closes, handleRead
  <1>4. /\ status'[c] = "DISCONNECTING"
        /\ \A e \in Conns : e # c => status'[e] = status[e]
    BY <1>1, <1>2 DEF ConnTypes
  <1>5. \A s \in Seq(Conns) : Elements(s) \subseteq Conns
    BY DEF Elements
  <1>6. Backlog'
    <2>1. Elements(backlog) \subseteq Conns /\ c \notin Elements(backlog) /\ ~(c > made)
      BY <1>1, <1>2, <1>5 DEF Backlog, KernelTypes
    <2>2. Elements(backlog') = Elements(backlog) /\ Once(backlog') = Once(backlog)
      BY <1>3 DEF Elements, Once
    <2>. QED
      BY <1>1, <1>3, <1>4, <2>1, <2>2 DEF Backlog
  <1>7. Owners'
    <2>1. \A e \in Conns : /\ status'[e] = "none" <=> status[e] = "none"
                           /\ status'[e] \in Live <=> status[e] \in Live
      BY <1>2, <1>4 DEF Live
    <2>2. \A h \in Fds : /\ sockOf[h] # None => sockOf[h] \in Conns
                         /\ connpool[h] # None => connpool[h] \in Conns
      BY <1>1 DEF KernelTypes, LeaderTypes
    <2>. QED
      BY <1>1, <1>3, <2>1, <2>2 DEF Owners
  <1>8. Stages'
    <2>1. Est \subseteq Conns /\ Des \subseteq Conns /\ Pool \subseteq Conns
      BY DEF Est, Des, Pool
    <2>2. c \notin Est
      BY <1>1, <1>2 DEF Stages
    <2>. QED
      BY <1>1, <1>2, <1>3, <1>4, <2>1, <2>2 DEF Stages, Live
  <1>9. Removals'
    <2>1. CASE Running'
      <3>1. Running /\ Rem' = Rem \cup {c} /\ Des \subseteq Conns /\ Pool \subseteq Conns
        BY <1>2, <2>1 DEF Des, Pool
      <3>2. c \notin Des /\ lpc # "gone"
        BY <1>1, <1>2, <3>1 DEF Removals, Running
      <3>3. c \in Pool
        BY <1>1, <1>2, <3>2 DEF Stages, Live
      <3>. QED
        BY <1>1, <1>2, <1>4, <3>1, <3>3 DEF Removals
    <2>2. CASE ~Running'
      BY <1>2, <2>2 DEF Removals
    <2>. QED
      BY <2>1, <2>2
  <1>10. Events'
    <2>1. \A g \in regs : g.conn \in Conns
      BY <1>1 DEF KernelTypes, Registration
    <2>2. \A h \in Loops : revents[h] \subseteq Conns /\ revents'[h] \subseteq revents[h]
      BY <1>1, <1>2 DEF FollowerTypes
    <2>3. \A e \in Conns : status[e] \in {"CONNECTED", "DISCONNECTING"} =>
            status'[e] \in {"CONNECTED", "DISCONNECTING"}
      BY <1>4
    <2>4. \A g \in regs' : /\ g.sock = g.conn /\ g.loop = looper'[g.conn]
                           /\ status'[g.conn] \in {"CONNECTED", "DISCONNECTING"}
      BY <1>1, <1>3, <2>1, <2>3 DEF Events
    <2>5. \A e \in Conns : status'[e] = "DISCONNECTING" => reports'[e] > 0 /\ removals'[e] > 0
      BY <1>1, <1>2, <1>3, <1>4 DEF Events, ConnTypes
    <2>6. \A h \in Loops : \A e \in revents'[h] :
             looper'[e] = h /\ status'[e] \in {"CONNECTED", "DISCONNECTING"}
      BY <1>1, <1>3, <2>2, <2>3 DEF Events
    <2>7. \A e \in Conns :
             status'[e] \in {"none", "CONNECTING", "CONNECTED"} => removals'[e] = 0
      BY <1>1, <1>2, <1>4 DEF Events, ConnTypes
    <2>. QED
      BY <2>4, <2>5, <2>6, <2>7 DEF Events
  <1>11. ClosedOnce'
    BY <1>1, <1>2, <1>4 DEF ClosedOnce, ConnTypes
  <1>. QED
    BY <1>6, <1>7, <1>8, <1>9, <1>10, <1>11 DEF Connections

LEMMA EstablishKeeps ==
    ASSUME ServerKept, NEW f \in Loops, NEW c \in Conns, connectEstablished(f, c)
    PROVE  Connections'
  <1>1. /\ TypeOK /\ Backlog /\ Owners /\ Stages /\ Removals /\ Events /\ ClosedOnce
        /\ LeaderTypes /\ FollowerTypes /\ ConnTypes /\ KernelTypes
    BY TypeOKIs DEF ServerKept
  <1>2. PICK r : r = [loop |-> f, sock |-> c, conn |-> c]
    OBVIOUS
  <1>3. /\ looper[c] = f /\ status[c] = "CONNECTING" /\ r \in Registration
        /\ status' = [status EXCEPT ![c] = "CONNECTED"]
        /\ regs' = regs \cup {r}
        /\ ready' = IF reports[c] > 0 THEN ready \cup {r} ELSE ready
        /\ Est' = Est \ {c} /\ Des' = Des
        /\ RemovalInv' /\ Rem' = Rem /\ Pool' = Pool /\ Running' = Running
    BY <1>2, Established
  <1>4. /\ UNCHANGED <<lpc, fd, looper, closes, removals, made, backlog, sockOf, reports,
                       connpool, todo, revents>>
    BY DEF connectEstablished, leaderVars
  <1>5. /\ status'[c] = "CONNECTED"
        /\ \A e \in Conns : e # c => status'[e] = status[e]
    BY <1>1, <1>3 DEF ConnTypes
  <1>6. Backlog'
    <2>1. \A s \in Seq(Conns) : Elements(s) \subseteq Conns
      BY DEF Elements
    <2>2. Elements(backlog) \subseteq Conns /\ c \notin Elements(backlog) /\ ~(c > made)
      BY <1>1, <1>3, <2>1 DEF Backlog, KernelTypes
    <2>3. Elements(backlog') = Elements(backlog) /\ Once(backlog') = Once(backlog)
      BY <1>4 DEF Elements, Once
    <2>. QED
      BY <1>1, <1>4, <1>5, <2>2, <2>3 DEF Backlog
  <1>7. Owners'
    <2>1. \A e \in Conns : /\ status'[e] = "none" <=> status[e] = "none"
                           /\ status'[e] \in Live <=> status[e] \in Live
      BY <1>3, <1>5 DEF Live
    <2>2. \A h \in Fds : /\ sockOf[h] # None => sockOf[h] \in Conns
                         /\ connpool[h] # None => connpool[h] \in Conns
      BY <1>1 DEF KernelTypes, LeaderTypes
    <2>. QED
      BY <1>1, <1>4, <2>1, <2>2 DEF Owners
  <1>8. Stages'
    <2>1. Est \subseteq Conns /\ Des \subseteq Conns /\ Pool \subseteq Conns
      BY DEF Est, Des, Pool
    <2>. QED
      BY <1>1, <1>3, <1>4, <1>5, <2>1 DEF Stages, Live
  <1>9. Removals'
    <2>1. Rem \subseteq Pool \/ ~Running
      BY <1>1 DEF Removals
    <2>2. Des \subseteq Conns /\ Pool \subseteq Conns
      BY DEF Des, Pool
    <2>. QED
      BY <1>1, <1>3, <1>5, <2>1, <2>2 DEF Removals
  <1>10. Events'
    <2>1. r.sock = c /\ r.conn = c /\ r.loop = f
      BY <1>2
    <2>2. \A g \in regs : g.conn \in Conns /\ g.conn # c
      BY <1>1, <1>3 DEF Events, KernelTypes, Registration
    <2>3. \A h \in Loops : revents[h] \subseteq Conns /\ c \notin revents[h]
      BY <1>1, <1>3 DEF FollowerTypes, Events
    <2>4. \A g \in regs' : /\ g.sock = g.conn /\ g.loop = looper'[g.conn]
                           /\ status'[g.conn] \in {"CONNECTED", "DISCONNECTING"}
      BY <1>1, <1>3, <1>4, <1>5, <2>1, <2>2 DEF Events
    <2>5. \A e \in Conns : status'[e] = "DISCONNECTING" => reports'[e] > 0 /\ removals'[e] > 0
      BY <1>1, <1>4, <1>5 DEF Events
    <2>6. \A h \in Loops : \A e \in revents'[h] :
             looper'[e] = h /\ status'[e] \in {"CONNECTED", "DISCONNECTING"}
      BY <1>1, <1>4, <1>5, <2>3 DEF Events
    <2>7. \A e \in Conns :
             status'[e] \in {"none", "CONNECTING", "CONNECTED"} => removals'[e] = 0
      BY <1>1, <1>3, <1>4, <1>5 DEF Events
    <2>. QED
      BY <2>4, <2>5, <2>6, <2>7 DEF Events
  <1>11. ClosedOnce'
    BY <1>1, <1>3, <1>4, <1>5 DEF ClosedOnce
  <1>. QED
    BY <1>6, <1>7, <1>8, <1>9, <1>10, <1>11 DEF Connections

LEMMA DisconnectKeeps ==
    ASSUME ServerKept, NEW f \in Loops, NEW c \in Conns, connectDestroyed(f, c)
    PROVE  Connections'
  <1>1. /\ TypeOK /\ Backlog /\ Owners /\ Stages /\ Removals /\ Events /\ ClosedOnce
        /\ LeaderTypes /\ FollowerTypes /\ ConnTypes /\ KernelTypes
    BY TypeOKIs DEF ServerKept
  <1>2. /\ looper[c] = f /\ status[c] \in {"CONNECTED", "DISCONNECTING"}
        /\ fd[c] \in Fds /\ sockOf[fd[c]] = c /\ revents[f] = {}
        /\ status' = [status EXCEPT ![c] = "DISCONNECTED"]
        /\ closes' = [closes EXCEPT ![c] = @ + (IF status[c] = "CONNECTED" THEN 1 ELSE 0)]
        /\ sockOf' = [sockOf EXCEPT ![fd[c]] = None]
        /\ regs' = {r \in regs : r.sock # c} /\ ready' = {r \in ready : r.sock # c}
        /\ Est' = Est /\ Des' = Des \ {c}
        /\ RemovalInv' /\ Rem' = Rem /\ Pool' = Pool /\ Running' = Running
        /\ c \notin Pool /\ c \notin Est
    BY Disconnected
  <1>3. UNCHANGED <<lpc, fd, looper, removals, made, backlog, reports, connpool, todo, revents>>
    BY DEF connectDestroyed, leaderVars
  <1>4. /\ status'[c] = "DISCONNECTED"
        /\ \A e \in Conns : e # c => status'[e] = status[e]
    BY <1>1, <1>2 DEF ConnTypes
  <1>5. Backlog'
    <2>1. \A s \in Seq(Conns) : Elements(s) \subseteq Conns
      BY DEF Elements
    <2>2. Elements(backlog) \subseteq Conns /\ c \notin Elements(backlog) /\ ~(c > made)
      BY <1>1, <1>2, <2>1 DEF Backlog, KernelTypes
    <2>3. Elements(backlog') = Elements(backlog) /\ Once(backlog') = Once(backlog)
      BY <1>3 DEF Elements, Once
    <2>. QED
      BY <1>1, <1>3, <1>4, <2>2, <2>3 DEF Backlog
  <1>6. Owners'
    <2>1. \A e \in Conns : /\ status'[e] = "none" <=> status[e] = "none"
                           /\ status'[e] \in Live <=> status[e] \in Live /\ e # c
      BY <1>2, <1>4 DEF Live
    <2>2. \A h \in Fds : /\ sockOf[h] # None => sockOf[h] \in Conns
                         /\ connpool[h] # None => connpool[h] \in Conns
      BY <1>1 DEF KernelTypes, LeaderTypes
    <2>3. \A e \in Conns : status'[e] \in Live => sockOf'[fd[e]] = e
      <3>1. TAKE e \in Conns
      <3>2. HAVE status'[e] \in Live
      <3>3. e # c /\ sockOf[fd[e]] = e /\ fd[e] \in Fds
        BY <1>1, <2>1, <3>2 DEF Owners, Live
      <3>4. fd[e] # fd[c]
        BY <1>2, <3>3
      <3>. QED
        BY <1>1, <1>2, <3>3, <3>4 DEF KernelTypes
    <2>4. \A h \in Fds : /\ sockOf'[h] = sockOf[h] \/ sockOf'[h] = None
                         /\ sockOf[h] = c => h = fd[c] /\ sockOf'[h] = None
      BY <1>1, <1>2 DEF KernelTypes, Owners, Conns, None
    <2>. QED
      BY <1>1, <1>3, <2>1, <2>2, <2>3, <2>4 DEF Owners
  <1>7. Stages'
    <2>1. Est \subseteq Conns /\ Des \subseteq Conns /\ Pool \subseteq Conns
      BY DEF Est, Des, Pool
    <2>. QED
      BY <1>1, <1>2, <1>3, <1>4, <2>1 DEF Stages, Live
  <1>8. Removals'
    <2>1. Rem \subseteq Pool \/ ~Running
      BY <1>1 DEF Removals
    <2>2. Des \subseteq Conns /\ Pool \subseteq Conns
      BY DEF Des, Pool
    <2>. QED
      BY <1>1, <1>2, <1>4, <2>1, <2>2 DEF Removals
  <1>9. Events'
    <2>1. \A g \in regs' : g \in regs /\ g.conn # c /\ g.conn \in Conns
      BY <1>1, <1>2 DEF Events, KernelTypes, Registration
    <2>2. \A h \in Loops : revents[h] \subseteq Conns /\ c \notin revents[h]
      BY <1>1, <1>2 DEF FollowerTypes, Events
    <2>3. \A g \in regs' : /\ g.sock = g.conn /\ g.loop = looper'[g.conn]
                           /\ status'[g.conn] \in {"CONNECTED", "DISCONNECTING"}
      BY <1>1, <1>3, <1>4, <2>1 DEF Events
    <2>4. \A e \in Conns : status'[e] = "DISCONNECTING" => reports'[e] > 0 /\ removals'[e] > 0
      BY <1>1, <1>3, <1>4 DEF Events
    <2>5. \A h \in Loops : \A e \in revents'[h] :
             looper'[e] = h /\ status'[e] \in {"CONNECTED", "DISCONNECTING"}
      BY <1>1, <1>3, <1>4, <2>2 DEF Events
    <2>6. \A e \in Conns :
             status'[e] \in {"none", "CONNECTING", "CONNECTED"} => removals'[e] = 0
      BY <1>1, <1>3, <1>4 DEF Events
    <2>. QED
      BY <2>3, <2>4, <2>5, <2>6 DEF Events
  <1>10. ClosedOnce'
    BY <1>1, <1>2, <1>4 DEF ClosedOnce, ConnTypes
  <1>. QED
    BY <1>5, <1>6, <1>7, <1>8, <1>9, <1>10 DEF Connections

LEMMA WaitKeeps ==
    ASSUME ServerKept, NEW f \in Loops, FollowerWait(f)
    PROVE  Connections'
  <1>1. /\ TypeOK /\ Backlog /\ Owners /\ Stages /\ Removals /\ Events /\ ClosedOnce
        /\ FollowerTypes /\ KernelTypes
    BY TypeOKIs DEF ServerKept
  <1>2. Still
    BY OtherSteps
  <1>3. /\ revents' = [revents EXCEPT ![f] = {r.conn : r \in {r \in ready : r.loop = f}}]
        /\ UNCHANGED <<lpc, status, fd, looper, closes, removals, made, backlog, sockOf, reports,
                       regs, connpool, todo>>
    BY DEF FollowerWait, leaderVars, connVars
  <1>4. Backlog' /\ Owners' /\ Stages' /\ Removals' /\ ClosedOnce'
    BY <1>1, <1>2, <1>3, Frames DEF Still
  <1>5. Events'
    <2>1. \A r \in ready : /\ looper[r.conn] = r.loop
                           /\ status[r.conn] \in {"CONNECTED", "DISCONNECTING"}
      BY <1>1 DEF Events, KernelTypes
    <2>2. \A h \in Loops : \A c \in revents'[h] :
             looper[c] = h /\ status[c] \in {"CONNECTED", "DISCONNECTING"}
      <3>1. TAKE h \in Loops
      <3>2. CASE h = f
        <4>1. revents'[h] = {r.conn : r \in {r \in ready : r.loop = f}}
          BY <1>1, <1>3, <3>2 DEF FollowerTypes
        <4>. QED
          BY <2>1, <3>2, <4>1
      <3>3. CASE h # f
        BY <1>1, <1>3, <3>3 DEF FollowerTypes, Events
      <3>. QED
        BY <3>2, <3>3
    <2>. QED
      BY <1>1, <1>3, <2>2 DEF Events
  <1>. QED
    BY <1>4, <1>5 DEF Connections

LEMMA ReadKeeps ==
    ASSUME ServerKept, NEW f \in Loops, NEW c \in Conns, ReadsOn(f, c)
    PROVE  Connections'
  <1>1. /\ TypeOK /\ Backlog /\ Owners /\ Stages /\ Removals /\ Events /\ ClosedOnce
        /\ FollowerTypes
    BY TypeOKIs DEF ServerKept
  <1>2. Still
    BY OtherSteps
  <1>3. /\ revents' = [revents EXCEPT ![f] = @ \ {c}]
        /\ UNCHANGED <<lpc, status, fd, looper, closes, removals, made, backlog, sockOf, reports,
                       regs, connpool, todo>>
    BY DEF ReadsOn, handleRead
  <1>4. Backlog' /\ Owners' /\ Stages' /\ Removals' /\ ClosedOnce'
    BY <1>1, <1>2, <1>3, Frames DEF Still
  <1>5. \A h \in Loops : revents'[h] \subseteq revents[h]
    BY <1>1, <1>3 DEF FollowerTypes
  <1>6. Events'
    BY <1>1, <1>3, <1>5 DEF Events
  <1>. QED
    BY <1>4, <1>6 DEF Connections

LEMMA PeerKeeps ==
    ASSUME ServerKept, PeerConnects \/ \E s \in Conns : PeerHangsUp(s) \/ Traffic(s)
    PROVE  Connections'
  <1>1. /\ TypeOK /\ Backlog /\ Owners /\ Stages /\ Removals /\ Events /\ ClosedOnce
        /\ KernelTypes
    BY TypeOKIs DEF ServerKept
  <1>2. Still
    BY OtherSteps
  <1>3. UNCHANGED <<lpc, status, fd, looper, closes, removals, sockOf, regs, connpool, todo,
                    revents>>
    BY DEF PeerConnects, PeerHangsUp, Traffic, leaderVars, followerVars, connVars
  <1>4. Owners' /\ Stages' /\ Removals' /\ ClosedOnce'
    BY <1>1, <1>2, <1>3, Frames DEF Still
  <1>5. CASE PeerConnects
    <2>1. /\ made < MaxConns /\ made' = made + 1 /\ backlog' = Append(backlog, made + 1)
          /\ UNCHANGED reports
      BY <1>5 DEF PeerConnects
    <2>2. PICK n \in Conns : n = made + 1
      BY <1>1, <2>1, ServerAssumption DEF KernelTypes, Conns
    <2>3. n > made /\ status[n] = "none"
      BY <1>1, <2>2 DEF Backlog, KernelTypes
    <2>4. n \notin Elements(backlog)
      BY <1>1, <2>3 DEF Backlog, KernelTypes, Conns
    <2>5. Elements(backlog') = Elements(backlog) \cup {n} /\ Once(backlog')
      BY <1>1, <2>1, <2>2, <2>4, Joins DEF Backlog, KernelTypes
    <2>6. Elements(backlog) \subseteq Conns
      <3>1. \A s \in Seq(Conns) : Elements(s) \subseteq Conns
        BY DEF Elements
      <3>. QED
        BY <1>1, <3>1 DEF KernelTypes
    <2>7. Backlog'
      BY <1>1, <1>3, <2>1, <2>2, <2>3, <2>5, <2>6 DEF Backlog, KernelTypes, Conns
    <2>8. Events'
      BY <1>1, <1>3, <2>1, Frames
    <2>. QED
      BY <1>4, <2>7, <2>8 DEF Connections
  <1>6. CASE \E s \in Conns : PeerHangsUp(s) \/ Traffic(s)
    <2>1. PICK s \in Conns : PeerHangsUp(s) \/ Traffic(s)
      BY <1>6
    <2>2. /\ UNCHANGED <<backlog, made>>
          /\ \/ reports' = reports \/ reports' = [reports EXCEPT ![s] = 1]
             \/ reports' = [reports EXCEPT ![s] = @ + 1]
      BY <2>1 DEF PeerHangsUp, Traffic
    <2>3. \A e \in Conns : reports[e] > 0 => reports'[e] > 0
      BY <1>1, <2>2 DEF KernelTypes
    <2>4. Backlog'
      BY <1>1, <1>3, <2>2, Frames
    <2>5. Events'
      BY <1>1, <1>3, <2>3 DEF Events
    <2>. QED
      BY <1>4, <2>4, <2>5 DEF Connections
  <1>. QED
    BY <1>5, <1>6

-----------------------------------------------------------------------------
(* Types and phases.                                                       *)

LEMMA QueuesKept ==
    ASSUME ServerKept, RemovedOnce', [Next]_vars
    PROVE  QueueInv'
  <1>1. CASE onAccept
    BY <1>1, Accepted
  <1>2. CASE removeConnectionInLoop
    BY <1>2, Removed
  <1>3. CASE DestroyConn
    BY <1>3, DestroyConnIs, Destroyed
  <1>4. CASE Unlisten \/ clearFollowers \/ Join
    BY <1>4, Unlistened, Quits, Joined
  <1>5. CASE \E f \in Loops, c \in Conns :
                Closes(f, c) \/ connectEstablished(f, c) \/ connectDestroyed(f, c)
    BY <1>5, ClosedByPeer, Established, Disconnected
  <1>6. CASE QuietLeader \/ \E f \in Loops : QuietFollower(f)
    BY <1>6, QuietLeaderSteps, QuietFollowerSteps DEF Still
  <1>7. CASE \/ PeerConnects \/ (\E s \in Conns : PeerHangsUp(s) \/ Traffic(s))
             \/ \E f \in Loops : FollowerWait(f) \/ \E c \in Conns : ReadsOn(f, c)
    BY <1>7, OtherSteps DEF Still
  <1>8. \A f \in Loops, c \in Conns : handleRead(f, c) => Closes(f, c) \/ ReadsOn(f, c)
    BY DEF Closes, ReadsOn
  <1>. QED
    BY <1>1, <1>2, <1>3, <1>4, <1>5, <1>6, <1>7, <1>8, ServerSteps DEF QuietLeader, QuietFollower

LEMMA ConnectionsKept ==
    ASSUME ServerKept, RemovedOnce', [Next]_vars
    PROVE  Connections'
  <1>1. CASE onAccept
    BY <1>1, AcceptKeeps
  <1>2. CASE removeConnectionInLoop
    BY <1>2, RemoveKeeps
  <1>3. CASE DestroyConn
    BY <1>3, DestroyKeeps
  <1>4. CASE Unlisten \/ clearFollowers \/ Join
    BY <1>4, DestructorKeeps
  <1>5. CASE \E f \in Loops, c \in Conns :
                Closes(f, c) \/ connectEstablished(f, c) \/ connectDestroyed(f, c)
    BY <1>5, CloseKeeps, EstablishKeeps, DisconnectKeeps
  <1>6. CASE QuietLeader \/ \E f \in Loops : QuietFollower(f)
    BY <1>6, QuietKeeps
  <1>7. CASE PeerConnects \/ \E s \in Conns : PeerHangsUp(s) \/ Traffic(s)
    BY <1>7, PeerKeeps
  <1>8. CASE \E f \in Loops : FollowerWait(f) \/ \E c \in Conns : ReadsOn(f, c)
    BY <1>8, WaitKeeps, ReadKeeps
  <1>9. \A f \in Loops, c \in Conns : handleRead(f, c) => Closes(f, c) \/ ReadsOn(f, c)
    BY DEF Closes, ReadsOn
  <1>. QED
    BY <1>1, <1>2, <1>3, <1>4, <1>5, <1>6, <1>7, <1>8, <1>9, ServerSteps
    DEF QuietLeader, QuietFollower

(* Types are kept whatever happens to the connections; who is to be        *)
(* established has a descriptor.                                           *)
Given ==
    \A f \in Loops, c \in Conns :
        E(c) \in Elements(functors[f]) \cup Elements(batch[f]) => fd[c] \in Fds

Typed == LeaderTypes /\ FollowerTypes /\ ConnTypes /\ KernelTypes /\ Given

LEMMA LeaderTypesKept ==
    ASSUME Typed, [Next]_vars
    PROVE  LeaderTypes'
  <1>1. LeaderTypes /\ ConnTypes /\ KernelTypes
    BY DEF Typed
  <1>. USE DEF LeaderTypes
  <1>2. CASE onAccept
    <2>1. Head(backlog) \in Conns /\ LowestFd \in Fds /\ NextIndex(currIndex) \in Loops
      BY <1>1, <1>2, NewConnection
    <2>2. /\ connpool' = [connpool EXCEPT ![LowestFd] = Head(backlog)]
          /\ currIndex' = NextIndex(currIndex) /\ lpc' = "accept"
          /\ UNCHANGED <<lflag, lfunctors, lbatch, lpos, todo>>
      BY <1>2 DEF onAccept, AcceptMore
    <2>. QED
      BY <1>1, <2>1, <2>2
  <1>3. CASE removeConnectionInLoop
    <2>1. PICK d : d = fd[lbatch[lpos + 1]]
      OBVIOUS
    <2>2. /\ connpool' = [connpool EXCEPT ![d] = None] /\ lpos' = lpos + 1
          /\ UNCHANGED <<lpc, lflag, lfunctors, lbatch, currIndex, todo>>
      BY <1>3, <2>1 DEF removeConnectionInLoop, Erase
    <2>3. connpool' \in [Fds -> Conns \cup {None}]
      BY <1>1, <2>2
    <2>. QED
      BY <1>1, <2>2, <2>3
  <1>4. CASE \E f \in Loops, c \in Conns : handleRead(f, c)
    <2>1. PICK c \in Conns : lfunctors' = lfunctors \/ lfunctors' = Append(lfunctors, c)
      BY <1>4 DEF handleRead, handleClose
    <2>2. UNCHANGED <<lpc, lflag, lbatch, lpos, connpool, currIndex, todo>>
      BY <1>4 DEF handleRead
    <2>3. lfunctors' \in Seq(Conns)
      BY <1>1, <2>1
    <2>. QED
      BY <1>1, <2>2, <2>3
  <1>5. CASE start \/ LeaderWait \/ LeaderInterrupted \/ AcceptFails \/ shutdown
    BY <1>1, <1>5 DEF start, LeaderWait, LeaderInterrupted, AcceptFails, shutdown
  <1>6. CASE LeaderSwap \/ LeaderRound
    <2>1. <<>> \in Seq(Conns)
      OBVIOUS
    <2>2. lbatch' \in Seq(Conns) /\ lfunctors' \in Seq(Conns) /\ lpos' \in Nat
      <3>1. /\ lbatch' = lfunctors \/ lbatch' = <<>>
            /\ lfunctors' = lfunctors \/ lfunctors' = <<>>
            /\ lpos' = 0
        BY <1>6 DEF LeaderSwap, LeaderRound
      <3>. QED
        BY <1>1, <2>1, <3>1
    <2>3. /\ lpc' \in {"functors", "wait", "unlisten"}
          /\ UNCHANGED <<lflag, connpool, currIndex, todo>>
      BY <1>6 DEF LeaderSwap, LeaderRound
    <2>. QED
      BY <1>1, <2>2, <2>3
  <1>7. CASE Unlisten
    <2>1. Range(connpool) \ {None} \subseteq Conns
      BY <1>1 DEF Range
    <2>. QED
      BY <1>1, <1>7, <2>1 DEF Unlisten
  <1>8. CASE DestroyConn
    BY <1>1, <1>8 DEF DestroyConn
  <1>9. CASE clearFollowers
    BY <1>1, <1>9 DEF clearFollowers
  <1>10. CASE Join
    <2>1. lfunctors' = <<>> /\ lpos' = 0 /\ lpc' = "gone" /\ connpool' = [d \in Fds |-> None]
          /\ UNCHANGED <<lflag, lbatch, currIndex, todo>>
      BY <1>10 DEF Join
    <2>. QED
      BY <1>1, <2>1
  <1>11. CASE \/ PeerConnects \/ (\E s \in Conns : PeerHangsUp(s) \/ Traffic(s))
              \/ UNCHANGED vars
              \/ \E f \in Loops :
                    \/ loop(f) \/ FollowerWait(f) \/ FollowerInterrupted(f) \/ FollowerSwap(f)
                    \/ quit(f) \/ FollowerRound(f)
                    \/ \E c \in Conns : connectEstablished(f, c) \/ connectDestroyed(f, c)
    <2>1. UNCHANGED leaderVars
      BY <1>11 DEF PeerConnects, PeerHangsUp, Traffic, vars, loop, FollowerWait,
                   FollowerInterrupted, FollowerSwap, quit, FollowerRound, connectEstablished,
                   connectDestroyed
    <2>. QED
      BY <1>1, <2>1 DEF leaderVars
  <1>. QED
    BY <1>2, <1>3, <1>4, <1>5, <1>6, <1>7, <1>8, <1>9, <1>10, <1>11, ServerSteps, Zenon

(* What a step does to the functors of the followers. *)
LEMMA FunctorSteps ==
    ASSUME Typed, [Next]_vars
    PROVE  \/ UNCHANGED <<functors, batch>>
           \/ onAccept /\ UNCHANGED batch
           \/ UNCHANGED batch /\ \E f, c : c \in Conns \cup {None} /\
                 \E op \in {"connectDestroyed", "quit"} :
                    Push(f, op, c) /\ (op = "quit" <=> c = None)
           \/ UNCHANGED batch /\ functors' = [f \in Loops |-> <<>>]
           \/ \E f \in Loops : FollowerSwap(f)
           \/ \E f \in Loops : batch' = [batch EXCEPT ![f] = <<>>] /\ UNCHANGED functors
  <1>1. LeaderTypes /\ None \notin Conns
    BY DEF Typed, None, Conns
  <1>2. CASE removeConnectionInLoop
    <2>1. lbatch[lpos + 1] \in Conns
      BY <1>1, <1>2 DEF LeaderTypes, removeConnectionInLoop
    <2>. QED
      BY <1>1, <1>2, <2>1 DEF removeConnectionInLoop
  <1>3. CASE DestroyConn
    BY <1>1, <1>3 DEF LeaderTypes, DestroyConn
  <1>4. CASE clearFollowers
    BY <1>1, <1>4 DEF clearFollowers
  <1>5. CASE Join \/ onAccept
    BY <1>5 DEF Join, onAccept
  <1>6. CASE \E f \in Loops : FollowerRound(f)
    BY <1>6 DEF FollowerRound
  <1>7. CASE \/ start \/ LeaderWait \/ LeaderInterrupted \/ AcceptFails \/ LeaderSwap
             \/ LeaderRound \/ Unlisten \/ shutdown \/ PeerConnects \/ UNCHANGED vars
             \/ (\E s \in Conns : PeerHangsUp(s) \/ Traffic(s))
             \/ \E f \in Loops :
                   \/ loop(f) \/ FollowerWait(f) \/ FollowerInterrupted(f) \/ quit(f)
                   \/ \E c \in Conns :
                         handleRead(f, c) \/ connectEstablished(f, c) \/ connectDestroyed(f, c)
    BY <1>7 DEF start, LeaderWait, LeaderInterrupted, AcceptFails, LeaderSwap, LeaderRound,
                Unlisten, shutdown, PeerConnects, PeerHangsUp, Traffic, loop, FollowerWait,
                FollowerInterrupted, quit, handleRead, connectEstablished, connectDestroyed,
                vars, followerVars
  <1>. QED
    BY <1>2, <1>3, <1>4, <1>5, <1>6, <1>7, ServerSteps, Zenon

LEMMA FunctorsKept ==
    ASSUME Typed, [Next]_vars
    PROVE  /\ functors' \in [Loops -> Seq(Functor)] /\ batch' \in [Loops -> Seq(Functor)]
           /\ Given'
  <1>. DEFINE Typ == functors' \in [Loops -> Seq(Functor)] /\ batch' \in [Loops -> Seq(Functor)]
  <1>1. /\ functors \in [Loops -> Seq(Functor)] /\ batch \in [Loops -> Seq(Functor)]
        /\ LeaderTypes /\ ConnTypes /\ KernelTypes /\ Given
        /\ <<>> \in Seq(Functor) /\ Elements(<<>>) = {}
    BY DEF Typed, FollowerTypes, Elements
  <1>2. onAccept \/ UNCHANGED fd
    BY ServerSteps DEF start, LeaderWait, LeaderInterrupted, AcceptFails, LeaderSwap,
       removeConnectionInLoop, LeaderRound, Unlisten, DestroyConn, clearFollowers, Join, loop,
       FollowerWait, FollowerInterrupted, FollowerSwap, quit, FollowerRound, handleRead,
       connectEstablished, connectDestroyed, shutdown, PeerConnects, PeerHangsUp, Traffic,
       vars, connVars
  <1>3. CASE onAccept /\ UNCHANGED batch
    <2>1. PICK c \in Conns, d \in Fds, k \in Loops :
             /\ c = Head(backlog) /\ d = LowestFd /\ k = currIndex
             /\ fd' = [fd EXCEPT ![c] = d]
             /\ functors' = [functors EXCEPT ![k] = Append(@, E(c))]
      BY <1>1, <1>3, NewConnection DEF onAccept, Push, E
    <2>2. E(c) \in Functor
      BY DEF E, Functor
    <2>3. Typ /\ \A f \in Loops : Elements(functors'[f]) \subseteq Elements(functors[f]) \cup {E(c)}
      <3>1. PICK s \in Seq(Functor) : s = functors[k]
        BY <1>1
      <3>2. Append(s, E(c)) \in Seq(Functor) /\ Elements(Append(s, E(c))) = Elements(s) \cup {E(c)}
        BY <2>2, Joins
      <3>3. \A f \in Loops : functors'[f] = IF f = k THEN Append(s, E(c)) ELSE functors[f]
        BY <1>1, <2>1, <3>1
      <3>4. Typ
        BY <1>1, <1>3, <2>1, <3>1, <3>2
      <3>. QED
        BY <3>1, <3>2, <3>3, <3>4
    <2>4. \A e \in Conns : E(e) = E(c) => e = c
      BY DEF E
    <2>5. fd'[c] \in Fds /\ \A e \in Conns : fd[e] \in Fds => fd'[e] \in Fds
      BY <1>1, <2>1 DEF ConnTypes
    <2>6. Given'
      BY <1>1, <1>3, <2>3, <2>4, <2>5 DEF Given
    <2>. QED
      BY <2>3, <2>6
  <1>4. CASE UNCHANGED fd
    <2>1. CASE UNCHANGED <<functors, batch>>
      BY <1>1, <1>4, <2>1 DEF Given
    <2>2. CASE UNCHANGED batch /\ \E f, c : c \in Conns \cup {None} /\
                 \E op \in {"connectDestroyed", "quit"} :
                    Push(f, op, c) /\ (op = "quit" <=> c = None)
      <3>1. PICK k, e, c, op : /\ functors' = [functors EXCEPT ![k] = Append(@, e)]
                               /\ e = [op |-> op, conn |-> c] /\ c \in Conns \cup {None}
                               /\ op \in {"connectDestroyed", "quit"} /\ (op = "quit" <=> c = None)
        BY <2>2 DEF Push
      <3>2. e \in Functor /\ \A h \in Conns : e # E(h)
        BY <3>1 DEF E, Functor, None, Conns
      <3>3. ASSUME NEW f \in Loops
            PROVE  /\ functors'[f] \in Seq(Functor)
                   /\ Elements(functors'[f]) \subseteq Elements(functors[f]) \cup {e}
        <4>1. PICK s \in Seq(Functor) : s = functors[f]
          BY <1>1
        <4>2. Append(s, e) \in Seq(Functor) /\ Elements(Append(s, e)) = Elements(s) \cup {e}
          BY <3>2, Joins
        <4>3. functors'[f] = s \/ functors'[f] = Append(s, e)
          BY <1>1, <3>1, <4>1
        <4>. QED
          BY <4>1, <4>2, <4>3
      <3>4. functors' \in [Loops -> Seq(Functor)]
        BY <1>1, <3>1, <3>3
      <3>5. Given'
        BY <1>1, <1>4, <2>2, <3>2, <3>3 DEF Given
      <3>. QED
        BY <1>1, <2>2, <3>4, <3>5
    <2>3. CASE UNCHANGED batch /\ functors' = [f \in Loops |-> <<>>]
      BY <1>1, <1>4, <2>3 DEF Given
    <2>4. CASE \E f \in Loops : FollowerSwap(f)
      <3>1. PICK k \in Loops : /\ batch' = [batch EXCEPT ![k] = functors[k]]
                               /\ functors' = [functors EXCEPT ![k] = <<>>]
        BY <2>4 DEF FollowerSwap
      <3>2. Typ /\ \A f \in Loops :
               Elements(functors'[f]) \cup Elements(batch'[f])
                 \subseteq Elements(functors[f]) \cup Elements(batch[f])
        BY <1>1, <3>1
      <3>. QED
        BY <1>1, <1>4, <3>2 DEF Given
    <2>5. CASE \E f \in Loops : batch' = [batch EXCEPT ![f] = <<>>] /\ UNCHANGED functors
      <3>1. PICK k \in Loops : batch' = [batch EXCEPT ![k] = <<>>] /\ UNCHANGED functors
        BY <2>5
      <3>2. Typ /\ \A f \in Loops : Elements(batch'[f]) \subseteq Elements(batch[f])
        BY <1>1, <3>1
      <3>. QED
        BY <1>1, <1>4, <3>1, <3>2 DEF Given
    <2>6. CASE onAccept /\ UNCHANGED batch
      BY <1>3, <2>6
    <2>. QED
      BY <2>1, <2>2, <2>3, <2>4, <2>5, <2>6, FunctorSteps, Zenon
  <1>5. onAccept => UNCHANGED batch
    BY DEF onAccept
  <1>. QED
    BY <1>2, <1>3, <1>4, <1>5

LEMMA FollowerTypesKept ==
    ASSUME Typed, [Next]_vars
    PROVE  FollowerTypes'
  <1>1. FollowerTypes /\ KernelTypes
    BY DEF Typed
  <1>2. functors' \in [Loops -> Seq(Functor)] /\ batch' \in [Loops -> Seq(Functor)]
    BY FunctorsKept
  <1>3. /\ pc' \in [Loops -> {"idle", "started", "wait", "events", "functors", "stopped"}]
        /\ flag' \in [Loops -> BOOLEAN] /\ revents' \in [Loops -> SUBSET Conns]
        /\ pos' \in [Loops -> Nat]
    <2>. USE DEF FollowerTypes
    <2>1. CASE start
      BY <1>1, <2>1 DEF start
    <2>2. CASE \E f \in Loops : loop(f) \/ FollowerInterrupted(f)
      BY <1>1, <2>2 DEF loop, FollowerInterrupted
    <2>3. CASE \E f \in Loops : FollowerSwap(f) \/ FollowerRound(f)
      <3>1. PICK f \in Loops : FollowerSwap(f) \/ FollowerRound(f)
        BY <2>3
      <3>2. PICK p \in {"functors", "wait", "stopped"} : pc' = [pc EXCEPT ![f] = p]
        BY <3>1 DEF FollowerSwap, FollowerRound
      <3>3. pos' = [pos EXCEPT ![f] = 0] /\ UNCHANGED <<flag, revents>>
        BY <3>1 DEF FollowerSwap, FollowerRound
      <3>. QED
        BY <1>1, <3>2, <3>3
    <2>4. CASE \E f \in Loops : FollowerWait(f)
      <3>1. PICK f \in Loops : FollowerWait(f)
        BY <2>4
      <3>2. PICK got \in SUBSET Conns : got = {r.conn : r \in {q \in ready : q.loop = f}}
        <4>1. \A r \in ready : r.conn \in Conns
          BY <1>1 DEF KernelTypes, Registration
        <4>2. {r.conn : r \in {q \in ready : q.loop = f}} \subseteq Conns
          BY <4>1
        <4>. QED
          BY <4>2
      <3>3. /\ revents' = [revents EXCEPT ![f] = got] /\ pc' = [pc EXCEPT ![f] = "events"]
            /\ UNCHANGED <<flag, pos>>
        BY <3>1, <3>2 DEF FollowerWait
      <3>. QED
        BY <1>1, <3>3
    <2>5. CASE \E f \in Loops, c \in Conns : handleRead(f, c)
      <3>1. PICK f \in Loops, c \in Conns : handleRead(f, c)
        BY <2>5
      <3>2. revents' = [revents EXCEPT ![f] = @ \ {c}] /\ UNCHANGED <<pc, flag, pos>>
        BY <3>1 DEF handleRead
      <3>. QED
        BY <1>1, <3>2
    <2>6. CASE \E f \in Loops : quit(f) \/ \E c \in Conns :
                  connectEstablished(f, c) \/ connectDestroyed(f, c)
      <3>1. PICK f \in Loops : pos' = [pos EXCEPT ![f] = @ + 1]
        BY <2>6 DEF quit, connectEstablished, connectDestroyed, Calls
      <3>2. UNCHANGED <<pc, revents>> /\ (UNCHANGED flag \/ \E h \in Loops :
              flag' = [flag EXCEPT ![h] = FALSE])
        BY <2>6 DEF quit, connectEstablished, connectDestroyed
      <3>3. flag' \in [Loops -> BOOLEAN]
        <4>1. flag \in [Loops -> BOOLEAN]
          BY <1>1
        <4>. QED
          BY <3>2, <4>1
      <3>4. pos' \in [Loops -> Nat]
        BY <1>1, <3>1
      <3>. QED
        BY <1>1, <3>2, <3>3, <3>4
    <2>7. CASE UNCHANGED <<pc, flag, revents, pos>>
      BY <1>1, <2>7
    <2>8. \/ UNCHANGED <<pc, flag, revents, pos>> \/ start
          \/ \E f \in Loops :
                \/ loop(f) \/ FollowerWait(f) \/ FollowerInterrupted(f) \/ FollowerSwap(f)
                \/ quit(f) \/ FollowerRound(f)
                \/ \E c \in Conns :
                      handleRead(f, c) \/ connectEstablished(f, c) \/ connectDestroyed(f, c)
      <3>1. ASSUME \/ LeaderWait \/ LeaderInterrupted \/ onAccept \/ AcceptFails \/ LeaderSwap
                   \/ removeConnectionInLoop \/ LeaderRound
            PROVE  UNCHANGED <<pc, flag, revents, pos>>
        BY <3>1 DEF LeaderWait, LeaderInterrupted, onAccept, AcceptFails, LeaderSwap,
                    removeConnectionInLoop, LeaderRound, followerVars
      <3>2. ASSUME Unlisten \/ DestroyConn \/ clearFollowers \/ Join
            PROVE  UNCHANGED <<pc, flag, revents, pos>>
        BY <3>2 DEF Unlisten, DestroyConn, clearFollowers, Join, followerVars
      <3>3. ASSUME \/ shutdown \/ PeerConnects
                   \/ (\E s \in Conns : PeerHangsUp(s) \/ Traffic(s))
                   \/ UNCHANGED vars
            PROVE  UNCHANGED <<pc, flag, revents, pos>>
        BY <3>3 DEF shutdown, PeerConnects, PeerHangsUp, Traffic, vars, followerVars
      <3>. QED
        BY <3>1, <3>2, <3>3, ServerSteps, Zenon
    <2>. QED
      BY <2>1, <2>2, <2>3, <2>4, <2>5, <2>6, <2>7, <2>8, Zenon
  <1>. QED
    BY <1>2, <1>3 DEF FollowerTypes

(* What a step does to the objects. *)
LEMMA ObjectSteps ==
    ASSUME [Next]_vars
    PROVE  \/ UNCHANGED connVars \/ onAccept
           \/ \E f \in Loops, c \in Conns :
                 \/ Closes(f, c) \/ (UNCHANGED connVars /\ ReadsOn(f, c))
                 \/ connectEstablished(f, c) \/ connectDestroyed(f, c)
  <1>1. ASSUME \/ start \/ LeaderWait \/ LeaderInterrupted \/ AcceptFails \/ LeaderSwap
               \/ removeConnectionInLoop \/ LeaderRound
        PROVE  UNCHANGED connVars
    BY <1>1 DEF start, LeaderWait, LeaderInterrupted, AcceptFails, LeaderSwap,
                removeConnectionInLoop, LeaderRound
  <1>2. ASSUME \/ Unlisten \/ DestroyConn \/ clearFollowers \/ Join
               \/ shutdown \/ PeerConnects \/ (\E s \in Conns : PeerHangsUp(s) \/ Traffic(s))
               \/ UNCHANGED vars
        PROVE  UNCHANGED connVars
    BY <1>2 DEF Unlisten, DestroyConn, clearFollowers, Join, shutdown, PeerConnects,
                PeerHangsUp, Traffic, vars
  <1>3. ASSUME \E f \in Loops :
                  \/ loop(f) \/ FollowerWait(f) \/ FollowerInterrupted(f) \/ FollowerSwap(f)
                  \/ quit(f) \/ FollowerRound(f)
        PROVE  UNCHANGED connVars
    BY <1>3 DEF loop, FollowerWait, FollowerInterrupted, FollowerSwap, quit, FollowerRound
  <1>4. ASSUME NEW f \in Loops, NEW c \in Conns, handleRead(f, c)
        PROVE  Closes(f, c) \/ (UNCHANGED connVars /\ ReadsOn(f, c))
    BY <1>4 DEF handleRead, Closes, ReadsOn, connVars
  <1>. QED
    BY <1>1, <1>2, <1>3, <1>4, ServerSteps, Zenon

LEMMA ConnTypesKept ==
    ASSUME Typed, [Next]_vars
    PROVE  ConnTypes'
  <1>1. ConnTypes /\ LeaderTypes /\ KernelTypes
    BY DEF Typed
  <1>. USE DEF ConnTypes
  <1>2. CASE onAccept
    <2>1. Head(backlog) \in Conns /\ LowestFd \in Fds /\ currIndex \in Loops
      BY <1>1, <1>2, NewConnection
    <2>2. /\ fd' = [fd EXCEPT ![Head(backlog)] = LowestFd]
          /\ looper' = [looper EXCEPT ![Head(backlog)] = currIndex]
          /\ status' = [status EXCEPT ![Head(backlog)] = "CONNECTING"]
          /\ UNCHANGED <<closes, removals>>
      BY <1>2 DEF onAccept
    <2>. QED
      BY <1>1, <2>1, <2>2
  <1>3. CASE \E f \in Loops, c \in Conns : Closes(f, c)
    <2>1. PICK f \in Loops, c \in Conns : Closes(f, c)
      BY <1>3
    <2>2. PICK n \in Nat : n = IF status[c] = "CONNECTED" THEN 1 ELSE 0
      OBVIOUS
    <2>3. /\ status' = [status EXCEPT ![c] = "DISCONNECTING"] /\ UNCHANGED <<fd, looper>>
          /\ closes' = [closes EXCEPT ![c] = @ + n] /\ removals' = [removals EXCEPT ![c] = @ + 1]
      BY <2>1, <2>2 DEF Closes, handleRead, handleClose, CallsClose
    <2>. QED
      BY <1>1, <2>3
  <1>4. CASE \E f \in Loops, c \in Conns : connectEstablished(f, c)
    <2>1. PICK f \in Loops, c \in Conns : connectEstablished(f, c)
      BY <1>4
    <2>2. status' = [status EXCEPT ![c] = "CONNECTED"] /\ UNCHANGED <<fd, looper, closes, removals>>
      BY <2>1 DEF connectEstablished
    <2>. QED
      BY <1>1, <2>2
  <1>5. CASE \E f \in Loops, c \in Conns : connectDestroyed(f, c)
    <2>1. PICK f \in Loops, c \in Conns : connectDestroyed(f, c)
      BY <1>5
    <2>2. PICK n \in Nat : n = IF status[c] = "CONNECTED" THEN 1 ELSE 0
      OBVIOUS
    <2>3. /\ status' = [status EXCEPT ![c] = "DISCONNECTED"] /\ UNCHANGED <<fd, looper, removals>>
          /\ closes' = [closes EXCEPT ![c] = @ + n]
      BY <2>1, <2>2 DEF connectDestroyed, CallsClose
    <2>. QED
      BY <1>1, <2>3
  <1>6. CASE UNCHANGED connVars
    BY <1>1, <1>6 DEF connVars
  <1>. QED
    BY <1>2, <1>3, <1>4, <1>5, <1>6, ObjectSteps, Zenon

(* Removals are never forgotten. *)
LEMMA RemovalsGrow ==
    ASSUME ConnTypes, [Next]_vars, RemovedOnce'
    PROVE  RemovedOnce
  <1>1. CASE UNCHANGED removals
    BY <1>1 DEF RemovedOnce
  <1>2. CASE \E f \in Loops, c \in Conns : Closes(f, c)
    <2>1. PICK c \in Conns : removals' = [removals EXCEPT ![c] = @ + 1]
      BY <1>2 DEF Closes, handleRead, handleClose
    <2>. QED
      BY <2>1 DEF RemovedOnce, ConnTypes
  <1>3. UNCHANGED removals \/ \E f \in Loops, c \in Conns : Closes(f, c)
    BY ObjectSteps DEF connVars, onAccept, connectEstablished, connectDestroyed
  <1>. QED
    BY <1>1, <1>2, <1>3

LEMMA KernelTypesKept ==
    ASSUME Typed, [Next]_vars
    PROVE  KernelTypes'
  <1>1. ConnTypes /\ LeaderTypes /\ KernelTypes /\ FollowerTypes /\ Given
    BY DEF Typed
  <1>. USE DEF KernelTypes
  <1>2. CASE onAccept
    <2>1. Head(backlog) \in Conns /\ LowestFd \in Fds /\ Tail(backlog) \in Seq(Conns)
      BY <1>1, <1>2, NewConnection
    <2>2. /\ backlog' = Tail(backlog) /\ sockOf' = [sockOf EXCEPT ![LowestFd] = Head(backlog)]
          /\ UNCHANGED <<made, lready, reports, behind, regs, ready, asked>>
      BY <1>2 DEF onAccept
    <2>. QED
      BY <1>1, <2>1, <2>2
  <1>3. CASE LeaderWait
    BY <1>1, <1>3 DEF LeaderWait
  <1>4. CASE Unlisten
    <2>1. <<>> \in Seq(Conns)
      OBVIOUS
    <2>. QED
      BY <1>1, <1>4, <2>1 DEF Unlisten
  <1>5. CASE Join
    BY <1>1, <1>5 DEF Join
  <1>6. CASE shutdown
    BY <1>1, <1>6 DEF shutdown, kernelVars
  <1>7. CASE PeerConnects
    <2>1. /\ made < MaxConns /\ made' = made + 1 /\ backlog' = Append(backlog, made + 1)
          /\ lready' = TRUE /\ UNCHANGED <<sockOf, reports, behind, regs, ready, asked>>
      BY <1>7 DEF PeerConnects
    <2>2. made + 1 \in Conns /\ made' \in 0..MaxConns
      BY <1>1, <2>1, ServerAssumption DEF Conns
    <2>. QED
      BY <1>1, <2>1, <2>2
  <1>8. CASE \E s \in Conns : PeerHangsUp(s) \/ Traffic(s)
    <2>1. PICK s \in Conns : PeerHangsUp(s) \/ Traffic(s)
      BY <1>8
    <2>2. PICK n \in 0..MaxReports :
             /\ reports' = reports \/ reports' = [reports EXCEPT ![s] = n]
      BY <1>1, <2>1, ServerAssumption DEF PeerHangsUp, Traffic
    <2>3. /\ behind' = behind \/ behind' = behind \cup {s}
          /\ ready' = ready \cup {r \in regs : r.sock = s}
          /\ UNCHANGED <<made, backlog, lready, sockOf, regs, asked>>
      BY <2>1 DEF PeerHangsUp, Traffic
    <2>. QED
      BY <1>1, <2>2, <2>3
  <1>9. CASE \E f \in Loops : FollowerWait(f)
    BY <1>1, <1>9 DEF FollowerWait
  <1>10. CASE \E f \in Loops, c \in Conns : connectEstablished(f, c)
    <2>1. PICK f \in Loops, c \in Conns : connectEstablished(f, c)
      BY <1>10
    <2>2. fd[c] \in Fds
      <3>1. PICK b \in Seq(Functor), p \in Nat : b = batch[f] /\ p = pos[f]
        BY <1>1 DEF FollowerTypes
      <3>2. p < Len(b) /\ b[p + 1] = E(c)
        BY <2>1, <3>1 DEF connectEstablished, Calls, E
      <3>3. p + 1 \in 1..Len(b)
        BY <3>1, <3>2
      <3>. QED
        BY <1>1, <3>1, <3>2, <3>3 DEF Given, Elements
    <2>3. PICK s \in Conns \cup {None} : s = sockOf[fd[c]]
      BY <1>1, <2>2
    <2>4. PICK r : r = [loop |-> f, sock |-> s, conn |-> c]
      OBVIOUS
    <2>5. \/ UNCHANGED <<regs, ready>>
          \/ /\ s # None /\ regs' = regs \cup {r}
             /\ ready' = ready \cup {r} \/ ready' = ready
      BY <2>1, <2>3, <2>4 DEF connectEstablished
    <2>6. s # None => r \in Registration
      BY <2>3, <2>4 DEF Registration
    <2>7. UNCHANGED <<made, backlog, lready, sockOf, reports, behind, asked>>
      BY <2>1 DEF connectEstablished
    <2>. QED
      BY <1>1, <2>5, <2>6, <2>7
  <1>11. CASE \E f \in Loops, c \in Conns : connectDestroyed(f, c)
    <2>1. PICK f \in Loops, c \in Conns : connectDestroyed(f, c)
      BY <1>11
    <2>2. PICK d, s : /\ sockOf' = [sockOf EXCEPT ![d] = None]
                      /\ regs' = {r \in regs : r.sock # s} /\ ready' = {r \in ready : r.sock # s}
      BY <2>1 DEF connectDestroyed, Close
    <2>3. UNCHANGED <<made, backlog, lready, reports, behind, asked>>
      BY <2>1 DEF connectDestroyed
    <2>4. sockOf' \in [Fds -> Conns \cup {None}]
      BY <1>1, <2>2
    <2>. QED
      BY <1>1, <2>2, <2>3, <2>4
  <1>12. CASE \E f \in Loops, c \in Conns : handleRead(f, c)
    <2>1. PICK f \in Loops, c \in Conns : handleRead(f, c)
      BY <1>12
    <2>2. /\ behind' = behind \/ behind' = behind \ {sockOf[fd[c]]}
          /\ UNCHANGED <<made, backlog, lready, sockOf, reports, regs, ready, asked>>
      BY <2>1 DEF handleRead
    <2>. QED
      BY <1>1, <2>2
  <1>13. CASE UNCHANGED <<kernelVars, asked>>
    BY <1>1, <1>13 DEF kernelVars
  <1>14. \/ UNCHANGED <<kernelVars, asked>> \/ onAccept \/ LeaderWait \/ Unlisten \/ Join
         \/ shutdown \/ PeerConnects \/ (\E s \in Conns : PeerHangsUp(s) \/ Traffic(s))
         \/ (\E f \in Loops : FollowerWait(f))
         \/ (\E f \in Loops, c \in Conns :
               connectEstablished(f, c) \/ connectDestroyed(f, c) \/ handleRead(f, c))
    <2>1. ASSUME \/ start \/ LeaderInterrupted \/ AcceptFails \/ LeaderSwap
                 \/ removeConnectionInLoop \/ LeaderRound \/ DestroyConn \/ clearFollowers
                 \/ UNCHANGED vars
          PROVE  UNCHANGED <<kernelVars, asked>>
      BY <2>1 DEF start, LeaderInterrupted, AcceptFails, LeaderSwap,
                  removeConnectionInLoop, LeaderRound, DestroyConn, clearFollowers, vars
    <2>2. ASSUME \E f \in Loops :
                    \/ loop(f) \/ FollowerInterrupted(f) \/ FollowerSwap(f)
                    \/ quit(f) \/ FollowerRound(f)
          PROVE  UNCHANGED <<kernelVars, asked>>
      BY <2>2 DEF loop, FollowerInterrupted, FollowerSwap, quit, FollowerRound
    <2>. QED
      BY <2>1, <2>2, ServerSteps, Zenon
  <1>. QED
    BY <1>2, <1>3, <1>4, <1>5, <1>6, <1>7, <1>8, <1>9, <1>10, <1>11, <1>12, <1>13, <1>14, Zenon

LEMMA TypedKept ==
    ASSUME Typed, [Next]_vars
    PROVE  Typed'
  BY LeaderTypesKept, FollowerTypesKept, ConnTypesKept, KernelTypesKept, FunctorsKept DEF Typed

LEMMA PhasesKept ==
    ASSUME ServerKept, RemovedOnce', [Next]_vars
    PROVE  Phases'
  <1>. DEFINE Follows == \A f \in Loops :
                 /\ pos[f] <= Len(batch[f])
                 /\ pc[f] # "functors" => batch[f] = <<>> /\ pos[f] = 0
                 /\ pc[f] # "events" => revents[f] = {}
              Idle == lpc = "idle" => \A f \in Loops : pc[f] = "idle"
              Empty == Running /\ lpc # "functors" => lbatch = <<>> /\ lpos = 0
              Quitting == /\ lpc \in {"quit", "gone"} => todo = {}
                          /\ lpc = "quit" => lpos # 0
              Over == lpc = "gone" =>
                 regs = {} /\ \A f \in Loops : pc[f] = "stopped" /\ functors[f] = <<>>
  <1>1. /\ Follows /\ Idle /\ Empty /\ Quitting /\ Over
        /\ LeaderTypes /\ FollowerTypes
    BY TypeOKIs DEF ServerKept, Phases
  <1>2. Follows'
    <2>. USE DEF FollowerTypes
    <2>1. \A f \in Loops : pos'[f] <= Len(batch'[f])
      BY QueuesKept DEF QueueInv, QueueTypes
    <2>2. CASE start
      BY <1>1, <2>2 DEF start, Idle
    <2>3. CASE \E h \in Loops : loop(h)
      BY <1>1, <2>1, <2>3 DEF loop
    <2>4. CASE \E h \in Loops : FollowerWait(h) \/ FollowerInterrupted(h)
      <3>1. PICK h \in Loops : FollowerWait(h) \/ FollowerInterrupted(h)
        BY <2>4
      <3>2. /\ pc[h] = "wait" /\ pc' = [pc EXCEPT ![h] = "events"] /\ UNCHANGED <<batch, pos>>
            /\ \A f \in Loops : f # h => revents'[f] = revents[f]
        BY <1>1, <3>1 DEF FollowerWait, FollowerInterrupted
      <3>. QED
        BY <1>1, <2>1, <3>2
    <2>5. CASE \E h \in Loops : FollowerSwap(h)
      BY <1>1, <2>1, <2>5 DEF FollowerSwap
    <2>6. CASE \E h \in Loops : FollowerRound(h)
      <3>1. PICK h \in Loops : FollowerRound(h)
        BY <2>6
      <3>2. /\ batch'[h] = <<>> /\ pos'[h] = 0 /\ pc'[h] # "events" /\ revents'[h] = {}
            /\ \A f \in Loops : f # h =>
                  /\ batch'[f] = batch[f] /\ pos'[f] = pos[f] /\ pc'[f] = pc[f]
                  /\ revents'[f] = revents[f]
        BY <1>1, <3>1 DEF FollowerRound
      <3>. QED
        BY <1>1, <2>1, <3>2
    <2>7. CASE \E h \in Loops : quit(h) \/ \E c \in Conns :
                  connectEstablished(h, c) \/ connectDestroyed(h, c)
      <3>1. PICK h \in Loops : quit(h) \/ \E c \in Conns :
                  connectEstablished(h, c) \/ connectDestroyed(h, c)
        BY <2>7
      <3>2. /\ pc[h] = "functors"
            /\ pos' = [pos EXCEPT ![h] = @ + 1]
            /\ UNCHANGED <<pc, batch, revents>>
        BY <3>1 DEF quit, connectEstablished, connectDestroyed, Calls
      <3>. QED
        BY <1>1, <2>1, <3>2
    <2>8. CASE \E h \in Loops, c \in Conns : handleRead(h, c)
      <3>1. PICK h \in Loops, c \in Conns : handleRead(h, c)
        BY <2>8
      <3>2. /\ pc[h] = "events" /\ UNCHANGED <<pc, batch, pos>>
            /\ revents' = [revents EXCEPT ![h] = @ \ {c}]
        BY <3>1 DEF handleRead
      <3>. QED
        BY <1>1, <2>1, <3>2
    <2>9. CASE UNCHANGED <<pc, batch, pos, revents>>
      BY <1>1, <2>9
    <2>10. \/ UNCHANGED <<pc, batch, pos, revents>> \/ start
           \/ \E f \in Loops :
                 \/ loop(f) \/ FollowerWait(f) \/ FollowerInterrupted(f) \/ FollowerSwap(f)
                 \/ FollowerRound(f) \/ quit(f)
                 \/ \E c \in Conns :
                       handleRead(f, c) \/ connectEstablished(f, c) \/ connectDestroyed(f, c)
      <3>1. ASSUME \/ LeaderWait \/ LeaderInterrupted \/ onAccept \/ AcceptFails \/ LeaderSwap
                   \/ removeConnectionInLoop \/ LeaderRound
            PROVE  UNCHANGED <<pc, batch, pos, revents>>
        BY <3>1 DEF LeaderWait, LeaderInterrupted, onAccept, AcceptFails, LeaderSwap,
                    removeConnectionInLoop, LeaderRound, followerVars
      <3>2. ASSUME \/ Unlisten \/ DestroyConn \/ clearFollowers \/ Join \/ shutdown
                   \/ PeerConnects \/ UNCHANGED vars
                   \/ (\E s \in Conns : PeerHangsUp(s) \/ Traffic(s))
            PROVE  UNCHANGED <<pc, batch, pos, revents>>
        BY <3>2 DEF Unlisten, DestroyConn, clearFollowers, Join, shutdown, PeerConnects,
                    PeerHangsUp, Traffic, vars, followerVars
      <3>. QED
        BY <3>1, <3>2, ServerSteps, Zenon
    <2>. QED
      BY <2>2, <2>3, <2>4, <2>5, <2>6, <2>7, <2>8, <2>9, <2>10
  <1>3. Idle' /\ Empty' /\ Quitting' /\ Over'
    <2>. USE DEF Running, LeaderTypes
    <2>1. CASE start
      BY <1>1, <2>1 DEF start
    <2>2. CASE LeaderWait \/ LeaderInterrupted \/ AcceptFails
      BY <1>1, <2>2 DEF LeaderWait, LeaderInterrupted, AcceptFails
    <2>3. CASE onAccept
      BY <1>1, <2>3 DEF onAccept, AcceptMore
    <2>4. CASE LeaderSwap
      BY <1>1, <2>4 DEF LeaderSwap
    <2>5. CASE LeaderRound
      BY <1>1, <2>5 DEF LeaderRound
    <2>6. CASE removeConnectionInLoop
      BY <1>1, <2>6 DEF removeConnectionInLoop
    <2>7. CASE Unlisten \/ DestroyConn
      BY <1>1, <2>7 DEF Unlisten, DestroyConn
    <2>8. CASE clearFollowers
      <3>1. todo = {} /\ UNCHANGED todo /\ lpc' = "quit"
        BY <2>8 DEF clearFollowers, DestroyFirst
      <3>2. lpos' # 0
        BY <1>1, <2>8 DEF clearFollowers
      <3>. QED
        BY <3>1, <3>2
    <2>9. CASE Join
      BY <1>1, <2>9 DEF Join, Joinable
    <2>10. CASE shutdown \/ PeerConnects \/ UNCHANGED vars
                 \/ \E s \in Conns : PeerHangsUp(s) \/ Traffic(s)
      <3>1. UNCHANGED <<lpc, lpos, lbatch, todo, regs, pc, functors>>
        BY <2>10 DEF shutdown, PeerConnects, PeerHangsUp, Traffic, vars, leaderVars, followerVars,
               kernelVars
      <3>. QED
        BY <1>1, <3>1
    <2>11. CASE \E f \in Loops :
                   \/ loop(f) \/ FollowerWait(f) \/ FollowerInterrupted(f) \/ FollowerSwap(f)
                   \/ FollowerRound(f) \/ quit(f)
                   \/ \E c \in Conns :
                         handleRead(f, c) \/ connectEstablished(f, c) \/ connectDestroyed(f, c)
      <3>1. PICK f \in Loops :
                   \/ loop(f) \/ FollowerWait(f) \/ FollowerInterrupted(f) \/ FollowerSwap(f)
                   \/ FollowerRound(f) \/ quit(f)
                   \/ \E c \in Conns :
                         handleRead(f, c) \/ connectEstablished(f, c) \/ connectDestroyed(f, c)
        BY <2>11
      <3>2. pc[f] \notin {"idle", "stopped"} /\ UNCHANGED <<lpc, lpos, lbatch, todo>>
        BY <3>1 DEF loop, FollowerWait, FollowerInterrupted, FollowerSwap, FollowerRound, quit,
                    handleRead, connectEstablished, connectDestroyed, Calls, leaderVars
      <3>. QED
        BY <1>1, <3>2
    <2>. QED
      BY <2>1, <2>2, <2>3, <2>4, <2>5, <2>6, <2>7, <2>8, <2>9, <2>10, <2>11, ServerSteps
  <1>. QED
    BY <1>2, <1>3 DEF Phases

(* Nothing is there yet. *)
LEMMA Initially ==
    ASSUME Init
    PROVE  ServerKept /\ Typed
  <1>. USE ServerAssumption DEF Init
  <1>1. <<>> \in Seq(Conns) /\ <<>> \in Seq(Functor) /\ Len(<<>>) = 0
    OBVIOUS
  <1>2. LeaderTypes
    <2>1. /\ lfunctors \in Seq(Conns)
          /\ lbatch \in Seq(Conns)
          /\ connpool \in [Fds -> Conns \cup {None}]
      BY <1>1
    <2>2. 1 \in Loops
      BY DEF Loops
    <2>3. lpos \in Nat /\ todo \subseteq Conns /\ currIndex \in Loops
      BY <2>2
    <2>. QED
      BY <2>1, <2>3 DEF LeaderTypes
  <1>3. FollowerTypes
    BY <1>1 DEF FollowerTypes
  <1>4. ConnTypes /\ KernelTypes
    <2>1. ConnTypes
      BY DEF ConnTypes
    <2>2. made \in 0..MaxConns /\ reports \in [Conns -> 0..MaxReports] /\ behind \subseteq Conns
      BY DEF KernelTypes
    <2>3. backlog \in Seq(Conns) /\ sockOf \in [Fds -> Conns \cup {None}]
      BY <1>1
    <2>4. /\ regs \subseteq Registration
          /\ ready \subseteq regs
          /\ lready \in BOOLEAN
          /\ asked \in BOOLEAN
      OBVIOUS
    <2>. QED
      BY <2>1, <2>2, <2>3, <2>4 DEF KernelTypes
  <1>5. Phases
    BY <1>1 DEF Phases, Running
  <1>6. \A f \in Loops : Len(Queue(f)) = 0 /\ Elements(Queue(f)) = {}
    <2>1. TAKE f \in Loops
    <2>2. Queue(f) = Rest(<<>>, 0, <<>>)
      BY DEF Queue, Rest
    <2>3. Queue(f) = <<>>
      BY <1>1, <2>2, RestIsList
    <2>. QED
      BY <2>3 DEF Elements
  <1>7. QueueInv
    <2>1. QueueTypes
      BY <1>1 DEF QueueTypes
    <2>. QED
      BY <1>6, <2>1 DEF QueueInv, Homed, InLine
  <1>8. Est = {} /\ Des = {}
    BY <1>6 DEF Est, Des
  <1>9. Pool = {}
    BY DEF Pool, Kept, Range, Conns, None
  <1>10. RemovalInv /\ Rem = {}
    <2>1. R = Rest(<<>>, 0, <<>>)
      BY DEF R
    <2>2. R = <<>>
      BY <1>1, <2>1, RestIsList
    <2>. QED
      BY <1>1, <2>2 DEF RemovalInv, Rem, Elements, Once
  <1>11. Backlog
    <2>1. Elements(backlog) = {} /\ Once(backlog)
      BY DEF Elements, Once
    <2>. QED
      BY <2>1 DEF Backlog
  <1>12. Owners /\ Stages /\ Removals
    BY <1>8, <1>9, <1>10 DEF Owners, Stages, Removals, Live
  <1>13. Events /\ ClosedOnce
    BY DEF Events, ClosedOnce
  <1>14. Given
    <2>1. \A f \in Loops : Elements(functors[f]) = {} /\ Elements(batch[f]) = {}
      BY DEF Elements
    <2>. QED
      BY <2>1 DEF Given
  <1>15. ServerKept
    BY <1>2, <1>3, <1>4, <1>5, <1>7, <1>11, <1>12, <1>13, TypeOKIs DEF ServerKept
  <1>. QED
    BY <1>2, <1>3, <1>4, <1>14, <1>15, Zenon DEF Typed

-----------------------------------------------------------------------------
(* The theorems.                                                           *)

(* Types hold, and as long as no connection is removed twice the rest.     *)
Safe == Typed /\ (RemovedOnce => ServerKept)

LEMMA SafeStep ==
    ASSUME Safe, [Next]_vars
    PROVE  Safe' /\ (RemovedOnce' => RemovedOnce)
  <1>1. Typed'
    BY TypedKept DEF Safe
  <1>2. ASSUME RemovedOnce'
        PROVE  RemovedOnce /\ ServerKept'
    <2>1. RemovedOnce
      BY <1>2, RemovalsGrow DEF Safe, Typed
    <2>2. ServerKept
      BY <2>1 DEF Safe
    <2>3. Phases' /\ QueueInv' /\ Connections'
      BY <1>2, <2>2, PhasesKept, QueuesKept, ConnectionsKept
    <2>4. TypeOK'
      BY <1>1 DEF TypeOK, Typed, LeaderTypes, FollowerTypes, ConnTypes, KernelTypes
    <2>. QED
      BY <2>1, <2>3, <2>4 DEF ServerKept, Connections
  <1>. QED
    BY <1>1, <1>2 DEF Safe

LEMMA ServerIsSafe == Spec => []Safe
  <1>1. Init => Safe
    BY Initially DEF Safe
  <1>2. Safe /\ [Next]_vars => Safe'
    BY SafeStep
  <1>. QED
    BY <1>1, <1>2, PTL DEF Spec

(* A connection with a destruction on its way has one. *)
LEMMA OneOnItsWay ==
    ASSUME ServerKept, NEW c \in Conns
    PROVE  /\ c \notin Des => Destroyers(c) = {} \/ looper[c] \notin Loops
           /\ c \in Des => \E i \in Destroyers(c) : Destroyers(c) = {i}
  <1>1. QueueInv
    BY DEF ServerKept
  <1>2. D(c).op # "quit"
    BY DEF D
  <1>3. Destroyers(c) = {i \in 1..Len(Queue(looper[c])) : Queue(looper[c])[i] = D(c)}
    BY DEF Destroyers, D
  <1>4. c \notin Des => Destroyers(c) = {} \/ looper[c] \notin Loops
    BY <1>3 DEF Des, Elements
  <1>5. ASSUME c \in Des
        PROVE  \E i \in Destroyers(c) : Destroyers(c) = {i}
    <2>1. looper[c] \in Loops /\ D(c) \in Elements(Queue(looper[c]))
      BY <1>1, <1>5 DEF Des, QueueInv, Homed
    <2>2. PICK q : q = Queue(looper[c])
      OBVIOUS
    <2>3. PICK i \in 1..Len(q) : q[i] = D(c)
      BY <2>1, <2>2 DEF Elements
    <2>4. \A j \in 1..Len(q) : q[j] = D(c) => j = i
      BY <1>1, <1>2, <2>1, <2>2, <2>3 DEF QueueInv, InLine
    <2>. QED
      BY <1>3, <2>2, <2>3, <2>4
  <1>. QED
    BY <1>4, <1>5

LEMMA OneDestroyerKept ==
    ASSUME ServerKept
    PROVE  OneDestroyer
  <1>1. Owners /\ Stages /\ ConnTypes
    BY TypeOKIs DEF ServerKept
  <1>2. SUFFICES ASSUME lpc # "gone", NEW c \in Conns, status[c] # "none"
                 PROVE  /\ status[c] = "DISCONNECTED" => c \notin Kept
                        /\ status[c] = "DISCONNECTED" \/ c \in Kept => Destroyers(c) = {}
                        /\ status[c] # "DISCONNECTED" /\ c \notin Kept =>
                             \E i \in Destroyers(c) : Destroyers(c) = {i}
    BY DEF OneDestroyer
  <1>3. looper[c] \in Loops /\ (c \in Pool <=> c \in Kept)
    BY <1>1, <1>2 DEF Owners, Pool
  <1>4. status[c] # "DISCONNECTED" => status[c] \in Live
    BY <1>1, <1>2 DEF ConnTypes, Live
  <1>5. status[c] = "DISCONNECTED" => c \notin Pool /\ c \notin Des
    BY <1>1 DEF Stages, Live
  <1>6. c \in Pool => c \notin Des
    BY <1>1 DEF Stages
  <1>7. status[c] \in Live => c \in Pool \/ c \in Des
    BY <1>1, <1>2 DEF Stages
  <1>. QED
    BY <1>2, <1>3, <1>4, <1>5, <1>6, <1>7, OneOnItsWay

LEMMA CleanJoinKept ==
    ASSUME ServerKept
    PROVE  CleanJoin
  <1>1. Phases /\ Owners /\ Stages /\ ConnTypes /\ TypeOK /\ QueueInv
    BY TypeOKIs DEF ServerKept
  <1>2. SUFFICES ASSUME Joinable, NEW c \in Conns, status[c] # "none", functors[looper[c]] = <<>>
                 PROVE  status[c] = "DISCONNECTED"
    BY DEF CleanJoin
  <1>3. /\ looper[c] \in Loops /\ lpc = "quit" /\ todo = {}
        /\ batch[looper[c]] = <<>> /\ pos[looper[c]] = 0
    BY <1>1, <1>2 DEF Owners, Phases, Joinable
  <1>4. c \notin Des
    <2>1. Queue(looper[c]) = Rest(<<>>, 0, <<>>)
      BY <1>2, <1>3 DEF Queue, Rest
    <2>2. <<>> \in Seq(Functor)
      OBVIOUS
    <2>3. Queue(looper[c]) = <<>>
      BY <2>1, <2>2, RestIsList
    <2>4. Elements(Queue(looper[c])) = {}
      BY <2>3 DEF Elements
    <2>. QED
      BY <1>1, <2>4 DEF Des, QueueInv, Homed
  <1>5. c \notin Pool
    BY <1>1, <1>3, PoolIs DEF Running
  <1>. QED
    BY <1>1, <1>2, <1>3, <1>4, <1>5 DEF Stages, ConnTypes, Live

(* What a loop holds keeps the objects alive. *)
LEMMA LiveObjects ==
    ASSUME ServerKept, NEW c \in Conns, status[c] \in Live, lpc # "gone"
    PROVE  c \in Alive
  <1>1. QueueInv /\ Stages /\ Owners /\ LeaderTypes /\ Phases /\ TypeOK
    BY TypeOKIs DEF ServerKept
  <1>2. CASE c \in Pool
    <2>1. CASE Running
      <3>1. c \in Range(connpool)
        BY <1>2, <2>1 DEF Pool, Kept, Running
      <3>. QED
        BY <3>1, Zenon DEF Alive
    <2>2. CASE ~Running
      <3>1. c \in todo /\ lpc = "destroy"
        BY <1>1, <1>2, <2>2, PoolIs DEF Running, Phases
      <3>2. c \in Range(connpool)
        BY <1>1, <3>1 DEF Owners
      <3>. QED
        BY <3>2, Zenon DEF Alive
    <2>. QED
      BY <2>1, <2>2
  <1>3. CASE c \in Des
    <2>1. PICK f \in Loops : D(c) \in Elements(Queue(f))
      BY <1>3 DEF Des
    <2>2. D(c) \in Functors(f)
      <3>1. PICK b \in Seq(Functor), q \in Seq(Functor), p \in Nat :
               b = batch[f] /\ q = functors[f] /\ p = pos[f] /\ p <= Len(b)
        BY <1>1 DEF QueueInv, QueueTypes
      <3>2. /\ SubSeq(b, p + 1, Len(b)) \in Seq(Functor)
            /\ Len(SubSeq(b, p + 1, Len(b))) = Len(b) - p
            /\ \A i \in 1..(Len(b) - p) : SubSeq(b, p + 1, Len(b))[i] = b[p + i]
        BY <3>1, Remainder
      <3>3. PICK u \in Seq(Functor) : u = SubSeq(b, p + 1, Len(b))
        BY <3>2
      <3>4. Queue(f) = u \o q
        BY <3>1, <3>3 DEF Queue
      <3>5. PICK i \in 1..Len(u \o q) : (u \o q)[i] = D(c)
        BY <2>1, <3>4 DEF Elements
      <3>6. CASE i <= Len(u)
        <4>1. i \in 1..(Len(b) - p) /\ D(c) = b[p + i]
          BY <3>2, <3>3, <3>5, <3>6
        <4>2. p + i \in 1..Len(b)
          BY <3>1, <4>1
        <4>3. D(c) \in Range(b)
          BY <4>1, <4>2 DEF Range
        <4>. QED
          BY <3>1, <4>3 DEF Functors
      <3>7. CASE i > Len(u)
        <4>1. PICK j \in Nat : j = i - Len(u) /\ j \in 1..Len(q)
          BY <3>5, <3>7
        <4>2. D(c) = q[j]
          BY <3>5, <3>7, <4>1
        <4>3. D(c) \in Range(q)
          BY <4>1, <4>2 DEF Range
        <4>. QED
          BY <3>1, <4>3 DEF Functors
      <3>. QED
        BY <3>5, <3>6, <3>7
    <2>3. c \in {g.conn : g \in UNION {Functors(h) : h \in Loops}}
      <3>1. D(c).conn = c
        BY DEF D
      <3>. QED
        BY <2>2, <3>1
    <2>. QED
      BY <2>3, Zenon DEF Alive
  <1>. QED
    BY <1>1, <1>2, <1>3 DEF Stages

(* Until it has closed it, the descriptor of an object stands for the      *)
(* object's own socket, though the kernel reuses descriptors.              *)
LEMMA DescriptorOwnedKept == ServerKept => DescriptorOwned
  BY DEF ServerKept, Owners, DescriptorOwned, Live

(* As long as no connection is removed twice, it is in the pool or has one *)
(* destruction on its way until it is destroyed, it is closed once, its    *)
(* descriptor is its own until it has closed it, and none that was given   *)
(* to a follower without functors left is there when the threads can be    *)
(* joined (handleClose, connectDestroyed, ~TcpServer).                     *)
THEOREM ServerCorrect == Spec => []ServerInv
  <1>1. Safe => ServerInv
    <2>1. ServerKept => OneDestroyer /\ ClosedOnce /\ DescriptorOwned /\ CleanJoin
      BY OneDestroyerKept, CleanJoinKept, DescriptorOwnedKept DEF ServerKept
    <2>2. Typed => TypeOK
      BY TypeOKIs DEF Typed
    <2>. QED
      BY <2>1, <2>2 DEF Safe, ServerInv
  <1>. QED
    BY <1>1, ServerIsSafe, PTL

(* epoll never holds a pointer to the trigger of a deleted TcpConnection,  *)
(* as long as no connection is removed twice.                              *)
THEOREM TriggersAlive == Spec => []RegisteredAlive
  <1>1. Safe => RegisteredAlive
    <2>1. SUFFICES ASSUME ServerKept, NEW r \in regs
                   PROVE  r.conn \in Alive
      BY DEF RegisteredAlive, Safe
    <2>2. Events /\ Phases /\ KernelTypes
      BY <2>1, TypeOKIs DEF ServerKept
    <2>3. r.conn \in Conns /\ status[r.conn] \in Live /\ lpc # "gone"
      BY <2>1, <2>2 DEF Events, Phases, KernelTypes, Registration, Live
    <2>. QED
      BY <2>1, <2>3, LiveObjects
  <1>. QED
    BY <1>1, ServerIsSafe, PTL

(* No event that a loop handles is for a deleted one, until a connection   *)
(* is removed twice; after that it may be, as the run of HandledAlive      *)
(* shows.                                                                  *)
THEOREM EventsForTheLiving == Spec => [](RemovedOnce => HandledAlive)
  <1>1. Safe => (RemovedOnce => HandledAlive)
    <2>1. SUFFICES ASSUME ServerKept, NEW f \in Loops, NEW c \in revents[f]
                   PROVE  c \in Alive
      BY DEF HandledAlive, Safe
    <2>2. Events /\ Phases /\ FollowerTypes
      BY <2>1, TypeOKIs DEF ServerKept
    <2>3. c \in Conns /\ status[c] \in Live
      BY <2>1, <2>2 DEF Events, FollowerTypes, Live
    <2>4. lpc # "gone"
      BY <2>1, <2>2 DEF Phases
    <2>. QED
      BY <2>1, <2>3, <2>4, LiveObjects
  <1>. QED
    BY <1>1, ServerIsSafe, PTL

-----------------------------------------------------------------------------
(* The life of connections.  Whom onAccept takes next follows from the     *)
(* order of the backlog, and in a follower's queue who is to be established *)
(* stands in the order of acceptance.                                      *)

(* Division with a remainder. *)
LEMMA Multiples ==
    ASSUME NEW u \in Nat \ {0}, NEW a \in Int, NEW b \in Int, a < b
    PROVE  u * a \in Int /\ u * b \in Int /\ u * a + u <= u * b
  <1>1. PICK d \in Nat : b = (a + 1) + d
    <2>1. b - (a + 1) \in Nat /\ b = (a + 1) + (b - (a + 1))
      OBVIOUS
    <2>. QED
      BY <2>1
  <1>2. u * ((a + 1) + d) = u * a + u + u * d
    OBVIOUS
  <1>3. u * d \in Nat /\ u * a \in Int
    OBVIOUS
  <1>4. u * b = u * a + u + u * d
    BY <1>1, <1>2
  <1>. HIDE <1>1
  <1>. QED
    BY <1>3, <1>4

LEMMA Remains ==
    ASSUME NEW u \in Nat \ {0}, NEW a \in Int, NEW r \in 0..(u - 1)
    PROVE  (u * a + r) % u = r
  <1>1. PICK y \in Int : y = u * a
    OBVIOUS
  <1>2. PICK x \in Int : x = y + r
    OBVIOUS
  <1>3. PICK c \in Int : c = x \div u
    OBVIOUS
  <1>4. PICK w \in 0..(u - 1) : w = x % u
    OBVIOUS
  <1>5. x = u * c + w
    <2>1. x = u * (x \div u) + (x % u)
      OBVIOUS
    <2>. QED
      BY <1>3, <1>4, <2>1
  <1>6. PICK z \in Int : z = u * c
    OBVIOUS
  <1>7. ASSUME a < c PROVE FALSE
    BY <1>1, <1>2, <1>5, <1>6, <1>7, Multiples
  <1>8. ASSUME c < a PROVE FALSE
    BY <1>1, <1>2, <1>5, <1>6, <1>8, Multiples
  <1>9. a = c
    BY <1>7, <1>8
  <1>10. r = w
    BY <1>1, <1>2, <1>5, <1>6, <1>9
  <1>. QED
    BY <1>1, <1>2, <1>4, <1>10

(* The round robin of getNextEventLoop comes to every follower in turn. *)
LEMMA NextTurn ==
    /\ Life!Turn(1) = 1
    /\ \A n \in Nat : Life!Turn(n + 1) \in Loops
                      /\ NextIndex(Life!Turn(n + 1)) = Life!Turn(n + 2)
  <1>1. PICK u \in Nat \ {0} : u = Followers
    BY ServerAssumption
  <1>2. ASSUME NEW n \in Nat
        PROVE  Life!Turn(n + 1) = (n % u) + 1 /\ Life!Turn(n + 2) = ((n + 1) % u) + 1
    <2>1. (n + 1) - 1 = n /\ (n + 2) - 1 = n + 1
      OBVIOUS
    <2>. QED
      BY <1>1, <2>1 DEF Life!Turn
  <1>3. 0 % u = 0
    <2>1. (u * 0 + 0) % u = 0
      BY Remains
    <2>2. u * 0 + 0 = 0
      OBVIOUS
    <2>. QED
      BY <2>1, <2>2
  <1>4. ASSUME NEW n \in Nat
        PROVE  /\ Life!Turn(n + 1) \in Loops
               /\ NextIndex(Life!Turn(n + 1)) = Life!Turn(n + 2)
    <2>1. PICK r \in 0..(u - 1) : r = n % u
      OBVIOUS
    <2>2. PICK a \in Int : a = n \div u
      OBVIOUS
    <2>3. n = u * a + r
      <3>1. n = u * (n \div u) + (n % u)
        OBVIOUS
      <3>. QED
        BY <2>1, <2>2, <3>1
    <2>4. (n + 1) % u = IF r = u - 1 THEN 0 ELSE r + 1
      <3>1. CASE r = u - 1
        <4>1. u * (a + 1) + 0 = n + 1
          BY <2>3, <3>1
        <4>2. (u * (a + 1) + 0) % u = 0
          BY Remains
        <4>. QED
          BY <3>1, <4>1, <4>2
      <3>2. CASE r # u - 1
        <4>1. PICK t \in 0..(u - 1) : t = r + 1
          BY <3>2
        <4>2. (u * a + t) % u = t
          BY Remains
        <4>3. u * a + t = n + 1
          BY <2>3, <4>1
        <4>. QED
          BY <3>2, <4>1, <4>2, <4>3
      <3>. QED
        BY <3>1, <3>2
    <2>5. Life!Turn(n + 1) = r + 1 /\ Life!Turn(n + 2) = ((n + 1) % u) + 1
      <3>1. Life!Turn(n + 1) = (n % u) + 1 /\ Life!Turn(n + 2) = ((n + 1) % u) + 1
        BY <1>2
      <3>. QED
        BY <2>1, <3>1
    <2>. QED
      BY <1>1, <2>4, <2>5 DEF NextIndex, Loops
  <1>5. Life!Turn(1) = 1
    <2>1. 1 - 1 = 0
      OBVIOUS
    <2>. QED
      BY <1>1, <1>3, <2>1 DEF Life!Turn
  <1>. QED
    BY <1>4, <1>5

(* How many connections were accepted, while the server runs. *)
Taken == made - Len(backlog)

InOrder(s) ==
    \A i, j \in 1..Len(s), c, d \in Conns : i < j /\ s[i] = E(c) /\ s[j] = E(d) => c < d

Line ==
    Running => /\ Taken \in Nat
               /\ \A i \in 1..Len(backlog) : backlog[i] = Taken + i
               /\ \A c \in Conns : status[c] = "none" <=> c > Taken
               /\ currIndex = Life!Turn(Taken + 1)

Turns == \A c \in Conns : status[c] # "none" => looper[c] = Life!Turn(c)

Ordered == \A f \in Loops : InOrder(Queue(f))

(* A functor leaves a queue, or joins it. *)
LEMMA OrderShrinks ==
    ASSUME NEW s \in Seq(Functor), s # <<>>, InOrder(s)
    PROVE  InOrder(Tail(s))
  <1>1. PICK n \in Nat : n = Len(s) /\ n > 0
    BY EmptySeq
  <1>2. PICK t \in Seq(Functor) : t = Tail(s)
    BY HeadTailProperties
  <1>3. Len(t) = n - 1 /\ \A i \in 1..(n - 1) : t[i] = s[i + 1]
    BY <1>1, <1>2, HeadTailProperties
  <1>4. ASSUME NEW i \in 1..(n - 1), NEW j \in 1..(n - 1), NEW c \in Conns, NEW d \in Conns,
               i < j, t[i] = E(c), t[j] = E(d)
        PROVE  c < d
    <2>1. /\ i + 1 \in 1..n /\ j + 1 \in 1..n /\ i + 1 < j + 1
          /\ s[i + 1] = E(c) /\ s[j + 1] = E(d)
      BY <1>3, <1>4
    <2>. QED
      BY <1>1, <2>1 DEF InOrder
  <1>. QED
    BY <1>2, <1>3, <1>4 DEF InOrder

LEMMA OrderGrows ==
    ASSUME NEW s \in Seq(Functor), NEW g \in Functor, InOrder(s),
           \A c, d \in Conns : g = E(d) /\ E(c) \in Elements(s) => c < d
    PROVE  InOrder(Append(s, g))
  <1>1. PICK n \in Nat : n = Len(s)
    OBVIOUS
  <1>2. PICK t \in Seq(Functor) : t = Append(s, g)
    BY AppendProperties
  <1>3. Len(t) = n + 1 /\ t[n + 1] = g /\ \A i \in 1..n : t[i] = s[i]
    BY <1>1, <1>2, AppendProperties
  <1>4. ASSUME NEW i \in 1..(n + 1), NEW j \in 1..(n + 1), NEW c \in Conns, NEW d \in Conns,
               i < j, t[i] = E(c), t[j] = E(d)
        PROVE  c < d
    <2>1. i \in 1..n /\ s[i] = E(c)
      BY <1>3, <1>4
    <2>2. CASE j \in 1..n
      <3>1. s[j] = E(d)
        BY <1>3, <1>4, <2>2
      <3>. QED
        BY <1>1, <1>4, <2>1, <2>2, <3>1 DEF InOrder
    <2>3. CASE j = n + 1
      <3>1. g = E(d) /\ E(c) \in Elements(s)
        BY <1>1, <1>3, <1>4, <2>1, <2>3 DEF Elements
      <3>. QED
        BY <3>1
    <2>. QED
      BY <1>4, <2>2, <2>3
  <1>. QED
    BY <1>2, <1>3, <1>4 DEF InOrder

(* What a push and a call do to the order. *)
LEMMA PushOrder ==
    ASSUME QueueInv, Ordered, NEW f \in Loops, NEW op, NEW c, [op |-> op, conn |-> c] \in Functor,
           Push(f, op, c), UNCHANGED <<batch, pos>>, looper' \in [Conns -> Loops \cup {None}],
           op = "connectEstablished" => c \in Conns /\ \A d \in Est : d < c
    PROVE  Ordered'
  <1>1. PICK g \in Functor : g = [op |-> op, conn |-> c]
    OBVIOUS
  <1>2. /\ Queue(f)' = Append(Queue(f), g)
        /\ \A h \in Loops : h # f => Queue(h)' = Queue(h)
    BY <1>1, Pushed DEF QueueInv
  <1>3. Queue(f) \in Seq(Functor) /\ InOrder(Queue(f))
    BY QueueIs DEF QueueInv, Ordered
  <1>4. ASSUME NEW e \in Conns, NEW d \in Conns, g = E(d), E(e) \in Elements(Queue(f))
        PROVE  e < d
    <2>1. op = "connectEstablished" /\ d = c
      BY <1>1, <1>4 DEF E
    <2>2. e \in Est
      BY <1>4 DEF Est
    <2>. QED
      BY <2>1, <2>2
  <1>5. InOrder(Append(Queue(f), g))
    BY <1>3, <1>4, OrderGrows
  <1>. QED
    BY <1>2, <1>5 DEF Ordered

LEMMA CallOrder ==
    ASSUME QueueInv, Ordered, NEW f \in Loops, NEW op, NEW c, Calls(f, op, c),
           UNCHANGED <<batch, functors, looper>>
    PROVE  Ordered'
  <1>1. /\ Queue(f) # <<>> /\ Queue(f)' = Tail(Queue(f))
        /\ \A h \in Loops : h # f => Queue(h)' = Queue(h)
    BY Called DEF QueueInv
  <1>2. Queue(f) \in Seq(Functor) /\ InOrder(Queue(f))
    BY QueueIs DEF QueueInv, Ordered
  <1>3. InOrder(Tail(Queue(f)))
    BY <1>1, <1>2, OrderShrinks
  <1>. QED
    BY <1>1, <1>3 DEF Ordered

(* Only onAccept makes an object, and it gives it to a follower for good. *)
SameObjects ==
    UNCHANGED looper /\ \A c \in Conns : status'[c] = "none" <=> status[c] = "none"

LEMMA ObjectsStay ==
    ASSUME ServerKept, RemovedOnce', [Next]_vars, ~onAccept
    PROVE  SameObjects
  <1>1. TypeOK /\ ConnTypes
    BY TypeOKIs DEF ServerKept
  <1>2. CASE UNCHANGED connVars
    BY <1>2 DEF SameObjects, connVars
  <1>3. CASE \E f \in Loops, c \in Conns : Closes(f, c)
    <2>1. PICK f \in Loops, c \in Conns : Closes(f, c)
      BY <1>3
    <2>2. status[c] = "CONNECTED" /\ status' = [status EXCEPT ![c] = "DISCONNECTING"]
      BY <2>1, ClosedByPeer
    <2>3. UNCHANGED looper
      BY <2>1 DEF Closes, handleRead
    <2>. QED
      BY <1>1, <2>2, <2>3 DEF SameObjects, ConnTypes
  <1>4. CASE \E f \in Loops, c \in Conns : connectEstablished(f, c)
    <2>1. PICK f \in Loops, c \in Conns : connectEstablished(f, c)
      BY <1>4
    <2>2. PICK r : r = [loop |-> f, sock |-> c, conn |-> c]
      OBVIOUS
    <2>3. status[c] = "CONNECTING" /\ status' = [status EXCEPT ![c] = "CONNECTED"]
      BY <2>1, <2>2, Established
    <2>4. UNCHANGED looper
      BY <2>1 DEF connectEstablished
    <2>. QED
      BY <1>1, <2>3, <2>4 DEF SameObjects, ConnTypes
  <1>5. CASE \E f \in Loops, c \in Conns : connectDestroyed(f, c)
    <2>1. PICK f \in Loops, c \in Conns : connectDestroyed(f, c)
      BY <1>5
    <2>2. /\ status[c] \in {"CONNECTED", "DISCONNECTING"}
          /\ status' = [status EXCEPT ![c] = "DISCONNECTED"]
      BY <2>1, Disconnected
    <2>3. UNCHANGED looper
      BY <2>1 DEF connectDestroyed
    <2>. QED
      BY <1>1, <2>2, <2>3 DEF SameObjects, ConnTypes
  <1>. QED
    BY <1>2, <1>3, <1>4, <1>5, ObjectSteps

LEMMA TurnsStay == ASSUME Turns, SameObjects PROVE Turns'
  BY DEF Turns, SameObjects

LEMMA LineStays ==
    ASSUME Line, SameObjects, ~Running' \/ (Running /\ UNCHANGED <<made, backlog, currIndex>>)
    PROVE  Line'
  BY DEF Line, SameObjects, Taken

(* What a connection that is accepted is given. *)
LEMMA AcceptOrder ==
    ASSUME ServerKept, Line, Turns, Ordered, onAccept
    PROVE  /\ Line' /\ Turns' /\ Ordered'
           /\ Head(backlog) = Taken + 1 /\ currIndex = Life!Turn(Head(backlog))
  <1>1. /\ TypeOK /\ QueueInv /\ Stages /\ ConnTypes /\ KernelTypes /\ LeaderTypes
    BY TypeOKIs DEF ServerKept
  <1>2. PICK b \in Seq(Conns), n \in Nat, a \in Nat :
           b = backlog /\ b # <<>> /\ n = Len(b) /\ n > 0 /\ a = Taken
    <2>1. backlog \in Seq(Conns) /\ backlog # <<>> /\ Running
      BY <1>1 DEF onAccept, KernelTypes, Running
    <2>2. PICK b \in Seq(Conns) : b = backlog /\ b # <<>>
      BY <2>1
    <2>3. PICK n \in Nat : n = Len(b) /\ n > 0
      BY <2>2, EmptySeq
    <2>. QED
      BY <2>1, <2>2, <2>3 DEF Line
  <1>3. /\ Running /\ Running'
        /\ made = a + n
        /\ \A i \in 1..n : b[i] = a + i
        /\ \A e \in Conns : status[e] = "none" <=> e > a
        /\ currIndex = Life!Turn(a + 1)
    <2>1. Running /\ Running'
      BY DEF onAccept, Running, AcceptMore
    <2>. QED
      BY <1>1, <1>2, <2>1 DEF Line, Taken, KernelTypes
  <1>4. PICK t \in Seq(Conns) : t = Tail(b)
    BY <1>2, HeadTailProperties
  <1>5. /\ Len(t) = n - 1 /\ \A i \in 1..(n - 1) : t[i] = b[i + 1]
        /\ Head(b) = b[1]
    BY <1>2, <1>4, HeadTailProperties
  <1>6. PICK c \in Conns : c = Head(b) /\ c = a + 1
    <2>1. 1 \in 1..n
      BY <1>2
    <2>. QED
      BY <1>2, <1>3, <1>5, <2>1
  <1>7. /\ backlog' = t /\ looper' = [looper EXCEPT ![c] = currIndex]
        /\ status' = [status EXCEPT ![c] = "CONNECTING"]
        /\ currIndex' = NextIndex(currIndex) /\ made' = made
        /\ Push(currIndex, "connectEstablished", c) /\ UNCHANGED <<batch, pos>>
    BY <1>2, <1>4, <1>6 DEF onAccept
  <1>8. Taken' = a + 1
    <2>1. Taken' = (a + n) - (n - 1)
      BY <1>3, <1>5, <1>7 DEF Taken
    <2>. QED
      BY <1>2, <2>1
  <1>9. Line'
    <2>1. \A i \in 1..(n - 1) : t[i] = (a + 1) + i
      BY <1>2, <1>3, <1>5
    <2>2. \A e \in Conns : status'[e] = "none" <=> e > a + 1
      <3>1. TAKE e \in Conns
      <3>2. e \in Nat /\ c \in Nat
        BY DEF Conns
      <3>3. status'[e] = IF e = c THEN "CONNECTING" ELSE status[e]
        BY <1>1, <1>7 DEF ConnTypes
      <3>. QED
        BY <1>3, <1>6, <3>2, <3>3
    <2>3. currIndex' = Life!Turn((a + 1) + 1)
      <3>1. NextIndex(Life!Turn(a + 1)) = Life!Turn(a + 2)
        BY NextTurn
      <3>2. (a + 1) + 1 = a + 2
        OBVIOUS
      <3>. QED
        BY <1>3, <1>7, <3>1, <3>2
    <2>4. Taken' \in Nat
      BY <1>8
    <2>5. \A i \in 1..Len(backlog') : backlog'[i] = Taken' + i
      BY <1>5, <1>7, <1>8, <2>1
    <2>. QED
      BY <1>8, <2>2, <2>3, <2>4, <2>5 DEF Line
  <1>10. Turns'
    <2>1. ASSUME NEW e \in Conns, status'[e] # "none"
          PROVE  looper'[e] = Life!Turn(e)
      <3>1. CASE e = c
        BY <1>1, <1>3, <1>6, <1>7, <3>1 DEF ConnTypes
      <3>2. CASE e # c
        BY <1>1, <1>7, <2>1, <3>2 DEF ConnTypes, Turns
      <3>. QED
        BY <3>1, <3>2
    <2>. QED
      BY <2>1 DEF Turns
  <1>11. Ordered'
    <2>1. currIndex \in Loops /\ [op |-> "connectEstablished", conn |-> c] \in Functor
      BY <1>1 DEF LeaderTypes, Functor
    <2>2. looper' \in [Conns -> Loops \cup {None}]
      BY <1>1, <1>7, <2>1 DEF ConnTypes
    <2>3. \A d \in Est : d < c
      <3>1. TAKE d \in Est
      <3>2. d \in Conns /\ status[d] = "CONNECTING"
        BY <1>1 DEF Est, Stages
      <3>3. d \in Nat /\ ~(d > a)
        BY <1>3, <3>2 DEF Conns
      <3>. QED
        BY <1>6, <3>3
    <2>. QED
      BY <1>1, <1>7, <2>1, <2>2, <2>3, PushOrder
  <1>. QED
    BY <1>2, <1>3, <1>6, <1>9, <1>10, <1>11

LEMMA ConnectOrder ==
    ASSUME ServerKept, Line, PeerConnects
    PROVE  Line'
  <1>1. TypeOK /\ KernelTypes
    BY TypeOKIs DEF ServerKept
  <1>2. SUFFICES ASSUME Running'
                 PROVE  Line'
    BY DEF Line
  <1>3. /\ Running /\ made' = made + 1 /\ made < MaxConns
        /\ backlog' = Append(backlog, made + 1) /\ UNCHANGED <<status, currIndex>>
    BY <1>2 DEF PeerConnects, Running, leaderVars, connVars
  <1>4. PICK b \in Seq(Conns), m \in Conns : b = backlog /\ m = made + 1
    BY <1>1, <1>3, ServerAssumption DEF KernelTypes, Conns
  <1>5. PICK n \in Nat, a \in Nat : n = Len(b) /\ a = Taken /\ m = (a + n) + 1
    BY <1>1, <1>3, <1>4 DEF Line, Taken, KernelTypes
  <1>6. PICK t \in Seq(Conns) : t = Append(b, m)
    BY AppendProperties
  <1>7. Len(t) = n + 1 /\ t[n + 1] = m /\ \A i \in 1..n : t[i] = b[i]
    BY <1>5, <1>6, AppendProperties
  <1>8. backlog' = t /\ Taken' = a
    <2>1. backlog' = t
      BY <1>3, <1>4, <1>6
    <2>2. Taken' = m - (n + 1)
      BY <1>3, <1>4, <1>7, <2>1 DEF Taken
    <2>. QED
      BY <1>5, <2>1, <2>2
  <1>9. \A i \in 1..(n + 1) : t[i] = a + i
    <2>1. \A i \in 1..n : b[i] = a + i
      BY <1>3, <1>4, <1>5 DEF Line
    <2>2. \A i \in 1..(n + 1) : i \in 1..n \/ i = n + 1
      OBVIOUS
    <2>. QED
      BY <1>5, <1>7, <2>1, <2>2
  <1>10. \A i \in 1..Len(backlog') : backlog'[i] = Taken' + i
    BY <1>7, <1>8, <1>9
  <1>. QED
    BY <1>3, <1>5, <1>8, <1>10 DEF Line

LEMMA LineAndTurnsKept ==
    ASSUME ServerKept, RemovedOnce', Line, Turns, Ordered, [Next]_vars
    PROVE  Line' /\ Turns'
  <1>1. CASE onAccept
    BY <1>1, AcceptOrder
  <1>2. CASE PeerConnects
    <2>1. made \in Nat
      BY TypeOKIs DEF ServerKept, KernelTypes
    <2>2. ~onAccept
      <3>1. made' = made + 1 /\ (onAccept => made' = made)
        BY <1>2 DEF onAccept, PeerConnects
      <3>. QED
        BY <2>1, <3>1
    <2>3. SameObjects
      BY <2>2, ObjectsStay
    <2>. QED
      BY <1>2, <2>3, ConnectOrder, TurnsStay
  <1>3. CASE ~onAccept /\ ~PeerConnects
    <2>1. SameObjects
      BY <1>3, ObjectsStay
    <2>2. ~Running' \/ (Running /\ UNCHANGED <<made, backlog, currIndex>>)
      <3>. USE DEF leaderVars, followerVars, connVars, kernelVars
      <3>1. CASE QuietLeader \/ \E f \in Loops : QuietFollower(f)
        <4>1. Running' = Running
          BY <3>1, QuietLeaderSteps, QuietFollowerSteps DEF Still
        <4>2. UNCHANGED <<made, backlog>>
          BY <3>1, QuietLeaderSteps, QuietFollowerSteps DEF ConnectionsStay
        <4>3. UNCHANGED currIndex
          BY <3>1 DEF QuietLeader, QuietFollower, start, LeaderWait, LeaderInterrupted,
                      AcceptFails, LeaderSwap, LeaderRound, shutdown, vars, loop,
                      FollowerInterrupted, FollowerSwap, quit, FollowerRound
        <4>. QED
          BY <4>1, <4>2, <4>3
      <3>2. CASE removeConnectionInLoop
        BY <3>2 DEF removeConnectionInLoop, Running
      <3>3. CASE Unlisten \/ DestroyConn \/ clearFollowers \/ Join
        BY <3>3 DEF Unlisten, DestroyConn, clearFollowers, Join, Running
      <3>4. CASE (\E s \in Conns : PeerHangsUp(s) \/ Traffic(s))
                   \/ \E f \in Loops : FollowerWait(f)
        BY <3>4 DEF PeerHangsUp, Traffic, FollowerWait, Running
      <3>5. CASE \E f \in Loops, c \in Conns :
                    handleRead(f, c) \/ connectEstablished(f, c) \/ connectDestroyed(f, c)
        BY <3>5 DEF handleRead, connectEstablished, connectDestroyed, Running
      <3>. QED
        BY <1>3, <3>1, <3>2, <3>3, <3>4, <3>5, ServerSteps DEF QuietLeader, QuietFollower
    <2>. QED
      BY <2>1, <2>2, TurnsStay, LineStays
  <1>. QED
    BY <1>1, <1>2, <1>3

LEMMA OrderedKept ==
    ASSUME ServerKept, Line, Turns, Ordered, [Next]_vars
    PROVE  Ordered'
  <1>1. /\ TypeOK /\ QueueInv /\ Phases /\ LeaderTypes /\ Owners
        /\ looper \in [Conns -> Loops \cup {None}]
    BY TypeOKIs DEF ServerKept, ConnTypes
  <1>2. ASSUME \A f \in Loops : Queue(f)' = Queue(f)
        PROVE  Ordered'
    BY <1>2 DEF Ordered
  <1>3. ASSUME UNCHANGED <<functors, batch, pos, looper>>
        PROVE  Ordered'
    BY <1>1, <1>2, <1>3, QueuesUntouched
  <1>4. CASE onAccept
    BY <1>4, AcceptOrder
  <1>5. CASE removeConnectionInLoop
    <2>1. PICK c : c = lbatch[lpos + 1]
      OBVIOUS
    <2>2. c \in Conns /\ status[c] = "DISCONNECTING"
      BY <1>5, <2>1, Removed
    <2>3. looper[c] \in Loops
      BY <1>1, <2>2 DEF Owners
    <2>4. Push(looper[c], "connectDestroyed", c) /\ UNCHANGED <<batch, pos, looper>>
      BY <1>5, <2>1 DEF removeConnectionInLoop, connVars
    <2>5. [op |-> "connectDestroyed", conn |-> c] \in Functor
      BY <2>2 DEF Functor
    <2>. QED
      BY <1>1, <2>3, <2>4, <2>5, PushOrder
  <1>6. CASE DestroyConn
    <2>1. PICK c \in todo : Destroys(c)
      BY <1>6, DestroyConnIs
    <2>2. c \in Conns /\ status[c] \in Live
      BY <2>1, Destroyed
    <2>3. looper[c] \in Loops
      BY <1>1, <2>2 DEF Owners, Live
    <2>4. Push(looper[c], "connectDestroyed", c) /\ UNCHANGED <<batch, pos, looper>>
      BY <2>1 DEF Destroys, connVars
    <2>5. [op |-> "connectDestroyed", conn |-> c] \in Functor
      BY <2>2 DEF Functor
    <2>. QED
      BY <1>1, <2>3, <2>4, <2>5, PushOrder
  <1>7. CASE clearFollowers
    <2>1. UNCHANGED <<batch, pos, looper>>
      BY <1>7 DEF clearFollowers, connVars
    <2>2. CASE UNCHANGED functors
      BY <1>3, <2>1, <2>2
    <2>3. CASE lpc = "quit" /\ lpos <= PoolSize /\ Push(lpos, "quit", None)
      <3>1. lpos \in Loops
        BY <1>1, <2>3, ServerAssumption DEF Phases, LeaderTypes, Loops, PoolSize
      <3>2. [op |-> "quit", conn |-> None] \in Functor
        BY DEF Functor
      <3>. QED
        BY <1>1, <2>1, <2>3, <3>1, <3>2, PushOrder
    <2>. QED
      BY <1>7, <2>2, <2>3 DEF clearFollowers
  <1>8. CASE Join
    <2>1. Est' = {}
      BY <1>8, Joined
    <2>2. ASSUME NEW f \in Loops, NEW i \in 1..Len(Queue(f)'), NEW c \in Conns,
                 Queue(f)'[i] = E(c)
          PROVE  FALSE
      <3>1. E(c) \in Elements(Queue(f)')
        BY <2>2 DEF Elements
      <3>2. c \in Est'
        BY <3>1 DEF Est
      <3>. QED
        BY <2>1, <3>2
    <2>. QED
      BY <2>2 DEF Ordered, InOrder
  <1>9. CASE Unlisten \/ PeerConnects \/ (\E s \in Conns : PeerHangsUp(s) \/ Traffic(s))
             \/ (\E f \in Loops : FollowerWait(f))
             \/ \E f \in Loops, c \in Conns : handleRead(f, c)
    <2>1. UNCHANGED <<functors, batch, pos, looper>>
      BY <1>9 DEF Unlisten, PeerConnects, PeerHangsUp, Traffic, FollowerWait, handleRead,
                  followerVars, connVars
    <2>. QED
      BY <1>3, <2>1
  <1>10. CASE QuietLeader
    <2>1. UNCHANGED <<functors, batch, pos, looper>>
      BY <1>10 DEF QuietLeader, start, LeaderWait, LeaderInterrupted, AcceptFails, LeaderSwap,
                   LeaderRound, shutdown, vars, followerVars, connVars
    <2>. QED
      BY <1>3, <2>1
  <1>11. ASSUME NEW f \in Loops,
                \/ loop(f) \/ FollowerInterrupted(f) \/ FollowerSwap(f) \/ quit(f)
                \/ FollowerRound(f)
         PROVE  Ordered'
    <2>1. CASE loop(f) \/ FollowerInterrupted(f)
      <3>1. UNCHANGED <<functors, batch, pos, looper>>
        BY <2>1 DEF loop, FollowerInterrupted, connVars
      <3>. QED
        BY <1>3, <3>1
    <2>2. CASE FollowerSwap(f)
      BY <1>1, <1>2, <2>2, QueueSwap
    <2>3. CASE FollowerRound(f)
      BY <1>1, <1>2, <2>3, QueueRound
    <2>4. CASE quit(f)
      <3>1. Calls(f, "quit", None) /\ UNCHANGED <<batch, functors, looper>>
        BY <2>4 DEF quit, connVars
      <3>. QED
        BY <1>1, <3>1, CallOrder
    <2>. QED
      BY <1>11, <2>1, <2>2, <2>3, <2>4
  <1>12. ASSUME NEW f \in Loops, NEW c \in Conns,
                connectEstablished(f, c) \/ connectDestroyed(f, c)
         PROVE  Ordered'
    <2>1. \/ Calls(f, "connectEstablished", c) \/ Calls(f, "connectDestroyed", c)
      BY <1>12 DEF connectEstablished, connectDestroyed
    <2>2. UNCHANGED <<batch, functors, looper>>
      BY <1>12 DEF connectEstablished, connectDestroyed
    <2>. QED
      BY <1>1, <2>1, <2>2, CallOrder
  <1>. QED
    BY <1>4, <1>5, <1>6, <1>7, <1>8, <1>9, <1>10, <1>11, <1>12, ServerSteps DEF QuietLeader

(* What is known of the connections, and of their order, as long as none   *)
(* is removed twice.                                                       *)
Orderly == ServerKept /\ Line /\ Turns /\ Ordered
OrderlySafe == Safe /\ (RemovedOnce => Orderly)

LEMMA OrderlyStep ==
    ASSUME OrderlySafe, [Next]_vars
    PROVE  OrderlySafe'
  <1>1. Safe' /\ (RemovedOnce' => RemovedOnce)
    BY SafeStep DEF OrderlySafe
  <1>2. ASSUME RemovedOnce'
        PROVE  Orderly'
    <2>1. ServerKept /\ Line /\ Turns /\ Ordered
      BY <1>1, <1>2 DEF OrderlySafe, Orderly
    <2>2. Line' /\ Turns' /\ Ordered'
      BY <1>2, <2>1, LineAndTurnsKept, OrderedKept
    <2>. QED
      BY <1>1, <1>2, <2>2 DEF Safe, Orderly
  <1>. QED
    BY <1>1, <1>2 DEF OrderlySafe

LEMMA OrderlyIsKept == Spec => []OrderlySafe
  <1>1. ASSUME Init PROVE Line /\ Turns /\ Ordered
    <2>1. ServerKept
      BY <1>1, Initially
    <2>2. /\ made = 0 /\ backlog = <<>> /\ currIndex = 1
          /\ \A c \in Conns : status[c] = "none" /\ c > 0
      BY <1>1 DEF Init, Conns
    <2>3. Taken = 0 /\ Len(backlog) = 0
      <3>1. Len(<<>>) = 0
        OBVIOUS
      <3>2. Len(backlog) = 0
        BY <2>2, <3>1
      <3>3. Taken = 0 - 0
        BY <2>2, <3>2 DEF Taken
      <3>. QED
        BY <3>2, <3>3
    <2>4. Life!Turn(0 + 1) = 1
      <3>1. 0 + 1 = 1
        OBVIOUS
      <3>. QED
        BY <3>1, NextTurn
    <2>5. Line /\ Turns
      BY <2>2, <2>3, <2>4 DEF Line, Turns
    <2>6. Ordered
      <3>1. \A f \in Loops, c \in Conns : E(c) \notin Elements(Queue(f))
        <4>1. TAKE f \in Loops, c \in Conns
        <4>2. \A e \in Est : status[e] = "CONNECTING"
          BY <2>1 DEF ServerKept, Stages
        <4>3. E(c) \in Elements(Queue(f)) => c \in Est
          BY DEF Est
        <4>. QED
          BY <2>2, <4>2, <4>3
      <3>. QED
        BY <3>1 DEF Ordered, InOrder, Elements
    <2>. QED
      BY <2>5, <2>6
  <1>2. Init => OrderlySafe
    BY <1>1, Initially DEF OrderlySafe, Safe, Orderly
  <1>3. OrderlySafe /\ [Next]_vars => OrderlySafe'
    BY OrderlyStep
  <1>. QED
    BY <1>2, <1>3, PTL DEF Spec

-----------------------------------------------------------------------------
(* Each step of the program is one in the life of a connection, or none.   *)

Held == Range(sockOf) \ {None}
PeersGone == {c \in Conns : reports[c] > 0}
Stopping == lpc \in {"destroy", "quit", "gone"}
Twice == ~RemovedOnce

LEMMA Stutters ==
    ASSUME UNCHANGED <<status, looper, closes, removals, sockOf>>, PeersGone' = PeersGone,
           Running' = Running
    PROVE  UNCHANGED Life!vars
  <1>1. UNCHANGED <<status, looper, closes, Held, PeersGone, Stopping, Twice>>
    BY DEF Held, Stopping, Running, Twice, RemovedOnce
  <1>. QED
    BY <1>1 DEF Life!vars, Held, PeersGone, Stopping, Twice

LEMMA AcceptIsAccept ==
    ASSUME Orderly, onAccept
    PROVE  \E c \in Conns : Life!Accept(c)
  <1>1. /\ TypeOK /\ ServerKept /\ Line /\ Turns /\ Ordered /\ Owners /\ KernelTypes
    BY TypeOKIs DEF Orderly, ServerKept
  <1>2. PICK c, d : c = Head(backlog) /\ d = LowestFd
    OBVIOUS
  <1>3. c \in Conns /\ status[c] = "none" /\ d \in Fds /\ sockOf[d] = None
    BY <1>1, <1>2, Accepted
  <1>4. c = Taken + 1 /\ currIndex = Life!Turn(c)
    BY <1>1, <1>2, AcceptOrder
  <1>5. Running /\ Running' /\ ~Stopping /\ ~Stopping'
    BY DEF onAccept, Running, Stopping, AcceptMore
  <1>6. \A e \in Conns : e < c => status[e] # "none"
    <2>1. Taken \in Nat /\ \A e \in Conns : status[e] = "none" <=> e > Taken
      BY <1>1, <1>5 DEF Line
    <2>2. \A e \in Conns : e \in Nat
      BY DEF Conns
    <2>. QED
      BY <1>4, <2>1, <2>2
  <1>7. /\ status' = [status EXCEPT ![c] = "CONNECTING"]
        /\ looper' = [looper EXCEPT ![c] = Life!Turn(c)]
        /\ sockOf' = [sockOf EXCEPT ![d] = c]
        /\ UNCHANGED <<closes, removals, reports>>
    BY <1>2, <1>4 DEF onAccept
  <1>8. Held' = Held \cup {c}
    <2>1. c # None /\ sockOf \in [Fds -> Conns \cup {None}]
      BY <1>1, <1>3 DEF Conns, None, KernelTypes
    <2>. QED
      BY <1>3, <1>7, <2>1 DEF Held, Range
  <1>9. UNCHANGED <<PeersGone, Stopping, Twice>>
    <2>1. UNCHANGED lpc
      BY DEF onAccept, AcceptMore
    <2>. QED
      BY <1>7, <2>1 DEF PeersGone, Stopping, Twice, RemovedOnce
  <1>10. Life!Accept(c)
    BY <1>3, <1>5, <1>6, <1>7, <1>8, <1>9
       DEF Life!Accept, Life!Becomes, Life!Conns, Conns, Held, PeersGone, Stopping, Twice
  <1>. QED
    BY <1>3, <1>10

LEMMA EstablishIsEstablish ==
    ASSUME Orderly, NEW f \in Loops, NEW c \in Conns, connectEstablished(f, c)
    PROVE  Life!Establish(c)
  <1>1. /\ ServerKept /\ Ordered /\ QueueInv /\ Stages /\ Phases /\ QueueTypes
    BY DEF Orderly, ServerKept, QueueInv
  <1>2. PICK r : r = [loop |-> f, sock |-> c, conn |-> c]
    OBVIOUS
  <1>3. /\ looper[c] = f /\ status[c] = "CONNECTING"
        /\ status' = [status EXCEPT ![c] = "CONNECTED"]
    BY <1>1, <1>2, Established
  <1>4. /\ Calls(f, "connectEstablished", c)
        /\ UNCHANGED <<lpc, looper, closes, removals, sockOf, reports, batch, functors>>
    BY DEF connectEstablished, leaderVars
  <1>5. lpc # "gone"
    BY <1>1, <1>4 DEF Phases, Calls
  <1>6. ASSUME NEW d \in Conns, d < c, looper[d] = f, status[d] = "CONNECTING"
        PROVE  FALSE
    <2>1. PICK s \in Seq(Functor) : s = Queue(f) /\ s # <<>> /\ Head(s) = E(c)
      <3>1. Queue(f) # <<>> /\ Head(Queue(f)) = [op |-> "connectEstablished", conn |-> c]
        BY <1>1, <1>4, Called
      <3>. QED
        BY <1>1, <3>1, QueueIs DEF E
    <2>2. PICK n \in Nat : n = Len(s) /\ n > 0
      BY <2>1, EmptySeq
    <2>3. s[1] = E(c)
      BY <2>1, <2>2, HeadTailProperties
    <2>4. d \in Est
      BY <1>1, <1>5, <1>6 DEF Stages
    <2>5. PICK h \in Loops : E(d) \in Elements(Queue(h))
      BY <2>4 DEF Est
    <2>6. h = f
      BY <1>1, <1>6, <2>5 DEF QueueInv, Homed
    <2>7. PICK j \in 1..n : s[j] = E(d)
      BY <2>1, <2>2, <2>5, <2>6 DEF Elements
    <2>8. d \in Nat /\ c \in Nat /\ d # c
      BY <1>6 DEF Conns
    <2>9. 1 < j
      <3>1. j # 1
        BY <2>3, <2>7, <2>8, Distinct
      <3>. QED
        BY <3>1
    <2>10. InOrder(s)
      BY <1>1, <2>1 DEF Ordered
    <2>11. 1 \in 1..n
      BY <2>2
    <2>12. c < d
      BY <2>2, <2>3, <2>7, <2>9, <2>10, <2>11 DEF InOrder
    <2>. QED
      BY <1>6, <2>8, <2>12
  <1>7. UNCHANGED <<looper, closes, Held, PeersGone, Stopping, Twice>>
    BY <1>4 DEF Held, PeersGone, Stopping, Twice, RemovedOnce
  <1>. QED
    BY <1>3, <1>6, <1>7
       DEF Life!Establish, Life!Becomes, Life!Conns, Conns, Held, PeersGone, Stopping, Twice

LEMMA CloseIsLeave ==
    ASSUME Orderly, RemovedOnce, RemovedOnce', NEW f \in Loops, NEW c \in Conns, Closes(f, c)
    PROVE  Life!Leave(c)
  <1>1. /\ status[c] = "CONNECTED" /\ reports[c] > 0
        /\ status' = [status EXCEPT ![c] = "DISCONNECTING"]
        /\ closes' = [closes EXCEPT ![c] = @ + 1]
    BY ClosedByPeer DEF Orderly
  <1>2. UNCHANGED <<lpc, looper, sockOf, reports>>
    BY DEF Closes, handleRead
  <1>3. c \in PeersGone /\ UNCHANGED <<looper, Held, PeersGone, Stopping>>
    BY <1>1, <1>2 DEF Held, PeersGone, Stopping
  <1>4. Twice = FALSE /\ Twice' = FALSE
    BY DEF Twice
  <1>. QED
    BY <1>1, <1>3, <1>4 DEF Life!Leave, Life!Becomes, Held, PeersGone, Stopping, Twice

(* The first second removal of a connection. *)
LEMMA CloseIsAgain ==
    ASSUME Orderly, RemovedOnce, ~RemovedOnce', NEW f \in Loops, NEW c \in Conns, Closes(f, c)
    PROVE  Life!Again(c)
  <1>1. /\ TypeOK /\ Owners /\ Events /\ ConnTypes /\ FollowerTypes
    BY TypeOKIs DEF Orderly, ServerKept
  <1>2. /\ c \in revents[f] /\ AtEnd(sockOf[fd[c]]) /\ handleClose(c)
        /\ UNCHANGED <<lpc, looper, sockOf, reports>>
    BY DEF Closes, handleRead
  <1>3. status[c] \in {"CONNECTED", "DISCONNECTING"}
    BY <1>1, <1>2 DEF Events
  <1>4. sockOf[fd[c]] = c /\ reports[c] > 0
    BY <1>1, <1>2, <1>3 DEF Owners, Live, AtEnd
  <1>5. removals[c] # 0
    <2>1. SUFFICES ASSUME removals[c] = 0
                   PROVE  RemovedOnce'
      OBVIOUS
    <2>2. removals' = [removals EXCEPT ![c] = @ + 1]
      BY <1>2 DEF handleClose
    <2>3. removals'[c] = 1 /\ \A e \in Conns : e # c => removals'[e] = removals[e]
      BY <1>1, <2>1, <2>2 DEF ConnTypes
    <2>. QED
      BY <2>3 DEF RemovedOnce
  <1>6. status[c] = "DISCONNECTING"
    BY <1>1, <1>3, <1>5 DEF Events
  <1>7. UNCHANGED <<status, closes>>
    <2>1. /\ status' = [status EXCEPT ![c] = "DISCONNECTING"]
          /\ closes' = [closes EXCEPT ![c] = @ + 0]
      BY <1>2, <1>6 DEF handleClose, CallsClose
    <2>. QED
      BY <1>1, <1>6, <2>1 DEF ConnTypes
  <1>8. c \in PeersGone /\ UNCHANGED <<looper, Held, PeersGone, Stopping>>
    BY <1>2, <1>4 DEF Held, PeersGone, Stopping
  <1>9. Twice' = TRUE
    BY DEF Twice
  <1>. QED
    BY <1>6, <1>7, <1>8, <1>9 DEF Life!Again, Held, PeersGone, Stopping, Twice

LEMMA DestroyIsEnd ==
    ASSUME Orderly, NEW f \in Loops, NEW c \in Conns, connectDestroyed(f, c)
    PROVE  Life!End(c)
  <1>1. /\ TypeOK /\ ServerKept /\ Owners /\ Removals /\ KernelTypes /\ ConnTypes /\ QueueInv
    BY TypeOKIs DEF Orderly, ServerKept
  <1>2. /\ status[c] \in {"CONNECTED", "DISCONNECTING"}
        /\ fd[c] \in Fds /\ sockOf[fd[c]] = c
        /\ status' = [status EXCEPT ![c] = "DISCONNECTED"]
        /\ closes' = [closes EXCEPT ![c] = @ + (IF status[c] = "CONNECTED" THEN 1 ELSE 0)]
        /\ sockOf' = [sockOf EXCEPT ![fd[c]] = None]
    BY <1>1, Disconnected
  <1>3. /\ Calls(f, "connectDestroyed", c)
        /\ UNCHANGED <<lpc, looper, removals, reports, batch, functors>>
    BY DEF connectDestroyed, leaderVars
  <1>4. c \in Des
    BY <1>1, <1>3, CallsD
  <1>5. status[c] = "CONNECTED" => Stopping
    BY <1>1, <1>4 DEF Removals, Running, Stopping
  <1>6. status[c] = "CONNECTED" => closes' = [closes EXCEPT ![c] = @ + 1]
    BY <1>2
  <1>7. status[c] = "DISCONNECTING" => UNCHANGED closes
    BY <1>1, <1>2 DEF ConnTypes
  <1>8. Held' = Held \ {c}
    <2>1. c # None /\ sockOf \in [Fds -> Conns \cup {None}]
      BY <1>1 DEF Conns, None, KernelTypes
    <2>2. \A d \in Fds : sockOf[d] = c => d = fd[c]
      BY <1>1, <2>1 DEF Owners
    <2>. QED
      BY <1>2, <2>1, <2>2 DEF Held, Range
  <1>9. UNCHANGED <<looper, PeersGone, Stopping, Twice>>
    BY <1>3 DEF PeersGone, Stopping, Twice, RemovedOnce
  <1>. QED
    BY <1>2, <1>5, <1>6, <1>7, <1>8, <1>9
       DEF Life!End, Life!Becomes, Held, PeersGone, Stopping, Twice

LEMMA HangUpIsPeerGone ==
    ASSUME Orderly, NEW s \in Conns, PeerHangsUp(s)
    PROVE  Life!PeerGone(s)
  <1>1. KernelTypes
    BY TypeOKIs DEF Orderly, ServerKept
  <1>2. /\ reports' = [reports EXCEPT ![s] = 1]
        /\ UNCHANGED <<lpc, status, looper, closes, removals, sockOf>>
    BY DEF PeerHangsUp, leaderVars, connVars
  <1>3. PeersGone' = PeersGone \cup {s}
    <2>1. \A c \in Conns : reports'[c] > 0 <=> c = s \/ reports[c] > 0
      BY <1>1, <1>2 DEF KernelTypes
    <2>. QED
      BY <2>1 DEF PeersGone
  <1>4. UNCHANGED <<Held, Stopping, Twice>>
    BY <1>2 DEF Held, Stopping, Twice, RemovedOnce
  <1>. QED
    BY <1>2, <1>3, <1>4 DEF Life!PeerGone, Held, PeersGone, Stopping, Twice

(* An end that is reported again is no news. *)
LEMMA TrafficIsNoNews ==
    ASSUME Orderly, NEW s \in Conns, Traffic(s)
    PROVE  UNCHANGED Life!vars
  <1>1. KernelTypes
    BY TypeOKIs DEF Orderly, ServerKept
  <1>2. UNCHANGED <<lpc, status, looper, closes, removals, sockOf>>
    BY DEF Traffic, leaderVars, connVars
  <1>3. CASE UNCHANGED reports
    <2>1. PeersGone' = PeersGone
      BY <1>3 DEF PeersGone
    <2>. QED
      BY <1>2, <2>1, Stutters DEF Running
  <1>4. CASE reports[s] \in 1..(MaxReports - 1) /\ reports' = [reports EXCEPT ![s] = @ + 1]
    <2>1. \A c \in Conns : reports'[c] > 0 <=> reports[c] > 0
      BY <1>1, <1>4, ServerAssumption DEF KernelTypes
    <2>2. PeersGone' = PeersGone
      BY <2>1 DEF PeersGone
    <2>. QED
      BY <1>2, <2>2, Stutters DEF Running
  <1>. QED
    BY <1>3, <1>4 DEF Traffic

LEMMA UnlistenIsStop ==
    ASSUME Orderly, Unlisten
    PROVE  Life!Stop
  <1>1. Stopping' /\ UNCHANGED <<status, looper, closes, removals, sockOf, reports>>
    BY DEF Unlisten, Stopping, connVars
  <1>2. Stopping' = TRUE /\ UNCHANGED <<Held, PeersGone, Twice>>
    BY <1>1 DEF Held, PeersGone, Stopping, Twice, RemovedOnce
  <1>. QED
    BY <1>1, <1>2 DEF Life!Stop, Held, PeersGone, Stopping, Twice

(* For any number of followers, descriptors, connections and events,       *)
(* TcpServer with its followers, queues and pool implements the plain life *)
(* of connections: accepted in order, given out in turn, established in    *)
(* order, closed once for a reason, and ended with its own socket; until   *)
(* the end of one stream is read twice (onAccept, getNextEventLoop,        *)
(* connectEstablished, handleClose, connectDestroyed, ~TcpServer).         *)
THEOREM ServerImplementsLife == Spec => RefinesLife
  <1>1. Init => Life!Init
    <2>1. SUFFICES ASSUME Init PROVE Life!Init
      OBVIOUS
    <2>2. /\ status = [c \in Conns |-> "none"] /\ looper = [c \in Conns |-> None]
          /\ closes = [c \in Conns |-> 0] /\ Held = {} /\ PeersGone = {} /\ ~Stopping
      BY <2>1 DEF Init, Held, PeersGone, Stopping, Range
    <2>3. Twice = FALSE /\ Stopping = FALSE
      BY <2>1, <2>2 DEF Twice, RemovedOnce, Init
    <2>. QED
      BY <2>2, <2>3
         DEF Life!Init, Life!Conns, Life!Nobody, Conns, None, Held, PeersGone, Stopping, Twice
  <1>2. OrderlySafe /\ [Next]_vars => [Life!Next]_(Life!vars)
    <2>1. SUFFICES ASSUME OrderlySafe, [Next]_vars
                   PROVE  Life!Next \/ UNCHANGED Life!vars
      OBVIOUS
    <2>2. CASE ~RemovedOnce
      <3>1. ~RemovedOnce'
        BY <2>1, <2>2, SafeStep DEF OrderlySafe
      <3>2. Life!Anything
        BY <2>2, <3>1 DEF Life!Anything
      <3>. QED
        BY <3>2 DEF Life!Next
    <2>3. CASE RemovedOnce
      <3>1. Orderly
        BY <2>1, <2>3 DEF OrderlySafe
      <3>2. ServerKept
        BY <3>1 DEF Orderly
      <3>. USE DEF Life!Next, Life!Conns, Conns
      <3>3. CASE onAccept
        BY <3>1, <3>3, AcceptIsAccept
      <3>4. CASE \E f \in Loops, c \in Conns : connectEstablished(f, c)
        BY <3>1, <3>4, EstablishIsEstablish
      <3>5. CASE \E f \in Loops, c \in Conns : Closes(f, c)
        BY <2>3, <3>1, <3>5, CloseIsLeave, CloseIsAgain
      <3>6. CASE \E f \in Loops, c \in Conns : connectDestroyed(f, c)
        BY <3>1, <3>6, DestroyIsEnd
      <3>7. CASE \E s \in Conns : PeerHangsUp(s)
        BY <3>1, <3>7, HangUpIsPeerGone
      <3>8. CASE Unlisten
        BY <3>1, <3>8, UnlistenIsStop
      <3>9. CASE QuietLeader \/ \E f \in Loops : QuietFollower(f)
        <4>1. UNCHANGED <<connVars, sockOf, reports>> /\ Running' = Running
          BY <3>2, <3>9, QuietLeaderSteps, QuietFollowerSteps DEF ConnectionsStay, Still
        <4>2. PeersGone' = PeersGone
          BY <4>1 DEF PeersGone
        <4>. QED
          BY <4>1, <4>2, Stutters DEF connVars
      <3>10. CASE \/ removeConnectionInLoop \/ DestroyConn \/ clearFollowers \/ Join
                  \/ PeerConnects
                  \/ \E f \in Loops : FollowerWait(f) \/ \E c \in Conns : ReadsOn(f, c)
        <4>1. UNCHANGED <<connVars, sockOf, reports>> /\ Running' = Running
          BY <3>10 DEF removeConnectionInLoop, DestroyConn, clearFollowers, Join, Joinable,
                       PeerConnects, FollowerWait, ReadsOn, handleRead, connVars, kernelVars,
                       leaderVars, Running
        <4>2. PeersGone' = PeersGone
          BY <4>1 DEF PeersGone
        <4>. QED
          BY <4>1, <4>2, Stutters DEF connVars
      <3>11. CASE \E s \in Conns : Traffic(s)
        BY <3>1, <3>11, TrafficIsNoNews
      <3>12. \A f \in Loops, c \in Conns : handleRead(f, c) => Closes(f, c) \/ ReadsOn(f, c)
        BY DEF Closes, ReadsOn
      <3>. QED
        BY <2>1, <3>3, <3>4, <3>5, <3>6, <3>7, <3>8, <3>9, <3>10, <3>11, <3>12, ServerSteps
           DEF QuietLeader, QuietFollower
    <2>. QED
      BY <2>2, <2>3
  <1>. QED
    BY <1>1, <1>2, OrderlyIsKept, PTL DEF Spec, RefinesLife, Life!Spec
=============================================================================
