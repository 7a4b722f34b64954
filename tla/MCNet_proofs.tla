---------------------------- MODULE MCNet_proofs ----------------------------
(***************************************************************************)
(* Proofs about the timers and servers of raw-examples, for every number   *)
(* of connections, threads and timers.  The programs share no state: each  *)
(* has its own inductive invariant, and a step of another program leaves   *)
(* it alone.                                                               *)
(***************************************************************************)
EXTENDS MCNet, SequenceTheorems, FiniteSetTheorems, WellFoundedInduction, TLAPS

-----------------------------------------------------------------------------
(* The completion port.                                                    *)

(* A step of the whole is a step of the server, or leaves it alone. *)
LEMMA IocpStep == [Next]_vars => Iocp!Next \/ UNCHANGED iocpVars
  BY DEF Next, vars, iocpVars

Packet == [kind : {"good", "failed", "partial", "exit"}, conn : Conns \cup {Iocp!NoConn}]

Place == [at : {"get", "have", "print", "done"}, conn : Conns \cup {Iocp!NoConn}]

IocpTypes ==
    /\ ctx \in [Conns -> {"none", "live", "deleted"}]
    /\ socket \in [Conns -> {"none", "open", "closed"}]
    /\ opType \in [Conns -> {"IO_READ", "IO_WRITE"}]
    /\ inKernel \subseteq Conns /\ port \in Seq(Packet) /\ th \in [Threads -> Place]

InPort(s, c) == \E j \in 1..Len(s) : s[j].conn = c

OnceInPort(s, c) == \A j, k \in 1..Len(s) : s[j].conn = c /\ s[k].conn = c => j = k

Holds(t, c) == th[t].at = "have" /\ th[t].conn = c

(* A context is in one hand, a live one, and in some hand until a thread   *)
(* has given up; its socket is open as long as it lives.                   *)
Owned(c) ==
    /\ c \in inKernel => ctx[c] = "live" /\ ~InPort(port, c) /\ \A t \in Threads : ~Holds(t, c)
    /\ InPort(port, c) => ctx[c] = "live" /\ \A t \in Threads : ~Holds(t, c)
    /\ OnceInPort(port, c)
    /\ \A t, u \in Threads : Holds(t, c) /\ Holds(u, c) => t = u
    /\ \A t \in Threads : Holds(t, c) => ctx[c] = "live"
    /\ ctx[c] = "live" <=> socket[c] = "open"
    /\ (\A t \in Threads : th[t].at # "done") /\ ctx[c] = "live" =>
          c \in inKernel \/ InPort(port, c) \/ \E t \in Threads : Holds(t, c)

(* A packet of main's is for no connection, and a thread that holds a      *)
(* context holds that of a connection.                                     *)
Addressed ==
    /\ \A j \in 1..Len(port) : port[j].kind = "exit" <=> port[j].conn = Iocp!NoConn
    /\ \A t \in Threads : th[t].at = "have" => th[t].conn \in Conns

IocpInv == IocpTypes /\ Addressed /\ \A c \in Conns : Owned(c)

(* Packets are put in at one end of the port ... *)
LEMMA PortGrows ==
    ASSUME NEW S, NEW s \in Seq(S), NEW e \in S, NEW c
    PROVE  /\ Append(s, e) \in Seq(S)
           /\ InPort(Append(s, e), c) <=> InPort(s, c) \/ e.conn = c
           /\ OnceInPort(s, c) /\ (e.conn = c => ~InPort(s, c)) => OnceInPort(Append(s, e), c)
  <1>1. PICK n \in Nat : n = Len(s)
    OBVIOUS
  <1>. DEFINE t == Append(s, e)
  <1>2. /\ t \in Seq(S) /\ Len(t) = n + 1 /\ t[n + 1] = e
        /\ \A j \in 1..n : t[j] = s[j]
    BY <1>1, AppendProperties
  <1>. HIDE DEF t
  <1>3. \A j : j \in 1..(n + 1) <=> j \in 1..n \/ j = n + 1
    BY <1>1
  <1>4. InPort(t, c) <=> InPort(s, c) \/ e.conn = c
    BY <1>1, <1>2, <1>3 DEF InPort
  <1>5. OnceInPort(s, c) /\ (e.conn = c => ~InPort(s, c)) => OnceInPort(t, c)
    BY <1>1, <1>2, <1>3 DEF InPort, OnceInPort
  <1>. QED
    BY <1>2, <1>4, <1>5 DEF t

(* ... and taken out at the other. *)
LEMMA PortShrinks ==
    ASSUME NEW S, NEW s \in Seq(S), s # <<>>, NEW c
    PROVE  /\ Tail(s) \in Seq(S) /\ Head(s) = s[1] /\ 1 \in 1..Len(s)
           /\ InPort(s, c) <=> InPort(Tail(s), c) \/ Head(s).conn = c
           /\ OnceInPort(s, c) => /\ OnceInPort(Tail(s), c)
                                  /\ Head(s).conn = c => ~InPort(Tail(s), c)
           /\ \A k \in 1..Len(Tail(s)) : \E j \in 1..Len(s) : Tail(s)[k] = s[j]
  <1>1. PICK n \in Nat \ {0} : n = Len(s)
    OBVIOUS
  <1>. DEFINE t == Tail(s)
              h == Head(s)
  <1>2. /\ t \in Seq(S) /\ Len(t) = n - 1 /\ h = s[1]
        /\ \A j \in 1..(n - 1) : t[j] = s[j + 1]
    BY <1>1, HeadTailProperties
  <1>. HIDE DEF t, h
  <1>3. \A j \in 1..(n - 1) : j + 1 \in 1..n /\ j + 1 # 1
    BY <1>1
  <1>4. \A j \in 1..n : j = 1 \/ (j - 1 \in 1..(n - 1) /\ (j - 1) + 1 = j)
    BY <1>1
  <1>5. 1 \in 1..n
    BY <1>1
  <1>6. InPort(s, c) <=> InPort(t, c) \/ h.conn = c
    <2>1. ASSUME InPort(s, c) PROVE InPort(t, c) \/ h.conn = c
      <3>1. PICK j \in 1..n : s[j].conn = c
        BY <1>1, <2>1 DEF InPort
      <3>2. CASE j = 1
        BY <1>2, <3>1, <3>2
      <3>3. CASE j - 1 \in 1..(n - 1) /\ (j - 1) + 1 = j
        BY <1>2, <3>1, <3>3 DEF InPort
      <3>. QED
        BY <1>4, <3>2, <3>3
    <2>2. ASSUME InPort(t, c) PROVE InPort(s, c)
      BY <1>1, <1>2, <1>3, <2>2 DEF InPort
    <2>3. ASSUME h.conn = c PROVE InPort(s, c)
      BY <1>1, <1>2, <1>5, <2>3 DEF InPort
    <2>. QED
      BY <2>1, <2>2, <2>3
  <1>7. ASSUME OnceInPort(s, c)
        PROVE  OnceInPort(t, c) /\ (h.conn = c => ~InPort(t, c))
    <2>1. ASSUME NEW j \in 1..(n - 1), NEW k \in 1..(n - 1), t[j].conn = c, t[k].conn = c
          PROVE  j = k
      <3>1. j + 1 = k + 1
        BY <1>1, <1>2, <1>3, <1>7, <2>1 DEF OnceInPort
      <3>. QED
        BY <3>1
    <2>2. ASSUME h.conn = c, NEW j \in 1..(n - 1)
          PROVE  t[j].conn # c
      BY <1>1, <1>2, <1>3, <1>5, <1>7, <2>2 DEF OnceInPort
    <2>. QED
      BY <1>1, <1>2, <2>1, <2>2 DEF OnceInPort, InPort
  <1>8. \A k \in 1..Len(t) : \E j \in 1..Len(s) : t[k] = s[j]
    BY <1>1, <1>2, <1>3
  <1>. QED
    BY <1>1, <1>2, <1>5, <1>6, <1>7, <1>8 DEF t, h

LEMMA AppendAddressed ==
    ASSUME NEW s \in Seq(Packet), NEW e \in Packet, e.kind = "exit" <=> e.conn = Iocp!NoConn,
           \A j \in 1..Len(s) : s[j].kind = "exit" <=> s[j].conn = Iocp!NoConn
    PROVE  /\ Append(s, e) \in Seq(Packet)
           /\ \A j \in 1..Len(Append(s, e)) :
                 Append(s, e)[j].kind = "exit" <=> Append(s, e)[j].conn = Iocp!NoConn
  <1>1. PICK n \in Nat : n = Len(s)
    OBVIOUS
  <1>. DEFINE t == Append(s, e)
  <1>2. /\ t \in Seq(Packet) /\ Len(t) = n + 1 /\ t[n + 1] = e
        /\ \A j \in 1..n : t[j] = s[j]
    BY <1>1, AppendProperties
  <1>. HIDE DEF t
  <1>3. \A j \in 1..(n + 1) : j \in 1..n \/ j = n + 1
    BY <1>1
  <1>4. \A j \in 1..Len(t) : t[j].kind = "exit" <=> t[j].conn = Iocp!NoConn
    BY <1>1, <1>2, <1>3
  <1>. QED
    BY <1>2, <1>4 DEF t

(* What a step leaves of the hands a context is in, when it does not move  *)
(* that context.                                                           *)
LEMMA OwnedStays ==
    ASSUME NEW c, Owned(c), ctx'[c] = ctx[c], socket'[c] = socket[c],
           c \in inKernel' <=> c \in inKernel,
           InPort(port', c) <=> InPort(port, c), OnceInPort(port', c),
           \A t \in Threads : Holds(t, c)' <=> Holds(t, c),
           \/ \A t \in Threads : th[t].at = "done" => th'[t].at = "done"
           \/ \E t \in Threads : th'[t].at = "done"
    PROVE  Owned(c)'
  BY DEF Owned

(* A context that is not live is in no hand.                               *)
LEMMA DeadIsFree ==
    ASSUME NEW c, Owned(c), ctx[c] # "live"
    PROVE  c \notin inKernel /\ ~InPort(port, c) /\ \A t \in Threads : ~Holds(t, c)
  BY DEF Owned

(* The packet a thread takes out of the port. *)
LEMMA Taking ==
    ASSUME IocpInv, NEW t \in Threads, NEW kind_, Iocp!Take(t, kind_)
    PROVE  /\ th[t].at = "get" /\ Head(port) \in Packet /\ Head(port).kind = kind_
           /\ kind_ = "exit" <=> Head(port).conn = Iocp!NoConn
           /\ port' \in Seq(Packet)
           /\ \A c : /\ InPort(port, c) <=> InPort(port', c) \/ Head(port).conn = c
                     /\ OnceInPort(port, c) => /\ OnceInPort(port', c)
                                               /\ Head(port).conn = c => ~InPort(port', c)
           /\ \A j \in 1..Len(port') : port'[j].kind = "exit" <=> port'[j].conn = Iocp!NoConn
  <1>1. /\ th[t].at = "get" /\ port # <<>> /\ Head(port).kind = kind_ /\ port' = Tail(port)
        /\ port \in Seq(Packet)
        /\ \A j \in 1..Len(port) : port[j].kind = "exit" <=> port[j].conn = Iocp!NoConn
    BY DEF Iocp!Take, IocpInv, IocpTypes, Addressed
  <1>2. /\ Tail(port) \in Seq(Packet) /\ Head(port) = port[1] /\ 1 \in 1..Len(port)
        /\ \A k \in 1..Len(Tail(port)) : \E j \in 1..Len(port) : Tail(port)[k] = port[j]
    BY <1>1, PortShrinks
  <1>3. port[1] \in Packet
    BY <1>1, <1>2
  <1>4. \A c : /\ InPort(port, c) <=> InPort(Tail(port), c) \/ Head(port).conn = c
               /\ OnceInPort(port, c) => /\ OnceInPort(Tail(port), c)
                                         /\ Head(port).conn = c => ~InPort(Tail(port), c)
    BY <1>1, PortShrinks
  <1>5. \A j \in 1..Len(Tail(port)) :
           Tail(port)[j].kind = "exit" <=> Tail(port)[j].conn = Iocp!NoConn
    BY <1>1, <1>2
  <1>. QED
    BY <1>1, <1>2, <1>3, <1>4, <1>5

LEMMA Accepting ==
    ASSUME IocpInv, NEW c \in Conns, NEW result \in Iocp!Results, Iocp!Accept(c, result)
    PROVE  IocpInv'
  <1>1. /\ socket[c] = "none" /\ UNCHANGED <<opType, port, th>>
        /\ inKernel' = IF result = "error" THEN inKernel ELSE inKernel \cup {c}
        /\ socket' = [socket EXCEPT ![c] = IF result = "error" THEN "closed" ELSE "open"]
        /\ ctx' = [ctx EXCEPT ![c] = IF result = "error" THEN "deleted" ELSE "live"]
    BY DEF Iocp!Accept, Iocp!Start, Iocp!Failed
  <1>2. IocpTypes /\ Addressed /\ \A d \in Conns : Owned(d)
    BY DEF IocpInv
  <1>3. /\ ctx' \in [Conns -> {"none", "live", "deleted"}]
        /\ socket' \in [Conns -> {"none", "open", "closed"}]
        /\ ctx'[c] = (IF result = "error" THEN "deleted" ELSE "live")
        /\ socket'[c] = (IF result = "error" THEN "closed" ELSE "open")
        /\ \A d \in Conns : d # c => ctx'[d] = ctx[d] /\ socket'[d] = socket[d]
    BY <1>1, <1>2 DEF IocpTypes
  <1>4. IocpTypes' /\ Addressed'
    BY <1>1, <1>2, <1>3 DEF IocpTypes, Addressed
  <1>5. /\ c \notin inKernel /\ ~InPort(port, c) /\ (\A t \in Threads : ~Holds(t, c))
        /\ OnceInPort(port, c)
    BY <1>1, <1>2, DeadIsFree DEF Owned
  <1>6. Owned(c)'
    BY <1>1, <1>3, <1>5 DEF Owned, Holds
  <1>7. ASSUME NEW d \in Conns, d # c PROVE Owned(d)'
    BY <1>1, <1>2, <1>3, <1>7 DEF Owned, Holds
  <1>. QED
    BY <1>4, <1>6, <1>7 DEF IocpInv

LEMMA AcceptFailing ==
    ASSUME IocpInv, NEW c \in Conns, Iocp!AcceptFails(c)
    PROVE  IocpInv'
  <1>1. /\ socket[c] = "none" /\ socket' = [socket EXCEPT ![c] = "closed"]
        /\ UNCHANGED <<ctx, inKernel, opType, port, th>>
    BY DEF Iocp!AcceptFails
  <1>2. IocpTypes /\ Addressed /\ \A d \in Conns : Owned(d)
    BY DEF IocpInv
  <1>3. /\ socket' \in [Conns -> {"none", "open", "closed"}] /\ socket'[c] = "closed"
        /\ \A d \in Conns : d # c => socket'[d] = socket[d]
    BY <1>1, <1>2 DEF IocpTypes
  <1>4. IocpTypes' /\ Addressed'
    BY <1>1, <1>2, <1>3 DEF IocpTypes, Addressed
  <1>5. \A d \in Conns : socket'[d] = "open" <=> socket[d] = "open"
    BY <1>1, <1>3
  <1>6. \A d \in Conns : Owned(d)'
    BY <1>1, <1>2, <1>5 DEF Owned, Holds
  <1>. QED
    BY <1>4, <1>6 DEF IocpInv

LEMMA Posting ==
    ASSUME IocpInv, Iocp!PostQueuedCompletionStatus
    PROVE  IocpInv'
  <1>1. port' = Append(port, Iocp!Exit) /\ UNCHANGED <<ctx, socket, opType, inKernel, th>>
    BY DEF Iocp!PostQueuedCompletionStatus
  <1>2. IocpTypes /\ Addressed /\ \A d \in Conns : Owned(d)
    BY DEF IocpInv
  <1>3. Iocp!Exit \in Packet /\ Iocp!Exit.kind = "exit" /\ Iocp!Exit.conn = Iocp!NoConn
    BY DEF Iocp!Exit, Packet
  <1>4. \A c : /\ InPort(port', c) <=> InPort(port, c) \/ Iocp!NoConn = c
               /\ OnceInPort(port, c) /\ Iocp!NoConn # c => OnceInPort(port', c)
    BY <1>1, <1>2, <1>3, PortGrows DEF IocpTypes
  <1>5. /\ port' \in Seq(Packet)
        /\ \A j \in 1..Len(port') : port'[j].kind = "exit" <=> port'[j].conn = Iocp!NoConn
    BY <1>1, <1>2, <1>3, AppendAddressed DEF IocpTypes, Addressed
  <1>6. IocpTypes' /\ Addressed'
    BY <1>1, <1>2, <1>5 DEF IocpTypes, Addressed
  <1>7. ASSUME NEW c \in Conns PROVE Owned(c)'
    <2>1. c # Iocp!NoConn
      BY NetAssumption DEF Iocp!NoConn
    <2>2. OnceInPort(port, c)
      BY <1>2 DEF Owned
    <2>3. \A t \in Threads : Holds(t, c)' <=> Holds(t, c)
      BY <1>1 DEF Holds
    <2>. QED
      BY <1>1, <1>2, <1>4, <2>1, <2>2, <2>3, OwnedStays
  <1>. QED
    BY <1>6, <1>7 DEF IocpInv

LEMMA Completing ==
    ASSUME IocpInv, NEW c \in Conns, Iocp!Complete(c)
    PROVE  IocpInv'
  <1>1. PICK e \in Iocp!Packets(c) : port' = Append(port, e)
    BY DEF Iocp!Complete
  <1>2. c \in inKernel /\ inKernel' = inKernel \ {c} /\ UNCHANGED <<ctx, socket, opType, th>>
    BY DEF Iocp!Complete
  <1>3. IocpTypes /\ Addressed /\ \A d \in Conns : Owned(d)
    BY DEF IocpInv
  <1>4. e \in Packet /\ e.kind # "exit" /\ e.conn = c /\ c # Iocp!NoConn
    <2>1. c # Iocp!NoConn
      BY NetAssumption DEF Iocp!NoConn
    <2>. QED
      BY <2>1 DEF Iocp!Packets, Packet
  <1>5. \A d : /\ InPort(port', d) <=> InPort(port, d) \/ c = d
               /\ OnceInPort(port, d) /\ (c = d => ~InPort(port, d)) => OnceInPort(port', d)
    BY <1>1, <1>3, <1>4, PortGrows DEF IocpTypes
  <1>6. /\ port' \in Seq(Packet)
        /\ \A j \in 1..Len(port') : port'[j].kind = "exit" <=> port'[j].conn = Iocp!NoConn
    BY <1>1, <1>3, <1>4, AppendAddressed DEF IocpTypes, Addressed
  <1>7. IocpTypes' /\ Addressed'
    BY <1>2, <1>3, <1>6 DEF IocpTypes, Addressed
  <1>8. \A d \in Conns : \A t \in Threads : Holds(t, d)' <=> Holds(t, d)
    BY <1>2 DEF Holds
  <1>9. Owned(c)'
    <2>1. /\ ctx[c] = "live" /\ socket[c] = "open" /\ ~InPort(port, c)
          /\ \A t \in Threads : ~Holds(t, c)
      BY <1>2, <1>3 DEF Owned
    <2>2. InPort(port', c) /\ OnceInPort(port', c) /\ c \notin inKernel'
      BY <1>2, <1>3, <1>5, <2>1 DEF Owned
    <2>. QED
      BY <1>2, <1>8, <2>1, <2>2 DEF Owned
  <1>10. ASSUME NEW d \in Conns, d # c PROVE Owned(d)'
    <2>1. (InPort(port', d) <=> InPort(port, d)) /\ OnceInPort(port', d)
      BY <1>3, <1>5, <1>10 DEF Owned
    <2>. QED
      BY <1>2, <1>3, <1>8, <1>10, <2>1, OwnedStays
  <1>. QED
    BY <1>7, <1>9, <1>10 DEF IocpInv

LEMMA FailingPacket ==
    ASSUME IocpInv, NEW t \in Threads, Iocp!Closing(t)
    PROVE  IocpInv'
  <1>1. Iocp!Take(t, "failed") /\ UNCHANGED <<opType, inKernel, th>>
    BY DEF Iocp!Closing
  <1>2. PICK c : c = Head(port).conn
    OBVIOUS
  <1>3. ctx' = [ctx EXCEPT ![c] = "deleted"] /\ socket' = [socket EXCEPT ![c] = "closed"]
    BY <1>2 DEF Iocp!Closing, Iocp!Close
  <1>4. IocpTypes /\ Addressed /\ \A d \in Conns : Owned(d)
    BY DEF IocpInv
  <1>5. /\ Head(port) \in Packet /\ ("failed" = "exit" <=> c = Iocp!NoConn)
        /\ port' \in Seq(Packet)
        /\ \A d : /\ InPort(port, d) <=> InPort(port', d) \/ c = d
                  /\ OnceInPort(port, d) => OnceInPort(port', d) /\ (c = d => ~InPort(port', d))
        /\ \A j \in 1..Len(port') : port'[j].kind = "exit" <=> port'[j].conn = Iocp!NoConn
    BY <1>1, <1>2, Taking
  <1>6. c \in Conns
    <2>1. c \in Conns \cup {Iocp!NoConn}
      BY <1>2, <1>5 DEF Packet
    <2>2. "failed" # "exit"
      OBVIOUS
    <2>. QED
      BY <1>5, <2>1, <2>2
  <1>7. /\ ctx' \in [Conns -> {"none", "live", "deleted"}] /\ ctx'[c] = "deleted"
        /\ socket' \in [Conns -> {"none", "open", "closed"}] /\ socket'[c] = "closed"
        /\ \A d \in Conns : d # c => ctx'[d] = ctx[d] /\ socket'[d] = socket[d]
    BY <1>3, <1>4, <1>6 DEF IocpTypes
  <1>8. IocpTypes' /\ Addressed'
    BY <1>1, <1>4, <1>5, <1>7 DEF IocpTypes, Addressed
  <1>9. \A d \in Conns : \A u \in Threads : Holds(u, d)' <=> Holds(u, d)
    BY <1>1 DEF Holds
  <1>10. Owned(c)'
    <2>1. c \notin inKernel /\ (\A u \in Threads : ~Holds(u, c)) /\ OnceInPort(port, c)
      BY <1>4, <1>5, <1>6 DEF Owned
    <2>2. ~InPort(port', c) /\ OnceInPort(port', c)
      BY <1>5, <2>1
    <2>. QED
      BY <1>1, <1>6, <1>7, <1>9, <2>1, <2>2 DEF Owned
  <1>11. ASSUME NEW d \in Conns, d # c PROVE Owned(d)'
    <2>1. (InPort(port', d) <=> InPort(port, d)) /\ OnceInPort(port', d)
      BY <1>4, <1>5, <1>11 DEF Owned
    <2>. QED
      BY <1>1, <1>4, <1>7, <1>9, <1>11, <2>1, OwnedStays
  <1>. QED
    BY <1>8, <1>10, <1>11 DEF IocpInv

LEMMA Leaving ==
    ASSUME IocpInv, NEW t \in Threads, Iocp!Leaves(t)
    PROVE  IocpInv'
  <1>1. PICK kind_ \in {"partial", "exit"} : Iocp!Take(t, kind_)
    BY DEF Iocp!Leaves
  <1>2. th' = [th EXCEPT ![t].at = "done"] /\ UNCHANGED <<ctx, socket, opType, inKernel>>
    BY DEF Iocp!Leaves
  <1>3. IocpTypes /\ Addressed /\ \A d \in Conns : Owned(d)
    BY DEF IocpInv
  <1>4. PICK e : e = Head(port)
    OBVIOUS
  <1>5. /\ th[t].at = "get" /\ port' \in Seq(Packet)
        /\ \A d : /\ InPort(port, d) <=> InPort(port', d) \/ e.conn = d
                  /\ OnceInPort(port, d) => OnceInPort(port', d)
        /\ \A j \in 1..Len(port') : port'[j].kind = "exit" <=> port'[j].conn = Iocp!NoConn
    BY <1>1, <1>4, Taking
  <1>6. /\ th' \in [Threads -> Place] /\ th'[t].at = "done"
        /\ \A u \in Threads : u # t => th'[u] = th[u]
    <2>1. PICK r : r = [th[t] EXCEPT !.at = "done"]
      OBVIOUS
    <2>2. th[t] \in Place
      BY <1>3 DEF IocpTypes
    <2>3. r \in Place /\ r.at = "done"
      BY <2>1, <2>2 DEF Place
    <2>. QED
      BY <1>2, <1>3, <2>1, <2>3 DEF IocpTypes
  <1>7. IocpTypes' /\ Addressed'
    BY <1>2, <1>3, <1>5, <1>6 DEF IocpTypes, Addressed
  <1>8. \A d \in Conns : \A u \in Threads : Holds(u, d)' <=> Holds(u, d)
    BY <1>5, <1>6 DEF Holds
  <1>9. ASSUME NEW d \in Conns PROVE Owned(d)'
    <2>1. (InPort(port', d) => InPort(port, d)) /\ OnceInPort(port', d)
      BY <1>3, <1>5 DEF Owned
    <2>. QED
      BY <1>2, <1>3, <1>6, <1>8, <2>1 DEF Owned
  <1>. QED
    BY <1>7, <1>9 DEF IocpInv

LEMMA GettingPacket ==
    ASSUME IocpInv, NEW t \in Threads, Iocp!Takes(t)
    PROVE  IocpInv'
  <1>1. PICK c : c = Head(port).conn
    OBVIOUS
  <1>2. /\ Iocp!Take(t, "good") /\ UNCHANGED <<ctx, socket, opType, inKernel>>
        /\ th' = [th EXCEPT ![t] = [at |-> "have", conn |-> c]]
    BY <1>1 DEF Iocp!Takes
  <1>3. IocpTypes /\ Addressed /\ \A d \in Conns : Owned(d)
    BY DEF IocpInv
  <1>4. /\ Head(port) \in Packet /\ ("good" = "exit" <=> c = Iocp!NoConn)
        /\ th[t].at = "get" /\ port' \in Seq(Packet)
        /\ \A d : /\ InPort(port, d) <=> InPort(port', d) \/ c = d
                  /\ OnceInPort(port, d) => OnceInPort(port', d) /\ (c = d => ~InPort(port', d))
        /\ \A j \in 1..Len(port') : port'[j].kind = "exit" <=> port'[j].conn = Iocp!NoConn
    BY <1>1, <1>2, Taking
  <1>5. c \in Conns
    <2>1. c \in Conns \cup {Iocp!NoConn}
      BY <1>1, <1>4 DEF Packet
    <2>2. "good" # "exit"
      OBVIOUS
    <2>. QED
      BY <1>4, <2>1, <2>2
  <1>6. /\ th' \in [Threads -> Place] /\ th'[t].at = "have" /\ th'[t].conn = c
        /\ \A u \in Threads : u # t => th'[u] = th[u]
    <2>1. PICK r : r = [at |-> "have", conn |-> c]
      OBVIOUS
    <2>2. r \in Place /\ r.at = "have" /\ r.conn = c
      BY <1>5, <2>1 DEF Place
    <2>. QED
      BY <1>2, <1>3, <2>1, <2>2 DEF IocpTypes
  <1>7. IocpTypes' /\ Addressed'
    BY <1>2, <1>3, <1>4, <1>5, <1>6 DEF IocpTypes, Addressed
  <1>8. Holds(t, c)' /\ \A d \in Conns : \A u \in Threads : u # t \/ d # c =>
                            (Holds(u, d)' <=> Holds(u, d))
    BY <1>4, <1>6 DEF Holds
  <1>9. Owned(c)'
    <2>1. /\ c \notin inKernel /\ ctx[c] = "live" /\ socket[c] = "open"
          /\ (\A u \in Threads : ~Holds(u, c)) /\ OnceInPort(port, c)
      BY <1>3, <1>4, <1>5 DEF Owned
    <2>2. ~InPort(port', c) /\ OnceInPort(port', c)
      BY <1>4, <2>1
    <2>3. \A u \in Threads : Holds(u, c)' => u = t
      BY <1>5, <1>8, <2>1
    <2>. QED
      BY <1>2, <1>8, <2>1, <2>2, <2>3 DEF Owned
  <1>10. ASSUME NEW d \in Conns, d # c PROVE Owned(d)'
    <2>1. (InPort(port', d) <=> InPort(port, d)) /\ OnceInPort(port', d)
      BY <1>3, <1>4, <1>10 DEF Owned
    <2>2. \A u \in Threads : th[u].at = "done" => th'[u].at = "done"
      BY <1>4, <1>6
    <2>. QED
      BY <1>2, <1>3, <1>8, <1>10, <2>1, <2>2, OwnedStays
  <1>. QED
    BY <1>7, <1>9, <1>10 DEF IocpInv

LEMMA GoingOn ==
    ASSUME IocpInv, NEW t \in Threads, NEW result \in Iocp!Results, Iocp!Continues(t, result)
    PROVE  IocpInv'
  <1>1. PICK c : c = th[t].conn
    OBVIOUS
  <1>2. PICK place : place = IF opType[c] = "IO_READ" /\ result # "error"
                             THEN [at |-> "print", conn |-> c] ELSE Iocp!Get
    OBVIOUS
  <1>3. /\ th[t].at = "have" /\ th' = [th EXCEPT ![t] = place] /\ port' = port
        /\ opType' = [opType EXCEPT ![c] = IF @ = "IO_READ" THEN "IO_WRITE" ELSE "IO_READ"]
        /\ inKernel' = IF result = "error" THEN inKernel ELSE inKernel \cup {c}
        /\ result = "error" => /\ socket' = [socket EXCEPT ![c] = "closed"]
                               /\ ctx' = [ctx EXCEPT ![c] = "deleted"]
        /\ result # "error" => UNCHANGED <<socket, ctx>>
    BY <1>1, <1>2 DEF Iocp!Continues, Iocp!Start, Iocp!Failed, Iocp!Close
  <1>4. IocpTypes /\ Addressed /\ \A d \in Conns : Owned(d)
    BY DEF IocpInv
  <1>5. c \in Conns /\ Holds(t, c)
    BY <1>1, <1>3, <1>4 DEF Addressed, Holds
  <1>6. place \in Place /\ place.at # "have" /\ place.at # "done"
    <2>1. [at |-> "print", conn |-> c] \in Place
      BY <1>5 DEF Place
    <2>2. Iocp!Get \in Place /\ Iocp!Get.at = "get"
      BY DEF Place, Iocp!Get
    <2>. QED
      BY <1>2, <2>1, <2>2
  <1>7. /\ th' \in [Threads -> Place] /\ th'[t] = place
        /\ \A u \in Threads : u # t => th'[u] = th[u]
    BY <1>3, <1>4, <1>6 DEF IocpTypes
  <1>8. /\ ctx' \in [Conns -> {"none", "live", "deleted"}]
        /\ socket' \in [Conns -> {"none", "open", "closed"}]
        /\ result = "error" => ctx'[c] = "deleted" /\ socket'[c] = "closed"
        /\ \A d \in Conns : d # c => ctx'[d] = ctx[d] /\ socket'[d] = socket[d]
    BY <1>3, <1>4, <1>5 DEF IocpTypes
  <1>9. opType' \in [Conns -> {"IO_READ", "IO_WRITE"}] /\ inKernel' \subseteq Conns
    BY <1>3, <1>4, <1>5 DEF IocpTypes
  <1>10. IocpTypes' /\ Addressed'
    BY <1>3, <1>4, <1>6, <1>7, <1>8, <1>9 DEF IocpTypes, Addressed
  <1>11. ~Holds(t, c)' /\ \A d \in Conns : \A u \in Threads : u # t \/ d # c =>
                              (Holds(u, d)' <=> Holds(u, d))
    BY <1>1, <1>3, <1>6, <1>7 DEF Holds
  <1>12. Owned(c)'
    <2>1. /\ c \notin inKernel /\ ~InPort(port, c) /\ OnceInPort(port, c)
          /\ ctx[c] = "live" /\ socket[c] = "open" /\ \A u \in Threads : Holds(u, c) => u = t
      BY <1>4, <1>5 DEF Owned
    <2>2. \A u \in Threads : ~Holds(u, c)'
      BY <1>5, <1>11, <2>1
    <2>3. CASE result = "error"
      BY <1>3, <1>8, <2>1, <2>2, <2>3 DEF Owned
    <2>4. CASE result # "error"
      BY <1>3, <2>1, <2>2, <2>4 DEF Owned
    <2>. QED
      BY <2>3, <2>4
  <1>13. ASSUME NEW d \in Conns, d # c PROVE Owned(d)'
    <2>1. OnceInPort(port', d)
      BY <1>3, <1>4 DEF Owned
    <2>2. \A u \in Threads : th[u].at = "done" => th'[u].at = "done"
      BY <1>3, <1>7
    <2>3. d \in inKernel' <=> d \in inKernel
      BY <1>3, <1>13
    <2>. QED
      BY <1>3, <1>4, <1>8, <1>11, <1>13, <2>1, <2>2, <2>3, OwnedStays
  <1>. QED
    BY <1>10, <1>12, <1>13 DEF IocpInv

LEMMA Printing ==
    ASSUME IocpInv, NEW t \in Threads, Iocp!Prints(t)
    PROVE  IocpInv'
  <1>1. /\ th[t].at = "print" /\ th' = [th EXCEPT ![t] = Iocp!Get]
        /\ UNCHANGED <<ctx, socket, opType, inKernel, port>>
    BY DEF Iocp!Prints
  <1>2. IocpTypes /\ Addressed /\ \A d \in Conns : Owned(d)
    BY DEF IocpInv
  <1>3. Iocp!Get \in Place /\ Iocp!Get.at = "get"
    BY DEF Place, Iocp!Get
  <1>4. /\ th' \in [Threads -> Place] /\ th'[t].at = "get"
        /\ \A u \in Threads : u # t => th'[u] = th[u]
    BY <1>1, <1>2, <1>3 DEF IocpTypes
  <1>5. IocpTypes' /\ Addressed'
    BY <1>1, <1>2, <1>4 DEF IocpTypes, Addressed
  <1>6. \A d \in Conns : \A u \in Threads : Holds(u, d)' <=> Holds(u, d)
    BY <1>1, <1>4 DEF Holds
  <1>7. \A u \in Threads : th[u].at = "done" => th'[u].at = "done"
    BY <1>1, <1>4
  <1>8. ASSUME NEW d \in Conns PROVE Owned(d)'
    <2>1. OnceInPort(port', d)
      BY <1>1, <1>2 DEF Owned
    <2>. QED
      BY <1>1, <1>2, <1>6, <1>7, <2>1, OwnedStays
  <1>. QED
    BY <1>5, <1>8 DEF IocpInv

LEMMA IocpKept == IocpInv /\ [Next]_vars => IocpInv'
  <1>1. SUFFICES ASSUME IocpInv, Iocp!Next \/ UNCHANGED iocpVars
                 PROVE  IocpInv'
    BY IocpStep
  <1>2. CASE \E c \in Conns, result \in Iocp!Results : Iocp!Accept(c, result)
    BY <1>1, <1>2, Accepting
  <1>3. CASE \E c \in Conns : Iocp!AcceptFails(c)
    BY <1>1, <1>3, AcceptFailing
  <1>4. CASE Iocp!PostQueuedCompletionStatus
    BY <1>1, <1>4, Posting
  <1>5. CASE \E c \in Conns : Iocp!Complete(c)
    BY <1>1, <1>5, Completing
  <1>6. CASE \E t \in Threads : Iocp!routine(t)
    <2>1. PICK t \in Threads : Iocp!routine(t)
      BY <1>6
    <2>. QED
      BY <1>1, <2>1, FailingPacket, Leaving, GettingPacket, GoingOn, Printing DEF Iocp!routine
  <1>7. CASE UNCHANGED <<ctx, socket, opType, inKernel, port, th>>
    BY <1>1, <1>7 DEF IocpInv, IocpTypes, Addressed, Owned, Holds
  <1>8. Iocp!Join \/ UNCHANGED iocpVars =>
          UNCHANGED <<ctx, socket, opType, inKernel, port, th>>
    BY DEF Iocp!Join, iocpVars
  <1>. QED
    BY <1>1, <1>2, <1>3, <1>4, <1>5, <1>6, <1>7, <1>8 DEF Iocp!Next, Iocp!Main

(* A set with one element at most.                                         *)
LEMMA AtMostOne ==
    ASSUME NEW S, \A x, y \in S : x = y
    PROVE  /\ S = {} => Cardinality(S) = 0
           /\ S # {} => Cardinality(S) = 1
           /\ Cardinality(S) \in {0, 1}
  <1>1. CASE S = {}
    BY <1>1, FS_EmptySet
  <1>2. CASE S # {}
    <2>1. PICK x : x \in S
      BY <1>2
    <2>2. S = {x}
      BY <2>1
    <2>. QED
      BY <1>2, <2>2, FS_Singleton
  <1>. QED
    BY <1>1, <1>2

(* A live context has one owner, a deleted one has none, so that neither   *)
(* an operation, the port nor a thread about to start an operation has a   *)
(* deleted context; its socket is open as long as it lives                 *)
(* (iocp/server.cpp).  The print after WSASend (line 182) is left out: it  *)
(* may read a context that another thread has deleted.                     *)
THEOREM ContextsOwned == Spec => []ContextOwned
  <1>1. Init => IocpInv
    <2>1. SUFFICES ASSUME Iocp!Init
                   PROVE  IocpInv
      BY DEF Init
    <2>2. /\ ctx = [c \in Conns |-> "none"] /\ socket = [c \in Conns |-> "none"]
          /\ opType = [c \in Conns |-> "IO_READ"] /\ inKernel = {} /\ port = <<>>
          /\ th = [t \in Threads |-> Iocp!Get]
      BY <2>1 DEF Iocp!Init
    <2>3. Iocp!Get \in Place /\ Iocp!Get.at = "get"
      BY DEF Place, Iocp!Get
    <2>4. port \in Seq(Packet) /\ 1..Len(port) = {}
      BY <2>2
    <2>5. IocpTypes /\ Addressed
      BY <2>2, <2>3, <2>4 DEF IocpTypes, Addressed
    <2>6. \A c \in Conns : Owned(c)
      BY <2>2, <2>3, <2>4 DEF Owned, Holds, InPort, OnceInPort
    <2>. QED
      BY <2>5, <2>6 DEF IocpInv
  <1>2. IocpInv => ContextOwned
    <2>1. SUFFICES ASSUME IocpInv, NEW c \in Conns
                   PROVE  /\ Iocp!Owners(c) <= IF ctx[c] = "live" THEN 1 ELSE 0
                          /\ ctx[c] = "live" <=> socket[c] = "open"
                          /\ (\A t \in Threads : th[t].at # "done") /\ ctx[c] = "live"
                               => Iocp!Owners(c) = 1
      BY DEF ContextOwned, Iocp!OneOwner
    <2>2. Owned(c) /\ port \in Seq(Packet)
      BY <2>1 DEF IocpInv, IocpTypes
    <2>3. PICK K, Q, T : /\ K = {x \in {c} : x \in inKernel}
                         /\ Q = {j \in DOMAIN port : port[j].conn = c}
                         /\ T = {t \in Threads : th[t].at = "have" /\ th[t].conn = c}
      OBVIOUS
    <2>4. Iocp!Owners(c) = Cardinality(K) + Cardinality(Q) + Cardinality(T)
      <3>1. \A S : Iocp!Cardinality(S) = Cardinality(S)
        BY DEF Iocp!Cardinality, Cardinality
      <3>. QED
        BY <2>3, <3>1 DEF Iocp!Owners
    <2>5. DOMAIN port = 1..Len(port)
      BY <2>2
    <2>6. /\ K = {} <=> c \notin inKernel
          /\ Q = {} <=> ~InPort(port, c)
          /\ T = {} <=> \A t \in Threads : ~Holds(t, c)
      BY <2>3, <2>5 DEF InPort, Holds
    <2>7. \A x, y \in K : x = y
      BY <2>3
    <2>8. \A x, y \in Q : x = y
      BY <2>2, <2>3, <2>5 DEF Owned, OnceInPort
    <2>9. \A x, y \in T : x = y
      BY <2>2, <2>3 DEF Owned, Holds
    <2>10. PICK k, q_, t_ \in {0, 1} :
             /\ k = Cardinality(K) /\ q_ = Cardinality(Q) /\ t_ = Cardinality(T)
             /\ (k = 0 <=> K = {}) /\ (q_ = 0 <=> Q = {}) /\ (t_ = 0 <=> T = {})
      BY <2>7, <2>8, <2>9, AtMostOne
    <2>11. Iocp!Owners(c) = k + q_ + t_
      BY <2>4, <2>10
    <2>12. /\ k = 1 => q_ = 0 /\ t_ = 0 /\ ctx[c] = "live"
           /\ q_ = 1 => t_ = 0 /\ ctx[c] = "live"
           /\ t_ = 1 => ctx[c] = "live"
      BY <2>2, <2>6, <2>10 DEF Owned
    <2>13. (\A t \in Threads : th[t].at # "done") /\ ctx[c] = "live" => k = 1 \/ q_ = 1 \/ t_ = 1
      BY <2>2, <2>6, <2>10 DEF Owned
    <2>14. ctx[c] = "live" <=> socket[c] = "open"
      BY <2>2 DEF Owned
    <2>. QED
      BY <2>10, <2>11, <2>12, <2>13, <2>14
  <1>. QED
    BY <1>1, <1>2, IocpKept, PTL DEF Spec

-----------------------------------------------------------------------------
(* The queue over a timerfd.                                               *)

LEMMA FdStep == [Next]_vars => FdQueue!Next \/ UNCHANGED fdVars
  BY DEF Next, vars, fdVars

FdTimer == [endtime : Nat, interval : FdIntervals \cup {0}]

FdTypes ==
    /\ now \in Nat /\ currtime \in Nat /\ late \in Nat /\ fired \in BOOLEAN
    /\ tmqueue \subseteq FdTimers /\ tmqueue \subseteq added /\ tm \in [FdTimers -> FdTimer]
    /\ fd \in [fires : Nat, every : Nat] /\ beyond \in BOOLEAN
    /\ fdAt \in {"start", "wait", "scan", "run", "done"}

(* The timerfd is armed for the first timer, or for later if addTimer set  *)
(* it to a delay that is more than the endtime keeps.                      *)
FdArmed ==
    /\ fd.fires > now
    /\ beyond \/ fd.fires <= tm[FdQueue!Head(tmqueue)].endtime + late

(* handle() has read the clock, and the timerfd is right whenever it is    *)
(* waited for.                                                             *)
FdInv ==
    /\ FdTypes
    /\ currtime <= now
    /\ fdAt \in {"start", "wait"} =>
         IF tmqueue = {} THEN fd = FdQueue!Disarmed /\ ~fired ELSE fired \/ FdArmed

(* While handle() works, no timer is 2^32 microseconds or more from the    *)
(* time at which it read the clock, so that the waits it computes, in 32   *)
(* bits, are the right ones.  Endtimes keep less than that of a delay, so  *)
(* a call must last very long to break it.                                 *)
ShortHandle == fdAt = "scan" => \A t \in tmqueue : tm[t].endtime - currtime < Wrap

Earlier == OpToRel(<, Nat)

(* A set of numbers has a lowest. *)
LEMMA LowestNumber ==
    ASSUME NEW T, T \subseteq Nat, T # {}
    PROVE  \E m \in T : \A e \in T : m <= e
  <1>1. IsWellFoundedOn(Earlier, Nat)
    BY NatLessThanWellFounded DEF Earlier
  <1>2. PICK m \in T : \A e \in T : <<e, m>> \notin Earlier
    BY <1>1, WFMin
  <1>3. ASSUME NEW e \in T
        PROVE  m <= e
    <2>1. <<e, m>> \notin Earlier /\ e \in Nat /\ m \in Nat
      BY <1>2
    <2>2. e < m => <<e, m>> \in Earlier
      BY <2>1 DEF Earlier, OpToRel
    <2>. QED
      BY <2>1, <2>2
  <1>. QED
    BY <1>2, <1>3

(* The first timer of the queue ends no later than the others. *)
LEMMA FirstTimer ==
    ASSUME FdTypes, NEW S, S \subseteq FdTimers, S # {}
    PROVE  /\ FdQueue!Head(S) \in S
           /\ \A u \in S : tm[FdQueue!Head(S)].endtime <= tm[u].endtime
  <1>1. \A t \in S : tm[t].endtime \in Nat /\ t \in Nat
    BY NetAssumption DEF FdTypes, FdTimer
  <1>2. PICK T : T = {tm[t].endtime : t \in S}
    OBVIOUS
  <1>3. T \subseteq Nat /\ T # {}
    BY <1>1, <1>2
  <1>4. PICK e \in T : \A x \in T : e <= x
    BY <1>3, LowestNumber
  <1>5. PICK U : U = {t \in S : tm[t].endtime = e}
    OBVIOUS
  <1>6. U \subseteq Nat /\ U # {}
    BY <1>1, <1>2, <1>4, <1>5
  <1>7. PICK h \in U : \A x \in U : h <= x
    BY <1>6, LowestNumber
  <1>8. h \in S /\ \A u \in S \ {h} : FdQueue!Before(h, u)
    <2>1. h \in S /\ tm[h].endtime = e /\ h \in Nat
      BY <1>1, <1>5, <1>7
    <2>2. ASSUME NEW u \in S \ {h} PROVE FdQueue!Before(h, u)
      <3>1. tm[u].endtime \in Nat /\ u \in Nat /\ e <= tm[u].endtime /\ e \in Nat
        BY <1>1, <1>2, <1>3, <1>4
      <3>2. tm[u].endtime = e => h <= u
        BY <1>5, <1>7
      <3>. QED
        BY <2>1, <3>1, <3>2 DEF FdQueue!Before
    <2>. QED
      BY <2>1, <2>2
  <1>9. PICK k : k = FdQueue!Head(S)
    OBVIOUS
  <1>10. k \in S /\ \A u \in S \ {k} : FdQueue!Before(k, u)
    BY <1>8, <1>9 DEF FdQueue!Head
  <1>11. \A u \in S : tm[k].endtime <= tm[u].endtime
    BY <1>1, <1>10 DEF FdQueue!Before
  <1>. QED
    BY <1>9, <1>10, <1>11

(* An expiration is positive, and what is kept of it is no more. *)
LEMMA Expiring ==
    ASSUME NEW ms \in FdDelays
    PROVE  \E e, k \in Nat :
             /\ e = FdQueue!Expiration(ms) /\ k = FdQueue!Kept(FdQueue!Expiration(ms))
             /\ e > 0 /\ (k = e \/ ms >= Wrap)
  <1>1. ms \in Nat /\ Wrap \in Nat /\ Wrap > 1
    BY NetAssumption
  <1>2. PICK e : e = FdQueue!Expiration(ms)
    OBVIOUS
  <1>3. e \in Nat /\ e > 0 /\ (e = ms \/ e = 1)
    BY <1>1, <1>2 DEF FdQueue!Expiration
  <1>4. e < Wrap \/ ms >= Wrap
    BY <1>1, <1>3
  <1>5. e % Wrap \in Nat /\ (e < Wrap => e % Wrap = e)
    BY <1>1, <1>3
  <1>. QED
    BY <1>2, <1>3, <1>4, <1>5 DEF FdQueue!Kept

(* The first one of the queue, now and after a step. *)
LEMMA HeadIsFirst ==
    FdTypes /\ tmqueue # {} =>
        /\ FdQueue!Head(tmqueue) \in tmqueue
        /\ \A u \in tmqueue : tm[FdQueue!Head(tmqueue)].endtime <= tm[u].endtime
  <1>1. FdTypes => tmqueue \subseteq FdTimers
    BY DEF FdTypes
  <1>. QED
    BY <1>1, FirstTimer

LEMMA HeadIsFirstThen ==
    (FdTypes /\ tmqueue # {} =>
        /\ FdQueue!Head(tmqueue) \in tmqueue
        /\ \A u \in tmqueue : tm[FdQueue!Head(tmqueue)].endtime <= tm[u].endtime)'
  BY HeadIsFirst, PTL

(* timerfd_settime. *)
LEMMA Setting ==
    ASSUME now \in Nat, NEW w \in Nat, NEW v \in Nat, FdQueue!settime(w, v)
    PROVE  /\ fired' = FALSE /\ fd' \in [fires : Nat, every : Nat]
           /\ w = 0 => fd' = FdQueue!Disarmed
           /\ w > 0 => fd'.fires = now + w
  <1>1. FdQueue!Disarmed \in [fires : Nat, every : Nat]
    BY DEF FdQueue!Disarmed
  <1>2. [fires |-> now + w, every |-> v] \in [fires : Nat, every : Nat]
    OBVIOUS
  <1>. QED
    BY <1>1, <1>2 DEF FdQueue!settime

LEMMA FdAdding ==
    ASSUME FdInv, NEW t \in FdTimers, NEW ms \in FdDelays, NEW intvl \in FdIntervals,
           FdQueue!addTimer(t, ms, intvl)
    PROVE  FdInv'
  <1>1. PICK e \in Nat, k \in Nat :
          /\ e = FdQueue!Expiration(ms) /\ k = FdQueue!Kept(FdQueue!Expiration(ms))
          /\ e > 0 /\ (k = e \/ ms >= Wrap)
    BY Expiring
  <1>2. PICK new : new = [endtime |-> now + k, interval |-> intvl]
    OBVIOUS
  <1>3. /\ fdAt \in {"start", "run"} /\ tmqueue' = tmqueue \cup {t}
        /\ tm' = [tm EXCEPT ![t] = new] /\ added' = added \cup {t} /\ t \notin added
        /\ UNCHANGED <<now, fdAt, currtime, late>>
    BY <1>1, <1>2 DEF FdQueue!addTimer
  <1>4. \/ /\ tmqueue = {} \/ now + k < tm[FdQueue!Head(tmqueue)].endtime
           /\ FdQueue!settime(e, intvl) /\ beyond' = (ms >= Wrap)
        \/ /\ tmqueue # {} /\ ~(now + k < tm[FdQueue!Head(tmqueue)].endtime)
           /\ UNCHANGED <<fd, fired, beyond>>
    BY <1>1 DEF FdQueue!addTimer
  <1>5. FdTypes /\ now \in Nat /\ late \in Nat /\ intvl \in Nat
    BY NetAssumption DEF FdInv, FdTypes
  <1>6. new \in FdTimer /\ new.endtime = now + k
    BY <1>1, <1>2, <1>5 DEF FdTimer
  <1>7. /\ t \notin tmqueue /\ tm' \in [FdTimers -> FdTimer] /\ tm'[t].endtime = now + k
        /\ \A u \in tmqueue : tm'[u] = tm[u]
    BY <1>3, <1>5, <1>6 DEF FdTypes
  <1>8. fired' \in BOOLEAN /\ fd' \in [fires : Nat, every : Nat] /\ beyond' \in BOOLEAN
    <2>1. fired' \in BOOLEAN /\ fd' \in [fires : Nat, every : Nat]
      BY <1>1, <1>4, <1>5, Setting DEF FdTypes
    <2>2. (ms >= Wrap) \in BOOLEAN
      BY NetAssumption
    <2>3. beyond' \in BOOLEAN
      BY <1>4, <1>5, <2>2 DEF FdTypes
    <2>. QED
      BY <2>1, <2>3
  <1>9. FdTypes'
    <2>1. /\ now' \in Nat /\ currtime' \in Nat /\ late' \in Nat
          /\ fdAt' \in {"start", "wait", "scan", "run", "done"}
      BY <1>3, <1>5 DEF FdTypes
    <2>2. tmqueue' \subseteq FdTimers /\ tmqueue' \subseteq added'
      BY <1>3, <1>5 DEF FdTypes
    <2>. QED
      BY <1>7, <1>8, <2>1, <2>2 DEF FdTypes
  <1>10. currtime' <= now'
    BY <1>3 DEF FdInv
  <1>11. ASSUME fdAt = "start"
         PROVE  fired' \/ FdArmed'
    <2>1. PICK h : h = FdQueue!Head(tmqueue)'
      OBVIOUS
    <2>2. h \in tmqueue \cup {t}
      BY <1>3, <1>9, <2>1, HeadIsFirstThen
    <2>3. PICK x \in Nat : x = tm'[h].endtime
      BY <1>3, <1>9, <2>2 DEF FdTypes, FdTimer
    <2>4. ASSUME tmqueue # {}
          PROVE  \E y \in Nat : /\ y = tm[FdQueue!Head(tmqueue)].endtime
                                /\ h # t => y <= x
      <3>1. PICK f : f = FdQueue!Head(tmqueue)
        OBVIOUS
      <3>2. f \in tmqueue /\ \A u \in tmqueue : tm[f].endtime <= tm[u].endtime
        BY <1>5, <2>4, <3>1, HeadIsFirst
      <3>3. tm[f].endtime \in Nat
        BY <1>5, <3>2 DEF FdTypes, FdTimer
      <3>4. h # t => tm[f].endtime <= x
        BY <1>7, <2>2, <2>3, <3>2
      <3>. QED
        BY <3>1, <3>3, <3>4
    <2>5. h = t => x = now + k
      BY <1>7, <2>3
    <2>6. CASE /\ tmqueue = {} \/ now + k < tm[FdQueue!Head(tmqueue)].endtime
               /\ FdQueue!settime(e, intvl) /\ beyond' = (ms >= Wrap)
      <3>1. fd'.fires = now + e
        BY <1>1, <1>5, <2>6, Setting
      <3>2. now + k <= x
        <4>1. CASE h = t
          BY <1>1, <1>5, <2>5, <4>1
        <4>2. CASE h # t
          <5>1. tmqueue # {}
            BY <2>2, <4>2
          <5>2. PICK y \in Nat : y = tm[FdQueue!Head(tmqueue)].endtime /\ y <= x
            BY <2>4, <4>2, <5>1
          <5>. QED
            BY <1>1, <1>5, <2>6, <5>1, <5>2
        <4>. QED
          BY <4>1, <4>2
      <3>3. fd'.fires > now /\ (k = e => fd'.fires <= x + late)
        BY <1>1, <1>5, <3>1, <3>2
      <3>4. k # e => beyond'
        BY <1>1, <2>6
      <3>. QED
        BY <1>3, <2>1, <2>3, <3>3, <3>4 DEF FdArmed
    <2>7. CASE /\ tmqueue # {} /\ ~(now + k < tm[FdQueue!Head(tmqueue)].endtime)
               /\ UNCHANGED <<fd, fired, beyond>>
      <3>1. PICK y \in Nat : y = tm[FdQueue!Head(tmqueue)].endtime /\ (h # t => y <= x)
        BY <2>4, <2>7
      <3>2. y <= x
        BY <1>1, <1>5, <2>5, <2>7, <3>1
      <3>3. fired \/ (fd.fires > now /\ (beyond \/ fd.fires <= y + late))
        BY <1>11, <2>7, <3>1 DEF FdInv, FdArmed
      <3>4. fd.fires \in Nat
        BY <1>5 DEF FdTypes
      <3>5. fired \/ (fd.fires > now /\ (beyond \/ fd.fires <= x + late))
        BY <1>5, <3>2, <3>3, <3>4
      <3>. QED
        BY <1>3, <2>1, <2>3, <2>7, <3>5 DEF FdArmed
    <2>. QED
      BY <1>4, <2>6, <2>7
  <1>. QED
    BY <1>3, <1>9, <1>10, <1>11 DEF FdInv

LEMMA FdTicking ==
    ASSUME FdInv, FdQueue!Tick
    PROVE  FdInv'
  <1>1. /\ now' = now + 1 /\ UNCHANGED <<tmqueue, tm, added, fdAt, currtime, late, beyond>>
        /\ fired' = (fired \/ fd.fires = now')
        /\ fd' = IF fd.fires # now' THEN fd
                 ELSE IF fd.every > 0 THEN [fd EXCEPT !.fires = now' + fd.every]
                 ELSE FdQueue!Disarmed
    BY DEF FdQueue!Tick
  <1>2. FdTypes /\ now \in Nat /\ currtime \in Nat /\ late \in Nat /\ now' \in Nat
    BY <1>1 DEF FdInv, FdTypes
  <1>3. fired' \in BOOLEAN /\ (fired' <=> fired \/ fd.fires = now')
    BY <1>1, <1>2 DEF FdTypes
  <1>4. fd' \in [fires : Nat, every : Nat] /\ (fd.fires # now' => fd' = fd)
    <2>1. PICK r : r = [fd EXCEPT !.fires = now' + fd.every]
      OBVIOUS
    <2>2. r \in [fires : Nat, every : Nat]
      BY <1>2, <2>1 DEF FdTypes
    <2>3. FdQueue!Disarmed \in [fires : Nat, every : Nat]
      BY DEF FdQueue!Disarmed
    <2>. QED
      BY <1>1, <1>2, <2>1, <2>2, <2>3 DEF FdTypes
  <1>5. FdTypes'
    BY <1>1, <1>2, <1>3, <1>4 DEF FdTypes
  <1>7. currtime <= now'
    BY <1>1, <1>2 DEF FdInv
  <1>8. ASSUME fdAt \in {"start", "wait"}, tmqueue = {}
        PROVE  fd' = FdQueue!Disarmed /\ ~fired'
    <2>1. fd = FdQueue!Disarmed /\ ~fired
      BY <1>8 DEF FdInv
    <2>2. fd.fires = 0
      BY <2>1 DEF FdQueue!Disarmed
    <2>3. fd.fires # now'
      BY <1>1, <1>2, <2>2
    <2>. QED
      BY <1>3, <1>4, <2>1, <2>3
  <1>9. ASSUME fdAt \in {"start", "wait"}, tmqueue # {}
        PROVE  fired' \/ FdArmed'
    <2>1. \/ fired
          \/ fd.fires > now /\ (beyond \/ fd.fires <= tm[FdQueue!Head(tmqueue)].endtime + late)
      BY <1>9 DEF FdInv, FdArmed
    <2>2. fd.fires \in Nat
      BY <1>2 DEF FdTypes
    <2>3. fd.fires > now => fd.fires = now' \/ fd.fires > now'
      BY <1>1, <1>2, <2>2
    <2>4. fd.fires > now' => fd' = fd
      BY <1>2, <1>4, <2>2
    <2>5. FdQueue!Head(tmqueue)' = FdQueue!Head(tmqueue)
      BY <1>1 DEF FdQueue!Head, FdQueue!Before
    <2>. QED
      BY <1>1, <1>3, <2>1, <2>3, <2>4, <2>5 DEF FdArmed
  <1>. QED
    BY <1>1, <1>5, <1>7, <1>8, <1>9 DEF FdInv

(* What the fields of a timer are. *)
LEMMA FdFields ==
    ASSUME FdTypes, NEW u \in FdTimers
    PROVE  \E x, v \in Nat : /\ x = tm[u].endtime /\ v = tm[u].interval
                             /\ v > 0 => v \in FdIntervals
  <1>1. tm[u] \in FdTimer
    BY DEF FdTypes
  <1>2. tm[u].endtime \in Nat /\ tm[u].interval \in FdIntervals \cup {0}
    BY <1>1 DEF FdTimer
  <1>3. PICK x \in Nat, v \in FdIntervals \cup {0} : x = tm[u].endtime /\ v = tm[u].interval
    BY <1>2
  <1>4. v \in Nat /\ (v > 0 => v \in FdIntervals)
    <2>1. CASE v = 0
      BY <2>1
    <2>2. CASE v \in FdIntervals
      BY <2>2, NetAssumption
    <2>. QED
      BY <2>1, <2>2
  <1>. QED
    BY <1>3, <1>4

LEMMA FdDeleting ==
    ASSUME FdInv, NEW t \in FdTimers, FdQueue!delTimer(t)
    PROVE  FdInv'
  <1>1. /\ fdAt = "run" /\ t \in tmqueue /\ tmqueue' = tmqueue \ {t}
        /\ tm' = [tm EXCEPT ![t] = FdQueue!NoTimer]
        /\ UNCHANGED <<now, added, fdAt, currtime, late, beyond>>
        /\ \/ UNCHANGED <<fd, fired>>
           \/ tmqueue = {t} /\ FdQueue!settime(0, 0)
           \/ /\ tmqueue # {t}
              /\ \E u : /\ u = FdQueue!Head(tmqueue \ {t})
                        /\ FdQueue!settime(FdQueue!Until(u, now), tm[u].interval)
    BY DEF FdQueue!delTimer
  <1>2. FdTypes /\ now \in Nat
    BY DEF FdInv, FdTypes
  <1>3. FdQueue!NoTimer \in FdTimer
    BY DEF FdQueue!NoTimer, FdTimer
  <1>4. tm' \in [FdTimers -> FdTimer] /\ \A u \in tmqueue' : tm'[u] = tm[u]
    BY <1>1, <1>2, <1>3 DEF FdTypes
  <1>5. fired' \in BOOLEAN /\ fd' \in [fires : Nat, every : Nat]
    <2>1. CASE UNCHANGED <<fd, fired>>
      BY <1>2, <2>1 DEF FdTypes
    <2>2. CASE FdQueue!settime(0, 0)
      BY <1>2, <2>2, Setting
    <2>3. ASSUME tmqueue # {t}, NEW u, u = FdQueue!Head(tmqueue \ {t}),
                 FdQueue!settime(FdQueue!Until(u, now), tm[u].interval)
          PROVE  fired' \in BOOLEAN /\ fd' \in [fires : Nat, every : Nat]
      <3>1. tmqueue \ {t} \subseteq FdTimers /\ tmqueue \ {t} # {}
        BY <1>1, <1>2, <2>3 DEF FdTypes
      <3>2. u \in FdTimers
        BY <1>2, <2>3, <3>1, FirstTimer
      <3>3. PICK x \in Nat, v \in Nat : x = tm[u].endtime /\ v = tm[u].interval
        BY <1>2, <3>2, FdFields
      <3>4. (x - now) % Wrap \in Nat
        BY <1>2, NetAssumption
      <3>5. FdQueue!settime((x - now) % Wrap, v)
        BY <2>3, <3>3 DEF FdQueue!Until
      <3>. QED
        BY <1>2, <3>4, <3>5, Setting
    <2>. QED
      BY <1>1, <2>1, <2>2, <2>3
  <1>6. FdTypes'
    BY <1>1, <1>2, <1>4, <1>5 DEF FdTypes
  <1>8. currtime' <= now'
    BY <1>1 DEF FdInv
  <1>. QED
    BY <1>1, <1>6, <1>8 DEF FdInv

LEMMA FdReturning ==
    ASSUME FdInv, FdQueue!Returns
    PROVE  FdInv'
  <1>1. fdAt' = "scan" /\ UNCHANGED <<now, added, fd, fired, currtime, late, beyond>>
    BY DEF FdQueue!Returns
  <1>2. /\ FdTypes /\ now \in Nat /\ currtime \in Nat /\ currtime <= now
        /\ tm \in [FdTimers -> FdTimer]
    BY DEF FdInv, FdTypes
  <1>3. PICK t : t = FdQueue!Head(tmqueue)
    OBVIOUS
  <1>4. PICK r : r = [tm[t] EXCEPT !.endtime = currtime + FdQueue!Kept(tm[t].interval)]
    OBVIOUS
  <1>5. \/ UNCHANGED <<tmqueue, tm>>
        \/ tm[t].interval > 0 /\ tm' = [tm EXCEPT ![t] = r] /\ UNCHANGED tmqueue
        \/ tmqueue' = tmqueue \ {t} /\ tm' = [tm EXCEPT ![t] = FdQueue!NoTimer]
    BY <1>3, <1>4 DEF FdQueue!Returns
  <1>6. FdQueue!NoTimer \in FdTimer
    BY DEF FdQueue!NoTimer, FdTimer
  <1>7. ASSUME t \in FdTimers PROVE r \in FdTimer
    <2>1. PICK v \in Nat : v = tm[t].interval
      BY <1>2, <1>7, FdFields
    <2>2. tm[t] \in FdTimer
      BY <1>2, <1>7
    <2>3. v % Wrap \in Nat
      BY NetAssumption
    <2>4. r = [tm[t] EXCEPT !.endtime = currtime + (v % Wrap)] /\ currtime + (v % Wrap) \in Nat
      BY <1>2, <1>4, <2>1, <2>3 DEF FdQueue!Kept
    <2>. QED
      BY <2>2, <2>4 DEF FdTimer
  <1>8. tmqueue' \subseteq tmqueue /\ tm' \in [FdTimers -> FdTimer]
    BY <1>2, <1>5, <1>6, <1>7
  <1>9. FdTypes'
    <2>1. tmqueue' \subseteq FdTimers /\ tmqueue' \subseteq added'
      BY <1>1, <1>2, <1>8 DEF FdTypes
    <2>. QED
      BY <1>1, <1>2, <1>8, <2>1 DEF FdTypes
  <1>. QED
    BY <1>1, <1>2, <1>9 DEF FdInv

LEMMA FdRearming ==
    ASSUME FdInv, ShortHandle, FdQueue!HandleReturns
    PROVE  FdInv'
  <1>1. /\ fdAt = "scan" /\ ~FdQueue!Due /\ FdQueue!Rearm /\ late' = now - currtime
        /\ fdAt' = "wait" /\ currtime' = 0 /\ beyond' = FALSE
        /\ UNCHANGED <<now, tmqueue, tm, added>>
    BY DEF FdQueue!HandleReturns
  <1>2. /\ FdTypes /\ now \in Nat /\ currtime \in Nat /\ currtime <= now /\ late' \in Nat
    BY <1>1 DEF FdInv, FdTypes
  <1>3. FdQueue!Head(tmqueue)' = FdQueue!Head(tmqueue)
    BY <1>1 DEF FdQueue!Head, FdQueue!Before
  <1>4. ASSUME tmqueue = {}
        PROVE  fd' = FdQueue!Disarmed /\ fired' = FALSE /\ fd' \in [fires : Nat, every : Nat]
    <2>1. FdQueue!settime(0, 0)
      BY <1>1, <1>4 DEF FdQueue!Rearm
    <2>. QED
      BY <1>2, <2>1, Setting
  <1>5. ASSUME tmqueue # {}
        PROVE  /\ fired' = FALSE /\ fd' \in [fires : Nat, every : Nat]
               /\ fd'.fires > now /\ fd'.fires <= tm[FdQueue!Head(tmqueue)].endtime + late'
    <2>1. PICK h : h = FdQueue!Head(tmqueue)
      OBVIOUS
    <2>2. h \in tmqueue /\ h \in FdTimers
      BY <1>2, <1>5, <2>1, HeadIsFirst DEF FdTypes
    <2>3. PICK x \in Nat, v \in Nat : x = tm[h].endtime /\ v = tm[h].interval
      BY <1>2, <2>2, FdFields
    <2>4. x > currtime
      BY <1>1, <1>2, <1>5, <2>1, <2>3 DEF FdQueue!Due
    <2>5. x - currtime < Wrap
      BY <1>1, <2>2, <2>3 DEF ShortHandle
    <2>7. x - currtime \in Nat /\ x - currtime > 0 /\ x - currtime < Wrap
      BY <1>2, <2>4, <2>5, NetAssumption
    <2>8. PICK w \in Nat : w = x - currtime
      BY <2>7
    <2>9. w % Wrap = w
      BY <2>7, <2>8, NetAssumption
    <2>10. FdQueue!settime(w, v)
      BY <1>1, <1>5, <2>1, <2>3, <2>8, <2>9 DEF FdQueue!Rearm, FdQueue!Until
    <2>11. fired' = FALSE /\ fd' \in [fires : Nat, every : Nat] /\ fd'.fires = now + w
      BY <1>2, <2>7, <2>8, <2>10, Setting
    <2>12. now + w > now /\ now + w <= x + (now - currtime)
      BY <1>2, <2>7, <2>8
    <2>. QED
      BY <1>1, <2>1, <2>3, <2>11, <2>12
  <1>6. FdTypes'
    <2>1. fired' \in BOOLEAN /\ fd' \in [fires : Nat, every : Nat]
      BY <1>4, <1>5
    <2>. QED
      BY <1>1, <1>2, <2>1 DEF FdTypes
  <1>8. currtime' <= now'
    BY <1>1, <1>2
  <1>9. IF tmqueue' = {} THEN fd' = FdQueue!Disarmed /\ ~fired' ELSE fired' \/ FdArmed'
    <2>1. CASE tmqueue = {}
      BY <1>1, <1>4, <2>1
    <2>2. CASE tmqueue # {}
      <3>1. fd'.fires > now' /\ fd'.fires <= tm'[FdQueue!Head(tmqueue)'].endtime + late'
        BY <1>1, <1>3, <1>5, <2>2
      <3>. QED
        BY <1>1, <2>2, <3>1 DEF FdArmed
    <2>. QED
      BY <2>1, <2>2
  <1>. QED
    BY <1>6, <1>8, <1>9 DEF FdInv

LEMMA FdKept == FdInv /\ ShortHandle /\ [Next]_vars => FdInv'
  <1>1. SUFFICES ASSUME FdInv, ShortHandle, FdQueue!Next \/ UNCHANGED fdVars
                 PROVE  FdInv'
    BY FdStep
  <1>2. CASE \E t \in FdTimers, ms \in FdDelays, intvl \in FdIntervals :
               FdQueue!addTimer(t, ms, intvl)
    BY <1>1, <1>2, FdAdding
  <1>3. CASE \E t \in FdTimers : FdQueue!delTimer(t)
    BY <1>1, <1>3, FdDeleting
  <1>4. CASE FdQueue!Tick
    BY <1>1, <1>4, FdTicking
  <1>5. CASE FdQueue!Returns
    BY <1>1, <1>5, FdReturning
  <1>6. CASE FdQueue!HandleReturns
    BY <1>1, <1>6, FdRearming
  <1>7. CASE FdQueue!refresh \/ FdQueue!Interrupted \/ FdQueue!run
    <2>1. /\ fdAt' \in {"scan", "done", "run"}
          /\ UNCHANGED <<now, tmqueue, tm, added, fd, late, beyond>>
          /\ currtime' = currtime \/ currtime' = now
          /\ fired' = fired \/ fired' = FALSE
      BY <1>7 DEF FdQueue!refresh, FdQueue!Interrupted, FdQueue!run
    <2>2. FdTypes'
      <3>1. currtime' \in Nat
        BY <1>1, <2>1 DEF FdInv, FdTypes
      <3>2. fired' \in BOOLEAN
        BY <1>1, <2>1 DEF FdInv, FdTypes
      <3>. QED
        BY <1>1, <2>1, <3>1, <3>2 DEF FdInv, FdTypes
    <2>3. currtime' <= now'
      BY <1>1, <2>1 DEF FdInv, FdTypes
    <2>. QED
      BY <1>1, <2>1, <2>2, <2>3 DEF FdInv
  <1>8. CASE FdQueue!Loop
    <2>1. /\ fdAt = "start" /\ fdAt' = "wait"
          /\ UNCHANGED <<now, tmqueue, tm, added, fd, fired, currtime, late, beyond>>
      BY <1>8 DEF FdQueue!Loop
    <2>2. FdQueue!Head(tmqueue)' = FdQueue!Head(tmqueue)
      BY <2>1 DEF FdQueue!Head, FdQueue!Before
    <2>. QED
      BY <1>1, <2>1, <2>2 DEF FdInv, FdTypes, FdArmed
  <1>9. CASE UNCHANGED fdVars
    <2>1. UNCHANGED <<now, tmqueue, tm, added, fd, fired, currtime, late, beyond, fdAt>>
      BY <1>9 DEF fdVars
    <2>2. FdQueue!Head(tmqueue)' = FdQueue!Head(tmqueue)
      BY <2>1 DEF FdQueue!Head, FdQueue!Before
    <2>. QED
      BY <1>1, <2>1, <2>2 DEF FdInv, FdTypes, FdArmed
  <1>. QED
    BY <1>1, <1>2, <1>3, <1>4, <1>5, <1>6, <1>7, <1>8, <1>9 DEF FdQueue!Next

(* When the timerfd is waited for, it has fired or is armed, for the first *)
(* timer unless the first wait is for a delay of 2^32 microseconds or more *)
(* (timerqueue.cpp:57), and it is disarmed when there is no timer.  The    *)
(* hypothesis is that no call of handle() lasts so long that a timer is    *)
(* 2^32 microseconds from its start (linux/timerqueue).                    *)
THEOREM TimerfdIsArmed == Spec /\ []ShortHandle => []TimerfdArmed
  <1>1. Init => FdInv
    <2>1. SUFFICES ASSUME FdQueue!Init
                   PROVE  FdInv
      BY DEF Init
    <2>2. /\ now = 1 /\ tmqueue = {} /\ tm = [t \in FdTimers |-> FdQueue!NoTimer]
          /\ fd = FdQueue!Disarmed /\ fired = FALSE /\ fdAt = "start" /\ currtime = 0 /\ late = 0
          /\ beyond = FALSE
      BY <2>1 DEF FdQueue!Init
    <2>3. FdQueue!NoTimer \in FdTimer /\ FdQueue!Disarmed \in [fires : Nat, every : Nat]
      BY DEF FdQueue!NoTimer, FdTimer, FdQueue!Disarmed
    <2>4. tm \in [FdTimers -> FdTimer]
      BY <2>2, <2>3
    <2>5. tmqueue \subseteq FdTimers /\ tmqueue \subseteq added
      BY <2>2
    <2>6. FdTypes
      BY <2>2, <2>3, <2>4, <2>5 DEF FdTypes
    <2>. QED
      BY <2>2, <2>6 DEF FdInv
  <1>2. FdInv => TimerfdArmed
    BY DEF FdInv, FdArmed, TimerfdArmed, FdQueue!Armed
  <1>. QED
    BY <1>1, <1>2, FdKept, PTL DEF Spec

-----------------------------------------------------------------------------
(* TcpClient with the programs of examples/rand64k.                        *)

LEMMA RandStep == [Next]_vars => Rand!Next \/ UNCHANGED randVars
  BY DEF Next, vars, randVars

Sent(w) == \E k \in 1..Len(w) : w[k] = Rand!Protocol

(* The package at k is the only one in w, and the end of it. *)
PackageAt(w, k) ==
    /\ k \in 1..Len(w) /\ k + 1 \in 1..Len(w) /\ w[k] = Rand!Protocol
    /\ w[k + 1] \in DataLens /\ Len(w) = (k + 1) + w[k + 1]
    /\ \A j \in 1..Len(w) : w[j] = Rand!Protocol => j = k

LEMMA Joined ==
    ASSUME NEW x \in Seq(Int), NEW y \in Seq(Int)
    PROVE  /\ x \o y \in Seq(Int) /\ Len(x \o y) = Len(x) + Len(y)
           /\ \A j \in 1..Len(x) : (x \o y)[j] = x[j]
           /\ \A j \in 1..Len(y) : (x \o y)[Len(x) + j] = y[j]
  BY ConcatProperties

LEMMA JoinedTwice ==
    ASSUME NEW x \in Seq(Int), NEW y \in Seq(Int), NEW z \in Seq(Int)
    PROVE  (x \o y) \o z = x \o (y \o z)
  OBVIOUS

LEMMA PackageIsOne ==
    ASSUME NEW len \in DataLens
    PROVE  /\ Rand!Package(len) \in Seq(Int) /\ Len(Rand!Package(len)) = 2 + len
           /\ Rand!Package(len)[1] = Rand!Protocol /\ Rand!Package(len)[2] = len
           /\ \A j \in 1..(2 + len) : j > 2 => Rand!Package(len)[j] = 0
  <1>1. len \in Nat \ {0} /\ len \in Int
    BY NetAssumption
  <1>2. PICK d : d = [j \in 1..len |-> 0]
    OBVIOUS
  <1>3. d \in Seq(Int) /\ Len(d) = len /\ \A j \in 1..len : d[j] = 0
    BY <1>1, <1>2
  <1>4. PICK h : h = <<-1, len>>
    OBVIOUS
  <1>5. h \in Seq(Int) /\ Len(h) = 2 /\ h[1] = -1 /\ h[2] = len
    BY <1>1, <1>4
  <1>6. Rand!Package(len) = h \o d
    BY <1>2, <1>4 DEF Rand!Package, Rand!Protocol, Rand!Data
  <1>7. /\ h \o d \in Seq(Int) /\ Len(h \o d) = 2 + len
        /\ \A j \in 1..2 : (h \o d)[j] = h[j]
        /\ \A j \in 1..len : (h \o d)[2 + j] = d[j]
    <2>1. /\ h \o d \in Seq(Int) /\ Len(h \o d) = Len(h) + Len(d)
          /\ \A j \in 1..Len(h) : (h \o d)[j] = h[j]
          /\ \A j \in 1..Len(d) : (h \o d)[Len(h) + j] = d[j]
      <3>1. h \in Seq(Int) /\ d \in Seq(Int)
        BY <1>3, <1>5
      <3>. QED
        BY <3>1, Joined
    <2>2. Len(h) = 2 /\ Len(d) = len
      BY <1>3, <1>5
    <2>. QED
      BY <2>1, <2>2
  <1>8. ASSUME NEW j \in 1..(2 + len), j > 2
        PROVE  (h \o d)[j] = 0
    <2>1. j - 2 \in 1..len /\ 2 + (j - 2) = j
      BY <1>1, <1>8
    <2>. QED
      BY <1>3, <1>7, <2>1
  <1>9. (h \o d)[1] = -1 /\ (h \o d)[2] = len
    <2>1. 1 \in 1..2 /\ 2 \in 1..2
      OBVIOUS
    <2>2. (h \o d)[1] = h[1] /\ (h \o d)[2] = h[2]
      BY <1>7, <2>1
    <2>. QED
      BY <1>5, <2>2
  <1>. QED
    BY <1>6, <1>7, <1>8, <1>9 DEF Rand!Protocol

(* A package that is written behind words of none is the only one. *)
LEMMA PackageWritten ==
    ASSUME NEW w \in Seq(Int), ~Sent(w), NEW len \in DataLens
    PROVE  /\ w \o Rand!Package(len) \in Seq(Int)
           /\ PackageAt(w \o Rand!Package(len), Len(w) + 1)
  <1>1. len \in Nat \ {0}
    BY NetAssumption
  <1>2. PICK pk : pk = Rand!Package(len)
    OBVIOUS
  <1>3. /\ pk \in Seq(Int) /\ Len(pk) = 2 + len /\ pk[1] = -1 /\ pk[2] = len
        /\ \A j \in 1..(2 + len) : j > 2 => pk[j] = 0
    BY <1>2, PackageIsOne DEF Rand!Protocol
  <1>4. PICK x : x = w \o pk
    OBVIOUS
  <1>5. /\ x \in Seq(Int) /\ Len(x) = Len(w) + (2 + len)
        /\ \A j \in 1..Len(w) : x[j] = w[j]
        /\ \A j \in 1..(2 + len) : x[Len(w) + j] = pk[j]
    <2>1. /\ x \in Seq(Int) /\ Len(x) = Len(w) + Len(pk)
          /\ \A j \in 1..Len(w) : x[j] = w[j]
          /\ \A j \in 1..Len(pk) : x[Len(w) + j] = pk[j]
      <3>1. pk \in Seq(Int)
        BY <1>3
      <3>. QED
        BY <1>4, <3>1, Joined
    <2>2. Len(pk) = 2 + len
      BY <1>3
    <2>. QED
      BY <2>1, <2>2
  <1>6. PICK m \in Nat : m = Len(w)
    OBVIOUS
  <1>7. x[m + 1] = -1 /\ x[m + 2] = len /\ Len(x) = (m + 2) + len
    BY <1>1, <1>3, <1>5, <1>6
  <1>8. ASSUME NEW j \in 1..Len(x), x[j] = -1
        PROVE  j = m + 1
    <2>1. CASE j <= m
      BY <1>5, <1>6, <1>8, <2>1 DEF Sent, Rand!Protocol
    <2>2. CASE j > m
      <3>1. x[j] = pk[j - m] /\ j - m \in 1..(2 + len)
        <4>1. j - m \in 1..(2 + len) /\ m + (j - m) = j
          BY <1>1, <1>5, <1>6, <2>2
        <4>. QED
          BY <1>5, <1>6, <4>1
      <3>2. j - m = 1 \/ j - m = 2 \/ j - m > 2
        BY <1>1, <1>6, <2>2, <3>1
      <3>3. j - m = 1
        BY <1>1, <1>3, <1>8, <3>1, <3>2
      <3>. QED
        BY <1>6, <3>3
    <2>. QED
      BY <1>6, <2>1, <2>2
  <1>9. PackageAt(x, m + 1)
    <2>1. m + 1 \in 1..Len(x) /\ (m + 1) + 1 \in 1..Len(x) /\ (m + 1) + 1 = m + 2
      BY <1>1, <1>6, <1>7
    <2>. QED
      BY <1>7, <1>8, <2>1 DEF PackageAt, Rand!Protocol
  <1>. QED
    BY <1>2, <1>4, <1>5, <1>6, <1>9

(* What the receiver leaves of the words in the stream, when n of those on *)
(* the wire come to those it had: the first word, if that is no Protocol,  *)
(* is gone, or else the whole package is that it is the start of.          *)
LEMMA WordsSplit ==
    ASSUME NEW s \in Seq(Int), NEW w \in Seq(Int), NEW n \in 1..Len(w)
    PROVE  LET words == s \o SubSeq(w, 1, n)
               rest  == SubSeq(w, n + 1, Len(w))
           IN  /\ words \in Seq(Int) /\ rest \in Seq(Int) /\ Len(words) = Len(s) + n
               /\ Len(rest) = Len(w) - n /\ s \o w = words \o rest
  <1>1. PICK f : f = SubSeq(w, 1, n)
    OBVIOUS
  <1>2. PICK r : r = SubSeq(w, n + 1, Len(w))
    OBVIOUS
  <1>3. /\ f \in Seq(Int) /\ Len(f) = n /\ \A j \in 1..n : f[j] = w[j]
    BY <1>1
  <1>4. /\ r \in Seq(Int) /\ Len(r) = Len(w) - n
        /\ \A j \in 1..(Len(w) - n) : r[j] = w[j + n]
    BY <1>2
  <1>5. f \o r = w
    <2>1. SubSeq(w, 1, Len(w)) = w
      BY SubSeqFull
    <2>2. Len(w) \in Nat /\ 1 \in 1..(Len(w) + 1) /\ n \in (1 - 1)..Len(w)
          /\ Len(w) \in n..Len(w)
      BY LenProperties
    <2>. QED
      BY <1>1, <1>2, <2>1, <2>2, ConcatAdjacentSubSeq
  <1>6. (s \o f) \o r = s \o (f \o r)
    <2>1. f \in Seq(Int) /\ r \in Seq(Int)
      BY <1>3, <1>4
    <2>. QED
      BY <2>1, JoinedTwice
  <1>7. s \o f \in Seq(Int) /\ Len(s \o f) = Len(s) + n
    BY <1>3, Joined
  <1>. QED
    BY <1>1, <1>2, <1>4, <1>5, <1>6, <1>7

LEMMA FirstSkipped ==
    ASSUME NEW x \in Seq(Int), NEW y \in Seq(Int), x # <<>>, x[1] # Rand!Protocol
    PROVE  /\ Tail(x) \o y \in Seq(Int)
           /\ Sent(x \o y) <=> Sent(Tail(x) \o y)
           /\ \A k : PackageAt(x \o y, k) => PackageAt(Tail(x) \o y, k - 1)
  <1>1. PICK u : u = x \o y
    OBVIOUS
  <1>2. PICK v : v = Tail(x) \o y
    OBVIOUS
  <1>3. /\ u \in Seq(Int) /\ v \in Seq(Int) /\ Len(u) = Len(v) + 1
        /\ \A j \in 1..Len(v) : v[j] = u[j + 1]
    <2>1. PICK z : z = Tail(x)
      OBVIOUS
    <2>2. z \in Seq(Int) /\ Len(z) = Len(x) - 1 /\ \A j \in 1..Len(z) : z[j] = x[j + 1]
      BY <2>1
    <2>3. v \in Seq(Int) /\ Len(v) = Len(z) + Len(y)
      BY <1>2, <2>1, <2>2, Joined
    <2>4. u \in Seq(Int) /\ Len(u) = Len(x) + Len(y)
      BY <1>1, Joined
    <2>5. /\ \A j \in 1..Len(z) : v[j] = z[j]
          /\ \A j \in 1..Len(y) : v[Len(z) + j] = y[j]
      BY <1>2, <2>1, <2>2, Joined
    <2>6. /\ \A j \in 1..Len(x) : u[j] = x[j]
          /\ \A j \in 1..Len(y) : u[Len(x) + j] = y[j]
      BY <1>1, Joined
    <2>7. ASSUME NEW j \in 1..Len(v)
          PROVE  v[j] = u[j + 1]
      <3>1. CASE j \in 1..Len(z)
        <4>1. j + 1 \in 1..Len(x)
          BY <2>2, <3>1
        <4>. QED
          BY <2>2, <2>5, <2>6, <3>1, <4>1
      <3>2. CASE j \notin 1..Len(z)
        <4>1. PICK e : e = j - Len(z)
          OBVIOUS
        <4>2. e \in 1..Len(y) /\ j = Len(z) + e /\ j + 1 = Len(x) + e
          BY <2>2, <2>3, <3>2, <4>1
        <4>. QED
          BY <2>5, <2>6, <4>2
      <3>. QED
        BY <3>1, <3>2
    <2>. QED
      BY <2>2, <2>3, <2>4, <2>7
  <1>4. u[1] = x[1] /\ u[1] # Rand!Protocol
    BY <1>1, Joined
  <1>5. Sent(u) => Sent(v)
    <2>1. SUFFICES ASSUME NEW k \in 1..Len(u), u[k] = Rand!Protocol
                   PROVE  Sent(v)
      BY DEF Sent
    <2>2. k # 1
      BY <1>4, <2>1
    <2>3. k - 1 \in 1..Len(v) /\ (k - 1) + 1 = k
      BY <1>3, <2>2
    <2>4. v[k - 1] = Rand!Protocol
      BY <1>3, <2>1, <2>3
    <2>. QED
      BY <2>3, <2>4 DEF Sent
  <1>6. Sent(v) => Sent(u)
    <2>1. SUFFICES ASSUME NEW k \in 1..Len(v), v[k] = Rand!Protocol
                   PROVE  Sent(u)
      BY DEF Sent
    <2>2. k + 1 \in 1..Len(u) /\ u[k + 1] = v[k]
      BY <1>3
    <2>. QED
      BY <2>1, <2>2 DEF Sent
  <1>7. ASSUME NEW k, PackageAt(u, k)
        PROVE  PackageAt(v, k - 1)
    <2>1. /\ k \in 1..Len(u) /\ k + 1 \in 1..Len(u) /\ u[k] = Rand!Protocol
          /\ u[k + 1] \in DataLens /\ Len(u) = (k + 1) + u[k + 1]
          /\ \A j \in 1..Len(u) : u[j] = Rand!Protocol => j = k
      BY <1>7 DEF PackageAt
    <2>2. k # 1
      BY <1>4, <2>1
    <2>3. /\ k - 1 \in 1..Len(v) /\ (k - 1) + 1 \in 1..Len(v)
          /\ (k - 1) + 1 = k /\ k \in Nat
      BY <1>3, <2>1, <2>2
    <2>4. v[k - 1] = Rand!Protocol /\ v[k] = u[k + 1]
      BY <1>3, <2>1, <2>3
    <2>5. PICK d \in DataLens : d = u[k + 1]
      BY <2>1
    <2>6. d \in Nat
      BY NetAssumption
    <2>7. Len(v) = k + d
      <3>1. Len(v) \in Nat /\ Len(u) = Len(v) + 1
        BY <1>3, LenProperties
      <3>2. Len(u) = (k + 1) + d
        BY <2>1, <2>5
      <3>. QED
        BY <2>3, <2>6, <3>1, <3>2
    <2>8. \A j \in 1..Len(v) : v[j] = Rand!Protocol => j = k - 1
      <3>1. SUFFICES ASSUME NEW j \in 1..Len(v), v[j] = Rand!Protocol
                     PROVE  j = k - 1
        OBVIOUS
      <3>2. j + 1 \in 1..Len(u) /\ u[j + 1] = Rand!Protocol
        <4>1. u[j + 1] = v[j]
          BY <1>3
        <4>2. Len(v) \in Nat /\ Len(u) = Len(v) + 1
          BY <1>3, LenProperties
        <4>. QED
          BY <3>1, <4>1, <4>2
      <3>3. j + 1 = k
        BY <2>1, <3>2
      <3>. QED
        BY <2>3, <3>3
    <2>. QED
      BY <2>3, <2>4, <2>5, <2>7, <2>8 DEF PackageAt
  <1>. QED
    BY <1>1, <1>2, <1>3, <1>5, <1>6, <1>7

LEMMA PackageTaken ==
    ASSUME NEW x \in Seq(Int), NEW y \in Seq(Int), NEW k,
           Len(x) > 2, x[1] = Rand!Protocol, PackageAt(x \o y, k)
    PROVE  /\ k = 1 /\ x[2] \in DataLens /\ Len(x) + Len(y) = 2 + x[2]
           /\ Rand!Unread(x) = <<>> /\ ~Sent(y)
  <1>1. PICK u : u = x \o y
    OBVIOUS
  <1>2. /\ u \in Seq(Int) /\ Len(u) = Len(x) + Len(y)
        /\ \A j \in 1..Len(x) : u[j] = x[j]
        /\ \A j \in 1..Len(y) : u[Len(x) + j] = y[j]
    BY <1>1, Joined
  <1>3. /\ u[k] = Rand!Protocol /\ u[k + 1] \in DataLens
        /\ Len(u) = (k + 1) + u[k + 1]
        /\ \A j \in 1..Len(u) : u[j] = Rand!Protocol => j = k
    BY <1>1 DEF PackageAt
  <1>4. k = 1
    <2>1. Len(x) \in Nat /\ Len(y) \in Nat
      OBVIOUS
    <2>2. 1 \in 1..Len(x) /\ 1 \in 1..Len(u)
      BY <1>2, <2>1
    <2>3. u[1] = x[1]
      BY <1>2, <2>2
    <2>. QED
      BY <1>3, <2>2, <2>3
  <1>5. u[2] = x[2]
    BY <1>2
  <1>6. x[2] \in DataLens /\ Len(x) + Len(y) = 2 + x[2]
    BY <1>2, <1>3, <1>4, <1>5
  <1>7. PICK d \in Nat : d = x[2]
    BY <1>6, NetAssumption
  <1>8. Rand!Unread(x) = <<>>
    <2>1. 3 + d > Len(x)
      BY <1>6, <1>7
    <2>2. SubSeq(x, 3 + d, Len(x)) = <<>>
      BY <1>7, <2>1
    <2>. QED
      BY <1>7, <2>2 DEF Rand!Unread
  <1>9. ~Sent(y)
    <2>1. SUFFICES ASSUME NEW j \in 1..Len(y), y[j] = Rand!Protocol
                   PROVE  FALSE
      BY DEF Sent
    <2>2. Len(x) + j \in 1..Len(u) /\ Len(x) + j # 1
      <3>1. PICK a \in Nat, c \in Nat : a = Len(x) /\ c = Len(y)
        BY LenProperties
      <3>2. a > 0 /\ Len(u) = a + c
        BY <1>2, <3>1
      <3>. QED
        BY <3>1, <3>2
    <2>. QED
      BY <1>2, <1>3, <1>4, <2>1, <2>2
  <1>. QED
    BY <1>4, <1>6, <1>8, <1>9

RandTypes ==
    /\ at \in {"init", "start", "wait", "timers", "events", "check", "left", "done", "killed"}
    /\ status \in {"CONNECTING", "CONNECTED", "DISCONNECTING", "DISCONNECTED"}
    /\ remainSize \in Int /\ got \in Int /\ timers \in Nat /\ closes \in Nat
    /\ acks \in Seq(DataLens) /\ wire \in Seq(Int) /\ input \in Seq(Int)
    /\ at \notin {"init", "start"} => dataLen \in DataLens

(* onClose comes with the end of the connection. *)
ClosedOnce ==
    /\ (status = "CONNECTING") <=> (at \in {"init", "start"})
    /\ status \in {"CONNECTING", "CONNECTED"} => closes = 0
    /\ status \in {"DISCONNECTING", "DISCONNECTED"} => closes = 1
    /\ status = "DISCONNECTING" => peer # "up"
    /\ at = "done" => status \in {"DISCONNECTING", "DISCONNECTED"}

(* A package, its acknowledgement, or the timer for the next: one at most. *)
OneTurn ==
    /\ Len(acks) + timers <= 1
    /\ Sent(input \o wire) => acks = <<>> /\ timers = 0
    /\ at \in {"init", "start"} => acks = <<>> /\ timers = 0 /\ input = <<>> /\ wire = <<>>
    /\ peer = "up" =>
         ~Sent(input \o wire) \/ \E k \in 1..Len(input \o wire) : PackageAt(input \o wire, k)

(* While the peer is there an event means an acknowledgement. *)
Woken ==
    /\ at = "events" => cnt = 1
    /\ peer = "up" =>
         /\ rst = "no"
         /\ ready => acks # <<>>
         /\ cnt = 1 /\ at \in {"timers", "events"} => acks # <<>> /\ ~ready

(* As long as packages arrive whole. *)
Intact ==
    ~split =>
      /\ input = <<>> /\ (wire = <<>> \/ PackageAt(wire, 1))
      /\ (Total - remainSize) + (IF acks = <<>> THEN 0 ELSE acks[1]) <= got
      /\ peer = "up" /\ loopFlag /\ at \in {"wait", "timers", "events", "check"}
           => wire # <<>> \/ acks # <<>> \/ timers > 0

RandInv == RandTypes /\ ClosedOnce /\ OneTurn /\ Woken /\ Intact

(* A step of the sender that leaves what is on its way alone. *)
LEMMA StreamLeft ==
    ASSUME RandInv, (at' \in {"init", "start"}) <=> (at \in {"init", "start"}),
           UNCHANGED <<timers, dataLen, remainSize, wire, input, got, peer, acks, split>>
    PROVE  /\ OneTurn' /\ (at' \notin {"init", "start"} => dataLen' \in DataLens)
           /\ remainSize' \in Int /\ got' \in Int /\ timers' \in Nat
           /\ acks' \in Seq(DataLens) /\ wire' \in Seq(Int) /\ input' \in Seq(Int)
  <1>1. RandTypes /\ OneTurn
    BY DEF RandInv
  <1>2. PICK w : w = input \o wire
    OBVIOUS
  <1>3. input' \o wire' = w /\ acks' = acks /\ timers' = timers /\ peer' = peer
    BY <1>2
  <1>4. OneTurn'
    <2>1. /\ Len(acks) + timers <= 1
          /\ Sent(w) => acks = <<>> /\ timers = 0
          /\ at \in {"init", "start"} => acks = <<>> /\ timers = 0 /\ input = <<>> /\ wire = <<>>
          /\ peer = "up" => ~Sent(w) \/ \E k \in 1..Len(w) : PackageAt(w, k)
      BY <1>1, <1>2 DEF OneTurn
    <2>. QED
      BY <1>3, <2>1 DEF OneTurn
  <1>. QED
    BY <1>1, <1>4 DEF RandTypes

LEMMA Going ==
    ASSUME RandInv,
           \/ Rand!init \/ Rand!epoll_wait \/ Rand!HandledTimers \/ Rand!handleClose
           \/ Rand!loop \/ Rand!destroy \/ Rand!SIGINT_HANDLER \/ UNCHANGED randVars
    PROVE  RandInv'
  <1>1. RandTypes /\ ClosedOnce /\ OneTurn /\ Woken /\ Intact
    BY DEF RandInv
  <1>2. UNCHANGED <<timers, dataLen, remainSize, wire, input, got, peer, acks, split>>
    BY DEF Rand!init, Rand!epoll_wait, Rand!HandledTimers, Rand!handleClose, Rand!loop,
           Rand!destroy, Rand!SIGINT_HANDLER, Rand!sender, Rand!receiver, randVars
  <1>3. \/ at = "init" /\ at' = "start" /\ UNCHANGED <<cnt, loopFlag, status, closes, ready, rst>>
        \/ /\ at = "wait" /\ at' = "timers" /\ ~ready' /\ (cnt' = 1 => ready)
           /\ UNCHANGED <<loopFlag, status, closes, rst>>
        \/ /\ at = "timers" /\ at' \in {"events", "check"} /\ (at' = "events" => cnt = 1)
           /\ (loopFlag' => loopFlag) /\ UNCHANGED <<cnt, status, closes, ready, rst>>
        \/ /\ at = "events" /\ at' = "check" /\ acks = <<>> /\ (loopFlag' => loopFlag)
           /\ UNCHANGED <<cnt, ready>>
           /\ closes' = IF status = "CONNECTED" THEN closes + 1 ELSE closes
           /\ status' = "DISCONNECTING"
        \/ /\ at = "check" /\ at' \in {"wait", "left"} /\ (at' = "wait" => loopFlag)
           /\ cnt' = 0 /\ UNCHANGED <<loopFlag, status, closes, ready, rst>>
        \/ /\ at = "left" /\ at' = "done" /\ UNCHANGED <<cnt, loopFlag, ready, rst>>
           /\ \/ status = "CONNECTED" /\ closes' = closes + 1 /\ status' = "DISCONNECTED"
              \/ status # "CONNECTED" /\ UNCHANGED <<closes, status>>
        \/ /\ at \notin {"init", "done", "killed"} /\ ~loopFlag'
           /\ \/ at = "wait" /\ at' = "timers" /\ cnt' = -1
              \/ UNCHANGED <<at, cnt>>
           /\ UNCHANGED <<status, closes, ready, rst>>
        \/ UNCHANGED <<at, cnt, loopFlag, status, closes, ready, rst>>
    <2>1. CASE Rand!init
      BY <2>1 DEF Rand!init
    <2>2. CASE Rand!epoll_wait
      BY <2>2 DEF Rand!epoll_wait, Rand!sender
    <2>3. CASE Rand!HandledTimers
      BY <2>3 DEF Rand!HandledTimers
    <2>4. CASE Rand!handleClose
      BY <2>4 DEF Rand!handleClose, Rand!Readable
    <2>5. CASE Rand!loop
      BY <2>5 DEF Rand!loop, Rand!sender
    <2>6. CASE Rand!destroy
      BY <2>6 DEF Rand!destroy
    <2>7. CASE Rand!SIGINT_HANDLER
      BY <2>7 DEF Rand!SIGINT_HANDLER
    <2>8. CASE UNCHANGED randVars
      BY <2>8 DEF randVars
    <2>. QED
      BY <2>1, <2>2, <2>3, <2>4, <2>5, <2>6, <2>7, <2>8
  <1>4. at = "events" => acks # <<>> \/ peer # "up"
    BY <1>1 DEF Woken
  <1>5. ((at' \in {"init", "start"}) <=> (at \in {"init", "start"})) /\ at' \in
          {"init", "start", "wait", "timers", "events", "check", "left", "done", "killed"}
    BY <1>1, <1>3 DEF RandTypes
  <1>6. ClosedOnce' /\ status' \in {"CONNECTING", "CONNECTED", "DISCONNECTING", "DISCONNECTED"}
        /\ closes' \in Nat
    BY <1>1, <1>2, <1>3, <1>4 DEF RandTypes, ClosedOnce
  <1>7. Woken'
    BY <1>1, <1>2, <1>3 DEF Woken
  <1>8. Intact'
    <2>1. at' \in {"wait", "timers", "events", "check"} /\ loopFlag' =>
            at \in {"wait", "timers", "events", "check"} /\ loopFlag
      BY <1>1, <1>3 DEF RandTypes
    <2>. QED
      BY <1>1, <1>2, <2>1 DEF Intact
  <1>9. RandTypes' /\ OneTurn'
    BY <1>2, <1>5, <1>6, StreamLeft DEF RandTypes
  <1>. QED
    BY <1>6, <1>7, <1>8, <1>9 DEF RandInv

LEMMA Quitting ==
    ASSUME RandInv, Rand!PeerQuits
    PROVE  RandInv'
  <1>1. RandTypes /\ ClosedOnce /\ OneTurn /\ Woken /\ Intact
    BY DEF RandInv
  <1>2. /\ peer = "up" /\ at # "init" /\ peer' = "gone"
        /\ UNCHANGED <<at, cnt, loopFlag, status, remainSize, dataLen, timers, closes,
                       wire, input, got, acks, split>>
    BY DEF Rand!PeerQuits, Rand!sender
  <1>3. RandTypes'
    BY <1>1, <1>2 DEF RandTypes
  <1>4. ClosedOnce'
    BY <1>1, <1>2 DEF ClosedOnce
  <1>5. OneTurn'
    <2>1. PICK w : w = input \o wire
      OBVIOUS
    <2>2. /\ Len(acks) + timers <= 1
          /\ Sent(w) => acks = <<>> /\ timers = 0
          /\ at \in {"init", "start"} => acks = <<>> /\ timers = 0 /\ input = <<>> /\ wire = <<>>
      BY <1>1, <2>1 DEF OneTurn
    <2>3. input' \o wire' = w
      BY <1>2, <2>1
    <2>. QED
      BY <1>2, <2>2, <2>3 DEF OneTurn
  <1>6. Woken'
    BY <1>1, <1>2 DEF Woken
  <1>7. Intact'
    BY <1>1, <1>2 DEF Intact
  <1>. QED
    BY <1>3, <1>4, <1>5, <1>6, <1>7 DEF RandInv

LEMMA Acknowledged ==
    ASSUME RandInv, Rand!onMsgArrived
    PROVE  RandInv'
  <1>1. RandTypes /\ ClosedOnce /\ OneTurn /\ Woken /\ Intact
    BY DEF RandInv
  <1>2. PICK a : a = acks[1]
    OBVIOUS
  <1>3. /\ at = "events" /\ at' = "check" /\ acks # <<>> /\ acks' = <<>>
        /\ UNCHANGED <<cnt, status, closes, wire, input, got, peer, split, ready>>
        /\ rst' = Rand!Told
        /\ \/ /\ remainSize - a <= 0 /\ remainSize' = 0 /\ ~loopFlag'
              /\ UNCHANGED <<dataLen, timers>>
           \/ /\ remainSize' = remainSize - a /\ dataLen' \in DataLens
              /\ timers' = timers + 1 /\ UNCHANGED loopFlag
    <2>1. acks # <<>> => Head(acks) = acks[1]
      BY <1>1 DEF RandTypes
    <2>. QED
      BY <1>2, <2>1 DEF Rand!onMsgArrived, Rand!Readable, Rand!Rest, Rand!receiver
  <1>4. a \in Nat /\ a \in DataLens /\ Len(acks) \in Nat /\ Len(acks) > 0 /\ timers \in Nat
    <2>1. acks \in Seq(DataLens) /\ acks # <<>> /\ timers \in Nat
      BY <1>1, <1>3 DEF RandTypes
    <2>2. Len(acks) \in Nat /\ Len(acks) > 0
      BY <2>1
    <2>3. a \in DataLens
      BY <1>2, <2>1, <2>2
    <2>. QED
      BY <2>1, <2>2, <2>3, NetAssumption
  <1>5. timers = 0 /\ ~Sent(input \o wire)
    BY <1>1, <1>3, <1>4 DEF OneTurn
  <1>6. RandTypes'
    <2>1. remainSize' \in Int /\ timers' \in Nat /\ dataLen' \in DataLens
      BY <1>1, <1>3, <1>4 DEF RandTypes
    <2>2. acks' \in Seq(DataLens)
      BY <1>3
    <2>. QED
      BY <1>1, <1>3, <2>1, <2>2 DEF RandTypes
  <1>7. ClosedOnce'
    BY <1>1, <1>3 DEF ClosedOnce
  <1>8. OneTurn'
    <2>1. timers' = 0 \/ timers' = 1
      BY <1>3, <1>5
    <2>2. Len(acks') = 0
      BY <1>3
    <2>3. Len(acks') + timers' <= 1
      BY <2>1, <2>2
    <2>4. PICK w : w = input \o wire
      OBVIOUS
    <2>5. input' \o wire' = w /\ ~Sent(w)
      BY <1>3, <1>5, <2>4
    <2>. QED
      BY <1>3, <2>3, <2>5 DEF OneTurn
  <1>9. Woken'
    <2>1. at' # "events" /\ at' # "timers"
      BY <1>3
    <2>2. peer = "up" => rst' = "no"
      BY <1>1, <1>3 DEF Woken, Rand!Told
    <2>3. peer = "up" => ~ready'
      BY <1>1, <1>3 DEF Woken
    <2>. QED
      BY <1>3, <2>1, <2>2, <2>3 DEF Woken
  <1>10. Intact'
    <2>1. SUFFICES ASSUME ~split
                   PROVE  /\ input = <<>>
                          /\ wire = <<>> \/ PackageAt(wire, 1)
                          /\ Total - remainSize' <= got
                          /\ loopFlag' => timers' > 0
      <3>1. remainSize' \in Int
        BY <1>6 DEF RandTypes
      <3>2. (Total - remainSize') + 0 = Total - remainSize'
        BY <3>1, NetAssumption
      <3>. QED
        BY <1>3, <2>1, <3>2 DEF Intact
    <2>2. /\ input = <<>> /\ (wire = <<>> \/ PackageAt(wire, 1))
          /\ (Total - remainSize) + a <= got
      BY <1>1, <1>2, <1>3, <2>1 DEF Intact
    <2>3. remainSize \in Int /\ got \in Int
      BY <1>1 DEF RandTypes
    <2>4. Total - remainSize' <= got
      BY <1>3, <1>4, <2>2, <2>3, NetAssumption
    <2>5. loopFlag' => timers' > 0
      BY <1>3, <1>4
    <2>. QED
      BY <2>2, <2>4, <2>5
  <1>. QED
    BY <1>6, <1>7, <1>8, <1>9, <1>10 DEF RandInv

LEMMA Sending ==
    ASSUME RandInv, Rand!start \/ Rand!runAfter
    PROVE  RandInv'
  <1>1. RandTypes /\ ClosedOnce /\ OneTurn /\ Woken /\ Intact
    BY DEF RandInv
  <1>2. PICK pk : pk = Rand!Package(dataLen')
    OBVIOUS
  <1>3. /\ UNCHANGED <<cnt, remainSize, closes, input, got, peer, acks, split>>
        /\ \/ /\ at = "start" /\ dataLen' \in DataLens /\ status' = "CONNECTED"
              /\ UNCHANGED timers /\ at' \in {"check", "killed"}
           \/ /\ at = "timers" /\ timers > 0 /\ timers' = timers - 1
              /\ UNCHANGED <<dataLen, status, loopFlag>> /\ at' \in {"timers", "killed"}
        /\ \/ at' = "killed" /\ UNCHANGED <<wire, ready, rst>>
           \/ peer = "gone" /\ wire' = wire
           \/ peer # "gone" /\ wire' = wire \o pk /\ (ready' <=> ready) /\ rst' = rst
    <2>1. CASE Rand!start
      BY <1>2, <2>1 DEF Rand!start, Rand!send, Rand!receiver
    <2>2. CASE Rand!runAfter
      BY <1>2, <2>2 DEF Rand!runAfter, Rand!send, Rand!receiver
    <2>. QED
      BY <2>1, <2>2
  <1>4. wire \in Seq(Int) /\ input \in Seq(Int) /\ acks \in Seq(DataLens) /\ timers \in Nat
    BY <1>1 DEF RandTypes
  <1>5. PICK w : w = input \o wire
    OBVIOUS
  <1>6. w \in Seq(Int)
    BY <1>4, <1>5, Joined
  <1>7. acks = <<>> /\ timers' = 0 /\ ~Sent(w)
    <2>1. CASE at = "start"
      <3>1. acks = <<>> /\ timers = 0 /\ input = <<>> /\ wire = <<>>
        BY <1>1, <2>1 DEF OneTurn
      <3>2. Len(w) = 0
        BY <1>5, <3>1
      <3>3. ~Sent(w)
        BY <3>2 DEF Sent
      <3>. QED
        BY <1>3, <2>1, <3>1, <3>3
    <2>2. CASE at # "start"
      <3>1. timers > 0 /\ timers' = timers - 1
        BY <1>3, <2>2
      <3>2. Len(acks) + timers <= 1 /\ (Sent(w) => timers = 0)
        BY <1>1, <1>5 DEF OneTurn
      <3>3. Len(acks) \in Nat
        BY <1>4
      <3>4. Len(acks) = 0 /\ timers = 1
        BY <1>4, <3>1, <3>2, <3>3
      <3>. QED
        BY <1>4, <3>1, <3>2, <3>4
    <2>. QED
      BY <2>1, <2>2
  <1>8. dataLen' \in DataLens
    BY <1>1, <1>3 DEF RandTypes
  <1>9. /\ pk \in Seq(Int) /\ w \o pk \in Seq(Int) /\ PackageAt(w \o pk, Len(w) + 1)
        /\ w \o pk = input \o (wire \o pk) /\ wire \o pk \in Seq(Int)
    <2>1. pk \in Seq(Int)
      BY <1>2, <1>8, PackageIsOne
    <2>2. w \o pk \in Seq(Int) /\ PackageAt(w \o pk, Len(w) + 1)
      BY <1>2, <1>6, <1>7, <1>8, PackageWritten
    <2>3. w \o pk = input \o (wire \o pk)
      BY <1>4, <1>5, <2>1, JoinedTwice
    <2>4. wire \o pk \in Seq(Int)
      BY <1>4, <2>1, Joined
    <2>. QED
      BY <2>1, <2>2, <2>3, <2>4
  <1>10. wire' = wire \/ wire' = wire \o pk
    BY <1>3
  <1>11. RandTypes'
    <2>1. wire' \in Seq(Int)
      BY <1>4, <1>9, <1>10
    <2>. QED
      BY <1>1, <1>3, <1>7, <1>8, <2>1 DEF RandTypes
  <1>12. ClosedOnce'
    BY <1>1, <1>3 DEF ClosedOnce
  <1>13. OneTurn'
    <2>1. Len(acks') + timers' <= 1 /\ acks' = <<>> /\ timers' = 0
      <3>1. acks' = <<>>
        BY <1>3, <1>7
      <3>2. Len(acks') = 0
        BY <3>1
      <3>. QED
        BY <1>7, <3>1, <3>2
    <2>2. at' \notin {"init", "start"}
      BY <1>3
    <2>3. ~Sent(input' \o wire') \/ \E k \in 1..Len(input' \o wire') : PackageAt(input' \o wire', k)
      <3>1. CASE wire' = wire
        BY <1>3, <1>5, <1>7, <3>1
      <3>2. CASE wire' = wire \o pk
        <4>1. input' \o wire' = w \o pk
          BY <1>3, <1>9, <3>2
        <4>2. Len(w) + 1 \in 1..Len(w \o pk)
          BY <1>9 DEF PackageAt
        <4>. QED
          BY <1>9, <4>1, <4>2
      <3>. QED
        BY <1>10, <3>1, <3>2
    <2>. QED
      BY <2>1, <2>2, <2>3 DEF OneTurn
  <1>14. Woken'
    <2>1. at' # "events"
      BY <1>3
    <2>2. peer = "up" => rst' = "no" /\ (ready' <=> ready)
      BY <1>1, <1>3 DEF Woken
    <2>3. at' = "timers" => at = "timers"
      BY <1>3
    <2>. QED
      BY <1>1, <1>3, <2>1, <2>2, <2>3 DEF Woken
  <1>15. Intact'
    <2>1. SUFFICES ASSUME ~split
                   PROVE  /\ input = <<>>
                          /\ wire' = <<>> \/ PackageAt(wire', 1)
                          /\ (Total - remainSize) + 0 <= got
                          /\ peer = "up" /\ at' # "killed" => wire' # <<>>
      BY <1>3, <1>7, <2>1 DEF Intact
    <2>2. /\ input = <<>> /\ (wire = <<>> \/ PackageAt(wire, 1))
          /\ (Total - remainSize) + 0 <= got
      BY <1>1, <1>7, <2>1 DEF Intact
    <2>3. w = wire
      BY <1>4, <1>5, <2>2, ConcatEmptySeq
    <2>4. wire = <<>> /\ w \o pk = pk /\ wire \o pk = pk
      <3>1. ~PackageAt(wire, 1)
        BY <1>7, <2>3 DEF PackageAt, Sent
      <3>2. wire = <<>>
        BY <2>2, <3>1
      <3>3. <<>> \o pk = pk
        BY <1>9, ConcatEmptySeq
      <3>. QED
        BY <2>3, <3>2, <3>3
    <2>5. PackageAt(pk, 1)
      <3>1. Len(w) + 1 = 1
        BY <2>3, <2>4
      <3>. QED
        BY <1>9, <2>4, <3>1
    <2>6. wire' = wire \/ wire' = pk
      BY <1>10, <2>4
    <2>7. pk # <<>>
      BY <2>5 DEF PackageAt
    <2>8. peer = "up" /\ at' # "killed" => wire' # <<>>
      BY <1>3, <2>4, <2>7
    <2>. QED
      BY <2>2, <2>5, <2>6, <2>8
  <1>. QED
    BY <1>11, <1>12, <1>13, <1>14, <1>15 DEF RandInv

LEMMA Receiving ==
    ASSUME RandInv, NEW n \in 1..Len(wire), Rand!Arrives(n)
    PROVE  RandInv'
  <1>1. RandTypes /\ ClosedOnce /\ OneTurn /\ Woken /\ Intact
    BY DEF RandInv
  <1>2. wire \in Seq(Int) /\ input \in Seq(Int) /\ acks \in Seq(DataLens) /\ timers \in Nat
    BY <1>1 DEF RandTypes
  <1>3. PICK x : x = input \o SubSeq(wire, 1, n)
    OBVIOUS
  <1>4. PICK y : y = SubSeq(wire, n + 1, Len(wire))
    OBVIOUS
  <1>5. /\ x \in Seq(Int) /\ y \in Seq(Int) /\ Len(x) = Len(input) + n
        /\ Len(y) = Len(wire) - n /\ input \o wire = x \o y
    BY <1>2, <1>3, <1>4, WordsSplit
  <1>6. /\ peer = "up" /\ wire' = y /\ Rand!Received(x) /\ (split' <=> (split \/ n < Len(wire)))
        /\ UNCHANGED <<at, cnt, loopFlag, status, remainSize, dataLen, timers, closes>>
    BY <1>3, <1>4 DEF Rand!Arrives, Rand!sender
  <1>7. Len(x) \in Nat /\ Len(x) > 0 /\ x # <<>> /\ Len(y) \in Nat /\ Len(wire) \in Nat
    <2>1. Len(input) \in Nat /\ Len(wire) \in Nat /\ n \in Nat /\ n > 0
      BY <1>2
    <2>2. Len(x) > 0
      BY <1>5, <2>1
    <2>. QED
      BY <1>5, <2>1, <2>2
  <1>8. PICK d : d = x[2]
    OBVIOUS
  <1>9. \/ /\ x[1] # Rand!Protocol /\ input' = Tail(x)
           /\ UNCHANGED <<got, peer, acks, ready, rst>>
        \/ /\ x[1] = Rand!Protocol /\ Len(x) <= 2 /\ peer' = "gone"
           /\ input' = <<>> /\ UNCHANGED <<got, acks>>
        \/ /\ x[1] = Rand!Protocol /\ Len(x) > 2 /\ input' = Rand!Unread(x)
           /\ got' = got + Rand!Least(d, Len(x) - 2)
           /\ acks' = Append(acks, d) /\ ready' /\ UNCHANGED <<peer, rst>>
    <2>1. CASE /\ x[1] # Rand!Protocol /\ input' = Tail(x)
               /\ UNCHANGED <<got, peer, acks, ready, rst>>
      BY <2>1
    <2>2. CASE /\ x[1] = Rand!Protocol /\ Len(x) <= 2
               /\ peer' = "gone" /\ input' = <<>> /\ ready' = TRUE
               /\ rst' \in {rst, "pending"} /\ UNCHANGED <<got, acks>>
      BY <2>2
    <2>3. CASE /\ x[1] = Rand!Protocol /\ Len(x) > 2 /\ input' = Rand!Unread(x)
               /\ got' = got + Rand!Least(x[2], Len(x) - 2)
               /\ acks' = Append(acks, x[2]) /\ ready' = TRUE /\ UNCHANGED <<peer, rst>>
      BY <1>8, <2>3
    <2>. QED
      BY <1>6, <2>1, <2>2, <2>3, Zenon DEF Rand!Received
  <1>10. at \notin {"init", "start"}
    <2>1. wire # <<>>
      BY <1>2
    <2>. QED
      BY <1>1, <2>1 DEF OneTurn
  <1>11. /\ Len(acks) + timers <= 1
         /\ Sent(x \o y) => acks = <<>> /\ timers = 0
         /\ ~Sent(x \o y) \/ \E k \in 1..Len(x \o y) : PackageAt(x \o y, k)
    BY <1>1, <1>5, <1>6 DEF OneTurn
  <1>12. ClosedOnce'
    BY <1>1, <1>6, <1>9 DEF ClosedOnce
  <1>13. ~split' => ~split /\ n = Len(wire) /\ Len(y) = 0 /\ y = <<>> /\ x = wire /\ PackageAt(x, 1)
    <2>1. SUFFICES ASSUME ~split'
                   PROVE  ~split /\ n = Len(wire) /\ Len(y) = 0 /\ y = <<>> /\ x = wire
                          /\ PackageAt(x, 1)
      OBVIOUS
    <2>2. ~split /\ n = Len(wire)
      BY <1>6, <1>7, <2>1
    <2>3. Len(y) = 0 /\ y = <<>>
      BY <1>5, <1>7, <2>2
    <2>4. input = <<>> /\ (wire = <<>> \/ PackageAt(wire, 1)) /\ wire # <<>>
      BY <1>1, <1>2, <2>2 DEF Intact
    <2>5. input \o wire = wire
      BY <1>2, <2>4, ConcatEmptySeq
    <2>6. x \o y = x
      BY <1>5, <2>3, ConcatEmptySeq
    <2>. QED
      BY <1>5, <2>2, <2>3, <2>4, <2>5, <2>6
  <1>14. CASE x[1] # Rand!Protocol
    <2>1. input' = Tail(x) /\ UNCHANGED <<got, peer, acks, ready, rst>>
      BY <1>9, <1>14
    <2>2. /\ Tail(x) \o y \in Seq(Int) /\ (Sent(x \o y) <=> Sent(Tail(x) \o y))
          /\ \A k : PackageAt(x \o y, k) => PackageAt(Tail(x) \o y, k - 1)
      BY <1>5, <1>7, <1>14, FirstSkipped
    <2>3. Tail(x) \in Seq(Int)
      BY <1>5, <1>7
    <2>4. RandTypes'
      BY <1>1, <1>5, <1>6, <2>1, <2>3 DEF RandTypes
    <2>5. PICK w : w = Tail(x) \o y
      OBVIOUS
    <2>6. input' \o wire' = w
      BY <1>6, <2>1, <2>5
    <2>7. ~Sent(w) \/ \E k \in 1..Len(w) : PackageAt(w, k)
      <3>1. SUFFICES ASSUME Sent(w)
                     PROVE  \E k \in 1..Len(w) : PackageAt(w, k)
        OBVIOUS
      <3>2. PICK k \in 1..Len(x \o y) : PackageAt(x \o y, k)
        BY <1>11, <2>2, <2>5, <3>1
      <3>3. PackageAt(w, k - 1)
        BY <2>2, <2>5, <3>2
      <3>4. k - 1 \in 1..Len(w)
        BY <3>3 DEF PackageAt
      <3>. QED
        BY <3>3, <3>4
    <2>8. Sent(w) => acks = <<>> /\ timers = 0
      BY <1>11, <2>2, <2>5
    <2>9. OneTurn'
      BY <1>6, <1>10, <1>11, <2>1, <2>6, <2>7, <2>8 DEF OneTurn
    <2>10. Woken'
      BY <1>1, <1>6, <2>1 DEF Woken
    <2>11. split'
      BY <1>13, <1>14 DEF PackageAt
    <2>12. Intact'
      BY <2>11 DEF Intact
    <2>. QED
      BY <1>12, <2>4, <2>9, <2>10, <2>12 DEF RandInv
  <1>15. CASE x[1] = Rand!Protocol /\ Len(x) <= 2
    <2>1. peer' = "gone" /\ input' = <<>> /\ UNCHANGED <<got, acks>>
      BY <1>9, <1>15
    <2>2. RandTypes'
      BY <1>1, <1>5, <1>6, <2>1 DEF RandTypes
    <2>3. Sent(x \o y)
      <3>1. 1 \in 1..Len(x)
        BY <1>7
      <3>2. (x \o y)[1] = x[1] /\ Len(x \o y) = Len(x) + Len(y)
        BY <1>5, <3>1, Joined
      <3>3. 1 \in 1..Len(x \o y)
        BY <1>7, <3>2
      <3>. QED
        BY <1>15, <3>2, <3>3 DEF Sent
    <2>4. acks = <<>> /\ timers = 0
      BY <1>11, <2>3
    <2>5. OneTurn'
      BY <1>6, <1>10, <1>11, <2>1, <2>4 DEF OneTurn
    <2>6. Woken'
      BY <1>1, <1>6, <2>1 DEF Woken
    <2>7. split'
      <3>1. SUFFICES ASSUME ~split'
                     PROVE  FALSE
        OBVIOUS
      <3>2. PackageAt(x, 1)
        BY <1>13, <3>1
      <3>3. x[2] \in DataLens /\ Len(x) = (1 + 1) + x[2]
        BY <3>2 DEF PackageAt
      <3>4. PICK e \in Nat \ {0} : e = x[2]
        BY <3>3, NetAssumption
      <3>5. Len(x) = 2 + e
        BY <3>3, <3>4
      <3>. QED
        BY <1>15, <3>5
    <2>8. Intact'
      BY <2>7 DEF Intact
    <2>. QED
      BY <1>12, <2>2, <2>5, <2>6, <2>8 DEF RandInv
  <1>16. CASE x[1] = Rand!Protocol /\ Len(x) > 2
    <2>1. /\ input' = Rand!Unread(x) /\ got' = got + Rand!Least(d, Len(x) - 2)
          /\ acks' = Append(acks, d) /\ ready' /\ UNCHANGED <<peer, rst>>
      BY <1>7, <1>9, <1>16
    <2>2. Sent(x \o y)
      <3>1. 1 \in 1..Len(x)
        BY <1>7
      <3>2. (x \o y)[1] = x[1] /\ Len(x \o y) = Len(x) + Len(y)
        BY <1>5, <3>1, Joined
      <3>3. 1 \in 1..Len(x \o y)
        BY <1>7, <3>2
      <3>. QED
        BY <1>16, <3>2, <3>3 DEF Sent
    <2>3. acks = <<>> /\ timers = 0
      BY <1>11, <2>2
    <2>4. PICK k \in 1..Len(x \o y) : PackageAt(x \o y, k)
      BY <1>11, <2>2
    <2>5. /\ d \in DataLens /\ Len(x) + Len(y) = 2 + d /\ Rand!Unread(x) = <<>> /\ ~Sent(y)
      BY <1>5, <1>8, <1>16, <2>4, PackageTaken
    <2>6. d \in Nat \ {0}
      BY <2>5, NetAssumption
    <2>7. acks' = <<d>> /\ Len(acks') = 1 /\ acks'[1] = d /\ acks' \in Seq(DataLens)
      BY <2>1, <2>3, <2>5
    <2>8. input' = <<>> /\ input' \o wire' = y
      <3>1. <<>> \o y = y
        BY <1>5, ConcatEmptySeq
      <3>. QED
        BY <1>6, <2>1, <2>5, <3>1
    <2>9. Rand!Least(d, Len(x) - 2) \in Int /\ (Len(y) = 0 => Rand!Least(d, Len(x) - 2) = d)
      BY <1>7, <2>5, <2>6 DEF Rand!Least
    <2>10. PICK g \in Int : g = Rand!Least(d, Len(x) - 2)
      BY <2>9
    <2>11. got \in Int /\ remainSize \in Int /\ got' = got + g
      BY <1>1, <2>1, <2>10 DEF RandTypes
    <2>12. RandTypes'
      <3>1. got' \in Int /\ input' \in Seq(Int) /\ wire' \in Seq(Int)
        BY <1>5, <1>6, <2>8, <2>11
      <3>. QED
        BY <1>1, <1>6, <2>1, <2>7, <3>1 DEF RandTypes
    <2>13. OneTurn'
      <3>1. Len(acks') + timers' <= 1
        BY <1>6, <2>3, <2>7
      <3>. QED
        BY <1>6, <1>10, <2>1, <2>5, <2>8, <3>1 DEF OneTurn
    <2>14. Woken'
      <3>1. acks' # <<>>
        BY <2>7
      <3>2. at = "events" => cnt = 1
        BY <1>1 DEF Woken
      <3>3. rst = "no" /\ ~(cnt = 1 /\ at \in {"timers", "events"})
        BY <1>1, <1>6, <2>3 DEF Woken
      <3>. QED
        BY <1>6, <2>1, <3>1, <3>2, <3>3 DEF Woken
    <2>15. Intact'
      <3>1. SUFFICES ASSUME ~split'
                     PROVE  /\ input' = <<>> /\ wire' = <<>> /\ acks' # <<>>
                            /\ (Total - remainSize') + acks'[1] <= got'
        BY DEF Intact
      <3>2. ~split /\ Len(y) = 0 /\ y = <<>>
        BY <1>13, <3>1
      <3>3. (Total - remainSize) + 0 <= got
        BY <1>1, <2>3, <3>2 DEF Intact
      <3>4. got' = got + d
        BY <2>9, <2>10, <2>11, <3>2
      <3>5. (Total - remainSize) + d <= got + d
        BY <2>6, <2>11, <3>3, NetAssumption
      <3>6. (Total - remainSize') + acks'[1] <= got'
        BY <1>6, <2>7, <3>4, <3>5
      <3>7. acks' # <<>>
        BY <2>7
      <3>. QED
        BY <1>6, <2>1, <2>8, <3>2, <3>6, <3>7
    <2>. QED
      BY <1>12, <2>12, <2>13, <2>14, <2>15 DEF RandInv
  <1>. QED
    BY <1>7, <1>14, <1>15, <1>16

LEMMA RandKept == RandInv /\ [Next]_vars => RandInv'
  <1>1. SUFFICES ASSUME RandInv, Rand!Next \/ UNCHANGED randVars
                 PROVE  RandInv'
    BY RandStep
  <1>2. CASE \/ Rand!init \/ Rand!epoll_wait \/ Rand!HandledTimers \/ Rand!handleClose
             \/ Rand!loop \/ Rand!destroy \/ Rand!SIGINT_HANDLER \/ UNCHANGED randVars
    BY <1>1, <1>2, Going
  <1>3. CASE Rand!start \/ Rand!runAfter
    BY <1>1, <1>3, Sending
  <1>4. CASE Rand!onMsgArrived
    BY <1>1, <1>4, Acknowledged
  <1>5. CASE Rand!Receiver
    BY <1>1, <1>5, Receiving DEF Rand!Receiver
  <1>6. CASE Rand!PeerQuits
    BY <1>1, <1>6, Quitting
  <1>. QED
    BY <1>1, <1>2, <1>3, <1>4, <1>5, <1>6 DEF Rand!Next, Rand!Sender

LEMMA RandAccounted == RandInv => TransferAccounted
  <1>1. SUFFICES ASSUME RandInv
                 PROVE  Rand!Accounted
    BY DEF TransferAccounted
  <1>2. RandTypes /\ ClosedOnce /\ OneTurn /\ Woken /\ Intact
    BY <1>1 DEF RandInv
  <1>3. acks \in Seq(DataLens) /\ timers \in Nat /\ wire \in Seq(Int) /\ Len(acks) \in Nat
    BY <1>2 DEF RandTypes
  <1>4. closes <= 1
    BY <1>2 DEF RandTypes, ClosedOnce
  <1>5. at = "done" => closes = 1 /\ (status = "DISCONNECTED" \/ peer # "up")
    BY <1>2 DEF ClosedOnce
  <1>6. Len(acks) <= 1 /\ (acks # <<>> => timers = 0)
    <2>1. Len(acks) + timers <= 1
      BY <1>2 DEF OneTurn
    <2>2. acks # <<>> => Len(acks) > 0
      BY <1>3
    <2>. QED
      BY <1>3, <2>1, <2>2
  <1>7. ASSUME ~split
        PROVE  /\ \A x, y \in Rand!InTurn : x = y
               /\ Total - remainSize <= got
               /\ at \in {"wait", "timers"} /\ loopFlag /\ peer = "up" => Rand!InTurn # {}
    <2>1. /\ input = <<>> /\ (wire = <<>> \/ PackageAt(wire, 1))
          /\ (Total - remainSize) + (IF acks = <<>> THEN 0 ELSE acks[1]) <= got
          /\ peer = "up" /\ loopFlag /\ at \in {"wait", "timers", "events", "check"}
               => wire # <<>> \/ acks # <<>> \/ timers > 0
      BY <1>2, <1>7 DEF Intact
    <2>2. input \o wire = wire
      BY <1>3, <2>1, ConcatEmptySeq
    <2>3. wire # <<>> => acks = <<>> /\ timers = 0
      <3>1. PackageAt(wire, 1) => Sent(wire)
        BY DEF PackageAt, Sent
      <3>. QED
        BY <1>2, <2>1, <2>2, <3>1 DEF OneTurn
    <2>4. /\ "package" \in Rand!InTurn <=> wire # <<>>
          /\ "ack" \in Rand!InTurn <=> acks # <<>>
          /\ "timer" \in Rand!InTurn <=> timers > 0
          /\ Rand!InTurn \subseteq {"package", "ack", "timer"}
      BY DEF Rand!InTurn, Rand!Readable
    <2>5. \A x, y \in Rand!InTurn : x = y
      BY <1>3, <1>6, <2>3, <2>4
    <2>6. Total - remainSize <= got
      <3>1. PICK a \in Nat : a = IF acks = <<>> THEN 0 ELSE acks[1]
        <4>1. acks # <<>> => acks[1] \in DataLens
          BY <1>3
        <4>. QED
          BY <4>1, NetAssumption
      <3>2. remainSize \in Int /\ got \in Int
        BY <1>2 DEF RandTypes
      <3>3. (Total - remainSize) + a <= got
        BY <2>1, <3>1
      <3>. QED
        BY <3>2, <3>3, NetAssumption
    <2>7. at \in {"wait", "timers"} /\ loopFlag /\ peer = "up" => Rand!InTurn # {}
      BY <2>1, <2>4
    <2>. QED
      BY <2>5, <2>6, <2>7
  <1>. QED
    BY <1>4, <1>5, <1>6, <1>7 DEF Rand!Accounted

(* onClose comes once, by the end of the program; one acknowledgement is   *)
(* there at a time; and until a package is split the sender's account is   *)
(* covered by what the receiver has got, and one thing is in turn          *)
(* (examples/rand64k over TcpClient).                                      *)
THEOREM TransferIsAccounted == Spec => []TransferAccounted
  <1>1. Init => RandInv
    <2>1. SUFFICES ASSUME Rand!Init
                   PROVE  RandInv
      BY DEF Init
    <2>2. /\ at = "init" /\ status = "CONNECTING" /\ remainSize = Total /\ timers = 0
          /\ closes = 0 /\ wire = <<>> /\ input = <<>> /\ got = 0 /\ peer = "up" /\ ~split
          /\ acks = <<>> /\ ~ready /\ rst = "no"
      BY <2>1 DEF Rand!Init
    <2>3. Total - remainSize = 0 /\ remainSize \in Int
      BY <2>2, NetAssumption
    <2>4. RandTypes /\ ClosedOnce
      BY <2>2, <2>3 DEF RandTypes, ClosedOnce
    <2>5. OneTurn
      <3>1. PICK w : w = input \o wire
        OBVIOUS
      <3>2. Len(w) = 0 /\ Len(acks) = 0
        BY <2>2, <3>1
      <3>3. ~Sent(w)
        BY <3>2 DEF Sent
      <3>. QED
        BY <2>2, <3>1, <3>2, <3>3 DEF OneTurn
    <2>6. Woken
      BY <2>2 DEF Woken
    <2>7. Intact
      BY <2>2, <2>3 DEF Intact
    <2>. QED
      BY <2>4, <2>5, <2>6, <2>7 DEF RandInv
  <1>. QED
    BY <1>1, RandKept, RandAccounted, PTL DEF Spec

-----------------------------------------------------------------------------
(* Lists without one element, and with one more.                           *)

In(s, x) == \E k \in 1..Len(s) : s[k] = x

NoTwice(s) == \A k, l \in 1..Len(s) : s[k] = s[l] => k = l

(* Where an element was before the one at g went. *)
Was(g, k) == IF k < g THEN k ELSE k + 1

Cut(s, g) == SubSeq(s, 1, g - 1) \o SubSeq(s, g + 1, Len(s))

LEMMA CutAt ==
    ASSUME NEW S, NEW s \in Seq(S), NEW g \in 1..Len(s)
    PROVE  /\ Cut(s, g) \in Seq(S)
           /\ Len(Cut(s, g)) = Len(s) - 1
           /\ \A k \in 1..(Len(s) - 1) : Cut(s, g)[k] = s[Was(g, k)]
  <1>1. PICK n \in Nat : n = Len(s)
    OBVIOUS
  <1>. DEFINE b == SubSeq(s, 1, g - 1)
              c == SubSeq(s, g + 1, n)
  <1>2. /\ b \in Seq(S) /\ Len(b) = g - 1
        /\ \A k \in 1..(g - 1) : b[k] = s[k]
    <2>1. 1 \in 1..(n + 1) /\ g - 1 \in (1 - 1)..n
      BY <1>1
    <2>2. /\ SubSeq(s, 1, g - 1) \in Seq(S)
          /\ Len(SubSeq(s, 1, g - 1)) = IF 1 <= g - 1 THEN g - 1 - 1 + 1 ELSE 0
          /\ \A k \in 1..(g - 1 - 1 + 1) : SubSeq(s, 1, g - 1)[k] = s[1 + k - 1]
      BY <1>1, <2>1, SubSeqProperties
    <2>3. g - 1 - 1 + 1 = g - 1 /\ \A k \in 1..(g - 1) : 1 + k - 1 = k
      BY <1>1
    <2>4. Len(SubSeq(s, 1, g - 1)) = g - 1
      BY <1>1, <2>2
    <2>. QED
      BY <2>2, <2>3, <2>4
  <1>3. /\ c \in Seq(S) /\ Len(c) = n - g
        /\ \A k \in 1..(n - g) : c[k] = s[g + k]
    <2>1. g + 1 \in 1..(n + 1) /\ n \in ((g + 1) - 1)..n
      BY <1>1
    <2>2. /\ SubSeq(s, g + 1, n) \in Seq(S)
          /\ Len(SubSeq(s, g + 1, n)) = IF g + 1 <= n THEN n - (g + 1) + 1 ELSE 0
          /\ \A k \in 1..(n - (g + 1) + 1) : SubSeq(s, g + 1, n)[k] = s[(g + 1) + k - 1]
      BY <1>1, <2>1, SubSeqProperties
    <2>3. n - (g + 1) + 1 = n - g /\ \A k \in 1..(n - g) : (g + 1) + k - 1 = g + k
      BY <1>1
    <2>4. Len(SubSeq(s, g + 1, n)) = n - g
      BY <1>1, <2>2
    <2>. QED
      BY <2>2, <2>3, <2>4
  <1>. HIDE DEF b, c
  <1>4. /\ b \o c \in Seq(S) /\ Len(b \o c) = Len(b) + Len(c)
        /\ \A k \in 1..(Len(b) + Len(c)) :
              (b \o c)[k] = IF k <= Len(b) THEN b[k] ELSE c[k - Len(b)]
    BY <1>2, <1>3, ConcatProperties
  <1>5. Len(b) + Len(c) = n - 1
    BY <1>1, <1>2, <1>3
  <1>6. ASSUME NEW k \in 1..(n - 1)
        PROVE  (b \o c)[k] = s[Was(g, k)]
    <2>1. (b \o c)[k] = IF k <= g - 1 THEN b[k] ELSE c[k - (g - 1)]
      BY <1>2, <1>4, <1>5
    <2>2. CASE k < g
      <3>1. k \in 1..(g - 1) /\ k <= g - 1
        BY <1>1, <2>2
      <3>. QED
        BY <1>2, <2>1, <2>2, <3>1 DEF Was
    <2>3. CASE ~(k < g)
      <3>1. ~(k <= g - 1) /\ k - (g - 1) \in 1..(n - g) /\ g + (k - (g - 1)) = k + 1
        BY <1>1, <2>3
      <3>2. c[k - (g - 1)] = s[g + (k - (g - 1))]
        BY <1>3, <3>1
      <3>. QED
        BY <2>1, <2>3, <3>1, <3>2 DEF Was
    <2>. QED
      BY <2>2, <2>3
  <1>7. Cut(s, g) = b \o c
    BY <1>1 DEF Cut, b, c
  <1>. QED
    BY <1>1, <1>4, <1>5, <1>6, <1>7

(* The others stay, in their order. *)
LEMMA OthersLeft ==
    ASSUME NEW S, NEW s \in Seq(S), NoTwice(s), NEW g \in 1..Len(s), NEW r,
           r = Cut(s, g)
    PROVE  /\ r \in Seq(S) /\ NoTwice(r) /\ Len(r) = Len(s) - 1
           /\ \A k \in 1..Len(r) : Was(g, k) \in 1..Len(s) /\ r[k] = s[Was(g, k)]
           /\ \A x : In(r, x) <=> In(s, x) /\ x # s[g]
  <1>1. PICK n \in Nat : n = Len(s)
    OBVIOUS
  <1>2. /\ r \in Seq(S) /\ Len(r) = n - 1
        /\ \A k \in 1..(n - 1) : r[k] = s[Was(g, k)]
    BY <1>1, CutAt
  <1>3. \A k \in 1..(n - 1) : Was(g, k) \in 1..n /\ Was(g, k) # g
    BY <1>1 DEF Was
  <1>4. \A k, l \in 1..(n - 1) : Was(g, k) = Was(g, l) => k = l
    BY <1>1 DEF Was
  <1>5. NoTwice(r)
    BY <1>1, <1>2, <1>3, <1>4 DEF NoTwice
  <1>6. ASSUME NEW x, In(s, x), x # s[g] PROVE In(r, x)
    <2>1. PICK l \in 1..n : s[l] = x /\ l # g
      BY <1>1, <1>6 DEF In
    <2>2. PICK k \in 1..(n - 1) : Was(g, k) = l
      <3>1. CASE l < g
        <4>1. l \in 1..(n - 1) /\ Was(g, l) = l
          BY <1>1, <3>1 DEF Was
        <4>. QED
          BY <4>1
      <3>2. CASE ~(l < g)
        <4>1. l - 1 \in 1..(n - 1) /\ Was(g, l - 1) = l
          BY <1>1, <2>1, <3>2 DEF Was
        <4>. QED
          BY <4>1
      <3>. QED
        BY <3>1, <3>2
    <2>. QED
      BY <1>2, <2>1, <2>2 DEF In
  <1>7. ASSUME NEW x, In(r, x) PROVE In(s, x) /\ x # s[g]
    <2>1. PICK k \in 1..(n - 1) : r[k] = x
      BY <1>2, <1>7 DEF In
    <2>2. x = s[Was(g, k)] /\ Was(g, k) \in 1..n /\ Was(g, k) # g
      BY <1>2, <1>3, <2>1
    <2>. QED
      BY <1>1, <2>2 DEF In, NoTwice
  <1>. QED
    BY <1>1, <1>2, <1>3, <1>5, <1>6, <1>7

(* A new one is put behind them. *)
Longer(s, t, r) ==
    /\ NoTwice(r) /\ Len(r) = Len(s) + 1 /\ r[Len(s) + 1] = t
    /\ \A k \in 1..Len(s) : r[k] = s[k]
    /\ \A x : In(r, x) <=> In(s, x) \/ x = t

LEMMA OneBehind ==
    ASSUME NEW S, NEW s \in Seq(S), NoTwice(s), NEW t \in S, ~In(s, t), NEW r,
           r = Append(s, t)
    PROVE  r \in Seq(S) /\ Longer(s, t, r)
  <1>1. PICK n \in Nat : n = Len(s)
    OBVIOUS
  <1>2. /\ r \in Seq(S) /\ Len(r) = n + 1 /\ r[n + 1] = t
        /\ \A k \in 1..n : r[k] = s[k]
    BY <1>1, AppendProperties
  <1>3. \A k : k \in 1..(n + 1) <=> k \in 1..n \/ k = n + 1
    BY <1>1
  <1>4. \A k \in 1..n : s[k] # t
    BY <1>1 DEF In
  <1>5. NoTwice(r)
    BY <1>1, <1>2, <1>3, <1>4 DEF NoTwice
  <1>6. \A x : In(r, x) <=> In(s, x) \/ x = t
    BY <1>1, <1>2, <1>3 DEF In
  <1>. QED
    BY <1>1, <1>2, <1>5, <1>6 DEF Longer

-----------------------------------------------------------------------------
(* The wheel of slots.                                                     *)

LEMMA WheelStep == [Next]_vars => Wheel!Next \/ UNCHANGED wheelVars
  BY DEF Next, vars, wheelVars

(* The slot of a call of handle(), and the calls in some turns. *)
Slot(x) == x % SlotNum
Turns(r) == SlotNum * r

LEMMA SlotIs ==
    ASSUME NEW x \in Int
    PROVE  Slot(x) \in 0..(SlotNum - 1)
  <1>. SlotNum \in Nat \ {0}
    BY NetAssumption
  <1>. QED
    BY DEF Slot

LEMMA TurnsGrow ==
    ASSUME NEW b \in Int, NEW c \in Int, b < c
    PROVE  Turns(b) \in Int /\ Turns(c) \in Int /\ Turns(b) + SlotNum <= Turns(c)
  <1>. SlotNum \in Nat \ {0}
    BY NetAssumption
  <1>1. PICK d \in Nat : c = (b + 1) + d
    <2>1. c - (b + 1) \in Nat /\ c = (b + 1) + (c - (b + 1))
      OBVIOUS
    <2>. QED
      BY <2>1
  <1>2. SlotNum * ((b + 1) + d) = SlotNum * b + SlotNum + SlotNum * d
    OBVIOUS
  <1>3. SlotNum * d \in Nat /\ SlotNum * b \in Int
    OBVIOUS
  <1>4. SlotNum * c = SlotNum * b + SlotNum + SlotNum * d
    BY <1>1, <1>2
  <1>. HIDE <1>1
  <1>5. SlotNum * c \in Int /\ SlotNum * b + SlotNum <= SlotNum * c
    BY <1>3, <1>4
  <1>. QED
    BY <1>3, <1>5 DEF Turns

(* Division leaves one rest. *)
LEMMA SlotRest ==
    ASSUME NEW x \in Int
    PROVE  \E b \in Int : x = Turns(b) + Slot(x)
  <1>. SlotNum \in Nat \ {0}
    BY NetAssumption
  <1>1. x \div SlotNum \in Int /\ x = SlotNum * (x \div SlotNum) + (x % SlotNum)
    OBVIOUS
  <1>. QED
    BY <1>1 DEF Turns, Slot

LEMMA OneRest ==
    ASSUME NEW x \in Int, NEW b \in Int, NEW r \in 0..(SlotNum - 1), x = Turns(b) + r
    PROVE  Slot(x) = r
  <1>1. PICK c \in Int : x = Turns(c) + Slot(x)
    BY SlotRest
  <1>2. SlotNum \in Nat \ {0} /\ Slot(x) \in 0..(SlotNum - 1)
    BY NetAssumption, SlotIs
  <1>3. Turns(b) \in Int /\ Turns(c) \in Int
    BY <1>2 DEF Turns
  <1>4. ASSUME b < c PROVE FALSE
    BY <1>1, <1>2, <1>3, <1>4, TurnsGrow
  <1>5. ASSUME c < b PROVE FALSE
    BY <1>1, <1>2, <1>3, <1>5, TurnsGrow
  <1>6. b = c
    BY <1>4, <1>5
  <1>7. PICK y \in Int : y = Turns(b)
    BY <1>3
  <1>8. x = y + r /\ x = y + Slot(x)
    BY <1>1, <1>6, <1>7
  <1>. QED
    BY <1>2, <1>8

LEMMA SlotTurns ==
    ASSUME NEW x \in Int
    PROVE  Slot(x + SlotNum) = Slot(x)
  <1>. SlotNum \in Nat \ {0}
    BY NetAssumption
  <1>1. PICK b \in Int : x = Turns(b) + Slot(x)
    BY SlotRest
  <1>2. Turns(b + 1) = Turns(b) + SlotNum /\ Turns(b) \in Int
    BY DEF Turns
  <1>3. Slot(x) \in 0..(SlotNum - 1)
    BY SlotIs
  <1>4. x + SlotNum = Turns(b + 1) + Slot(x) /\ b + 1 \in Int /\ x + SlotNum \in Int
    BY <1>1, <1>2, <1>3
  <1>. QED
    BY <1>3, <1>4, OneRest

(* Within a turn, a slot comes once. *)
LEMMA SlotOnce ==
    ASSUME NEW m \in Int, NEW v \in m..(m + SlotNum - 1), Slot(v) = Slot(m)
    PROVE  v = m
  <1>1. SlotNum \in Nat \ {0} /\ Slot(m) \in 0..(SlotNum - 1)
    BY NetAssumption, SlotIs
  <1>2. PICK b \in Int : m = Turns(b) + Slot(m)
    BY SlotRest
  <1>3. PICK c \in Int : v = Turns(c) + Slot(m)
    BY SlotRest
  <1>4. Turns(b) \in Int /\ Turns(c) \in Int
    BY <1>1 DEF Turns
  <1>5. ASSUME b < c PROVE FALSE
    BY <1>1, <1>2, <1>3, <1>4, <1>5, TurnsGrow
  <1>6. ASSUME c < b PROVE FALSE
    BY <1>1, <1>2, <1>3, <1>4, <1>6, TurnsGrow
  <1>7. b = c
    BY <1>5, <1>6
  <1>. QED
    BY <1>1, <1>2, <1>3, <1>4, <1>7

LEMMA SlotThere ==
    ASSUME NEW m \in Nat, NEW k \in Nat
    PROVE  Slot(Slot(m) + k) = Slot(m + Slot(k))
  <1>. SlotNum \in Nat \ {0}
    BY NetAssumption
  <1>1. PICK b \in Int : m = Turns(b) + Slot(m)
    BY SlotRest
  <1>2. PICK c \in Int : k = Turns(c) + Slot(k)
    BY SlotRest
  <1>3. Slot(m) \in 0..(SlotNum - 1) /\ Slot(k) \in 0..(SlotNum - 1)
    BY SlotIs
  <1>4. PICK x : x = Slot(m) + Slot(k)
    OBVIOUS
  <1>5. x \in Int
    BY <1>3, <1>4
  <1>6. PICK d \in Int : x = Turns(d) + Slot(x)
    BY <1>5, SlotRest
  <1>7. Slot(x) \in 0..(SlotNum - 1)
    BY <1>5, SlotIs
  <1>8. /\ Turns(b) \in Int /\ Turns(c) \in Int /\ Turns(d) \in Int
        /\ Turns(c + d) = Turns(c) + Turns(d) /\ Turns(b + d) = Turns(b) + Turns(d)
    BY DEF Turns
  <1>9. Slot(Slot(m) + k) = Slot(x)
    <2>1. Slot(m) + k = Turns(c + d) + Slot(x) /\ c + d \in Int /\ Slot(m) + k \in Int
      BY <1>2, <1>3, <1>4, <1>6, <1>7, <1>8
    <2>. QED
      BY <1>7, <2>1, OneRest
  <1>10. Slot(m + Slot(k)) = Slot(x)
    <2>1. m + Slot(k) = Turns(b + d) + Slot(x) /\ b + d \in Int /\ m + Slot(k) \in Int
      BY <1>1, <1>3, <1>4, <1>6, <1>7, <1>8
    <2>. QED
      BY <1>7, <2>1, OneRest
  <1>. QED
    BY <1>9, <1>10

LEMMA TurnsAre ==
    ASSUME NEW r \in Nat
    PROVE  /\ Turns(r) \in Nat /\ Turns(0) = 0
           /\ Turns(r + 1) = Turns(r) + SlotNum
  <1>. SlotNum \in Nat \ {0}
    BY NetAssumption
  <1>. QED
    BY DEF Turns

LEMMA TurnsSplit ==
    ASSUME NEW k \in Nat
    PROVE  /\ k \div SlotNum \in Nat
           /\ k = Turns(k \div SlotNum) + Slot(k)
  <1>. SlotNum \in Nat \ {0}
    BY NetAssumption
  <1>. QED
    BY DEF Turns, Slot

TimRec == [id : WheelIds \cup {0}, Round : Nat, SlotIdx : 0..(SlotNum - 1), interval : Nat,
           due : Nat, ticks : Nat, inside : BOOLEAN]

(* A timer set inside of handle() for whole turns may be a turn late.  Its *)
(* slot comes up at call v of handle(), when as many turns are left as it  *)
(* still counts.                                                           *)
Whole(r) == r.inside /\ Slot(r.ticks) = 0

DueAt(r, v) ==
    \/ r.due = v + Turns(r.Round)
    \/ Whole(r) /\ r.due + SlotNum = v + Turns(r.Round)

Coming(r, low, high) == \E v \in low..high : Slot(v) = r.SlotIdx /\ DueAt(r, v)

(* It is in time yet, and its slot is being worked on. *)
Fresh(r, m) == Whole(r) /\ r.SlotIdx = Slot(m) /\ r.due = m + Turns(r.Round)

(* A timer that is set comes up within a turn. *)
LEMMA TicksAre ==
    ASSUME NEW ms \in Nat
    PROVE  Wheel!Ticks(ms) \in Nat
  <1>1. tick \in Nat \ {0}
    BY NetAssumption
  <1>2. ms \div tick \in Nat
    BY <1>1
  <1>. QED
    BY <1>1, <1>2 DEF Wheel!Ticks

LEMMA WoundIs ==
    ASSUME wheelNow \in Nat, NEW id \in WheelIds \cup {0}, NEW ms \in Nat,
           NEW interval \in Nat
    PROVE  /\ Wheel!Wound(id, ms, interval) \in TimRec
           /\ Wheel!Wound(id, ms, interval).id = id
           /\ Coming(Wheel!Wound(id, ms, interval), wheelNow, wheelNow + SlotNum - 1)
           /\ Wheel!Wound(id, ms, interval).SlotIdx = Slot(wheelNow) /\ wheelAt = "run"
                => Fresh(Wheel!Wound(id, ms, interval), wheelNow)
  <1>1. PICK k \in Nat : k = Wheel!Ticks(ms)
    BY TicksAre
  <1>2. PICK w : w = Wheel!Wound(id, ms, interval)
    OBVIOUS
  <1>3. PICK m \in Nat : m = wheelNow
    OBVIOUS
  <1>0. PICK b \in BOOLEAN : b = (wheelAt = "run")
    OBVIOUS
  <1>4. w = [id |-> id, interval |-> interval, Round |-> k \div SlotNum,
             SlotIdx |-> Slot(Slot(m) + k), due |-> m + k, ticks |-> k, inside |-> b]
    BY <1>0, <1>1, <1>2, <1>3 DEF Wheel!Wound, Wheel!slotIdx, Slot
  <1>5. PICK d \in Nat : d = k \div SlotNum
    BY TurnsSplit
  <1>6. PICK s \in 0..(SlotNum - 1) : s = Slot(k)
    BY SlotIs
  <1>7. PICK u \in Nat : u = Turns(d)
    BY TurnsAre
  <1>8. k = u + s
    BY <1>5, <1>6, <1>7, TurnsSplit
  <1>9. PICK j \in 0..(SlotNum - 1) : j = Slot(m + s)
    <2>1. m + s \in Int
      OBVIOUS
    <2>. QED
      BY <2>1, SlotIs
  <1>10. Slot(Slot(m) + k) = j
    BY <1>6, <1>9, SlotThere
  <1>11. /\ w.id = id /\ w.interval = interval /\ w.Round = d /\ w.SlotIdx = j
         /\ w.due = m + k /\ w.ticks = k /\ w.inside = b
         /\ w = [id |-> id, interval |-> interval, Round |-> d, SlotIdx |-> j,
                 due |-> m + k, ticks |-> k, inside |-> b]
    BY <1>4, <1>5, <1>10
  <1>12. w \in TimRec
    BY <1>11 DEF TimRec
  <1>13. SlotNum \in Nat \ {0}
    BY NetAssumption
  <1>14. Coming(w, m, m + SlotNum - 1)
    <2>1. m + s \in m..(m + SlotNum - 1) /\ w.due = (m + s) + Turns(w.Round)
      BY <1>7, <1>8, <1>11, <1>13
    <2>. QED
      BY <1>9, <1>11, <2>1 DEF Coming, DueAt
  <1>15. ASSUME j = Slot(m), wheelAt = "run" PROVE Fresh(w, m)
    <2>1. m + s \in m..(m + SlotNum - 1)
      BY <1>13
    <2>2. m + s = m
      BY <1>9, <1>15, <2>1, SlotOnce
    <2>3. s = 0 /\ k = u
      BY <1>8, <2>2
    <2>. QED
      BY <1>0, <1>6, <1>7, <1>11, <1>15, <2>3 DEF Fresh, Whole
  <1>. QED
    BY <1>2, <1>3, <1>11, <1>12, <1>14, <1>15

(* The turns are counted when the slot is worked on. *)
LEMMA Counted ==
    ASSUME NEW m \in Nat, NEW r \in TimRec, NEW x \in TimRec, r.SlotIdx = Slot(m),
           r.Round > 0, Coming(r, m, m + SlotNum - 1), x = [r EXCEPT !.Round = @ - 1]
    PROVE  Coming(x, m + SlotNum, m + SlotNum)
  <1>1. SlotNum \in Nat \ {0}
    BY NetAssumption
  <1>2. PICK v \in m..(m + SlotNum - 1) : Slot(v) = r.SlotIdx /\ DueAt(r, v)
    BY DEF Coming
  <1>3. v = m
    BY <1>2, SlotOnce
  <1>4. PICK n \in Nat : n + 1 = r.Round
    <2>1. r.Round \in Nat
      BY DEF TimRec
    <2>2. PICK c \in Nat : c = r.Round
      BY <2>1
    <2>3. c - 1 \in Nat /\ (c - 1) + 1 = c
      BY <2>2
    <2>. QED
      BY <2>2, <2>3
  <1>5. /\ x.Round = n /\ x.SlotIdx = r.SlotIdx /\ x.due = r.due /\ x.ticks = r.ticks
        /\ x.inside = r.inside
    <2>1. x.Round = r.Round - 1 /\ x.SlotIdx = r.SlotIdx /\ x.due = r.due /\ x.ticks = r.ticks
          /\ x.inside = r.inside
      BY DEF TimRec
    <2>. QED
      BY <1>4, <2>1
  <1>6. Turns(n + 1) = Turns(n) + SlotNum /\ Turns(n) \in Nat
    BY TurnsAre
  <1>7. Slot(m + SlotNum) = x.SlotIdx
    BY <1>2, <1>3, <1>5, SlotTurns
  <1>8. m + Turns(n + 1) = (m + SlotNum) + Turns(n)
    BY <1>1, <1>6
  <1>9. DueAt(x, m + SlotNum)
    BY <1>2, <1>3, <1>4, <1>5, <1>8 DEF DueAt, Whole
  <1>10. m + SlotNum \in (m + SlotNum)..(m + SlotNum)
    BY <1>1
  <1>. QED
    BY <1>7, <1>9, <1>10 DEF Coming

(* A timer passed over comes up a turn later. *)
LEMMA PassedOver ==
    ASSUME NEW m \in Nat, NEW r \in TimRec, Fresh(r, m)
    PROVE  Coming(r, m + SlotNum, m + SlotNum)
  <1>1. SlotNum \in Nat \ {0}
    BY NetAssumption
  <1>2. PICK u \in Nat : u = Turns(r.Round)
    BY TurnsAre DEF TimRec
  <1>3. r.due + SlotNum = (m + SlotNum) + Turns(r.Round)
    BY <1>1, <1>2 DEF Fresh
  <1>4. Slot(m + SlotNum) = r.SlotIdx
    BY SlotTurns DEF Fresh
  <1>5. m + SlotNum \in (m + SlotNum)..(m + SlotNum)
    BY <1>1
  <1>. QED
    BY <1>3, <1>4, <1>5 DEF Fresh, Coming, DueAt

(* The next call of handle(). *)
LEMMA NextCall ==
    ASSUME NEW m \in Nat, NEW r \in TimRec,
           IF r.SlotIdx = Slot(m) THEN Coming(r, m + SlotNum, m + SlotNum)
                                  ELSE Coming(r, m, m + SlotNum - 1)
    PROVE  Coming(r, m + 1, (m + 1) + SlotNum - 1)
  <1>1. SlotNum \in Nat \ {0}
    BY NetAssumption
  <1>2. CASE r.SlotIdx = Slot(m)
    <2>1. PICK v \in (m + SlotNum)..(m + SlotNum) : Slot(v) = r.SlotIdx /\ DueAt(r, v)
      BY <1>2 DEF Coming
    <2>2. v \in (m + 1)..((m + 1) + SlotNum - 1)
      BY <1>1
    <2>. QED
      BY <2>1, <2>2 DEF Coming
  <1>3. CASE r.SlotIdx # Slot(m)
    <2>1. PICK v \in m..(m + SlotNum - 1) : Slot(v) = r.SlotIdx /\ DueAt(r, v)
      BY <1>3 DEF Coming
    <2>2. v # m
      BY <1>3, <2>1
    <2>3. v \in (m + 1)..((m + 1) + SlotNum - 1)
      BY <1>1, <2>2
    <2>. QED
      BY <2>1, <2>3 DEF Coming
  <1>. QED
    BY <1>2, <1>3

(* When it has no turn left and its slot is worked on, it is due. *)
LEMMA DueNow ==
    ASSUME NEW m \in Nat, NEW r \in TimRec, r.SlotIdx = Slot(m), r.Round = 0,
           Coming(r, m, m + SlotNum - 1)
    PROVE  m = r.due \/ (Whole(r) /\ m = r.due + SlotNum)
  <1>1. SlotNum \in Nat \ {0} /\ r.due \in Nat /\ Turns(0) = 0
    BY NetAssumption, TurnsAre DEF TimRec
  <1>2. PICK v \in m..(m + SlotNum - 1) : Slot(v) = r.SlotIdx /\ DueAt(r, v)
    BY DEF Coming
  <1>3. v = m
    BY <1>2, SlotOnce
  <1>. QED
    BY <1>1, <1>2, <1>3 DEF DueAt

(* It is not over due before. *)
LEMMA NotOver ==
    ASSUME NEW m \in Nat, NEW r \in TimRec, Coming(r, m, m + SlotNum - 1)
    PROVE  m <= r.due \/ (Whole(r) /\ m <= r.due + SlotNum)
  <1>1. SlotNum \in Nat \ {0} /\ r.due \in Nat
    BY NetAssumption DEF TimRec
  <1>2. PICK v \in m..(m + SlotNum - 1) : DueAt(r, v)
    BY DEF Coming
  <1>3. PICK u \in Nat : u = Turns(r.Round)
    BY TurnsAre DEF TimRec
  <1>. QED
    BY <1>1, <1>2, <1>3 DEF DueAt

(* An element of a list has one place, and what is behind it. *)
LEMMA PlaceOf ==
    ASSUME NEW s \in Seq(WheelTimers), NoTwice(s), NEW g \in 1..Len(s)
    PROVE  /\ Wheel!Behind(s, s[g]) = IF g = Len(s) THEN "end" ELSE s[g + 1]
           /\ Wheel!Without(s, s[g]) = Wheel!RemoveAt(s, g)
  <1>1. PICK n \in Nat : n = Len(s)
    OBVIOUS
  <1>2. PICK x : x = s[g]
    OBVIOUS
  <1>3. \A k \in 1..n : s[k] = x <=> k = g
    BY <1>1, <1>2 DEF NoTwice
  <1>4. (CHOOSE k \in 1..n : s[k] = x) = g
    BY <1>1, <1>3
  <1>5. Wheel!Place(s, x) = g
    BY <1>1, <1>4 DEF Wheel!Place
  <1>6. Wheel!Behind(s, x) = IF g = Len(s) THEN "end" ELSE s[g + 1]
    BY <1>5 DEF Wheel!Behind, Wheel!End
  <1>7. Wheel!Without(s, x) = Wheel!RemoveAt(s, g)
    BY <1>5 DEF Wheel!Without
  <1>. QED
    BY <1>2, <1>6, <1>7

(* The others stay, in their order. *)
LEMMA OthersStay ==
    ASSUME NEW s \in Seq(WheelTimers), NoTwice(s), NEW g \in 1..Len(s), NEW r,
           r = Wheel!RemoveAt(s, g)
    PROVE  /\ r \in Seq(WheelTimers) /\ NoTwice(r) /\ Len(r) = Len(s) - 1
           /\ \A k \in 1..Len(r) : Was(g, k) \in 1..Len(s) /\ r[k] = s[Was(g, k)]
           /\ \A x : In(r, x) <=> In(s, x) /\ x # s[g]
  <1>1. r = Cut(s, g)
    BY DEF Wheel!RemoveAt, Cut
  <1>. QED
    BY <1>1, OthersLeft

(* Where each of them was. *)
LEMMA WasThere ==
    ASSUME NEW s \in Seq(WheelTimers), NoTwice(s), NEW g \in 1..Len(s), NEW r,
           r = Wheel!RemoveAt(s, g), NEW k \in 1..Len(r)
    PROVE  Was(g, k) \in 1..Len(s) /\ r[k] = s[Was(g, k)]
  <1>1. PICK n \in Nat : n = Len(s)
    OBVIOUS
  <1>2. Len(r) = n - 1
    BY <1>1, OthersStay
  <1>3. r[k] = s[Was(g, k)]
    <2>1. r = Cut(s, g)
      BY DEF Wheel!RemoveAt, Cut
    <2>. QED
      BY <1>1, <1>2, <2>1, CutAt
  <1>. QED
    BY <1>1, <1>2, <1>3 DEF Was

(* A new one is put behind them. *)
LEMMA OneMore ==
    ASSUME NEW s \in Seq(WheelTimers), NoTwice(s), NEW t \in WheelTimers, ~In(s, t), NEW r,
           r = Append(s, t)
    PROVE  /\ r \in Seq(WheelTimers) /\ NoTwice(r) /\ Len(r) = Len(s) + 1
           /\ \A k \in 1..Len(s) : r[k] = s[k]
           /\ r[Len(s) + 1] = t
           /\ \A x : In(r, x) <=> In(s, x) \/ x = t
  <1>1. r \in Seq(WheelTimers) /\ Longer(s, t, r)
    BY OneBehind
  <1>. QED
    BY <1>1 DEF Longer

(* The list of slot j has each timer once, and those of the slot; none of  *)
(* them has the id of one that was removed.                                *)
Filed(s, j, rec, known, rh) ==
    /\ s \in Seq(WheelTimers) /\ NoTwice(s)
    /\ \A k \in 1..Len(s) : /\ s[k] \in known
                            /\ rec[s[k]].SlotIdx = j
                            /\ rec[s[k]].id # rh

(* Whether handle(), which is at timer x, has the k-th one before it yet.  *)
Ahead(s, where, x, k) ==
    \/ where = "sleep"
    \/ \E l \in 1..k : s[l] = x
    \/ where = "run" /\ ~In(s, x)

(* The timers of a list come up within a turn, or in a turn if the list is *)
(* being worked on and they have been passed.                              *)
Timely(s, rec, m, current, where, x) ==
    \A k \in 1..Len(s) :
      IF current /\ ~Ahead(s, where, x, k)
      THEN Coming(rec[s[k]], m + SlotNum, m + SlotNum)
      ELSE Coming(rec[s[k]], m, m + SlotNum - 1)

(* What is said of a list that stays, when other timers change. *)
LEMMA ListStays ==
    ASSUME NEW s \in Seq(WheelTimers), NEW r1, NEW r2, \A k \in 1..Len(s) : r2[s[k]] = r1[s[k]]
    PROVE  /\ \A j, K, L, rh : Filed(s, j, r1, K, rh) /\ K \subseteq L => Filed(s, j, r2, L, rh)
           /\ \A m, c, a, x : Timely(s, r1, m, c, a, x) => Timely(s, r2, m, c, a, x)
  <1>1. PICK n \in Nat : n = Len(s)
    OBVIOUS
  <1>2. \A k \in 1..n : r2[s[k]] = r1[s[k]]
    BY <1>1
  <1>3. ASSUME NEW j, NEW K, NEW L, NEW rh, Filed(s, j, r1, K, rh), K \subseteq L
        PROVE  Filed(s, j, r2, L, rh)
    BY <1>1, <1>2, <1>3 DEF Filed
  <1>4. ASSUME NEW m, NEW c, NEW a, NEW x, Timely(s, r1, m, c, a, x)
        PROVE  Timely(s, r2, m, c, a, x)
    BY <1>1, <1>2, <1>4 DEF Timely
  <1>. QED
    BY <1>3, <1>4

LEMMA AppendFiled ==
    ASSUME NEW s \in Seq(WheelTimers), NEW j, NEW rec, NEW known, NEW rh,
           Filed(s, j, rec, known, rh),
           NEW t \in WheelTimers, ~In(s, t), t \in known, rec[t].SlotIdx = j, rec[t].id # rh
    PROVE  Filed(Append(s, t), j, rec, known, rh)
  <1>1. s \in Seq(WheelTimers) /\ NoTwice(s)
    BY DEF Filed
  <1>2. PICK n \in Nat : n = Len(s)
    BY <1>1
  <1>3. PICK r : r = Append(s, t)
    OBVIOUS
  <1>4. /\ r \in Seq(WheelTimers) /\ NoTwice(r) /\ Len(r) = n + 1 /\ r[n + 1] = t
        /\ \A k \in 1..n : r[k] = s[k]
    <2>1. r \in Seq(WheelTimers) /\ NoTwice(r)
      BY <1>1, <1>3, OneMore
    <2>2. Len(r) = n + 1 /\ r[n + 1] = t /\ \A k \in 1..n : r[k] = s[k]
      BY <1>1, <1>2, <1>3, OneMore
    <2>. QED
      BY <2>1, <2>2
  <1>5. \A k \in 1..(n + 1) : k \in 1..n \/ k = n + 1
    BY <1>2
  <1>. QED
    BY <1>2, <1>3, <1>4, <1>5 DEF Filed

LEMMA AppendAhead ==
    ASSUME NEW s \in Seq(WheelTimers), NoTwice(s), NEW t \in WheelTimers, ~In(s, t),
           NEW x, x # t, NEW a, NEW k \in 1..Len(s)
    PROVE  Ahead(Append(s, t), a, x, k) <=> Ahead(s, a, x, k)
  <1>1. PICK n \in Nat : n = Len(s)
    OBVIOUS
  <1>2. PICK r : r = Append(s, t)
    OBVIOUS
  <1>3. /\ \A l \in 1..n : r[l] = s[l]
        /\ (In(r, x) <=> In(s, x))
    <2>1. In(r, x) <=> In(s, x) \/ x = t
      BY <1>2, OneMore
    <2>. QED
      BY <1>1, <1>2, <2>1, OneMore
  <1>4. \A l \in 1..k : l \in 1..n
    BY <1>1
  <1>5. (\E l \in 1..k : r[l] = x) <=> (\E l \in 1..k : s[l] = x)
    BY <1>3, <1>4
  <1>. QED
    BY <1>2, <1>3, <1>5 DEF Ahead

LEMMA AppendTimely ==
    ASSUME NEW s \in Seq(WheelTimers), NoTwice(s), NEW rec, NEW m \in Nat, NEW c \in BOOLEAN,
           NEW a, NEW x, Timely(s, rec, m, c, a, x),
           NEW t \in WheelTimers, ~In(s, t), x # t, rec[t] \in TimRec,
           Coming(rec[t], m, m + SlotNum - 1),
           c /\ a # "sleep" => Fresh(rec[t], m)
    PROVE  Timely(Append(s, t), rec, m, c, a, x)
  <1>1. PICK n \in Nat : n = Len(s)
    OBVIOUS
  <1>2. PICK r : r = Append(s, t)
    OBVIOUS
  <1>3. Len(r) = n + 1 /\ r[n + 1] = t /\ \A k \in 1..n : r[k] = s[k]
    BY <1>1, <1>2, OneMore
  <1>4. \A k \in 1..(n + 1) : k \in 1..n \/ k = n + 1
    BY <1>1
  <1>5. \A k \in 1..n : Ahead(r, a, x, k) <=> Ahead(s, a, x, k)
    BY <1>1, <1>2, AppendAhead
  <1>6. c /\ a # "sleep" => Coming(rec[t], m + SlotNum, m + SlotNum)
    BY PassedOver
  <1>8. a = "sleep" => \A k : Ahead(r, a, x, k)
    BY DEF Ahead
  <1>7. ASSUME NEW k \in 1..(n + 1)
        PROVE  IF c /\ ~Ahead(r, a, x, k) THEN Coming(rec[r[k]], m + SlotNum, m + SlotNum)
               ELSE Coming(rec[r[k]], m, m + SlotNum - 1)
    <2>1. CASE k \in 1..n
      BY <1>1, <1>3, <1>5, <2>1 DEF Timely
    <2>2. CASE k = n + 1
      BY <1>3, <1>6, <1>8, <2>2
    <2>. QED
      BY <1>4, <2>1, <2>2
  <1>. QED
    BY <1>2, <1>3, <1>7 DEF Timely

LEMMA RemoveFiled ==
    ASSUME NEW s \in Seq(WheelTimers), NEW j, NEW rec, NEW known, NEW rh,
           Filed(s, j, rec, known, rh),
           NEW g \in 1..Len(s)
    PROVE  Filed(Wheel!RemoveAt(s, g), j, rec, known, rh)
  <1>1. s \in Seq(WheelTimers) /\ NoTwice(s)
    BY DEF Filed
  <1>2. PICK r : r = Wheel!RemoveAt(s, g)
    OBVIOUS
  <1>3. /\ r \in Seq(WheelTimers) /\ NoTwice(r)
        /\ \A k \in 1..Len(r) : Was(g, k) \in 1..Len(s) /\ r[k] = s[Was(g, k)]
    <2>1. r \in Seq(WheelTimers) /\ NoTwice(r)
      BY <1>1, <1>2, OthersStay
    <2>2. \A k \in 1..Len(r) : Was(g, k) \in 1..Len(s) /\ r[k] = s[Was(g, k)]
      BY <1>1, <1>2, WasThere
    <2>. QED
      BY <2>1, <2>2
  <1>. QED
    BY <1>2, <1>3 DEF Filed

(* The order of those that stay tells whether they are ahead. *)
LEMMA RemoveAhead ==
    ASSUME NEW s \in Seq(WheelTimers), NoTwice(s), NEW g \in 1..Len(s), NEW a, NEW x,
           s[g] # x, NEW r, r = Wheel!RemoveAt(s, g), NEW k \in 1..Len(r)
    PROVE  Ahead(r, a, x, k) <=> Ahead(s, a, x, Was(g, k))
  <1>1. PICK n \in Nat : n = Len(s)
    OBVIOUS
  <1>2. /\ Len(r) = n - 1 /\ (In(r, x) <=> In(s, x))
        /\ \A l \in 1..(n - 1) : r[l] = s[Was(g, l)]
    <2>1. Len(r) = n - 1
      BY <1>1, OthersStay
    <2>2. In(r, x) <=> In(s, x) /\ x # s[g]
      BY OthersStay
    <2>3. \A l \in 1..(n - 1) : r[l] = s[Was(g, l)]
      <3>1. r = Cut(s, g)
        BY DEF Wheel!RemoveAt, Cut
      <3>. QED
        BY <1>1, <3>1, CutAt
    <2>. QED
      BY <2>1, <2>2, <2>3
  <1>3. ASSUME NEW l \in 1..k, r[l] = x PROVE \E e \in 1..Was(g, k) : s[e] = x
    <2>1. l \in 1..(n - 1) /\ Was(g, l) \in 1..Was(g, k)
      BY <1>1, <1>2 DEF Was
    <2>. QED
      BY <1>2, <1>3, <2>1
  <1>4. ASSUME NEW e \in 1..Was(g, k), s[e] = x PROVE \E l \in 1..k : r[l] = x
    <2>1. e # g
      BY <1>4
    <2>2. CASE e < g
      <3>1. e \in 1..k /\ e \in 1..(n - 1) /\ Was(g, e) = e
        BY <1>1, <1>2, <2>2 DEF Was
      <3>. QED
        BY <1>2, <1>4, <3>1
    <2>3. CASE ~(e < g)
      <3>1. e - 1 \in 1..k /\ e - 1 \in 1..(n - 1) /\ Was(g, e - 1) = e
        BY <1>1, <1>2, <2>1, <2>3 DEF Was
      <3>. QED
        BY <1>2, <1>4, <3>1
    <2>. QED
      BY <2>2, <2>3
  <1>. QED
    BY <1>2, <1>3, <1>4 DEF Ahead

(* One that is removed, other than the one handle() is at, or that one if  *)
(* it is the first, changes nothing for the others.                        *)
LEMMA RemoveTimely ==
    ASSUME NEW s \in Seq(WheelTimers), NoTwice(s), NEW rec, NEW m \in Nat, NEW c \in BOOLEAN,
           NEW a, NEW x, Timely(s, rec, m, c, a, x), NEW g \in 1..Len(s),
           \/ ~c
           \/ s[g] # x
           \/ a = "run" /\ g = 1
    PROVE  Timely(Wheel!RemoveAt(s, g), rec, m, c, a, x)
  <1>1. PICK n \in Nat : n = Len(s)
    OBVIOUS
  <1>2. PICK r : r = Wheel!RemoveAt(s, g)
    OBVIOUS
  <1>3. /\ \A k \in 1..Len(r) : Was(g, k) \in 1..n /\ r[k] = s[Was(g, k)]
    BY <1>1, <1>2, WasThere
  <1>4. ASSUME c, NEW k \in 1..Len(r), Ahead(s, a, x, Was(g, k)) PROVE Ahead(r, a, x, k)
    <2>1. CASE s[g] # x
      BY <1>2, <1>4, <2>1, RemoveAhead
    <2>2. CASE s[g] = x /\ a = "run"
      <3>1. ~In(r, x)
        BY <1>2, <2>2, OthersStay
      <3>. QED
        BY <2>2, <3>1 DEF Ahead
    <2>. QED
      BY <1>4, <2>1, <2>2
  <1>5. ASSUME c, NEW k \in 1..Len(r), ~Ahead(s, a, x, Was(g, k)) PROVE ~Ahead(r, a, x, k)
    <2>1. CASE s[g] # x
      BY <1>2, <1>5, <2>1, RemoveAhead
    <2>2. CASE s[g] = x /\ a = "run" /\ g = 1
      <3>1. 1 \in 1..Was(g, k)
        BY <1>1, <1>3
      <3>. QED
        BY <1>5, <2>2, <3>1 DEF Ahead
    <2>. QED
      BY <1>5, <2>1, <2>2
  <1>6. ASSUME NEW k \in 1..Len(r)
        PROVE  IF c /\ ~Ahead(r, a, x, k) THEN Coming(rec[r[k]], m + SlotNum, m + SlotNum)
               ELSE Coming(rec[r[k]], m, m + SlotNum - 1)
    <2>1. IF c /\ ~Ahead(s, a, x, Was(g, k))
          THEN Coming(rec[r[k]], m + SlotNum, m + SlotNum)
          ELSE Coming(rec[r[k]], m, m + SlotNum - 1)
      BY <1>1, <1>3 DEF Timely
    <2>. QED
      BY <1>4, <1>5, <2>1
  <1>. QED
    BY <1>2, <1>6 DEF Timely

(* Those before handle()'s timer, at g, have been passed. *)
LEMMA AheadFrom ==
    ASSUME NEW s \in Seq(WheelTimers), NoTwice(s), NEW g \in 1..Len(s), NEW a, a # "sleep",
           NEW k \in 1..Len(s)
    PROVE  Ahead(s, a, s[g], k) <=> g <= k
  <1>1. PICK n \in Nat : n = Len(s)
    OBVIOUS
  <1>2. In(s, s[g])
    BY DEF In
  <1>3. ASSUME g <= k PROVE \E l \in 1..k : s[l] = s[g]
    BY <1>1, <1>3
  <1>4. ASSUME NEW l \in 1..k, s[l] = s[g] PROVE g <= k
    <2>1. l \in 1..n
      BY <1>1
    <2>2. l = g
      BY <1>1, <1>4, <2>1 DEF NoTwice
    <2>. QED
      BY <2>2
  <1>. QED
    BY <1>2, <1>3, <1>4 DEF Ahead

(* Those from the one behind it on are before handle() after it. *)
LEMMA AheadBehind ==
    ASSUME NEW s \in Seq(WheelTimers), NoTwice(s), NEW g \in 1..Len(s), NEW k \in 1..Len(s)
    PROVE  Ahead(s, "scan", Wheel!Behind(s, s[g]), k) <=> g + 1 <= k
  <1>1. PICK n \in Nat : n = Len(s)
    OBVIOUS
  <1>2. Wheel!Behind(s, s[g]) = IF g = n THEN "end" ELSE s[g + 1]
    BY <1>1, PlaceOf
  <1>3. CASE g = n
    <2>1. \A l \in 1..k : l \in 1..n /\ s[l] \in WheelTimers
      BY <1>1
    <2>2. \A l \in 1..k : s[l] # "end"
      BY <2>1, NetAssumption
    <2>. QED
      BY <1>1, <1>2, <1>3, <2>2 DEF Ahead
  <1>4. CASE g # n
    <2>1. g + 1 \in 1..n
      BY <1>1, <1>4
    <2>. QED
      BY <1>1, <1>2, <1>4, <2>1, AheadFrom
  <1>. QED
    BY <1>3, <1>4

(* handle() begins with the first timer of the list. *)
LEMMA AheadFirst ==
    ASSUME NEW s \in Seq(WheelTimers), NEW a, NEW k \in 1..Len(s)
    PROVE  Ahead(s, a, s[1], k)
  <1>1. 1 \in 1..k
    OBVIOUS
  <1>. QED
    BY <1>1 DEF Ahead

(* It goes on from a timer it has counted a turn of. *)
LEMMA TurnTimely ==
    ASSUME NEW s \in Seq(WheelTimers), NoTwice(s), NEW rec \in [WheelTimers -> TimRec],
           NEW m \in Nat, NEW g \in 1..Len(s), Timely(s, rec, m, TRUE, "scan", s[g]),
           rec[s[g]].SlotIdx = Slot(m), rec[s[g]].Round > 0,
           NEW new \in [WheelTimers -> TimRec],
           new = [rec EXCEPT ![s[g]].Round = @ - 1]
    PROVE  Timely(s, new, m, TRUE, "scan", Wheel!Behind(s, s[g]))
  <1>1. PICK n \in Nat : n = Len(s)
    OBVIOUS
  <1>2. PICK t \in WheelTimers : t = s[g]
    BY <1>1
  <1>3. new[t] = [rec[t] EXCEPT !.Round = @ - 1]
    BY <1>2
  <1>4. \A k \in 1..n : k # g => s[k] \in WheelTimers /\ s[k] # t
    BY <1>1, <1>2 DEF NoTwice
  <1>5. \A k \in 1..n : k # g => new[s[k]] = rec[s[k]]
    BY <1>2, <1>4
  <1>6. \A k \in 1..n : Ahead(s, "scan", s[g], k) <=> g <= k
    BY <1>1, AheadFrom
  <1>7. \A k \in 1..n : Ahead(s, "scan", Wheel!Behind(s, s[g]), k) <=> g + 1 <= k
    BY <1>1, AheadBehind
  <1>8. Coming(rec[t], m, m + SlotNum - 1)
    <2>1. Ahead(s, "scan", s[g], g)
      BY <1>1, <1>6
    <2>. QED
      BY <1>2, <2>1 DEF Timely
  <1>9. Coming(new[t], m + SlotNum, m + SlotNum)
    <2>1. rec[t] \in TimRec /\ new[t] \in TimRec
      OBVIOUS
    <2>. QED
      BY <1>2, <1>3, <1>8, <2>1, Counted
  <1>10. ASSUME NEW k \in 1..n
         PROVE  IF ~Ahead(s, "scan", Wheel!Behind(s, s[g]), k)
                THEN Coming(new[s[k]], m + SlotNum, m + SlotNum)
                ELSE Coming(new[s[k]], m, m + SlotNum - 1)
    <2>1. CASE k = g
      <3>1. ~(g + 1 <= k)
        BY <1>1, <2>1
      <3>. QED
        BY <1>2, <1>7, <1>9, <2>1, <3>1
    <2>2. CASE k # g
      <3>1. IF ~Ahead(s, "scan", s[g], k)
            THEN Coming(rec[s[k]], m + SlotNum, m + SlotNum)
            ELSE Coming(rec[s[k]], m, m + SlotNum - 1)
        BY <1>1 DEF Timely
      <3>2. g <= k <=> g + 1 <= k
        BY <1>1, <2>2
      <3>. QED
        BY <1>5, <1>6, <1>7, <2>2, <3>1, <3>2
    <2>. QED
      BY <2>1, <2>2
  <1>. QED
    BY <1>1, <1>10 DEF Timely

(* It goes on from a timer that has run and is taken out. *)
LEMMA EraseTimely ==
    ASSUME NEW s \in Seq(WheelTimers), NoTwice(s), NEW rec, NEW m \in Nat,
           NEW g \in 1..Len(s), Timely(s, rec, m, TRUE, "run", s[g])
    PROVE  Timely(Wheel!RemoveAt(s, g), rec, m, TRUE, "scan", Wheel!Behind(s, s[g]))
  <1>1. PICK n \in Nat : n = Len(s)
    OBVIOUS
  <1>2. PICK r : r = Wheel!RemoveAt(s, g)
    OBVIOUS
  <1>3. PICK y : y = Wheel!Behind(s, s[g])
    OBVIOUS
  <1>4. \A k \in 1..Len(r) : Was(g, k) \in 1..n /\ r[k] = s[Was(g, k)]
    BY <1>1, <1>2, WasThere
  <1>5. s[g] # y
    <2>1. y = IF g = n THEN "end" ELSE s[g + 1]
      BY <1>1, <1>3, PlaceOf
    <2>2. CASE g = n
      <3>1. s[g] \in WheelTimers
        OBVIOUS
      <3>. QED
        BY <2>1, <2>2, <3>1, NetAssumption
    <2>3. CASE g # n
      <3>1. g + 1 \in 1..n /\ g + 1 # g
        BY <1>1, <2>3
      <3>. QED
        BY <1>1, <2>1, <2>3, <3>1 DEF NoTwice
    <2>. QED
      BY <2>2, <2>3
  <1>6. ASSUME NEW k \in 1..Len(r)
        PROVE  Ahead(r, "scan", y, k) <=> Ahead(s, "run", s[g], Was(g, k))
    <2>1. Ahead(r, "scan", y, k) <=> Ahead(s, "scan", y, Was(g, k))
      BY <1>2, <1>5, RemoveAhead
    <2>2. Ahead(s, "scan", y, Was(g, k)) <=> g + 1 <= Was(g, k)
      BY <1>1, <1>3, <1>4, AheadBehind
    <2>3. Ahead(s, "run", s[g], Was(g, k)) <=> g <= Was(g, k)
      BY <1>1, <1>4, AheadFrom
    <2>4. g <= Was(g, k) <=> g + 1 <= Was(g, k)
      <3>1. Len(r) \in Nat
        BY <1>2, OthersStay
      <3>. QED
        BY <3>1 DEF Was
    <2>. QED
      BY <2>1, <2>2, <2>3, <2>4
  <1>7. ASSUME NEW k \in 1..Len(r)
        PROVE  IF ~Ahead(r, "scan", y, k)
               THEN Coming(rec[r[k]], m + SlotNum, m + SlotNum)
               ELSE Coming(rec[r[k]], m, m + SlotNum - 1)
    <2>1. IF ~Ahead(s, "run", s[g], Was(g, k))
          THEN Coming(rec[r[k]], m + SlotNum, m + SlotNum)
          ELSE Coming(rec[r[k]], m, m + SlotNum - 1)
      BY <1>1, <1>4 DEF Timely
    <2>. QED
      BY <1>6, <2>1
  <1>. QED
    BY <1>2, <1>3, <1>7 DEF Timely

(* All the lists. *)
Files(lists, rec, known, rh) ==
    /\ lists \in [0..(SlotNum - 1) -> Seq(WheelTimers)]
    /\ \A j \in 0..(SlotNum - 1) : Filed(lists[j], j, rec, known, rh)

Timetable(lists, rec, m, where, x) ==
    \A j \in 0..(SlotNum - 1) : Timely(lists[j], rec, m, j = Slot(m), where, x)

Nowhere(lists, t) == \A j \in 0..(SlotNum - 1) : ~In(lists[j], t)

(* A timer that is set anew, where handle() is at b. *)
Set(w, m, rh, b) ==
    /\ w \in TimRec /\ w.id # rh
    /\ Coming(w, m, m + SlotNum - 1)
    /\ w.SlotIdx = Slot(m) /\ b = "run" => Fresh(w, m)

LEMMA FilesStay ==
    ASSUME NEW lists, NEW rec, NEW new, NEW known, NEW all, NEW rh,
           Files(lists, rec, known, rh), known \subseteq all,
           NEW t, Nowhere(lists, t), \A u \in WheelTimers : u # t => new[u] = rec[u]
    PROVE  /\ Files(lists, new, all, rh)
           /\ \A m, a, x : Timetable(lists, rec, m, a, x) => Timetable(lists, new, m, a, x)
  <1>1. lists \in [0..(SlotNum - 1) -> Seq(WheelTimers)]
    BY DEF Files
  <1>2. ASSUME NEW j \in 0..(SlotNum - 1)
        PROVE  \A k \in 1..Len(lists[j]) : new[lists[j][k]] = rec[lists[j][k]]
    <2>1. ASSUME NEW k \in 1..Len(lists[j])
          PROVE  lists[j][k] \in WheelTimers /\ lists[j][k] # t
      BY <1>1 DEF Nowhere, In
    <2>. QED
      BY <2>1
  <1>3. ASSUME NEW j \in 0..(SlotNum - 1)
        PROVE  /\ Filed(lists[j], j, new, all, rh)
               /\ \A m, c, a, x : Timely(lists[j], rec, m, c, a, x)
                                    => Timely(lists[j], new, m, c, a, x)
    <2>1. PICK s \in Seq(WheelTimers) : s = lists[j]
      BY <1>1
    <2>2. \A k \in 1..Len(s) : new[s[k]] = rec[s[k]]
      BY <1>2, <2>1
    <2>3. Filed(s, j, rec, known, rh)
      BY <2>1 DEF Files
    <2>4. Filed(s, j, new, all, rh)
      BY <2>2, <2>3, ListStays
    <2>5. ASSUME NEW m, NEW c, NEW a, NEW x, Timely(s, rec, m, c, a, x)
          PROVE  Timely(s, new, m, c, a, x)
      BY <2>2, <2>5, ListStays
    <2>. QED
      BY <2>1, <2>4, <2>5
  <1>4. Files(lists, new, all, rh)
    BY <1>1, <1>3 DEF Files
  <1>5. ASSUME NEW m, NEW a, NEW x, Timetable(lists, rec, m, a, x)
        PROVE  Timetable(lists, new, m, a, x)
    BY <1>3, <1>5 DEF Timetable
  <1>. QED
    BY <1>4, <1>5

(* Timer t, which is nowhere, is set to w and filed. *)
Filing(lists, rec, known, rh, t, m, w, then, new, all, b) ==
    /\ Files(lists, rec, known, rh) /\ rec \in [WheelTimers -> TimRec] /\ m \in Nat
    /\ t \in WheelTimers /\ Nowhere(lists, t) /\ Set(w, m, rh, b)
    /\ new = [rec EXCEPT ![t] = w]
    /\ then = [lists EXCEPT ![w.SlotIdx] = Append(@, t)]
    /\ known \subseteq all /\ t \in all

LEMMA IsFiled ==
    ASSUME NEW lists, NEW rec, NEW known, NEW rh, NEW t, NEW m, NEW w, NEW then, NEW new,
           NEW all, NEW b, Filing(lists, rec, known, rh, t, m, w, then, new, all, b)
    PROVE  /\ Files(then, new, all, rh)
           /\ \A a, x : Timetable(lists, rec, m, a, x) /\ x # t /\ (a = "sleep" \/ b = "run")
                        => Timetable(then, new, m, a, x)
  <1>. /\ Files(lists, rec, known, rh) /\ rec \in [WheelTimers -> TimRec] /\ m \in Nat
       /\ t \in WheelTimers /\ Nowhere(lists, t) /\ Set(w, m, rh, b)
       /\ new = [rec EXCEPT ![t] = w]
       /\ then = [lists EXCEPT ![w.SlotIdx] = Append(@, t)]
       /\ known \subseteq all /\ t \in all
    BY DEF Filing
  <1>1. new[t] = w /\ \A u \in WheelTimers : u # t => new[u] = rec[u]
    OBVIOUS
  <1>2. /\ Files(lists, new, all, rh)
        /\ \A a, x : Timetable(lists, rec, m, a, x) => Timetable(lists, new, m, a, x)
    <2>1. \A u \in WheelTimers : u # t => new[u] = rec[u]
      BY <1>1
    <2>2. Files(lists, new, all, rh)
      BY <2>1, FilesStay
    <2>3. ASSUME NEW a, NEW x, Timetable(lists, rec, m, a, x)
          PROVE  Timetable(lists, new, m, a, x)
      BY <2>1, <2>3, FilesStay
    <2>. QED
      BY <2>2, <2>3
  <1>3. w \in TimRec /\ w.id # rh /\ w.SlotIdx \in 0..(SlotNum - 1)
    BY DEF Set, TimRec
  <1>4. lists \in [0..(SlotNum - 1) -> Seq(WheelTimers)]
    BY DEF Files
  <1>5. PICK d \in 0..(SlotNum - 1) : d = w.SlotIdx
    BY <1>3
  <1>6. then[d] = Append(lists[d], t)
        /\ \A j \in 0..(SlotNum - 1) : j # d => then[j] = lists[j]
    BY <1>4, <1>5
  <1>7. PICK s \in Seq(WheelTimers) : s = lists[d]
    BY <1>4
  <1>8. ~In(s, t) /\ Filed(s, d, new, all, rh) /\ NoTwice(s)
    BY <1>2, <1>7 DEF Nowhere, Files, Filed
  <1>9. Filed(Append(s, t), d, new, all, rh)
    BY <1>1, <1>3, <1>5, <1>8, AppendFiled
  <1>10. then \in [0..(SlotNum - 1) -> Seq(WheelTimers)]
    <2>1. Append(s, t) \in Seq(WheelTimers)
      OBVIOUS
    <2>. QED
      BY <1>4, <1>5, <1>7, <2>1
  <1>11. Files(then, new, all, rh)
    <2>1. ASSUME NEW j \in 0..(SlotNum - 1) PROVE Filed(then[j], j, new, all, rh)
      BY <1>2, <1>6, <1>7, <1>9 DEF Files
    <2>. QED
      BY <1>10, <2>1 DEF Files
  <1>12. ASSUME NEW a, NEW x, Timetable(lists, rec, m, a, x), x # t, a = "sleep" \/ b = "run"
         PROVE  Timetable(then, new, m, a, x)
    <2>1. Timetable(lists, new, m, a, x)
      BY <1>2, <1>12
    <2>2. PICK c \in BOOLEAN : c = (d = Slot(m))
      OBVIOUS
    <2>3. Timely(s, new, m, c, a, x)
      BY <1>7, <2>1, <2>2 DEF Timetable
    <2>4. /\ new[t] \in TimRec /\ Coming(new[t], m, m + SlotNum - 1)
          /\ c /\ a # "sleep" => Fresh(new[t], m)
      BY <1>1, <1>5, <1>12, <2>2 DEF Set
    <2>5. Timely(Append(s, t), new, m, c, a, x)
      BY <1>8, <1>12, <2>3, <2>4, AppendTimely
    <2>6. ASSUME NEW j \in 0..(SlotNum - 1)
          PROVE  Timely(then[j], new, m, j = Slot(m), a, x)
      <3>1. CASE j = d
        BY <1>6, <1>7, <2>2, <2>5, <3>1
      <3>2. CASE j # d
        BY <1>6, <2>1, <3>2 DEF Timetable
      <3>. QED
        BY <3>1, <3>2
    <2>. QED
      BY <2>6 DEF Timetable
  <1>. QED
    BY <1>11, <1>12

(* The timer at g of the list of slot d is taken out. *)
Unfiling(lists, rec, known, rh, d, g, then) ==
    /\ Files(lists, rec, known, rh)
    /\ d \in 0..(SlotNum - 1) /\ g \in 1..Len(lists[d])
    /\ then = [lists EXCEPT ![d] = Wheel!RemoveAt(@, g)]

LEMMA IsUnfiled ==
    ASSUME NEW lists, NEW rec, NEW known, NEW rh, NEW d, NEW g, NEW then,
           Unfiling(lists, rec, known, rh, d, g, then)
    PROVE  /\ Files(then, rec, known, rh)
           /\ Nowhere(then, lists[d][g])
           /\ then[d] = Wheel!RemoveAt(lists[d], g)
           /\ \A j \in 0..(SlotNum - 1) : j # d => then[j] = lists[j]
  <1>. /\ Files(lists, rec, known, rh)
       /\ d \in 0..(SlotNum - 1) /\ g \in 1..Len(lists[d])
       /\ then = [lists EXCEPT ![d] = Wheel!RemoveAt(@, g)]
    BY DEF Unfiling
  <1>1. lists \in [0..(SlotNum - 1) -> Seq(WheelTimers)]
    BY DEF Files
  <1>2. PICK s \in Seq(WheelTimers) : s = lists[d]
    BY <1>1
  <1>3. Filed(s, d, rec, known, rh) /\ NoTwice(s) /\ g \in 1..Len(s)
    BY <1>2 DEF Files, Filed
  <1>4. PICK r : r = Wheel!RemoveAt(s, g)
    OBVIOUS
  <1>5. Filed(r, d, rec, known, rh)
    BY <1>3, <1>4, RemoveFiled
  <1>6. then[d] = r /\ \A j \in 0..(SlotNum - 1) : j # d => then[j] = lists[j]
    BY <1>1, <1>2, <1>4
  <1>7. then \in [0..(SlotNum - 1) -> Seq(WheelTimers)]
    <2>1. r \in Seq(WheelTimers)
      BY <1>5 DEF Filed
    <2>. QED
      BY <1>1, <1>2, <1>4, <2>1
  <1>8. Files(then, rec, known, rh)
    <2>1. ASSUME NEW j \in 0..(SlotNum - 1) PROVE Filed(then[j], j, rec, known, rh)
      BY <1>5, <1>6 DEF Files
    <2>. QED
      BY <1>7, <2>1 DEF Files
  <1>9. \A u : In(r, u) <=> In(s, u) /\ u # s[g]
    BY <1>3, <1>4, OthersStay
  <1>10. Nowhere(then, s[g])
    <2>1. rec[s[g]].SlotIdx = d
      BY <1>3 DEF Filed
    <2>2. ASSUME NEW j \in 0..(SlotNum - 1), j # d PROVE ~In(lists[j], s[g])
      <3>1. \A k \in 1..Len(lists[j]) : rec[lists[j][k]].SlotIdx = j
        BY DEF Files, Filed
      <3>. QED
        BY <2>1, <2>2, <3>1 DEF In
    <2>. QED
      BY <1>6, <1>9, <2>2 DEF Nowhere
  <1>. QED
    BY <1>2, <1>4, <1>6, <1>8, <1>10

(* A timer runs now: it is due; until the callback has cancelled, the next *)
(* one in the list is in tmpIt; and when there was none, those behind have *)
(* just been added.                                                        *)
RunsNow(s, rec, known, m, rh, x, y, may) ==
    /\ x \in known
    /\ m = rec[x].due \/ (Whole(rec[x]) /\ m = rec[x].due + SlotNum)
    /\ In(s, x) \/ ~may
    /\ In(s, x) /\ may /\ y # "end" =>
         \E k \in 1..Len(s) : k + 1 \in 1..Len(s) /\ s[k] = x /\ s[k + 1] = y
    /\ ~In(s, x) /\ rh = rec[x].id /\ y # "end" => 1 \in 1..Len(s) /\ s[1] = y
    /\ (In(s, x) \/ rh = rec[x].id) /\ y = "end" =>
         \A k \in 1..Len(s) : s[k] # x /\ Ahead(s, "run", x, k) => Fresh(rec[s[k]], m)

Current == slots[Slot(wheelNow)]

(* The timer that runs is still there, or handle() will find it removed. *)
Steady == wheelAt = "run" => In(Current, it) \/ wheelRh = tim[it].id

WheelData ==
    /\ wheelNow \in Nat /\ wheelAdded \subseteq WheelTimers
    /\ tim \in [WheelTimers -> TimRec]
    /\ \A t \in wheelAdded : tim[t].id \in WheelIds

WheelLists ==
    /\ Files(slots, tim, wheelAdded, wheelRh)
    /\ wheelRh # 0 => \E t \in wheelAdded : tim[t].id = wheelRh
    /\ wheelAt = "sleep" => it = "end"
    /\ wheelAt = "scan" => it = "end" \/ In(Current, it)
    /\ wheelAt = "run" =>
         RunsNow(Current, tim, wheelAdded, wheelNow, wheelRh, it, tmpIt, wheelCancel)
    /\ Steady => Timetable(slots, tim, wheelNow, wheelAt, it)

WheelInv == WheelData /\ (Wheel!DistinctIds /\ wheelAt # "broken" => WheelLists)

(* An id stays with its timer, whatever happens. *)
LEMMA IdsStay ==
    ASSUME WheelData, wheelAdded \subseteq wheelAdded',
           \A t \in wheelAdded : tim'[t].id = tim[t].id
    PROVE  Wheel!DistinctIds' => Wheel!DistinctIds
  BY DEF WheelData, Wheel!DistinctIds

LEMMA WheelDataStays ==
    ASSUME WheelData, wheelAdded' = wheelAdded, wheelNow' = wheelNow, tim' = tim
    PROVE  WheelData' /\ (Wheel!DistinctIds' => Wheel!DistinctIds)
  BY DEF WheelData, Wheel!DistinctIds

LEMMA SetAnew ==
    ASSUME WheelData, NEW id \in WheelIds \cup {0}, NEW ms \in Nat, NEW interval \in Nat,
           NEW w, w = Wheel!Wound(id, ms, interval)
    PROVE  w \in TimRec /\ w.id = id /\ (\A rh : rh # id => Set(w, wheelNow, rh, wheelAt))
  <1>1. wheelNow \in Nat
    BY DEF WheelData
  <1>2. /\ w \in TimRec /\ w.id = id
        /\ Coming(w, wheelNow, wheelNow + SlotNum - 1)
        /\ (w.SlotIdx = Slot(wheelNow) /\ wheelAt = "run" => Fresh(w, wheelNow))
    BY <1>1, WoundIs
  <1>. QED
    BY <1>2 DEF Set

LEMMA WheelAdding ==
    ASSUME WheelInv, NEW t \in WheelTimers, NEW id \in WheelIds, NEW ms \in WheelDelays,
           NEW interval \in WheelDelays \cup {0}, Wheel!addTimer(t, id, ms, interval)
    PROVE  WheelInv'
  <1>1. PICK w : w = Wheel!Wound(id, ms, interval)
    OBVIOUS
  <1>2. /\ wheelAt \in {"sleep", "run"} /\ t \notin wheelAdded
        /\ wheelAdded' = wheelAdded \cup {t} /\ tim' = [tim EXCEPT ![t] = w]
        /\ slots' = [slots EXCEPT ![tim'[t].SlotIdx] = Append(@, t)]
        /\ wheelNow' = wheelNow /\ wheelRh' = wheelRh /\ wheelAt' = wheelAt /\ it' = it
        /\ tmpIt' = tmpIt /\ wheelCancel' = wheelCancel
    BY <1>1 DEF Wheel!addTimer
  <1>3. WheelData
    BY DEF WheelInv
  <1>4. ms \in Nat /\ interval \in Nat
    BY NetAssumption
  <1>5. w \in TimRec /\ w.id = id /\ (\A rh : rh # id => Set(w, wheelNow, rh, wheelAt))
    BY <1>1, <1>3, <1>4, SetAnew
  <1>6. tim \in [WheelTimers -> TimRec] /\ wheelAdded \subseteq WheelTimers /\ wheelNow \in Nat
    BY <1>3 DEF WheelData
  <1>7. /\ tim' \in [WheelTimers -> TimRec] /\ tim'[t] = w
        /\ \A u \in WheelTimers : u # t => tim'[u] = tim[u]
    BY <1>2, <1>5, <1>6
  <1>8. WheelData'
    <2>1. \A u \in wheelAdded' : tim'[u].id \in WheelIds
      BY <1>2, <1>3, <1>5, <1>6, <1>7 DEF WheelData
    <2>. QED
      BY <1>2, <1>6, <1>7, <2>1 DEF WheelData
  <1>9. ASSUME Wheel!DistinctIds' PROVE WheelLists'
    <2>1. \A u \in wheelAdded : tim'[u].id = tim[u].id
      BY <1>2, <1>6, <1>7
    <2>2. Wheel!DistinctIds
      BY <1>2, <1>3, <1>9, <2>1, IdsStay
    <2>3. WheelLists
      BY <1>2, <2>2 DEF WheelInv
    <2>4. wheelRh # id
      <3>1. CASE wheelRh = 0
        BY <3>1, NetAssumption
      <3>2. CASE wheelRh # 0
        <4>1. PICK u \in wheelAdded : tim[u].id = wheelRh
          BY <2>3, <3>2 DEF WheelLists
        <4>2. u # t /\ u \in wheelAdded' /\ t \in wheelAdded' /\ tim'[u].id = wheelRh
          BY <1>2, <2>1, <4>1
        <4>3. tim'[t].id # tim'[u].id
          BY <1>9, <4>2 DEF Wheel!DistinctIds
        <4>. QED
          BY <1>5, <1>7, <4>2, <4>3
      <3>. QED
        BY <3>1, <3>2
    <2>5. Files(slots, tim, wheelAdded, wheelRh)
      BY <2>3 DEF WheelLists
    <2>6. Nowhere(slots, t)
      BY <1>2, <2>5 DEF Nowhere, In, Files, Filed
    <2>7. Set(w, wheelNow, wheelRh, wheelAt)
      BY <1>5, <2>4
    <2>8. slots' = [slots EXCEPT ![w.SlotIdx] = Append(@, t)]
      BY <1>2, <1>7
    <2>9. t \in wheelAdded' /\ wheelAdded \subseteq wheelAdded'
      BY <1>2
    <2>f. Filing(slots, tim, wheelAdded, wheelRh, t, wheelNow, w, slots', tim', wheelAdded',
                 wheelAt)
      BY <1>2, <1>6, <2>5, <2>6, <2>7, <2>8, <2>9 DEF Filing
    <2>10. Files(slots', tim', wheelAdded', wheelRh)
      BY <2>f, IsFiled
    <2>11. it # t
      <3>1. wheelAt = "run" => it \in wheelAdded
        BY <2>3 DEF WheelLists, RunsNow
      <3>2. wheelAt = "sleep" => it = "end"
        BY <2>3 DEF WheelLists
      <3>. QED
        BY <1>2, <3>1, <3>2, NetAssumption
    <2>12. ASSUME Timetable(slots, tim, wheelNow, wheelAt, it)
           PROVE  Timetable(slots', tim', wheelNow, wheelAt, it)
      BY <1>2, <2>11, <2>12, <2>f, IsFiled
    <2>13. PICK d \in 0..(SlotNum - 1) : d = Slot(wheelNow)
      BY <1>6, SlotIs
    <2>14. PICK s \in Seq(WheelTimers) : s = slots[d]
      BY <2>5, <2>13 DEF Files
    <2>15. PICK r : r = slots'[d]
      OBVIOUS
    <2>16. \/ r = s
           \/ r = Append(s, t) /\ w.SlotIdx = d
      <3>1. w.SlotIdx \in 0..(SlotNum - 1)
        BY <1>5 DEF TimRec
      <3>2. slots \in [0..(SlotNum - 1) -> Seq(WheelTimers)]
        BY <2>5 DEF Files
      <3>. QED
        BY <2>8, <2>13, <2>14, <2>15, <3>1, <3>2
    <2>17. NoTwice(s) /\ ~In(s, t)
      BY <2>5, <2>6, <2>13, <2>14 DEF Files, Filed, Nowhere
    <2>18. Len(s) \in Nat
      BY <2>14
    <2>19. /\ \A k \in 1..Len(s) : k \in 1..Len(r) /\ r[k] = s[k]
           /\ \A k \in 1..Len(r) : k \in 1..Len(s) \/ (k = Len(r) /\ r[k] = t /\ w.SlotIdx = d)
           /\ (In(r, it) <=> In(s, it))
      <3>1. CASE r = s
        BY <3>1
      <3>2. CASE r = Append(s, t) /\ w.SlotIdx = d
        <4>1. Len(r) = Len(s) + 1 /\ r[Len(s) + 1] = t /\ \A k \in 1..Len(s) : r[k] = s[k]
          BY <2>17, <3>2, OneMore
        <4>2. \A k \in 1..Len(r) : k \in 1..Len(s) \/ k = Len(s) + 1
          BY <2>18, <4>1
        <4>3. In(r, it) <=> In(s, it) \/ it = t
          BY <2>17, <3>2, OneMore
        <4>4. \A k \in 1..Len(s) : k \in 1..Len(r)
          BY <2>18, <4>1
        <4>. QED
          BY <2>11, <3>2, <4>1, <4>2, <4>3, <4>4
      <3>. QED
        BY <2>16, <3>1, <3>2
    <2>20. wheelAt = "run" =>
             RunsNow(r, tim', wheelAdded', wheelNow, wheelRh, it, tmpIt, wheelCancel)
      <3>1. SUFFICES ASSUME wheelAt = "run"
                     PROVE  RunsNow(r, tim', wheelAdded', wheelNow, wheelRh, it, tmpIt,
                                    wheelCancel)
        OBVIOUS
      <3>2. RunsNow(s, tim, wheelAdded, wheelNow, wheelRh, it, tmpIt, wheelCancel)
        BY <2>3, <2>13, <2>14, <3>1 DEF WheelLists, Current
      <3>3. it \in wheelAdded /\ tim'[it] = tim[it]
        BY <1>6, <1>7, <2>11, <3>2 DEF RunsNow
      <3>4. In(r, it) /\ wheelCancel /\ tmpIt # "end" =>
              \E k \in 1..Len(r) : k + 1 \in 1..Len(r) /\ r[k] = it /\ r[k + 1] = tmpIt
        BY <2>19, <3>2 DEF RunsNow
      <3>5. ~In(r, it) /\ wheelRh = tim'[it].id /\ tmpIt # "end" =>
              1 \in 1..Len(r) /\ r[1] = tmpIt
        BY <2>19, <3>2, <3>3 DEF RunsNow
      <3>6. ASSUME In(r, it) \/ wheelRh = tim'[it].id, tmpIt = "end", NEW k \in 1..Len(r),
                   r[k] # it, Ahead(r, "run", it, k)
            PROVE  Fresh(tim'[r[k]], wheelNow)
        <4>1. CASE k \in 1..Len(s)
          <5>1. Ahead(s, "run", it, k)
            <6>1. \A l \in 1..k : l \in 1..Len(s)
              BY <2>18, <4>1
            <6>. QED
              BY <2>19, <3>6, <6>1 DEF Ahead
          <5>2. Fresh(tim[s[k]], wheelNow)
            BY <2>19, <3>2, <3>3, <3>6, <4>1, <5>1 DEF RunsNow
          <5>3. s[k] \in WheelTimers /\ s[k] # t
            BY <2>14, <2>17, <4>1 DEF In
          <5>. QED
            BY <1>7, <2>19, <4>1, <5>2, <5>3
        <4>2. CASE r[k] = t /\ w.SlotIdx = d
          BY <1>7, <2>7, <2>13, <3>1, <4>2 DEF Set
        <4>. QED
          BY <2>19, <4>1, <4>2
      <3>. QED
        BY <1>2, <2>19, <3>2, <3>3, <3>4, <3>5, <3>6 DEF RunsNow
    <2>21. Current' = r
      BY <1>2, <2>13, <2>15 DEF Current
    <2>22. Steady' => Steady
      <3>1. wheelAt = "run" => tim'[it] = tim[it]
        BY <1>6, <1>7, <2>3, <2>11 DEF WheelLists, RunsNow
      <3>2. Current = s
        BY <2>13, <2>14 DEF Current
      <3>. QED
        BY <1>2, <2>19, <2>21, <3>1, <3>2 DEF Steady
    <2>23. Steady' => Timetable(slots', tim', wheelNow', wheelAt', it')
      BY <1>2, <2>3, <2>12, <2>22 DEF WheelLists
    <2>24. wheelRh' # 0 => \E u \in wheelAdded' : tim'[u].id = wheelRh'
      BY <1>2, <2>1, <2>3 DEF WheelLists
    <2>25. wheelAt' = "sleep" => it' = "end"
      BY <1>2, <2>3 DEF WheelLists
    <2>26. wheelAt' = "run" => RunsNow(Current', tim', wheelAdded', wheelNow', wheelRh', it',
                                       tmpIt', wheelCancel')
      BY <1>2, <2>20, <2>21
    <2>. QED
      BY <1>2, <2>10, <2>23, <2>24, <2>25, <2>26 DEF WheelLists
  <1>. QED
    BY <1>8, <1>9 DEF WheelInv

LEMMA WheelDeleting ==
    ASSUME WheelInv, NEW t \in WheelTimers, Wheel!delTimer(t)
    PROVE  WheelInv'
  <1>1. WheelData
    BY DEF WheelInv
  <1>2. /\ wheelAt \in {"sleep", "run"} /\ wheelCancel
        /\ wheelNow' = wheelNow /\ tim' = tim /\ wheelAdded' = wheelAdded /\ wheelAt' = wheelAt
        /\ it' = it /\ tmpIt' = tmpIt /\ wheelCancel' = (wheelAt = "sleep")
    BY DEF Wheel!delTimer
  <1>3. WheelData' /\ (Wheel!DistinctIds' => Wheel!DistinctIds)
    BY <1>1, <1>2, WheelDataStays
  <1>4. ASSUME Wheel!DistinctIds' PROVE WheelLists'
    <2>1. Wheel!DistinctIds /\ WheelLists
      BY <1>2, <1>3, <1>4 DEF WheelInv
    <2>2. Files(slots, tim, wheelAdded, wheelRh)
      BY <2>1 DEF WheelLists
    <2>3. wheelNow \in Nat /\ tim \in [WheelTimers -> TimRec]
      BY <1>1 DEF WheelData
    <2>4. PICK d \in 0..(SlotNum - 1) : d = tim[t].SlotIdx
      BY <2>3 DEF TimRec
    <2>5. PICK s \in Seq(WheelTimers) : s = slots[d]
      BY <2>2 DEF Files
    <2>6. PICK g \in 1..Len(s) : s[g] = t
      BY <2>4, <2>5 DEF Wheel!delTimer, Wheel!Contains
    <2>7. Filed(s, d, tim, wheelAdded, wheelRh) /\ NoTwice(s)
      BY <2>2, <2>5 DEF Files, Filed
    <2>8. t \in wheelAdded /\ tim[t].id # wheelRh
      BY <2>6, <2>7 DEF Filed
    <2>9. \A k \in 1..Len(s) : tim[s[k]].id = tim[t].id <=> k = g
      <3>1. ASSUME NEW k \in 1..Len(s), tim[s[k]].id = tim[t].id PROVE k = g
        <4>1. s[k] \in wheelAdded
          BY <2>7 DEF Filed
        <4>2. s[k] = s[g]
          BY <2>1, <2>6, <2>8, <3>1, <4>1 DEF Wheel!DistinctIds
        <4>. QED
          BY <2>7, <4>2 DEF NoTwice
      <3>. QED
        BY <2>6, <3>1
    <2>10. /\ wheelRh' = IF Wheel!slotIdx = d /\ g = 1 THEN tim[t].id ELSE wheelRh
           /\ slots' = [slots EXCEPT ![d] = Wheel!RemoveAt(@, g)]
      <3>1. {k \in 1..Len(s) : tim[s[k]].id = tim[t].id} = {g}
        BY <2>9
      <3>2. Wheel!Min({g}) = g
        <4>1. g \in Nat
          OBVIOUS
        <4>. QED
          BY <4>1 DEF Wheel!Min
      <3>3. Wheel!SelectInSeq(s, LAMBDA u : tim[u].id = tim[t].id) = g
        BY <3>1, <3>2 DEF Wheel!SelectInSeq
      <3>. QED
        BY <2>4, <2>5, <3>3 DEF Wheel!delTimer
    <2>11. PICK c \in 0..(SlotNum - 1) : c = Slot(wheelNow) /\ c = Wheel!slotIdx
      BY <2>3, SlotIs DEF Slot, Wheel!slotIdx
    <2>12. PICK L : L = slots'
      OBVIOUS
    <2>13. g \in 1..Len(slots[d]) /\ L = [slots EXCEPT ![d] = Wheel!RemoveAt(@, g)]
           /\ slots[d][g] = t
      BY <2>5, <2>6, <2>10, <2>12
    <2>u. Unfiling(slots, tim, wheelAdded, wheelRh, d, g, L)
      BY <2>2, <2>13 DEF Unfiling
    <2>14. /\ Files(L, tim, wheelAdded, wheelRh) /\ Nowhere(L, t)
           /\ L[d] = Wheel!RemoveAt(s, g)
           /\ \A j \in 0..(SlotNum - 1) : j # d => L[j] = slots[j]
      <3>1. Files(L, tim, wheelAdded, wheelRh)
        BY <2>u, IsUnfiled
      <3>2. Nowhere(L, slots[d][g])
        BY <2>u, IsUnfiled
      <3>3. L[d] = Wheel!RemoveAt(slots[d], g)
        BY <2>u, IsUnfiled
      <3>4. \A j \in 0..(SlotNum - 1) : j # d => L[j] = slots[j]
        BY <2>u, IsUnfiled
      <3>. QED
        BY <2>5, <2>13, <3>1, <3>2, <3>3, <3>4
    <2>15. PICK rh : rh = wheelRh'
      OBVIOUS
    <2>16. \/ rh = wheelRh
           \/ rh = tim[t].id /\ d = c /\ g = 1
      BY <2>10, <2>11, <2>15
    <2>17. Files(L, tim, wheelAdded, rh)
      <3>1. CASE rh = wheelRh
        BY <2>14, <3>1
      <3>2. CASE rh = tim[t].id
        <4>1. ASSUME NEW j \in 0..(SlotNum - 1) PROVE Filed(L[j], j, tim, wheelAdded, rh)
          <5>1. Filed(L[j], j, tim, wheelAdded, wheelRh)
            BY <2>14 DEF Files
          <5>2. \A k \in 1..Len(L[j]) : L[j][k] \in wheelAdded /\ L[j][k] # t
            BY <2>14, <5>1 DEF Filed, Nowhere, In
          <5>3. \A k \in 1..Len(L[j]) : tim[L[j][k]].id # rh
            BY <2>1, <2>8, <3>2, <5>2 DEF Wheel!DistinctIds
          <5>. QED
            BY <5>1, <5>3 DEF Filed
        <4>. QED
          BY <2>14, <4>1 DEF Files
      <3>. QED
        BY <2>16, <3>1, <3>2
    <2>18. rh # 0 => \E u \in wheelAdded : tim[u].id = rh
      BY <2>1, <2>8, <2>16 DEF WheelLists
    <2>19. PICK r : r = L[c]
      OBVIOUS
    <2>20. PICK o \in Seq(WheelTimers) : o = slots[c]
      BY <2>2 DEF Files
    <2>21. Current = o /\ Current' = r
      BY <1>2, <2>11, <2>12, <2>19, <2>20 DEF Current
    <2>22. wheelAt = "run" =>
             RunsNow(o, tim, wheelAdded, wheelNow, wheelRh, it, tmpIt, TRUE)
      BY <1>2, <2>1, <2>21 DEF WheelLists
    <2>23. wheelAt = "run" =>
             /\ In(o, it)
             /\ \A k \in 1..Len(o) : tim[o[k]].id # wheelRh
             /\ wheelRh # tim[it].id
      <3>1. wheelAt = "run" => In(o, it)
        BY <2>22 DEF RunsNow
      <3>2. \A k \in 1..Len(o) : tim[o[k]].id # wheelRh
        BY <2>2, <2>20 DEF Files, Filed
      <3>. QED
        BY <3>1, <3>2 DEF In
    <2>24. d # c => r = o
      BY <2>14, <2>19, <2>20
    <2>25. d = c => r = Wheel!RemoveAt(o, g) /\ o = s
      BY <2>5, <2>14, <2>19, <2>20
    <2>26. d = c =>
             /\ Len(r) = Len(o) - 1
             /\ \A k \in 1..Len(r) : Was(g, k) \in 1..Len(o) /\ r[k] = o[Was(g, k)]
             /\ \A x : In(r, x) <=> In(o, x) /\ x # t
      <3>1. SUFFICES ASSUME d = c
                     PROVE  /\ Len(r) = Len(o) - 1
                            /\ \A k \in 1..Len(r) : Was(g, k) \in 1..Len(o) /\ r[k] = o[Was(g, k)]
                            /\ \A x : In(r, x) <=> In(o, x) /\ x # t
        OBVIOUS
      <3>2. NoTwice(o) /\ g \in 1..Len(o) /\ r = Wheel!RemoveAt(o, g) /\ o[g] = t
        BY <2>6, <2>7, <2>25, <3>1
      <3>3. Len(r) = Len(o) - 1
        BY <3>2, OthersStay
      <3>4. ASSUME NEW k \in 1..Len(r) PROVE Was(g, k) \in 1..Len(o) /\ r[k] = o[Was(g, k)]
        BY <3>2, WasThere
      <3>5. \A x : In(r, x) <=> In(o, x) /\ x # t
        BY <3>2, OthersStay
      <3>. QED
        BY <3>3, <3>4, <3>5
    <2>27. wheelAt = "run" => RunsNow(r, tim, wheelAdded, wheelNow, rh, it, tmpIt, FALSE)
      <3>1. SUFFICES ASSUME wheelAt = "run"
                     PROVE  RunsNow(r, tim, wheelAdded, wheelNow, rh, it, tmpIt, FALSE)
        OBVIOUS
      <3>2. /\ it \in wheelAdded
            /\ wheelNow = tim[it].due \/ (Whole(tim[it]) /\ wheelNow = tim[it].due + SlotNum)
        BY <2>22, <3>1 DEF RunsNow
      <3>3. CASE d # c
        BY <2>16, <2>22, <2>23, <2>24, <3>1, <3>3 DEF RunsNow
      <3>4. CASE d = c /\ t # it
        <4>1. In(r, it)
          BY <2>23, <2>26, <3>1, <3>4
        <4>2. ASSUME tmpIt = "end", NEW k \in 1..Len(r), r[k] # it, Ahead(r, "run", it, k)
              PROVE  Fresh(tim[r[k]], wheelNow)
          <5>1. Was(g, k) \in 1..Len(o) /\ r[k] = o[Was(g, k)]
            BY <2>26, <3>4
          <5>2. NoTwice(o) /\ g \in 1..Len(o) /\ r = Wheel!RemoveAt(o, g) /\ o[g] # it
            BY <2>6, <2>7, <2>25, <3>4
          <5>3. Ahead(o, "run", it, Was(g, k))
            BY <4>2, <5>2, RemoveAhead
          <5>. QED
            BY <2>22, <2>23, <3>1, <4>2, <5>1, <5>3 DEF RunsNow
        <4>. QED
          BY <3>2, <4>1, <4>2 DEF RunsNow
      <3>5. CASE d = c /\ t = it
        <4>1. ~In(r, it)
          BY <2>26, <3>5
        <4>2. g # 1 => rh # tim[it].id
          BY <2>16, <2>23, <3>1
        <4>3. ASSUME g = 1, tmpIt # "end" PROVE 1 \in 1..Len(r) /\ r[1] = tmpIt
          <5>1. PICK k \in 1..Len(o) : k + 1 \in 1..Len(o) /\ o[k] = it /\ o[k + 1] = tmpIt
            BY <2>22, <2>23, <3>1, <4>3 DEF RunsNow
          <5>2. k = g
            BY <2>6, <2>7, <2>25, <3>5, <5>1 DEF NoTwice
          <5>3. Len(o) \in Nat /\ 1 + 1 = 2
            OBVIOUS
          <5>4. 1 \in 1..Len(r) /\ Was(1, 1) = 2
            BY <2>26, <3>5, <4>3, <5>1, <5>2, <5>3 DEF Was
          <5>. QED
            BY <2>26, <3>5, <4>3, <5>1, <5>2, <5>3, <5>4
        <4>4. ASSUME g = 1, tmpIt = "end", NEW k \in 1..Len(r)
              PROVE  Fresh(tim[r[k]], wheelNow)
          <5>1. Was(g, k) \in 1..Len(o) /\ r[k] = o[Was(g, k)] /\ o[g] = it
            BY <2>6, <2>25, <2>26, <3>5
          <5>2. 1 \in 1..Was(g, k)
            BY <5>1
          <5>3. Ahead(o, "run", it, Was(g, k))
            BY <4>4, <5>1, <5>2 DEF Ahead
          <5>4. r[k] # it
            BY <4>1 DEF In
          <5>. QED
            BY <2>22, <2>23, <3>1, <4>4, <5>1, <5>3, <5>4 DEF RunsNow
        <4>. QED
          BY <3>2, <4>1, <4>2, <4>3, <4>4 DEF RunsNow
      <3>. QED
        BY <3>3, <3>4, <3>5
    <2>28. wheelAt' = "run" => RunsNow(Current', tim', wheelAdded', wheelNow', wheelRh', it',
                                       tmpIt', wheelCancel')
      <3>1. wheelAt = "run" => wheelCancel' = FALSE
        BY <1>2
      <3>. QED
        BY <1>2, <2>15, <2>21, <2>27, <3>1
    <2>29. ASSUME Steady' PROVE Timetable(L, tim, wheelNow, wheelAt, it)
      <3>1. Timetable(slots, tim, wheelNow, wheelAt, it)
        BY <2>1, <2>21, <2>23 DEF WheelLists, Steady
      <3>2. \A j \in 0..(SlotNum - 1) :
              j # d => Timely(L[j], tim, wheelNow, j = Slot(wheelNow), wheelAt, it)
        BY <2>14, <3>1 DEF Timetable
      <3>3. PICK b \in BOOLEAN : b = (d = Slot(wheelNow))
        OBVIOUS
      <3>4. Timely(s, tim, wheelNow, b, wheelAt, it)
        BY <2>5, <3>1, <3>3 DEF Timetable
      <3>5. \/ ~b
            \/ s[g] # it
            \/ wheelAt = "run" /\ g = 1
        <4>1. ASSUME b, s[g] = it, wheelAt = "run" PROVE g = 1
          <5>1. ~In(r, it)
            BY <2>6, <2>11, <2>26, <3>3, <4>1
          <5>2. rh = tim[it].id
            BY <1>2, <2>15, <2>21, <2>29, <4>1, <5>1 DEF Steady
          <5>. QED
            BY <2>16, <2>23, <4>1, <5>2
        <4>2. wheelAt = "sleep" => s[g] # it
          <5>1. s[g] \in WheelTimers /\ (wheelAt = "sleep" => it = "end")
            BY <2>1, <2>6 DEF WheelLists
          <5>. QED
            BY <5>1, NetAssumption
        <4>. QED
          BY <1>2, <4>1, <4>2
      <3>6. Timely(Wheel!RemoveAt(s, g), tim, wheelNow, b, wheelAt, it)
        BY <2>3, <2>7, <3>4, <3>5, RemoveTimely
      <3>. QED
        BY <2>14, <3>2, <3>3, <3>6 DEF Timetable
    <2>30. wheelAt' = "sleep" => it' = "end"
      BY <1>2, <2>1 DEF WheelLists
    <2>31. Files(slots', tim', wheelAdded', wheelRh')
      BY <1>2, <2>12, <2>15, <2>17
    <2>32. Steady' => Timetable(slots', tim', wheelNow', wheelAt', it')
      BY <1>2, <2>12, <2>29
    <2>33. wheelRh' # 0 => \E u \in wheelAdded' : tim'[u].id = wheelRh'
      BY <1>2, <2>15, <2>18
    <2>. QED
      BY <1>2, <2>28, <2>30, <2>31, <2>32, <2>33 DEF WheelLists
  <1>. QED
    BY <1>3, <1>4 DEF WheelInv

(* Steps that leave timers and lists alone. *)
LEMMA FilesTwice ==
    ASSUME WheelLists
    PROVE  /\ Files(slots, tim, wheelAdded, wheelRh)
           /\ slots \in [0..(SlotNum - 1) -> Seq(WheelTimers)]
           /\ \A j \in 0..(SlotNum - 1) : Filed(slots[j], j, tim, wheelAdded, wheelRh)
  BY DEF WheelLists, Files

LEMMA WheelHandling ==
    ASSUME WheelInv, Wheel!handle
    PROVE  WheelInv'
  <1>1. /\ wheelAt = "sleep" /\ wheelAt' = "scan" /\ it' = Wheel!First(slots[Wheel!slotIdx])
        /\ wheelNow' = wheelNow /\ slots' = slots /\ wheelRh' = wheelRh /\ tim' = tim
        /\ wheelAdded' = wheelAdded
    BY DEF Wheel!handle
  <1>2. WheelData' /\ (Wheel!DistinctIds' => Wheel!DistinctIds)
    BY <1>1, WheelDataStays DEF WheelInv
  <1>3. ASSUME Wheel!DistinctIds' PROVE WheelLists'
    <2>1. WheelLists
      BY <1>1, <1>2, <1>3 DEF WheelInv
    <2>2. /\ Files(slots, tim, wheelAdded, wheelRh)
          /\ slots \in [0..(SlotNum - 1) -> Seq(WheelTimers)]
      BY <2>1, FilesTwice
    <2>3. PICK c \in 0..(SlotNum - 1) : c = Slot(wheelNow) /\ c = Wheel!slotIdx
      BY SlotIs DEF WheelInv, WheelData, Slot, Wheel!slotIdx
    <2>4. PICK s \in Seq(WheelTimers) : s = slots[c]
      BY <2>2
    <2>5. Current' = s
      BY <1>1, <2>3, <2>4 DEF Current
    <2>6. it' = IF s = <<>> THEN "end" ELSE Head(s)
      BY <1>1, <2>3, <2>4 DEF Wheel!First, Wheel!End
    <2>7. s # <<>> => 1 \in 1..Len(s) /\ it' = s[1]
      BY <2>6
    <2>8. it' = "end" \/ In(s, it')
      BY <2>6, <2>7 DEF In
    <2>9. Timetable(slots, tim, wheelNow, "sleep", it)
      BY <1>1, <2>1 DEF WheelLists, Steady
    <2>10. ASSUME NEW j \in 0..(SlotNum - 1)
           PROVE  Timely(slots[j], tim, wheelNow, j = Slot(wheelNow), "scan", it')
      <3>1. Timely(slots[j], tim, wheelNow, j = Slot(wheelNow), "sleep", it)
        BY <2>9 DEF Timetable
      <3>2. \A k \in 1..Len(slots[j]) : Coming(tim[slots[j][k]], wheelNow, wheelNow + SlotNum - 1)
        BY <3>1 DEF Timely, Ahead
      <3>3. CASE j = c
        <4>1. \A k \in 1..Len(s) : Ahead(s, "scan", it', k)
          <5>1. ASSUME NEW k \in 1..Len(s) PROVE Ahead(s, "scan", s[1], k)
            BY AheadFirst
          <5>2. ASSUME NEW k \in 1..Len(s) PROVE s # <<>>
            OBVIOUS
          <5>. QED
            BY <2>7, <5>1, <5>2
        <4>. QED
          BY <2>4, <3>2, <3>3, <4>1 DEF Timely
      <3>4. CASE j # c
        BY <2>3, <3>2, <3>4 DEF Timely
      <3>. QED
        BY <3>3, <3>4
    <2>11. Timetable(slots', tim', wheelNow', wheelAt', it')
      BY <1>1, <2>10 DEF Timetable
    <2>. QED
      BY <1>1, <2>1, <2>2, <2>5, <2>8, <2>11 DEF WheelLists
  <1>. QED
    BY <1>2, <1>3 DEF WheelInv

LEMMA WheelTurning ==
    ASSUME WheelInv, Wheel!Turn
    PROVE  WheelInv'
  <1>1. /\ wheelAt = "scan" /\ it # "end" /\ tim[it].Round > 0
        /\ tim' = [tim EXCEPT ![it].Round = @ - 1]
        /\ it' = Wheel!Behind(slots[Wheel!slotIdx], it)
        /\ wheelNow' = wheelNow /\ slots' = slots /\ wheelRh' = wheelRh
        /\ wheelAdded' = wheelAdded /\ wheelAt' = wheelAt
    BY DEF Wheel!Turn, Wheel!End
  <1>2. WheelData
    BY DEF WheelInv
  <1>3. tim \in [WheelTimers -> TimRec] /\ wheelAdded \subseteq WheelTimers /\ wheelNow \in Nat
    BY <1>2 DEF WheelData
  <1>4. ASSUME it \in WheelTimers
        PROVE  /\ tim' \in [WheelTimers -> TimRec]
               /\ tim'[it].id = tim[it].id /\ tim'[it].SlotIdx = tim[it].SlotIdx
               /\ \A u \in WheelTimers : u # it => tim'[u] = tim[u]
    <2>1. PICK r \in TimRec : r = tim[it]
      BY <1>3, <1>4
    <2>2. r.Round \in Nat /\ r.Round - 1 \in Nat
      <3>1. PICK n \in Nat : n = r.Round
        BY DEF TimRec
      <3>2. n > 0
        BY <1>1, <2>1, <3>1
      <3>. QED
        BY <3>1, <3>2
    <2>3. PICK x : x = [r EXCEPT !.Round = @ - 1]
      OBVIOUS
    <2>4. x \in TimRec
      BY <2>2, <2>3 DEF TimRec
    <2>5. x.id = r.id /\ x.SlotIdx = r.SlotIdx
      BY <2>3 DEF TimRec
    <2>6. tim' = [tim EXCEPT ![it] = x]
      BY <1>1, <2>1, <2>3
    <2>. QED
      BY <1>3, <1>4, <2>1, <2>4, <2>5, <2>6
  <1>5. ASSUME it \notin WheelTimers PROVE tim' = tim
    BY <1>1, <1>3, <1>5
  <1>6. tim' \in [WheelTimers -> TimRec] /\ \A u \in WheelTimers : tim'[u].id = tim[u].id
    BY <1>3, <1>4, <1>5
  <1>7. WheelData'
    BY <1>1, <1>2, <1>3, <1>6 DEF WheelData
  <1>8. Wheel!DistinctIds' => Wheel!DistinctIds
    BY <1>1, <1>2, <1>3, <1>6, IdsStay
  <1>9. ASSUME Wheel!DistinctIds' PROVE WheelLists'
    <2>1. WheelLists
      BY <1>1, <1>8, <1>9 DEF WheelInv
    <2>2. /\ Files(slots, tim, wheelAdded, wheelRh)
          /\ slots \in [0..(SlotNum - 1) -> Seq(WheelTimers)]
      BY <2>1, FilesTwice
    <2>3. PICK c \in 0..(SlotNum - 1) : c = Slot(wheelNow) /\ c = Wheel!slotIdx
      BY <1>3, SlotIs DEF Slot, Wheel!slotIdx
    <2>4. PICK s \in Seq(WheelTimers) : s = slots[c]
      BY <2>2
    <2>5. Current = s /\ Current' = s
      BY <1>1, <2>3, <2>4 DEF Current
    <2>6. PICK g \in 1..Len(s) : s[g] = it
      BY <1>1, <2>1, <2>5 DEF WheelLists, In
    <2>7. Filed(s, c, tim, wheelAdded, wheelRh) /\ NoTwice(s)
      BY <2>2, <2>4 DEF Files, Filed
    <2>8. it \in WheelTimers /\ it \in wheelAdded /\ tim[it].SlotIdx = c
      BY <1>3, <2>6, <2>7 DEF Filed
    <2>9. PICK y : y = Wheel!Behind(s, it)
      OBVIOUS
    <2>10. it' = y /\ y = IF g = Len(s) THEN "end" ELSE s[g + 1]
      BY <1>1, <2>3, <2>4, <2>6, <2>7, <2>9, PlaceOf
    <2>11. y = "end" \/ In(s, y)
      <3>1. g # Len(s) => g + 1 \in 1..Len(s)
        OBVIOUS
      <3>. QED
        BY <2>10, <3>1 DEF In
    <2>12. ASSUME NEW j \in 0..(SlotNum - 1) PROVE Filed(slots[j], j, tim', wheelAdded, wheelRh)
      <3>1. PICK o \in Seq(WheelTimers) : o = slots[j]
        BY <2>2
      <3>2. Filed(o, j, tim, wheelAdded, wheelRh)
        BY <2>2, <3>1 DEF Files
      <3>3. \A k \in 1..Len(o) : /\ tim'[o[k]].id = tim[o[k]].id
                                /\ tim'[o[k]].SlotIdx = tim[o[k]].SlotIdx
        <4>1. ASSUME NEW k \in 1..Len(o) PROVE o[k] \in WheelTimers
          BY <3>1
        <4>2. \A u \in WheelTimers : tim'[u].id = tim[u].id /\ tim'[u].SlotIdx = tim[u].SlotIdx
          BY <1>4, <2>8
        <4>. QED
          BY <4>1, <4>2
      <3>. QED
        BY <3>1, <3>2, <3>3 DEF Filed
    <2>13. Files(slots', tim', wheelAdded', wheelRh')
      BY <1>1, <2>2, <2>12 DEF Files
    <2>14. Timetable(slots, tim, wheelNow, "scan", it)
      BY <1>1, <2>1 DEF WheelLists, Steady
    <2>15. Timely(s, tim', wheelNow, TRUE, "scan", y)
      <3>1. Timely(s, tim, wheelNow, c = Slot(wheelNow), "scan", it)
        BY <2>4, <2>14 DEF Timetable
      <3>2. Timely(s, tim, wheelNow, TRUE, "scan", s[g])
        BY <2>3, <2>6, <3>1
      <3>3. tim' = [tim EXCEPT ![s[g]].Round = @ - 1] /\ tim' \in [WheelTimers -> TimRec]
            /\ tim[s[g]].SlotIdx = Slot(wheelNow) /\ tim[s[g]].Round > 0
        BY <1>1, <1>6, <2>3, <2>6, <2>8
      <3>. QED
        BY <1>3, <2>6, <2>7, <2>9, <3>2, <3>3, TurnTimely
    <2>16. ASSUME NEW j \in 0..(SlotNum - 1), j # c
           PROVE  Timely(slots[j], tim', wheelNow, FALSE, "scan", y)
      <3>1. PICK o \in Seq(WheelTimers) : o = slots[j]
        BY <2>2
      <3>2. Filed(o, j, tim, wheelAdded, wheelRh)
        BY <2>2, <3>1 DEF Files
      <3>3. \A k \in 1..Len(o) : o[k] \in WheelTimers /\ o[k] # it
        BY <2>8, <2>16, <3>2 DEF Filed
      <3>4. \A k \in 1..Len(o) : tim'[o[k]] = tim[o[k]]
        BY <1>4, <2>8, <3>3
      <3>5. Timely(o, tim, wheelNow, FALSE, "scan", it)
        <4>1. (j = Slot(wheelNow)) = FALSE
          BY <2>3, <2>16
        <4>2. Timely(o, tim, wheelNow, j = Slot(wheelNow), "scan", it)
          BY <2>14, <3>1 DEF Timetable
        <4>. QED
          BY <4>1, <4>2
      <3>6. Timely(o, tim', wheelNow, FALSE, "scan", it)
        BY <3>4, <3>5, ListStays
      <3>. QED
        BY <3>1, <3>6 DEF Timely
    <2>17. Timetable(slots', tim', wheelNow', wheelAt', it')
      <3>1. ASSUME NEW j \in 0..(SlotNum - 1)
            PROVE  Timely(slots[j], tim', wheelNow, j = Slot(wheelNow), "scan", y)
        <4>1. CASE j = c
          <5>1. (j = Slot(wheelNow)) = TRUE
            BY <2>3, <4>1
          <5>. QED
            BY <2>4, <2>15, <4>1, <5>1
        <4>2. CASE j # c
          <5>1. (j = Slot(wheelNow)) = FALSE
            BY <2>3, <4>2
          <5>. QED
            BY <2>16, <4>2, <5>1
        <4>. QED
          BY <4>1, <4>2
      <3>. QED
        BY <1>1, <2>10, <3>1 DEF Timetable
    <2>18. wheelRh' # 0 => \E u \in wheelAdded' : tim'[u].id = wheelRh'
      BY <1>1, <1>3, <1>6, <2>1 DEF WheelLists
    <2>. QED
      BY <1>1, <2>5, <2>10, <2>11, <2>13, <2>17, <2>18 DEF WheelLists
  <1>. QED
    BY <1>7, <1>9 DEF WheelInv

LEMMA WheelRunning ==
    ASSUME WheelInv, Wheel!run
    PROVE  WheelInv'
  <1>1. /\ wheelAt = "scan" /\ it # "end" /\ tim[it].Round = 0
        /\ tmpIt' = Wheel!Behind(slots[Wheel!slotIdx], it)
        /\ wheelAt' = "run" /\ wheelCancel' = TRUE
        /\ wheelNow' = wheelNow /\ slots' = slots /\ wheelRh' = wheelRh /\ tim' = tim
        /\ wheelAdded' = wheelAdded /\ it' = it
    BY DEF Wheel!run, Wheel!End
  <1>2. WheelData' /\ (Wheel!DistinctIds' => Wheel!DistinctIds)
    BY <1>1, WheelDataStays DEF WheelInv
  <1>3. wheelNow \in Nat /\ tim \in [WheelTimers -> TimRec]
    BY DEF WheelInv, WheelData
  <1>4. ASSUME Wheel!DistinctIds' PROVE WheelLists'
    <2>1. WheelLists
      BY <1>1, <1>2, <1>4 DEF WheelInv
    <2>2. /\ Files(slots, tim, wheelAdded, wheelRh)
          /\ slots \in [0..(SlotNum - 1) -> Seq(WheelTimers)]
      BY <2>1, FilesTwice
    <2>3. PICK c \in 0..(SlotNum - 1) : c = Slot(wheelNow) /\ c = Wheel!slotIdx
      BY <1>3, SlotIs DEF Slot, Wheel!slotIdx
    <2>4. PICK s \in Seq(WheelTimers) : s = slots[c]
      BY <2>2
    <2>5. Current = s /\ Current' = s
      BY <1>1, <2>3, <2>4 DEF Current
    <2>6. PICK g \in 1..Len(s) : s[g] = it
      BY <1>1, <2>1, <2>5 DEF WheelLists, In
    <2>7. Filed(s, c, tim, wheelAdded, wheelRh) /\ NoTwice(s)
      BY <2>2, <2>4 DEF Files, Filed
    <2>8. it \in wheelAdded /\ it \in WheelTimers /\ tim[it].SlotIdx = c
      BY <2>6, <2>7 DEF Filed
    <2>9. PICK y : y = Wheel!Behind(s, it)
      OBVIOUS
    <2>10. tmpIt' = y /\ y = IF g = Len(s) THEN "end" ELSE s[g + 1]
      BY <1>1, <2>3, <2>4, <2>6, <2>7, <2>9, PlaceOf
    <2>11. In(s, it)
      BY <2>6 DEF In
    <2>12. Timetable(slots, tim, wheelNow, "scan", it)
      BY <1>1, <2>1 DEF WheelLists, Steady
    <2>13. wheelNow = tim[it].due \/ (Whole(tim[it]) /\ wheelNow = tim[it].due + SlotNum)
      <3>1. (c = Slot(wheelNow)) = TRUE
        BY <2>3
      <3>2. Timely(s, tim, wheelNow, c = Slot(wheelNow), "scan", it)
        BY <2>4, <2>12 DEF Timetable
      <3>3. Ahead(s, "scan", it, g)
        BY <2>6 DEF Ahead
      <3>4. Coming(tim[it], wheelNow, wheelNow + SlotNum - 1)
        BY <2>6, <3>1, <3>2, <3>3 DEF Timely
      <3>5. tim[it] \in TimRec
        BY <1>3, <2>8
      <3>. QED
        BY <1>1, <1>3, <2>3, <2>8, <3>4, <3>5, DueNow
    <2>14. y # "end" =>
             \E k \in 1..Len(s) : k + 1 \in 1..Len(s) /\ s[k] = it /\ s[k + 1] = y
      <3>1. g # Len(s) => g + 1 \in 1..Len(s)
        OBVIOUS
      <3>. QED
        BY <2>6, <2>10, <3>1
    <2>15. ASSUME y = "end", NEW k \in 1..Len(s), s[k] # it
           PROVE  ~Ahead(s, "run", it, k)
      <3>1. g = Len(s)
        <4>1. g # Len(s) => g + 1 \in 1..Len(s)
          OBVIOUS
        <4>2. g # Len(s) => s[g + 1] \in WheelTimers
          BY <4>1
        <4>. QED
          BY <2>10, <2>15, <4>2, NetAssumption
      <3>2. k # g
        BY <2>6, <2>15
      <3>3. ~(g <= k)
        BY <3>1, <3>2
      <3>. QED
        BY <2>6, <2>7, <3>3, AheadFrom
    <2>16. RunsNow(s, tim, wheelAdded, wheelNow, wheelRh, it, y, TRUE)
      BY <2>8, <2>11, <2>13, <2>14, <2>15 DEF RunsNow
    <2>17. ASSUME NEW j \in 0..(SlotNum - 1)
           PROVE  Timely(slots[j], tim, wheelNow, j = Slot(wheelNow), "run", it)
      <3>1. Timely(slots[j], tim, wheelNow, j = Slot(wheelNow), "scan", it)
        BY <2>12 DEF Timetable
      <3>2. j = Slot(wheelNow) =>
              \A k \in 1..Len(slots[j]) :
                Ahead(slots[j], "run", it, k) <=> Ahead(slots[j], "scan", it, k)
        BY <2>3, <2>4, <2>11 DEF Ahead
      <3>. QED
        BY <3>1, <3>2 DEF Timely
    <2>18. Timetable(slots', tim', wheelNow', wheelAt', it')
      BY <1>1, <2>17 DEF Timetable
    <2>19. wheelAt' = "run" => RunsNow(Current', tim', wheelAdded', wheelNow', wheelRh', it',
                                       tmpIt', wheelCancel')
      BY <1>1, <2>5, <2>10, <2>16
    <2>. QED
      BY <1>1, <2>1, <2>2, <2>18, <2>19 DEF WheelLists
  <1>. QED
    BY <1>2, <1>4 DEF WheelInv

LEMMA WheelRemoved ==
    ASSUME WheelInv, Wheel!Removed
    PROVE  WheelInv'
  <1>1. /\ wheelAt = "run" /\ wheelRh = tim[it].id
        /\ wheelRh' = 0 /\ it' = tmpIt
        /\ wheelAt' = IF tmpIt = "end" \/ Wheel!Contains(slots[Wheel!slotIdx], tmpIt)
                      THEN "scan" ELSE "broken"
        /\ wheelNow' = wheelNow /\ slots' = slots /\ tim' = tim /\ wheelAdded' = wheelAdded
    BY DEF Wheel!Removed, Wheel!RemovedItself, Wheel!End, Wheel!NoId
  <1>2. WheelData' /\ (Wheel!DistinctIds' => Wheel!DistinctIds)
    BY <1>1, WheelDataStays DEF WheelInv
  <1>3. wheelNow \in Nat /\ tim \in [WheelTimers -> TimRec]
        /\ \A u \in wheelAdded : tim[u].id \in WheelIds
    BY DEF WheelInv, WheelData
  <1>4. ASSUME Wheel!DistinctIds', wheelAt' # "broken" PROVE WheelLists'
    <2>1. WheelLists
      BY <1>1, <1>2, <1>4 DEF WheelInv
    <2>2. /\ Files(slots, tim, wheelAdded, wheelRh)
          /\ slots \in [0..(SlotNum - 1) -> Seq(WheelTimers)]
      BY <2>1, FilesTwice
    <2>3. PICK c \in 0..(SlotNum - 1) : c = Slot(wheelNow) /\ c = Wheel!slotIdx
      BY <1>3, SlotIs DEF Slot, Wheel!slotIdx
    <2>4. PICK s \in Seq(WheelTimers) : s = slots[c]
      BY <2>2
    <2>5. Current = s /\ Current' = s
      BY <1>1, <2>3, <2>4 DEF Current
    <2>6. RunsNow(s, tim, wheelAdded, wheelNow, wheelRh, it, tmpIt, wheelCancel)
      BY <1>1, <2>1, <2>5 DEF WheelLists
    <2>7. Filed(s, c, tim, wheelAdded, wheelRh) /\ NoTwice(s)
      BY <2>2, <2>4 DEF Files, Filed
    <2>8. \A k \in 1..Len(s) : s[k] # it
      BY <1>1, <2>7 DEF Filed
    <2>9. ~In(s, it)
      BY <2>8 DEF In
    <2>10. wheelAt' = "scan" /\ (tmpIt = "end" \/ In(s, tmpIt))
      BY <1>1, <1>4, <2>3, <2>4 DEF Wheel!Contains, In
    <2>11. Files(slots', tim', wheelAdded', 0)
      <3>1. ASSUME NEW j \in 0..(SlotNum - 1) PROVE Filed(slots[j], j, tim, wheelAdded, 0)
        <4>1. Filed(slots[j], j, tim, wheelAdded, wheelRh)
          BY <2>2 DEF Files
        <4>2. \A k \in 1..Len(slots[j]) : tim[slots[j][k]].id # 0
          BY <1>3, <4>1, NetAssumption DEF Filed
        <4>. QED
          BY <4>1, <4>2 DEF Filed
      <3>. QED
        BY <1>1, <2>2, <3>1 DEF Files
    <2>12. Timetable(slots, tim, wheelNow, "run", it)
      BY <1>1, <2>1 DEF WheelLists, Steady
    <2>13. ASSUME NEW j \in 0..(SlotNum - 1)
           PROVE  Timely(slots[j], tim, wheelNow, j = Slot(wheelNow), "scan", tmpIt)
      <3>1. Timely(slots[j], tim, wheelNow, j = Slot(wheelNow), "run", it)
        BY <2>12 DEF Timetable
      <3>2. CASE j # c
        BY <2>3, <3>1, <3>2 DEF Timely
      <3>3. CASE j = c
        <4>1. (j = Slot(wheelNow)) = TRUE
          BY <2>3, <3>3
        <4>2. \A k \in 1..Len(s) : Ahead(s, "run", it, k)
          BY <2>9 DEF Ahead
        <4>3. \A k \in 1..Len(s) : Coming(tim[s[k]], wheelNow, wheelNow + SlotNum - 1)
          BY <2>4, <3>1, <3>3, <4>1, <4>2 DEF Timely
        <4>4. CASE tmpIt # "end"
          <5>1. s[1] = tmpIt
            BY <1>1, <2>6, <2>9, <4>4 DEF RunsNow
          <5>2. \A k \in 1..Len(s) : Ahead(s, "scan", tmpIt, k)
            BY <5>1, AheadFirst
          <5>. QED
            BY <2>4, <3>3, <4>1, <4>3, <5>2 DEF Timely
        <4>5. CASE tmpIt = "end"
          <5>1. ASSUME NEW k \in 1..Len(s)
                PROVE  Coming(tim[s[k]], wheelNow + SlotNum, wheelNow + SlotNum)
                       /\ ~Ahead(s, "scan", tmpIt, k)
            <6>1. Fresh(tim[s[k]], wheelNow)
              BY <1>1, <2>6, <2>8, <4>2, <4>5 DEF RunsNow
            <6>2. s[k] \in WheelTimers /\ tim[s[k]] \in TimRec
              BY <1>3
            <6>3. \A l \in 1..k : l \in 1..Len(s) /\ s[l] \in WheelTimers
              OBVIOUS
            <6>4. \A l \in 1..k : s[l] # tmpIt
              BY <4>5, <6>3, NetAssumption
            <6>. QED
              BY <1>3, <6>1, <6>2, <6>4, PassedOver DEF Ahead
          <5>. QED
            BY <2>4, <3>3, <4>1, <5>1 DEF Timely
        <4>. QED
          BY <4>4, <4>5
      <3>. QED
        BY <3>2, <3>3
    <2>14. Timetable(slots', tim', wheelNow', wheelAt', it')
      BY <1>1, <2>10, <2>13 DEF Timetable
    <2>. QED
      BY <1>1, <2>5, <2>10, <2>11, <2>14 DEF WheelLists
  <1>. QED
    BY <1>2, <1>4 DEF WheelInv

LEMMA WheelDangling ==
    ASSUME WheelInv, Wheel!Dangles
    PROVE  WheelInv'
  <1>1. /\ wheelAt' = "broken" /\ wheelNow' = wheelNow /\ tim' = tim
        /\ wheelAdded' = wheelAdded
    BY DEF Wheel!Dangles
  <1>2. WheelData'
    BY <1>1, WheelDataStays DEF WheelInv
  <1>. QED
    BY <1>1, <1>2 DEF WheelInv

LEMMA WheelReturning ==
    ASSUME WheelInv, Wheel!HandleReturns
    PROVE  WheelInv'
  <1>1. /\ wheelAt = "scan" /\ it = "end" /\ wheelNow' = wheelNow + 1 /\ wheelAt' = "sleep"
        /\ slots' = slots /\ wheelRh' = wheelRh /\ tim' = tim /\ wheelAdded' = wheelAdded
        /\ it' = it
    BY DEF Wheel!HandleReturns, Wheel!End
  <1>2. WheelData' /\ (Wheel!DistinctIds' => Wheel!DistinctIds)
    BY <1>1 DEF WheelInv, WheelData, Wheel!DistinctIds
  <1>3. wheelNow \in Nat /\ tim \in [WheelTimers -> TimRec]
    BY DEF WheelInv, WheelData
  <1>4. ASSUME Wheel!DistinctIds' PROVE WheelLists'
    <2>1. WheelLists
      BY <1>1, <1>2, <1>4 DEF WheelInv
    <2>2. /\ Files(slots, tim, wheelAdded, wheelRh)
          /\ slots \in [0..(SlotNum - 1) -> Seq(WheelTimers)]
      BY <2>1, FilesTwice
    <2>3. Timetable(slots, tim, wheelNow, "scan", "end")
      BY <1>1, <2>1 DEF WheelLists, Steady
    <2>4. ASSUME NEW j \in 0..(SlotNum - 1), NEW d \in BOOLEAN
          PROVE  Timely(slots[j], tim, wheelNow + 1, d, "sleep", it)
      <3>1. PICK s \in Seq(WheelTimers) : s = slots[j]
        BY <2>2
      <3>2. Filed(s, j, tim, wheelAdded, wheelRh)
        BY <2>2, <3>1 DEF Files
      <3>3. PICK c \in BOOLEAN : c = (j = Slot(wheelNow))
        OBVIOUS
      <3>4. Timely(s, tim, wheelNow, c, "scan", "end")
        BY <2>3, <3>1, <3>3 DEF Timetable
      <3>5. ASSUME NEW k \in 1..Len(s)
            PROVE  Coming(tim[s[k]], wheelNow + 1, (wheelNow + 1) + SlotNum - 1)
        <4>1. \A l \in 1..k : l \in 1..Len(s) /\ s[l] \in WheelTimers
          OBVIOUS
        <4>2. ~Ahead(s, "scan", "end", k)
          BY <4>1, NetAssumption DEF Ahead
        <4>3. IF c THEN Coming(tim[s[k]], wheelNow + SlotNum, wheelNow + SlotNum)
              ELSE Coming(tim[s[k]], wheelNow, wheelNow + SlotNum - 1)
          BY <3>4, <4>2 DEF Timely
        <4>4. tim[s[k]] \in TimRec /\ tim[s[k]].SlotIdx = j
          BY <1>3, <3>2 DEF Filed
        <4>5. IF tim[s[k]].SlotIdx = Slot(wheelNow)
              THEN Coming(tim[s[k]], wheelNow + SlotNum, wheelNow + SlotNum)
              ELSE Coming(tim[s[k]], wheelNow, wheelNow + SlotNum - 1)
          BY <3>3, <4>3, <4>4
        <4>. QED
          BY <1>3, <4>4, <4>5, NextCall
      <3>. QED
        BY <3>1, <3>5 DEF Timely, Ahead
    <2>5. Timetable(slots', tim', wheelNow', wheelAt', it')
      <3>1. \A j \in 0..(SlotNum - 1) : (j = Slot(wheelNow + 1)) \in BOOLEAN
        OBVIOUS
      <3>. QED
        BY <1>1, <2>4, <3>1 DEF Timetable
    <2>. QED
      BY <1>1, <2>1, <2>2, <2>5 DEF WheelLists
  <1>. QED
    BY <1>2, <1>4 DEF WheelInv

(* handle() may go on at timer y. *)
Listed(lists, y) == y = "end" \/ In(lists[Slot(wheelNow)], y)

(* The timer that has run is taken out of its list. *)
LEMMA TakenOut ==
    ASSUME WheelData, WheelLists, wheelAt = "run", Wheel!Contains(slots[Wheel!slotIdx], it),
           NEW lists, lists = [slots EXCEPT ![Wheel!slotIdx] = Wheel!Without(@, it)],
           NEW y, y = Wheel!Behind(slots[Wheel!slotIdx], it)
    PROVE  /\ Files(lists, tim, wheelAdded, wheelRh) /\ Nowhere(lists, it)
           /\ Timetable(lists, tim, wheelNow, "scan", y)
           /\ y # it
           /\ Listed(lists, y)
           /\ it \in wheelAdded /\ tim[it].id # wheelRh
  <1>1. wheelNow \in Nat /\ tim \in [WheelTimers -> TimRec] /\ wheelAdded \subseteq WheelTimers
    BY DEF WheelData
  <1>2. /\ Files(slots, tim, wheelAdded, wheelRh)
        /\ slots \in [0..(SlotNum - 1) -> Seq(WheelTimers)]
    BY FilesTwice
  <1>3. PICK c \in 0..(SlotNum - 1) : c = Slot(wheelNow) /\ c = Wheel!slotIdx
    BY <1>1, SlotIs DEF Slot, Wheel!slotIdx
  <1>4. PICK s \in Seq(WheelTimers) : s = slots[c]
    BY <1>2
  <1>5. Current = s
    BY <1>3, <1>4 DEF Current
  <1>6. PICK g \in 1..Len(s) : s[g] = it
    BY <1>3, <1>4 DEF Wheel!Contains
  <1>7. Filed(s, c, tim, wheelAdded, wheelRh) /\ NoTwice(s)
    BY <1>2, <1>4 DEF Files, Filed
  <1>8. it \in wheelAdded /\ tim[it].id # wheelRh
    BY <1>6, <1>7 DEF Filed
  <1>9. y = Wheel!Behind(s, it) /\ y = IF g = Len(s) THEN "end" ELSE s[g + 1]
    BY <1>3, <1>4, <1>6, <1>7, PlaceOf
  <1>10. Wheel!Without(s, it) = Wheel!RemoveAt(s, g)
    BY <1>6, <1>7, PlaceOf
  <1>11. lists = [slots EXCEPT ![c] = Wheel!RemoveAt(@, g)]
    BY <1>3, <1>4, <1>10
  <1>12. Unfiling(slots, tim, wheelAdded, wheelRh, c, g, lists)
    BY <1>2, <1>4, <1>11 DEF Unfiling
  <1>13. Files(lists, tim, wheelAdded, wheelRh)
    BY <1>12, IsUnfiled
  <1>14. Nowhere(lists, it)
    <2>1. Nowhere(lists, slots[c][g])
      BY <1>12, IsUnfiled
    <2>. QED
      BY <1>4, <1>6, <2>1
  <1>15. lists[c] = Wheel!RemoveAt(s, g)
    BY <1>2, <1>4, <1>11
  <1>16. \A j \in 0..(SlotNum - 1) : j # c => lists[j] = slots[j]
    BY <1>2, <1>11
  <1>17. Len(s) \in Nat /\ (g # Len(s) => g + 1 \in 1..Len(s) /\ g + 1 # g)
    OBVIOUS
  <1>18. y # it
    <2>1. g # Len(s) => s[g + 1] # s[g]
      BY <1>7, <1>17 DEF NoTwice
    <2>2. it \in WheelTimers
      BY <1>1, <1>8
    <2>. QED
      BY <1>6, <1>9, <2>1, <2>2, NetAssumption
  <1>19. y = "end" \/ In(lists[c], y)
    <2>1. g # Len(s) => In(s, y)
      BY <1>9, <1>17 DEF In
    <2>2. In(s, y) => In(lists[c], y)
      <3>1. PICK r : r = Wheel!RemoveAt(s, g)
        OBVIOUS
      <3>2. In(r, y) <=> In(s, y) /\ y # s[g]
        BY <1>7, <3>1, OthersStay
      <3>. QED
        BY <1>6, <1>15, <1>18, <3>1, <3>2
    <2>. QED
      BY <1>9, <2>1, <2>2
  <1>20. Timetable(slots, tim, wheelNow, "run", it)
    <2>1. In(s, it)
      BY <1>6 DEF In
    <2>. QED
      BY <1>5, <2>1 DEF WheelLists, Steady
  <1>21. Timely(lists[c], tim, wheelNow, TRUE, "scan", y)
    <2>1. (c = Slot(wheelNow)) = TRUE
      BY <1>3
    <2>2. Timely(s, tim, wheelNow, c = Slot(wheelNow), "run", it)
      BY <1>4, <1>20 DEF Timetable
    <2>3. Timely(s, tim, wheelNow, TRUE, "run", s[g])
      BY <1>6, <2>1, <2>2
    <2>4. Timely(Wheel!RemoveAt(s, g), tim, wheelNow, TRUE, "scan", Wheel!Behind(s, s[g]))
      BY <1>1, <1>7, <2>3, EraseTimely
    <2>. QED
      BY <1>6, <1>9, <1>15, <2>4
  <1>22. ASSUME NEW j \in 0..(SlotNum - 1)
         PROVE  Timely(lists[j], tim, wheelNow, j = Slot(wheelNow), "scan", y)
    <2>1. CASE j = c
      <3>1. (j = Slot(wheelNow)) = TRUE
        BY <1>3, <2>1
      <3>. QED
        BY <1>21, <2>1, <3>1
    <2>2. CASE j # c
      <3>1. (j = Slot(wheelNow)) = FALSE
        BY <1>3, <2>2
      <3>2. Timely(slots[j], tim, wheelNow, j = Slot(wheelNow), "run", it)
        BY <1>20 DEF Timetable
      <3>. QED
        BY <1>16, <2>2, <3>1, <3>2 DEF Timely
    <2>. QED
      BY <2>1, <2>2
  <1>23. Timetable(lists, tim, wheelNow, "scan", y)
    BY <1>22 DEF Timetable
  <1>. QED
    BY <1>3, <1>8, <1>13, <1>14, <1>18, <1>19, <1>23 DEF Listed

LEMMA WheelErasing ==
    ASSUME WheelInv, Wheel!Erased
    PROVE  WheelInv'
  <1>1. /\ wheelAt = "run" /\ wheelAt' = "scan"
        /\ Wheel!Contains(slots[Wheel!slotIdx], it)
        /\ slots' = [slots EXCEPT ![Wheel!slotIdx] = Wheel!Without(@, it)]
        /\ it' = Wheel!Behind(slots[Wheel!slotIdx], it)
        /\ tim' = [tim EXCEPT ![it] = [Wheel!NoTim EXCEPT !.id = tim[it].id]]
        /\ wheelNow' = wheelNow /\ wheelRh' = wheelRh /\ wheelAdded' = wheelAdded
    BY DEF Wheel!Erased
  <1>2. WheelData
    BY DEF WheelInv
  <1>3. tim \in [WheelTimers -> TimRec] /\ wheelAdded \subseteq WheelTimers /\ wheelNow \in Nat
    BY <1>2 DEF WheelData
  <1>4. PICK x : x = [Wheel!NoTim EXCEPT !.id = tim[it].id]
    OBVIOUS
  <1>5. x.id = tim[it].id
    BY <1>4 DEF Wheel!NoTim
  <1>6. tim' = [tim EXCEPT ![it] = x] /\ \A u \in WheelTimers : u # it => tim'[u] = tim[u]
    BY <1>1, <1>3, <1>4
  <1>7. it \in WheelTimers => x \in TimRec
    <2>1. it \in WheelTimers => tim[it].id \in WheelIds \cup {0}
      BY <1>3 DEF TimRec
    <2>2. 0 \in 0..(SlotNum - 1)
      BY NetAssumption
    <2>. QED
      BY <1>4, <2>1, <2>2 DEF Wheel!NoTim, TimRec
  <1>8. tim' \in [WheelTimers -> TimRec] /\ \A u \in WheelTimers : tim'[u].id = tim[u].id
    BY <1>3, <1>5, <1>6, <1>7
  <1>9. WheelData'
    BY <1>1, <1>2, <1>3, <1>8 DEF WheelData
  <1>10. Wheel!DistinctIds' => Wheel!DistinctIds
    BY <1>1, <1>2, <1>3, <1>8, IdsStay
  <1>11. ASSUME Wheel!DistinctIds' PROVE WheelLists'
    <2>1. WheelLists
      BY <1>1, <1>10, <1>11 DEF WheelInv
    <2>2. PICK L, y : L = slots' /\ y = it'
      OBVIOUS
    <2>3. Files(L, tim, wheelAdded, wheelRh) /\ Nowhere(L, it)
      BY <1>1, <1>2, <2>1, <2>2, TakenOut
    <2>4. Timetable(L, tim, wheelNow, "scan", y)
      BY <1>1, <1>2, <2>1, <2>2, TakenOut
    <2>5. Listed(L, y)
      BY <1>1, <1>2, <2>1, <2>2, TakenOut
    <2>6. PICK new : new = tim'
      OBVIOUS
    <2>7. \A u \in WheelTimers : u # it => new[u] = tim[u]
      BY <1>6, <2>6
    <2>8. Files(L, new, wheelAdded, wheelRh)
      BY <2>3, <2>7, FilesStay
    <2>9. Timetable(L, new, wheelNow, "scan", y)
      <3>1. \A m, a, e : Timetable(L, tim, m, a, e) => Timetable(L, new, m, a, e)
        BY <2>3, <2>7, <2>8, FilesStay
      <3>. QED
        BY <2>4, <3>1
    <2>10. wheelRh' # 0 => \E u \in wheelAdded' : tim'[u].id = wheelRh'
      BY <1>1, <1>3, <1>8, <2>1 DEF WheelLists
    <2>11. Current' = L[Slot(wheelNow)]
      BY <1>1, <2>2 DEF Current
    <2>. QED
      BY <1>1, <2>2, <2>5, <2>6, <2>8, <2>9, <2>10, <2>11 DEF WheelLists, Listed
  <1>. QED
    BY <1>9, <1>11 DEF WheelInv

LEMMA WheelRestarting ==
    ASSUME WheelInv, Wheel!Restarted
    PROVE  WheelInv'
  <1>1. PICK w : w = Wheel!Rewound(it)
    OBVIOUS
  <1>2. /\ wheelAt = "run" /\ wheelAt' = "scan"
        /\ Wheel!Contains(slots[Wheel!slotIdx], it)
        /\ tim' = [tim EXCEPT ![it] = w]
        /\ slots' = [[slots EXCEPT ![Wheel!slotIdx] = Wheel!Without(@, it)]
                       EXCEPT ![tim'[it].SlotIdx] = Append(@, it)]
        /\ it' = Wheel!Behind(slots[Wheel!slotIdx], it)
        /\ wheelNow' = wheelNow /\ wheelRh' = wheelRh /\ wheelAdded' = wheelAdded
    BY <1>1 DEF Wheel!Restarted
  <1>3. WheelData
    BY DEF WheelInv
  <1>4. tim \in [WheelTimers -> TimRec] /\ wheelAdded \subseteq WheelTimers /\ wheelNow \in Nat
    BY <1>3 DEF WheelData
  <1>5. ASSUME it \in WheelTimers
        PROVE  /\ w \in TimRec /\ w.id = tim[it].id
               /\ tim[it].id # wheelRh => Set(w, wheelNow, wheelRh, wheelAt)
    <2>1. PICK id \in WheelIds \cup {0} : id = tim[it].id
      BY <1>4, <1>5 DEF TimRec
    <2>2. PICK ms \in Nat : ms = tim[it].interval
      BY <1>4, <1>5 DEF TimRec
    <2>3. w = Wheel!Wound(id, ms, ms)
      BY <1>1, <2>1, <2>2 DEF Wheel!Rewound
    <2>4. w \in TimRec /\ w.id = id /\ \A rh : rh # id => Set(w, wheelNow, rh, wheelAt)
      BY <1>3, <2>3, SetAnew
    <2>. QED
      BY <2>1, <2>4
  <1>6. \A u \in WheelTimers : u # it => tim'[u] = tim[u]
    BY <1>2, <1>4
  <1>7. tim' \in [WheelTimers -> TimRec] /\ \A u \in WheelTimers : tim'[u].id = tim[u].id
    BY <1>2, <1>4, <1>5
  <1>8. WheelData'
    BY <1>2, <1>3, <1>4, <1>7 DEF WheelData
  <1>9. Wheel!DistinctIds' => Wheel!DistinctIds
    BY <1>2, <1>3, <1>4, <1>7, IdsStay
  <1>10. ASSUME Wheel!DistinctIds' PROVE WheelLists'
    <2>1. WheelLists
      BY <1>2, <1>9, <1>10 DEF WheelInv
    <2>2. PICK L, y : L = [slots EXCEPT ![Wheel!slotIdx] = Wheel!Without(@, it)] /\ y = it'
      OBVIOUS
    <2>3. Files(L, tim, wheelAdded, wheelRh) /\ Nowhere(L, it)
      BY <1>2, <1>3, <2>1, <2>2, TakenOut
    <2>4. Timetable(L, tim, wheelNow, "scan", y)
      BY <1>2, <1>3, <2>1, <2>2, TakenOut
    <2>5. y # it /\ Listed(L, y)
      BY <1>2, <1>3, <2>1, <2>2, TakenOut
    <2>6. it \in wheelAdded /\ tim[it].id # wheelRh
      BY <1>2, <1>3, <2>1, <2>2, TakenOut
    <2>7. it \in WheelTimers /\ Set(w, wheelNow, wheelRh, wheelAt) /\ tim'[it] = w
      BY <1>2, <1>4, <1>5, <2>6
    <2>8. slots' = [L EXCEPT ![w.SlotIdx] = Append(@, it)]
      BY <1>2, <2>2, <2>7
    <2>9. Filing(L, tim, wheelAdded, wheelRh, it, wheelNow, w, slots', tim', wheelAdded,
                 wheelAt)
      BY <1>2, <1>4, <2>3, <2>6, <2>7, <2>8 DEF Filing
    <2>10. Files(slots', tim', wheelAdded, wheelRh)
      BY <2>9, IsFiled
    <2>11. Timetable(slots', tim', wheelNow, "scan", y)
      BY <1>2, <2>4, <2>5, <2>9, IsFiled
    <2>12. wheelRh' # 0 => \E u \in wheelAdded' : tim'[u].id = wheelRh'
      BY <1>2, <1>4, <1>7, <2>1 DEF WheelLists
    <2>13. Listed(slots', y)
      <3>1. PICK c \in 0..(SlotNum - 1) : c = Slot(wheelNow)
        BY <1>4, SlotIs
      <3>2. L \in [0..(SlotNum - 1) -> Seq(WheelTimers)] /\ w.SlotIdx \in 0..(SlotNum - 1)
        BY <2>3, <2>7 DEF Files, Set, TimRec
      <3>3. PICK s \in Seq(WheelTimers) : s = L[c]
        BY <3>2
      <3>4. slots'[c] = s \/ slots'[c] = Append(s, it)
        BY <2>8, <3>1, <3>2, <3>3
      <3>5. NoTwice(s) /\ ~In(s, it)
        BY <2>3, <3>3 DEF Files, Filed, Nowhere
      <3>6. PICK r : r = Append(s, it)
        OBVIOUS
      <3>7. In(r, y) <=> In(s, y) \/ y = it
        BY <2>7, <3>5, <3>6, OneMore
      <3>. QED
        BY <2>5, <3>1, <3>3, <3>4, <3>6, <3>7 DEF Listed
    <2>14. Current' = slots'[Slot(wheelNow)]
      BY <1>2 DEF Current
    <2>. QED
      BY <1>2, <2>2, <2>10, <2>11, <2>12, <2>13, <2>14 DEF WheelLists, Listed
  <1>. QED
    BY <1>8, <1>10 DEF WheelInv

LEMMA WheelKept == WheelInv /\ [Next]_vars => WheelInv'
  <1>1. SUFFICES ASSUME WheelInv, Wheel!Next \/ UNCHANGED wheelVars
                 PROVE  WheelInv'
    BY WheelStep
  <1>2. CASE \E t \in WheelTimers, id \in WheelIds, ms \in WheelDelays,
                interval \in WheelDelays \cup {0} : Wheel!addTimer(t, id, ms, interval)
    BY <1>1, <1>2, WheelAdding
  <1>3. CASE \E t \in WheelTimers : Wheel!delTimer(t)
    BY <1>1, <1>3, WheelDeleting
  <1>4. CASE Wheel!handle
    BY <1>1, <1>4, WheelHandling
  <1>5. CASE Wheel!Turn
    BY <1>1, <1>5, WheelTurning
  <1>6. CASE Wheel!run
    BY <1>1, <1>6, WheelRunning
  <1>7. CASE Wheel!Removed
    BY <1>1, <1>7, WheelRemoved
  <1>8. CASE Wheel!Dangles
    BY <1>1, <1>8, WheelDangling
  <1>9. CASE Wheel!Restarted
    BY <1>1, <1>9, WheelRestarting
  <1>10. CASE Wheel!Erased
    BY <1>1, <1>10, WheelErasing
  <1>11. CASE Wheel!HandleReturns
    BY <1>1, <1>11, WheelReturning
  <1>12. CASE UNCHANGED wheelVars
    BY <1>1, <1>12 DEF wheelVars, WheelInv, WheelData, WheelLists, Current, Steady,
                       Wheel!DistinctIds
  <1>. QED
    BY <1>1, <1>2, <1>3, <1>4, <1>5, <1>6, <1>7, <1>8, <1>9, <1>10, <1>11, <1>12
       DEF Wheel!Next

LEMMA WheelInTime == WheelInv => Wheel!OnTime
  <1>1. SUFFICES ASSUME WheelInv, Wheel!DistinctIds
                 PROVE  /\ wheelAt = "run" =>
                             \/ wheelNow = tim[it].due
                             \/ Wheel!MayBeLate(it) /\ wheelNow = tim[it].due + SlotNum
                        /\ wheelAt = "sleep" =>
                             \A t \in WheelTimers : Wheel!Contains(slots[tim[t].SlotIdx], t) =>
                               \/ wheelNow <= tim[t].due
                               \/ Wheel!MayBeLate(t) /\ wheelNow <= tim[t].due + SlotNum
    BY DEF Wheel!OnTime
  <1>2. wheelAt # "broken" => WheelLists
    BY <1>1 DEF WheelInv
  <1>3. ASSUME wheelAt = "run"
        PROVE  \/ wheelNow = tim[it].due
               \/ Wheel!MayBeLate(it) /\ wheelNow = tim[it].due + SlotNum
    BY <1>2, <1>3 DEF WheelLists, RunsNow, Whole, Slot, Wheel!MayBeLate
  <1>4. ASSUME wheelAt = "sleep", NEW t \in WheelTimers,
               Wheel!Contains(slots[tim[t].SlotIdx], t)
        PROVE  \/ wheelNow <= tim[t].due
               \/ Wheel!MayBeLate(t) /\ wheelNow <= tim[t].due + SlotNum
    <2>1. Timetable(slots, tim, wheelNow, "sleep", it)
      BY <1>2, <1>4 DEF WheelLists, Steady
    <2>2. wheelNow \in Nat /\ tim[t] \in TimRec
      BY <1>1 DEF WheelInv, WheelData
    <2>3. tim[t].SlotIdx \in 0..(SlotNum - 1)
      BY <2>2 DEF TimRec
    <2>4. PICK k \in 1..Len(slots[tim[t].SlotIdx]) : slots[tim[t].SlotIdx][k] = t
      BY <1>4 DEF Wheel!Contains
    <2>5. Coming(tim[t], wheelNow, wheelNow + SlotNum - 1)
      BY <2>1, <2>3, <2>4 DEF Timetable, Timely, Ahead
    <2>6. wheelNow <= tim[t].due \/ (Whole(tim[t]) /\ wheelNow <= tim[t].due + SlotNum)
      BY <2>2, <2>5, NotOver
    <2>. QED
      BY <2>6 DEF Whole, Slot, Wheel!MayBeLate
  <1>. QED
    BY <1>3, <1>4

(* With ids of their own, timers of the wheel run in the call of handle()  *)
(* they were set for, through turns, restarts and cancellations; only one  *)
(* that was set inside of handle() for whole turns may run a turn late     *)
(* (TimingWheel::handle).  Nothing is said once two timers have had one    *)
(* id, or a callback has cancelled the next timer or, from behind the      *)
(* first place, itself.                                                    *)
THEOREM WheelTimersOnTime == Spec => []Wheel!OnTime
  <1>1. Init => WheelInv
    <2>1. SUFFICES ASSUME Wheel!Init
                   PROVE  WheelInv
      BY DEF Init
    <2>2. /\ wheelNow = 0 /\ wheelRh = 0 /\ wheelAdded = {} /\ wheelAt = "sleep" /\ it = "end"
          /\ slots = [j \in 0..(SlotNum - 1) |-> <<>>]
          /\ tim = [t \in WheelTimers |-> Wheel!NoTim]
      BY <2>1 DEF Wheel!Init, Wheel!NoId, Wheel!End
    <2>3. Wheel!NoTim \in TimRec
      <3>1. 0 \in 0..(SlotNum - 1)
        BY NetAssumption
      <3>. QED
        BY <3>1 DEF Wheel!NoTim, Wheel!NoId, TimRec
    <2>4. WheelData
      BY <2>2, <2>3 DEF WheelData
    <2>5. \A j \in 0..(SlotNum - 1) : slots[j] = <<>>
      BY <2>2
    <2>6. Files(slots, tim, wheelAdded, wheelRh)
      BY <2>2, <2>5 DEF Files, Filed, NoTwice
    <2>7. Timetable(slots, tim, wheelNow, wheelAt, it)
      BY <2>5 DEF Timetable, Timely
    <2>. QED
      BY <2>2, <2>4, <2>6, <2>7 DEF WheelInv, WheelLists
  <1>. QED
    BY <1>1, WheelKept, WheelInTime, PTL DEF Spec

-----------------------------------------------------------------------------
(* The five wheels.                                                        *)

LEMMA ManagerStep == [Next]_vars => Manager!Next \/ UNCHANGED managerVars
  BY DEF Next, vars, managerVars

(* Multiples and division by a unit. *)
LEMMA Multiples ==
    ASSUME NEW u \in Nat \ {0}, NEW a \in Int, NEW b \in Int, a < b
    PROVE  u * a \in Int /\ u * b \in Int /\ u * a + u <= u * b
  <1>1. PICK d \in Nat : b = (a + 1) + d
    <2>1. b - (a + 1) \in Nat /\ b = (a + 1) + (b - (a + 1))
      OBVIOUS
    <2>. QED
      BY <2>1
  <1>2. u * ((a + 1) + d) = u * a + u + u * d
    OBVIOUS
  <1>3. u * d \in Nat /\ u * a \in Int
    OBVIOUS
  <1>4. u * b = u * a + u + u * d
    BY <1>1, <1>2
  <1>. HIDE <1>1
  <1>. QED
    BY <1>3, <1>4

LEMMA Quotient ==
    ASSUME NEW u \in Nat \ {0}, NEW a \in Int, NEW r \in 0..(u - 1)
    PROVE  (u * a + r) \div u = a /\ (u * a + r) % u = r
  <1>1. PICK y \in Int : y = u * a
    OBVIOUS
  <1>2. PICK x \in Int : x = y + r
    OBVIOUS
  <1>3. PICK c \in Int : c = x \div u
    OBVIOUS
  <1>4. PICK w \in 0..(u - 1) : w = x % u
    OBVIOUS
  <1>5. x = u * c + w
    <2>1. x = u * (x \div u) + (x % u)
      OBVIOUS
    <2>. QED
      BY <1>3, <1>4, <2>1
  <1>6. PICK z \in Int : z = u * c
    OBVIOUS
  <1>7. ASSUME a < c PROVE FALSE
    BY <1>1, <1>2, <1>5, <1>6, <1>7, Multiples
  <1>8. ASSUME c < a PROVE FALSE
    BY <1>1, <1>2, <1>5, <1>6, <1>8, Multiples
  <1>9. a = c
    BY <1>7, <1>8
  <1>10. r = w
    BY <1>1, <1>2, <1>5, <1>6, <1>9
  <1>. QED
    BY <1>1, <1>2, <1>3, <1>4, <1>9, <1>10

LEMMA Divided ==
    ASSUME NEW u \in Nat \ {0}, NEW x \in Nat
    PROVE  /\ x \div u \in Nat /\ x % u \in 0..(u - 1)
           /\ x = u * (x \div u) + (x % u)
  OBVIOUS

(* Among as many numbers as there are rests, each rest comes once. *)
LEMMA RestOnce ==
    ASSUME NEW z \in Nat \ {0}, NEW b \in Nat, NEW a \in b..(b + z - 1), a % z = b % z
    PROVE  a = b
  <1>. a \in Nat
    OBVIOUS
  <1>1. PICK c \in Nat : c = a \div z
    BY Divided
  <1>2. PICK d \in Nat : d = b \div z
    BY Divided
  <1>3. PICK r \in 0..(z - 1) : r = b % z
    BY Divided
  <1>4. a = z * c + r
    BY <1>1, <1>3, Divided
  <1>5. b = z * d + r
    BY <1>2, <1>3, Divided
  <1>6. ASSUME c < d PROVE FALSE
    BY <1>4, <1>5, <1>6, Multiples
  <1>7. ASSUME d < c PROVE FALSE
    <2>1. PICK y \in Int : y = z * d
      OBVIOUS
    <2>2. PICK x \in Int : x = z * c
      OBVIOUS
    <2>3. y + z <= x
      BY <1>7, <2>1, <2>2, Multiples
    <2>. QED
      BY <1>4, <1>5, <2>1, <2>2, <2>3
  <1>8. c = d
    BY <1>6, <1>7
  <1>. QED
    BY <1>4, <1>5, <1>8

(* The units of the wheels: a list of the next wheel stands for a turn. *)
Unit(n) == Manager!Unit(n)
Size(n) == Manager!Size(n)
Index(x, n) == Manager!Index(x, n)

LEMMA Units ==
    ASSUME NEW n \in 1..5
    PROVE  /\ Unit(n) \in Nat \ {0} /\ Size(n) \in Nat \ {0} /\ Unit(n + 1) \in Nat \ {0}
           /\ Unit(n + 1) = Unit(n) * Size(n)
           /\ Unit(1) = 1
  <1>. PICK a \in Nat \ {0} : a = TVR_SIZE
    BY NetAssumption
  <1>. PICK b \in Nat \ {0} : b = TVN_SIZE
    BY NetAssumption
  <1>1. \A x, y \in Nat \ {0} : x * y \in Nat \ {0}
    OBVIOUS
  <1>2. PICK c \in Nat \ {0} : c = a * b
    BY <1>1
  <1>3. PICK d \in Nat \ {0} : d = c * b
    BY <1>1
  <1>4. PICK e \in Nat \ {0} : e = d * b
    BY <1>1
  <1>5. PICK f \in Nat \ {0} : f = e * b
    BY <1>1
  <1>6. /\ Unit(1) = 1 /\ Unit(2) = a /\ Unit(3) = c /\ Unit(4) = d /\ Unit(5) = e
        /\ Unit(6) = f
    BY <1>2, <1>3, <1>4, <1>5 DEF Unit, Manager!Unit
  <1>7. Size(1) = a /\ Size(2) = b /\ Size(3) = b /\ Size(4) = b /\ Size(5) = b
    BY DEF Size, Manager!Size
  <1>8. 1 * a = a
    OBVIOUS
  <1>9. n = 1 \/ n = 2 \/ n = 3 \/ n = 4 \/ n = 5
    OBVIOUS
  <1>10. CASE n = 1
    BY <1>6, <1>7, <1>8, <1>10
  <1>11. CASE n = 2
    BY <1>2, <1>6, <1>7, <1>11
  <1>12. CASE n = 3
    BY <1>3, <1>6, <1>7, <1>12
  <1>13. CASE n = 4
    BY <1>4, <1>6, <1>7, <1>13
  <1>14. CASE n = 5
    BY <1>5, <1>6, <1>7, <1>14
  <1>. QED
    BY <1>9, <1>10, <1>11, <1>12, <1>13, <1>14

(* The moment a timer of wheel n is distributed. *)
Moment(x, n) == Unit(n) * (x \div Unit(n))

LEMMA MomentIs ==
    ASSUME NEW x \in Nat, NEW n \in 1..5
    PROVE  /\ Moment(x, n) \in Nat /\ Moment(x, n) % Unit(n) = 0
           /\ Moment(x, n) <= x /\ x < Moment(x, n) + Unit(n)
           /\ Index(Moment(x, n), n) = Index(x, n)
           /\ Moment(x, 1) = x
  <1>1. PICK u \in Nat \ {0} : u = Unit(n)
    BY Units
  <1>2. PICK c \in Nat : c = x \div u
    BY Divided
  <1>3. PICK r \in 0..(u - 1) : r = x % u
    BY Divided
  <1>4. x = u * c + r
    BY <1>2, <1>3, Divided
  <1>5. PICK m \in Nat : m = u * c
    OBVIOUS
  <1>6. Moment(x, n) = m
    BY <1>1, <1>2, <1>5 DEF Moment
  <1>7. (u * c + 0) \div u = c /\ (u * c + 0) % u = 0
    <2>1. 0 \in 0..(u - 1)
      OBVIOUS
    <2>. QED
      BY <2>1, Quotient
  <1>8. m \div u = c /\ m % u = 0
    BY <1>5, <1>7
  <1>9. m \div Manager!Unit(n) = x \div Manager!Unit(n)
    BY <1>1, <1>2, <1>8 DEF Unit
  <1>10. Index(m, n) = Index(x, n)
    BY <1>9 DEF Index, Manager!Index
  <1>11. Unit(1) = 1
    BY Units
  <1>12. Moment(x, 1) = x
    BY <1>11 DEF Moment
  <1>. QED
    BY <1>1, <1>4, <1>5, <1>6, <1>8, <1>10, <1>12

(* The number of units. *)
LEMMA InUnits ==
    ASSUME NEW x \in Nat, NEW n \in 1..5, x % Unit(n) = 0
    PROVE  \E b \in Nat : x = Unit(n) * b /\ Index(x, n) = b % Size(n)
  <1>1. PICK u \in Nat \ {0} : u = Unit(n)
    BY Units
  <1>2. PICK b \in Nat : b = x \div u
    BY Divided
  <1>3. x % u = 0
    BY <1>1
  <1>4. x = u * b
    <2>1. x = u * b + (x % u)
      BY <1>2, Divided
    <2>2. u * b \in Nat
      OBVIOUS
    <2>. QED
      BY <1>3, <2>1, <2>2
  <1>5. Index(x, n) = b % Size(n)
    BY <1>1, <1>2 DEF Index, Manager!Index, Unit, Size
  <1>. QED
    BY <1>1, <1>4, <1>5

(* Within a turn of wheel n, a list is distributed once. *)
LEMMA MomentOnce ==
    ASSUME NEW n \in 1..5, NEW x \in Nat, NEW m \in x..(x + Unit(n + 1) - 1),
           x % Unit(n) = 0, m % Unit(n) = 0, Index(m, n) = Index(x, n)
    PROVE  m = x
  <1>1. PICK u \in Nat \ {0} : u = Unit(n)
    BY Units
  <1>2. PICK z \in Nat \ {0} : z = Size(n)
    BY Units
  <1>3. Unit(n + 1) = u * z /\ u * z \in Nat
    BY <1>1, <1>2, Units
  <1>4. m \in Nat /\ x <= m /\ m < x + u * z
    BY <1>3
  <1>5. PICK b \in Nat : x = u * b /\ Index(x, n) = b % z
    BY <1>1, <1>2, InUnits
  <1>6. PICK a \in Nat : m = u * a /\ Index(m, n) = a % z
    BY <1>1, <1>2, <1>4, InUnits
  <1>7. a % z = b % z
    BY <1>5, <1>6
  <1>8. ASSUME a < b PROVE FALSE
    BY <1>4, <1>5, <1>6, <1>8, Multiples
  <1>9. ASSUME b + z <= a PROVE FALSE
    <2>1. u * (b + z) = u * b + u * z
      OBVIOUS
    <2>2. PICK y \in Nat : y = u * z
      BY <1>3
    <2>3. u * (b + z) <= u * a
      <3>1. CASE b + z = a
        BY <3>1
      <3>2. CASE b + z < a
        <4>1. u * (b + z) \in Int /\ u * a \in Int /\ u * (b + z) + u <= u * a
          BY <3>2, Multiples
        <4>. QED
          BY <4>1
      <3>. QED
        BY <1>9, <3>1, <3>2
    <2>4. m < x + y
      BY <1>4, <2>2
    <2>5. u * (b + z) = x + y
      BY <1>5, <2>1, <2>2
    <2>6. x + y <= m
      BY <1>6, <2>3, <2>5
    <2>. QED
      BY <1>4, <2>4, <2>6
  <1>10. a \in b..(b + z - 1)
    BY <1>8, <1>9
  <1>11. a = b
    BY <1>7, <1>10, RestOnce
  <1>. QED
    BY <1>5, <1>6, <1>11

(* The next wheel has a list to distribute when this one has come round. *)
LEMMA ComesRound ==
    ASSUME NEW x \in Nat, NEW n \in 1..5
    PROVE  x % Unit(n + 1) = 0 <=> (x % Unit(n) = 0 /\ Index(x, n) = 0)
  <1>1. PICK u \in Nat \ {0} : u = Unit(n)
    BY Units
  <1>2. PICK z \in Nat \ {0} : z = Size(n)
    BY Units
  <1>3. PICK w \in Nat \ {0} : w = u * z
    BY <1>1, <1>2, Units
  <1>4. Unit(n + 1) = w
    BY <1>1, <1>2, <1>3, Units
  <1>5. \A a \in Nat : (u * a + 0) % u = 0 /\ (z * a + 0) % z = 0 /\ (w * a + 0) % w = 0
    <2>1. 0 \in 0..(u - 1) /\ 0 \in 0..(z - 1) /\ 0 \in 0..(w - 1)
      OBVIOUS
    <2>. QED
      BY <2>1, Quotient
  <1>6. ASSUME x % w = 0 PROVE x % u = 0 /\ Index(x, n) = 0
    <2>1. PICK k \in Nat : k = x \div w
      BY Divided
    <2>2. x = w * k
      <3>1. x = w * k + (x % w)
        BY <2>1, Divided
      <3>2. w * k \in Nat
        OBVIOUS
      <3>. QED
        BY <1>6, <3>1, <3>2
    <2>3. PICK a \in Nat : a = z * k
      OBVIOUS
    <2>4. x = u * a
      <3>1. (u * z) * k = u * (z * k)
        OBVIOUS
      <3>. QED
        BY <1>3, <2>2, <2>3, <3>1
    <2>5. u * a + 0 = u * a /\ z * k + 0 = z * k
      OBVIOUS
    <2>6. x % u = 0
      BY <1>5, <2>4, <2>5
    <2>7. PICK b \in Nat : x = u * b /\ Index(x, n) = b % z
      BY <1>1, <1>2, <2>6, InUnits
    <2>8. a = b
      <3>1. (u * a + 0) \div u = a /\ (u * b + 0) \div u = b
        BY Quotient
      <3>2. u * a + 0 = u * b + 0
        BY <2>4, <2>7
      <3>. QED
        BY <3>1, <3>2
    <2>9. a % z = 0
      BY <1>5, <2>3, <2>5
    <2>. QED
      BY <2>6, <2>7, <2>8, <2>9
  <1>7. ASSUME x % u = 0, Index(x, n) = 0 PROVE x % w = 0
    <2>1. PICK b \in Nat : x = u * b /\ Index(x, n) = b % z
      BY <1>1, <1>2, <1>7, InUnits
    <2>2. b % z = 0
      BY <1>7, <2>1
    <2>3. PICK k \in Nat : k = b \div z
      BY Divided
    <2>4. b = z * k
      <3>1. b = z * k + (b % z)
        BY <2>3, Divided
      <3>2. z * k \in Nat
        OBVIOUS
      <3>. QED
        BY <2>2, <3>1, <3>2
    <2>5. x = w * k
      <3>1. (u * z) * k = u * (z * k)
        OBVIOUS
      <3>. QED
        BY <1>3, <2>1, <2>4, <3>1
    <2>6. w * k + 0 = w * k
      OBVIOUS
    <2>. QED
      BY <1>5, <2>5, <2>6
  <1>. QED
    BY <1>1, <1>4, <1>6, <1>7

(* Then every wheel before has come round. *)
LEMMA AllRound ==
    ASSUME NEW x \in Nat, NEW n \in 1..5, x % Unit(n) = 0, NEW k \in 1..(n - 1)
    PROVE  Index(x, k) = 0
  <1>. DEFINE R(j) == x % Unit(j) = 0
  <1>1. \A j \in 1..4 : R(j + 1) => R(j) /\ Index(x, j) = 0
    <2>1. SUFFICES ASSUME NEW j \in 1..4, R(j + 1)
                   PROVE  R(j) /\ Index(x, j) = 0
      OBVIOUS
    <2>2. j \in 1..5
      OBVIOUS
    <2>. QED
      BY <2>1, <2>2, ComesRound
  <1>2. R(n)
    OBVIOUS
  <1>. HIDE DEF R
  <1>3. /\ R(5) => R(4) /\ Index(x, 4) = 0
        /\ R(4) => R(3) /\ Index(x, 3) = 0
        /\ R(3) => R(2) /\ Index(x, 2) = 0
        /\ R(2) => R(1) /\ Index(x, 1) = 0
    <2>1. 4 + 1 = 5 /\ 3 + 1 = 4 /\ 2 + 1 = 3 /\ 1 + 1 = 2
      OBVIOUS
    <2>. QED
      BY <1>1, <2>1
  <1>4. n \in 1..5 /\ k \in 1..(n - 1)
    OBVIOUS
  <1>. QED
    BY <1>2, <1>3, <1>4

NodeRec == [endtime : Nat, interval : 0..(Unit(6) - 1), turns : 0..2]

(* A timer may be late by turns of the first wheel. *)
Late(r, m) == \E k \in 1..r.turns : m = r.endtime + k * TVR_SIZE

(* Jiffy m is when list s, with r in it, is dealt with: when the turn of   *)
(* its end begins, or for wheel 1 at its end, or as late as it may be.     *)
Comes(r, s, m) ==
    /\ Index(m, s[1]) = s[2]
    /\ \/ m = Moment(r.endtime, s[1])
       \/ s[1] = 1 /\ Late(r, m)

Booked(r, s, low) == \E m \in low..(low + Unit(s[1] + 1) - 1) : Comes(r, s, m)

(* The lists. *)
LEMMA ListIs ==
    ASSUME NEW s \in Manager!Lists
    PROVE  s[1] \in 1..5 /\ s[2] \in 0..(Size(s[1]) - 1) /\ s = <<s[1], s[2]>>
  BY DEF Manager!Lists, Size

LEMMA IsList ==
    ASSUME NEW n \in 1..5, NEW j \in 0..(Size(n) - 1)
    PROVE  <<n, j>> \in Manager!Lists
  BY DEF Manager!Lists, Size

LEMMA IndexIs ==
    ASSUME NEW x \in Nat, NEW n \in 1..5
    PROVE  Index(x, n) \in 0..(Size(n) - 1)
  <1>1. Unit(n) \in Nat \ {0} /\ Size(n) \in Nat \ {0}
    BY Units
  <1>2. x \div Unit(n) \in Nat
    BY <1>1, Divided
  <1>3. (x \div Unit(n)) % Size(n) \in 0..(Size(n) - 1)
    BY <1>1, <1>2, Divided
  <1>. QED
    BY <1>3 DEF Index, Manager!Index, Unit, Size

LEMMA CurrentIs ==
    ASSUME jiffies \in Nat, NEW n \in 1..5
    PROVE  /\ Manager!Current(n) \in Manager!Lists
           /\ Manager!Current(n) = <<n, Index(jiffies, n)>>
           /\ Manager!Current(n)[1] = n /\ Manager!Current(n)[2] = Index(jiffies, n)
  <1>1. Manager!Current(n) = <<n, Index(jiffies, n)>>
    BY DEF Manager!Current, Index
  <1>2. <<n, Index(jiffies, n)>> \in Manager!Lists
    BY IndexIs, IsList
  <1>. QED
    BY <1>1, <1>2

(* A timer that does not come in this jiffy comes later. *)
LEMMA Postponed ==
    ASSUME NEW j \in Nat, NEW s \in Manager!Lists, NEW r, Booked(r, s, j)
    PROVE  Comes(r, s, j) \/ Booked(r, s, j + 1)
  <1>1. PICK u \in Nat \ {0} : u = Unit(s[1] + 1)
    BY ListIs, Units
  <1>2. PICK m \in j..(j + u - 1) : Comes(r, s, m)
    BY <1>1 DEF Booked
  <1>3. CASE m = j
    BY <1>2, <1>3
  <1>4. CASE m # j
    <2>1. m \in (j + 1)..((j + 1) + u - 1)
      BY <1>4
    <2>. QED
      BY <1>1, <1>2, <2>1 DEF Booked
  <1>. QED
    BY <1>3, <1>4

(* One that does is in a current list, and its wheel has come round. *)
LEMMA ComesIn ==
    ASSUME jiffies \in Nat, NEW s \in Manager!Lists, NEW r \in NodeRec, Comes(r, s, jiffies)
    PROVE  s = Manager!Current(s[1]) /\ jiffies % Unit(s[1]) = 0
  <1>1. s[1] \in 1..5 /\ s = <<s[1], s[2]>>
    BY ListIs
  <1>2. s = Manager!Current(s[1])
    BY <1>1, CurrentIs DEF Comes
  <1>3. CASE s[1] = 1
    <2>1. Unit(1) = 1
      BY Units
    <2>2. jiffies % 1 = 0
      OBVIOUS
    <2>. QED
      BY <1>2, <1>3, <2>1, <2>2
  <1>4. CASE s[1] # 1
    <2>1. r.endtime \in Nat
      BY DEF NodeRec
    <2>2. jiffies = Moment(r.endtime, s[1])
      BY <1>4 DEF Comes
    <2>. QED
      BY <1>1, <1>2, <2>1, <2>2, MomentIs
  <1>. QED
    BY <1>3, <1>4

(* In a current list of wheels that have come round, a timer comes now. *)
LEMMA ComesNow ==
    ASSUME jiffies \in Nat, NEW n \in 1..5, NEW r \in NodeRec, jiffies % Unit(n) = 0,
           Booked(r, Manager!Current(n), jiffies)
    PROVE  Comes(r, Manager!Current(n), jiffies)
  <1>1. PICK s : s = Manager!Current(n)
    OBVIOUS
  <1>2. s[1] = n /\ s[2] = Index(jiffies, n)
    BY <1>1, CurrentIs
  <1>3. PICK m \in jiffies..(jiffies + Unit(n + 1) - 1) : Comes(r, s, m)
    BY <1>1, <1>2 DEF Booked
  <1>4. m % Unit(n) = 0
    <2>1. CASE n = 1
      <3>1. Unit(1) = 1 /\ m \in Int
        BY Units
      <3>2. m % 1 = 0
        BY <3>1
      <3>. QED
        BY <2>1, <3>1, <3>2
    <2>2. CASE n # 1
      <3>1. r.endtime \in Nat
        BY DEF NodeRec
      <3>2. m = Moment(r.endtime, n)
        BY <1>2, <1>3, <2>2 DEF Comes
      <3>. QED
        BY <3>1, <3>2, MomentIs
    <2>. QED
      BY <2>1, <2>2
  <1>5. Index(m, n) = Index(jiffies, n)
    BY <1>2, <1>3 DEF Comes
  <1>6. m = jiffies
    BY <1>4, <1>5, MomentOnce
  <1>. QED
    BY <1>1, <1>3, <1>6

(* The wheel for an expiration reaches it, and no wheel before does. *)
LEMMA WheelReaches ==
    ASSUME NEW x \in 0..(Unit(6) - 1)
    PROVE  /\ Manager!Wheel(x) \in 1..5
           /\ x < Unit(Manager!Wheel(x) + 1)
           /\ Manager!Wheel(x) # 1 => Unit(Manager!Wheel(x)) <= x
  <1>. DEFINE Reaches(n) == x < Manager!Unit(n + 1)
  <1>1. PICK a, b, c, d, f \in Nat \ {0} :
          /\ a = Manager!Unit(2) /\ b = Manager!Unit(3) /\ c = Manager!Unit(4)
          /\ d = Manager!Unit(5) /\ f = Manager!Unit(6)
    <2>1. \A n \in 1..5 : Manager!Unit(n + 1) \in Nat \ {0}
      BY Units DEF Unit
    <2>2. /\ Manager!Unit(1 + 1) \in Nat \ {0} /\ Manager!Unit(2 + 1) \in Nat \ {0}
          /\ Manager!Unit(3 + 1) \in Nat \ {0} /\ Manager!Unit(4 + 1) \in Nat \ {0}
          /\ Manager!Unit(5 + 1) \in Nat \ {0}
      BY <2>1
    <2>3. 1 + 1 = 2 /\ 2 + 1 = 3 /\ 3 + 1 = 4 /\ 4 + 1 = 5 /\ 5 + 1 = 6
      OBVIOUS
    <2>. QED
      BY <2>2, <2>3
  <1>2. x \in Nat /\ x < f
    BY <1>1 DEF Unit
  <1>3. CASE \E n \in 1..4 : Reaches(n)
    <2>. DEFINE First(n) == Reaches(n) /\ \A m \in 1..(n - 1) : x >= Manager!Unit(m + 1)
    <2>1. \E n \in 1..4 : First(n)
      <3>1. \A n \in 1..4 : n = 1 \/ n = 2 \/ n = 3 \/ n = 4
        OBVIOUS
      <3>2. (Reaches(1) <=> x < a) /\ (Reaches(2) <=> x < b) /\ (Reaches(3) <=> x < c)
            /\ (Reaches(4) <=> x < d)
        BY <1>1
      <3>3. CASE x < a
        <4>1. First(1)
          BY <3>2, <3>3
        <4>. QED
          BY <4>1
      <3>4. CASE a <= x /\ x < b
        <4>1. \A m \in 1..(2 - 1) : m = 1
          OBVIOUS
        <4>2. First(2)
          BY <1>1, <3>2, <3>4, <4>1
        <4>. QED
          BY <4>2
      <3>5. CASE a <= x /\ b <= x /\ x < c
        <4>1. \A m \in 1..(3 - 1) : m = 1 \/ m = 2
          OBVIOUS
        <4>2. First(3)
          BY <1>1, <3>2, <3>5, <4>1
        <4>. QED
          BY <4>2
      <3>6. CASE a <= x /\ b <= x /\ c <= x /\ x < d
        <4>1. \A m \in 1..(4 - 1) : m = 1 \/ m = 2 \/ m = 3
          OBVIOUS
        <4>2. First(4)
          BY <1>1, <3>2, <3>6, <4>1
        <4>. QED
          BY <4>2
      <3>7. x < a \/ x < b \/ x < c \/ x < d
        BY <1>3, <3>1, <3>2
      <3>. QED
        BY <1>1, <1>2, <3>3, <3>4, <3>5, <3>6, <3>7
    <2>2. Manager!Wheel(x) = CHOOSE n \in 1..4 : First(n)
      BY <1>3 DEF Manager!Wheel
    <2>. HIDE DEF First
    <2>3. Manager!Wheel(x) \in 1..4 /\ First(Manager!Wheel(x))
      BY <2>1, <2>2
    <2>4. PICK n \in 1..4 : n = Manager!Wheel(x)
      BY <2>3
    <2>5. x < Manager!Unit(n + 1) /\ \A m \in 1..(n - 1) : x >= Manager!Unit(m + 1)
      BY <2>3, <2>4 DEF First
    <2>6. n # 1 => n - 1 \in 1..(n - 1) /\ (n - 1) + 1 = n
      OBVIOUS
    <2>7. n # 1 => x >= Manager!Unit(n)
      BY <2>5, <2>6
    <2>8. n # 1 => Manager!Unit(n) <= x
      <3>1. n # 1 => Manager!Unit(n) \in Nat
        BY Units DEF Unit
      <3>. QED
        BY <1>2, <2>7, <3>1
    <2>. QED
      BY <2>4, <2>5, <2>8 DEF Unit
  <1>4. CASE ~\E n \in 1..4 : Reaches(n)
    <2>1. Manager!Wheel(x) = 5
      BY <1>4 DEF Manager!Wheel
    <2>2. ~(x < d)
      <3>1. ~Reaches(4)
        BY <1>4
      <3>. QED
        BY <1>1, <3>1
    <2>3. 5 \in 1..5 /\ x < Unit(5 + 1) /\ Unit(5) <= x
      BY <1>1, <1>2, <2>2 DEF Unit
    <2>. QED
      BY <2>1, <2>3
  <1>. QED
    BY <1>3, <1>4

(* A turn of the first wheel later its lists are the same again. *)
LEMMA TurnLater ==
    ASSUME NEW x \in Nat
    PROVE  /\ Index(x + TVR_SIZE, 1) = Index(x, 1)
           /\ TVR_SIZE \in Nat \ {0} /\ Unit(1 + 1) = TVR_SIZE
  <1>1. PICK a \in Nat \ {0} : a = TVR_SIZE
    BY NetAssumption
  <1>2. Unit(1) = 1 /\ Size(1) = a /\ Unit(1 + 1) = a
    BY <1>1 DEF Unit, Size, Manager!Unit, Manager!Size
  <1>3. \A y \in Nat : y \div 1 = y
    OBVIOUS
  <1>4. \A y \in Nat : Index(y, 1) = y % a
    BY <1>2, <1>3 DEF Index, Manager!Index, Unit, Size
  <1>5. PICK c \in Nat : c = x \div a
    BY Divided
  <1>6. PICK b \in 0..(a - 1) : b = x % a
    BY Divided
  <1>7. x = a * c + b
    BY <1>5, <1>6, Divided
  <1>8. a * (c + 1) + b = (a * c + b) + a
    OBVIOUS
  <1>9. (a * (c + 1) + b) % a = b
    <2>1. c + 1 \in Int
      OBVIOUS
    <2>. QED
      BY <2>1, Quotient
  <1>10. (x + a) % a = x % a
    BY <1>6, <1>7, <1>8, <1>9
  <1>. QED
    BY <1>1, <1>2, <1>4, <1>10

(* One that comes now and may be late by a turn more comes then, too. *)
LEMMA ComesAgain ==
    ASSUME NEW j \in Nat, NEW s \in Manager!Lists, s[1] = 1, NEW r \in NodeRec,
           NEW o \in NodeRec, o.endtime = r.endtime, o.turns = r.turns + 1, Comes(r, s, j)
    PROVE  Booked(o, s, j) /\ Booked(o, s, j + 1)
  <1>1. PICK a \in Nat \ {0} : a = TVR_SIZE /\ Unit(1 + 1) = a
    BY TurnLater
  <1>2. PICK e \in Nat : e = r.endtime /\ e = o.endtime
    BY DEF NodeRec
  <1>3. PICK u \in Nat : u = r.turns /\ o.turns = u + 1
    BY DEF NodeRec
  <1>4. Moment(e, 1) = e
    <2>1. 1 \in 1..5
      OBVIOUS
    <2>. QED
      BY <2>1, MomentIs
  <1>5. PICK k \in 0..u : j = e + k * a
    <2>1. CASE j = e
      <3>1. 0 \in 0..u /\ e + 0 * a = e
        OBVIOUS
      <3>. QED
        BY <2>1, <3>1
    <2>2. CASE Late(r, j)
      <3>1. PICK k \in 1..u : j = e + k * a
        BY <1>1, <1>2, <1>3, <2>2 DEF Late
      <3>2. k \in 0..u
        OBVIOUS
      <3>. QED
        BY <3>1, <3>2
    <2>. QED
      BY <1>2, <1>4, <2>1, <2>2 DEF Comes
  <1>6. Comes(o, s, j)
    <2>1. CASE k = 0
      <3>1. e + 0 * a = e
        OBVIOUS
      <3>. QED
        BY <1>2, <1>4, <1>5, <2>1, <3>1 DEF Comes
    <2>2. CASE k # 0
      <3>1. k \in 1..o.turns
        BY <1>3, <2>2
      <3>2. Late(o, j)
        BY <1>1, <1>2, <1>5, <3>1 DEF Late
      <3>. QED
        BY <3>2 DEF Comes
    <2>. QED
      BY <2>1, <2>2
  <1>7. Comes(o, s, j + a)
    <2>1. (k + 1) * a = k * a + a /\ k * a \in Nat
      OBVIOUS
    <2>2. j + a = e + (k + 1) * a
      BY <1>5, <2>1
    <2>3. k + 1 \in 1..o.turns
      BY <1>3
    <2>4. Late(o, j + a)
      BY <1>1, <1>2, <2>2, <2>3 DEF Late
    <2>5. Index(j + a, 1) = Index(j, 1)
      BY <1>1, TurnLater
    <2>. QED
      BY <2>4, <2>5 DEF Comes
  <1>8. j \in j..(j + a - 1) /\ j + a \in (j + 1)..((j + 1) + a - 1)
    OBVIOUS
  <1>. QED
    BY <1>1, <1>6, <1>7, <1>8 DEF Booked

(* What addTimerNode chooses for an end that the wheels reach. *)
LEMMA SlotComes ==
    ASSUME jiffies \in Nat, NEW x \in Nat, x < Unit(6), NEW r \in NodeRec,
           r.endtime = jiffies + x
    PROVE  LET s == Manager!Slot(jiffies + x)
           IN  /\ s \in Manager!Lists
               /\ Booked(r, s, jiffies)
               /\ x # 0 \/ s[1] # 1 => Booked(r, s, jiffies + 1)
               /\ x # 0 => s # Manager!Current(1)
               /\ r.turns # 0 => Booked(r, s, jiffies + 1)
               /\ \A n \in 2..5 : jiffies % Unit(n) = 0 => s # Manager!Current(n)
  <1>1. PICK j \in Nat : j = jiffies
    OBVIOUS
  <1>2. PICK f \in Nat \ {0} : f = Unit(6)
    <2>1. 5 \in 1..5 /\ 5 + 1 = 6
      OBVIOUS
    <2>. QED
      BY <2>1, Units
  <1>3. ((j + x) - j) % Manager!Unit(6) = x
    <2>1. x \in 0..(f - 1)
      BY <1>2
    <2>2. (f * 0 + x) % f = x
      BY <2>1, Quotient
    <2>3. f * 0 + x = x /\ (j + x) - j = x
      OBVIOUS
    <2>. QED
      BY <1>2, <2>2, <2>3 DEF Unit
  <1>4. PICK n : n = Manager!Wheel(x)
    OBVIOUS
  <1>5. n \in 1..5 /\ x < Unit(n + 1) /\ (n # 1 => Unit(n) <= x)
    <2>1. x \in 0..(Unit(6) - 1)
      BY <1>2
    <2>. QED
      BY <1>4, <2>1, WheelReaches
  <1>6. PICK e \in Nat : e = j + x
    OBVIOUS
  <1>7. PICK s : s = Manager!Slot(e)
    OBVIOUS
  <1>8. s = <<n, Index(e, n)>>
    BY <1>1, <1>3, <1>4, <1>6, <1>7 DEF Manager!Slot, Index
  <1>9. s \in Manager!Lists /\ s[1] = n /\ s[2] = Index(e, n)
    BY <1>5, <1>6, <1>8, IndexIs, IsList
  <1>10. PICK u \in Nat \ {0} : u = Unit(n)
    BY <1>5, Units
  <1>11. PICK w \in Nat \ {0} : w = Unit(n + 1)
    BY <1>5, Units
  <1>12. PICK m \in Nat : m = Moment(e, n)
    BY <1>5, MomentIs
  <1>13. m <= e /\ e < m + u /\ Index(m, n) = Index(e, n) /\ m % u = 0
    BY <1>5, <1>10, <1>12, MomentIs
  <1>14. n = 1 => m = e
    BY <1>12, MomentIs
  <1>15. Comes(r, s, m)
    BY <1>1, <1>6, <1>9, <1>12, <1>13 DEF Comes
  <1>16. m < j + w
    BY <1>5, <1>6, <1>11, <1>13
  <1>17. n # 1 => j < m
    BY <1>5, <1>6, <1>10, <1>13
  <1>18. j <= m /\ (x # 0 => j < m)
    BY <1>6, <1>14, <1>17
  <1>19. Booked(r, s, j)
    <2>1. m \in j..(j + w - 1)
      BY <1>16, <1>18
    <2>. QED
      BY <1>9, <1>11, <1>15, <2>1 DEF Booked
  <1>20. ASSUME x # 0 \/ n # 1 PROVE Booked(r, s, j + 1)
    <2>1. m \in (j + 1)..((j + 1) + w - 1)
      BY <1>16, <1>17, <1>18, <1>20
    <2>. QED
      BY <1>9, <1>11, <1>15, <2>1 DEF Booked
  <1>21. ASSUME r.turns # 0 PROVE Booked(r, s, j + 1)
    <2>1. CASE x # 0 \/ n # 1
      BY <1>20, <2>1
    <2>2. CASE x = 0 /\ n = 1
      <3>1. PICK a \in Nat \ {0} : a = TVR_SIZE /\ Unit(1 + 1) = a
        BY TurnLater
      <3>3. w = a
        BY <1>11, <2>2, <3>1
      <3>4. Index(e + a, 1) = Index(e, 1)
        BY <3>1, TurnLater
      <3>2. Late(r, e + a)
        <4>1. 1 \in 1..r.turns
          BY <1>21 DEF NodeRec
        <4>2. e + a = e + 1 * a
          OBVIOUS
        <4>. QED
          BY <1>1, <1>6, <3>1, <4>1, <4>2 DEF Late
      <3>5. Comes(r, s, e + a)
        BY <1>9, <2>2, <3>2, <3>4 DEF Comes
      <3>6. e + a \in (j + 1)..((j + 1) + w - 1)
        BY <1>6, <2>2, <3>3
      <3>. QED
        BY <1>9, <1>11, <2>2, <3>5, <3>6 DEF Booked
    <2>. QED
      BY <2>1, <2>2
  <1>22. ASSUME NEW k \in 1..5, j % Unit(k) = 0, s = Manager!Current(k)
         PROVE  k = 1 /\ x = 0
    <2>1. k = n
      BY <1>1, <1>9, <1>22, CurrentIs
    <2>2. Comes(r, s, j)
      <3>. HIDE DEF Moment
      <3>. QED
        BY <1>1, <1>19, <1>22, ComesNow
    <2>3. Index(j, n) = Index(m, n)
      BY <1>9, <1>13, <2>2 DEF Comes
    <2>4. m = j
      <3>1. m \in j..(j + Unit(n + 1) - 1)
        BY <1>11, <1>16, <1>18
      <3>2. j % Unit(n) = 0 /\ m % Unit(n) = 0
        BY <1>10, <1>13, <1>22, <2>1
      <3>. QED
        BY <1>5, <2>3, <3>1, <3>2, MomentOnce
    <2>. QED
      BY <1>17, <1>18, <2>1, <2>4
  <1>23. j % Unit(1) = 0
    <2>1. Unit(1) = 1 /\ j % 1 = 0
      BY Units
    <2>. QED
      BY <2>1
  <1>24. x # 0 => s # Manager!Current(1)
    BY <1>22, <1>23
  <1>25. \A k \in 2..5 : j % Unit(k) = 0 => s # Manager!Current(k)
    BY <1>22
  <1>. QED
    BY <1>1, <1>6, <1>7, <1>9, <1>19, <1>20, <1>21, <1>24, <1>25

(* A list r is list s without the timer t, which was there. *)
Lacks(s, t, r) ==
    \E g \in 1..Len(s) :
      /\ s[g] = t /\ Len(r) = Len(s) - 1
      /\ \A k \in 1..Len(r) : Was(g, k) \in 1..Len(s) /\ r[k] = s[Was(g, k)]

LEMMA WithoutIs ==
    ASSUME NEW s \in Seq(Nodes), NoTwice(s), NEW t \in Nodes, NEW r, r = Manager!Without(s, t)
    PROVE  /\ r \in Seq(Nodes) /\ NoTwice(r)
           /\ \A x : In(r, x) <=> In(s, x) /\ x # t
           /\ ~In(s, t) => r = s
           /\ In(s, t) => Lacks(s, t, r)
  <1>1. Manager!Contains(s, t) <=> In(s, t)
    BY DEF Manager!Contains, In
  <1>2. CASE ~In(s, t)
    <2>1. r = s
      BY <1>1, <1>2 DEF Manager!Without
    <2>. QED
      BY <1>2, <2>1
  <1>3. CASE In(s, t)
    <2>1. PICK g \in 1..Len(s) : s[g] = t
      BY <1>3 DEF In
    <2>2. \A k \in 1..Len(s) : s[k] = t <=> k = g
      BY <2>1 DEF NoTwice
    <2>3. Manager!Place(s, t) = g
      <3>1. PICK n \in Nat : n = Len(s)
        OBVIOUS
      <3>2. (CHOOSE k \in 1..n : s[k] = t) = g
        BY <2>2, <3>1
      <3>. QED
        BY <3>1, <3>2 DEF Manager!Place
    <2>4. r = Manager!RemoveAt(s, g)
      BY <1>1, <1>3, <2>3 DEF Manager!Without
    <2>5. r = Cut(s, g)
      BY <2>4 DEF Manager!RemoveAt, Cut
    <2>6. /\ r \in Seq(Nodes) /\ NoTwice(r) /\ Len(r) = Len(s) - 1
          /\ \A k \in 1..Len(r) : Was(g, k) \in 1..Len(s) /\ r[k] = s[Was(g, k)]
          /\ \A x : In(r, x) <=> In(s, x) /\ x # s[g]
      BY <2>5, OthersLeft
    <2>7. Lacks(s, t, r)
      BY <2>1, <2>6 DEF Lacks
    <2>. QED
      BY <1>3, <2>1, <2>6, <2>7
  <1>. QED
    BY <1>2, <1>3

(* What its first two elements are then. *)
LEMMA FirstsWithout ==
    ASSUME NEW s \in Seq(Nodes), NoTwice(s), NEW t \in Nodes, NEW r, r = Manager!Without(s, t)
    PROVE  /\ Len(s) > 0 /\ s[1] # t => Len(r) > 0 /\ r[1] = s[1]
           /\ Len(s) > 1 /\ s[1] = t => Len(r) > 0 /\ r[1] = s[2]
           /\ Len(s) > 1 /\ s[1] # t /\ s[2] # t => Len(r) > 1 /\ r[2] = s[2]
  <1>1. CASE ~In(s, t)
    <2>1. r = s
      BY <1>1, WithoutIs
    <2>2. Len(s) > 0 => s[1] # t
      BY <1>1 DEF In
    <2>. QED
      BY <2>1, <2>2
  <1>2. CASE In(s, t)
    <2>0. Lacks(s, t, r)
      BY <1>2, WithoutIs
    <2>1. PICK g \in 1..Len(s) :
            /\ s[g] = t /\ Len(r) = Len(s) - 1
            /\ \A k \in 1..Len(r) : Was(g, k) \in 1..Len(s) /\ r[k] = s[Was(g, k)]
      BY <2>0 DEF Lacks
    <2>2. PICK n \in Nat : n = Len(s)
      OBVIOUS
    <2>3. PICK m \in Nat : m = Len(r) /\ m = n - 1
      BY <2>1, <2>2
    <2>4. m > 0 => r[1] = s[Was(g, 1)]
      BY <2>1, <2>3
    <2>5. m > 1 => r[2] = s[Was(g, 2)]
      BY <2>1, <2>3
    <2>6. \A k \in 1..n : s[k] = t => k = g
      BY <2>1, <2>2 DEF NoTwice
    <2>7. g \in 1..n
      BY <2>2
    <2>8. n > 0 /\ s[1] # t => m > 0 /\ Was(g, 1) = 1
      BY <2>1, <2>3, <2>7 DEF Was
    <2>9. n > 1 /\ s[1] = t => m > 0 /\ Was(g, 1) = 2
      BY <2>3, <2>6, <2>7 DEF Was
    <2>10. n > 1 /\ s[1] # t /\ s[2] # t => m > 1 /\ Was(g, 2) = 2
      BY <2>1, <2>3, <2>7 DEF Was
    <2>. QED
      BY <2>2, <2>3, <2>4, <2>5, <2>8, <2>9, <2>10
  <1>. QED
    BY <1>1, <1>2

LEMMA FirstIs ==
    ASSUME NEW s \in Seq(Nodes)
    PROVE  /\ Manager!First(s) = IF Len(s) = 0 THEN "null" ELSE s[1]
           /\ Manager!First(s) = "null" => Len(s) = 0
           /\ Manager!First(s) # "null" => Len(s) > 0 /\ Manager!First(s) = s[1]
           /\ Manager!First(s) \in Nodes \cup {"null"}
  <1>1. CASE s = <<>>
    BY <1>1 DEF Manager!First, Manager!Null
  <1>2. CASE s # <<>>
    <2>1. Len(s) \in Nat /\ Len(s) > 0 /\ Head(s) = s[1] /\ s[1] \in Nodes
      BY <1>2, HeadTailProperties
    <2>2. s[1] # "null"
      BY <2>1, NetAssumption
    <2>. QED
      BY <1>2, <2>1, <2>2 DEF Manager!First, Manager!Null
  <1>. QED
    BY <1>1, <1>2

(* What is behind the first. *)
LEMMA SecondIs ==
    ASSUME NEW s \in Seq(Nodes), NoTwice(s), Len(s) > 0
    PROVE  /\ Manager!Behind(s, s[1]) = IF Len(s) = 1 THEN "null" ELSE s[2]
           /\ Manager!Behind(s, s[1]) \in Nodes \cup {"null"}
           /\ Manager!Behind(s, s[1]) # s[1]
  <1>1. PICK n \in Nat \ {0} : n = Len(s)
    OBVIOUS
  <1>2. PICK x \in Nodes : x = s[1]
    BY <1>1
  <1>3. 1 \in 1..n /\ \A k \in 1..n : s[k] = x <=> k = 1
    BY <1>1, <1>2 DEF NoTwice
  <1>4. (CHOOSE k \in 1..n : s[k] = x) = 1
    BY <1>3
  <1>5. Manager!Place(s, x) = 1
    BY <1>1, <1>4 DEF Manager!Place
  <1>6. Manager!Behind(s, x) = IF n = 1 THEN "null" ELSE s[2]
    BY <1>1, <1>5 DEF Manager!Behind, Manager!Null
  <1>7. n # 1 => 2 \in 1..n
    OBVIOUS
  <1>8. n # 1 => s[2] \in Nodes /\ s[2] # x
    <2>1. n # 1 => s[2] \in Nodes
      BY <1>1, <1>7
    <2>. QED
      BY <1>3, <1>7, <2>1
  <1>9. x # "null"
    BY NetAssumption
  <1>. QED
    BY <1>1, <1>2, <1>6, <1>8, <1>9

(* What is behind one. *)
LEMMA BehindIs ==
    ASSUME NEW s \in Seq(Nodes), NoTwice(s), NEW g \in 1..Len(s)
    PROVE  Manager!Behind(s, s[g]) = IF g = Len(s) THEN "null" ELSE s[g + 1]
  <1>1. PICK n \in Nat : n = Len(s)
    OBVIOUS
  <1>2. PICK x : x = s[g]
    OBVIOUS
  <1>3. \A k \in 1..n : s[k] = x <=> k = g
    BY <1>1, <1>2 DEF NoTwice
  <1>4. (CHOOSE k \in 1..n : s[k] = x) = g
    BY <1>1, <1>3
  <1>5. Manager!Place(s, x) = g
    BY <1>1, <1>4 DEF Manager!Place
  <1>. QED
    BY <1>1, <1>2, <1>5 DEF Manager!Behind, Manager!Null

(* Whether z comes before x in a list; if one of them is missing, it does. *)
Before(s, z, x) == \A g, h \in 1..Len(s) : s[g] = z /\ s[h] = x => g < h

LEMMA Missing ==
    ASSUME NEW s, NEW z, NEW x, ~In(s, x)
    PROVE  Before(s, z, x)
  BY DEF Before, In

LEMMA PlacesTell ==
    ASSUME NEW s, NoTwice(s), NEW g \in 1..Len(s), NEW h \in 1..Len(s)
    PROVE  Before(s, s[g], s[h]) <=> g < h
  BY DEF Before, NoTwice

(* The order of the others stays when one is taken out or put behind. *)
LEMMA OrderWithout ==
    ASSUME NEW s \in Seq(Nodes), NoTwice(s), NEW t \in Nodes, NEW r, r = Manager!Without(s, t),
           NEW z, z # t, NEW x, x # t
    PROVE  Before(r, z, x) <=> Before(s, z, x)
  <1>1. CASE ~In(s, t)
    BY <1>1, WithoutIs
  <1>2. CASE In(s, t)
    <2>0. Lacks(s, t, r)
      BY <1>2, WithoutIs
    <2>1. PICK n \in Nat : n = Len(s)
      OBVIOUS
    <2>2. PICK g \in 1..n :
            /\ s[g] = t /\ Len(r) = n - 1
            /\ \A k \in 1..Len(r) : Was(g, k) \in 1..n /\ r[k] = s[Was(g, k)]
      BY <2>0, <2>1 DEF Lacks
    <2>3. ASSUME Before(s, z, x), NEW a \in 1..Len(r), NEW b \in 1..Len(r), r[a] = z, r[b] = x
          PROVE  a < b
      <3>1. Was(g, a) \in 1..n /\ Was(g, b) \in 1..n /\ s[Was(g, a)] = z /\ s[Was(g, b)] = x
        BY <2>2, <2>3
      <3>2. Was(g, a) < Was(g, b)
        BY <2>1, <2>3, <3>1 DEF Before
      <3>3. a \in Int /\ b \in Int /\ g \in Int
        BY <2>1, <2>2
      <3>. QED
        BY <3>2, <3>3 DEF Was
    <2>4. ASSUME Before(r, z, x), NEW a \in 1..n, NEW b \in 1..n, s[a] = z, s[b] = x
          PROVE  a < b
      <3>1. a # g /\ b # g
        BY <2>2, <2>4
      <3>. DEFINE went(k) == IF k < g THEN k ELSE k - 1
      <3>2. /\ went(a) \in 1..(n - 1) /\ Was(g, went(a)) = a
            /\ went(b) \in 1..(n - 1) /\ Was(g, went(b)) = b
        BY <3>1 DEF Was
      <3>3. r[went(a)] = z /\ r[went(b)] = x
        BY <2>2, <2>4, <3>2
      <3>4. went(a) < went(b)
        BY <2>2, <2>4, <3>2, <3>3 DEF Before
      <3>. QED
        BY <3>1, <3>4
    <2>. QED
      BY <2>1, <2>3, <2>4 DEF Before
  <1>. QED
    BY <1>1, <1>2

LEMMA OrderWith ==
    ASSUME NEW s, NEW t, NEW r, NEW n \in Nat, n = Len(s), Len(r) = n + 1, r[n + 1] = t,
           \A k \in 1..n : r[k] = s[k],
           NEW z, z # t, NEW x, x # t
    PROVE  Before(r, z, x) <=> Before(s, z, x)
  <1>1. \A k \in 1..(n + 1) : k \in 1..n \/ k = n + 1
    OBVIOUS
  <1>2. \A k \in 1..n : k \in 1..(n + 1)
    OBVIOUS
  <1>3. ASSUME Before(r, z, x) PROVE Before(s, z, x)
    BY <1>2, <1>3 DEF Before
  <1>4. ASSUME Before(s, z, x) PROVE Before(r, z, x)
    BY <1>1, <1>4 DEF Before
  <1>. QED
    BY <1>3, <1>4

(* A timer is in one list at most, and there once. *)
NodeLists(lists) ==
    /\ \A s \in Manager!Lists : NoTwice(lists[s])
    /\ \A s, u \in Manager!Lists : \A z : In(lists[s], z) /\ In(lists[u], z) => s = u

ListsOf == [Manager!Lists -> Seq(Nodes)]

(* A timer is out of all lists; or one that was in none is in list c.      *)
Leaves(lists, then, t) ==
    \A s \in Manager!Lists : \A z : In(then[s], z) <=> In(lists[s], z) /\ z # t

Enters(lists, then, t, c) ==
    /\ \A s \in Manager!Lists : ~In(lists[s], t)
    /\ \A s \in Manager!Lists : \A z :
         In(then[s], z) <=> In(lists[s], z) \/ (s = c /\ z = t)

KeepsOrder(lists, then, t) ==
    \A s \in Manager!Lists : \A z, x :
      z # t /\ x # t => (Before(then[s], z, x) <=> Before(lists[s], z, x))

LEMMA UnlinkedIs ==
    ASSUME NEW lists \in ListsOf, NodeLists(lists),
           NEW t \in Nodes, NEW then, then = Manager!Unlinked(lists, t)
    PROVE  /\ then \in ListsOf /\ NodeLists(then)
           /\ \A s \in Manager!Lists : then[s] = Manager!Without(lists[s], t)
           /\ Leaves(lists, then, t) /\ KeepsOrder(lists, then, t)
  <1>1. then = [s \in Manager!Lists |-> Manager!Without(lists[s], t)]
    BY DEF Manager!Unlinked, ListsOf
  <1>2. ASSUME NEW s \in Manager!Lists
        PROVE  /\ then[s] = Manager!Without(lists[s], t)
               /\ then[s] \in Seq(Nodes) /\ NoTwice(then[s])
               /\ \A x : In(then[s], x) <=> In(lists[s], x) /\ x # t
    <2>1. then[s] = Manager!Without(lists[s], t)
      BY <1>1
    <2>2. lists[s] \in Seq(Nodes) /\ NoTwice(lists[s])
      BY DEF ListsOf, NodeLists
    <2>. QED
      BY <2>1, <2>2, WithoutIs
  <1>3. then \in ListsOf
    <2>1. \A s \in Manager!Lists : Manager!Without(lists[s], t) \in Seq(Nodes)
      BY <1>2
    <2>. QED
      BY <1>1, <2>1 DEF ListsOf
  <1>4. NodeLists(then)
    BY <1>2 DEF NodeLists
  <1>5. Leaves(lists, then, t)
    BY <1>2 DEF Leaves
  <1>6. KeepsOrder(lists, then, t)
    <2>1. ASSUME NEW s \in Manager!Lists, NEW z, z # t, NEW x, x # t
          PROVE  Before(then[s], z, x) <=> Before(lists[s], z, x)
      <3>1. lists[s] \in Seq(Nodes) /\ NoTwice(lists[s])
        BY DEF ListsOf, NodeLists
      <3>. QED
        BY <1>2, <2>1, <3>1, OrderWithout
    <2>. QED
      BY <2>1 DEF KeepsOrder
  <1>. QED
    BY <1>2, <1>3, <1>4, <1>5, <1>6

LEMMA AddedIs ==
    ASSUME NEW lists \in ListsOf, NodeLists(lists),
           NEW t \in Nodes, \A s \in Manager!Lists : ~In(lists[s], t),
           NEW e, Manager!Slot(e) \in Manager!Lists,
           NEW then, then = Manager!addTimerNode(lists, t, e)
    PROVE  /\ then \in ListsOf /\ NodeLists(then)
           /\ \A s \in Manager!Lists : s # Manager!Slot(e) => then[s] = lists[s]
           /\ Enters(lists, then, t, Manager!Slot(e)) /\ KeepsOrder(lists, then, t)
  <1>1. PICK c \in Manager!Lists : c = Manager!Slot(e)
    OBVIOUS
  <1>2. then = [lists EXCEPT ![c] = Append(@, t)]
    BY <1>1 DEF Manager!addTimerNode
  <1>3. then = [lists EXCEPT ![c] = Append(lists[c], t)]
    BY <1>2
  <1>4. then[c] = Append(lists[c], t) /\ \A s \in Manager!Lists : s # c => then[s] = lists[s]
    BY <1>3 DEF ListsOf
  <1>5. lists[c] \in Seq(Nodes) /\ NoTwice(lists[c]) /\ ~In(lists[c], t)
    BY DEF ListsOf, NodeLists
  <1>6. then[c] \in Seq(Nodes) /\ Longer(lists[c], t, then[c])
    BY <1>4, <1>5, OneBehind
  <1>7. /\ NoTwice(then[c]) /\ \A x : In(then[c], x) <=> In(lists[c], x) \/ x = t
    BY <1>6 DEF Longer
  <1>8. then \in ListsOf
    <2>1. Append(lists[c], t) \in Seq(Nodes)
      BY <1>4, <1>6
    <2>. QED
      BY <1>3, <2>1 DEF ListsOf
  <1>9. Enters(lists, then, t, c)
    <2>1. \A s \in Manager!Lists : \A x :
            In(then[s], x) <=> In(lists[s], x) \/ (s = c /\ x = t)
      BY <1>4, <1>7
    <2>. QED
      BY <2>1 DEF Enters
  <1>10. NodeLists(then)
    <2>1. \A s \in Manager!Lists : NoTwice(then[s])
      BY <1>4, <1>7 DEF NodeLists
    <2>2. ASSUME NEW s \in Manager!Lists, NEW u \in Manager!Lists, NEW z,
                 In(then[s], z), In(then[u], z)
          PROVE  s = u
      <3>1. CASE z = t
        BY <1>9, <2>2, <3>1 DEF Enters
      <3>2. CASE z # t
        BY <1>9, <2>2, <3>2 DEF Enters, NodeLists
      <3>. QED
        BY <3>1, <3>2
    <2>. QED
      BY <2>1, <2>2 DEF NodeLists
  <1>11. KeepsOrder(lists, then, t)
    <2>1. ASSUME NEW s \in Manager!Lists, NEW z, z # t, NEW x, x # t
          PROVE  Before(then[s], z, x) <=> Before(lists[s], z, x)
      <3>1. CASE s # c
        BY <1>4, <3>1
      <3>2. CASE s = c
        <4>1. PICK l \in Seq(Nodes) : l = lists[c]
          BY <1>5
        <4>2. PICK r : r = then[c]
          OBVIOUS
        <4>3. PICK n \in Nat : n = Len(l)
          OBVIOUS
        <4>4. Len(r) = n + 1 /\ r[n + 1] = t /\ \A k \in 1..n : r[k] = l[k]
          BY <1>6, <4>1, <4>2, <4>3 DEF Longer
        <4>5. Before(r, z, x) <=> Before(l, z, x)
          BY <2>1, <4>3, <4>4, OrderWith
        <4>. QED
          BY <3>2, <4>1, <4>2, <4>5
      <3>. QED
        BY <3>1, <3>2
    <2>. QED
      BY <2>1 DEF KeepsOrder
  <1>. QED
    BY <1>1, <1>4, <1>8, <1>9, <1>10, <1>11

(* Whether handle() is through with timer z of list s in jiffy m, for one  *)
(* that is behind those it stays with or is moved to.                      *)
Dealt(lists, z, s, m, where, l, x, y) ==
    \/ where = "cascade" /\ s[1] \in 2..(l - 1)
    \/ where = "scan" /\ (s # <<1, Index(m, 1)>> \/ Before(lists[s], z, x))
    \/ where = "run" /\ (s # <<1, Index(m, 1)>> \/ Before(lists[s], z, y))

(* The timers of a list come in this jiffy or later, and those that are    *)
(* dealt with later; the one that runs now is moved or deleted.  Nothing   *)
(* is said if the next one has been cancelled.                             *)
Punctual(lists, rec, m, where, l, x, y) ==
    \A s \in Manager!Lists : \A t \in Nodes : In(lists[s], t) =>
      \/ where = "run" /\ (t = x \/ y = "freed")
      \/ ~Dealt(lists, t, s, m, where, l, x, y) /\ Booked(rec[t], s, m)
      \/ Dealt(lists, t, s, m, where, l, x, y) /\ Booked(rec[t], s, m + 1)

(* Unless the timer that runs has cancelled itself, it is in its list and  *)
(* has come; and so is the next one, unless it was cancelled.              *)
RunsNext(list, c, rec, m, x, y) ==
    /\ x # "null"
    /\ x \in Nodes => In(list, x) /\ Booked(rec[x], c, m) /\ y # x
    /\ y \in Nodes => In(list, y)

NodeData ==
    /\ jiffies \in Nat /\ tw \in ListsOf /\ node \in [Nodes -> NodeRec]
    /\ {p, q} \subseteq Nodes \cup {"null", "freed"} /\ rmNode \in Nodes \cup {"null"}
    /\ level \in 1..5
    /\ rmNode \in Nodes => node[rmNode].turns < 2

NodeCursor ==
    /\ nodeAt = "cascade" => /\ level # 1 /\ jiffies % Unit(level) = 0
                             /\ p = Manager!First(tw[Manager!Current(level)])
    /\ nodeAt # "cascade" => level = 1
    /\ nodeAt = "scan" => p = "null" \/ (p \in Nodes /\ In(tw[Manager!Current(1)], p))
    /\ nodeAt = "run" => RunsNext(tw[Manager!Current(1)], Manager!Current(1), node, jiffies,
                                  p, q)

NodeLive ==
    /\ NodeLists(tw)
    /\ Punctual(tw, node, jiffies, nodeAt, level, p, q)
    /\ NodeCursor

NodeInv == NodeData /\ (nodeAt # "broken" => NodeLive)

LEMMA Marks == "null" \notin Nodes /\ "freed" \notin Nodes
  BY NetAssumption

(* The list of the first wheel that is current. *)
LEMMA FirstWheel ==
    ASSUME jiffies \in Nat
    PROVE  /\ Manager!Current(1) \in Manager!Lists /\ Manager!Current(1)[1] = 1
           /\ Manager!Current(1) = <<1, Index(jiffies, 1)>>
           /\ jiffies % Unit(1) = 0
  <1>1. Unit(1) = 1 /\ jiffies % 1 = 0 /\ 1 \in 1..5
    BY Units
  <1>. QED
    BY <1>1, CurrentIs

LEMMA CurrentStays ==
    ASSUME jiffies' = jiffies, NEW n
    PROVE  Manager!Current(n)' = Manager!Current(n)
  BY DEF Manager!Current, Manager!Index, Manager!Unit, Manager!Size

(* With one timer out, or one in, the others are as punctual, while the    *)
(* cursor is on neither.                                                   *)
TakenFrom(lists, r1, then, r2, t) ==
    /\ \A z \in Nodes : z # t => r2[z] = r1[z]
    /\ Leaves(lists, then, t) /\ KeepsOrder(lists, then, t)

PutInto(lists, r1, then, r2, t, c) ==
    /\ \A z \in Nodes : z # t => r2[z] = r1[z]
    /\ Enters(lists, then, t, c) /\ KeepsOrder(lists, then, t)

Elsewhere(t, where, x, y) == (where = "scan" => x # t) /\ (where = "run" => y # t)

LEMMA DealtStays ==
    ASSUME NEW lists, NEW then, NEW t, KeepsOrder(lists, then, t),
           NEW m, NEW where, NEW l, NEW x, NEW y, Elsewhere(t, where, x, y),
           NEW s \in Manager!Lists, NEW z, z # t
    PROVE  Dealt(then, z, s, m, where, l, x, y) <=> Dealt(lists, z, s, m, where, l, x, y)
  BY DEF KeepsOrder, Dealt, Elsewhere

LEMMA PunctualWithout ==
    ASSUME NEW lists, NEW r1, NEW r2, NEW m, NEW where, NEW l, NEW x, NEW y, NEW t, NEW then,
           Punctual(lists, r1, m, where, l, x, y), TakenFrom(lists, r1, then, r2, t),
           Elsewhere(t, where, x, y)
    PROVE  Punctual(then, r2, m, where, l, x, y)
  <1>1. SUFFICES ASSUME NEW s \in Manager!Lists, NEW z \in Nodes, In(then[s], z)
                 PROVE  \/ where = "run" /\ (z = x \/ y = "freed")
                        \/ ~Dealt(then, z, s, m, where, l, x, y) /\ Booked(r2[z], s, m)
                        \/ Dealt(then, z, s, m, where, l, x, y) /\ Booked(r2[z], s, m + 1)
    BY DEF Punctual
  <1>2. z # t /\ In(lists[s], z) /\ r2[z] = r1[z]
    BY <1>1 DEF TakenFrom, Leaves
  <1>3. Dealt(then, z, s, m, where, l, x, y) <=> Dealt(lists, z, s, m, where, l, x, y)
    BY <1>2, DealtStays DEF TakenFrom
  <1>. QED
    BY <1>2, <1>3 DEF Punctual

LEMMA PunctualWith ==
    ASSUME NEW lists, NEW r1, NEW r2, NEW m, NEW where, NEW l, NEW x, NEW y, NEW t, NEW c,
           NEW then, Punctual(lists, r1, m, where, l, x, y), PutInto(lists, r1, then, r2, t, c),
           Elsewhere(t, where, x, y), Booked(r2[t], c, m),
           Dealt(then, t, c, m, where, l, x, y) => Booked(r2[t], c, m + 1)
    PROVE  Punctual(then, r2, m, where, l, x, y)
  <1>1. SUFFICES ASSUME NEW s \in Manager!Lists, NEW z \in Nodes, In(then[s], z)
                 PROVE  \/ where = "run" /\ (z = x \/ y = "freed")
                        \/ ~Dealt(then, z, s, m, where, l, x, y) /\ Booked(r2[z], s, m)
                        \/ Dealt(then, z, s, m, where, l, x, y) /\ Booked(r2[z], s, m + 1)
    BY DEF Punctual
  <1>2. CASE z = t
    BY <1>1, <1>2 DEF PutInto, Enters
  <1>3. CASE z # t
    <2>1. In(lists[s], z) /\ r2[z] = r1[z]
      BY <1>1, <1>3 DEF PutInto, Enters
    <2>2. Dealt(then, z, s, m, where, l, x, y) <=> Dealt(lists, z, s, m, where, l, x, y)
      BY <1>3, DealtStays DEF PutInto
    <2>. QED
      BY <2>1, <2>2 DEF Punctual
  <1>. QED
    BY <1>2, <1>3

LEMMA AllReach ==
    /\ Unit(6) \in Nat \ {0}
    /\ Manager!NoNode \in NodeRec
  <1>1. Unit(6) \in Nat \ {0}
    <2>1. 5 \in 1..5 /\ 5 + 1 = 6
      OBVIOUS
    <2>. QED
      BY <2>1, Units
  <1>2. 0 \in 0..(Unit(6) - 1)
    BY <1>1
  <1>. QED
    BY <1>1, <1>2 DEF Manager!NoNode, NodeRec

LEMMA CurrentLevel ==
    ASSUME jiffies' = jiffies, level' = level
    PROVE  /\ Manager!Current(level)' = Manager!Current(level)
           /\ (jiffies % Unit(level))' = jiffies % Unit(level)
  BY DEF Manager!Current, Manager!Index, Manager!Unit, Manager!Size, Unit

LEMMA ManagerAdding ==
    ASSUME NodeInv, NEW t \in Nodes, NEW x \in NodeDelays, NEW w \in NodeIntervals,
           Manager!addTimer(t, x, w)
    PROVE  NodeInv'
  <1>1. /\ nodeAt \in {"sleep", "run"} /\ ~Manager!Listed(t)
        /\ node' = [node EXCEPT ![t] =
                      [endtime |-> jiffies + x, interval |-> w,
                       turns |-> IF nodeAt = "run" /\ x = 0 THEN 1 ELSE 0]]
        /\ tw' = Manager!addTimerNode(tw, t, jiffies + x)
        /\ jiffies' = jiffies /\ rmNode' = rmNode /\ nodeAt' = nodeAt /\ level' = level
        /\ p' = p /\ q' = q /\ nodeCancel' = nodeCancel
    BY DEF Manager!addTimer
  <1>2. NodeData /\ NodeLists(tw) /\ NodeCursor
        /\ Punctual(tw, node, jiffies, nodeAt, level, p, q)
    BY <1>1 DEF NodeInv, NodeLive
  <1>3. PICK j \in Nat : j = jiffies
    BY <1>2 DEF NodeData
  <1>4. x \in Nat /\ w \in 0..(Unit(6) - 1) /\ x < Unit(6)
    <2>1. Unit(6) \in Nat \ {0}
      BY AllReach
    <2>. QED
      BY <2>1, ReachAssumption DEF Unit
  <1>5. PICK u \in 0..1 : u = IF nodeAt = "run" /\ x = 0 THEN 1 ELSE 0
    OBVIOUS
  <1>6. PICK r \in NodeRec : /\ r = [endtime |-> j + x, interval |-> w, turns |-> u]
                             /\ r.endtime = j + x /\ r.turns = u
    <2>1. [endtime |-> j + x, interval |-> w, turns |-> u] \in NodeRec
      <3>1. j + x \in Nat /\ u \in 0..2
        BY <1>4
      <3>. QED
        BY <1>4, <3>1 DEF NodeRec
    <2>. QED
      BY <2>1
  <1>7. /\ node' = [node EXCEPT ![t] = r] /\ node'[t] = r
        /\ \A y \in Nodes : y # t => node'[y] = node[y]
        /\ node' \in [Nodes -> NodeRec]
    BY <1>1, <1>2, <1>3, <1>5, <1>6 DEF NodeData
  <1>8. PICK c : c = Manager!Slot(j + x)
    OBVIOUS
  <1>9. c \in Manager!Lists /\ Booked(r, c, j)
    BY <1>3, <1>4, <1>6, <1>8, SlotComes
  <1>10. x # 0 \/ r.turns # 0 => Booked(r, c, j + 1)
    BY <1>3, <1>4, <1>6, <1>8, SlotComes
  <1>11. tw \in ListsOf
    BY <1>2 DEF NodeData
  <1>12. \A s \in Manager!Lists : ~In(tw[s], t)
    BY <1>1, <1>11 DEF Manager!Listed, Manager!Contains, ListsOf, In
  <1>13. Elsewhere(t, nodeAt, p, q) /\ (nodeAt = "run" => t # p)
    <2>1. CASE nodeAt = "run"
      <3>1. Manager!Current(1) \in Manager!Lists
        BY <1>2, FirstWheel DEF NodeData
      <3>2. ~In(tw[Manager!Current(1)], t)
        BY <1>12, <3>1
      <3>3. /\ p \in Nodes => In(tw[Manager!Current(1)], p)
            /\ q \in Nodes => In(tw[Manager!Current(1)], q)
        BY <1>2, <2>1 DEF NodeCursor, RunsNext
      <3>. QED
        BY <2>1, <3>2, <3>3 DEF Elsewhere
    <2>2. CASE nodeAt = "sleep"
      BY <2>2 DEF Elsewhere
    <2>. QED
      BY <1>1, <2>1, <2>2
  <1>14. PICK then : then = tw'
    OBVIOUS
  <1>15. then = Manager!addTimerNode(tw, t, j + x) /\ Manager!Slot(j + x) \in Manager!Lists
    BY <1>1, <1>3, <1>8, <1>9, <1>14
  <1>16. /\ then \in ListsOf /\ NodeLists(then)
         /\ Enters(tw, then, t, c) /\ KeepsOrder(tw, then, t)
    BY <1>2, <1>8, <1>11, <1>12, <1>15, AddedIs
  <1>17. PICK n : n = node'
    OBVIOUS
  <1>18. n[t] = r /\ \A z \in Nodes : z # t => n[z] = node[z]
    BY <1>7, <1>17
  <1>19. Punctual(then, n, j, nodeAt, level, p, q)
    <2>1. Dealt(then, t, c, j, nodeAt, level, p, q) => Booked(r, c, j + 1)
      <3>1. nodeAt = "run" => x # 0 \/ r.turns # 0
        BY <1>5, <1>6
      <3>2. Dealt(then, t, c, j, nodeAt, level, p, q) => nodeAt = "run"
        BY <1>1 DEF Dealt
      <3>. QED
        BY <1>10, <3>1, <3>2
    <2>2. Punctual(tw, node, j, nodeAt, level, p, q)
      BY <1>2, <1>3
    <2>3. PutInto(tw, node, then, n, t, c)
      BY <1>16, <1>18 DEF PutInto
    <2>4. /\ Booked(n[t], c, j)
          /\ Dealt(then, t, c, j, nodeAt, level, p, q) => Booked(n[t], c, j + 1)
      BY <1>9, <1>18, <2>1
    <2>. QED
      BY <1>13, <2>2, <2>3, <2>4, PunctualWith
  <1>20. NodeData'
    <2>1. rmNode \in Nodes => n[rmNode].turns < 2
      <3>1. CASE rmNode = t
        BY <1>6, <1>18, <3>1
      <3>2. CASE rmNode # t
        BY <1>2, <1>18, <3>2 DEF NodeData
      <3>. QED
        BY <3>1, <3>2
    <2>2. /\ level \in 1..5 /\ {p, q} \subseteq Nodes \cup {"null", "freed"}
          /\ rmNode \in Nodes \cup {"null"}
      BY <1>2 DEF NodeData
    <2>. QED
      BY <1>1, <1>3, <1>7, <1>14, <1>16, <1>17, <2>1, <2>2 DEF NodeData
  <1>21. NodeCursor'
    <2>1. nodeAt' = "sleep" \/ nodeAt' = "run"
      BY <1>1
    <2>2. level' = 1
      BY <1>1, <1>2 DEF NodeCursor
    <2>3. ASSUME nodeAt = "run"
          PROVE  RunsNext(then[Manager!Current(1)], Manager!Current(1), n, jiffies, p, q)
      <3>1. PICK d \in Manager!Lists : d = Manager!Current(1)
        BY <1>2, FirstWheel DEF NodeData
      <3>2. RunsNext(tw[d], d, node, jiffies, p, q)
        BY <1>2, <2>3, <3>1 DEF NodeCursor
      <3>3. \A z : In(tw[d], z) => In(then[d], z)
        BY <1>16 DEF Enters
      <3>4. p \in Nodes => n[p] = node[p]
        BY <1>13, <1>18, <2>3
      <3>5. RunsNext(then[d], d, n, jiffies, p, q)
        BY <3>2, <3>3, <3>4 DEF RunsNext
      <3>. QED
        BY <3>1, <3>5
    <2>4. Manager!Current(1)' = Manager!Current(1)
      BY <1>1, CurrentStays
    <2>. QED
      BY <1>1, <1>14, <1>17, <2>1, <2>2, <2>3, <2>4 DEF NodeCursor
  <1>22. NodeLive'
    BY <1>1, <1>3, <1>14, <1>16, <1>17, <1>19, <1>21 DEF NodeLive
  <1>. QED
    BY <1>20, <1>22 DEF NodeInv

LEMMA ManagerDeleting ==
    ASSUME NodeInv, NEW t \in Nodes, Manager!delTimer(t)
    PROVE  NodeInv'
  <1>1. /\ nodeAt \in {"sleep", "run"}
        /\ rmNode' = t /\ tw' = Manager!Unlinked(tw, t)
        /\ node' = [node EXCEPT ![t] = Manager!NoNode]
        /\ p' = (IF p = t THEN "freed" ELSE p) /\ q' = (IF q = t THEN "freed" ELSE q)
        /\ jiffies' = jiffies /\ nodeAt' = nodeAt /\ level' = level
    BY DEF Manager!delTimer, Manager!Freed
  <1>2. NodeData /\ NodeLists(tw) /\ NodeCursor
        /\ Punctual(tw, node, jiffies, nodeAt, level, p, q)
    BY <1>1 DEF NodeInv, NodeLive
  <1>3. tw \in ListsOf
    BY <1>2 DEF NodeData
  <1>4. PICK then : then = tw'
    OBVIOUS
  <1>5. then = Manager!Unlinked(tw, t)
    BY <1>1, <1>4
  <1>6. then \in ListsOf /\ NodeLists(then) /\ Leaves(tw, then, t) /\ KeepsOrder(tw, then, t)
    BY <1>2, <1>3, <1>5, UnlinkedIs
  <1>7. PICK n : n = node'
    OBVIOUS
  <1>8. n \in [Nodes -> NodeRec] /\ n[t].turns = 0 /\ \A z \in Nodes : z # t => n[z] = node[z]
    <2>1. Manager!NoNode \in NodeRec
      BY AllReach
    <2>2. n[t] = Manager!NoNode
      BY <1>1, <1>2, <1>7 DEF NodeData
    <2>. QED
      BY <1>1, <1>2, <1>7, <2>1, <2>2 DEF NodeData, Manager!NoNode
  <1>9. PICK x, y : x = p' /\ y = q'
    OBVIOUS
  <1>10. Punctual(then, n, jiffies, nodeAt, level, x, y)
    <2>1. CASE nodeAt = "run" /\ q = t
      <3>1. y = "freed"
        BY <1>1, <1>9, <2>1
      <3>. QED
        BY <2>1, <3>1 DEF Punctual
    <2>2. CASE nodeAt = "run" /\ q # t
      <3>1. y = q /\ Elsewhere(t, nodeAt, p, q)
        BY <1>1, <1>9, <2>2 DEF Elsewhere
      <3>2. TakenFrom(tw, node, then, n, t)
        BY <1>6, <1>8 DEF TakenFrom
      <3>3. Punctual(then, n, jiffies, nodeAt, level, p, q)
        BY <1>2, <3>1, <3>2, PunctualWithout
      <3>4. CASE p = t
        <4>1. \A s \in Manager!Lists : ~In(then[s], p)
          BY <1>6, <3>4 DEF Leaves
        <4>2. \A s, z : Dealt(then, z, s, jiffies, "run", level, x, q)
                          <=> Dealt(then, z, s, jiffies, "run", level, p, q)
          BY DEF Dealt
        <4>. QED
          BY <2>2, <3>1, <3>3, <4>1, <4>2 DEF Punctual
      <3>5. CASE p # t
        BY <1>1, <1>9, <3>1, <3>3, <3>5
      <3>. QED
        BY <3>4, <3>5
    <2>3. CASE nodeAt = "sleep"
      <3>1. Elsewhere(t, nodeAt, p, q)
        BY <2>3 DEF Elsewhere
      <3>2. TakenFrom(tw, node, then, n, t)
        BY <1>6, <1>8 DEF TakenFrom
      <3>3. Punctual(then, n, jiffies, nodeAt, level, p, q)
        BY <1>2, <3>1, <3>2, PunctualWithout
      <3>4. \A s, z : Dealt(then, z, s, jiffies, "sleep", level, x, y)
                        <=> Dealt(then, z, s, jiffies, "sleep", level, p, q)
        BY DEF Dealt
      <3>. QED
        BY <2>3, <3>3, <3>4 DEF Punctual
    <2>. QED
      BY <1>1, <2>1, <2>2, <2>3
  <1>11. NodeData'
    <2>1. {x, y} \subseteq Nodes \cup {"null", "freed"}
      BY <1>1, <1>2, <1>9 DEF NodeData
    <2>2. level \in 1..5 /\ jiffies \in Nat /\ n[t].turns < 2
      BY <1>2, <1>8 DEF NodeData
    <2>. QED
      BY <1>1, <1>4, <1>6, <1>7, <1>8, <1>9, <2>1, <2>2 DEF NodeData
  <1>12. NodeCursor'
    <2>1. nodeAt' = "sleep" \/ nodeAt' = "run"
      BY <1>1
    <2>2. level' = 1
      BY <1>1, <1>2 DEF NodeCursor
    <2>3. ASSUME nodeAt = "run"
          PROVE  RunsNext(then[Manager!Current(1)], Manager!Current(1), n, jiffies, x, y)
      <3>1. PICK d \in Manager!Lists : d = Manager!Current(1)
        BY <1>2, FirstWheel DEF NodeData
      <3>2. RunsNext(tw[d], d, node, jiffies, p, q)
        BY <1>2, <2>3, <3>1 DEF NodeCursor
      <3>3. \A z : z # t /\ In(tw[d], z) => In(then[d], z)
        BY <1>6 DEF Leaves
      <3>4. x # "null" /\ (x \in Nodes => x = p /\ x # t) /\ (y \in Nodes => y = q /\ y # t)
        BY <1>1, <1>9, <3>2, Marks DEF RunsNext
      <3>5. x \in Nodes => In(then[d], x) /\ Booked(n[x], d, jiffies)
        BY <1>8, <3>2, <3>3, <3>4 DEF RunsNext
      <3>6. y \in Nodes => In(then[d], y)
        BY <3>2, <3>3, <3>4 DEF RunsNext
      <3>7. x \in Nodes => y # x
        <4>1. x \in Nodes => x = p /\ q # p
          BY <3>2, <3>4 DEF RunsNext
        <4>2. y = q \/ y = "freed"
          BY <1>1, <1>9
        <4>. QED
          BY <4>1, <4>2, Marks
      <3>8. RunsNext(then[d], d, n, jiffies, x, y)
        BY <3>4, <3>5, <3>6, <3>7 DEF RunsNext
      <3>. QED
        BY <3>1, <3>8
    <2>4. Manager!Current(1)' = Manager!Current(1)
      BY <1>1, CurrentStays
    <2>. QED
      BY <1>1, <1>4, <1>7, <1>9, <2>1, <2>2, <2>3, <2>4 DEF NodeCursor
  <1>13. NodeLive'
    BY <1>1, <1>4, <1>6, <1>7, <1>9, <1>10, <1>12 DEF NodeLive
  <1>. QED
    BY <1>11, <1>13 DEF NodeInv

(* A wheel's list is distributed, timer by timer. *)
LEMMA ManagerCascading ==
    ASSUME NodeInv, Manager!cascade
    PROVE  NodeInv'
  <1>1. /\ nodeAt = "cascade" /\ p # "null"
        /\ tw' = Manager!addTimerNode(Manager!Unlinked(tw, p), p, node[p].endtime)
        /\ p' = Manager!Behind(tw[Manager!Current(level)], p)
        /\ jiffies' = jiffies /\ node' = node /\ rmNode' = rmNode
        /\ nodeAt' = nodeAt /\ level' = level /\ q' = q /\ nodeCancel' = nodeCancel
    BY DEF Manager!cascade, Manager!Null
  <1>2. NodeData /\ NodeLists(tw) /\ NodeCursor
        /\ Punctual(tw, node, jiffies, nodeAt, level, p, q)
    BY <1>1 DEF NodeInv, NodeLive
  <1>3. tw \in ListsOf /\ jiffies \in Nat
    BY <1>2 DEF NodeData
  <1>4. level \in 2..5 /\ level \in 1..5 /\ jiffies % Unit(level) = 0
    BY <1>1, <1>2 DEF NodeData, NodeCursor
  <1>5. PICK d \in Manager!Lists : d = Manager!Current(level)
    BY <1>3, <1>4, CurrentIs
  <1>6. PICK l \in Seq(Nodes) : l = tw[d]
    BY <1>3 DEF ListsOf
  <1>7. p = Manager!First(l)
    BY <1>1, <1>2, <1>5, <1>6 DEF NodeCursor
  <1>8. Len(l) > 0 /\ p = l[1] /\ p \in Nodes
    BY <1>1, <1>7, FirstIs
  <1>9. In(l, p) /\ NoTwice(l)
    <2>1. In(l, p)
      BY <1>8 DEF In
    <2>2. NoTwice(l)
      BY <1>2, <1>6 DEF NodeLists
    <2>. QED
      BY <2>1, <2>2
  <1>10. Elsewhere(p, nodeAt, p, q)
    BY <1>1 DEF Elsewhere
  <1>11. PICK r \in NodeRec : r = node[p]
    BY <1>2, <1>8 DEF NodeData
  <1>12. d[1] = level
    BY <1>3, <1>4, <1>5, CurrentIs
  <1>13. Comes(r, d, jiffies)
    <2>1. ~Dealt(tw, p, d, jiffies, nodeAt, level, p, q)
      BY <1>1, <1>4, <1>12 DEF Dealt
    <2>2. Booked(r, d, jiffies)
      BY <1>1, <1>2, <1>6, <1>8, <1>9, <1>11, <2>1 DEF Punctual
    <2>. QED
      BY <1>3, <1>4, <1>5, <2>2, ComesNow
  <1>14. PICK x \in Nat : r.endtime = jiffies + x /\ x < Unit(6)
    <2>1. PICK e \in Nat : e = r.endtime
      BY DEF NodeRec
    <2>2. jiffies = Moment(e, level)
      BY <1>4, <1>12, <1>13, <2>1 DEF Comes
    <2>3. jiffies <= e /\ e < jiffies + Unit(level)
      BY <1>4, <2>1, <2>2, MomentIs
    <2>4. Unit(level) <= Unit(6)
      <3>1. \A n \in 1..5 : Unit(n) <= Unit(n + 1)
        <4>1. SUFFICES ASSUME NEW n \in 1..5 PROVE Unit(n) <= Unit(n + 1)
          OBVIOUS
        <4>2. PICK a, b \in Nat \ {0} : a = Unit(n) /\ b = Size(n) /\ Unit(n + 1) = a * b
          BY Units
        <4>3. a <= a * b
          <5>1. PICK c \in Nat : b = c + 1
            <6>1. b - 1 \in Nat /\ b = (b - 1) + 1
              OBVIOUS
            <6>. QED
              BY <6>1
          <5>2. a * (c + 1) = a * c + a /\ a * c \in Nat
            OBVIOUS
          <5>. QED
            BY <5>1, <5>2
        <4>. QED
          BY <4>2, <4>3
      <3>2. PICK b, c, f, g, h \in Nat :
              b = Unit(2) /\ c = Unit(3) /\ f = Unit(4) /\ g = Unit(5) /\ h = Unit(6)
        <4>1. \A n \in 1..5 : Unit(n + 1) \in Nat
          BY Units
        <4>2. /\ Unit(1 + 1) \in Nat /\ Unit(2 + 1) \in Nat /\ Unit(3 + 1) \in Nat
              /\ Unit(4 + 1) \in Nat /\ Unit(5 + 1) \in Nat
          BY <4>1
        <4>3. 1 + 1 = 2 /\ 2 + 1 = 3 /\ 3 + 1 = 4 /\ 4 + 1 = 5 /\ 5 + 1 = 6
          OBVIOUS
        <4>. QED
          BY <4>2, <4>3
      <3>3. /\ Unit(2) <= Unit(2 + 1) /\ Unit(3) <= Unit(3 + 1) /\ Unit(4) <= Unit(4 + 1)
            /\ Unit(5) <= Unit(5 + 1)
        BY <3>1
      <3>4. b <= c /\ c <= f /\ f <= g /\ g <= h
        <4>1. 2 + 1 = 3 /\ 3 + 1 = 4 /\ 4 + 1 = 5 /\ 5 + 1 = 6
          OBVIOUS
        <4>. QED
          BY <3>2, <3>3, <4>1
      <3>5. level = 2 \/ level = 3 \/ level = 4 \/ level = 5
        BY <1>4
      <3>6. b <= h /\ c <= h /\ f <= h /\ g <= h
        BY <3>4
      <3>. QED
        BY <3>2, <3>5, <3>6
    <2>5. PICK v, w \in Nat : v = Unit(level) /\ w = Unit(6)
      <3>1. Unit(level) \in Nat
        BY <1>4, Units
      <3>2. 5 \in 1..5 /\ 5 + 1 = 6
        OBVIOUS
      <3>3. Unit(6) \in Nat
        BY <3>2, Units
      <3>. QED
        BY <3>1, <3>3
    <2>6. e - jiffies \in Nat /\ e = jiffies + (e - jiffies) /\ e - jiffies < w
      BY <1>3, <2>3, <2>4, <2>5
    <2>. QED
      BY <2>1, <2>5, <2>6
  <1>15. PICK c : c = Manager!Slot(r.endtime)
    OBVIOUS
  <1>16. c \in Manager!Lists /\ Booked(r, c, jiffies) /\ (c[1] # 1 => Booked(r, c, jiffies + 1))
    BY <1>3, <1>14, <1>15, SlotComes
  <1>17. c # d
    BY <1>3, <1>4, <1>5, <1>14, <1>15, SlotComes
  <1>18. PICK out : out = Manager!Unlinked(tw, p)
    OBVIOUS
  <1>19. /\ out \in ListsOf /\ NodeLists(out)
         /\ \A s \in Manager!Lists : out[s] = Manager!Without(tw[s], p)
    BY <1>2, <1>3, <1>8, <1>18, UnlinkedIs
  <1>20. Leaves(tw, out, p) /\ KeepsOrder(tw, out, p)
    BY <1>2, <1>3, <1>8, <1>18, UnlinkedIs
  <1>21. \A s \in Manager!Lists : ~In(out[s], p)
    BY <1>20 DEF Leaves
  <1>22. PICK then : then = tw'
    OBVIOUS
  <1>23. then = Manager!addTimerNode(out, p, r.endtime)
    BY <1>1, <1>11, <1>18, <1>22
  <1>24. Manager!Slot(r.endtime) \in Manager!Lists
    BY <1>15, <1>16
  <1>25. /\ then \in ListsOf /\ NodeLists(then)
         /\ \A s \in Manager!Lists : s # c => then[s] = out[s]
    BY <1>8, <1>15, <1>19, <1>21, <1>23, <1>24, AddedIs
  <1>26. Enters(out, then, p, c) /\ KeepsOrder(out, then, p)
    BY <1>8, <1>15, <1>19, <1>21, <1>23, <1>24, AddedIs
  <1>27. Punctual(then, node, jiffies, nodeAt, level, p, q)
    <2>1. TakenFrom(tw, node, out, node, p)
      BY <1>20 DEF TakenFrom
    <2>2. Punctual(out, node, jiffies, nodeAt, level, p, q)
      BY <1>2, <1>10, <2>1, PunctualWithout
    <2>3. PutInto(out, node, then, node, p, c)
      BY <1>26 DEF PutInto
    <2>4. Dealt(then, p, c, jiffies, nodeAt, level, p, q) => c[1] # 1
      BY <1>1 DEF Dealt
    <2>5. /\ Booked(node[p], c, jiffies)
          /\ (Dealt(then, p, c, jiffies, nodeAt, level, p, q) => Booked(node[p], c, jiffies + 1))
      BY <1>11, <1>16, <2>4
    <2>. QED
      BY <1>10, <2>2, <2>3, <2>5, PunctualWith
  <1>28. Punctual(then, node, jiffies, nodeAt, level, p', q)
    <2>1. \A z, s, a, b : Dealt(then, z, s, jiffies, "cascade", level, a, q)
                            <=> Dealt(then, z, s, jiffies, "cascade", level, b, q)
      BY DEF Dealt
    <2>. QED
      BY <1>1, <1>27, <2>1 DEF Punctual
  <1>29. p' = Manager!First(then[d]) /\ p' \in Nodes \cup {"null"}
    <2>1. PICK k \in Seq(Nodes) : k = then[d]
      BY <1>25 DEF ListsOf
    <2>2. k = Manager!Without(l, p)
      BY <1>6, <1>17, <1>19, <1>25, <2>1
    <2>3. Lacks(l, p, k)
      BY <1>8, <1>9, <2>2, WithoutIs
    <2>4. PICK n \in Nat : n = Len(l)
      OBVIOUS
    <2>5. Len(k) = n - 1
      BY <2>3, <2>4 DEF Lacks
    <2>6. p' = IF n = 1 THEN "null" ELSE l[2]
      <3>1. p' = Manager!Behind(l, l[1])
        BY <1>1, <1>5, <1>6, <1>8
      <3>. QED
        BY <1>8, <1>9, <2>4, <3>1, SecondIs
    <2>7. CASE n = 1
      <3>1. Manager!First(k) = "null"
        <4>1. Len(k) = 0
          BY <2>5, <2>7
        <4>. QED
          BY <4>1, FirstIs
      <3>. QED
        BY <2>1, <2>6, <2>7, <3>1
    <2>8. CASE n # 1
      <3>1. n > 1 /\ Len(k) # 0
        BY <1>8, <2>4, <2>5, <2>8
      <3>2. k[1] = l[2]
        BY <1>8, <1>9, <2>2, <2>4, <3>1, FirstsWithout
      <3>3. p' = Manager!First(k)
        BY <2>6, <2>8, <3>1, <3>2, FirstIs
      <3>4. l[2] \in Nodes
        <4>1. 2 \in 1..Len(l)
          BY <2>4, <3>1
        <4>. QED
          BY <4>1
      <3>. QED
        BY <2>1, <2>6, <2>8, <3>3, <3>4
    <2>. QED
      BY <2>7, <2>8
  <1>30. NodeData'
    <2>1. /\ {p', q} \subseteq Nodes \cup {"null", "freed"} /\ node \in [Nodes -> NodeRec]
          /\ rmNode \in Nodes \cup {"null"} /\ (rmNode \in Nodes => node[rmNode].turns < 2)
      BY <1>2, <1>29 DEF NodeData
    <2>. QED
      BY <1>1, <1>3, <1>4, <1>22, <1>25, <2>1 DEF NodeData
  <1>31. NodeCursor'
    <2>1. Manager!Current(level)' = Manager!Current(level)
      BY <1>1, CurrentLevel
    <2>2. p' = Manager!First(then[Manager!Current(level)])
      BY <1>5, <1>29
    <2>3. (jiffies % Unit(level))' = jiffies % Unit(level)
      BY <1>1, CurrentLevel
    <2>4. level # 1
      BY <1>4
    <2>5. Manager!First(tw[Manager!Current(level)])' = Manager!First(then[Manager!Current(level)])
      BY <1>22, <2>1 DEF Manager!First
    <2>. QED
      BY <1>1, <1>4, <2>2, <2>3, <2>4, <2>5 DEF NodeCursor
  <1>32. NodeLive'
    BY <1>1, <1>22, <1>25, <1>28, <1>31 DEF NodeLive
  <1>. QED
    BY <1>30, <1>32 DEF NodeInv

(* When handle() goes on from wheel n, whose current list it has emptied,  *)
(* or begins.                                                              *)
LEMMA GoesOn ==
    ASSUME NodeData, NodeLists(tw),
           NEW n \in 1..5, jiffies % Unit(n) = 0,
           Punctual(tw, node, jiffies, "cascade", n, p, q),
           n # 1 => \A t \in Nodes : ~In(tw[Manager!Current(n)], t),
           Manager!After(n),
           UNCHANGED <<jiffies, tw, node, rmNode, q, nodeCancel>>
    PROVE  NodeInv'
  <1>1. tw \in ListsOf /\ jiffies \in Nat /\ node \in [Nodes -> NodeRec]
    BY DEF NodeData
  <1>2. PICK j \in Nat : j = jiffies
    BY <1>1
  <1>3. ASSUME NEW k \in 1..5, j % Unit(k) = 0
        PROVE  /\ Manager!First(tw[Manager!Current(k)]) \in Nodes \cup {"null"}
               /\ Manager!First(tw[Manager!Current(k)]) = "null"
                    => \A t \in Nodes : ~In(tw[Manager!Current(k)], t)
    <2>1. PICK d \in Manager!Lists : d = Manager!Current(k)
      BY <1>1, CurrentIs
    <2>2. PICK l \in Seq(Nodes) : l = tw[d]
      BY <1>1 DEF ListsOf
    <2>3. PICK x : x = Manager!First(l)
      OBVIOUS
    <2>4. x = "null" => Len(l) = 0
      BY <2>3, FirstIs
    <2>5. x # "null" => Len(l) > 0 /\ x = l[1]
      BY <2>3, FirstIs
    <2>6. x \in Nodes \cup {"null"}
      BY <2>3, FirstIs
    <2>7. x = "null" => \A t \in Nodes : ~In(l, t)
      BY <2>4 DEF In
    <2>. QED
      BY <2>1, <2>2, <2>3, <2>6, <2>7
  (* a list whose timers do not come in this jiffy *)
  <1>4. ASSUME NEW s \in Manager!Lists, NEW t \in Nodes, In(tw[s], t), Booked(node[t], s, j),
               s # Manager!Current(s[1]) \/ j % Unit(s[1]) # 0
        PROVE  Booked(node[t], s, j + 1)
    <2>1. PICK r \in NodeRec : r = node[t]
      BY <1>1
    <2>2. ~Comes(r, s, j)
      BY <1>2, <1>4, <2>1, ComesIn
    <2>3. Booked(r, s, j)
      BY <1>4, <2>1
    <2>. QED
      BY <2>1, <2>2, <2>3, Postponed
  <1>5. \A s \in Manager!Lists : \A t \in Nodes : In(tw[s], t) =>
          \/ s[1] \notin 2..(n - 1) /\ Booked(node[t], s, j)
          \/ s[1] \in 2..(n - 1) /\ Booked(node[t], s, j + 1)
    BY <1>2 DEF Punctual, Dealt
  <1>6. \A s \in Manager!Lists : \A t \in Nodes : In(tw[s], t) /\ s[1] = n /\ n # 1
          => Booked(node[t], s, j + 1)
    <2>1. SUFFICES ASSUME NEW s \in Manager!Lists, NEW t \in Nodes, In(tw[s], t), s[1] = n,
                          n # 1
                   PROVE  Booked(node[t], s, j + 1)
      OBVIOUS
    <2>2. s # Manager!Current(s[1])
      BY <2>1
    <2>3. Booked(node[t], s, j)
      <3>1. s[1] \notin 2..(n - 1)
        BY <2>1
      <3>. QED
        BY <1>5, <2>1, <3>1
    <2>. QED
      BY <1>4, <2>1, <2>2, <2>3
  <1>7. CASE n < 5 /\ Index(j, n) = 0
    <2>1. PICK k \in 1..5 : k = n + 1
      BY <1>7
    <2>2. nodeAt' = "cascade" /\ level' = k
      BY <1>2, <1>7, <2>1 DEF Manager!After, Index
    <2>3. j % Unit(k) = 0
      BY <1>2, <1>7, <2>1, ComesRound
    <2>4. PICK x : x = Manager!First(tw[Manager!Current(k)])
      OBVIOUS
    <2>5. Manager!Current(level)' = Manager!Current(k)
      BY <2>2 DEF Manager!Current, Manager!Index, Manager!Unit, Manager!Size
    <2>6. p' = x
      <3>1. p' = Manager!First(tw[Manager!Current(level')])
        BY DEF Manager!After
      <3>. QED
        BY <2>2, <2>4, <3>1
    <2>7. Punctual(tw, node, j, "cascade", k, x, q)
      <3>1. SUFFICES ASSUME NEW s \in Manager!Lists, NEW t \in Nodes, In(tw[s], t)
                     PROVE  \/ s[1] \notin 2..(k - 1) /\ Booked(node[t], s, j)
                            \/ s[1] \in 2..(k - 1) /\ Booked(node[t], s, j + 1)
        BY DEF Punctual, Dealt
      <3>2. s[1] \in 1..5
        BY ListIs
      <3>3. CASE s[1] \in 2..(n - 1)
        <4>1. s[1] \in 2..(k - 1)
          BY <2>1, <3>3
        <4>. QED
          BY <1>5, <3>1, <3>3, <4>1
      <3>4. CASE s[1] = n /\ n # 1
        <4>1. s[1] \in 2..(k - 1)
          BY <2>1, <3>4
        <4>. QED
          BY <1>6, <3>1, <3>4, <4>1
      <3>5. CASE s[1] \notin 2..(n - 1) /\ ~(s[1] = n /\ n # 1)
        <4>1. s[1] \notin 2..(k - 1)
          BY <2>1, <3>2, <3>5
        <4>. QED
          BY <1>5, <3>1, <3>5, <4>1
      <3>. QED
        BY <3>3, <3>4, <3>5
    <2>8. NodeData'
      <3>1. x \in Nodes \cup {"null"}
        BY <1>3, <2>3, <2>4
      <3>2. /\ {x, q} \subseteq Nodes \cup {"null", "freed"} /\ rmNode \in Nodes \cup {"null"}
            /\ rmNode \in Nodes => node[rmNode].turns < 2
        BY <3>1 DEF NodeData
      <3>. QED
        BY <1>1, <2>2, <2>6, <3>2 DEF NodeData
    <2>9. NodeCursor'
      <3>1. Manager!First(tw[Manager!Current(level)])' = x
        BY <2>4, <2>5 DEF Manager!First
      <3>2. (jiffies % Unit(level))' = 0
        BY <1>2, <2>2, <2>3 DEF Unit, Manager!Unit
      <3>3. level' # 1 /\ nodeAt' = "cascade"
        BY <2>1, <2>2
      <3>. QED
        BY <2>6, <3>1, <3>2, <3>3 DEF NodeCursor
    <2>10. NodeLive'
      BY <1>2, <2>2, <2>6, <2>7, <2>9 DEF NodeLive
    <2>. QED
      BY <2>8, <2>10 DEF NodeInv
  <1>8. CASE ~(n < 5 /\ Index(j, n) = 0)
    <2>1. nodeAt' = "scan" /\ level' = 1
      BY <1>2, <1>8 DEF Manager!After, Index
    <2>2. PICK c \in Manager!Lists : c = Manager!Current(1) /\ c[1] = 1
      BY <1>1, FirstWheel
    <2>3. PICK l \in Seq(Nodes) : l = tw[c]
      BY <1>1 DEF ListsOf
    <2>4. PICK x : x = Manager!First(l)
      OBVIOUS
    <2>5. p' = x
      <3>1. p' = Manager!First(tw[Manager!Current(level')])
        BY DEF Manager!After
      <3>. QED
        BY <2>1, <2>2, <2>3, <2>4, <3>1
    <2>6. j % Unit(1) = 0 /\ 1 \in 1..5
      BY <1>1, <1>2, FirstWheel
    <2>7. x \in Nodes \cup {"null"} /\ (x = "null" => \A t \in Nodes : ~In(l, t))
      BY <1>3, <2>2, <2>3, <2>4, <2>6
    <2>8. x # "null" => Len(l) > 0 /\ l[1] = x
      BY <2>4, FirstIs
    <2>9. ASSUME x # "null", NEW t \in Nodes, In(l, t) PROVE ~Before(l, t, x)
      <3>1. NoTwice(l)
        BY <2>3 DEF NodeLists
      <3>2. PICK g \in 1..Len(l) : l[g] = t
        BY <2>9 DEF In
      <3>3. Len(l) > 0 /\ l[1] = x
        BY <2>8, <2>9
      <3>4. PICK h \in 1..Len(l) : h = 1
        BY <3>3
      <3>5. Before(l, l[g], l[h]) <=> g < h
        BY <3>1, PlacesTell
      <3>. QED
        BY <3>2, <3>3, <3>4, <3>5
    <2>10. Punctual(tw, node, j, "scan", 1, x, q)
      <3>1. SUFFICES ASSUME NEW s \in Manager!Lists, NEW t \in Nodes, In(tw[s], t)
                     PROVE  \/ ~Dealt(tw, t, s, j, "scan", 1, x, q) /\ Booked(node[t], s, j)
                            \/ Dealt(tw, t, s, j, "scan", 1, x, q) /\ Booked(node[t], s, j + 1)
        BY DEF Punctual
      <3>2. c = <<1, Index(j, 1)>>
        BY <1>1, <1>2, <2>2, FirstWheel
      <3>3. s[1] \in 1..5
        BY ListIs
      <3>4. CASE s = c
        <4>1. s[1] \notin 2..(n - 1)
          BY <2>2, <3>4
        <4>2. Booked(node[t], s, j)
          BY <1>5, <3>1, <4>1
        <4>3. x # "null" /\ ~Before(l, t, x)
          BY <2>3, <2>7, <2>9, <3>1, <3>4
        <4>4. ~Dealt(tw, t, s, j, "scan", 1, x, q)
          BY <2>3, <3>2, <3>4, <4>3 DEF Dealt
        <4>. QED
          BY <4>2, <4>4
      <3>5. CASE s # c
        <4>1. Dealt(tw, t, s, j, "scan", 1, x, q)
          BY <3>2, <3>5 DEF Dealt
        <4>2. Booked(node[t], s, j + 1)
          <5>1. CASE s[1] = 1
            <6>1. s[1] \notin 2..(n - 1)
              BY <5>1
            <6>2. Booked(node[t], s, j) /\ s # Manager!Current(s[1])
              BY <1>5, <2>2, <3>1, <3>5, <5>1, <6>1
            <6>. QED
              BY <1>4, <3>1, <6>2
          <5>2. CASE s[1] # 1 /\ s[1] < n
            <6>1. s[1] \in 2..(n - 1)
              BY <3>3, <5>2
            <6>. QED
              BY <1>5, <3>1, <6>1
          <5>3. CASE s[1] # 1 /\ s[1] = n
            BY <1>6, <3>1, <5>3
          <5>4. CASE s[1] # 1 /\ n < s[1]
            <6>1. Index(j, n) # 0
              BY <1>8, <3>3, <5>4
            <6>2. n \in 1..(s[1] - 1)
              BY <3>3, <5>4
            <6>3. j % Unit(s[1]) # 0
              BY <3>3, <6>1, <6>2, AllRound
            <6>4. s[1] \notin 2..(n - 1)
              BY <3>3, <5>4
            <6>5. Booked(node[t], s, j)
              BY <1>5, <3>1, <6>4
            <6>. QED
              BY <1>4, <3>1, <6>3, <6>5
          <5>. QED
            BY <3>3, <5>1, <5>2, <5>3, <5>4
        <4>. QED
          BY <4>1, <4>2
      <3>. QED
        BY <3>4, <3>5
    <2>11. NodeData'
      <3>1. /\ {x, q} \subseteq Nodes \cup {"null", "freed"} /\ rmNode \in Nodes \cup {"null"}
            /\ rmNode \in Nodes => node[rmNode].turns < 2
        BY <2>7 DEF NodeData
      <3>2. level' \in 1..5
        BY <2>1
      <3>. QED
        BY <1>1, <2>5, <3>1, <3>2 DEF NodeData
    <2>12. NodeCursor'
      <3>1. x # "null" => x \in Nodes /\ In(l, x)
        BY <2>7, <2>8 DEF In
      <3>2. Manager!Current(1)' = c
        BY <2>2, CurrentStays
      <3>. QED
        BY <2>1, <2>3, <2>5, <3>1, <3>2 DEF NodeCursor
    <2>13. NodeLive'
      BY <1>2, <2>1, <2>5, <2>10, <2>12 DEF NodeLive
    <2>. QED
      BY <2>11, <2>13 DEF NodeInv
  <1>. QED
    BY <1>7, <1>8

LEMMA ManagerHandling ==
    ASSUME NodeInv, Manager!handle
    PROVE  NodeInv'
  <1>1. /\ nodeAt = "sleep" /\ Manager!After(1)
        /\ UNCHANGED <<jiffies, tw, node, rmNode, q, nodeCancel>>
    BY DEF Manager!handle
  <1>2. NodeData /\ NodeLists(tw)
        /\ Punctual(tw, node, jiffies, nodeAt, level, p, q)
    BY <1>1 DEF NodeInv, NodeLive
  <1>3. Punctual(tw, node, jiffies, "cascade", 1, p, q)
    <2>1. \A z, s : /\ ~Dealt(tw, z, s, jiffies, "sleep", level, p, q)
                    /\ ~Dealt(tw, z, s, jiffies, "cascade", 1, p, q)
      BY DEF Dealt
    <2>. QED
      BY <1>1, <1>2, <2>1 DEF Punctual
  <1>4. jiffies % Unit(1) = 0 /\ 1 \in 1..5
    BY <1>2, FirstWheel DEF NodeData
  <1>. QED
    BY <1>1, <1>2, <1>3, <1>4, GoesOn

LEMMA ManagerCascaded ==
    ASSUME NodeInv, Manager!Cascaded
    PROVE  NodeInv'
  <1>1. /\ nodeAt = "cascade" /\ p = "null" /\ Manager!After(level)
        /\ UNCHANGED <<jiffies, tw, node, rmNode, q, nodeCancel>>
    BY DEF Manager!Cascaded, Manager!Null
  <1>2. NodeData /\ NodeLists(tw) /\ NodeCursor
        /\ Punctual(tw, node, jiffies, nodeAt, level, p, q)
    BY <1>1 DEF NodeInv, NodeLive
  <1>3. PICK n \in 1..5 : n = level
    BY <1>2 DEF NodeData
  <1>4. jiffies % Unit(n) = 0 /\ Manager!First(tw[Manager!Current(n)]) = "null"
    BY <1>1, <1>2, <1>3 DEF NodeCursor
  <1>5. \A t \in Nodes : ~In(tw[Manager!Current(n)], t)
    <2>1. PICK l \in Seq(Nodes) : l = tw[Manager!Current(n)]
      <3>1. Manager!Current(n) \in Manager!Lists
        BY <1>2, CurrentIs DEF NodeData
      <3>. QED
        BY <1>2, <3>1 DEF NodeData, ListsOf
    <2>2. Len(l) = 0
      BY <1>4, <2>1, FirstIs
    <2>. QED
      BY <2>1, <2>2 DEF In
  <1>6. Punctual(tw, node, jiffies, "cascade", n, p, q) /\ Manager!After(n)
    BY <1>1, <1>2, <1>3
  <1>. QED
    BY <1>1, <1>2, <1>4, <1>5, <1>6, GoesOn

LEMMA ManagerRunning ==
    ASSUME NodeInv, Manager!run
    PROVE  NodeInv'
  <1>1. /\ nodeAt = "scan" /\ p # "null"
        /\ q' = Manager!Behind(tw[Manager!Current(1)], p)
        /\ nodeAt' = "run" /\ nodeCancel' = TRUE
        /\ jiffies' = jiffies /\ tw' = tw /\ node' = node
        /\ rmNode' = rmNode /\ level' = level /\ p' = p
    BY DEF Manager!run, Manager!Null
  <1>2. NodeData /\ NodeLists(tw) /\ NodeCursor
        /\ Punctual(tw, node, jiffies, nodeAt, level, p, q)
    BY <1>1 DEF NodeInv, NodeLive
  <1>3. PICK j \in Nat : j = jiffies
    BY <1>2 DEF NodeData
  <1>4. PICK c \in Manager!Lists : c = Manager!Current(1) /\ c = <<1, Index(j, 1)>>
    BY <1>3, FirstWheel
  <1>5. PICK l \in Seq(Nodes) : l = tw[c]
    BY <1>2 DEF NodeData, ListsOf
  <1>6. NoTwice(l) /\ p \in Nodes /\ In(l, p) /\ level = 1
    BY <1>1, <1>2, <1>4, <1>5 DEF NodeLists, NodeCursor
  <1>7. PICK g \in 1..Len(l) : l[g] = p
    BY <1>6 DEF In
  <1>8. PICK n \in Nat : n = Len(l)
    OBVIOUS
  <1>9. PICK y : y = q'
    OBVIOUS
  <1>10. y = IF g = n THEN "null" ELSE l[g + 1]
    <2>1. y = Manager!Behind(l, l[g])
      BY <1>1, <1>4, <1>5, <1>7, <1>9
    <2>. QED
      BY <1>6, <1>8, <2>1, BehindIs
  <1>11. g # n => y \in Nodes /\ In(l, y) /\ y = l[g + 1] /\ g + 1 \in 1..n /\ y # p
    <2>1. SUFFICES ASSUME g # n PROVE y \in Nodes /\ In(l, y) /\ y = l[g + 1]
                                      /\ g + 1 \in 1..n /\ y # p
      OBVIOUS
    <2>2. g + 1 \in 1..n /\ g + 1 # g
      BY <1>7, <1>8, <2>1
    <2>3. y = l[g + 1]
      BY <1>10, <2>1
    <2>4. y # p
      BY <1>6, <1>7, <1>8, <2>2, <2>3 DEF NoTwice
    <2>. QED
      BY <1>8, <2>2, <2>3, <2>4 DEF In
  (* the others of the list are before the next one if they are before p *)
  <1>12. ASSUME NEW t \in Nodes, In(l, t), t # p
         PROVE  Before(l, t, y) <=> Before(l, t, p)
    <2>1. PICK h \in 1..n : l[h] = t
      BY <1>8, <1>12 DEF In
    <2>2. h # g
      BY <1>7, <1>12, <2>1
    <2>3. Before(l, t, p) <=> h < g
      BY <1>6, <1>7, <1>8, <2>1, PlacesTell
    <2>4. CASE g = n
      <3>1. ~In(l, y)
        BY <1>10, <2>4, Marks DEF In
      <3>2. Before(l, t, y)
        BY <3>1, Missing
      <3>3. h < g
        BY <1>7, <1>8, <2>1, <2>2, <2>4
      <3>. QED
        BY <2>3, <3>2, <3>3
    <2>5. CASE g # n
      <3>1. PICK k \in 1..n : k = g + 1 /\ l[k] = y
        BY <1>11, <2>5
      <3>2. Before(l, t, y) <=> h < k
        BY <1>6, <1>8, <2>1, <3>1, PlacesTell
      <3>3. h < k <=> h < g
        BY <1>7, <1>8, <2>1, <2>2, <3>1
      <3>. QED
        BY <2>3, <3>2, <3>3
    <2>. QED
      BY <2>4, <2>5
  <1>13. Punctual(tw, node, j, "run", level, p, y)
    <2>1. SUFFICES ASSUME NEW s \in Manager!Lists, NEW t \in Nodes, In(tw[s], t), t # p
                   PROVE  \/ ~Dealt(tw, t, s, j, "run", level, p, y) /\ Booked(node[t], s, j)
                          \/ Dealt(tw, t, s, j, "run", level, p, y) /\ Booked(node[t], s, j + 1)
      BY DEF Punctual
    <2>2. \/ ~Dealt(tw, t, s, j, "scan", level, p, q) /\ Booked(node[t], s, j)
          \/ Dealt(tw, t, s, j, "scan", level, p, q) /\ Booked(node[t], s, j + 1)
      BY <1>1, <1>2, <1>3, <2>1 DEF Punctual
    <2>3. Dealt(tw, t, s, j, "run", level, p, y) <=> Dealt(tw, t, s, j, "scan", level, p, q)
      <3>1. CASE s = c
        <4>1. Before(tw[s], t, y) <=> Before(tw[s], t, p)
          BY <1>5, <1>12, <2>1, <3>1
        <4>. QED
          BY <1>4, <3>1, <4>1 DEF Dealt
      <3>2. CASE s # c
        BY <1>4, <3>2 DEF Dealt
      <3>. QED
        BY <3>1, <3>2
    <2>. QED
      BY <2>2, <2>3
  <1>14. Booked(node[p], c, j)
    <2>1. ~Before(l, p, p)
      <3>1. Before(l, p, p) <=> g < g
        BY <1>6, <1>7, PlacesTell
      <3>2. ~(g < g)
        OBVIOUS
      <3>. QED
        BY <3>1, <3>2
    <2>2. ~Dealt(tw, p, c, j, "scan", level, p, q)
      BY <1>4, <1>5, <2>1 DEF Dealt
    <2>. QED
      BY <1>1, <1>2, <1>3, <1>5, <1>6, <2>2 DEF Punctual
  <1>15. RunsNext(l, c, node, j, p, y)
    <2>1. g = n => y = "null"
      BY <1>10
    <2>. QED
      BY <1>1, <1>6, <1>11, <1>14, <2>1, Marks DEF RunsNext
  <1>16. NodeData'
    <2>1. {p, y} \subseteq Nodes \cup {"null", "freed"}
      BY <1>6, <1>10, <1>11
    <2>. QED
      BY <1>1, <1>2, <1>9, <2>1 DEF NodeData
  <1>17. NodeCursor'
    <2>1. Manager!Current(1)' = c
      BY <1>1, <1>4, CurrentStays
    <2>. QED
      BY <1>1, <1>3, <1>5, <1>6, <1>9, <1>15, <2>1 DEF NodeCursor
  <1>18. NodeLive'
    BY <1>1, <1>2, <1>3, <1>9, <1>13, <1>17 DEF NodeLive
  <1>. QED
    BY <1>16, <1>18 DEF NodeInv

(* The timer that has run is no longer exempt: if it is in a list yet, it  *)
(* is booked there.                                                        *)
LEMMA RunToScan ==
    ASSUME NEW lists, NEW rec, NEW m, NEW x, NEW y,
           Punctual(lists, rec, m, "run", 1, x, y), y # "freed",
           \A s \in Manager!Lists : x \in Nodes /\ In(lists[s], x)
             => Booked(rec[x], s, m) /\ Booked(rec[x], s, m + 1)
    PROVE  Punctual(lists, rec, m, "scan", 1, y, "null")
  <1>1. SUFFICES ASSUME NEW s \in Manager!Lists, NEW t \in Nodes, In(lists[s], t)
                 PROVE  \/ ~Dealt(lists, t, s, m, "scan", 1, y, "null") /\ Booked(rec[t], s, m)
                        \/ Dealt(lists, t, s, m, "scan", 1, y, "null") /\ Booked(rec[t], s, m + 1)
    BY DEF Punctual
  <1>2. CASE t = x
    BY <1>1, <1>2
  <1>3. CASE t # x
    <2>1. Dealt(lists, t, s, m, "scan", 1, y, "null") <=> Dealt(lists, t, s, m, "run", 1, x, y)
      BY DEF Dealt
    <2>. QED
      BY <1>1, <1>3, <2>1 DEF Punctual
  <1>. QED
    BY <1>2, <1>3

(* After a timer ran, handle() goes to the next one, if that is there yet. *)
LEMMA GoesToNext ==
    ASSUME NodeData, nodeAt = "run", level = 1,
           NEW lists \in ListsOf, NEW rec \in [Nodes -> NodeRec], NEW rm \in Nodes \cup {"null"},
           rm \in Nodes => rec[rm].turns < 2,
           NEW c \in Manager!Lists, c = Manager!Current(1),
           NodeLists(lists),
           q # "freed" => Punctual(lists, rec, jiffies, "scan", 1, q, "null"),
           q \in Nodes => In(lists[c], q),
           node' = rec, rmNode' = rm, Manager!Proceed(lists)
    PROVE  NodeInv'
  <1>1. /\ tw' = lists /\ nodeAt' = IF q = "freed" THEN "broken" ELSE "scan"
        /\ p' = q /\ q' = "null" /\ jiffies' = jiffies /\ level' = level
    BY DEF Manager!Proceed, Manager!Null, Manager!Freed
  <1>2. NodeData'
    <2>1. {q, "null"} \subseteq Nodes \cup {"null", "freed"} /\ jiffies \in Nat
      BY DEF NodeData
    <2>. QED
      BY <1>1, <2>1 DEF NodeData
  <1>3. ASSUME nodeAt' # "broken" PROVE NodeLive'
    <2>1. nodeAt' = "scan" /\ q # "freed"
      BY <1>1, <1>3
    <2>2. Manager!Current(1)' = c
      BY <1>1, CurrentStays
    <2>3. q = "null" \/ (q \in Nodes /\ In(lists[c], q))
      <3>1. q \in Nodes \cup {"null", "freed"}
        BY DEF NodeData
      <3>. QED
        BY <2>1, <3>1
    <2>4. NodeCursor'
      <3>1. (nodeAt # "cascade" /\ nodeAt # "run" /\ level = 1)'
        BY <1>1, <2>1
      <3>2. (p = "null" \/ (p \in Nodes /\ In(tw[Manager!Current(1)], p)))'
        BY <1>1, <2>2, <2>3
      <3>. QED
        BY <3>1, <3>2 DEF NodeCursor
    <2>5. Punctual(lists, rec, jiffies, "scan", 1, q, "null")
      BY <2>1
    <2>6. Punctual(tw, node, jiffies, nodeAt, level, p, q)'
      BY <1>1, <2>1, <2>5
    <2>7. NodeLists(tw)'
      BY <1>1
    <2>. QED
      BY <2>4, <2>6, <2>7 DEF NodeLive
  <1>. QED
    BY <1>2, <1>3 DEF NodeInv

LEMMA ManagerRemoved ==
    ASSUME NodeInv, Manager!Removed
    PROVE  NodeInv'
  <1>1. /\ nodeAt = "run" /\ p \in {"freed", rmNode} /\ Manager!Proceed(tw)
        /\ rmNode' = "null"
        /\ node' = IF p = "freed" THEN node ELSE [node EXCEPT ![p].turns = @ + 1]
    BY DEF Manager!Removed, Manager!Null, Manager!Freed
  <1>2. NodeData /\ NodeLists(tw) /\ NodeCursor
        /\ Punctual(tw, node, jiffies, nodeAt, level, p, q)
    BY <1>1 DEF NodeInv, NodeLive
  <1>3. level = 1
    BY <1>1, <1>2 DEF NodeCursor
  <1>4. PICK j \in Nat : j = jiffies
    BY <1>2 DEF NodeData
  <1>5. PICK c \in Manager!Lists : c = Manager!Current(1) /\ c[1] = 1 /\ j % Unit(1) = 0
    BY <1>4, FirstWheel
  <1>6. RunsNext(tw[c], c, node, j, p, q)
    BY <1>1, <1>2, <1>4, <1>5 DEF NodeCursor
  <1>7. tw \in ListsOf /\ node \in [Nodes -> NodeRec]
    BY <1>2 DEF NodeData
  <1>8. PICK rec : rec = node'
    OBVIOUS
  <1>9. /\ rec \in [Nodes -> NodeRec]
        /\ \A z \in Nodes : z # p => rec[z] = node[z]
        /\ p \in Nodes => Booked(rec[p], c, j) /\ Booked(rec[p], c, j + 1)
    <2>1. CASE p = "freed"
      BY <1>1, <1>7, <1>8, <2>1, Marks
    <2>2. CASE p # "freed"
      <3>1. p \in Nodes /\ p = rmNode
        BY <1>1, <1>2, <1>6, <2>2 DEF NodeData, RunsNext
      <3>2. PICK r \in NodeRec : r = node[p]
        BY <1>7, <3>1
      <3>3. PICK u \in 0..2 : u = r.turns /\ u < 2
        BY <1>2, <3>1, <3>2 DEF NodeData, NodeRec
      <3>4. PICK o : o = [r EXCEPT !.turns = u + 1]
        OBVIOUS
      <3>5. o \in NodeRec /\ o.endtime = r.endtime /\ o.turns = r.turns + 1
        <4>1. u + 1 \in 0..2
          BY <3>3
        <4>. QED
          BY <3>3, <3>4, <4>1 DEF NodeRec
      <3>6. rec = [node EXCEPT ![p] = o]
        BY <1>1, <1>7, <1>8, <2>2, <3>2, <3>3, <3>4
      <3>7. rec \in [Nodes -> NodeRec] /\ rec[p] = o /\ \A z \in Nodes : z # p => rec[z] = node[z]
        BY <1>7, <3>1, <3>5, <3>6
      <3>8. Comes(r, c, j)
        <4>1. Booked(r, Manager!Current(1), jiffies)
          BY <1>4, <1>5, <1>6, <3>1, <3>2 DEF RunsNext
        <4>2. 1 \in 1..5
          OBVIOUS
        <4>. QED
          BY <1>4, <1>5, <4>1, <4>2, ComesNow
      <3>9. Booked(o, c, j) /\ Booked(o, c, j + 1)
        BY <1>5, <3>5, <3>8, ComesAgain
      <3>. QED
        BY <3>7, <3>9
    <2>. QED
      BY <2>1, <2>2
  <1>10. ASSUME q # "freed" PROVE Punctual(tw, rec, j, "scan", 1, q, "null")
    <2>1. Punctual(tw, rec, j, "run", 1, p, q)
      <3>1. Punctual(tw, node, j, "run", 1, p, q)
        BY <1>1, <1>2, <1>3, <1>4
      <3>. QED
        BY <1>9, <3>1 DEF Punctual
    <2>2. \A s \in Manager!Lists : p \in Nodes /\ In(tw[s], p)
            => Booked(rec[p], s, j) /\ Booked(rec[p], s, j + 1)
      <3>1. ASSUME NEW s \in Manager!Lists, p \in Nodes, In(tw[s], p) PROVE s = c
        BY <1>2, <1>6, <3>1 DEF RunsNext, NodeLists
      <3>. QED
        BY <1>9, <3>1
    <2>. QED
      BY <1>10, <2>1, <2>2, RunToScan
  <1>11. q \in Nodes => In(tw[c], q)
    BY <1>6 DEF RunsNext
  <1>. QED
    BY <1>1, <1>2, <1>3, <1>4, <1>5, <1>7, <1>8, <1>9, <1>10, <1>11, Marks, GoesToNext

(* Where a timer that has run and was not cancelled is taken out. *)
LEMMA RunTakenOut ==
    ASSUME NodeInv, nodeAt = "run", p \notin {"freed", rmNode},
           NEW out, out = Manager!Unlinked(tw, p),
           NEW rec, \A z \in Nodes : z # p => rec[z] = node[z]
    PROVE  /\ p \in Nodes /\ level = 1 /\ q # p
           /\ out \in ListsOf /\ NodeLists(out)
           /\ \A s \in Manager!Lists : ~In(out[s], p)
           /\ Punctual(out, rec, jiffies, "run", 1, p, q)
           /\ q \in Nodes => In(out[Manager!Current(1)], q)
  <1>1. NodeData /\ NodeLists(tw) /\ NodeCursor
        /\ Punctual(tw, node, jiffies, nodeAt, level, p, q)
    BY DEF NodeInv, NodeLive
  <1>2. level = 1
    BY <1>1 DEF NodeCursor
  <1>3. PICK c \in Manager!Lists : c = Manager!Current(1)
    BY <1>1, FirstWheel DEF NodeData
  <1>4. RunsNext(tw[c], c, node, jiffies, p, q)
    BY <1>1, <1>3 DEF NodeCursor
  <1>5. p \in Nodes
    BY <1>1, <1>4 DEF NodeData, RunsNext
  <1>6. q # p /\ (q \in Nodes => In(tw[c], q))
    BY <1>4, <1>5 DEF RunsNext
  <1>7. tw \in ListsOf
    BY <1>1 DEF NodeData
  <1>8. out \in ListsOf /\ NodeLists(out) /\ Leaves(tw, out, p) /\ KeepsOrder(tw, out, p)
    BY <1>1, <1>5, <1>7, UnlinkedIs
  <1>9. /\ \A s \in Manager!Lists : ~In(out[s], p)
        /\ q \in Nodes => In(out[c], q)
    BY <1>6, <1>8 DEF Leaves
  <1>10. Punctual(out, rec, jiffies, "run", 1, p, q)
    <2>1. TakenFrom(tw, node, out, rec, p)
      BY <1>8 DEF TakenFrom
    <2>2. Punctual(tw, node, jiffies, "run", 1, p, q)
      BY <1>1, <1>2
    <2>3. Elsewhere(p, "run", p, q)
      BY <1>6 DEF Elsewhere
    <2>. QED
      BY <2>1, <2>2, <2>3, PunctualWithout
  <1>. QED
    BY <1>2, <1>3, <1>5, <1>6, <1>8, <1>9, <1>10

LEMMA ManagerDeletes ==
    ASSUME NodeInv, Manager!Deleted
    PROVE  NodeInv'
  <1>1. PICK out : out = Manager!Unlinked(tw, p)
    OBVIOUS
  <1>2. /\ nodeAt = "run" /\ p \notin {"freed", rmNode} /\ Manager!Proceed(out)
        /\ node' = [node EXCEPT ![p] = Manager!NoNode] /\ rmNode' = rmNode
    BY <1>1 DEF Manager!Deleted, Manager!Freed
  <1>3. NodeData
    BY DEF NodeInv
  <1>4. PICK n : n = node'
    OBVIOUS
  <1>5. n \in [Nodes -> NodeRec] /\ \A z \in Nodes : z # p => n[z] = node[z]
    <2>1. Manager!NoNode \in NodeRec
      BY AllReach
    <2>. QED
      BY <1>2, <1>3, <1>4, <2>1 DEF NodeData
  <1>6. PICK c \in Manager!Lists : c = Manager!Current(1)
    BY <1>3, FirstWheel DEF NodeData
  <1>7. /\ level = 1 /\ out \in ListsOf /\ NodeLists(out)
        /\ \A s \in Manager!Lists : ~In(out[s], p)
        /\ Punctual(out, n, jiffies, "run", 1, p, q)
        /\ q \in Nodes => In(out[c], q)
    BY <1>1, <1>2, <1>5, <1>6, RunTakenOut
  <1>8. q # "freed" => Punctual(out, n, jiffies, "scan", 1, q, "null")
    BY <1>7, RunToScan
  <1>9. rmNode \in Nodes \cup {"null"} /\ (rmNode \in Nodes => n[rmNode].turns < 2)
    BY <1>2, <1>3, <1>5 DEF NodeData
  <1>. QED
    BY <1>2, <1>3, <1>4, <1>5, <1>6, <1>7, <1>8, <1>9, GoesToNext

LEMMA ManagerRestarted ==
    ASSUME NodeInv, Manager!Restarted
    PROVE  NodeInv'
  <1>1. PICK out : out = Manager!Unlinked(tw, p)
    OBVIOUS
  <1>2. /\ nodeAt = "run" /\ p \notin {"freed", rmNode} /\ node[p].interval > 0
        /\ node' = [node EXCEPT ![p].endtime = jiffies + node[p].interval, ![p].turns = 0]
        /\ rmNode' = rmNode
        /\ Manager!Proceed(Manager!addTimerNode(out, p, jiffies + node[p].interval))
    BY <1>1 DEF Manager!Restarted, Manager!Freed
  <1>3. NodeData
    BY DEF NodeInv
  <1>4. PICK n : n = node'
    OBVIOUS
  <1>5. \A z \in Nodes : z # p => n[z] = node[z]
    BY <1>2, <1>3, <1>4 DEF NodeData
  <1>6. PICK c \in Manager!Lists : c = Manager!Current(1)
    BY <1>3, FirstWheel DEF NodeData
  <1>7. /\ p \in Nodes /\ level = 1 /\ q # p /\ out \in ListsOf /\ NodeLists(out)
        /\ \A s \in Manager!Lists : ~In(out[s], p)
        /\ Punctual(out, n, jiffies, "run", 1, p, q)
        /\ q \in Nodes => In(out[c], q)
    BY <1>1, <1>2, <1>5, <1>6, RunTakenOut
  <1>8. PICK j \in Nat : j = jiffies
    BY <1>3 DEF NodeData
  <1>9. PICK w \in Nat : w = node[p].interval /\ w # 0 /\ w < Unit(6) /\ w \in 0..(Unit(6) - 1)
    <2>1. PICK v \in 0..(Unit(6) - 1) : v = node[p].interval
      BY <1>3, <1>7 DEF NodeData, NodeRec
    <2>2. v > 0
      BY <1>2, <2>1
    <2>3. v \in Nat /\ v # 0 /\ v < Unit(6)
      BY <2>2, AllReach
    <2>. QED
      BY <2>1, <2>3
  <1>10. PICK r : r = [node[p] EXCEPT !.endtime = j + w, !.turns = 0]
    OBVIOUS
  <1>11. n = [node EXCEPT ![p] = r]
    BY <1>2, <1>4, <1>8, <1>9, <1>10
  <1>12. r \in NodeRec /\ r.endtime = j + w
    <2>1. node[p] \in NodeRec
      BY <1>3, <1>7 DEF NodeData
    <2>2. j + w \in Nat /\ 0 \in 0..2
      OBVIOUS
    <2>. QED
      BY <1>10, <2>1, <2>2 DEF NodeRec
  <1>13. n \in [Nodes -> NodeRec] /\ n[p] = r
    BY <1>3, <1>7, <1>11, <1>12 DEF NodeData
  <1>14. PICK d : d = Manager!Slot(j + w)
    OBVIOUS
  <1>15. d \in Manager!Lists /\ Booked(r, d, j) /\ Booked(r, d, j + 1)
    BY <1>8, <1>9, <1>12, <1>14, SlotComes
  <1>16. PICK then : then = Manager!addTimerNode(out, p, j + w)
    OBVIOUS
  <1>17. Manager!Slot(j + w) \in Manager!Lists
    BY <1>14, <1>15
  <1>18. /\ then \in ListsOf /\ NodeLists(then)
         /\ Enters(out, then, p, d) /\ KeepsOrder(out, then, p)
    BY <1>7, <1>14, <1>16, <1>17, AddedIs
  <1>19. Manager!Proceed(then)
    BY <1>2, <1>8, <1>9, <1>16
  <1>20. ASSUME q # "freed" PROVE Punctual(then, n, j, "scan", 1, q, "null")
    <2>1. Punctual(then, n, j, "run", 1, p, q)
      <3>1. Punctual(out, n, j, "run", 1, p, q) /\ Elsewhere(p, "run", p, q)
        BY <1>7, <1>8 DEF Elsewhere
      <3>2. PutInto(out, n, then, n, p, d)
        BY <1>18 DEF PutInto
      <3>3. Booked(n[p], d, j) /\ Booked(n[p], d, j + 1)
        BY <1>13, <1>15
      <3>. QED
        BY <3>1, <3>2, <3>3, PunctualWith
    <2>2. \A s \in Manager!Lists : p \in Nodes /\ In(then[s], p)
            => Booked(n[p], s, j) /\ Booked(n[p], s, j + 1)
      <3>1. ASSUME NEW s \in Manager!Lists, In(then[s], p) PROVE s = d
        BY <1>18, <3>1 DEF Enters
      <3>. QED
        BY <1>13, <1>15, <3>1
    <2>. QED
      BY <1>20, <2>1, <2>2, RunToScan
  <1>21. q \in Nodes => In(then[c], q)
    BY <1>7, <1>18 DEF Enters
  <1>22. rmNode \in Nodes \cup {"null"} /\ (rmNode \in Nodes => n[rmNode].turns < 2)
    BY <1>2, <1>3, <1>5 DEF NodeData
  <1>. QED
    BY <1>2, <1>3, <1>4, <1>6, <1>7, <1>8, <1>13, <1>18, <1>19, <1>20, <1>21, <1>22, GoesToNext

LEMMA ManagerJiffyEnds ==
    ASSUME NodeInv, Manager!JiffyEnds
    PROVE  NodeInv'
  <1>1. /\ nodeAt = "scan" /\ p = "null" /\ jiffies' = jiffies + 1 /\ nodeAt' = "sleep"
        /\ tw' = tw /\ node' = node /\ rmNode' = rmNode
        /\ level' = level /\ p' = p /\ q' = q
    BY DEF Manager!JiffyEnds, Manager!Null
  <1>2. NodeData /\ NodeLists(tw) /\ NodeCursor
        /\ Punctual(tw, node, jiffies, nodeAt, level, p, q)
    BY <1>1 DEF NodeInv, NodeLive
  <1>3. Punctual(tw, node, jiffies + 1, "sleep", level, p, q)
    <2>1. ASSUME NEW s \in Manager!Lists, NEW t \in Nodes, In(tw[s], t)
          PROVE  Booked(node[t], s, jiffies + 1)
      <3>1. PICK l \in Seq(Nodes) : l = tw[s]
        BY <1>2 DEF NodeData, ListsOf
      <3>2. ~In(l, p)
        BY <1>1, Marks DEF In
      <3>3. Before(tw[s], t, p)
        BY <3>1, <3>2, Missing
      <3>4. Dealt(tw, t, s, jiffies, "scan", level, p, q)
        BY <3>3 DEF Dealt
      <3>. QED
        BY <1>1, <1>2, <2>1, <3>4 DEF Punctual
    <2>2. \A z, s : ~Dealt(tw, z, s, jiffies + 1, "sleep", level, p, q)
      BY DEF Dealt
    <2>. QED
      BY <2>1, <2>2 DEF Punctual
  <1>4. NodeData'
    <2>1. jiffies + 1 \in Nat
      BY <1>2 DEF NodeData
    <2>. QED
      BY <1>1, <1>2, <2>1 DEF NodeData
  <1>5. NodeCursor'
    BY <1>1, <1>2 DEF NodeCursor
  <1>6. NodeLive'
    BY <1>1, <1>2, <1>3, <1>5 DEF NodeLive
  <1>. QED
    BY <1>4, <1>6 DEF NodeInv

LEMMA ManagerKept == NodeInv /\ [Next]_vars => NodeInv'
  <1>1. SUFFICES ASSUME NodeInv, Manager!Next \/ UNCHANGED managerVars
                 PROVE  NodeInv'
    BY ManagerStep
  <1>2. CASE UNCHANGED managerVars
    <2>1. /\ jiffies' = jiffies /\ tw' = tw /\ node' = node
          /\ rmNode' = rmNode /\ nodeAt' = nodeAt /\ level' = level /\ p' = p /\ q' = q
          /\ nodeCancel' = nodeCancel
      BY <1>2 DEF managerVars
    <2>2. NodeData' = NodeData
      BY <2>1 DEF NodeData
    <2>3. Manager!Current(1)' = Manager!Current(1)
      BY <2>1, CurrentStays
    <2>4. /\ Manager!Current(level)' = Manager!Current(level)
          /\ (jiffies % Unit(level))' = jiffies % Unit(level)
      BY <2>1, CurrentLevel
    <2>5. Manager!First(tw[Manager!Current(level)])' = Manager!First(tw[Manager!Current(level)])
      BY <2>1, <2>4 DEF Manager!First
    <2>6. NodeCursor => NodeCursor'
      BY <2>1, <2>3, <2>4, <2>5 DEF NodeCursor
    <2>7. NodeLive => NodeLive'
      BY <2>1, <2>6 DEF NodeLive
    <2>. QED
      BY <1>1, <2>1, <2>2, <2>7 DEF NodeInv
  <1>3. CASE Manager!Next
    <2>1. \/ \E t \in Nodes, x \in NodeDelays, w \in NodeIntervals : Manager!addTimer(t, x, w)
          \/ \E t \in Nodes : Manager!delTimer(t)
          \/ Manager!handle \/ Manager!cascade \/ Manager!Cascaded \/ Manager!run
          \/ Manager!Removed \/ Manager!Restarted \/ Manager!Deleted \/ Manager!JiffyEnds
      BY <1>3 DEF Manager!Next
    <2>2. CASE \E t \in Nodes, x \in NodeDelays, w \in NodeIntervals : Manager!addTimer(t, x, w)
      BY <1>1, <2>2, ManagerAdding
    <2>3. CASE \E t \in Nodes : Manager!delTimer(t)
      BY <1>1, <2>3, ManagerDeleting
    <2>4. CASE Manager!handle
      BY <1>1, <2>4, ManagerHandling
    <2>5. CASE Manager!cascade
      BY <1>1, <2>5, ManagerCascading
    <2>6. CASE Manager!Cascaded
      BY <1>1, <2>6, ManagerCascaded
    <2>7. CASE Manager!run
      BY <1>1, <2>7, ManagerRunning
    <2>8. CASE Manager!Removed
      BY <1>1, <2>8, ManagerRemoved
    <2>9. CASE Manager!Restarted
      BY <1>1, <2>9, ManagerRestarted
    <2>10. CASE Manager!Deleted
      BY <1>1, <2>10, ManagerDeletes
    <2>11. CASE Manager!JiffyEnds
      BY <1>1, <2>11, ManagerJiffyEnds
    <2>. QED
      BY <2>1, <2>2, <2>3, <2>4, <2>5, <2>6, <2>7, <2>8, <2>9, <2>10, <2>11
  <1>. QED
    BY <1>1, <1>2, <1>3

LEMMA ManagerInTime == NodeInv => Manager!OnTime
  <1>1. SUFFICES ASSUME NodeInv PROVE Manager!OnTime
    OBVIOUS
  <1>2. NodeData
    BY <1>1 DEF NodeInv
  <1>3. PICK j \in Nat : j = jiffies
    BY <1>2 DEF NodeData
  <1>4. PICK a \in Nat : a = TVR_SIZE
    BY NetAssumption
  <1>5. ASSUME nodeAt = "run", p # "freed"
        PROVE  \E k \in 0..node[p].turns : j = node[p].endtime + k * a
    <2>1. PICK c \in Manager!Lists : c = Manager!Current(1) /\ c[1] = 1 /\ j % Unit(1) = 0
      BY <1>3, FirstWheel
    <2>2. RunsNext(tw[c], c, node, j, p, q)
      BY <1>1, <1>3, <1>5, <2>1 DEF NodeInv, NodeLive, NodeCursor
    <2>3. p \in Nodes /\ Booked(node[p], c, j)
      BY <1>2, <1>5, <2>2 DEF NodeData, RunsNext
    <2>4. PICK r \in NodeRec : r = node[p]
      BY <1>2, <2>3 DEF NodeData
    <2>5. Comes(r, c, j)
      <3>1. 1 \in 1..5
        OBVIOUS
      <3>. QED
        BY <1>3, <2>1, <2>3, <2>4, <3>1, ComesNow
    <2>6. PICK e \in Nat : e = r.endtime
      BY DEF NodeRec
    <2>7. PICK u \in Nat : u = r.turns
      BY DEF NodeRec
    <2>8. Moment(e, 1) = e
      <3>1. 1 \in 1..5
        OBVIOUS
      <3>. QED
        BY <3>1, MomentIs
    <2>9. CASE j = e
      <3>1. 0 \in 0..u /\ j = e + 0 * a
        BY <2>9
      <3>. QED
        BY <2>4, <2>6, <2>7, <3>1
    <2>10. CASE Late(r, j)
      <3>1. PICK k \in 1..u : j = e + k * a
        BY <1>4, <2>6, <2>7, <2>10 DEF Late
      <3>2. k \in 0..u
        OBVIOUS
      <3>. QED
        BY <2>4, <2>6, <2>7, <3>1, <3>2
    <2>. QED
      BY <2>1, <2>5, <2>6, <2>8, <2>9, <2>10 DEF Comes
  <1>6. ASSUME nodeAt = "sleep", NEW s \in Manager!Lists, NEW t \in Nodes, In(tw[s], t)
        PROVE  j <= node[t].endtime + node[t].turns * a
    <2>1. Punctual(tw, node, j, "sleep", level, p, q)
      BY <1>1, <1>3, <1>6 DEF NodeInv, NodeLive
    <2>2. Booked(node[t], s, j)
      BY <1>6, <2>1 DEF Punctual, Dealt
    <2>3. PICK r \in NodeRec : r = node[t]
      BY <1>2 DEF NodeData
    <2>4. PICK m \in j..(j + Unit(s[1] + 1) - 1) : Comes(r, s, m)
      BY <2>2, <2>3 DEF Booked
    <2>5. PICK e \in Nat : e = r.endtime
      BY DEF NodeRec
    <2>6. PICK u \in Nat : u = r.turns
      BY DEF NodeRec
    <2>7. j <= m /\ m \in Int
      <3>1. PICK v \in Nat : v = Unit(s[1] + 1)
        BY ListIs, Units
      <3>2. m \in j..(j + v - 1)
        BY <3>1
      <3>. QED
        BY <3>2
    <2>8. CASE m = Moment(e, s[1])
      <3>1. Moment(e, s[1]) \in Nat /\ Moment(e, s[1]) <= e
        BY ListIs, MomentIs
      <3>2. j <= e
        BY <2>7, <2>8, <3>1
      <3>3. u * a \in Nat
        OBVIOUS
      <3>4. j <= e + u * a
        BY <3>2, <3>3
      <3>. QED
        BY <2>3, <2>5, <2>6, <3>4
    <2>9. CASE Late(r, m)
      <3>1. PICK k \in 1..u : m = e + k * a
        BY <1>4, <2>5, <2>6, <2>9 DEF Late
      <3>2. k * a <= u * a /\ k * a \in Nat /\ u * a \in Nat
        <4>1. PICK d \in Nat : u = k + d
          <5>1. u - k \in Nat /\ u = k + (u - k)
            OBVIOUS
          <5>. QED
            BY <5>1
        <4>2. (k + d) * a = k * a + d * a /\ d * a \in Nat /\ k * a \in Nat
          OBVIOUS
        <4>. QED
          BY <4>1, <4>2
      <3>3. j <= e + u * a
        BY <2>7, <3>1, <3>2
      <3>. QED
        BY <2>3, <2>5, <2>6, <3>3
    <2>. QED
      BY <2>4, <2>5, <2>8, <2>9 DEF Comes
  <1>7. nodeAt = "sleep" => \A s \in DOMAIN tw : \A t \in Manager!ToSet(tw[s]) :
          j <= node[t].endtime + node[t].turns * a
    <2>1. SUFFICES ASSUME nodeAt = "sleep", NEW s \in DOMAIN tw, NEW t \in Manager!ToSet(tw[s])
                   PROVE  j <= node[t].endtime + node[t].turns * a
      OBVIOUS
    <2>2. s \in Manager!Lists /\ tw[s] \in Seq(Nodes)
      BY <1>2, <2>1 DEF NodeData, ListsOf
    <2>3. PICK l \in Seq(Nodes) : l = tw[s]
      BY <2>2
    <2>4. PICK k \in DOMAIN l : l[k] = t
      BY <2>1, <2>3 DEF Manager!ToSet
    <2>5. k \in 1..Len(l) /\ t \in Nodes
      BY <2>4
    <2>6. In(l, t)
      BY <2>4, <2>5 DEF In
    <2>. QED
      BY <1>6, <2>1, <2>2, <2>3, <2>5, <2>6
  <1>8. /\ nodeAt = "run" /\ p # "freed" =>
             \E k \in 0..node[p].turns : jiffies = node[p].endtime + k * TVR_SIZE
        /\ nodeAt = "sleep" => \A s \in DOMAIN tw : \A t \in Manager!ToSet(tw[s]) :
             jiffies <= node[t].endtime + node[t].turns * TVR_SIZE
    BY <1>3, <1>4, <1>5, <1>7
  <1>. QED
    BY <1>8 DEF Manager!OnTime, Manager!Freed

(* For wheels of any sizes, with sIDs of their own: a timer runs in the    *)
(* jiffy of its end, however often it is distributed, and none is left     *)
(* behind.  Two may run a turn of the first wheel late: one that a         *)
(* callback adds for the jiffy being handled, and one at the address of a  *)
(* timer cancelled before, which rmNode holds yet (handle, cascade,        *)
(* addTimerNode of TimerManager).  Nothing is said after a callback has    *)
(* cancelled the next timer of the list.                                   *)
THEOREM ManagerTimersOnTime == Spec => []Manager!OnTime
  <1>1. Init => NodeInv
    <2>1. SUFFICES ASSUME Manager!Init
                   PROVE  NodeInv
      BY DEF Init
    <2>2. /\ jiffies = 0 /\ tw = [s \in Manager!Lists |-> <<>>]
          /\ node = [t \in Nodes |-> Manager!NoNode] /\ rmNode = "null"
          /\ nodeAt = "sleep" /\ level = 1 /\ p = "null" /\ q = "null"
      BY <2>1 DEF Manager!Init, Manager!Null
    <2>3. NodeData
      BY <2>2, AllReach, Marks DEF NodeData, ListsOf
    <2>4. \A s \in Manager!Lists : tw[s] = <<>>
      BY <2>2
    <2>5. \A s \in Manager!Lists : NoTwice(tw[s]) /\ \A x : ~In(tw[s], x)
      BY <2>4 DEF NoTwice, In
    <2>6. NodeLists(tw)
          /\ Punctual(tw, node, jiffies, nodeAt, level, p, q)
      BY <2>5 DEF NodeLists, Punctual
    <2>7. NodeCursor
      BY <2>2 DEF NodeCursor
    <2>. QED
      BY <2>3, <2>6, <2>7 DEF NodeInv, NodeLive
  <1>. QED
    BY <1>1, ManagerKept, ManagerInTime, PTL DEF Spec

(* Both wheels of raw-examples are in time, but for the timers that        *)
(* MayBeLate and turns of the two modules name; timers have ids of their   *)
(* own in both, and nothing is said once a callback has cancelled the      *)
(* timer that comes next ("broken").                                       *)
THEOREM WheelsInTime == Spec => []WheelsOnTime
  BY WheelTimersOnTime, ManagerTimersOnTime, PTL DEF WheelsOnTime
=============================================================================
