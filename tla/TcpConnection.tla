--------------------------- MODULE TcpConnection ----------------------------
(***************************************************************************)
(* One pqnet::TcpConnection (pqnet/core/connection.cpp) in its event loop: *)
(* sending and receiving through an edge-triggered trigger, half-close,    *)
(* and the detection that the peer has gone.                               *)
(*                                                                         *)
(* Actors: the loop thread, which runs the handlers, the functors and the  *)
(* user's callbacks; the server's leader thread, which answers the remove  *)
(* callback with connectDestroyed and whose ~TcpServer, at any time, drops *)
(* a connection that is still in the pool; and the peer behind the kernel  *)
(* socket.                                                                 *)
(*                                                                         *)
(* The bytes the user offers to send are numbered 1, 2, 3, ...; of the     *)
(* bytes received only the number matters (that a Buffer keeps their order *)
(* is shown in Buffer).  The kernel's side is external: a receive count, a *)
(* bounded send buffer, and the ready list of epoll.  A trigger is on that *)
(* list (armed) after something happened that it is interested in, or      *)
(* after EPOLL_CTL_ADD or MOD found it ready; epoll_wait reports what is   *)
(* ready at that moment and takes it off the list (EPOLLET).               *)
(***************************************************************************)
EXTENDS Integers, Sequences

CONSTANTS INITSIZE,     \* initial size of both buffers (1024 in the code)
          MAXSIZE,      \* size at which they stop growing (8192)
          SNDCAP,       \* room of the kernel's send buffer
          MaxSent,      \* bound: bytes the user offers to send
          MaxReceived,  \* bound: bytes the peer sends
          MaxFunctors,  \* bound: shutdown() calls waiting in the loop
          MaxRemovals,  \* bound: removals waiting in the leader
          WithReset     \* whether the peer may reset the connection

ASSUME ConnectionAssumption ==
    /\ INITSIZE \in Nat \ {0} /\ MAXSIZE \in Nat /\ INITSIZE <= MAXSIZE
    /\ SNDCAP \in Nat \ {0}
    /\ MaxSent \in Nat /\ MaxReceived \in Nat
    /\ MaxFunctors \in Nat /\ MaxRemovals \in Nat
    /\ WithReset \in BOOLEAN

VARIABLES status,       \* TcpConnection::status
          likeWriting,  \* EPOLLOUT is among the trigger's events
          output,       \* readable bytes of outputBuffer
          outCap,       \* size of outputBuffer
          outRead,      \* its readerIndex: bytes of space in front
          overrun,      \* an append has copied past the end of outputBuffer
          input,        \* readable bytes of inputBuffer
          inCap,        \* size of inputBuffer
          outer,        \* bytes read by the waiting levels of readFrom
          pc,           \* what the loop thread is doing
          back,         \* where it goes when the user's callback returns
          revents,      \* events of this round still to be handled
          functors,     \* EventLoop::functors
          batch,        \* functors of this round still to be run
          removals,     \* removeConnectionInLoop functors waiting in the leader
          pool,         \* the connection in the server: pooled, erased, or pooled
                        \* in a server that is being destroyed
          rcv, rfin,    \* kernel: bytes to read, end of stream behind them
          snd, sfin,    \* kernel: bytes to deliver, our end of stream behind them
          reset, soerr, \* kernel: connection reset, error not yet reported
          armed,        \* kernel: the trigger is on the ready list
          delivered,    \* bytes the peer has received
          received,     \* bytes the peer has sent
          offered,      \* bytes the user has offered to send
          accepted,     \* of those, the bytes that send did not drop
          lastRead,     \* how the last readFrom ended
          coalesced,    \* the peer's FIN arrived behind data that was not yet read
          killed        \* a write to a dead socket raised SIGPIPE

loopVars == <<pc, back, revents, batch>>
outVars == <<output, outCap, outRead, overrun>>
sendVars == <<likeWriting, outVars, snd, sfin, delivered, offered, accepted>>
serverVars == <<removals, pool>>
readVars == <<input, inCap, outer, rcv, rfin, received, lastRead, coalesced>>
vars == <<status, loopVars, sendVars, readVars, functors, serverVars, reset, soerr,
          armed, killed>>

Least(a, b) == IF a <= b THEN a ELSE b

(* The functors of a connection in EventLoop::functors. *)
Functor == {"connectEstablished", "shutdownInLoop", "connectDestroyed"}

(* The trigger is registered from connectEstablished to connectDestroyed.  *)
Registered == status \in {"CONNECTED", "DISCONNECTING"}

Init ==
    /\ status = "CONNECTING"
    /\ likeWriting = FALSE
    /\ output = <<>> /\ outCap = INITSIZE /\ outRead = 0 /\ overrun = FALSE
    /\ input = 0 /\ inCap = INITSIZE /\ outer = 0
    /\ pc = "wait" /\ back = "events" /\ revents = {} /\ batch = <<>>
    /\ functors = <<"connectEstablished">>
    /\ removals = 0 /\ pool = "pooled"
    /\ rcv = 0 /\ rfin = FALSE /\ snd = <<>> /\ sfin = FALSE
    /\ reset = FALSE /\ soerr = FALSE /\ armed = FALSE
    /\ delivered = <<>> /\ received = 0 /\ offered = 0 /\ accepted = <<>>
    /\ lastRead = "none" /\ coalesced = FALSE /\ killed = FALSE

-----------------------------------------------------------------------------
(* The loop: epoll_wait, timers, events, functors.                         *)

Ready ==
    (IF soerr THEN {"ERR"} ELSE {})
      \cup (IF rcv > 0 \/ rfin \/ reset THEN {"IN"} ELSE {})
      \cup (IF likeWriting /\ (Len(snd) < SNDCAP \/ reset) THEN {"OUT"} ELSE {})

(* EPOLL_CTL_MOD puts a trigger that is ready on the ready list again. *)
Rearmed == armed' = (armed \/ (Ready' # {}))

(* epoll_wait returns, with an event or after its timeout; then the timer  *)
(* queue runs, and a timer's callback may use the connection.              *)
EpollWait ==
    /\ pc = "wait"
    /\ revents' = IF armed THEN Ready ELSE {}
    /\ armed' = FALSE
    /\ pc' = "user" /\ back' = "events"
    /\ UNCHANGED <<status, batch, sendVars, readVars, functors, serverVars, reset,
                   soerr, killed>>

CallbackReturns ==
    /\ pc = "user"
    /\ pc' = back
    /\ UNCHANGED <<status, back, revents, batch, sendVars, readVars, functors,
                   serverVars, reset, soerr, armed, killed>>

(* All events are handled: runFunctors takes the queue. *)
TakeFunctors ==
    /\ pc = "events"
    /\ revents = {}
    /\ batch' = functors
    /\ functors' = <<>>
    /\ pc' = "functors"
    /\ UNCHANGED <<status, back, revents, sendVars, readVars, serverVars, reset,
                   soerr, armed, killed>>

FunctorsDone ==
    /\ pc = "functors"
    /\ batch = <<>>
    /\ pc' = "wait"
    /\ UNCHANGED <<status, back, revents, batch, sendVars, readVars, functors,
                   serverVars, reset, soerr, armed, killed>>

-----------------------------------------------------------------------------
(* Functors.                                                               *)

connectEstablished ==
    /\ pc = "functors" /\ batch # <<>> /\ Head(batch) = "connectEstablished"
    /\ batch' = Tail(batch)
    /\ status' = "CONNECTED"
    /\ pc' = "user" /\ back' = "functors"
    /\ UNCHANGED <<revents, sendVars, readVars, functors, serverVars, reset, soerr, killed>>
    /\ Rearmed

(* epoll_ctl(DEL), close, and the status last. *)
Destroyed ==
    /\ status' = "DISCONNECTED"
    /\ armed' = FALSE
    /\ pc' = "functors"

(* closecb comes first, if it has not been called, on a connection that is *)
(* still CONNECTED.                                                        *)
connectDestroyed ==
    /\ pc = "functors" /\ batch # <<>> /\ Head(batch) = "connectDestroyed"
    /\ batch' = Tail(batch)
    /\ \/ status = "CONNECTED" /\ pc' = "user" /\ back' = "destroy"
          /\ UNCHANGED <<status, armed>>
       \/ status # "CONNECTED" /\ Destroyed /\ UNCHANGED back
    /\ UNCHANGED <<revents, sendVars, readVars, functors, serverVars, reset, soerr, killed>>

(* closecb has returned to connectDestroyed. *)
DestroyGoesOn ==
    /\ pc = "destroy"
    /\ Destroyed
    /\ UNCHANGED <<back, revents, batch, sendVars, readVars, functors, serverVars,
                   reset, soerr, killed>>

(* On a descriptor that is closed already shutdownWrite does nothing here. *)
MayFinish == ~likeWriting /\ Registered

(* Does nothing while output is pending, and nobody asks again later. *)
shutdownInLoop ==
    /\ pc = "functors" /\ batch # <<>> /\ Head(batch) = "shutdownInLoop"
    /\ batch' = Tail(batch)
    /\ sfin' = (sfin \/ (MayFinish /\ ~reset))
    /\ UNCHANGED <<status, pc, back, revents, likeWriting, outVars, snd, delivered,
                   offered, accepted, readVars, functors, serverVars, reset, soerr,
                   armed, killed>>

-----------------------------------------------------------------------------
(* Event handlers, in the order of Trigger::handleEvent.                   *)

(* getSocketError also clears the error. *)
handleError ==
    /\ pc = "events" /\ "ERR" \in revents
    /\ revents' = revents \ {"ERR"}
    /\ soerr' = FALSE
    /\ UNCHANGED <<status, pc, back, batch, sendVars, readVars, functors, serverVars,
                   reset, armed, killed>>

(* rmcb pushes removeConnectionInLoop to the leader. *)
Removed ==
    /\ status' = "DISCONNECTING"
    /\ removals' = removals + 1
    /\ pc' = "events"

(* closecb runs while the connection is still CONNECTED. *)
handleClose ==
    \/ status = "CONNECTED" /\ pc' = "user" /\ back' = "close"
       /\ UNCHANGED <<status, removals>>
    \/ status # "CONNECTED" /\ Removed /\ UNCHANGED back

(* closecb has returned to handleClose. *)
CloseGoesOn ==
    /\ pc = "close"
    /\ Removed
    /\ UNCHANGED <<back, revents, batch, sendVars, readVars, functors, pool, reset,
                   soerr, armed, killed>>

(* Mutant: the end of the stream is taken for an error. *)
MutReadResultNoClose(r) ==
    \/ /\ r > 0
       /\ pc' = "user" /\ back' = "events"
       /\ UNCHANGED <<status, removals>>
    \/ /\ r <= 0
       /\ UNCHANGED <<status, removals, pc, back>>

(* What handleRead does with the result r of the outermost level. *)
ReadResult(r) ==
    \/ /\ r > 0
       /\ pc' = "user" /\ back' = "events"
       /\ UNCHANGED <<status, removals>>
    \/ /\ r = 0
       /\ handleClose
    \/ /\ r < 0
       /\ UNCHANGED <<status, removals, pc, back>>

(* A level of readFrom returns r to the level that waits for it, or to     *)
(* handleRead.                                                             *)
ReadReturns(r, how) ==
    /\ outer' = 0
    /\ lastRead' = how
    /\ revents' = revents \ {"IN"}
    /\ ReadResult(IF outer = 0 THEN r ELSE outer + (IF r > 0 THEN r ELSE 0))

(* The size of the input buffer when a level of readFrom reads. *)
Room == IF input = inCap /\ inCap < MAXSIZE THEN 2 * inCap ELSE inCap

(* Mutant: after growing, readFrom returns instead of reading again. *)
MutReadAgainNot(n) ==
    /\ inCap' = 2 * Room
    /\ ReadReturns(n, "short")

(* A read that filled the buffer: grow it and read again. *)
ReadAgain(n) ==
    /\ inCap' = 2 * Room
    /\ outer' = outer + n
    /\ UNCHANGED <<lastRead, revents, back, status, removals, pc>>

(* One level of Buffer::readFrom (see Buffer) as handleRead runs it: the   *)
(* buffer is full, or the socket has no data, or it has.                   *)
handleRead ==
    /\ pc = "events" /\ "ERR" \notin revents /\ "IN" \in revents
    /\ removals < MaxRemovals
    /\ LET n == Least(rcv, Room - input)
           full == input + n = Room
       IN \/ /\ input = Room
             /\ inCap' = Room
             /\ ReadReturns(-2, "full")
             /\ UNCHANGED <<input, rcv, soerr>>
          \/ /\ input < Room /\ rcv = 0
             /\ inCap' = Room
             /\ soerr' = FALSE
             /\ IF (rfin \/ reset) /\ ~soerr
                THEN ReadReturns(0, "end")
                ELSE ReadReturns(-1, "empty")
             /\ UNCHANGED <<input, rcv>>
          \/ /\ input < Room /\ rcv > 0
             /\ input' = input + n
             /\ rcv' = rcv - n
             /\ \/ ~full /\ inCap' = Room /\ ReadReturns(n, "short")
                \/ full /\ Room < MAXSIZE /\ ReadAgain(n)
                \/ full /\ Room >= MAXSIZE /\ inCap' = Room /\ ReadReturns(-2, "full")
             /\ UNCHANGED soerr
    /\ UNCHANGED <<batch, sendVars, rfin, received, coalesced, functors, pool, reset,
                   armed, killed>>

(* write(2) on a socket whose sending side is gone raises SIGPIPE, which   *)
(* nothing in the library handles; a pending error is reported instead.    *)
WriteKills == sfin \/ (reset /\ ~soerr)

(* Mutant: omitWriting is forgotten. *)
MutOmitNever(n) == FALSE

(* The last byte ends the interest in writing (omitWriting). *)
Omit(n) == n > 0 /\ n = Len(output)

(* Writes what the kernel takes; wccb once nothing is left. *)
handleWrite ==
    LET n == IF reset \/ sfin THEN 0 ELSE Least(Len(output), SNDCAP - Len(snd))
    IN /\ pc = "events" /\ revents = {"OUT"}
       /\ revents' = {}
       /\ snd' = snd \o SubSeq(output, 1, n)
       /\ output' = SubSeq(output, n + 1, Len(output))
       /\ outRead' = outRead + n
       /\ likeWriting' = (likeWriting /\ ~Omit(n))
       /\ pc' = IF Omit(n) THEN "user" ELSE pc
       /\ back' = "events"
       /\ killed' = WriteKills
       /\ soerr' = FALSE
       /\ UNCHANGED <<status, batch, outCap, overrun, sfin, delivered, offered, accepted,
                      readVars, functors, serverVars, reset>>
       /\ IF Omit(n) THEN Rearmed ELSE UNCHANGED armed

-----------------------------------------------------------------------------
(* What the user does inside a callback.  wccb may run inside send; a call *)
(* it makes there has the effect of a call made after send.                *)

User == pc = "user" /\ Registered

(* Mutant: send always tries the socket first, past the pending bytes. *)
MutDirectAlways == TRUE

Direct == ~likeWriting /\ output = <<>>

(* Mutant: the rest is buffered but nobody asks for EPOLLOUT. *)
MutLikeNever(rest) == FALSE

(* What append leaves in outputBuffer needs EPOLLOUT. *)
Like(rest) == rest # <<>>

(* Buffer::append on outputBuffer (see Buffer): too little space behind    *)
(* the bytes is made up for by doubling once, without moving them, or by   *)
(* moving them to the front.  Nothing checks that this made enough.        *)
append(data) ==
    LET writable == outCap - outRead - Len(output)
        cramped == Len(data) > writable + outRead
        vacated == Len(data) > writable /\ ~cramped
    IN /\ outCap' = IF cramped /\ outCap < MAXSIZE THEN 2 * outCap ELSE outCap
       /\ outRead' = IF vacated THEN 0 ELSE outRead
       /\ output' = output \o data
       /\ overrun' = (outRead' + Len(output') > outCap')

(* send writes directly only behind nothing; a direct write that fails     *)
(* drops the message, one that is short leaves the rest to handleWrite.    *)
send(len) ==
    LET data == [i \in 1..len |-> offered + i]
        dead == Direct /\ (reset \/ sfin)
        n == IF dead \/ ~Direct THEN 0 ELSE Least(len, SNDCAP - Len(snd))
        drop == Direct /\ n = 0
        rest == SubSeq(data, n + 1, len)
    IN /\ User
       /\ offered + len <= MaxSent
       /\ offered' = offered + len
       /\ accepted' = IF drop THEN accepted ELSE accepted \o data
       /\ snd' = snd \o SubSeq(data, 1, n)
       /\ append(IF drop THEN <<>> ELSE rest)
       /\ likeWriting' = (likeWriting \/ (~drop /\ Like(rest)))
       /\ killed' = (dead /\ WriteKills)
       /\ soerr' = (soerr /\ ~dead)
       /\ UNCHANGED <<status, loopVars, sfin, delivered, readVars, functors, serverVars,
                      reset>>
       /\ IF likeWriting' # likeWriting THEN Rearmed ELSE UNCHANGED armed

(* inputBuffer->get *)
Consume(len) ==
    /\ User
    /\ len \in 1..input
    /\ input' = input - len
    /\ UNCHANGED <<status, loopVars, sendVars, inCap, outer, rcv, rfin, received,
                   lastRead, coalesced, functors, serverVars, reset, soerr, armed, killed>>

MayShutdown == status = "CONNECTED"

shutdown ==
    /\ User
    /\ MayShutdown
    /\ Len(functors) < MaxFunctors
    /\ functors' = Append(functors, "shutdownInLoop")
    /\ UNCHANGED <<status, loopVars, sendVars, readVars, serverVars, reset, soerr, armed,
                   killed>>

-----------------------------------------------------------------------------
(* The leader thread: removeConnectionInLoop, while its loop runs. *)
LeaderRemoves ==
    /\ removals > 0
    /\ pool # "destroying"
    /\ removals' = removals - 1
    /\ pool' = "erased"
    /\ functors' = Append(functors, "connectDestroyed")
    /\ UNCHANGED <<status, loopVars, sendVars, readVars, reset, soerr, armed, killed>>

(* ~TcpServer, after the leader's loop: it drops what is in the pool, at   *)
(* whatever point of its life, and the pool holds the object until the     *)
(* loop's thread has been joined.                                          *)
ServerDestroys ==
    /\ pool = "pooled"
    /\ pool' = "destroying"
    /\ functors' = Append(functors, "connectDestroyed")
    /\ UNCHANGED <<status, loopVars, sendVars, readVars, removals, reset, soerr, armed, killed>>

(* The peer. *)
Open == status # "DISCONNECTED" /\ ~reset

PeerSends ==
    /\ Open /\ ~rfin /\ received < MaxReceived
    /\ received' = received + 1
    /\ rcv' = rcv + 1
    /\ armed' = Registered
    /\ UNCHANGED <<status, loopVars, sendVars, input, inCap, outer, rfin, lastRead,
                   coalesced, functors, serverVars, reset, soerr, killed>>

PeerFinishes ==
    /\ Open /\ ~rfin
    /\ rfin' = TRUE
    /\ coalesced' = (rcv > 0)
    /\ armed' = Registered
    /\ UNCHANGED <<status, loopVars, sendVars, input, inCap, outer, rcv, received,
                   lastRead, functors, serverVars, reset, soerr, killed>>

(* Room in a send buffer that was full is an event for a trigger that      *)
(* likes writing.                                                          *)
PeerReads ==
    /\ Open /\ snd # <<>>
    /\ delivered' = Append(delivered, Head(snd))
    /\ snd' = Tail(snd)
    /\ armed' = (armed \/ (likeWriting /\ Len(snd) = SNDCAP))
    /\ UNCHANGED <<status, loopVars, likeWriting, outVars, sfin, offered, accepted,
                   readVars, functors, serverVars, reset, soerr, killed>>

PeerResets ==
    /\ WithReset /\ Open
    /\ reset' = TRUE /\ soerr' = TRUE
    /\ snd' = <<>>
    /\ armed' = Registered
    /\ UNCHANGED <<status, loopVars, likeWriting, outVars, sfin, delivered, offered,
                   accepted, readVars, functors, serverVars, killed>>

-----------------------------------------------------------------------------

Loop ==
    \/ EpollWait \/ CallbackReturns \/ TakeFunctors \/ FunctorsDone
    \/ connectEstablished \/ connectDestroyed \/ DestroyGoesOn \/ shutdownInLoop
    \/ handleError \/ handleRead \/ CloseGoesOn \/ handleWrite

(* A SIGPIPE ends the program; nothing is said of a buffer that was overrun. *)
Running == ~killed /\ ~overrun

Next ==
    \/ Running /\ Loop
    \/ Running /\ \E len \in 1..MaxSent : send(len)
    \/ Running /\ \E len \in 1..MAXSIZE : Consume(len)
    \/ Running /\ shutdown
    \/ Running /\ LeaderRemoves
    \/ Running /\ ServerDestroys
    \/ Running /\ PeerSends
    \/ Running /\ PeerFinishes
    \/ Running /\ PeerReads
    \/ Running /\ PeerResets

(* The loop thread keeps running: with no timer epoll_wait returns every   *)
(* 20 ms.  Callbacks return.  Nothing is asked of the leader.              *)
LoopFairness == WF_vars(Running /\ Loop)

(* A peer that keeps reading what it is sent. *)
Spec == Init /\ [][Next]_vars /\ LoopFairness /\ WF_vars(Running /\ PeerReads)

-----------------------------------------------------------------------------
(* Properties.                                                             *)

TypeOK ==
    /\ status \in {"CONNECTING", "CONNECTED", "DISCONNECTING", "DISCONNECTED"}
    /\ pc \in {"wait", "user", "events", "close", "functors", "destroy"}
    /\ back \in {"events", "close", "functors", "destroy"}
    /\ revents \subseteq {"ERR", "IN", "OUT"}
    /\ functors \in Seq(Functor) /\ batch \in Seq(Functor)
    /\ removals \in Nat /\ pool \in {"pooled", "erased", "destroying"}
    /\ outCap \in INITSIZE..(2 * MAXSIZE) /\ outRead \in Nat /\ overrun \in BOOLEAN
    /\ input \in 0..inCap /\ inCap \in 1..(2 * MAXSIZE) /\ outer \in 0..input
    /\ rcv \in Nat /\ received \in Nat /\ offered \in Nat
    /\ output \in Seq(Nat) /\ snd \in Seq(Nat) /\ Len(snd) <= SNDCAP
    /\ delivered \in Seq(Nat) /\ accepted \in Seq(Nat)
    /\ likeWriting \in BOOLEAN /\ rfin \in BOOLEAN /\ sfin \in BOOLEAN
    /\ reset \in BOOLEAN /\ soerr \in BOOLEAN /\ armed \in BOOLEAN

(* Every byte that send accepted is, in order and once, with the peer, in  *)
(* the kernel's send buffer or in outputBuffer, until a reset drops the    *)
(* kernel's part: direct writes never overtake buffered bytes, and         *)
(* handleWrite neither repeats nor skips any.  Nothing is claimed once an  *)
(* append has run past the end of outputBuffer.                            *)
StreamIntact ==
    \/ overrun
    \/ IF reset THEN /\ Len(delivered) + Len(output) <= Len(accepted)
                     /\ delivered = SubSeq(accepted, 1, Len(delivered))
                     /\ output = SubSeq(accepted, Len(accepted) - Len(output) + 1,
                                       Len(accepted))
                ELSE delivered \o snd \o output = accepted

(* outputBuffer holds its bytes behind its front space within its vector,  *)
(* but for the append that runs past the end, and that takes more pending  *)
(* bytes than the buffer's initial size.                                   *)
OutputRoom ==
    /\ overrun <=> outRead + Len(output) > outCap
    /\ overrun => Len(output) > INITSIZE

(* The trigger likes writing exactly while outputBuffer holds bytes: no    *)
(* bytes wait for an event that was not asked for, and no EPOLLOUT is      *)
(* handled with nothing to write.                                          *)
WritingIffPending == likeWriting <=> output # <<>>

(* The loop thread waits and the trigger is not on the ready list. *)
Quiet == pc = "wait" /\ ~armed /\ status = "CONNECTED"

(* Edge triggering: when the loop waits with no event to come, received    *)
(* bytes are left in the kernel only if the last read stopped at an input  *)
(* buffer that is full at its maximum.                                     *)
UnreadOnlyWhenFull == Quiet /\ rcv > 0 => lastRead = "full" /\ inCap >= MAXSIZE

(* Our end of stream is sent only behind all the bytes send accepted. *)
FinAfterData == sfin /\ ~reset => output = <<>>

(* The functors that the loop has still to run, in order. *)
Queue == batch \o functors

(* A connectDestroyed is still to run behind the functor at i, or at all   *)
(* when i is 0.                                                            *)
DestroyBehind(i) == \E j \in 1..Len(Queue) : j > i /\ Queue[j] = "connectDestroyed"

(* shutdownInLoop is bound to a bare this.  Whatever the callbacks, the    *)
(* leader and ~TcpServer do, the object outlives it: the pool holds it, or *)
(* a connectDestroyed behind it does.  Unless the server is being          *)
(* destroyed, none runs behind connectDestroyed, on a descriptor that is   *)
(* closed; then closecb or a later callback may still push one.            *)
ShutdownBeforeDestroy ==
    \A i \in 1..Len(Queue) : Queue[i] = "shutdownInLoop" =>
        /\ pool = "erased" => DestroyBehind(i)
        /\ pool # "destroying" =>
              /\ \A j \in 1..Len(Queue) : Queue[j] = "connectDestroyed" => i < j
              /\ status # "DISCONNECTED"

(* Where the loop is, the callback it may be in left out. *)
At == IF pc = "user" THEN back ELSE pc

(* The life of the connection: established by the first functor and only   *)
(* by it; removed only after the peer's end, with closecb done; dropped    *)
(* while it is up, or before, only by ~TcpServer; closecb finds it         *)
(* CONNECTED; and no event for it before or after its registered life.     *)
LifeCycle ==
    /\ status = "CONNECTING" =>
          /\ Len(Queue) >= 1 /\ Queue[1] = "connectEstablished"
          /\ \A i \in 2..Len(Queue) : Queue[i] = "connectDestroyed"
          /\ ~likeWriting
    /\ status # "CONNECTING" =>
          \A i \in 1..Len(Queue) : Queue[i] # "connectEstablished"
    /\ status \in {"CONNECTING", "CONNECTED"} =>
          /\ removals = 0 /\ pool # "erased"
          /\ pool = "pooled" => ~DestroyBehind(0)
    /\ At \in {"close", "destroy"} => status = "CONNECTED"
    /\ At = "destroy" => pool = "destroying"
    /\ ~Registered => ~armed /\ revents = {}

(* A round of the loop handles its events before its functors and leaves   *)
(* nothing behind; readFrom waits for another level only within an event.  *)
RoundInOrder ==
    /\ At \in {"wait", "functors", "destroy"} => revents = {}
    /\ At \in {"wait", "events", "close"} => batch = <<>>
    /\ outer > 0 => pc = "events" /\ "IN" \in revents

(* A reset drops what the kernel had still to deliver. *)
ResetEmpties == reset => snd = <<>>

(* What every step of the loop keeps: write interest exactly while output  *)
(* is pending, the pending bytes within their vector, the end of stream    *)
(* behind the data, and the object alive for every functor on it.          *)
ConnectionInv ==
    /\ TypeOK /\ WritingIffPending /\ OutputRoom /\ FinAfterData /\ ShutdownBeforeDestroy
    /\ LifeCycle /\ RoundInOrder /\ ResetEmpties

(* Bytes left in outputBuffer are written out while the peer reads and the *)
(* connection is up (the peer's end of stream and ~TcpServer drop them)    *)
(* and no append has overrun the buffer.                                   *)
OutputDrains ==
    (output # <<>>) ~> (output = <<>> \/ status # "CONNECTED" \/ reset \/ ~Running)

(* The end of the peer's stream is noticed when it arrives on a socket     *)
(* that has been read empty, unless the input buffer was full: a read that *)
(* stops short is not repeated, so an end that arrives behind unread data  *)
(* may share its only event with that data.                                *)
FinNoticed ==
    (rfin /\ ~coalesced /\ status = "CONNECTED")
        ~> (status # "CONNECTED" \/ ~Running \/ lastRead = "full")

(* A shutdown() that is queued sends the connection's end of stream (or it *)
(* is closed otherwise).                                                   *)
ShutdownSendsFin ==
    (\E i \in 1..Len(Queue) : Queue[i] = "shutdownInLoop")
        ~> (sfin \/ status # "CONNECTED" \/ reset \/ ~Running)
=============================================================================
