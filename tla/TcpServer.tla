----------------------------- MODULE TcpServer ------------------------------
(***************************************************************************)
(* The life of connections in a pqnet::TcpServer (pqnet/core/server.cpp):  *)
(* accepted by the leader's loop, established, served and destroyed in a   *)
(* follower's loop (pqnet/core/eventloop.cpp), removed through the leader, *)
(* and all of them taken down by the server's destructor.                  *)
(*                                                                         *)
(* Threads: the main thread, which runs the leader's loop and then the     *)
(* destructor; one thread per follower; a thread or signal handler that    *)
(* calls shutdown().  They share the functor queues of the loops.          *)
(*                                                                         *)
(* The n-th connection that peers make is the socket n, and the            *)
(* TcpConnection object made for it is the object n.  A descriptor is a    *)
(* small number that the kernel reuses, so the descriptor an object holds  *)
(* and the socket behind that descriptor are kept apart: close and         *)
(* epoll_ctl act on whatever socket the descriptor stands for.             *)
(*                                                                         *)
(* Of the traffic (module TcpConnection has all of it) this module keeps   *)
(* what it does to triggers: data, an EPOLLOUT edge, an EPOLL_CTL_MOD and  *)
(* the end of a stream put one on the ready list; a read of a socket that  *)
(* is at the end of its stream runs handleClose, each time.  What follows  *)
(* the use of a deleted object is not described: the properties promise    *)
(* nothing from the second removal of a connection on (RemovedOnce).       *)
(***************************************************************************)
EXTENDS Integers, Sequences, Functions

CONSTANTS Followers,    \* number of follower loops (one per processor)
          MaxFd,        \* number of descriptors the process may have open
          MaxConns,     \* bound: connections that peers make
          MaxReports,   \* bound: times a socket is ready at its end of stream
          Interrupts    \* whether epoll_wait of a follower may return EINTR

ASSUME ServerAssumption ==
    /\ Followers \in Nat \ {0} /\ MaxFd \in Nat /\ MaxConns \in Nat
    /\ MaxReports \in Nat \ {0} /\ Interrupts \in BOOLEAN

Loops == 1..Followers
Fds == 1..MaxFd
Conns == 1..MaxConns
None == 0

VARIABLES lpc,          \* what the main thread is doing
          lflag,        \* loopFlag of the leader
          lfunctors,    \* functors of the leader: connections to be removed
          lbatch,       \* funcs of the leader's runFunctors
          lpos,         \* how many of them have run
          connpool,     \* TcpServer::connpool
          currIndex,    \* EventLoopThreadPool::currIndex
          todo,         \* what the destructor has still to push
          pc, flag, functors, batch, pos,  \* the same of each follower
          revents,      \* triggers with an event that a follower has yet to handle
          status,       \* TcpConnection::status of each object
          fd,           \* descriptor an object holds
          looper,       \* follower an object is bound to
          closes,       \* how often closecb was called for an object
          removals,     \* how often rmcb was called for an object
          made,         \* kernel: connections made so far
          backlog,      \* kernel: sockets waiting to be accepted
          lready,       \* kernel: the listening socket is on the ready list
          sockOf,       \* kernel: socket behind a descriptor
          reports,      \* kernel: how often a socket became ready at its end of
                        \* stream; none before the end
          behind,       \* kernel: those with unread data in front of that end
          regs,         \* kernel: epoll registrations
          ready,        \* kernel: those on a ready list
          asked         \* shutdown() was called while the leader's loop ran

leaderVars == <<lpc, lflag, lfunctors, lbatch, lpos, connpool, currIndex, todo>>
followerVars == <<pc, flag, functors, batch, pos, revents>>
connVars == <<status, fd, looper, closes, removals>>
kernelVars == <<made, backlog, lready, sockOf, reports, behind, regs,
                ready>>
vars == <<leaderVars, followerVars, connVars, kernelVars, asked>>

(* A functor is bound to a TcpConnPtr (quit is bound to none), an epoll    *)
(* registration belongs to a loop and a socket and points to the trigger   *)
(* of an object.                                                           *)
Functor == [op : {"connectEstablished", "connectDestroyed"}, conn : Conns]
             \cup {[op |-> "quit", conn |-> None]}
Registration == [loop : Loops, sock : Conns, conn : Conns]

Init ==
    /\ lpc = "idle" /\ lflag = FALSE
    /\ lfunctors = <<>> /\ lbatch = <<>> /\ lpos = 0
    /\ connpool = [d \in Fds |-> None]
    /\ currIndex = 1 /\ todo = {}
    /\ pc = [f \in Loops |-> "idle"] /\ flag = [f \in Loops |-> FALSE]
    /\ functors = [f \in Loops |-> <<>>] /\ batch = [f \in Loops |-> <<>>]
    /\ pos = [f \in Loops |-> 0] /\ revents = [f \in Loops |-> {}]
    /\ status = [c \in Conns |-> "none"]
    /\ fd = [c \in Conns |-> None] /\ looper = [c \in Conns |-> None]
    /\ closes = [c \in Conns |-> 0] /\ removals = [c \in Conns |-> 0]
    /\ made = 0 /\ backlog = <<>> /\ lready = FALSE
    /\ sockOf = [d \in Fds |-> None]
    /\ reports = [c \in Conns |-> 0] /\ behind = {}
    /\ regs = {} /\ ready = {}
    /\ asked = FALSE

(* pushFunctor; the wake-up only shortens epoll_wait, which times out anyway. *)
Push(f, op, c) ==
    functors' = [functors EXCEPT ![f] = Append(@, [op |-> op, conn |-> c])]

-----------------------------------------------------------------------------
(* Main thread: start() and the leader's loop.                             *)

(* followers->start() and the entry of leader->loop(), which sets loopFlag: *)
(* a shutdown() before this is forgotten.                                   *)
start ==
    /\ lpc = "idle"
    /\ lpc' = "wait" /\ lflag' = TRUE
    /\ pc' = [f \in Loops |-> "started"]
    /\ UNCHANGED <<lfunctors, lbatch, lpos, connpool, currIndex, todo, flag,
                   functors, batch, pos, revents, connVars, kernelVars, asked>>

(* epoll_wait returns: with the listening socket, or after its timeout. *)
LeaderWait ==
    /\ lpc = "wait"
    /\ lpc' = IF lready THEN "accept" ELSE "swap"
    /\ lready' = FALSE
    /\ UNCHANGED <<lflag, lfunctors, lbatch, lpos, connpool, currIndex, todo,
                   followerVars, connVars, made, backlog, sockOf, reports, behind,
                   regs, ready, asked>>

(* epoll_wait returns -1, on a signal: the loop ends after this round. *)
LeaderInterrupted ==
    /\ lpc = "wait"
    /\ lpc' = "swap" /\ lflag' = FALSE
    /\ UNCHANGED <<lfunctors, lbatch, lpos, connpool, currIndex, todo,
                   followerVars, connVars, kernelVars, asked>>

FreeFds == {d \in Fds : sockOf[d] = None}

(* The kernel hands out the lowest free descriptor. *)
LowestFd == CHOOSE d \in FreeFds : \A e \in FreeFds : d <= e

(* Mutant: the last follower is left out. *)
MutNextIndex(i) == IF i + 1 >= Followers THEN 1 ELSE i + 1

NextIndex(i) == IF i >= Followers THEN 1 ELSE i + 1

(* Mutant: one accept per event. *)
MutAcceptOnce == "swap"

AcceptMore == "accept"

(* One turn of onAccept's loop: a new object in connpool, in the place of  *)
(* whatever the descriptor's entry held, for the next follower in turn.    *)
onAccept ==
    /\ lpc = "accept"
    /\ backlog # <<>> /\ FreeFds # {}
    /\ LET c == Head(backlog)
           f == currIndex
       IN  /\ backlog' = Tail(backlog)
           /\ sockOf' = [sockOf EXCEPT ![LowestFd] = c]
           /\ fd' = [fd EXCEPT ![c] = LowestFd]
           /\ looper' = [looper EXCEPT ![c] = f]
           /\ status' = [status EXCEPT ![c] = "CONNECTING"]
           /\ connpool' = [connpool EXCEPT ![LowestFd] = c]
           /\ currIndex' = NextIndex(f)
           /\ Push(f, "connectEstablished", c)
    /\ lpc' = AcceptMore
    /\ UNCHANGED <<lflag, lfunctors, lbatch, lpos, todo, pc, flag, batch, pos,
                   revents, closes, removals, made, lready, reports, behind, regs, ready,
                   asked>>

(* accept fails: nothing to accept (EAGAIN), or no descriptor left (EMFILE), *)
(* in which case the sockets that wait are left for the next edge.           *)
AcceptFails ==
    /\ lpc = "accept"
    /\ backlog = <<>> \/ FreeFds = {}
    /\ lpc' = "swap"
    /\ UNCHANGED <<lflag, lfunctors, lbatch, lpos, connpool, currIndex, todo,
                   followerVars, connVars, kernelVars, asked>>

LeaderSwap ==
    /\ lpc = "swap"
    /\ lbatch' = lfunctors /\ lfunctors' = <<>> /\ lpos' = 0
    /\ lpc' = "functors"
    /\ UNCHANGED <<lflag, connpool, currIndex, todo, followerVars, connVars,
                   kernelVars, asked>>

(* Mutant: the pool keeps the connection. *)
MutEraseNot(d) == connpool

Erase(d) == [connpool EXCEPT ![d] = None]

(* Mutant: the connection is forgotten, and nobody destroys it. *)
MutRemoveNoDestroy ==
    /\ lpc = "functors" /\ lpos < Len(lbatch)
    /\ lpos' = lpos + 1
    /\ connpool' = Erase(fd[lbatch[lpos + 1]])
    /\ UNCHANGED <<lpc, lflag, lfunctors, lbatch, currIndex, todo, followerVars,
                   connVars, kernelVars, asked>>

removeConnectionInLoop ==
    /\ lpc = "functors" /\ lpos < Len(lbatch)
    /\ LET c == lbatch[lpos + 1]
       IN  /\ connpool' = Erase(fd[c])
           /\ Push(looper[c], "connectDestroyed", c)
    /\ lpos' = lpos + 1
    /\ UNCHANGED <<lpc, lflag, lfunctors, lbatch, currIndex, todo, pc, flag, batch,
                   pos, revents, connVars, kernelVars, asked>>

(* End of runFunctors, which drops its functors, and of the round. *)
LeaderRound ==
    /\ lpc = "functors" /\ lpos = Len(lbatch)
    /\ lbatch' = <<>> /\ lpos' = 0
    /\ lpc' = IF lflag THEN "wait" ELSE "unlisten"
    /\ UNCHANGED <<lflag, lfunctors, connpool, currIndex, todo, followerVars,
                   connVars, kernelVars, asked>>

-----------------------------------------------------------------------------
(* Main thread: ~TcpServer, when start() has returned.                     *)

Unlisten ==
    /\ lpc = "unlisten"
    /\ backlog' = <<>> /\ lready' = FALSE
    /\ todo' = Range(connpool) \ {None}
    /\ lpc' = "destroy"
    /\ UNCHANGED <<lflag, lfunctors, lbatch, lpos, connpool, currIndex,
                   followerVars, connVars, made, sockOf, reports, behind, regs, ready,
                   asked>>

(* The destructor's loop over connpool, in the order of the descriptors. *)
DestroyConn ==
    /\ lpc = "destroy"
    /\ \E c \in todo :
          /\ \A e \in todo : fd[c] <= fd[e]
          /\ todo' = todo \ {c}
          /\ Push(looper[c], "connectDestroyed", c)
    /\ UNCHANGED <<lpc, lflag, lfunctors, lbatch, lpos, connpool, currIndex, pc,
                   flag, batch, pos, revents, connVars, kernelVars, asked>>

DestroyFirst == todo = {}

PoolSize == Followers

(* clearFollowers, one follower at a time. *)
clearFollowers ==
    /\ DestroyFirst
    /\ \/ /\ lpc = "destroy"
          /\ lpc' = "quit"
          /\ lpos' = 1
          /\ UNCHANGED functors
       \/ /\ lpc = "quit" /\ lpos <= PoolSize
          /\ Push(lpos, "quit", None)
          /\ lpos' = lpos + 1
          /\ UNCHANGED lpc
    /\ UNCHANGED <<lflag, lfunctors, lbatch, connpool, currIndex, todo, pc, flag,
                   batch, pos, revents, connVars, kernelVars, asked>>

Joinable == lpc = "quit" /\ lpos > PoolSize /\ \A f \in Loops : pc[f] = "stopped"

(* ~EventLoopThreadPool joins the threads; then the followers, the leader, *)
(* the functors left in them and connpool are destroyed.                   *)
Join ==
    /\ Joinable
    /\ lpc' = "gone"
    /\ regs' = {} /\ ready' = {}
    /\ lfunctors' = <<>> /\ lpos' = 0
    /\ functors' = [f \in Loops |-> <<>>]
    /\ connpool' = [d \in Fds |-> None]
    /\ UNCHANGED <<lflag, lbatch, currIndex, todo, pc, flag, batch, pos, revents,
                   connVars, made, backlog, lready, sockOf, reports, behind, asked>>

-----------------------------------------------------------------------------
(* A follower's thread.                                                    *)

loop(f) ==
    /\ pc[f] = "started"
    /\ pc' = [pc EXCEPT ![f] = "wait"]
    /\ flag' = [flag EXCEPT ![f] = TRUE]
    /\ UNCHANGED <<leaderVars, functors, batch, pos, revents, connVars, kernelVars,
                   asked>>

(* epoll_wait returns the triggers on the ready list, which leave it        *)
(* (EPOLLET), or times out.                                                 *)
FollowerWait(f) ==
    /\ pc[f] = "wait"
    /\ LET got == {r \in ready : r.loop = f}
       IN  /\ revents' = [revents EXCEPT ![f] = {r.conn : r \in got}]
           /\ ready' = ready \ got
    /\ pc' = [pc EXCEPT ![f] = "events"]
    /\ UNCHANGED <<leaderVars, flag, functors, batch, pos, connVars, made, backlog,
                   lready, sockOf, reports, behind, regs, asked>>

(* epoll_wait returns -1: this follower ends after the round. *)
FollowerInterrupted(f) ==
    /\ Interrupts
    /\ pc[f] = "wait"
    /\ flag' = [flag EXCEPT ![f] = FALSE]
    /\ pc' = [pc EXCEPT ![f] = "events"]
    /\ UNCHANGED <<leaderVars, functors, batch, pos, revents, connVars, kernelVars,
                   asked>>

(* Mutant: the close callback is called whatever the status is. *)
MutCallsAlways(c) == TRUE

CallsClose(c) == status[c] = "CONNECTED"

(* closecb once; rmcb, which pushes the removal, whatever the status is. *)
handleClose(c) ==
    /\ closes' = [closes EXCEPT ![c] = @ + (IF CallsClose(c) THEN 1 ELSE 0)]
    /\ status' = [status EXCEPT ![c] = "DISCONNECTING"]
    /\ removals' = [removals EXCEPT ![c] = @ + 1]
    /\ lfunctors' = Append(lfunctors, c)

(* A read of this socket finds its end and nothing else. *)
AtEnd(s) == s # None /\ reports[s] > 0 /\ s \notin behind

(* handleRead on the socket behind the object's descriptor: it finds the   *)
(* end, or data, all of it or the room that inputBuffer has, or nothing.   *)
handleRead(f, c) ==
    /\ pc[f] = "events" /\ c \in revents[f]
    /\ revents' = [revents EXCEPT ![f] = @ \ {c}]
    /\ LET s == sockOf[fd[c]]
       IN  \/ AtEnd(s) /\ handleClose(c) /\ UNCHANGED behind
           \/ /\ ~AtEnd(s)
              /\ behind' \in {behind, behind \ {s}}
              /\ UNCHANGED <<status, closes, removals, lfunctors>>
    /\ UNCHANGED <<lpc, lflag, lbatch, lpos, connpool, currIndex, todo, pc, flag,
                   functors, batch, pos, fd, looper, made, backlog, lready, sockOf,
                   reports, regs, ready, asked>>

FollowerSwap(f) ==
    /\ pc[f] = "events" /\ revents[f] = {}
    /\ batch' = [batch EXCEPT ![f] = functors[f]]
    /\ functors' = [functors EXCEPT ![f] = <<>>]
    /\ pos' = [pos EXCEPT ![f] = 0]
    /\ pc' = [pc EXCEPT ![f] = "functors"]
    /\ UNCHANGED <<leaderVars, flag, revents, connVars, kernelVars, asked>>

(* The follower's next functor is op, bound to c. *)
Calls(f, op, c) ==
    /\ pc[f] = "functors" /\ pos[f] < Len(batch[f])
    /\ batch[f][pos[f] + 1] = [op |-> op, conn |-> c]
    /\ pos' = [pos EXCEPT ![f] = @ + 1]

(* epoll_ctl(ADD) and (MOD) on the object's descriptor; a socket that has  *)
(* hung up already is ready at once.                                       *)
connectEstablished(f, c) ==
    /\ Calls(f, "connectEstablished", c)
    /\ status' = [status EXCEPT ![c] = "CONNECTED"]
    /\ LET s == sockOf[fd[c]]
           r == [loop |-> f, sock |-> s, conn |-> c]
       IN  IF s # None /\ ~\E q \in regs : q.loop = f /\ q.sock = s
             THEN /\ regs' = regs \cup {r}
                  /\ ready' = IF reports[s] > 0 THEN ready \cup {r} ELSE ready
             ELSE UNCHANGED <<regs, ready>>
    /\ UNCHANGED <<leaderVars, pc, flag, functors, batch, revents, fd, looper,
                   closes, removals, made, backlog, lready, sockOf, reports, behind,
                   asked>>

(* Mutant: the descriptor is not closed. *)
MutCloseNot(d) == sockOf

Close(d) == [sockOf EXCEPT ![d] = None]

(* closecb unless handleClose has called it; epoll_ctl(DEL) and close, on  *)
(* the socket that the descriptor stands for now.                          *)
connectDestroyed(f, c) ==
    /\ Calls(f, "connectDestroyed", c)
    /\ closes' = [closes EXCEPT ![c] = @ + (IF CallsClose(c) THEN 1 ELSE 0)]
    /\ status' = [status EXCEPT ![c] = "DISCONNECTED"]
    /\ LET s == sockOf[fd[c]]
       IN  /\ regs' = {r \in regs : r.sock # s}
           /\ ready' = {r \in ready : r.sock # s}
    /\ sockOf' = Close(fd[c])
    /\ UNCHANGED <<leaderVars, pc, flag, functors, batch, revents, fd, looper, removals,
                   made, backlog, lready, reports, behind, asked>>

quit(f) ==
    /\ Calls(f, "quit", None)
    /\ flag' = [flag EXCEPT ![f] = FALSE]
    /\ UNCHANGED <<leaderVars, pc, functors, batch, revents, connVars, kernelVars,
                   asked>>

FollowerRound(f) ==
    /\ pc[f] = "functors" /\ pos[f] = Len(batch[f])
    /\ batch' = [batch EXCEPT ![f] = <<>>]
    /\ pos' = [pos EXCEPT ![f] = 0]
    /\ pc' = [pc EXCEPT ![f] = IF flag[f] THEN "wait" ELSE "stopped"]
    /\ UNCHANGED <<leaderVars, flag, functors, revents, connVars, kernelVars, asked>>

-----------------------------------------------------------------------------
(* Callers of the server and its peers.                                    *)

(* From a signal handler or another thread. *)
shutdown ==
    /\ lpc \notin {"unlisten", "destroy", "quit", "gone"}
    /\ lflag' = FALSE
    /\ asked' = (asked \/ lpc # "idle")
    /\ UNCHANGED <<lpc, lfunctors, lbatch, lpos, connpool, currIndex, todo,
                   followerVars, connVars, kernelVars>>

PeerConnects ==
    /\ made < MaxConns /\ lpc \notin {"destroy", "quit", "gone"}
    /\ made' = made + 1
    /\ backlog' = Append(backlog, made + 1)
    /\ lready' = TRUE
    /\ UNCHANGED <<leaderVars, followerVars, connVars, sockOf, reports, behind, regs,
                   ready, asked>>

(* The peer of socket s ends its stream, behind data that was not read yet *)
(* or not; there is such data when an event of s is just being handled.    *)
PeerHangsUp(s) ==
    /\ s \in Range(backlog) \/ \E d \in Fds : sockOf[d] = s
    /\ reports[s] = 0
    /\ reports' = [reports EXCEPT ![s] = 1]
    /\ \/ behind' = behind \cup {s}
       \/ /\ \A f \in Loops : \A c \in revents[f] : sockOf[fd[c]] # s
          /\ UNCHANGED behind
    /\ ready' = ready \cup {r \in regs : r.sock = s}
    /\ UNCHANGED <<leaderVars, followerVars, connVars, made, backlog, lready, sockOf,
                   regs, asked>>

(* The socket becomes ready again: by data, by room to write (EPOLLOUT),   *)
(* by an EPOLL_CTL_MOD, by a reset; if it is at the end of its stream,     *)
(* that end is reported again.                                             *)
Traffic(s) ==
    /\ \E r \in regs \ ready : r.sock = s
    /\ \/ reports[s] = 0 /\ UNCHANGED reports
       \/ /\ reports[s] \in 1..(MaxReports - 1)
          /\ reports' = [reports EXCEPT ![s] = @ + 1]
    /\ ready' = ready \cup {r \in regs : r.sock = s}
    /\ UNCHANGED <<leaderVars, followerVars, connVars, made, backlog, lready, sockOf,
                   behind, regs, asked>>

(* The server is gone. *)
Terminated == lpc = "gone" /\ UNCHANGED vars

Leader ==
    \/ start \/ LeaderWait \/ onAccept \/ AcceptFails \/ LeaderSwap
    \/ removeConnectionInLoop \/ LeaderRound
    \/ Unlisten \/ DestroyConn \/ clearFollowers \/ Join

Follower(f) ==
    \/ loop(f) \/ FollowerWait(f) \/ FollowerSwap(f) \/ quit(f) \/ FollowerRound(f)
    \/ \E c \in Conns :
          handleRead(f, c) \/ connectEstablished(f, c) \/ connectDestroyed(f, c)

Next ==
    \/ Leader \/ LeaderInterrupted
    \/ \E f \in Loops : Follower(f) \/ FollowerInterrupted(f)
    \/ shutdown \/ PeerConnects
    \/ \E s \in Conns : PeerHangsUp(s) \/ Traffic(s)
    \/ Terminated

Spec == Init /\ [][Next]_vars

(* Threads are scheduled and epoll_wait always returns: getExpire never    *)
(* gives it an unlimited timeout.                                          *)
FairSpec == Spec /\ WF_vars(Leader) /\ \A f \in Loops : WF_vars(Follower(f))

-----------------------------------------------------------------------------
(* Properties.                                                             *)

Functors(f) == Range(functors[f]) \cup Range(batch[f])

(* Objects that some shared_ptr refers to. *)
Alive ==
    Range(connpool) \cup Range(lfunctors) \cup Range(lbatch)
      \cup {g.conn : g \in UNION {Functors(f) : f \in Loops}}

(* The functors of a follower that have not run yet. *)
Queue(f) == SubSeq(batch[f], pos[f] + 1, Len(batch[f])) \o functors[f]

(* Where connectDestroyed is queued for c. *)
Destroyers(c) ==
    LET q == Queue(looper[c])
    IN  {i \in 1..Len(q) : q[i] = [op |-> "connectDestroyed", conn |-> c]}

(* The pool, or what the destructor has still to go through. *)
Kept == IF lpc \in {"destroy", "quit", "gone"} THEN todo ELSE Range(connpool)

TypeOK ==
    /\ lpc \in {"idle", "wait", "accept", "swap", "functors", "unlisten", "destroy",
                "quit", "gone"}
    /\ lflag \in BOOLEAN /\ lfunctors \in Seq(Conns) /\ lbatch \in Seq(Conns)
    /\ lpos \in Nat /\ connpool \in [Fds -> Conns \cup {None}]
    /\ currIndex \in Loops /\ todo \subseteq Conns
    /\ pc \in [Loops -> {"idle", "started", "wait", "events", "functors", "stopped"}]
    /\ flag \in [Loops -> BOOLEAN]
    /\ functors \in [Loops -> Seq(Functor)] /\ batch \in [Loops -> Seq(Functor)]
    /\ pos \in [Loops -> Nat] /\ revents \in [Loops -> SUBSET Conns]
    /\ status \in [Conns -> {"none", "CONNECTING", "CONNECTED", "DISCONNECTING",
                             "DISCONNECTED"}]
    /\ fd \in [Conns -> Fds \cup {None}] /\ looper \in [Conns -> Loops \cup {None}]
    /\ closes \in [Conns -> Nat] /\ removals \in [Conns -> Nat]
    /\ made \in 0..MaxConns /\ backlog \in Seq(Conns) /\ lready \in BOOLEAN
    /\ sockOf \in [Fds -> Conns \cup {None}]
    /\ reports \in [Conns -> 0..MaxReports] /\ behind \subseteq Conns
    /\ regs \subseteq Registration /\ ready \subseteq regs
    /\ asked \in BOOLEAN

(* No connection was removed twice, which takes two readings of the end of *)
(* one stream.  Nothing in the code prevents it, and from then on a        *)
(* removal may hit another connection.                                     *)
RemovedOnce == \A c \in Conns : removals[c] <= 1

(* As long as epoll holds a pointer to an object's trigger, something      *)
(* keeps the object, unless a connection was removed twice.                *)
RegisteredAlive == RemovedOnce => \A r \in regs : r.conn \in Alive

(* Every event that a loop is about to handle is for a live object.        *)
HandledAlive == \A f \in Loops : revents[f] \subseteq Alive

(* Until it has closed it, an object's descriptor stands for its own       *)
(* socket: no connection reads from, or closes, another one's.             *)
DescriptorOwned ==
    \A c \in Conns : status[c] \in {"CONNECTING", "CONNECTED", "DISCONNECTING"}
        => sockOf[fd[c]] = c

(* A connection that is not destroyed yet is either in the pool or has one *)
(* connectDestroyed on its way, never both and never two, as long as the   *)
(* server exists.                                                          *)
OneDestroyer ==
    lpc # "gone" => \A c \in Conns :
        status[c] # "none" =>
            /\ status[c] = "DISCONNECTED" => c \notin Kept
            /\ status[c] = "DISCONNECTED" \/ c \in Kept => Destroyers(c) = {}
            /\ status[c] # "DISCONNECTED" /\ c \notin Kept =>
                 \E i \in Destroyers(c) : Destroyers(c) = {i}

(* The user's close callback runs once for each connection, when it starts *)
(* to go down, whichever of peer and destructor comes first.               *)
ClosedOnce ==
    \A c \in Conns :
        closes[c] = (IF status[c] \in {"DISCONNECTING", "DISCONNECTED"} THEN 1 ELSE 0)

(* When the threads can be joined, a follower with no functor left over    *)
(* (it was not interrupted before its quit) has destroyed every connection *)
(* it was given.                                                           *)
CleanJoin ==
    Joinable => \A c \in Conns :
        (status[c] # "none" /\ functors[looper[c]] = <<>>) => status[c] = "DISCONNECTED"

(* The life of a connection, as long as none is removed twice: in the pool *)
(* or with one destruction on its way, closed once, in possession of its   *)
(* descriptor until the end, and destroyed when its follower can be joined. *)
ServerInv ==
    /\ TypeOK
    /\ RemovedOnce => OneDestroyer /\ ClosedOnce /\ DescriptorOwned /\ CleanJoin

(* The whole detail of threads, queues, pool and descriptors leaves users  *)
(* with the plain life of connections that ConnectionLife describes: in    *)
(* the order they were made they are given to the followers in turn, each  *)
(* follower establishes its own in order, and one that goes down has lost  *)
(* its peer or its server, has its close callback run once, and closes its *)
(* own socket; until one that goes down is removed again.                  *)
Life == INSTANCE ConnectionLife
    WITH state <- status, follower <- looper, open <- Range(sockOf) \ {None},
         gone <- {c \in Conns : reports[c] > 0},
         stopping <- lpc \in {"destroy", "quit", "gone"},
         again <- ~RemovedOnce

RefinesLife == Life!Spec

(* The end of the stream will be found: it is all that there is to read,   *)
(* and an event of the socket is still to come or to be handled.           *)
EndToBeFound(c) ==
    /\ reports[c] > 0 /\ c \notin behind
    /\ \/ status[c] = "CONNECTING"
       \/ \E r \in ready : r.conn = c
       \/ \E f \in Loops : c \in revents[f]

(* A connection whose peer has gone is taken down when an event shows the  *)
(* end of its stream, also when the server is shut down before the leader  *)
(* gets to remove it; unless connections are removed twice.                *)
PeerGoneCleaned ==
    \A c \in Conns : EndToBeFound(c) ~> (status[c] = "DISCONNECTED" \/ ~RemovedOnce)

(* A shutdown() of a running server lets the destructor finish: every      *)
(* follower gets to its quit and can be joined, and when no follower was   *)
(* interrupted and no connection removed twice, no descriptor is left open. *)
ShutdownCompletes ==
    asked ~> (lpc = "gone" /\ (RemovedOnce => \A d \in Fds : sockOf[d] = None))

(* With descriptors enough, every pending connection is accepted or the    *)
(* server stops listening: edge triggering loses no connection.            *)
BacklogServed == (backlog # <<>>) ~> (backlog = <<>>)
=============================================================================
