------------------------------- MODULE MCNet --------------------------------
(***************************************************************************)
(* The timer wheels, the timerfd queue and the servers of raw-examples,    *)
(* and TcpClient with the programs of examples/rand64k, model-checked side *)
(* by side: program names the one that runs, the others stay where they    *)
(* are.                                                                    *)
(***************************************************************************)
EXTENDS Integers, Sequences, FiniteSets

CONSTANTS SlotNum, tick, WheelTimers, WheelIds, WheelDelays, MaxTicks,
          TVR_SIZE, TVN_SIZE, Nodes, NodeDelays, NodeIntervals, MaxJiffies,
          FdTimers, FdDelays, FdIntervals, Wrap, MaxTime,
          Conns, Threads,
          Clients, FD_SETSIZE, MaxSend,
          Total, DataLens

ASSUME NetAssumption ==
    /\ "none" \notin Conns
    /\ SlotNum \in Nat \ {0} /\ tick \in Nat \ {0} /\ WheelDelays \subseteq Nat
    /\ 0 \notin WheelIds /\ "end" \notin WheelTimers    \* neither is an address
    /\ TVR_SIZE \in Nat \ {0} /\ TVN_SIZE \in Nat \ {0}
    /\ {"null", "freed"} \cap Nodes = {}
    /\ FdTimers \subseteq Nat /\ FdDelays \subseteq Nat /\ FdIntervals \subseteq Nat
    /\ Wrap \in Nat \ {0, 1} /\ Total \in Nat /\ DataLens \subseteq Nat \ {0}

VARIABLES program,
          wheelNow, slots, wheelRh, tim, wheelAdded, wheelAt, it, tmpIt, wheelCancel,
          jiffies, tw, node, rmNode, nodeAt, level, p, q, nodeCancel,
          now, tmqueue, tm, added, fd, fired, rhTimerId, fdAt, currtime, mayCancel, late,
          beyond, main, posted, ctx, socket, opType, inKernel, port, th,
          kind, client, backlog, inbox, mySet, tmpSet, i, connfd, echoAt, closed, dropped,
          at, loopFlag, cnt, status, connected, remainSize, dataLen, timers, closes, mayInt,
          wire, input, got, peer, acks, ready, rst, split

Wheel   == INSTANCE TimingWheel WITH Timers <- WheelTimers, Ids <- WheelIds,
             Delays <- WheelDelays, now <- wheelNow, rhTimerId <- wheelRh, added <- wheelAdded,
             at <- wheelAt, mayCancel <- wheelCancel
Manager == INSTANCE TimerManager WITH Delays <- NodeDelays, Intervals <- NodeIntervals,
             at <- nodeAt, mayCancel <- nodeCancel
FdQueue == INSTANCE FdTimerQueue WITH Timers <- FdTimers, Delays <- FdDelays,
             Intervals <- FdIntervals, ready <- fired, at <- fdAt
Iocp    == INSTANCE IocpServer
Echo    == INSTANCE EchoServers WITH at <- echoAt
Rand    == INSTANCE Rand64k

(* Delays and intervals have 32 bits, and the five wheels reach that far.  *)
ASSUME ReachAssumption == NodeDelays \cup NodeIntervals \subseteq 0..(Manager!Unit(6) - 1)

wheelVars   == <<wheelNow, slots, wheelRh, tim, wheelAdded, wheelAt, it, tmpIt, wheelCancel>>
managerVars == <<jiffies, tw, node, rmNode, nodeAt, level, p, q, nodeCancel>>
fdVars      == <<now, tmqueue, tm, added, fd, fired, rhTimerId, fdAt, currtime, mayCancel, late,
                 beyond>>
iocpVars    == <<main, posted, ctx, socket, opType, inKernel, port, th>>
echoVars    == <<kind, client, backlog, inbox, mySet, tmpSet, i, connfd, echoAt, closed, dropped>>
randVars    == <<at, loopFlag, cnt, status, connected, remainSize, dataLen, timers, closes,
                 mayInt, wire, input, got, peer, acks, ready, rst, split>>

vars == <<program, wheelVars, managerVars, fdVars, iocpVars, echoVars, randVars>>

Init ==
    /\ program \in {"Wheel", "Manager", "FdQueue", "Iocp", "Echo", "Rand"}
    /\ Wheel!Init /\ Manager!Init /\ FdQueue!Init /\ Iocp!Init /\ Echo!Init /\ Rand!Init
    \* a parameter of a program that does not run has one value
    /\ program # "Echo" => kind = "unix"
    /\ program # "Iocp" => main = "accept"

Next ==
    /\ UNCHANGED program
    /\ \/ /\ program = "Wheel" /\ Wheel!Next
          /\ UNCHANGED <<managerVars, fdVars, iocpVars, echoVars, randVars>>
       \/ /\ program = "Manager" /\ Manager!Next
          /\ UNCHANGED <<wheelVars, fdVars, iocpVars, echoVars, randVars>>
       \/ /\ program = "FdQueue" /\ FdQueue!Next
          /\ UNCHANGED <<wheelVars, managerVars, iocpVars, echoVars, randVars>>
       \/ /\ program = "Iocp" /\ Iocp!Next
          /\ UNCHANGED <<wheelVars, managerVars, fdVars, echoVars, randVars>>
       \/ /\ program = "Echo" /\ Echo!Next
          /\ UNCHANGED <<wheelVars, managerVars, fdVars, iocpVars, randVars>>
       \/ /\ program = "Rand" /\ Rand!Next
          /\ UNCHANGED <<wheelVars, managerVars, fdVars, iocpVars, echoVars>>

(* The threads of the servers keep running, and so do sender, receiver and *)
(* the network between them.                                               *)
Fairness ==
    /\ WF_iocpVars(program = "Iocp" /\ (Iocp!PostQueuedCompletionStatus \/ Iocp!Join))
    /\ \A t \in Threads : WF_iocpVars(program = "Iocp" /\ Iocp!routine(t))
    /\ WF_echoVars(program = "Echo" /\ Echo!Server)
    /\ WF_randVars(program = "Rand" /\ Rand!Sender)
    /\ WF_randVars(program = "Rand" /\ Rand!Receiver)

Spec == Init /\ [][Next]_vars /\ Fairness

-----------------------------------------------------------------------------
(* TimingWheel and TimerManager: a timer runs at the call of handle() it   *)
(* was set for, and at no other, but for the timers that MayBeLate and     *)
(* turns name.  Timers have ids of their own; nothing is said once a       *)
(* callback has cancelled the timer that comes next ("broken").            *)
WheelsOnTime == Wheel!OnTime /\ Manager!OnTime

(* Timers over a timerfd: the descriptor is armed for the first timer;     *)
(* only the first wait for a delay of 2^32 microseconds or more is longer. *)
TimerfdArmed == FdQueue!Armed

(* Completion port: a live context is in one hand, and neither the kernel, *)
(* the port nor a thread about to start an operation has a deleted one.    *)
(* Nothing is said of the print after WSASend, which may read one.         *)
ContextOwned == Iocp!OneOwner

(* rand64k: onClose is called once, and the sender's account is right.     *)
TransferAccounted == Rand!Accounted

(* Who waits for a server to go on: in Echo, client c; else, whoever has   *)
(* stopped the completion-port server or started the sender.               *)
Waiting(c) ==
    \/ program = "Echo" /\ Echo!Waits(c)
    \/ program = "Iocp" /\ Iocp!Stopping /\ ~Iocp!Stopped
    \/ program = "Rand" /\ ~Rand!Through

(* Nobody waits for ever: a client that an echo server has accepted and    *)
(* keeps gets its echo or is cut off, the completion-port server ends once *)
(* it is told to, and the sender of rand64k gets through unless a package  *)
(* was split.  A client that select's server accepts while its set is full *)
(* is not meant: it is dropped, its socket stays open, and it may wait for *)
(* ever.                                                                   *)
NobodyStuck == \A c \in Clients : Waiting(c) ~> ~Waiting(c)
=============================================================================
