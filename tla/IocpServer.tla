----------------------------- MODULE IocpServer -----------------------------
(***************************************************************************)
(* The echo server over an I/O completion port (raw-examples/win32/iocp).  *)
(* main accepts connections and starts the first read of each; nThreads    *)
(* threads take completions from the port and start the next operation, a  *)
(* write after a read and a read after a write, with the one io_context of *)
(* the connection.  The thread that finds an operation failed closes the   *)
(* socket and deletes the context; when main has left its loop it posts    *)
(* one packet for each thread to end.                                      *)
(*                                                                         *)
(* The kernel completes an operation at any time, and in any way.          *)
(***************************************************************************)
EXTENDS Integers, Sequences, FiniteSets

CONSTANTS Conns, Threads

VARIABLES main,       \* "accept", "post", "join", "done"
          posted,     \* packets main has posted
          ctx,        \* connection -> its io_context: "none", "live", "deleted"
          socket,     \* connection -> "none", "open", "closed"
          opType,     \* connection -> "IO_READ", "IO_WRITE"
          inKernel,   \* the contexts with an operation outstanding
          port,       \* the packets in the completion port, oldest first
          th          \* thread -> where it is, and with which context

vars == <<main, posted, ctx, socket, opType, inKernel, port, th>>

NoConn == "none"
Exit == [kind |-> "exit", conn |-> NoConn]
Packets(c) == [kind : {"good", "failed", "partial"}, conn : {c}]
Get == [at |-> "get", conn |-> NoConn]

(* The program's argument makes main skip its loop. *)
Init ==
    /\ main \in {"accept", "post"} /\ posted = 0
    /\ ctx = [c \in Conns |-> "none"] /\ socket = [c \in Conns |-> "none"]
    /\ opType = [c \in Conns |-> "IO_READ"]
    /\ inKernel = {} /\ port = <<>>
    /\ th = [t \in Threads |-> Get]

(* Mutant: an operation that is pending is taken for a failed one. *)
MutFailed(result) == result # "done"

(* SOCKET_ERROR that is not ERROR_IO_PENDING. *)
Failed(result) == result = "error"

(* WSARecv or WSASend: the kernel has the context unless it refuses. *)
Start(c, result) ==
    inKernel' = IF result = "error" THEN inKernel ELSE inKernel \cup {c}

Results == {"done", "pending", "error"}

Accept(c, result) ==
    /\ main = "accept" /\ socket[c] = "none"
    /\ Start(c, result)
    /\ main' = IF Failed(result) THEN "post" ELSE "accept"
    /\ socket' = [socket EXCEPT ![c] = IF Failed(result) THEN "closed" ELSE "open"]
    /\ ctx' = [ctx EXCEPT ![c] = IF Failed(result) THEN "deleted" ELSE "live"]
    /\ UNCHANGED <<posted, opType, port, th>>

(* accept fails or the socket cannot be attached to the port: no context. *)
AcceptFails(c) ==
    /\ main = "accept" /\ socket[c] = "none"
    /\ main' = "post"
    /\ socket' = [socket EXCEPT ![c] = "closed"]
    /\ UNCHANGED <<posted, ctx, opType, inKernel, port, th>>

PostQueuedCompletionStatus ==
    /\ main = "post" /\ posted < Cardinality(Threads)
    /\ port' = Append(port, Exit)
    /\ posted' = posted + 1
    /\ UNCHANGED <<main, ctx, socket, opType, inKernel, th>>

Join ==
    /\ main = "post" /\ posted = Cardinality(Threads)
    /\ \A t \in Threads : th[t].at = "done"
    /\ main' = "done"
    /\ UNCHANGED <<posted, ctx, socket, opType, inKernel, port, th>>

(* An operation ends, well or not. *)
Complete(c) ==
    /\ c \in inKernel
    /\ inKernel' = inKernel \ {c}
    /\ \E packet \in Packets(c) : port' = Append(port, packet)
    /\ UNCHANGED <<main, posted, ctx, socket, opType, th>>

Take(t, kind) ==
    /\ th[t].at = "get" /\ port # <<>> /\ Head(port).kind = kind
    /\ port' = Tail(port)

Close(c) ==
    /\ socket' = [socket EXCEPT ![c] = "closed"]
    /\ ctx' = [ctx EXCEPT ![c] = "deleted"]

(* The operation failed and moved nothing. *)
Closing(t) ==
    /\ Take(t, "failed")
    /\ Close(Head(port).conn)
    /\ UNCHANGED <<main, posted, opType, inKernel, th>>

(* The operation failed after some bytes: the thread gives up and leaves   *)
(* the context; a packet of main's ends it as well.                        *)
Leaves(t) ==
    /\ Take(t, "partial") \/ Take(t, "exit")
    /\ th' = [th EXCEPT ![t].at = "done"]
    /\ UNCHANGED <<main, posted, ctx, socket, opType, inKernel>>

Takes(t) ==
    /\ Take(t, "good")
    /\ th' = [th EXCEPT ![t] = [at |-> "have", conn |-> Head(port).conn]]
    /\ UNCHANGED <<main, posted, ctx, socket, opType, inKernel>>

(* The next operation, in the other direction.  After WSASend the thread   *)
(* still prints what is in the context's buffer.                           *)
Continues(t, result) ==
    LET c == th[t].conn
    IN  /\ th[t].at = "have"
        /\ opType' = [opType EXCEPT ![c] = IF @ = "IO_READ" THEN "IO_WRITE" ELSE "IO_READ"]
        /\ Start(c, result)
        /\ IF Failed(result) THEN Close(c) ELSE UNCHANGED <<socket, ctx>>
        /\ th' = [th EXCEPT ![t] =
                    IF opType[c] = "IO_READ" /\ ~Failed(result)
                    THEN [at |-> "print", conn |-> c] ELSE Get]
        /\ UNCHANGED <<main, posted, port>>

Prints(t) ==
    /\ th[t].at = "print"
    /\ th' = [th EXCEPT ![t] = Get]
    /\ UNCHANGED <<main, posted, ctx, socket, opType, inKernel, port>>

routine(t) ==
    \/ Closing(t) \/ Leaves(t) \/ Takes(t) \/ Prints(t)
    \/ \E result \in Results : Continues(t, result)

Main ==
    \/ \E c \in Conns : AcceptFails(c) \/ \E result \in Results : Accept(c, result)
    \/ PostQueuedCompletionStatus \/ Join

Next == Main \/ (\E t \in Threads : routine(t)) \/ \E c \in Conns : Complete(c)

(* The hands a context can be in: the kernel's, the port's, a thread's. *)
Owners(c) ==
    Cardinality({x \in {c} : x \in inKernel})
    + Cardinality({i \in DOMAIN port : port[i].conn = c})
    + Cardinality({t \in Threads : th[t].at = "have" /\ th[t].conn = c})

(***************************************************************************)
(* A live context is in one hand at a time, or in none when a thread has   *)
(* given up on it, and a deleted one in none, so that no operation of the  *)
(* kernel and no thread that starts the next one ever meets a context that *)
(* was deleted; its socket is closed with it and not before.  (The print   *)
(* after WSASend is not among the hands: the context may be gone by then.) *)
(***************************************************************************)
OneOwner ==
    \A c \in Conns :
      /\ Owners(c) <= IF ctx[c] = "live" THEN 1 ELSE 0
      /\ ctx[c] = "live" <=> socket[c] = "open"
      /\ (\A t \in Threads : th[t].at # "done") /\ ctx[c] = "live" => Owners(c) = 1

(* main has left its loop. *)
Stopping == main # "accept"

Stopped == main = "done"
=============================================================================
