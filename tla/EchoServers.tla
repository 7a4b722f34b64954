---------------------------- MODULE EchoServers -----------------------------
(***************************************************************************)
(* Three blocking echo servers and their clients (raw-examples):           *)
(*   "select"  win32/select: many connections, select over the fd_set      *)
(*             mySet, which is walked by index while it changes;           *)
(*   "common"  win32/common: one connection after the other;               *)
(*   "unix"    linux/unixsock: the same over a local socket.               *)
(* A client (win32/client.cpp, linux/unixsock/client.cpp) sends a line,    *)
(* waits for the echo and starts over, until it is ended.                  *)
(*                                                                         *)
(* What is in flight to the server on a connection is a sequence of        *)
(* messages, ended by "fin" or "rst"; a message is its "data".  A system   *)
(* call of the server is one step, and an echo goes out with the recv that *)
(* got it.  A client that was reset or has gone makes send fail.           *)
(***************************************************************************)
EXTENDS Integers, Sequences, SequencesExt

CONSTANTS Clients,
          FD_SETSIZE,      \* sockets in mySet
          MaxSend          \* bound: lines of a client

VARIABLES kind,            \* which server
          client,          \* client -> at ("off", "idle", "waits", "gone"), sent
          backlog,         \* the clients that wait to be accepted
          inbox,           \* client -> what the server has not received yet
          mySet, tmpSet, i,  \* select's set, the ready sockets, the index
          connfd,          \* the one connection of the other servers
          at,              \* "select", "walk", "accept", "recv", "end"
          closed, dropped  \* the connections closed, and accepted but left alone

vars == <<kind, client, backlog, inbox, mySet, tmpSet, i, connfd, at, closed, dropped>>

Listen == "listenfd"
None == "none"

Init ==
    /\ kind \in {"select", "common", "unix"}
    /\ client = [c \in Clients |-> [at |-> "off", sent |-> 0]]
    /\ backlog = <<>> /\ inbox = [c \in Clients |-> <<>>]
    /\ mySet = <<Listen>> /\ tmpSet = {} /\ i = 1
    /\ connfd = None
    /\ at = IF kind = "select" THEN "select" ELSE "accept"
    /\ closed = {} /\ dropped = {}

Ended == at = "end"

server == <<kind, mySet, tmpSet, i, connfd, at, closed, dropped>>

Connect(c) ==
    /\ client[c].at = "off" /\ ~Ended
    /\ client' = [client EXCEPT ![c].at = "idle"]
    /\ backlog' = Append(backlog, c)
    /\ UNCHANGED <<inbox, server>>

Send(c) ==
    /\ client[c].at = "idle" /\ client[c].sent < MaxSend
    /\ client' = [client EXCEPT ![c] = [at |-> "waits", sent |-> client[c].sent + 1]]
    /\ inbox' = [inbox EXCEPT ![c] = Append(@, "data")]
    /\ UNCHANGED <<backlog, server>>

(* The client's program ends, in good order or with a reset, which also    *)
(* throws away what is in flight.                                          *)
Quit(c) ==
    /\ client[c].at \in {"idle", "waits"}
    /\ client' = [client EXCEPT ![c].at = "gone"]
    /\ \/ inbox' = [inbox EXCEPT ![c] = Append(@, "fin")]
       \/ inbox' = [inbox EXCEPT ![c] = <<"rst">>]
    /\ UNCHANGED <<backlog, server>>

(* The server's end closes the connection: the client's recv returns 0 or  *)
(* fails, and the client ends.                                             *)
ClientEnds(c) ==
    /\ client[c].at \in {"idle", "waits"} /\ (c \in closed \/ Ended)
    /\ client' = [client EXCEPT ![c].at = "gone"]
    /\ UNCHANGED <<backlog, inbox, server>>

(* The server received data from c and sends it back. *)
Echoed(c) == client' = [client EXCEPT ![c].at = IF @ = "waits" THEN "idle" ELSE @]

SendFails(c) == client[c].at = "gone"

Received(c) == inbox' = [inbox EXCEPT ![c] = Tail(@)]

-----------------------------------------------------------------------------
(* The server over select. *)

Ready == {s \in ToSet(mySet) : IF s = Listen THEN backlog # <<>> ELSE inbox[s] # <<>>}

(* A closed socket in the set makes select fail, which ends the server. *)
Select ==
    /\ kind = "select" /\ at = "select"
    /\ IF ToSet(mySet) \cap closed # {}
         THEN at' = "end" /\ UNCHANGED <<tmpSet, i>>
         ELSE Ready # {} /\ tmpSet' = Ready /\ i' = 1 /\ at' = "walk"
    /\ UNCHANGED <<kind, client, backlog, inbox, mySet, connfd, closed, dropped>>

At(s) == at = "walk" /\ i <= Len(mySet) /\ mySet[i] = s

Walked ==
    /\ at = "walk" /\ i > Len(mySet)
    /\ at' = "select" /\ tmpSet' = {}
    /\ UNCHANGED <<kind, client, backlog, inbox, mySet, i, connfd, closed, dropped>>

Passed ==
    /\ at = "walk" /\ i <= Len(mySet) /\ mySet[i] \notin tmpSet
    /\ i' = i + 1
    /\ UNCHANGED <<kind, client, backlog, inbox, mySet, tmpSet, connfd, at, closed, dropped>>

(* Mutant: the new connection is not put into the set. *)
MutAdmitted(c) == mySet

Admitted(c) == Append(mySet, c)

(* A connection too many is neither kept nor closed. *)
Accept ==
    /\ At(Listen) /\ Listen \in tmpSet
    /\ IF Len(mySet) = FD_SETSIZE
         THEN dropped' = dropped \cup {Head(backlog)} /\ UNCHANGED mySet
         ELSE mySet' = Admitted(Head(backlog)) /\ UNCHANGED dropped
    /\ backlog' = Tail(backlog)
    /\ i' = i + 1
    /\ UNCHANGED <<kind, client, inbox, tmpSet, connfd, at, closed>>

(* The client went away before it was accepted; the walk ends. *)
AcceptFails ==
    /\ At(Listen) /\ Listen \in tmpSet /\ client[Head(backlog)].at = "gone"
    /\ backlog' = Tail(backlog) /\ at' = "select" /\ tmpSet' = {}
    /\ UNCHANGED <<kind, client, inbox, mySet, i, connfd, closed, dropped>>

Echo(c) ==
    /\ At(c) /\ c \in tmpSet /\ Head(inbox[c]) = "data" /\ Echoed(c)
    /\ Received(c) /\ i' = i + 1
    /\ UNCHANGED <<kind, backlog, mySet, tmpSet, connfd, at, closed, dropped>>

(* FD_CLR moves the sockets behind one place forward, and the walk goes on *)
(* with the next index: one of them is passed over.                        *)
Reset(c) ==
    /\ At(c) /\ c \in tmpSet /\ Head(inbox[c]) = "rst"
    /\ Received(c) /\ closed' = closed \cup {c}
    /\ mySet' = Remove(mySet, c) /\ i' = i + 1
    /\ UNCHANGED <<kind, client, backlog, tmpSet, connfd, at, dropped>>

(* recv returned 0, or send failed: the socket is closed, stays in mySet,  *)
(* and the walk ends.                                                      *)
Fails(c) ==
    /\ At(c) /\ c \in tmpSet
    /\ \/ Head(inbox[c]) = "fin"
       \/ Head(inbox[c]) = "data" /\ SendFails(c)
    /\ Received(c) /\ closed' = closed \cup {c}
    /\ at' = "select" /\ tmpSet' = {}
    /\ UNCHANGED <<kind, client, backlog, mySet, i, connfd, dropped>>

SelectServer ==
    \/ Select \/ Walked \/ Passed \/ Accept \/ AcceptFails
    \/ \E c \in Clients : Echo(c) \/ Reset(c) \/ Fails(c)

-----------------------------------------------------------------------------
(* The servers with one connection. *)

AcceptOne ==
    /\ at = "accept" /\ backlog # <<>>
    /\ connfd' = Head(backlog) /\ backlog' = Tail(backlog) /\ at' = "recv"
    /\ UNCHANGED <<kind, client, inbox, mySet, tmpSet, i, closed, dropped>>

AcceptOneFails ==
    /\ at = "accept" /\ backlog # <<>> /\ client[Head(backlog)].at = "gone"
    /\ at' = "end" /\ backlog' = Tail(backlog)
    /\ UNCHANGED <<kind, client, inbox, mySet, tmpSet, i, connfd, closed, dropped>>

EchoOne ==
    /\ at = "recv" /\ inbox[connfd] # <<>> /\ Head(inbox[connfd]) = "data"
    /\ Echoed(connfd) /\ Received(connfd)
    /\ UNCHANGED <<kind, backlog, mySet, tmpSet, i, connfd, at, closed, dropped>>

(* What the server takes for the end of the connection, and goes on: a     *)
(* reset on Windows, the end of the stream on Linux.                       *)
Farewell == IF kind = "unix" THEN "fin" ELSE "rst"

CloseOne ==
    /\ at = "recv" /\ inbox[connfd] # <<>> /\ Head(inbox[connfd]) = Farewell
    /\ Received(connfd) /\ closed' = closed \cup {connfd}
    /\ connfd' = None /\ at' = "accept"
    /\ UNCHANGED <<kind, client, backlog, mySet, tmpSet, i, dropped>>

(* The other of the two, and a send that fails, end the server. *)
FailOne ==
    /\ at = "recv" /\ inbox[connfd] # <<>>
    /\ \/ Head(inbox[connfd]) \in {"fin", "rst"} \ {Farewell}
       \/ Head(inbox[connfd]) = "data" /\ SendFails(connfd)
    /\ Received(connfd) /\ closed' = closed \cup {connfd}
    /\ connfd' = None /\ at' = "end"
    /\ UNCHANGED <<kind, client, backlog, mySet, tmpSet, i, dropped>>

(* SIGINT ends the unix server. *)
onSignal ==
    /\ kind = "unix" /\ at \in {"accept", "recv"}
    /\ at' = "end"
    /\ UNCHANGED <<kind, client, backlog, inbox, mySet, tmpSet, i, connfd, closed, dropped>>

OneServer == AcceptOne \/ AcceptOneFails \/ EchoOne \/ CloseOne \/ FailOne

Server == SelectServer \/ OneServer

Next ==
    \/ Server \/ onSignal
    \/ \E c \in Clients : Connect(c) \/ Send(c) \/ Quit(c) \/ ClientEnds(c)

(***************************************************************************)
(* Who waits for an echo from a server that has accepted it and keeps it:  *)
(* not the one the select server dropped (its set was full), which nobody  *)
(* will ever answer, and not those that queue for the only connection.     *)
(***************************************************************************)
Waits(c) ==
    client[c].at = "waits" /\ ~Ended /\ c \notin dropped
    /\ (kind = "select" \/ c = connfd)
=============================================================================
