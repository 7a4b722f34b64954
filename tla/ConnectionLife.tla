--------------------------- MODULE ConnectionLife ---------------------------
(***************************************************************************)
(* What a pqnet::TcpServer promises its users about connections, without   *)
(* its threads, queues, pools and descriptors.                             *)
(*                                                                         *)
(* Connections are accepted in the order they were made and given to the   *)
(* followers in turn; a follower establishes its connections in that order *)
(* (the connect callback).  A connection goes down because its peer has    *)
(* gone, or because the server is stopping, and then for good: the close   *)
(* callback runs once, in the very step that takes it down, and its own    *)
(* socket is closed in the step that ends it, and no other socket ever.    *)
(*                                                                         *)
(* The promise ends when the server is told again that the peer of a       *)
(* connection that is going down already has gone: it may then take down   *)
(* another one instead.                                                    *)
(***************************************************************************)
EXTENDS Integers

CONSTANTS Followers,    \* number of follower loops
          MaxConns      \* bound: connections that peers make

Conns == 1..MaxConns
Nobody == 0

VARIABLES state,        \* of each connection
          follower,     \* that it was given to
          closes,       \* how often the close callback ran for it
          open,         \* sockets that the server holds
          gone,         \* connections whose peer has hung up
          stopping,     \* the server is being destroyed
          again         \* the server was told again about a peer that has gone

vars == <<state, follower, closes, open, gone, stopping, again>>

Init ==
    /\ state = [c \in Conns |-> "none"]
    /\ follower = [c \in Conns |-> Nobody]
    /\ closes = [c \in Conns |-> 0]
    /\ open = {} /\ gone = {} /\ stopping = FALSE /\ again = FALSE

Becomes(c, s) == state' = [state EXCEPT ![c] = s]

Turn(c) == ((c - 1) % Followers) + 1

Accept(c) ==
    /\ ~stopping /\ state[c] = "none"
    /\ \A d \in Conns : d < c => state[d] # "none"
    /\ Becomes(c, "CONNECTING")
    /\ follower' = [follower EXCEPT ![c] = Turn(c)]
    /\ open' = open \cup {c}
    /\ UNCHANGED <<closes, gone, stopping, again>>

Establish(c) ==
    /\ state[c] = "CONNECTING"
    /\ \A d \in Conns : d < c /\ follower[d] = follower[c] => state[d] # "CONNECTING"
    /\ Becomes(c, "CONNECTED")
    /\ UNCHANGED <<follower, closes, open, gone, stopping, again>>

PeerGone(c) ==
    /\ gone' = gone \cup {c}
    /\ UNCHANGED <<state, follower, closes, open, stopping, again>>

Leave(c) ==
    /\ state[c] = "CONNECTED" /\ c \in gone
    /\ Becomes(c, "DISCONNECTING")
    /\ closes' = [closes EXCEPT ![c] = @ + 1]
    /\ UNCHANGED <<follower, open, gone, stopping, again>>

(* A connection that is up is ended by the destructor only. *)
End(c) ==
    /\ \/ state[c] = "DISCONNECTING" /\ UNCHANGED closes
       \/ /\ state[c] = "CONNECTED" /\ stopping
          /\ closes' = [closes EXCEPT ![c] = @ + 1]
    /\ Becomes(c, "DISCONNECTED")
    /\ open' = open \ {c}
    /\ UNCHANGED <<follower, gone, stopping, again>>

Stop ==
    /\ stopping' = TRUE
    /\ UNCHANGED <<state, follower, closes, open, gone, again>>

(* Told again about a connection that is going down. *)
Again(c) ==
    /\ state[c] = "DISCONNECTING" /\ c \in gone
    /\ again' = TRUE
    /\ UNCHANGED <<state, follower, closes, open, gone, stopping>>

(* After that nothing is promised. *)
Anything == again /\ again'

Next ==
    \/ \E c \in Conns :
          Accept(c) \/ Establish(c) \/ PeerGone(c) \/ Leave(c) \/ End(c) \/ Again(c)
    \/ Stop
    \/ Anything

Spec == Init /\ [][Next]_vars
=============================================================================
