---------------------------- MODULE RequestService ----------------------------
(***************************************************************************)
(* What the server promises the clients of one generation, without queues, *)
(* rings, batches or iterations: requests are executed one at a time, each *)
(* client's in the order they were sent and none twice; a client that is   *)
(* waiting for something, or has left, executes nothing; and while a       *)
(* client has grabbed the server, nobody else does.  A grab ends only by   *)
(* its owner's own request or with the owner.                              *)
(***************************************************************************)
EXTENDS Naturals

CONSTANTS Client, NoClient

VARIABLES connected,  \* the clients that are still served
          issued,     \* how many requests a client has sent
          executed,   \* how many of them were executed
          owner,      \* who has grabbed the server
          blocked     \* waiting for backend work, a SYNC condition or RECORD

vars == <<connected, issued, executed, owner, blocked>>

Init ==
    /\ connected = Client
    /\ issued = [c \in Client |-> 0]
    /\ executed = [c \in Client |-> 0]
    /\ owner = NoClient
    /\ blocked = {}

Issue(c) ==
    /\ issued' = [issued EXCEPT ![c] = @ + 1]
    /\ UNCHANGED <<connected, executed, owner, blocked>>

\* The next request of c can be executed.
Served(c) ==
    /\ c \in connected \ blocked
    /\ owner \in {NoClient, c}
    /\ executed[c] < issued[c]

\* It may grab or ungrab the server, block c, unblock others, close
\* connections.
Execute(c) ==
    /\ Served(c)
    /\ executed' = [executed EXCEPT ![c] = @ + 1]
    /\ connected' \in SUBSET connected
    /\ owner' \in {NoClient} \cup ({c} \cap connected')
    /\ blocked' \in SUBSET (blocked \cup {c})
    /\ UNCHANGED issued

\* Clients leave, or the server clears up after some that left, or what a
\* client waited for happens.
Depart ==
    /\ connected' \in SUBSET connected
    /\ owner' # owner => owner' = NoClient /\ owner \notin connected'
    /\ blocked' \in SUBSET blocked
    /\ UNCHANGED <<issued, executed>>

Next == Depart \/ \E c \in Client : Issue(c) \/ Execute(c)

Spec == Init /\ [][Next]_vars

\* A client whose next request can be executed does not stay so for ever
\* without a request of it being executed.
Progress == \A c \in Client : []<>~Served(c) \/ []<><<Execute(c)>>_vars
===============================================================================
