-------------------------- MODULE FairRequestQueue --------------------------
(***************************************************************************)
(* The data structures a request lies in between its arrival at the core   *)
(* loop and its dispatch (core_loop/run.rs):                               *)
(*                                                                         *)
(*  - FairRequestQueue: a FIFO per client (by_client) behind a round-robin *)
(*    ring (ready) of the clients that have something queued;              *)
(*  - server_grab_waiters: requests popped while another client owned      *)
(*    GrabServer.                                                          *)
(*                                                                         *)
(* A request is its sequence number.  by_client is a total function here,  *)
(* an absent entry being the empty sequence.  The code keeps the waiters   *)
(* in one deque and groups it by client, in first-seen order, when it      *)
(* releases them, and reads it nowhere else; the model keeps it grouped:   *)
(* one sequence per client and the first-seen order of the clients.        *)
(***************************************************************************)
EXTENDS Integers, Sequences

CONSTANT Client     \* the connections (ClientId)

Empty == [c \in Client |-> << >>]

\* The clients in a ring or an order.
Members(r) == {r[i] : i \in DOMAIN r}

\* push_back: the client joins the ring only if nothing of it was queued.
PushBack(q, c, m) == [q EXCEPT ![c] = Append(@, m)]

\* Mutant: every push adds the client to the ring.
RingAfterPushAlways(q, r, c) == Append(r, c)

RingAfterPush(q, r, c) == IF q[c] = << >> THEN Append(r, c) ELSE r

(***************************************************************************)
(* pop_front_if: the place in the ring of the client whose turn it is: the *)
(* first runnable one.  The blocked clients it passes over go to the back, *)
(* in order, and the chosen client behind them if it has more queued.      *)
(***************************************************************************)
Turns(r, Run) == {i \in DOMAIN r : /\ r[i] \in Run
                                   /\ \A j \in 1..(i - 1) : r[j] \notin Run}

PopFront(q, c) == [q EXCEPT ![c] = Tail(@)]

RingAfterPop(q, r, i) ==
    SubSeq(r, i + 1, Len(r)) \o SubSeq(r, 1, i - 1)
        \o (IF Tail(q[r[i]]) = << >> THEN << >> ELSE <<r[i]>>)

(***************************************************************************)
(* release_server_grab_waiters and prepend_client: every client's waiters  *)
(* go ahead of what is still queued for it; a client with nothing queued   *)
(* joins the back of the ring, in the order in which it first had to wait. *)
(* Newcomers has exactly one element.                                      *)
(***************************************************************************)
\* Mutant: the waiters go behind what is queued.
RestoredBehind(q, w) == [c \in Client |-> q[c] \o w[c]]

Restored(q, w) == [c \in Client |-> w[c] \o q[c]]

Newcomers(q, order) ==
    LET S == {c \in Members(order) : q[c] = << >>}
    IN  {p \in UNION {[1..n -> S] : n \in 0..Len(order)} :
            /\ Members(p) = S
            /\ \A i, j \in DOMAIN p : i < j =>
                  \E a, b \in DOMAIN order : a < b /\ order[a] = p[i] /\ order[b] = p[j]}

\* The clients with something in their queue.
Occupied(q) == {c \in Client : q[c] # << >>}

\* r lists the members of S, each once.
Lists(r, S) ==
    /\ Members(r) = S
    /\ \A i, j \in DOMAIN r : i # j => r[i] # r[j]

\* The ring holds exactly the clients with something queued, each once.
RingMatches(q, r) == Lists(r, Occupied(q))
=============================================================================
