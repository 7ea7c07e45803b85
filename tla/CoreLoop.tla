------------------------------- MODULE CoreLoop -------------------------------
(***************************************************************************)
(* The request path of the single-threaded core loop (core_loop/run.rs) in *)
(* one server generation: reader threads put requests on the channel, the  *)
(* loop moves them to the fair queue, and dispatches them round-robin      *)
(* under a budget per iteration.  A dispatched request may grab the        *)
(* server, start backend work that parks its client, suspend its client,   *)
(* close its own connection or kill another one.  A write can fail at any  *)
(* time.                                                                   *)
(*                                                                         *)
(* One pass through the loop is                                            *)
(*   poll -> backlog -> events [-> notify [-> vt -> notify] -> drain       *)
(*        -> events] -> tail -> poll                                       *)
(*                                                                         *)
(* The channel is one FIFO in the code.  It is kept here as one FIFO per   *)
(* reader: order between producers is a race the code gives no meaning to, *)
(* and the merge chosen by Receive is arbitrary.                           *)
(***************************************************************************)
EXTENDS FairRequestQueue

CONSTANTS NoClient,     \* server_grab_owner = None
          MaxSequence,  \* bound: requests a client ever sends
          Window,       \* MAX_IN_FLIGHT_BYTES_PER_CLIENT, in requests of one size
          MaxRequests,  \* MAX_REQUESTS_PER_ITER
          Effects,      \* what request handlers do in this instance
          VtSwitching   \* backend.vt_switching_armed()

AllEffects == {"plain", "grab", "await", "pending", "quit", "kill"}

ASSUME CoreLoopAssumption ==
    /\ NoClient \notin Client
    /\ MaxSequence \in Nat
    /\ Window \in Nat \ {0}
    /\ MaxRequests \in Nat \ {0}
    /\ Effects \subseteq AllEffects
    /\ VtSwitching \in BOOLEAN

VARIABLES
    \* reader threads (client_reader.rs) and the channel to the core
    reader,       \* is the thread of this client running?
    sent,         \* the sequence number the reader assigned last
    outstanding,  \* ReaderIngressWindow.outstanding_bytes
    channel,      \* sent to the core, not yet received
    vt,           \* where the VtRelease message is
    \* the core's connection state (ServerState, PendingBackendRequests)
    clients,      \* state.clients
    last,         \* last_sequence: the request a client had dispatched last
    grab,         \* server_grab_owner
    parked,       \* clients with a pending backend request
    held,         \* clients suspended by SYNC Await or blocked by RECORD
    failed,       \* clients with write_failed
    \* loop-local state
    pc, notified,
    batch,        \* channel_messages: the messages this NOTIFY collected
    queue, ready, \* deferred_requests
    waiting, waitOrder,  \* server_grab_waiters
    budget,       \* request_budget
    clock         \* "fresh": no request since drain_start; "late": past the deadline

readerVars == <<reader, sent, outstanding>>
linkVars   == <<channel, vt>>
connVars   == <<clients, grab, parked, held, failed>>
queueVars  == <<queue, ready, waiting, waitOrder>>
loopVars   == <<pc, notified, batch, budget, clock>>
vars == <<readerVars, linkVars, connVars, last, queueVars, loopVars>>

\* The reader's last message, ClientDisconnected; every other one is a
\* request's sequence number, counted from 1.
Eof == 0

TypeOK ==
    /\ reader \in [Client -> BOOLEAN]
    /\ sent \in [Client -> Nat]
    /\ outstanding \in [Client -> Int]
    /\ channel \in [Client -> Seq(Nat)]
    /\ vt \in {"idle", "sent", "batched", "done"}
    /\ clients \subseteq Client
    /\ last \in [Client -> Nat]
    /\ grab \in clients \cup {NoClient}
    /\ parked \subseteq Client
    /\ held \subseteq clients
    /\ failed \subseteq clients
    /\ pc \in {"poll", "backlog", "events", "notify", "vt", "drain", "tail"}
    /\ notified \in BOOLEAN
    /\ batch \in [Client -> Seq(Nat)]
    /\ queue \in [Client -> Seq(Nat)]
    /\ ready \in Seq(Client)
    /\ waiting \in [Client -> Seq(Nat)]
    /\ waitOrder \in Seq(Client)
    /\ budget \in 0..MaxRequests
    /\ clock \in {"fresh", "running", "late"}

\* Every client has completed its setup and sent nothing yet.
Init ==
    /\ reader = [c \in Client |-> TRUE]
    /\ sent = [c \in Client |-> 0]
    /\ outstanding = [c \in Client |-> 0]
    /\ channel = Empty
    /\ vt = "idle"
    /\ clients = Client
    /\ last = [c \in Client |-> 0]
    /\ grab = NoClient
    /\ parked = {}
    /\ held = {}
    /\ failed = {}
    /\ pc = "poll"
    /\ notified = FALSE
    /\ batch = Empty
    /\ queue = Empty
    /\ ready = << >>
    /\ waiting = Empty
    /\ waitOrder = << >>
    /\ budget = MaxRequests
    /\ clock = "fresh"
-------------------------------------------------------------------------------
(***************************************************************************)
(* Reader threads                                                          *)
(***************************************************************************)

\* The reader frames a request while its window is open.  It does not know
\* whether the core has dropped the client meanwhile.
ReaderSend(c) ==
    /\ reader[c]
    /\ outstanding[c] < Window
    /\ sent[c] < MaxSequence
    /\ sent' = [sent EXCEPT ![c] = @ + 1]
    /\ outstanding' = [outstanding EXCEPT ![c] = @ + 1]
    /\ channel' = [channel EXCEPT ![c] = Append(@, sent[c] + 1)]
    /\ UNCHANGED <<reader, vt, connVars, last, queueVars, loopVars>>

\* The peer closed the socket, or the core shut it down.
ReaderEof(c) ==
    /\ reader[c]
    /\ reader' = [reader EXCEPT ![c] = FALSE]
    /\ channel' = [channel EXCEPT ![c] = Append(@, Eof)]
    /\ UNCHANGED <<sent, outstanding, vt, connVars, last, queueVars, loopVars>>

\* ReaderControl::Shutdown, sent by process_disconnect.
ReaderShutdown(c) ==
    /\ reader[c]
    /\ c \notin clients
    /\ reader' = [reader EXCEPT ![c] = FALSE]
    /\ UNCHANGED <<sent, outstanding, linkVars, connVars, last, queueVars, loopVars>>

\* The VT signal thread posts VtRelease (bound: once).
VtSignal ==
    /\ VtSwitching
    /\ vt = "idle"
    /\ vt' = "sent"
    /\ UNCHANGED <<readerVars, channel, connVars, last, queueVars, loopVars>>
-------------------------------------------------------------------------------
(***************************************************************************)
(* Connection state changes the handlers share                             *)
(***************************************************************************)

\* Mutant: the server grab outlives its owner.
ProcessDisconnectKeepsGrab(c) ==
    /\ clients' = clients \ {c}
    /\ held' \in IF c \in clients THEN {held \ ({c} \cup S) : S \in SUBSET held} ELSE {held}
    /\ failed' = failed \ {c}
    /\ UNCHANGED grab

\* process_disconnect: idempotent; the departing client loses the server
\* grab, and suspensions waiting on something it owned end.
ProcessDisconnect(c) ==
    /\ clients' = clients \ {c}
    /\ grab' = IF grab = c THEN NoClient ELSE grab
    /\ held' \in IF c \in clients THEN {held \ ({c} \cup S) : S \in SUBSET held} ELSE {held}
    /\ failed' = failed \ {c}

\* disconnect_with_pending_cleanup also cancels the client's backend work.
DisconnectWithPendingCleanup(c) ==
    /\ ProcessDisconnect(c)
    /\ parked' = parked \ {c}

\* grant_request_credit: to a connected client's reader only.
GrantRequestCredit(c) ==
    outstanding' = IF c \in clients THEN [outstanding EXCEPT ![c] = @ - 1] ELSE outstanding

ReleaseServerGrabWaiters(q, r) ==
    /\ queue' = Restored(q, waiting)
    /\ \E p \in Newcomers(q, waitOrder) : ready' = r \o p
    /\ waiting' = Empty
    /\ waitOrder' = << >>

\* After every message and every request: free the waiters if nobody has
\* the grab any more.
ReleaseIfUngrabbed(q, r) ==
    \/ grab' = NoClient /\ ReleaseServerGrabWaiters(q, r)
    \/ grab' # NoClient /\ queue' = q /\ ready' = r /\ UNCHANGED <<waiting, waitOrder>>
-------------------------------------------------------------------------------
(***************************************************************************)
(* Dispatching one request                                                 *)
(***************************************************************************)

\* Mutant: a client whose connection is broken goes on executing.
RunnableWhileBroken == Client \ (parked \cup held)

\* client_runnable.  A client that is gone is runnable: its requests are
\* popped to be dropped.
Runnable == Client \ (parked \cup held \cup failed)

\* Mutant: only the client at the front of the ring counts.
HasRunnableFront == ready # << >> /\ ready[1] \in Runnable

HasRunnable == \E i \in DOMAIN ready : ready[i] \in Runnable

BudgetExhausted == budget = 0 \/ clock = "late"

HandlePlain(c) ==
    /\ "plain" \in Effects
    /\ GrantRequestCredit(c)
    /\ UNCHANGED connVars

HandleGrabServer(c) ==
    /\ "grab" \in Effects
    /\ grab' = c
    /\ GrantRequestCredit(c)
    /\ UNCHANGED <<clients, parked, held, failed>>

HandleUngrabServer(c) ==
    /\ "grab" \in Effects
    /\ grab = c
    /\ grab' = NoClient
    /\ GrantRequestCredit(c)
    /\ UNCHANGED <<clients, parked, held, failed>>

\* SYNC Await / AwaitFence, or RECORD EnableContext: the request is done,
\* and the client's next one waits.
HandleAwait(c) ==
    /\ "await" \in Effects
    /\ held' = held \cup {c}
    /\ GrantRequestCredit(c)
    /\ UNCHANGED <<clients, grab, parked, failed>>

\* A counter change, a triggered fence or a disabled context.
HandleResume(c) ==
    /\ "await" \in Effects
    /\ \E d \in held : held' = held \ {d}
    /\ GrantRequestCredit(c)
    /\ UNCHANGED <<clients, grab, parked, failed>>

\* Mutant: credit comes back at once, and again with the result.
HandlePendingCredited(c) ==
    /\ "pending" \in Effects
    /\ parked' = parked \cup {c}
    /\ GrantRequestCredit(c)
    /\ UNCHANGED <<clients, grab, held, failed>>

\* PendingCrtcConfig, PendingDri3Export or PendingXiConfig: no credit until
\* the result is in.
HandlePending(c) ==
    /\ "pending" \in Effects
    /\ parked' = parked \cup {c}
    /\ UNCHANGED <<outstanding, clients, grab, held, failed>>

HandleQuit(c) ==
    /\ "quit" \in Effects
    /\ DisconnectWithPendingCleanup(c)
    /\ UNCHANGED outstanding

\* KillClient on a resource of another client runs process_disconnect in
\* the handler, which leaves that client's backend work parked.
HandleKillClient(c) ==
    /\ "kill" \in Effects
    /\ \E d \in clients \ {c} : ProcessDisconnect(d)
    /\ GrantRequestCredit(c)
    /\ UNCHANGED parked

\* process_request_inline: a request of a client that is gone is dropped.
ProcessRequest(c) ==
    \/ /\ c \notin clients
       /\ UNCHANGED <<outstanding, connVars, last>>
    \/ /\ c \in clients
       /\ last' = [last EXCEPT ![c] = Head(queue[c])]
       /\ \/ HandlePlain(c)
          \/ HandleGrabServer(c)
          \/ HandleUngrabServer(c)
          \/ HandleAwait(c)
          \/ HandleResume(c)
          \/ HandlePending(c)
          \/ HandleQuit(c)
          \/ HandleKillClient(c)

\* The drain of a VT release has a budget of its own that never runs out
\* by count; EndVtRelease stands for its deadline.
Draining ==
    \/ pc \in {"backlog", "drain"} /\ ~BudgetExhausted
    \/ pc = "vt"

\* One round of drain_pending_requests: the popped request is executed...
Dispatch ==
    /\ Draining
    /\ \E i \in Turns(ready, Runnable) :
          LET c == ready[i]
          IN  /\ grab \in {NoClient, c}
              /\ ProcessRequest(c)
              /\ ReleaseIfUngrabbed(PopFront(queue, c), RingAfterPop(queue, ready, i))
    /\ budget' = IF pc = "vt" THEN budget ELSE budget - 1
    /\ clock' = IF clock = "fresh" /\ pc # "vt" THEN "running" ELSE clock
    /\ UNCHANGED <<reader, sent, linkVars, pc, notified, batch>>

\* ... or set aside, because another client has the server grab.
Divert ==
    /\ Draining
    /\ \E i \in Turns(ready, Runnable) :
          LET c == ready[i]
          IN  /\ grab \notin {NoClient, c}
              /\ queue' = PopFront(queue, c)
              /\ ready' = RingAfterPop(queue, ready, i)
              /\ waiting' = PushBack(waiting, c, Head(queue[c]))
              /\ waitOrder' = RingAfterPush(waiting, waitOrder, c)
    /\ clock' = IF clock = "fresh" /\ pc # "vt" THEN "running" ELSE clock
    /\ UNCHANGED <<readerVars, linkVars, connVars, last, pc, notified, batch, budget>>

\* REQUEST_TIME_BUDGET passes, never before the backlog's first request.
Deadline ==
    /\ pc \in {"backlog", "events", "notify", "drain"}
    /\ clock = "running" \/ (clock = "fresh" /\ pc # "backlog")
    /\ clock' = "late"
    /\ UNCHANGED <<readerVars, linkVars, connVars, last, queueVars, pc, notified, batch, budget>>

EndDrain ==
    /\ pc \in {"backlog", "drain"}
    /\ BudgetExhausted \/ ~HasRunnable
    /\ pc' = "events"
    /\ UNCHANGED <<readerVars, linkVars, connVars, last, queueVars, notified, batch, budget, clock>>
-------------------------------------------------------------------------------
(***************************************************************************)
(* The rest of the iteration                                               *)
(***************************************************************************)

Pending == vt = "sent" \/ \E c \in Client : channel[c] # << >>

\* poll returns.  A message in the channel is always announced; a wake-up
\* whose message an earlier drain already took announces nothing.
PollReturns ==
    /\ pc = "poll"
    /\ pc' = "backlog"
    /\ notified' \in {Pending, TRUE}
    /\ budget' = MaxRequests
    /\ clock' = "fresh"
    /\ UNCHANGED <<readerVars, linkVars, connVars, last, queueVars, batch>>

\* With runnable work the timeout is zero...
PollWork == (HasRunnable \/ Pending) /\ PollReturns

\* ... without it only a file descriptor or a deadline wakes the loop.
PollIdle == ~(HasRunnable \/ Pending) /\ PollReturns

\* A WRITABLE event on a client's socket: drain_outbound fails.
WritableFails(c) ==
    /\ pc = "events"
    /\ c \in clients
    /\ DisconnectWithPendingCleanup(c)
    /\ UNCHANGED <<readerVars, linkVars, last, queueVars, loopVars>>

StartNotify ==
    /\ pc = "events"
    /\ notified
    /\ pc' = "notify"
    /\ notified' = FALSE
    /\ batch' = channel
    /\ channel' = Empty
    /\ vt' = IF vt = "sent" THEN "batched" ELSE vt
    /\ UNCHANGED <<readerVars, connVars, last, queueVars, budget, clock>>

\* Message::Request and Message::ClientDisconnected.
Receive(c) ==
    /\ pc = "notify"
    /\ batch[c] # << >>
    /\ batch' = PopFront(batch, c)
    /\ \/ /\ Head(batch[c]) # Eof
          /\ UNCHANGED connVars
          /\ ReleaseIfUngrabbed(PushBack(queue, c, Head(batch[c])),
                                RingAfterPush(queue, ready, c))
       \/ /\ Head(batch[c]) = Eof
          /\ DisconnectWithPendingCleanup(c)
          /\ ReleaseIfUngrabbed(queue, ready)
    /\ UNCHANGED <<readerVars, linkVars, last, pc, notified, budget, clock>>

EndNotify ==
    /\ pc = "notify"
    /\ batch = Empty
    /\ vt # "batched"
    /\ pc' = "drain"
    /\ UNCHANGED <<readerVars, linkVars, connVars, last, queueVars, notified, batch, budget, clock>>

\* Mutant: the result of backend work brings no credit back.
CompletePendingWithoutCredit(c) ==
    /\ pc \in {"notify", "vt", "tail"}
    /\ c \in parked
    /\ parked' = parked \ {c}
    /\ UNCHANGED <<clients, grab, held, failed>>
    /\ \/ pc = "notify" /\ ReleaseIfUngrabbed(queue, ready)
       \/ pc # "notify" /\ UNCHANGED queueVars
    /\ UNCHANGED <<readerVars, linkVars, last, loopVars>>

\* A parked request's result: a CRTC or device configuration arrives as a
\* message, a DRI3 export is finished at the tail.  Only a message's
\* handling is followed by the waiters' release.
CompletePending(c) ==
    /\ pc \in {"notify", "vt", "tail"}
    /\ c \in parked
    /\ \/ /\ parked' = parked \ {c}
          /\ GrantRequestCredit(c)
          /\ UNCHANGED <<clients, grab, held, failed>>
       \/ /\ c \in clients
          /\ DisconnectWithPendingCleanup(c)
          /\ UNCHANGED outstanding
    /\ \/ pc = "notify" /\ ReleaseIfUngrabbed(queue, ready)
       \/ pc # "notify" /\ UNCHANGED queueVars
    /\ UNCHANGED <<reader, sent, linkVars, last, loopVars>>

\* A handler, an event or a timer writes to a client and fails.
WriteFails(c) ==
    /\ pc # "poll"
    /\ c \in clients \ failed
    /\ failed' = failed \cup {c}
    /\ UNCHANGED <<readerVars, linkVars, clients, grab, parked, held, last, queueVars, loopVars>>

\* A system counter, an alarm or a Present fence ends a suspension.
Resume(c) ==
    /\ pc = "events"
    /\ c \in held
    /\ held' = held \ {c}
    /\ UNCHANGED <<readerVars, linkVars, clients, grab, parked, failed, last, queueVars, loopVars>>

\* settle_client_output, before and after the tail work.
SettleClientOutput ==
    /\ clients' = clients \ failed
    /\ grab' = IF grab \in failed THEN NoClient ELSE grab
    /\ parked' = parked \ failed
    /\ held' \in {held \ (failed \cup S) : S \in IF failed = {} THEN {{}} ELSE SUBSET held}
    /\ failed' = {}

Settle ==
    /\ pc = "events"
    /\ ~notified
    /\ pc' = "tail"
    /\ SettleClientOutput
    /\ UNCHANGED <<readerVars, linkVars, last, queueVars, notified, batch, budget, clock>>

\* Mutant: no release at the top of the loop.
EndIterationWithoutRelease ==
    /\ pc = "tail"
    /\ pc' = "poll"
    /\ SettleClientOutput
    /\ UNCHANGED <<readerVars, linkVars, last, queueVars, notified, batch, budget, clock>>

\* The second settle, and the top of the next iteration.
EndIteration ==
    /\ pc = "tail"
    /\ pc' = "poll"
    /\ SettleClientOutput
    /\ ReleaseIfUngrabbed(queue, ready)
    /\ UNCHANGED <<readerVars, linkVars, last, notified, batch, budget, clock>>
-------------------------------------------------------------------------------
(***************************************************************************)
(* Message::VtRelease: dispatch what is queued, then, until the input      *)
(* thread acknowledges the pause or 500 ms pass, receive; requests are     *)
(* queued and dispatched, other messages wait for the end of the barrier.  *)
(***************************************************************************)
VtRelease ==
    /\ pc = "notify"
    /\ vt = "batched"
    /\ pc' = "vt"
    /\ vt' = "done"
    /\ UNCHANGED <<readerVars, channel, connVars, last, queueVars, notified, batch, budget, clock>>

\* Mutant: a request that arrives during the barrier is lost.
VtReceiveLoses(c) ==
    /\ pc = "vt"
    /\ batch[c] # << >>
    /\ Head(batch[c]) # Eof
    /\ batch' = PopFront(batch, c)
    /\ UNCHANGED <<readerVars, linkVars, connVars, last, queueVars, pc, notified, budget, clock>>

VtReceive(c) ==
    /\ pc = "vt"
    /\ batch[c] # << >>
    /\ Head(batch[c]) # Eof
    /\ batch' = PopFront(batch, c)
    /\ queue' = PushBack(queue, c, Head(batch[c]))
    /\ ready' = RingAfterPush(queue, ready, c)
    /\ UNCHANGED <<readerVars, linkVars, connVars, last, waiting, waitOrder,
                   pc, notified, budget, clock>>

\* Mutant: the barrier queues a new message past those in the batch.
VtCollectOvertakes(c) ==
    /\ pc = "vt"
    /\ channel[c] # << >>
    /\ Head(channel[c]) # Eof
    /\ queue' = PushBack(queue, c, Head(channel[c]))
    /\ ready' = RingAfterPush(queue, ready, c)
    /\ channel' = PopFront(channel, c)
    /\ UNCHANGED <<readerVars, vt, connVars, last, waiting, waitOrder, loopVars>>

\* The barrier takes new messages once the batch holds deferred ones only.
VtCollect(c) ==
    /\ pc = "vt"
    /\ \A d \in Client : batch[d] \in {<< >>, <<Eof>>}
    /\ channel[c] # << >>
    /\ batch' = PushBack(batch, c, Head(channel[c]))
    /\ channel' = PopFront(channel, c)
    /\ UNCHANGED <<readerVars, vt, connVars, last, queueVars, pc, notified, budget, clock>>

EndVtRelease ==
    /\ pc = "vt"
    /\ pc' = "notify"
    /\ UNCHANGED connVars
    /\ ReleaseIfUngrabbed(queue, ready)
    /\ UNCHANGED <<readerVars, linkVars, last, notified, batch, budget, clock>>
-------------------------------------------------------------------------------
\* Steps the core thread takes by itself, as long as it has something to do.
CoreStep ==
    \/ PollWork \/ Dispatch \/ Divert \/ EndDrain \/ StartNotify
    \/ (\E c \in Client : Receive(c)) \/ EndNotify \/ Settle \/ EndIteration
    \/ VtRelease \/ EndVtRelease

Environment ==
    \/ PollIdle \/ Deadline \/ VtSignal
    \/ \E c \in Client :
          \/ ReaderSend(c) \/ ReaderEof(c) \/ ReaderShutdown(c)
          \/ WritableFails(c) \/ WriteFails(c) \/ CompletePending(c) \/ Resume(c)
          \/ VtReceive(c) \/ VtCollect(c)

Next == CoreStep \/ Environment

Spec == Init /\ [][Next]_vars

\* The core thread is not descheduled for ever.  Nothing is assumed of
\* clients, backend results, suspensions or write failures.
FairSpec == Spec /\ WF_vars(CoreStep)
-------------------------------------------------------------------------------
(***************************************************************************)
(* Properties                                                              *)
(***************************************************************************)

\* The ready ring of the fair queue names exactly the clients that have
\* requests queued, each once: a client missing from it would never be
\* served, one listed twice would get two turns per round.
RingExact == RingMatches(queue, ready)

\* s continues a stream whose first n requests lie ahead of it; on the way
\* to the core the stream may end in ClientDisconnected.
Follows(s, n) == \A i \in DOMAIN s : s[i] = n + i

FollowsToEof(s, n) == \A i \in DOMAIN s : s[i] \in {n + i, Eof}

\* A connected client's requests lie in one unbroken stream: dispatched,
\* waiting for the server grab, queued, collected, in the channel.  None
\* is lost, duplicated or overtaken, whatever was set aside and restored.
RequestsInOrder ==
    \A c \in clients :
        LET w == last[c] + Len(waiting[c])
            q == w + Len(queue[c])
            b == q + Len(batch[c])
        IN  /\ Follows(waiting[c], last[c])
            /\ Follows(queue[c], w)
            /\ FollowsToEof(batch[c], q)
            /\ FollowsToEof(channel[c], b)
            /\ reader[c] => sent[c] = b + Len(channel[c])

\* The requests of one client are dispatched in the order they were sent,
\* each exactly once (run.rs: "Request order is preserved within each
\* client, as required by X11").
DispatchedInOrder ==
    [][\A c \in Client : last'[c] # last[c] => last'[c] = last[c] + 1]_vars

\* Every request a connected client's reader has accepted is either not yet
\* dispatched, or parked, or its credit has come back: credit lost would
\* stop the reader for good, credit returned twice would open its window.
CreditConserved ==
    \A c \in clients :
        outstanding[c] = (sent[c] - last[c]) + (IF c \in parked THEN 1 ELSE 0)

\* When the loop is about to block, whoever still waits for the server grab
\* waits for a client that is connected and is not itself waiting: no
\* client hangs behind a grab whose owner has died.
NoOrphanWaiters ==
    pc = "poll" /\ waitOrder # << >> => grab \in clients \ Members(waitOrder)

\* Once nobody owns the server grab, the requests set aside for it return
\* to the queue, whichever path dropped the grab.
WaitersFreed ==
    \A c \in Client : (waiting[c] # << >> /\ grab = NoClient) ~> waiting[c] = << >>

(***************************************************************************)
(* The abstract service.  A client with a failed write is already out of   *)
(* it, although its connection is closed, and its grab dropped, only when  *)
(* client output is settled.                                               *)
(***************************************************************************)
Service == INSTANCE RequestService WITH
               connected <- clients \ failed,
               issued    <- sent,
               executed  <- last,
               owner     <- grab,
               blocked   <- (clients \ failed) \cap (parked \cup held)

\* The request path implements RequestService: neither the rings, nor the
\* requests set aside for a grab and restored, nor the batches, nor a
\* failed write noticed late are visible in what is executed when.
ImplementsService == Service!Spec

\* ... and it serves every client it can: whether the request lies in the
\* channel, the queue or among the waiters of a grab that has ended, and
\* whatever the other clients do.
EveryoneServed == Service!Progress
===============================================================================
