---------------------------- MODULE CoreLoopProofs ----------------------------
(***************************************************************************)
(* Machine-checked proofs about CoreLoop, for any set of clients and any   *)
(* bounds.                                                                 *)
(***************************************************************************)
EXTENDS CoreLoop, FairRequestQueueProofs

(***************************************************************************)
(* Types and queue structure                                               *)
(***************************************************************************)

\* The parts of the type invariant, and the exactness of both rings.
ReaderOK ==
    /\ reader \in [Client -> BOOLEAN]
    /\ sent \in [Client -> Nat]
    /\ outstanding \in [Client -> Int]
    /\ last \in [Client -> Nat]

LinkOK ==
    /\ channel \in [Client -> Seq(Nat)]
    /\ batch \in [Client -> Seq(Nat)]

ConnOK ==
    /\ clients \subseteq Client
    /\ grab \in clients \cup {NoClient}
    /\ parked \subseteq Client
    /\ held \subseteq clients
    /\ failed \subseteq clients

QueueOK ==
    /\ queue \in [Client -> Seq(Nat)]
    /\ ready \in Seq(Client)
    /\ waiting \in [Client -> Seq(Nat)]
    /\ waitOrder \in Seq(Client)
    /\ RingMatches(queue, ready)
    /\ RingMatches(waiting, waitOrder)

LoopOK ==
    /\ vt \in {"idle", "sent", "batched", "done"}
    /\ pc \in {"poll", "backlog", "events", "notify", "vt", "drain", "tail"}
    /\ notified \in BOOLEAN
    /\ budget \in 0..MaxRequests
    /\ clock \in {"fresh", "running", "late"}

StructInv == ReaderOK /\ LinkOK /\ ConnOK /\ QueueOK /\ LoopOK

\* Empty queues, and an empty ring for them.
LEMMA EmptyFacts ==
    /\ Empty \in [Client -> Seq(Nat)]
    /\ << >> \in Seq(Client)
    /\ RingMatches(Empty, << >>)
<1>1. Empty \in [Client -> Seq(Nat)] /\ << >> \in Seq(Client)
  BY DEF Empty
<1>2. Occupied(Empty) = {}
  BY DEF Occupied, Empty
<1>3. Members(<< >>) = {} /\ DOMAIN << >> = {}
  BY DEF Members
<1> QED BY <1>1, <1>2, <1>3 DEF RingMatches, Lists

\* The turn belongs to a runnable client of the ring, which has a request.
LEMMA TurnFacts ==
    ASSUME QueueOK, NEW i \in Turns(ready, Runnable)
    PROVE  /\ i \in DOMAIN ready
           /\ ready[i] \in Client /\ ready[i] \in Runnable
           /\ ready[i] \in Occupied(queue)
           /\ Head(queue[ready[i]]) \in Nat
<1>1. i \in DOMAIN ready /\ ready[i] \in Runnable
  BY DEF Turns
<1>2. ready[i] \in Occupied(queue)
  BY <1>1, PopFrontExact DEF QueueOK
<1>3. ready[i] \in Client /\ Head(queue[ready[i]]) \in Nat
  BY <1>2, PopFrontQueue DEF QueueOK
<1> QED BY <1>1, <1>2, <1>3

\* Initially everything is empty.
LEMMA InitStruct == Init => StructInv
<1> SUFFICES ASSUME Init PROVE StructInv
  OBVIOUS
<1>1. ReaderOK
  BY DEF Init, ReaderOK
<1>2. LinkOK
  BY EmptyFacts DEF Init, LinkOK
<1>3. ConnOK
  BY DEF Init, ConnOK
<1>4. QueueOK
  BY EmptyFacts DEF Init, QueueOK
<1>5. LoopOK
  <2>1. MaxRequests \in 0..MaxRequests
    BY CoreLoopAssumption
  <2> QED BY <2>1 DEF Init, LoopOK
<1> QED BY <1>1, <1>2, <1>3, <1>4, <1>5 DEF StructInv

\* Freeing the waiters, or not, keeps both rings exact.
LEMMA ReleaseKeepsQueues ==
    ASSUME NEW q \in [Client -> Seq(Nat)], NEW r \in Seq(Client), RingMatches(q, r),
           waiting \in [Client -> Seq(Nat)], waitOrder \in Seq(Client),
           RingMatches(waiting, waitOrder),
           ReleaseIfUngrabbed(q, r)
    PROVE  QueueOK'
<1>1. CASE grab' = NoClient /\ ReleaseServerGrabWaiters(q, r)
  <2>1. PICK p \in Newcomers(q, waitOrder) : ready' = r \o p
    BY <1>1 DEF ReleaseServerGrabWaiters
  <2>2. queue' = Restored(q, waiting) /\ waiting' = Empty /\ waitOrder' = << >>
    BY <1>1 DEF ReleaseServerGrabWaiters
  <2>3. /\ Restored(q, waiting) \in [Client -> Seq(Nat)]
        /\ r \o p \in Seq(Client)
        /\ RingMatches(Restored(q, waiting), r \o p)
    BY ReleaseExact
  <2> QED BY <2>1, <2>2, <2>3, EmptyFacts DEF QueueOK
<1>2. CASE queue' = q /\ ready' = r /\ UNCHANGED <<waiting, waitOrder>>
  BY <1>2 DEF QueueOK
<1> QED BY <1>1, <1>2 DEF ReleaseIfUngrabbed

\* Every step keeps the queues typed and both rings exact.
LEMMA QueueStep ==
    ASSUME StructInv, [Next]_vars PROVE QueueOK'
<1>0. QueueOK /\ LinkOK
  BY DEF StructInv
<1>1. CASE UNCHANGED queueVars
  BY <1>0, <1>1 DEF QueueOK, queueVars
<1>2. CASE Dispatch
  <2>1. PICK i \in Turns(ready, Runnable) :
           ReleaseIfUngrabbed(PopFront(queue, ready[i]), RingAfterPop(queue, ready, i))
    BY <1>2 DEF Dispatch
  <2>2. i \in DOMAIN ready
    BY <1>0, TurnFacts
  <2>3. /\ PopFront(queue, ready[i]) \in [Client -> Seq(Nat)]
        /\ RingAfterPop(queue, ready, i) \in Seq(Client)
        /\ RingMatches(PopFront(queue, ready[i]), RingAfterPop(queue, ready, i))
    BY <1>0, <2>2, PopFrontExact DEF QueueOK
  <2> QED BY <1>0, <2>1, <2>3, ReleaseKeepsQueues DEF QueueOK
<1>3. CASE Divert
  <2>1. PICK i \in Turns(ready, Runnable) :
           /\ queue' = PopFront(queue, ready[i])
           /\ ready' = RingAfterPop(queue, ready, i)
           /\ waiting' = PushBack(waiting, ready[i], Head(queue[ready[i]]))
           /\ waitOrder' = RingAfterPush(waiting, waitOrder, ready[i])
    BY <1>3 DEF Divert
  <2>2. i \in DOMAIN ready /\ ready[i] \in Client /\ Head(queue[ready[i]]) \in Nat
    BY <1>0, TurnFacts
  <2>3. /\ queue' \in [Client -> Seq(Nat)] /\ ready' \in Seq(Client)
        /\ RingMatches(queue', ready')
    BY <1>0, <2>1, <2>2, PopFrontExact DEF QueueOK
  <2>4. /\ waiting' \in [Client -> Seq(Nat)] /\ waitOrder' \in Seq(Client)
        /\ RingMatches(waiting', waitOrder')
    BY <1>0, <2>1, <2>2, PushBackExact DEF QueueOK
  <2> QED BY <2>3, <2>4 DEF QueueOK
<1>4. ASSUME NEW c \in Client, Receive(c) PROVE QueueOK'
  <2>1. CASE ReleaseIfUngrabbed(PushBack(queue, c, Head(batch[c])),
                                RingAfterPush(queue, ready, c))
    <3>1. Head(batch[c]) \in Nat
      <4>1. c \in Occupied(batch)
        BY <1>4 DEF Receive, Occupied
      <4> QED BY <1>0, <4>1, PopFrontQueue DEF LinkOK
    <3>2. /\ PushBack(queue, c, Head(batch[c])) \in [Client -> Seq(Nat)]
          /\ RingAfterPush(queue, ready, c) \in Seq(Client)
          /\ RingMatches(PushBack(queue, c, Head(batch[c])), RingAfterPush(queue, ready, c))
      BY <1>0, <3>1, PushBackExact DEF QueueOK
    <3> QED BY <1>0, <2>1, <3>2, ReleaseKeepsQueues DEF QueueOK
  <2>2. CASE ReleaseIfUngrabbed(queue, ready)
    BY <1>0, <2>2, ReleaseKeepsQueues DEF QueueOK
  <2> QED BY <1>4, <2>1, <2>2 DEF Receive
<1>5. ASSUME NEW c \in Client, VtReceive(c) PROVE QueueOK'
  <2>1. Head(batch[c]) \in Nat
    <3>1. c \in Occupied(batch)
      BY <1>5 DEF VtReceive, Occupied
    <3> QED BY <1>0, <3>1, PopFrontQueue DEF LinkOK
  <2>2. /\ queue' = PushBack(queue, c, Head(batch[c]))
        /\ ready' = RingAfterPush(queue, ready, c)
        /\ waiting' = waiting /\ waitOrder' = waitOrder
    BY <1>5 DEF VtReceive
  <2>3. /\ queue' \in [Client -> Seq(Nat)] /\ ready' \in Seq(Client)
        /\ RingMatches(queue', ready')
    BY <1>0, <2>1, <2>2, PushBackExact DEF QueueOK
  <2> QED BY <1>0, <2>2, <2>3 DEF QueueOK
<1>6. CASE ReleaseIfUngrabbed(queue, ready)
  BY <1>0, <1>6, ReleaseKeepsQueues DEF QueueOK
<1>7. ASSUME NEW c \in Client, CompletePending(c) PROVE QueueOK'
  BY <1>1, <1>6, <1>7 DEF CompletePending
<1>8. CASE EndIteration \/ EndVtRelease
  BY <1>6, <1>8 DEF EndIteration, EndVtRelease
<1>9. CASE PollWork \/ EndDrain \/ StartNotify \/ EndNotify \/ Settle \/ VtRelease
           \/ PollIdle \/ Deadline \/ VtSignal
  BY <1>1, <1>9 DEF PollWork, PollIdle, PollReturns, EndDrain, StartNotify, EndNotify,
     Settle, VtRelease, Deadline, VtSignal
<1>10. ASSUME NEW c \in Client,
              ReaderSend(c) \/ ReaderEof(c) \/ ReaderShutdown(c) \/ WritableFails(c)
                \/ WriteFails(c) \/ Resume(c) \/ VtCollect(c)
       PROVE  QueueOK'
  BY <1>1, <1>10 DEF ReaderSend, ReaderEof, ReaderShutdown, WritableFails, WriteFails,
     Resume, VtCollect
<1>11. CASE UNCHANGED vars
  BY <1>1, <1>11 DEF vars
<1> QED BY <1>2, <1>3, <1>4, <1>5, <1>7, <1>8, <1>9, <1>10, <1>11
        DEF Next, CoreStep, Environment

\* Every step keeps the channel and the batch sequences of messages.
LEMMA LinkStep ==
    ASSUME StructInv, [Next]_vars PROVE LinkOK'
<1>0. LinkOK /\ \A c \in Client : sent[c] \in Nat
  BY DEF StructInv, ReaderOK
<1>1. CASE UNCHANGED <<channel, batch>>
  BY <1>0, <1>1 DEF LinkOK
<1>2. ASSUME NEW c \in Client, NEW m \in Nat,
             channel' = PushBack(channel, c, m), batch' = batch
      PROVE  LinkOK'
  BY <1>0, <1>2, PushBackQueue DEF LinkOK
<1>3. ASSUME NEW c \in Client, ReaderSend(c) \/ ReaderEof(c) PROVE LinkOK'
  <2>1. sent[c] + 1 \in Nat /\ Eof \in Nat
    BY <1>0 DEF Eof
  <2>2. \/ channel' = PushBack(channel, c, sent[c] + 1) /\ batch' = batch
        \/ channel' = PushBack(channel, c, Eof) /\ batch' = batch
    BY <1>3 DEF ReaderSend, ReaderEof, PushBack, loopVars
  <2> QED BY <1>2, <2>1, <2>2
<1>4. ASSUME NEW c \in Client, Receive(c) \/ VtReceive(c) PROVE LinkOK'
  <2>1. c \in Occupied(batch) /\ batch' = PopFront(batch, c) /\ channel' = channel
    BY <1>4 DEF Receive, VtReceive, linkVars, Occupied
  <2> QED BY <1>0, <2>1, PopFrontQueue DEF LinkOK
<1>5. ASSUME NEW c \in Client, VtCollect(c) PROVE LinkOK'
  <2>1. /\ c \in Occupied(channel) /\ channel' = PopFront(channel, c)
        /\ batch' = PushBack(batch, c, Head(channel[c]))
    BY <1>5 DEF VtCollect, Occupied
  <2>2. Head(channel[c]) \in Nat /\ channel' \in [Client -> Seq(Nat)]
    BY <1>0, <2>1, PopFrontQueue DEF LinkOK
  <2> QED BY <1>0, <2>1, <2>2, PushBackQueue DEF LinkOK
<1>6. CASE StartNotify
  BY <1>0, <1>6, EmptyFacts DEF StartNotify, LinkOK
<1>7. CASE PollWork \/ EndDrain \/ EndNotify \/ Settle \/ VtRelease \/ PollIdle
           \/ Deadline \/ VtSignal \/ Dispatch \/ Divert \/ EndIteration \/ EndVtRelease
  BY <1>1, <1>7 DEF PollWork, PollIdle, PollReturns, EndDrain, EndNotify, Settle, VtRelease,
     Deadline, VtSignal, Dispatch, Divert, EndIteration, EndVtRelease, linkVars, loopVars
<1>8. ASSUME NEW c \in Client,
             ReaderShutdown(c) \/ WritableFails(c) \/ WriteFails(c) \/ Resume(c)
               \/ CompletePending(c)
      PROVE  LinkOK'
  BY <1>1, <1>8 DEF ReaderShutdown, WritableFails, WriteFails, Resume, CompletePending,
     linkVars, loopVars
<1>9. CASE UNCHANGED vars
  BY <1>1, <1>9 DEF vars, linkVars, loopVars
<1> QED BY <1>3, <1>4, <1>5, <1>6, <1>7, <1>8, <1>9 DEF Next, CoreStep, Environment

\* A disconnect leaves no trace of the client in grab, held and failed.
LEMMA DisconnectKeepsConn ==
    ASSUME ConnOK, NEW c \in Client, ProcessDisconnect(c), parked' \subseteq parked
    PROVE  ConnOK' /\ c \notin clients' /\ held' \subseteq held
<1>1. held' \subseteq held \ {c}
  <2>1. CASE c \in clients
    BY <2>1 DEF ProcessDisconnect
  <2>2. CASE c \notin clients
    BY <2>2 DEF ProcessDisconnect, ConnOK
  <2> QED BY <2>1, <2>2
<1>2. /\ clients' = clients \ {c}
      /\ grab' = IF grab = c THEN NoClient ELSE grab
      /\ failed' = failed \ {c}
  BY DEF ProcessDisconnect
<1> QED BY <1>1, <1>2 DEF ConnOK

\* settle_client_output likewise, for every client with a failed write.
LEMMA SettleKeepsConn ==
    ASSUME ConnOK, SettleClientOutput
    PROVE  ConnOK' /\ held' \subseteq held
<1>1. held' \subseteq held \ failed
  BY DEF SettleClientOutput
<1>2. /\ clients' = clients \ failed
      /\ grab' = IF grab \in failed THEN NoClient ELSE grab
      /\ parked' = parked \ failed
      /\ failed' = {}
  BY DEF SettleClientOutput
<1> QED BY <1>1, <1>2 DEF ConnOK

\* Every step keeps the connection state typed; the grab's owner and the
\* suspended clients stay connected ones.
LEMMA ConnStep ==
    ASSUME StructInv, [Next]_vars PROVE ConnOK'
<1>0. ConnOK /\ QueueOK
  BY DEF StructInv
<1>1. CASE UNCHANGED connVars
  BY <1>0, <1>1 DEF ConnOK, connVars
<1>2. CASE Dispatch
  <2>1. PICK i \in Turns(ready, Runnable) : ProcessRequest(ready[i])
    BY <1>2 DEF Dispatch
  <2> DEFINE c == ready[i]
  <2>2. c \in Client
    BY <1>0, TurnFacts
  <2>3. ProcessRequest(c)
    BY <2>1
  <2> HIDE DEF c
  <2>4. CASE c \notin clients /\ UNCHANGED connVars
    BY <1>1, <2>4
  <2>5. CASE c \in clients /\ HandlePlain(c)
    BY <1>1, <2>5 DEF HandlePlain
  <2>6. CASE c \in clients /\ (HandleGrabServer(c) \/ HandleUngrabServer(c))
    BY <1>0, <2>6 DEF HandleGrabServer, HandleUngrabServer, ConnOK
  <2>7. CASE c \in clients /\ (HandleAwait(c) \/ HandleResume(c) \/ HandlePending(c))
    BY <1>0, <2>7 DEF HandleAwait, HandleResume, HandlePending, ConnOK
  <2>8. CASE HandleQuit(c)
    BY <1>0, <2>2, <2>8, DisconnectKeepsConn DEF HandleQuit, DisconnectWithPendingCleanup
  <2>9. CASE HandleKillClient(c)
    <3>1. PICK d \in clients \ {c} : ProcessDisconnect(d)
      BY <2>9 DEF HandleKillClient
    <3>2. d \in Client /\ parked' = parked
      BY <1>0, <2>9 DEF HandleKillClient, ConnOK
    <3> QED BY <1>0, <3>1, <3>2, DisconnectKeepsConn
  <2> QED BY <2>3, <2>4, <2>5, <2>6, <2>7, <2>8, <2>9 DEF ProcessRequest
<1>3. ASSUME NEW c \in Client, DisconnectWithPendingCleanup(c) PROVE ConnOK'
  BY <1>0, <1>3, DisconnectKeepsConn DEF DisconnectWithPendingCleanup
<1>4. ASSUME NEW c \in Client, Receive(c) \/ WritableFails(c) PROVE ConnOK'
  BY <1>1, <1>3, <1>4 DEF Receive, WritableFails
<1>5. ASSUME NEW c \in Client, CompletePending(c) PROVE ConnOK'
  <2>1. CASE parked' = parked \ {c} /\ UNCHANGED <<clients, grab, held, failed>>
    BY <1>0, <2>1 DEF ConnOK
  <2> QED BY <1>3, <1>5, <2>1 DEF CompletePending
<1>6. ASSUME NEW c \in Client, WriteFails(c) \/ Resume(c) PROVE ConnOK'
  BY <1>0, <1>6 DEF WriteFails, Resume, ConnOK
<1>7. CASE Settle \/ EndIteration
  BY <1>0, <1>7, SettleKeepsConn DEF Settle, EndIteration
<1>8. CASE PollWork \/ EndDrain \/ EndNotify \/ StartNotify \/ VtRelease \/ PollIdle
           \/ Deadline \/ VtSignal \/ Divert \/ EndVtRelease
  BY <1>1, <1>8 DEF PollWork, PollIdle, PollReturns, EndDrain, EndNotify, StartNotify,
     VtRelease, Deadline, VtSignal, Divert, EndVtRelease
<1>9. ASSUME NEW c \in Client,
             ReaderSend(c) \/ ReaderEof(c) \/ ReaderShutdown(c) \/ VtReceive(c) \/ VtCollect(c)
      PROVE  ConnOK'
  BY <1>1, <1>9 DEF ReaderSend, ReaderEof, ReaderShutdown, VtReceive, VtCollect
<1>10. CASE UNCHANGED vars
  BY <1>1, <1>10 DEF vars
<1> QED BY <1>2, <1>4, <1>5, <1>6, <1>7, <1>8, <1>9, <1>10 DEF Next, CoreStep, Environment

\* Every step keeps the readers' counters and the last sequence numbers typed.
LEMMA ReaderStep ==
    ASSUME StructInv, [Next]_vars PROVE ReaderOK'
<1>0. ReaderOK /\ QueueOK
  BY DEF StructInv
<1>1. CASE UNCHANGED <<readerVars, last>>
  BY <1>0, <1>1 DEF ReaderOK, readerVars
<1>2. ASSUME NEW c \in Client, GrantRequestCredit(c) PROVE outstanding' \in [Client -> Int]
  BY <1>0, <1>2 DEF GrantRequestCredit, ReaderOK
<1>3. CASE Dispatch
  <2>1. PICK i \in Turns(ready, Runnable) : ProcessRequest(ready[i])
    BY <1>3 DEF Dispatch
  <2> DEFINE c == ready[i]
  <2>2. c \in Client /\ Head(queue[c]) \in Nat
    BY <1>0, TurnFacts
  <2>3. ProcessRequest(c) /\ reader' = reader /\ sent' = sent
    BY <1>3, <2>1 DEF Dispatch
  <2> HIDE DEF c
  <2>4. last' \in [Client -> Nat]
    BY <1>0, <2>2, <2>3 DEF ProcessRequest, ReaderOK
  <2>5. outstanding' = outstanding \/ GrantRequestCredit(c)
    BY <2>3 DEF ProcessRequest, HandlePlain, HandleGrabServer, HandleUngrabServer,
       HandleAwait, HandleResume, HandlePending, HandleQuit, HandleKillClient
  <2> QED BY <1>0, <1>2, <2>2, <2>3, <2>4, <2>5 DEF ReaderOK
<1>4. ASSUME NEW c \in Client, CompletePending(c) PROVE ReaderOK'
  <2>1. outstanding' = outstanding \/ GrantRequestCredit(c)
    BY <1>4 DEF CompletePending
  <2>2. reader' = reader /\ sent' = sent /\ last' = last
    BY <1>4 DEF CompletePending
  <2> QED BY <1>0, <1>2, <2>1, <2>2 DEF ReaderOK
<1>5. ASSUME NEW c \in Client, ReaderSend(c) \/ ReaderEof(c) \/ ReaderShutdown(c)
      PROVE  ReaderOK'
  <2>1. CASE ReaderSend(c)
    <3>1. /\ sent' = [sent EXCEPT ![c] = @ + 1] /\ reader' = reader /\ last' = last
          /\ outstanding' = [outstanding EXCEPT ![c] = @ + 1]
      BY <2>1 DEF ReaderSend
    <3>2. sent' \in [Client -> Nat] /\ outstanding' \in [Client -> Int]
      BY <1>0, <3>1 DEF ReaderOK
    <3> QED BY <1>0, <3>1, <3>2 DEF ReaderOK
  <2>2. CASE ReaderEof(c) \/ ReaderShutdown(c)
    <3>1. /\ reader' = [reader EXCEPT ![c] = FALSE] /\ sent' = sent
          /\ outstanding' = outstanding /\ last' = last
      BY <2>2 DEF ReaderEof, ReaderShutdown
    <3>2. reader' \in [Client -> BOOLEAN]
      BY <1>0, <3>1 DEF ReaderOK
    <3> QED BY <1>0, <3>1, <3>2 DEF ReaderOK
  <2> QED BY <1>5, <2>1, <2>2
<1>6. CASE PollWork \/ EndDrain \/ EndNotify \/ StartNotify \/ VtRelease \/ PollIdle
           \/ Deadline \/ VtSignal \/ Divert \/ EndVtRelease \/ Settle \/ EndIteration
  BY <1>1, <1>6 DEF PollWork, PollIdle, PollReturns, EndDrain, EndNotify, StartNotify,
     VtRelease, Deadline, VtSignal, Divert, EndVtRelease, Settle, EndIteration
<1>7. ASSUME NEW c \in Client,
             Receive(c) \/ WritableFails(c) \/ WriteFails(c) \/ Resume(c)
               \/ VtReceive(c) \/ VtCollect(c)
      PROVE  ReaderOK'
  BY <1>1, <1>7 DEF Receive, WritableFails, WriteFails, Resume, VtReceive, VtCollect
<1>8. CASE UNCHANGED vars
  BY <1>1, <1>8 DEF vars
<1> QED BY <1>3, <1>4, <1>5, <1>6, <1>7, <1>8 DEF Next, CoreStep, Environment

\* Every step keeps the loop's own state typed; the budget is never
\* overdrawn.
LEMMA LoopStep ==
    ASSUME StructInv, [Next]_vars PROVE LoopOK'
<1>0. LoopOK /\ MaxRequests \in Nat
  BY CoreLoopAssumption DEF StructInv
<1>1. CASE UNCHANGED <<vt, pc, notified, budget, clock>>
  BY <1>0, <1>1 DEF LoopOK
<1>2. CASE Dispatch
  <2>1. pc # "vt" => budget # 0
    BY <1>2 DEF Dispatch, Draining, BudgetExhausted
  <2>2. /\ budget' = IF pc = "vt" THEN budget ELSE budget - 1
        /\ clock' \in {clock, "running"}
        /\ pc' = pc /\ vt' = vt /\ notified' = notified
    BY <1>2 DEF Dispatch, linkVars
  <2>3. budget' \in 0..MaxRequests
    BY <1>0, <2>1, <2>2 DEF LoopOK
  <2> QED BY <1>0, <2>2, <2>3 DEF LoopOK
<1>3. CASE PollWork \/ PollIdle
  <2>1. /\ pc' = "backlog" /\ notified' \in {Pending, TRUE} /\ budget' = MaxRequests
        /\ clock' = "fresh" /\ vt' = vt
    BY <1>3 DEF PollWork, PollIdle, PollReturns, linkVars
  <2>2. notified' \in BOOLEAN
    BY <2>1 DEF Pending
  <2>3. budget' \in 0..MaxRequests
    BY <1>0, <2>1
  <2> QED BY <1>0, <2>1, <2>2, <2>3 DEF LoopOK
<1>4. CASE EndDrain \/ EndNotify \/ StartNotify \/ VtRelease \/ Deadline \/ VtSignal
           \/ Divert \/ EndVtRelease \/ Settle \/ EndIteration
  <2>1. /\ pc' \in {pc, "events", "drain", "notify", "vt", "tail", "poll"}
        /\ vt' \in {vt, "sent", "batched", "done"}
        /\ clock' \in {clock, "running", "late"}
    BY <1>4 DEF EndDrain, EndNotify, StartNotify, VtRelease, Deadline, VtSignal,
       Divert, EndVtRelease, Settle, EndIteration, linkVars, loopVars
  <2>2. notified' \in {notified, FALSE} /\ budget' = budget
    BY <1>4 DEF EndDrain, EndNotify, StartNotify, VtRelease, Deadline, VtSignal,
       Divert, EndVtRelease, Settle, EndIteration, loopVars
  <2> QED BY <1>0, <2>1, <2>2 DEF LoopOK
<1>5. ASSUME NEW c \in Client,
             ReaderSend(c) \/ ReaderEof(c) \/ ReaderShutdown(c) \/ Receive(c)
               \/ WritableFails(c) \/ WriteFails(c) \/ CompletePending(c) \/ Resume(c)
               \/ VtReceive(c) \/ VtCollect(c)
      PROVE  LoopOK'
  BY <1>1, <1>5 DEF ReaderSend, ReaderEof, ReaderShutdown, Receive, WritableFails,
     WriteFails, CompletePending, Resume, VtReceive, VtCollect, linkVars, loopVars
<1>6. CASE UNCHANGED vars
  BY <1>1, <1>6 DEF vars, linkVars, loopVars
<1> QED BY <1>2, <1>3, <1>4, <1>5, <1>6 DEF Next, CoreStep, Environment

\* The parts together are an inductive invariant.
THEOREM StructInvariant == Spec => []StructInv
<1>1. StructInv /\ [Next]_vars => StructInv'
  BY QueueStep, LinkStep, ConnStep, ReaderStep, LoopStep DEF StructInv
<1> QED BY <1>1, InitStruct, PTL DEF Spec

\* Type correctness of the core loop, VT switches included.
THEOREM TypeCorrect == Spec => []TypeOK
<1>1. StructInv => TypeOK
  BY DEF StructInv, ReaderOK, LinkOK, ConnOK, QueueOK, LoopOK, TypeOK
<1> QED BY <1>1, StructInvariant, PTL

\* The ready ring always names exactly the clients with queued requests,
\* each once: run.rs pushes to, pops from and prepends to queue and ring
\* in separate statements, and no sequence of them lets the two diverge.
THEOREM RingAlwaysExact == Spec => []RingExact
<1>1. StructInv => RingExact
  BY DEF StructInv, QueueOK, RingExact
<1> QED BY <1>1, StructInvariant, PTL
===============================================================================
